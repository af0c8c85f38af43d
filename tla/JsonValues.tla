-------------------------------- MODULE JsonValues --------------------------------
(***********************************************************************************)
(* JSON values as contracts.py holds them.  A dict keeps the order its keys were      *)
(* written in.                                                                      *)
(*                                                                                 *)
(* What a handler computes by recursion over a value is a recursive function on      *)
(* Values, so that it can be reasoned about by induction on the depth.               *)
(***********************************************************************************)
EXTENDS Integers, Sequences, FiniteSets, SequencesExt

CONSTANTS
  Values,    \* the values that occur
  KeyOrder   \* every key that occurs, as sorted() orders them

Null == [kind |-> "null"]
Str(text) == [kind |-> "str", text |-> text]
Bool(b) == [kind |-> "bool", value |-> b]
List(items) == [kind |-> "list", items |-> items]
Dict(keys, at) == [kind |-> "dict", keys |-> keys, at |-> at]

\* Decimal.as_tuple(): no leading zeros.  An int is a number written with exponent 0.
Num(negative, digits, exponent) ==
  [kind |-> "num", negative |-> negative, digits |-> digits, exponent |-> exponent]

\* What parse_json_object_pairs returns for distinct keys: they keep their order.
Doc(pairs) ==
  Dict([i \in DOMAIN pairs |-> pairs[i][1]],
       [key \in {pairs[i][1] : i \in DOMAIN pairs} |->
          pairs[CHOOSE i \in DOMAIN pairs : pairs[i][1] = key][2]])

Has(v, key) == v.kind = "dict" /\ key \in DOMAIN v.at

IsInt(v) == v.kind = "num" /\ v.exponent = 0

Magnitude(n) ==
  FoldLeft(LAMBDA sum, digit : 10 * sum + digit, 0, n.digits) * (IF n.negative THEN -1 ELSE 1)

Total(numbers) ==
  LET sum[i \in {0} \cup DOMAIN numbers] == IF i = 0 THEN 0 ELSE sum[i - 1] + numbers[i]
  IN  sum[Cardinality(DOMAIN numbers)]

Largest(numbers) == Max({0} \cup ToSet(numbers))

\* The values a value is made of.
Parts(v) ==
  CASE v.kind = "list" -> v.items
    [] v.kind = "dict" -> [i \in DOMAIN v.keys |-> v.at[v.keys[i]]]
    [] OTHER -> <<>>

Depth[v \in Values] == 1 + Largest([i \in DOMAIN Parts(v) |-> Depth[Parts(v)[i]]])

\* A value is a finite tree, and Values holds it with all it is made of.
ASSUME ValuesAssumption ==
  \A v \in Values :
    /\ Depth[v] \in Nat
    /\ Parts(v) \in Seq(Values)
    /\ \A i \in DOMAIN Parts(v) : Depth[Parts(v)[i]] < Depth[v]
    /\ v.kind = "str" => v.text \in STRING /\ v = Str(v.text)
    /\ v.kind = "dict" => v.keys \in Seq(STRING) /\ DOMAIN v.at = ToSet(v.keys)

ASSUME KeyOrderAssumption ==
  /\ KeyOrder \in Seq(STRING) /\ IsInjective(KeyOrder)
  /\ \A v \in Values : v.kind = "dict" => DOMAIN v.at \subseteq ToSet(KeyOrder)

\* What of s is in P, in the order of s: SelectSeq as a recursive function.
Kept(s, P) ==
  LET kept[i \in {0} \cup DOMAIN s] ==
        IF i = 0 THEN <<>>
        ELSE IF s[i] \in P THEN Append(kept[i - 1], s[i]) ELSE kept[i - 1]
  IN  kept[Len(s)]

SortedKeys(keys) == Kept(KeyOrder, keys)

-----------------------------------------------------------------------------------
(* When two values are the same JSON document: what the text of one must tell from the  *)
(* text of the other, defined without texts.                                         *)

SameNumber(n, m) ==
  LET low == Min({n.exponent, m.exponent})
  IN  Magnitude(n) * 10^(n.exponent - low) = Magnitude(m) * 10^(m.exponent - low)

SameJson[v \in Values] ==
  [w \in Values |->
     /\ v.kind = w.kind
     /\ v.kind = "num" => SameNumber(v, w)
     /\ v.kind = "list" => /\ Len(v.items) = Len(w.items)
                           /\ \A i \in DOMAIN v.items : SameJson[v.items[i]][w.items[i]]
     /\ v.kind = "dict" => /\ DOMAIN v.at = DOMAIN w.at
                           /\ \A key \in DOMAIN v.at : SameJson[v.at[key]][w.at[key]]
     /\ v.kind \notin {"num", "list", "dict"} => v = w]
===================================================================================

------------------------------- MODULE CanonicalJson ------------------------------
(***********************************************************************************)
(* The text encode_json_bytes writes for a JSON value.  The digest that identifies a  *)
(* request is taken of that text, so two spellings of one document must have one text, *)
(* and two documents two.  A text is a sequence of tokens.                            *)
(***********************************************************************************)
EXTENDS JsonValues

-----------------------------------------------------------------------------------
(* _encode_json_number: the shortest text, without an exponent where it can.        *)

Zero(n) == \A i \in DOMAIN n.digits : n.digits[i] = 0

\* How many digits remain when trailing zeros are taken off.
Significant(n) == Max({i \in DOMAIN n.digits : n.digits[i] # 0})

DigitTexts(digits) == [i \in DOMAIN digits |-> ToString(digits[i])]

\* Faulty: trailing zeros stay.
EncodeNumberAsWritten(n) ==
  LET d == DigitTexts(n.digits)
  IN  IF Zero(n) THEN <<"0">>
      ELSE (IF n.negative THEN <<"-">> ELSE <<>>) \o d \o <<"e", ToString(n.exponent)>>

EncodeNumber(n) ==
  LET kept     == Significant(n)
      d        == DigitTexts(SubSeq(n.digits, 1, kept))
      exponent == n.exponent + Len(n.digits) - kept
      point    == kept + exponent
      unsigned == CASE exponent >= 0 -> d \o [i \in 1..exponent |-> "0"]
                    [] exponent < 0 /\ point > 0
                         -> SubSeq(d, 1, point) \o <<".">> \o SubSeq(d, point + 1, kept)
                    [] OTHER
                         -> <<d[1]>> \o (IF kept > 1 THEN <<".">> \o Tail(d) ELSE <<>>)
                              \o <<"e", ToString(point - 1)>>
  IN  IF Zero(n) THEN <<"0">>
      ELSE (IF n.negative THEN <<"-">> ELSE <<>>) \o unsigned

-----------------------------------------------------------------------------------
(* _encode_json.                                                                   *)

RECURSIVE Encode(_, _)
Encode(v, sort) ==
  CASE v.kind = "null" -> <<"null">>
    [] v.kind = "bool" -> <<ToString(v.value)>>
    [] v.kind = "num"  -> EncodeNumber(v)
    [] v.kind = "str"  -> <<"'", v.text>>
    [] v.kind = "list" ->
         <<"[">> \o FlattenSeq([i \in DOMAIN v.items |-> Encode(v.items[i], sort) \o <<",">>])
                 \o <<"]">>
    [] v.kind = "dict" ->
         LET keys == IF sort THEN SortedKeys(DOMAIN v.at) ELSE v.keys
         IN  <<"{">>
               \o FlattenSeq([i \in DOMAIN keys |->
                                <<keys[i], ":">> \o Encode(v.at[keys[i]], sort) \o <<",">>])
               \o <<"}">>

\* The text InferenceRequest.canonical_digest hashes.
Canonical(v) == Encode(v, TRUE)
===================================================================================

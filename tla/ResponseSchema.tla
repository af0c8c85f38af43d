------------------------------ MODULE ResponseSchema ------------------------------
(***********************************************************************************)
(* Which response schemas the gateway admits (contracts.py, and the task policies of *)
(* app.py), and what it sends a worker for one (worker.py).  The digest of a request   *)
(* ignores the order of keys, the decoder of a worker does not: the field order it    *)
(* sees must come from the document's meaning.                                        *)
(*                                                                                 *)
(* A client writes one request again and again, its keys in another order or a number *)
(* in another form, or reuses the identity for another document.                      *)
(***********************************************************************************)
EXTENDS CanonicalJson, DecoderOrder

CONSTANT Documents   \* the schemas a client knows

ASSUME DocumentsAssumption == Documents \subseteq Values

SummaryV1 == "document.summary.step@1"
SummaryV2 == "document.summary.step@2"

-----------------------------------------------------------------------------------
(* Task policies: _validate_policy and TASK_POLICIES, and the context a task needs.  *)

AllowsPassages(task) == task = SummaryV2
AllowsRootChoice(task) == task \in {SummaryV1, SummaryV2}

PolicyAllows(task, s) ==
  /\ Has(s, "$defs") => AllowsPassages(task)
  /\ IsRootChoice(s) => AllowsRootChoice(task)

-----------------------------------------------------------------------------------
(* What the worker is sent: the payload of _infer.                                  *)

\* Faulty: the payload is never sorted.
WireAsSent(task, s) == <<task, Encode(DecoderSchema(s, task), FALSE)>>

Wire(task, s) == <<task, Encode(DecoderSchema(s, task), ~ UsesFieldOrder(s, task))>>

-----------------------------------------------------------------------------------
(* One request identity, and what is written under it.                              *)

VARIABLES
  task,         \* the task the client writes its document for
  held,         \* the digest the identity was reserved with, if it was
  wire          \* every text a worker was sent for it
vars == <<task, sent, held, wire>>

Digest == <<task, Canonical(sent)>>

\* Every document one step away: two keys changed places, or a zero at a number's end.
RECURSIVE Respellings(_)
Respellings(v) ==
  CASE v.kind = "num" -> {Num(v.negative, Append(v.digits, 0), v.exponent - 1)}
    [] v.kind = "list" ->
         UNION {{[v EXCEPT !.items[i] = w] : w \in Respellings(v.items[i])} :
                  i \in DOMAIN v.items}
    [] v.kind = "dict" ->
         {[v EXCEPT !.keys[i] = v.keys[i + 1], !.keys[i + 1] = v.keys[i]] :
            i \in 1..(Len(v.keys) - 1)}
           \cup UNION {{[v EXCEPT !.at[key] = w] : w \in Respellings(v.at[key])} :
                         key \in DOMAIN v.at}
    [] OTHER -> {}

Init ==
  /\ task \in Tasks /\ sent \in Documents
  /\ held = {} /\ wire = {}

\* External: the client writes the same document another way.  BOUND: a way in Values.
Respell ==
  /\ sent' \in Respellings(sent) \cap Values
  /\ UNCHANGED <<task, held, wire>>

\* External: the client has something else to ask under the identity.
Rewrite ==
  /\ sent' \in Documents
  /\ UNCHANGED <<task, held, wire>>

\* A request is admitted, permitted, and not in conflict with the one that reserved its
\* identity; a worker gets it, for a repeat because the last one refused.
Post ==
  /\ Admitted(sent)
  /\ PolicyAllows(task, sent)
  /\ held \subseteq {Digest} /\ held' = {Digest}
  /\ wire' = wire \cup {Wire(task, sent)}
  /\ UNCHANGED <<task, sent>>

Next == Respell \/ Rewrite \/ Post
Spec == Init /\ [][Next]_vars

-----------------------------------------------------------------------------------
(* Properties.                                                                     *)

\* However a request is written and however often it is dispatched, a worker is sent one
\* text: what generates the stored result does not depend on which spelling came first
\* (decoder_schema, and sort_keys in OllamaWorker._infer).
OneWire == Cardinality(wire) <= 1

\* Two documents have one digest exactly when they mean the same: no replay for another
\* document, no identity conflict for the same one (encode_json_bytes).
IdentityIsMeaning ==
  LET text == Canonical(sent)
  IN  \A d \in Documents : text = Canonical(d) <=> SameJson[sent][d]
===================================================================================

----------------------------- MODULE InferencePromise -----------------------------
(***********************************************************************************)
(* What the gateway promises the applications behind it, with no store, lane,       *)
(* thread or clock in sight: one worker call at a time, a document that a worker    *)
(* may have taken is never submitted again, and all answers for a document are the  *)
(* same result, given to one credential.  GatewayService implements it.             *)
(***********************************************************************************)
CONSTANTS Documents, Credentials, Contents, None

VARIABLES
  calling,  \* the document that is with a worker now, or None
  spent,    \* documents a worker may have taken
  answers   \* results given to clients

promiseVars == <<calling, spent, answers>>

PromiseInit == calling = None /\ spent = {} /\ answers = {}

Submit(d) ==
  /\ calling = None
  /\ d \notin spent
  /\ calling' = d
  /\ UNCHANGED <<spent, answers>>

\* The worker definitively did not take the document: it may be submitted again.
Refuse ==
  /\ calling # None
  /\ calling' = None
  /\ UNCHANGED <<spent, answers>>

\* Answered, answered badly, or lost: the document is spent.
End ==
  /\ calling # None
  /\ calling' = None
  /\ spent' = spent \cup {calling}
  /\ UNCHANGED answers

Answer(c, d, x) ==
  /\ d \in spent
  /\ \A a \in answers : a.document = d => a.credential = c /\ a.content = x
  /\ answers' = answers \cup {[credential |-> c, document |-> d, content |-> x]}
  /\ UNCHANGED <<calling, spent>>

PromiseNext ==
  \/ \E d \in Documents : Submit(d)
  \/ Refuse
  \/ End
  \/ \E c \in Credentials, d \in Documents, x \in Contents : Answer(c, d, x)

PromiseSpec == PromiseInit /\ [][PromiseNext]_promiseVars
===================================================================================

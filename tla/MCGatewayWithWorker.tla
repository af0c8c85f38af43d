--------------------------- MODULE MCGatewayWithWorker ----------------------------
(* A small instance of GatewayWithWorker for TLC. *)
EXTENDS GatewayWithWorker, TLC

CONSTANTS r1

\* One identity reused with another content while it is open, and again with a later
\* expiry once its tombstone is gone and its first attempt may still be at work.
MCOneIdentity ==
  {[request_id |-> r1, expires_at |-> e, body |-> e] : e \in {1, 2, 4}}

Symmetry == Permutations(Threads) \cup Permutations(Attempts) \cup Permutations(Credentials)
              \cup Permutations(Contents)
===================================================================================

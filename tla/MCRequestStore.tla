------------------------------ MODULE MCRequestStore ------------------------------
(* A small instance of RequestStore for TLC. *)
EXTENDS RequestStore, TLC

CONSTANTS r1, r2, r3

\* Three identities for two open places; the first is claimed by two documents.
MCDocuments ==
  {[request_id |-> r1, expires_at |-> 1, body |-> 1],
   [request_id |-> r1, expires_at |-> 2, body |-> 2],
   [request_id |-> r2, expires_at |-> 2, body |-> 1],
   [request_id |-> r3, expires_at |-> 2, body |-> 1]}

Symmetry == Permutations(Credentials) \cup Permutations(Attempts)
===================================================================================

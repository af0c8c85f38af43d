----------------------------- MODULE MCOperationalProof ---------------------------
EXTENDS OperationalProof, TLC

CONSTANTS r1, r2

\* The requests of two phases, made at 0 and at 1.
MCRequests == {[request_id |-> r1, expires_at |-> 2, body |-> 1],
               [request_id |-> r2, expires_at |-> 3, body |-> 1]}

Symmetry == Permutations(Threads) \cup Permutations(Attempts)
===================================================================================

----------------------------- MODULE MCGatewayService -----------------------------
(* Small instances of GatewayService for TLC. *)
EXTENDS GatewayService, TLC

CONSTANTS r1, r2

\* One document, and the same with a second more of life.
MCOneDocument == {[request_id |-> r1, expires_at |-> 2, body |-> 1]}
MCLongDocument == {[request_id |-> r1, expires_at |-> 3, body |-> 1]}

\* Two documents of one identity, and a second identity that competes for the lane.
MCTwoIdentities ==
  {[request_id |-> r1, expires_at |-> e, body |-> e] : e \in {1, 2}}
    \cup {[request_id |-> r2, expires_at |-> 2, body |-> 1]}

Symmetry == Permutations(Threads) \cup Permutations(Attempts) \cup Permutations(Credentials)
              \cup Permutations(Contents)
===================================================================================

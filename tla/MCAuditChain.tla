---------------------------- MODULE MCAuditChain ----------------------------
(* AuditChain on a small instance.  Clients are interchangeable, and so are *)
(* the actors: symmetric states are checked once.                           *)
EXTENDS AuditChain, TLC

Symmetry == Permutations(Clients) \cup Permutations(Actors)
=============================================================================

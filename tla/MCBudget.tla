------------------------------ MODULE MCBudget ------------------------------
(* Budget on a small instance: a transaction of ann, a budget of hers, and   *)
(* one of bob that she may link it to.  Clients are interchangeable.         *)
EXTENDS Budget, TLC

MCOwner == [t1 |-> "ann", b1 |-> "ann", b2 |-> "bob"]

Symmetry == Permutations(Clients)

\* Two requests at a time where bob has no budget, with one in the row (what a
\* request is about to write may be more); one at a time wherever he has.
Focus == Cardinality(Busy) > 1 => budget["b2"] = NewBudget /\ tx["t1"].amount <= 1
=============================================================================

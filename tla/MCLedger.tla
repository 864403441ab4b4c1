------------------------------ MODULE MCLedger ------------------------------
(* Ledger on small instances.  Wallets, and requests, are interchangeable,  *)
(* so the run for calls that do not overlap checks one of each class of     *)
(* symmetric states.                                                        *)
EXTENDS Ledger, TLC

\* One amount of each sign: nothing checks it.
MCAmounts == {1, -1}

Symmetry == Permutations(Wallets) \cup Permutations(Clients)
=============================================================================

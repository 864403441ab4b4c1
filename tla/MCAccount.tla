------------------------------ MODULE MCAccount ------------------------------
(* One account on a small instance.  Account and Session share no variable,  *)
(* so a behaviour is of the one or of the other: a step of either leaves the *)
(* other where it started.                                                   *)
EXTENDS Account, Session

MCInit == Init /\ SessionInit

MCNext ==
  \/ SessionInit /\ Next /\ UNCHANGED sessionVars
  \/ Init /\ SessionNext /\ UNCHANGED vars

\* The fairness of Account; what Session promises is safety.
MCSpec ==
  /\ MCInit /\ [][MCNext]_<<vars, sessionVars>>
  /\ WF_vars(Expire) /\ \A c \in Clients : WF_vars(Continue(c))
=============================================================================

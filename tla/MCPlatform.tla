----------------------------- MODULE MCPlatform -----------------------------
(***************************************************************************)
(* Two requests at a time of a super administrator, one for finance and    *)
(* risk, and two users; two scripts.                                       *)
(***************************************************************************)
EXTENDS Platform

MCUsers == {"root", "fin", "ann", "bob"}
MCRoleOf == [root |-> "SUPER_ADMIN", fin |-> "FINANCE_RISK_ADMIN", ann |-> "USER", bob |-> "USER"]
MCCustomers == {"ann"}
MCReaders == {"ann", "bob"}
MCVersions == {1, 2}
MCMidnight == <<0, 25, 49, 72>>
MCPeople == <<"ann">>
MCTitles == <<"task">>
MCSalaries == <<"salary", "salary">>
=============================================================================

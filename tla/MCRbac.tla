------------------------------- MODULE MCRbac -------------------------------
(* Rbac on a small instance.                                                *)
EXTENDS Rbac

MCUsers == {"ann", "bob"}

\* A role may be given the means to administer roles.
MCGrants == {{"audit.read", "admins.assign_role"}}

\* Users are interchangeable, and a SUPERADMIN may ask for all that an ADMIN
\* may: ann is one at first, and bob anything, or nobody yet.
AnnFirst == changes = 0 => status["ann"] = "SUPERADMIN"
=============================================================================

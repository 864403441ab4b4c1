---------------------------- MODULE AdminRoutes ----------------------------
(***************************************************************************)
(* Who may call what in the administrators' console: the decorators of its *)
(* controllers, and the permissions that the default roles have of those   *)
(* the decorators ask for.  RolesGuard and PermissionGuard stand before    *)
(* every route: an administrator passes with any one of the permissions of *)
(* a route, and an empty set asks for none.                                *)
(***************************************************************************)

\* ROLE_DEFINITIONS, cut down to what routes ask for.  SUPER_ADMIN has all.
RoleGrants ==
  [OPERATIONS_ADMIN |->
     {"users.read", "notifications.read", "notifications.send", "notifications.manage",
      "system.health.read", "feature_flags.read", "analytics.read", "audit.read",
      "admins.read"},
   FINANCE_RISK_ADMIN |->
     {"users.read", "transactions.reverse.approve", "analytics.read", "audit.read"},
   SUPPORT_ADMIN |->
     {"users.read", "support.read", "support.create", "support.update",
      "support.escalate", "support.close", "notifications.read", "audit.read"},
   ANALYTICS_ADMIN |->
     {"users.read", "analytics.read", "system.health.read", "audit.read"}]

ApprovalRoutes ==
  [getPendingRequests |-> {"audit.read"},
   getMyRequests |-> {},
   approveRequest |-> {"transactions.reverse.approve"},
   rejectRequest |-> {"transactions.reverse.approve"}]

ConsentRoutes ==
  [getUserConsents |-> {"users.read"},
   checkUserPolicyConsent |-> {"users.read"},
   getAllPolicies |-> {"platform.settings.read"},
   getLatestPolicy |-> {"platform.settings.read"},
   createPolicyVersion |-> {"platform.settings.manage"}]

SupportRoutes ==
  [list |-> {"support.read"},
   getById |-> {"support.read"},
   create |-> {"support.create"},
   update |-> {"support.update"},
   escalate |-> {"support.escalate"},
   close |-> {"support.close"},
   addMessage |-> {"support.update"}]

FlagRoutes ==
  [getAllFlags |-> {"feature_flags.read"},
   getFlagByName |-> {"feature_flags.read"},
   createFlag |-> {"feature_flags.manage"},
   updateFlag |-> {"feature_flags.manage"},
   deleteFlag |-> {"feature_flags.manage"},
   seedDefaults |-> {"feature_flags.manage"}]

AuditRoutes ==
  [getLogs |-> {"audit.read"},
   getStats |-> {"audit.read"},
   verifyChain |-> {"audit.read"},
   verifyEntry |-> {"audit.read"},
   getLogsByActor |-> {"audit.read"},
   getLogsByTarget |-> {"audit.read"}]

AdminUserRoutes ==
  [getStats |-> {"system.health.read", "analytics.read"},
   getUsers |-> {"users.read"},
   getUserById |-> {"users.read"},
   toggleUserActive |-> {"users.suspend", "users.reactivate"},
   deleteUser |-> {"users.suspend"},
   getAdmins |-> {"admins.read"},
   createAdmin |-> {"admins.create"},
   deleteAdmin |-> {"admins.disable"},
   createBroadcast |-> {"notifications.send"},
   getAllBroadcasts |-> {"notifications.read"},
   deleteBroadcast |-> {"notifications.manage"}]

RbacRoutes ==
  [getAllRoles |-> {"roles.read"},
   getRoleById |-> {"roles.read"},
   createRole |-> {"roles.create"},
   updateRole |-> {"roles.update"},
   deleteRole |-> {"roles.delete"},
   getRolePermissions |-> {"permissions.read"},
   setRolePermissions |-> {"permissions.manage"},
   getAllPermissions |-> {"permissions.read"},
   getAdminRoles |-> {"admins.read"},
   setAdminRoles |-> {"admins.assign_role"},
   assignRoleToAdmin |-> {"admins.assign_role"},
   removeRoleFromAdmin |-> {"admins.assign_role"},
   getEffectivePermissions |-> {"permissions.read"},
   seedRbac |-> {"roles.manage"}]

\* Handlers whose @Roles('superadmin') overrides that of their class.
SuperadminRoutes == {"createAdmin", "deleteAdmin", "seedDefaults", "seedRbac"}

\* RolesGuard and then PermissionGuard, for the default roles.
Passes(role, routes, route) ==
  \/ role = "SUPER_ADMIN"
  \/ /\ role \in DOMAIN RoleGrants
     /\ route \notin SuperadminRoutes
     /\ routes[route] = {} \/ routes[route] \cap RoleGrants[role] # {}
=============================================================================

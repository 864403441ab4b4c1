SPECIFICATION FairSpec
CONSTANTS
  Clients = {c1, c2}
  Users <- MCUsers
  Roles = {"SUPER_ADMIN", "SUPPORT_ADMIN"}
  Grants <- MCGrants
  MaxChanges = 2
  MaxFaults = 1
INVARIANTS TypeOK SuperAdminRemains CacheExplained
PROPERTY PermissionsCatchUp
CONSTRAINT AnnFirst
CHECK_DEADLOCK FALSE

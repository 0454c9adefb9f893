\* Two slots of PUTs, one look-up, three seeds and PUTs; two roles and two permissions.
SPECIFICATION RaSpec
CONSTANTS
  RoleOrder <- MCRoles
  PermissionOrder <- MCPermissions
  Defaults <- MCDefaults
  Payloads <- MCPayloads
  Admins = {a1, a2}
  Lookups = {l1}
  TTL = 1
  MaxStarts = 3
  None = None
INVARIANTS ChosenIsKept
PROPERTIES AdministrationSurvives SeedCompletes RevocationsLand
CHECK_DEADLOCK FALSE

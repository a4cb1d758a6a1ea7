SPECIFICATION SpecAuthority
CONSTANTS
  People = {a1, a2}
  Owners = {a1, a2}
  CustomRoles = {"staff"}
  Grants = {g1, g2}
  SystemGrants = {g1}
  Clerks = {k1}
INVARIANTS
  SomeSuperAdmin

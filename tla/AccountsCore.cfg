SPECIFICATION Spec
CONSTANTS
  Sids = {s1, s2}
  NoSession = NoSession
  Calls = {c1, c2}
  FleetIds = {f1}
  Ties = {"driver"}
  MaxVersion = 2
  Users = {u1, u2}
  PhoneNos = {p1}
  NoUser = NoUser
  NoPhone = NoPhone
  Absent = Absent
  PhoneCalls = {d1, d2}
  MaxGuesses = 2
  Keys = {w1}
  Hitters = {h1, h2, h3}
  Budget <- MCBudget
  People = {a1, a2}
  Owners = {a2}
  CustomRoles = {"staff"}
  Grants = {g1, g2}
  SystemGrants = {g1}
  Clerks = {k1}
  Units = {q1, q2}
  Conns = {x1}
  Tenants = {t1, t2}
  Unset = Unset
  NoConn = NoConn
  MaxAttempts = 3
  r1 = r1
  r2 = r2
  r3 = r3
  FleetRows = {r1, r2, r3}
  OwnerOf <- MCOwnerOf
  Proprietors = {1, 2}
  TierIds = {z1, z2}
  Ranks = {1, 2}
  NoTier = NoTier
  Unranked = Unranked
  Unlisted = Unlisted
  Limit = 1
  MaxTouched = 1
SYMMETRY MCSymmetry
CHECK_DEADLOCK FALSE
INVARIANTS
  TypeOK
  SuperIsCurrent
  GuessesBounded
  WindowsHold
  RightsStand
  AppliedOnce
  OwnContext
  DirectoryExact

SPECIFICATION Spec
CONSTANTS
  Recipients = {u1}
  NoteIds = {n1, n2}
  NoteCalls = {c1, c2}
  g1 = g1
  g2 = g2
  m1 = m1
  m2 = m2
  l1 = l1
  l2 = l2
  s1 = s1
  s2 = s2
  Governorates = {g1, g2}
  MarkazIds = {m1, m2}
  GovernorateOf <- MCGovernorateOf
  LocalityIds = {l1, l2}
  MarkazOf <- MCMarkazOf
  p1 = p1
  p2 = p2
  GeoStops = {p1, p2}
  SeededStops = {p2}
  SeedGovernorate <- MCSeedGovernorate
  NoLocality = NoLocality
  Keep = Keep
  Editors = {e1}
  StopIds = {s1, s2}
  LineIds = {k1}
  NoLine = NoLine
  BusIds = {b1}
  TripIds = {t1}
  StopLists <- MCStopLists
  Planners = {a1, a2}
  TripNos = {1, 2, 3}
  Times = {1, 2}
  OtherDay = 3
  PageSize = 1
  FavIds = {f1}
  FavStops = {s1, s2}
  NoStop = NoStop
  Leave = Leave
  FavRoutes <- MCRoutes
  FavCalls = {d1}
  ShareIds = {h1}
  Visitors = {v1, v2}
  MaxViews = 3
  EntryIds = {i1, i2, i3, i4}
  NewEntry = NewEntry
  MaxEntries = 2
  Admins = {r1}
  MaxTouches = 1
SYMMETRY MCSymmetry
CHECK_DEADLOCK FALSE
INVARIANTS
  TypeOK
  NotifiedOnce
  StopChain
  OneStopList
  NothingSkippedInCalm
  FavoriteRideable
  ViewsCounted
  SeedConverges

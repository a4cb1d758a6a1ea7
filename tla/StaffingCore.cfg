\* Two transactions on two buses of two fleets, and the members API.
SPECIFICATION Spec
CONSTANTS
  f1 = f1  f2 = f2
  b1 = b1  b2 = b2
  d1 = d1  d2 = d2
  i1 = i1  i2 = i2  i3 = i3
  r1 = r1  r2 = r2
  Fleets = {f1, f2}
  Buses = {b1, b2}
  Drivers = {d1, d2}
  FleetOf <- OneEach
  NoDriver = NoDriver
  OwnerOf <- OneOwnerDrives
  Hires <- BothHireD1
  Ids = {i1, i2, i3}
  NoRow = NoRow
  Txs = {r1, r2}
  MembersApi = TRUE
SYMMETRY Symmetry
INVARIANTS TypeOK OneActive
PROPERTIES EndedByName

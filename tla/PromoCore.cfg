\* Two checkouts against two edits of one code.
SPECIFICATION Spec
CONSTANTS
  u1 = u1  u2 = u2
  b1 = b1  b2 = b2
  c1 = c1  c2 = c2
  e1 = e1  e2 = e2
  Users = {u1, u2}
  NoUser = NoUser
  Bookings = {b1, b2}
  Checkouts = {c1, c2}
  Editors = {e1, e2}
  NoTx = NoTx
  UserCaps = {1}
  TotalCaps = {1}
  Unlimited = Unlimited
  Enforce = TRUE
SYMMETRY Symmetry
INVARIANTS TypeOK OnlyListsCross
PROPERTIES RedemptionWithinCaps RedeemerIsTarget EditsKeepTarget

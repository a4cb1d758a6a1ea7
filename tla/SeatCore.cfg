\* Every writer that respects the capacity: passengers who cancel whole
\* bookings, the super admin, managers, drivers, the clock.
SPECIFICATION FairSpec
CONSTANTS
  t1 = t1  t2 = t2
  b1 = b1  b2 = b2
  p1 = p1
  r1 = r1  r2 = r2  r3 = r3
  Trips = {t1}
  Bookings = {b1, b2}
  Passengers = {p1}
  NoAccount = NoAccount
  Reqs = {r1, r2}
  NoReq = NoReq
  TripStatuses = {"SCHEDULED", "DEPARTED"}
  MaxSeats = 2
  SeatLimit <- PassengerSeatLimit
  Capacities = {2}
  Overlaps <- AllOverlap
  Ops = {"forceCancel", "reinstate"}
INVARIANTS TypeOK NoOverbooking CountStillGood StaleReadsAreSafe
PROPERTIES CheckoutFindsConflict
  LedgerSpec RequestsEnd

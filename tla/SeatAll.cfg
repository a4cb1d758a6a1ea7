\* All writers, partial cancellations, desk and bus edits included.
SPECIFICATION Spec
CONSTANTS
  t1 = t1  t2 = t2
  b1 = b1  b2 = b2
  p1 = p1
  r1 = r1  r2 = r2  r3 = r3
  Trips = {t1}
  Bookings = {b1}
  Passengers = {p1}
  NoAccount = NoAccount
  Reqs = {r1, r2, r3}
  NoReq = NoReq
  TripStatuses = {"SCHEDULED", "CANCELLED"}
  MaxSeats = 2
  SeatLimit <- PassengerSeatLimit
  Capacities = {1, 2}
  Overlaps <- AllOverlap
  Ops = {"partialCancel", "forceCancel", "reinstate", "desk", "busEdit"}
SYMMETRY Symmetry
INVARIANT WaitsAreShort
PROPERTY CheckoutOnScheduledTrip

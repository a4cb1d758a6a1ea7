\* Concurrent checkouts of one passenger on two trips.
SPECIFICATION Spec
CONSTANTS
  t1 = t1  t2 = t2
  b1 = b1  b2 = b2
  p1 = p1
  r1 = r1  r2 = r2  r3 = r3
  Trips = {t1, t2}
  Bookings = {b1, b2}
  Passengers = {p1}
  NoAccount = NoAccount
  Reqs = {r1, r2}
  NoReq = NoReq
  TripStatuses = {"SCHEDULED", "DEPARTED"}
  MaxSeats = 2
  SeatLimit <- PassengerSeatLimit
  Capacities = {2}
  Overlaps <- AllOverlap
  Ops = {"forceCancel"}
SYMMETRY Symmetry
PROPERTY CheckoutFindsConflict

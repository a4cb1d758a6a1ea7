\* Admin, driver, passenger and desk on one booking row.
SPECIFICATION Spec
CONSTANTS
  c1 = c1  c2 = c2
  Totals = {0, 3}
  MaxSeats = 2
  Calls = {c1, c2}
SYMMETRY Symmetry
INVARIANTS TypeOK RefundsWithinTotal RefundStatusTells
PROPERTIES PaidLeavesOnlyForRefund

\* PaymentCore again: the driver's cash call and its answer.
SPECIFICATION Spec
CONSTANTS
  c1 = c1  c2 = c2
  Totals = {0, 3}
  MaxSeats = 2
  Calls = {c1, c2}
SYMMETRY Symmetry
PROPERTY CashCallMarksPaid


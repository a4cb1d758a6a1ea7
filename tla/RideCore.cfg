\* Two handlers on one booking, amid overrides, edits and a change of driver.
SPECIFICATION Spec
CONSTANTS
  d1 = d1  d2 = d2
  c1 = c1  c2 = c2
  n1 = n1  n2 = n2
  Drivers = {d1, d2}
  NoDriver = NoDriver
  Calls = {c1, c2}
  Ratings = {n1, n2}
  NoRating = NoRating
SYMMETRY Symmetry
INVARIANTS AnswersHold ReviewWhole
PROPERTY RecordedStays

SPECIFICATION Spec
CONSTANTS
  a = a
  b = b
  n = n
  p = p
  q = q
  Items = {a, b}
  Names = {n}
  Pullers = {p, q}
  MaxTime = 2
SYMMETRY Symmetry
ACTION_CONSTRAINT ReadersAlone
INVARIANT TypeOK
INVARIANT CursorCovered
INVARIANT NoRepeat
INVARIANT CompleteHasAll
INVARIANT StatusTold
PROPERTY DeliverySpec

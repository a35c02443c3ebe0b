SPECIFICATION Spec
CONSTANTS
  r1 = r1
  r2 = r2
  g1 = g1
  g2 = g2
  a1 = a1
  a2 = a2
  N = 2
  Anchor = {}
  Gps = {g1, g2}
  App = {a1, a2}
  Rider = {r1, r2}
  StartOf <- From
  EndOf <- To
  MaxRoute = 3
  MaxRow = 3
INVARIANT TypeOK
INVARIANT OneOpenRoute
INVARIANT EndEmptiesRoute
INVARIANT BoardingsCounted
INVARIANT RecordedOnce
CONSTRAINT Small
SYMMETRY Alike
CHECK_DEADLOCK FALSE

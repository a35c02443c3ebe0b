SPECIFICATION Spec
CONSTANTS
  a = a
  b = b
  c = c
  p1 = p1
  p2 = p2
  r1 = r1
  r2 = r2
  g1 = g1
  g2 = g2
  w1 = w1
  Job = Job
  NoRoute = NoRoute
  Station = {a, b, c}
  Route = {r1, r2}
  Rider = {p1, p2}
  Web = {w1}
  Gps = {g1, g2}
  From <- MCFrom
  To <- MCTo
  MaxStops = 3
  Ops = {"report", "late", "cancel", "dispatch", "finish"}
INVARIANT TypeOK
INVARIANT NoStopSkipped
 
INVARIANT StopListMatches
INVARIANT OneOpenRoute
PROPERTY ClosedStaysClosed
CHECK_DEADLOCK FALSE
CONSTRAINT Small
SYMMETRY Alike

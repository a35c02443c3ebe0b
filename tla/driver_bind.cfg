SPECIFICATION Spec
CONSTANTS
  d1 = d1
  d2 = d2
  c1 = c1
  c2 = c2
  t1 = t1
  t2 = t2
  NoDriver = NoDriver
  NoCar = NoCar
  Driver = {d1, d2}
  Car = {c1, c2}
  Thread = {t1, t2}
  MaxBind = 4
INVARIANT TypeOK
INVARIANT BoundOnce
INVARIANT BoundIsCached
CONSTRAINT Claimed
SYMMETRY Alike
CHECK_DEADLOCK FALSE

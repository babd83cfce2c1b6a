SPECIFICATION Spec
CONSTANTS
  d1 = d1  d2 = d2  g1 = g1
  f1 = f1  f2 = f2  f3 = f3  k1 = k1  None = None
  Procs = {d1, d2}
  Guis = {}
  Clis = {}
  Files = {f1, f2}
  Faults = {}
INVARIANT
  OneOwner
CHECK_DEADLOCK FALSE

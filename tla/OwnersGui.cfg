SPECIFICATION Spec
CONSTANTS
  d1 = d1  d2 = d2  g1 = g1
  f1 = f1  f2 = f2  f3 = f3  k1 = k1  None = None
  Procs = {d1, g1}
  Guis = {g1}
  Clis = {}
  Files = {f1, f2}
  Faults = {}
PROPERTY
  OnlyOwnerWipes
CHECK_DEADLOCK FALSE

SPECIFICATION Spec
CONSTANTS
  k1 = k1  k2 = k2  k3 = k3  Nobody = Nobody
  Calls = {k1, k2}
  Capacity = 1
  Events = {"close"}
SYMMETRY CallSymmetry
INVARIANT
  NeverPanics
CHECK_DEADLOCK FALSE

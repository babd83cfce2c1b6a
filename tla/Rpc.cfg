SPECIFICATION Spec
CONSTANTS
  k1 = k1  k2 = k2  k3 = k3  Nobody = Nobody
  Calls = {k1, k2, k3}
  Capacity = 1
  Events = {"cancel", "close", "shutdown", "die"}
SYMMETRY CallSymmetry
INVARIANTS
  PendingIsInFlight
  OneAfterShutdown
PROPERTY
  ImplementsRemoteCall
CHECK_DEADLOCK FALSE

SPECIFICATION Spec
CONSTANTS
  Call = {c1, c2, c3, c4}
  Device = {d1, d2, d3}
  Token = {t1, t2, t3}
  NoCall = NoCall
  NoDevice = NoDevice
  NoToken = NoToken
  MaxEnds = 2
SYMMETRY MCSymmetry
INVARIANTS TypeOK MemIsStored TokenOfDevice SignedInHasAddress DeviceInitialized
CHECK_DEADLOCK FALSE

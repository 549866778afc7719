SPECIFICATION Spec
CONSTANTS
  Call = {c1, c2, c3}
  Device = {d1, d2}
  Token = {t1}
  NoCall = NoCall
  NoDevice = NoDevice
  NoToken = NoToken
  MaxEnds = 0
SYMMETRY MCSymmetry
INVARIANT NoSignOutInSession
CHECK_DEADLOCK FALSE

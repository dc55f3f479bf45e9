SPECIFICATION Spec
CONSTANTS
  Thread = {c1, p1, p2}
  Consumer = {c1}
  Producer = {p1, p2}
  Nobody = nobody
  Word = 16
  SignalLocked = FALSE
  MaxItems = 3
INVARIANT NoLostSignal
CHECK_DEADLOCK FALSE

SPECIFICATION Spec
CONSTANTS
  a = a
  b = b
  c = c
  d = d
  NoProc = NoProc
  Procs = {a, b, c, d}
  Founders = {a, b, c}
  Ctl = {a, d}
  Killable = {b, d}
  Growers = {c}
  Lagging = {}
  NoRoom = {c}
INVARIANT ReservedSinceJoin
INVARIANT AssertionsHold
 
CHECK_DEADLOCK FALSE

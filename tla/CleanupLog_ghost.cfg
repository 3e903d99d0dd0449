SPECIFICATION Spec
CONSTANTS
  a = a
  b = b
  c = c
  d = d
  NoProc = NoProc
  Procs = {a, b, c}
  Founders = {a, b, c}
  Ctl = {a, b}
  Killable = {}
  Growers = {}
  Lagging = {a}
  NoRoom = {}
INVARIANT ReservedEverywhere
CHECK_DEADLOCK FALSE

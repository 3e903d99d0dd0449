SPECIFICATION Spec
CONSTANTS
  a = a
  b = b
  c = c
  d = d
  NoProc = NoProc
  Procs = {a, b, c, d}
  Founders = {a, b, c, d}
  Ctl = {a, b}
  Killable = {b, c, d}
  Growers = {}
  Lagging = {}
  NoRoom = {b, c}
PROPERTY ImplementsReservation
CHECK_DEADLOCK FALSE

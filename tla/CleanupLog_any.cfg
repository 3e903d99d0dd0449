SPECIFICATION Spec
CONSTANTS
  a = a
  b = b
  c = c
  d = d
  NoProc = NoProc
  Procs = {a, b, c, d}
  Founders = {a, b, c}
  Ctl = {a, d}
  Killable = {b, d}
  Growers = {c}
  Lagging = {a, b}
  NoRoom = {c}
INVARIANT TypeOK
INVARIANT OneReservation
INVARIANT NoUseAfterFree
INVARIANT OneCleaner
INVARIANT NoLostAck
 
CHECK_DEADLOCK FALSE

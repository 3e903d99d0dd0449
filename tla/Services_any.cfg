SPECIFICATION Spec
CONSTANTS
  Registry = Registry
  Servers = {s1, s2}
  Clients = {c1, c2}
  Nil = Nil
  IpcNames <- MCIpcNames
  Room = 6
INVARIANTS TypeOK BootstrapComplete OneService SocketsOwn
PROPERTY AnswersStay
SYMMETRY Alike
CHECK_DEADLOCK FALSE

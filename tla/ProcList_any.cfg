SPECIFICATION Spec
CONSTANTS
  Procs = {a, b, c, d}
  Creator = a
  Root = Root
  Nil = Nil
INVARIANTS TypeOK  SoundUnlessRaced
 
CHECK_DEADLOCK FALSE

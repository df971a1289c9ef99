CONSTANTS
  tty = tty  a = a  b = b
  Procs = {tty, a, b}
  IntTasks = {tty}
  m1 = m1
  Types = {m1}
  ANY = ANY  INTERRUPT = INTERRUPT  NO_TASK = NO_TASK
  HARD_INT = HARD_INT  NoType = NoType
SPECIFICATION AtomicSpec
SYMMETRY Symmetry
INVARIANTS
  RestConsistent
  OnlyInterruptedFail
PROPERTY RefinesIpc
\* The kernel stops for good after panic() or a failed assertion.
CHECK_DEADLOCK FALSE

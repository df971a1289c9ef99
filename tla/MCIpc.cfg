CONSTANTS
  tty = tty  a = a  b = b  c = c
  Procs = {tty, a, b, c}
  IntTasks = {tty}
  m1 = m1
  Types = {m1}
  ANY = ANY  INTERRUPT = INTERRUPT  NO_TASK = NO_TASK
  HARD_INT = HARD_INT  NoType = NoType
SPECIFICATION Spec
SYMMETRY Symmetry
INVARIANTS
  FlagsInv
  QueueInv
  NoMissedRendezvous
  NoSendCycle
PROPERTIES
  HandedOverOnce
  AnswersMatch
  RefinesRendezvous
\* The system stops for good after panic().
CHECK_DEADLOCK FALSE

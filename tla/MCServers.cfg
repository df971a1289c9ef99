CONSTANTS
  TTY = TTY  SYS = SYS  HD = HD  FS = FS  MM = MM
  testA = testA  testB = testB  tty0 = tty0  tty1 = tty1
  Procs = {TTY, SYS, HD, FS, MM, testA, testB}
  IntTasks = {TTY, HD}
  Ttys = {tty0, tty1}
  Scenarios <- MCScenarios
  Types <- Payloads
  ANY = ANY  INTERRUPT = INTERRUPT  NO_TASK = NO_TASK
  HARD_INT = HARD_INT  NoType = NoType
SPECIFICATION FairServersSpec
INVARIANTS
  AnswersAreAwaited
  ReaderSleeps
  OnlyFsAndTtyDeadlock
  TableConsistent
  ChildIsWhole
PROPERTY CallsAreAnswered
\* The kernel stops for good after panic().
CHECK_DEADLOCK FALSE

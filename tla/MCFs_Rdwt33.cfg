CONSTANTS
  a = a  b = b  f = f  g = g
  Users = {a, b}
  Founder = a
  Fds = {0}
  NR_FILE_DESC = 2
  NR_INODE = 3
  Names = {f, g}
  NameLength <- MCNameLength
  NrInodes = 5
  NrExtents = 2
  PerSector = 4
  CrashIn = {}
  MaxCount = 2
  MaxReboots = 0
SPECIFICATION FsSpec
INVARIANT RdwtLine33Holds
\* The system stops for good after panic() or a failed assertion.
CHECK_DEADLOCK FALSE

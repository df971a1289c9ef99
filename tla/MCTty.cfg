CONSTANTS
  NR_CONSOLES = 2
  KB_IN_BYTES = 2
  Codes = {"x", "bs", "enter", "ctrl", "E0", "F2"}
  MaxTyped = 4
  MaxReads = 2
  Counts = {2}
SPECIFICATION FairSpec
INVARIANTS
  RingIsQueue
  LineIsRight
PROPERTIES
  ResumedWithLine
  PatientTypistIsRead

CONSTANTS
    NR_CONSOLES = 2
    SCR_WIDTH = 2
    SCR_ROWS = 2
    V_MEM_CELLS = 12
    Strings <- MCStrings
    MaxPrintx = 1
    MaxOthers = 2
SPECIFICATION ConsoleSpec
INVARIANTS
    OnlyRacesFail
    ShowsWhatWasWritten
PROPERTIES
    OnlyBlanksSpill
    OutCharReturns
\* An assertion that fails stops the system.
CHECK_DEADLOCK FALSE

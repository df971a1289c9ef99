CONSTANTS
  BITS = 4
  NrBytes = 8
  n_1st_sect = 3
  Sizes = {3, 4, 5, 6, 7, 8, 9, 10, 11, 12, 13, 14, 15}
SPECIFICATION SmapSpec
INVARIANT MapExact
PROPERTY RefinesExtents
\* The system stops for good after a failed assertion.
CHECK_DEADLOCK FALSE

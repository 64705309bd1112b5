SPECIFICATION Spec
CONSTANTS
  j1 = j1  j2 = j2
  None = None
  Jobs = {j1, j2}
  MaxChanges = 1
  MaxEvents = 3
SYMMETRY MCSymmetry
INVARIANT TypeOK OwnPage Listening AnnouncedFetched
CHECK_DEADLOCK FALSE

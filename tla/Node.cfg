SPECIFICATION Spec
CONSTANTS
  j1 = j1  j2 = j2
  None = None
  Jobs = {j1, j2}
  MaxStarts = 2
  MaxLate = 1
SYMMETRY MCSymmetry
INVARIANT TypeOK OneContainer CompletedRan RunsOnce
PROPERTY PreemptionAsked

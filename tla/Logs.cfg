SPECIFICATION FairSpec
CONSTANTS
  Lines = 3
  MaxBuffer = 3
  BatchSize = 2
  MaxLate = 1
  MaxStored = 4
  PageLimit = 2
INVARIANT TypeOK NothingLost StoredInOrder ShownGapless
PROPERTY StopReturns

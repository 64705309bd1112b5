SPECIFICATION FairSpec
CONSTANTS
  None = None
  Jobs = {1, 2}
  MaxStarts = 3
  MaxSignals = 2
INVARIANT TypeOK NothingLeft CredentialsGone
PROPERTY Terminates
CHECK_DEADLOCK FALSE

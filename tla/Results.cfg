SPECIFICATION FairSpec
CONSTANTS
  f1 = f1
  f2 = f2
  Files = {f1, f2}
  MaxAttempts = 5
  MaxStalled = 1
INVARIANT TypeOK LinksLead MailComplete CopiesBounded
PROPERTY MailGoesOut
CHECK_DEADLOCK FALSE

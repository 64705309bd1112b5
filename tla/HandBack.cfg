SPECIFICATION Spec
CONSTANTS
  m1 = m1
  m2 = m2
  m3 = m3
  None = None
  Machines = {m1, m2, m3}
  Trust <- MCTrust
  Hardware <- MCHardware
  Requests <- MCRequests
INVARIANT HandedBack
CHECK_DEADLOCK FALSE

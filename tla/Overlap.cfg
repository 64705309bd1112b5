SPECIFICATION Spec
CONSTANTS
  u1 = u1  u2 = u2  m1 = m1  m2 = m2  r1 = r1  r2 = r2  s1 = s1  s2 = s2
  None = None
  Users = {u1, u2}
  Machines = {m1, m2}
  Owner <- MCOwnerPeers
  Jobs = {1}
  Sessions = {s1, s2}
  Reqs = {r1, r2}
  Sweeps = {}
  StartTrust = {}
  MinTrusts = {20}
  InFlight = 2
  Overlap = "all"
SYMMETRY MCSymmetry
INVARIANT Consent Placement DecisionBinds
PROPERTY AgentMoves

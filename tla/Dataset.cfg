SPECIFICATION Spec
CONSTANTS
  Members <- MCMembers
  DataNames <- MCDataNames
  Safe <- MCSafe
INVARIANT PathLeads MembersKept
CHECK_DEADLOCK FALSE

CONSTANTS
  Callers = {c1, c2}
  Client = c1
  MaxOps = 2
  Backlog = 1
  StartMayFail = TRUE
  CallMayBeDropped = TRUE
SPECIFICATION ClientSpec
CHECK_DEADLOCK FALSE
INVARIANTS NeverWedged NoTunnelLeaked PhaseExplained
PROPERTIES CancelledStartNeverActs LifecycleSpec StopReturns StoppingEnds TunnelSettles JoinAnswers

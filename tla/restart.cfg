CONSTANTS
  Fds = {zero, f1}
  Zero = zero
  Invalid = invalid
  None = none
  Requests = {r1}
  QueueMax = 1
  Faults = {}
  MaxFaults = 0
SPECIFICATION Spec
CHECK_DEADLOCK FALSE
INVARIANTS Restartable

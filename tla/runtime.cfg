CONSTANTS
  Fds = {zero, f1, f2}
  Zero = zero
  Invalid = invalid
  None = none
  Requests = {r1}
  QueueMax = 2
  Faults = {"socket", "unlink", "bind", "empty"}
  MaxFaults = 1
  Threads = {1, 2}
  NULL = null
  MaxSignals = 3
  UdpWorkers = {1, 2}
  Callers = {c}
  Ports = {1, 2}
  MaxCalls = 2
  UdpFaults = 1
  Parts = {"pipe", "timer", "app", "udp"}
SPECIFICATION FairRunSpec
CHECK_DEADLOCK FALSE
INVARIANTS TypeOK FdSetValid ServesPath NoLostSocket TimerOwned UdpExchange
PROPERTIES StopEnds MessageRead ListenServes TimerFires SignalEndsWait UdpServed

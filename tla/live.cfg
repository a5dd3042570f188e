CONSTANTS
  Workers = {w1}
  Apps = {a1}
  Sockets = {s1}
  Listeners = {l1}
  Fds = {f1, f2}
  Zero = zero
  Invalid = invalid
  None = none
  Usage = {"close", "sendfile", "appClose"}
  Faults = {}
SPECIFICATION FairSpecReading
CHECK_DEADLOCK FALSE
PROPERTIES DeadPeerClosed DataRead SendFileEnds MutexReturned

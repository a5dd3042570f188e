CONSTANTS
  Workers = {w1}
  Apps = {}
  Sockets = {s1, s2}
  Listeners = {l1}
  Fds = {f1, f2, f3}
  Zero = zero
  Invalid = invalid
  None = none
  Usage = {"close", "acceptClose", "useAfterAccept", "ssl", "send", "sendfile", "deleteOnClosed"}
  Faults = {"add", "file"}
SPECIFICATION Spec
SYMMETRY Symmetry
CHECK_DEADLOCK FALSE
INVARIANTS NoUseAfterDelete OnClosedOnce

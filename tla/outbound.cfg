CONSTANTS
  Workers = {w1, w2}
  Apps = {a1}
  Sockets = {s1, s2}
  Listeners = {}
  Fds = {f1, f2, f3}
  Zero = zero
  Invalid = invalid
  None = none
  Usage = {"close", "connect", "sendfile"}
  Faults = {"add", "socket", "resolve", "connect"}
SPECIFICATION Spec
SYMMETRY Symmetry
CHECK_DEADLOCK FALSE
INVARIANTS ArmedWhenIdle RecvHasInput OwnFd

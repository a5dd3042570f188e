CONSTANTS
  Workers = {w1, w2}
  Apps = {}
  Sockets = {s1, s2}
  Listeners = {l1}
  Fds = {f1, f2, f3}
  Zero = zero
  Invalid = invalid
  None = none
  Usage = {"close", "deleteOnClosed"}
  Faults = {}
SPECIFICATION Spec
SYMMETRY Symmetry
CHECK_DEADLOCK FALSE
INVARIANTS NoUseAfterDelete

CONSTANTS
  Workers = {w1, w2}
  Apps = {}
  Sockets = {s1, s2}
  Listeners = {l1, l2}
  Fds = {f1, f2, f3, f4}
  Zero = zero
  Invalid = invalid
  None = none
  Usage = {"close"}
  Faults = {"bind"}
SPECIFICATION Spec
SYMMETRY Symmetry
CHECK_DEADLOCK FALSE
INVARIANTS ClosedReported
PROPERTIES CloseOnlyOwn ConnectionsKept

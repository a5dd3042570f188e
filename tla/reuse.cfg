CONSTANTS
  Workers = {w1}
  Apps = {a1}
  Sockets = {s1}
  Listeners = {}
  Fds = {f1, f2}
  Zero = zero
  Invalid = invalid
  None = none
  Usage = {"connect", "reconnect", "appClose"}
  Faults = {}
SPECIFICATION Spec
SYMMETRY Symmetry
CHECK_DEADLOCK FALSE
INVARIANTS NoFdLeak

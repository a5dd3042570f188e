----------------------------- MODULE MCTCPServer -----------------------------
(***************************************************************************)
(* TCPServer for TLC.  The configuration files give the sets as model      *)
(* values and name the usage and the faults of each instance.              *)
(***************************************************************************)
EXTENDS TCPServer, TLC

\* Safety does not tell the members of these sets apart.
Symmetry == Permutations(Sockets) \cup Permutations(Fds)
             \cup Permutations(Workers) \cup Permutations(Listeners)
=============================================================================

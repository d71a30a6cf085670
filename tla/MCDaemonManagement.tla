------------------------- MODULE MCDaemonManagement -------------------------
(* DaemonManagement on instances small enough for TLC: three connections, of *)
(* which c0 may be the one migrated from an older configuration.             *)
EXTENDS DaemonManagement, TLC

CONSTANTS c0, c1, c2

\* c1 and c2 are given the same custom port and ask for the same cluster.
SharedPort == c0 :> 1 @@ c1 :> 2 @@ c2 :> 2
OwnPorts == c0 :> 1 @@ c1 :> 2 @@ c2 :> 3
SameTarget == c0 :> "t0" @@ c1 :> "t1" @@ c2 :> "t1"
=============================================================================

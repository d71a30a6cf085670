-------------------------- MODULE MCDaemonInstall --------------------------
(* DaemonInstall for TLC: an upgrade of the zli while commands of the older  *)
(* version are still at work.                                                *)
EXTENDS DaemonInstall, TLC

CONSTANTS p1, p2, p3

Upgrade == p1 :> "new" @@ p2 :> "new" @@ p3 :> "old"
SameVersion == [p \in Process |-> "new"]
=============================================================================

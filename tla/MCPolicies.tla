----------------------------- MODULE MCPolicies -----------------------------
(* Two policies of one name and different kinds, and one that is created    *)
(* for two targets of which one shares its name with a third.               *)
EXTENDS Policies, TLC

CONSTANTS kubeProd, sshProd, dbNew, t1, t2, t3, prod, new, db, web

MCKindOf == (kubeProd :> "Kubernetes") @@ (sshProd :> "TargetConnect") @@ (dbNew :> "Proxy")
MCNameOf == (kubeProd :> prod) @@ (sshProd :> prod) @@ (dbNew :> new)
MCTargetName == (t1 :> db) @@ (t2 :> web) @@ (t3 :> web)
MCTargetKind == (t1 :> "Proxy") @@ (t2 :> "Proxy") @@ (t3 :> "Proxy")

MCJobs == [op : {"add", "delete"}, name : {prod}, entry : Entry]
OrderFor(k, n, S) == [kind |-> k, name |-> n, who |-> Subject, ids |-> S]
MCOrders == {OrderFor("Proxy", new, S) : S \in {{db, t2}, {t1, web}}} \cup
            {OrderFor(k, prod, {db}) : k \in {"Kubernetes", "TargetConnect"}} \cup
            {OrderFor("SessionRecording", new, {})}
MCGrants == {User \cup TargetUser, Group \cup TargetUser}
Editors == Permutations(Editor)
=============================================================================

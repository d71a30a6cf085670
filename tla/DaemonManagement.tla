-------------------------- MODULE DaemonManagement --------------------------
(***************************************************************************)
(* The daemons of one type (db, rdp, sqlserver or kube), the entries that  *)
(* describe them in the zli's configuration file, and the zli commands     *)
(* that start, list and disconnect them.  Every command is an operating    *)
(* system process of its own.  They share the file, which each of them     *)
(* reads and writes back whole, and the daemons.                           *)
(*                                                                         *)
(* A connection id names the connect command it was created for, the       *)
(* daemon that command spawns and the entry it adds: an entry never        *)
(* changes once written, so the store is the set of the ids in it.         *)
(***************************************************************************)
CONSTANTS
  Conn,         \* connection ids
  Cmd,          \* zli processes that list or disconnect
  Legacy,       \* ids standing for the entry migrated under the key 'n/a'
  PortOf,       \* the local port each connect command uses
  TargetOf,     \* the target and target user of each connect command
  RecordFirst,  \* kube adds the entry before the server is up, the rest after
  Concurrent    \* whether commands may overlap

ASSUME ConnAssumption ==
  /\ Conn \cap Cmd = {}
  /\ Legacy \subseteq Conn
  /\ \A c, d \in Legacy : c = d
  /\ RecordFirst \in BOOLEAN
  /\ Concurrent \in BOOLEAN

VARIABLES
  store,    \* ids with an entry in the configuration file
  daemon,   \* the process of each id
  conn,     \* the connection at the Bastion service
  pc,       \* where each command is
  view,     \* what the command last read of the store, until it writes
  todo,     \* ids of the snapshot the command has still to deal with
  pending,  \* shut downs of this disconnect that have not settled
  excused,  \* ids whose shut down threw, or whose connect was killed
  foreign,  \* local ports that programs other than these daemons listen on
  mute      \* daemons whose control server accepts a request and never answers

vars == <<store, daemon, conn, pc, view, todo, pending, excused, foreign, mute>>

Zli == Conn \cup Cmd
Ports == {PortOf[c] : c \in Conn}
Resting == {"idle", "done", "failed", "killed"}
ConnSteps == {"created", "ready", "recording", "adding", "waiting", "stopping"}
CmdSteps == {"listing", "unlisting", "shutting", "purging", "erasing"}

TypeOK ==
  /\ store \in SUBSET Conn
  /\ daemon \in [Conn -> {"none", "starting", "up", "dead"}]
  /\ conn \in [Conn -> {"none", "open", "closed"}]
  /\ pc \in [Zli -> Resting \cup ConnSteps \cup CmdSteps]
  /\ view \in [Zli -> SUBSET Conn]
  /\ todo \in [Cmd -> SUBSET Conn]
  /\ pending \in [Cmd -> SUBSET Conn]
  /\ excused \in SUBSET Conn
  /\ foreign \in SUBSET Ports
  /\ mute \in SUBSET Conn

\* isProcessRunning: a daemon that has not bound its port yet counts.
Alive(c) == daemon[c] \in {"starting", "up"}

\* Any listener makes a port taken, for the check and for the wait alike.
DaemonAt(p) == \E d \in Conn : daemon[d] = "up" /\ PortOf[d] = p
PortInUse(p) == DaemonAt(p) \/ p \in foreign

\* The request that asks a daemon to shut down has no time limit: one that is
\* accepted and not answered holds its sender for as long as the daemon runs.
Unanswered(d) == Alive(d) /\ d \in mute

\* A migrated configuration: no pid, a daemon still running, or one gone.
Init ==
  /\ store \in SUBSET Legacy
  /\ daemon \in [Conn -> {"none", "up", "dead"}]
  /\ \A c \in Conn \ store : daemon[c] = "none"
  /\ conn = [c \in Conn |-> "none"]
  /\ pc = [p \in Zli |-> IF p \in Legacy THEN "done" ELSE "idle"]
  /\ view = [p \in Zli |-> {}]
  /\ todo = [k \in Cmd |-> {}]
  /\ pending = [k \in Cmd |-> {}]
  /\ excused = {}
  /\ foreign = {}
  /\ mute = {}

MayStart == Concurrent \/ \A p \in Zli : pc[p] \in Resting
Goto(p, l) == pc' = [pc EXCEPT ![p] = l]

-----------------------------------------------------------------------------
(* Slips that a change to the code could make, one per operator.  Nothing    *)
(* below uses them: with an action replaced by one, a property must fail.    *)

\* the wait has no limit while the process exists.
TimeoutOnlyWhenGone(c) ==
  /\ pc[c] = "waiting"
  /\ ~Alive(c)
  /\ Goto(c, IF RecordFirst THEN "failed" ELSE "stopping")
  /\ UNCHANGED <<store, daemon, conn, view, todo, pending, excused, foreign, mute>>

\* the handler returns 1 without stopping its daemon.
LeaveOwnDaemon(c) ==
  /\ pc[c] = "stopping"
  /\ Goto(c, "failed")
  /\ UNCHANGED <<store, daemon, conn, view, todo, pending, excused, foreign, mute>>

\* list-daemons writes back the snapshot it started from.
UnlistFromSnapshot(k, d) ==
  /\ pc[k] = "unlisting" /\ d \in todo[k]
  /\ store' = todo[k] \ {d}
  /\ view' = [view EXCEPT ![k] = {}]
  /\ todo' = [todo EXCEPT ![k] = @ \ {d}]
  /\ Goto(k, "listing")
  /\ UNCHANGED <<daemon, conn, pending, excused, foreign, mute>>

\* the entries are deleted as soon as one shut down settles.
AnySettled(k) ==
  /\ pc[k] = "shutting" /\ (pending[k] = {} \/ pending[k] # todo[k])
  /\ Goto(k, "purging")
  /\ UNCHANGED <<store, daemon, conn, view, todo, pending, excused, foreign, mute>>

\* a shut down that throws never settles.
AllGone(k) ==
  /\ pc[k] = "shutting" /\ pending[k] = {}
  /\ \A d \in todo[k] : ~Alive(d)
  /\ Goto(k, "purging")
  /\ UNCHANGED <<store, daemon, conn, view, todo, pending, excused, foreign, mute>>

-----------------------------------------------------------------------------
(* zli connect *)

CreateConnection(c) ==
  /\ pc[c] = "idle" /\ MayStart
  /\ Goto(c, "created")
  /\ conn' = [conn EXCEPT ![c] = "open"]
  /\ UNCHANGED <<store, daemon, view, todo, pending, excused, foreign, mute>>

\* kube only: findRunningDaemonWithPredicate over the recorded daemons.
SameTargetRunning(c) ==
  RecordFirst /\ \E d \in store : Alive(d) /\ TargetOf[d] = TargetOf[c]

\* The handler throws and connectHandler closes the connection it created.
RefuseConnect(c) ==
  /\ pc[c] = "created"
  /\ SameTargetRunning(c) \/ PortInUse(PortOf[c])
  /\ Goto(c, "failed")
  /\ conn' = [conn EXCEPT ![c] = "closed"]
  /\ UNCHANGED <<store, daemon, view, todo, pending, excused, foreign, mute>>

PassChecks(c) ==
  /\ pc[c] = "created"
  /\ ~SameTargetRunning(c) /\ ~PortInUse(PortOf[c])
  /\ Goto(c, "ready")
  /\ UNCHANGED <<store, daemon, conn, view, todo, pending, excused, foreign, mute>>

SpawnDaemon(c) ==
  /\ pc[c] = "ready"
  /\ daemon' = [daemon EXCEPT ![c] = "starting"]
  /\ Goto(c, IF RecordFirst THEN "recording" ELSE "waiting")
  /\ UNCHANGED <<store, conn, view, todo, pending, excused, foreign, mute>>

\* kube only: updateUserKubeConfigWith throws, the handler returns 1.
KubeConfigFails(c) ==
  /\ pc[c] = "recording" /\ RecordFirst
  /\ Goto(c, "failed")
  /\ UNCHANGED <<store, daemon, conn, view, todo, pending, excused, foreign, mute>>

\* addDaemon reads the whole store, and writes the whole store.
AddRead(c) ==
  /\ pc[c] = "recording"
  /\ view' = [view EXCEPT ![c] = store]
  /\ Goto(c, "adding")
  /\ UNCHANGED <<store, daemon, conn, todo, pending, excused, foreign, mute>>

AddWrite(c) ==
  /\ pc[c] = "adding"
  /\ store' = view[c] \cup {c}
  /\ view' = [view EXCEPT ![c] = {}]
  /\ Goto(c, IF RecordFirst THEN "waiting" ELSE "done")
  /\ UNCHANGED <<daemon, conn, todo, pending, excused, foreign, mute>>

\* handleServerStart looks at the port, whoever has bound it; a kube connect
\* then asks the listener whether it is a kube daemon that is ready.
ServerStarted(c) ==
  /\ pc[c] = "waiting"
  /\ PortInUse(PortOf[c])
  /\ RecordFirst => DaemonAt(PortOf[c])
  /\ Goto(c, IF RecordFirst THEN "done" ELSE "recording")
  /\ UNCHANGED <<store, daemon, conn, view, todo, pending, excused, foreign, mute>>

\* The port was never bound for a minute; for kube, or the daemon was never
\* ready.  Only the db, rdp and sqlserver handlers then stop their daemon.
ServerTimeout(c) ==
  /\ pc[c] = "waiting"
  /\ RecordFirst \/ ~PortInUse(PortOf[c])
  /\ Goto(c, IF RecordFirst THEN "failed" ELSE "stopping")
  /\ UNCHANGED <<store, daemon, conn, view, todo, pending, excused, foreign, mute>>

\* tryShutDownProcess returns with the process gone, or throws, or waits.
StopOwnDaemon(c) ==
  /\ pc[c] = "stopping"
  /\ ~Unanswered(c)
  /\ Goto(c, "failed")
  /\ \/ /\ daemon' = [daemon EXCEPT ![c] = "dead"]
        /\ UNCHANGED excused
     \/ /\ Alive(c)
        /\ excused' = excused \cup {c}
        /\ UNCHANGED daemon
  /\ UNCHANGED <<store, conn, view, todo, pending, foreign, mute>>

\* reportDaemonExitErrors: the zli exits when its daemon does.
ExitWithDaemon(c) ==
  /\ pc[c] \in {"recording", "waiting", "stopping"}
  /\ ~Alive(c)
  /\ Goto(c, "failed")
  /\ view' = [view EXCEPT ![c] = {}]
  /\ UNCHANGED <<store, daemon, conn, todo, pending, excused, foreign, mute>>

\* The user interrupts the command; a detached daemon survives it.
KillConnect(c) ==
  /\ pc[c] \in ConnSteps
  /\ Goto(c, "killed")
  /\ view' = [view EXCEPT ![c] = {}]
  /\ excused' = excused \cup {c}
  /\ UNCHANGED <<store, daemon, conn, todo, pending, foreign, mute>>

-----------------------------------------------------------------------------
(* zli list-daemons *)

StartList(k) ==
  /\ pc[k] = "idle" /\ MayStart
  /\ todo' = [todo EXCEPT ![k] = store]
  /\ Goto(k, "listing")
  /\ UNCHANGED <<store, daemon, conn, view, pending, excused, foreign, mute>>

ListRunning(k, d) ==
  /\ pc[k] = "listing" /\ d \in todo[k]
  /\ Alive(d)
  /\ todo' = [todo EXCEPT ![k] = @ \ {d}]
  /\ UNCHANGED <<store, daemon, conn, pc, view, pending, excused, foreign, mute>>

\* The pid is not set or not running: deleteDaemon reads the store ...
ListGone(k, d) ==
  /\ pc[k] = "listing" /\ d \in todo[k]
  /\ ~Alive(d)
  /\ view' = [view EXCEPT ![k] = store]
  /\ Goto(k, "unlisting")
  /\ UNCHANGED <<store, daemon, conn, todo, pending, excused, foreign, mute>>

\* ... and writes it back without the entry.
Unlist(k, d) ==
  /\ pc[k] = "unlisting" /\ d \in todo[k]
  /\ ~Alive(d)
  /\ store' = view[k] \ {d}
  /\ view' = [view EXCEPT ![k] = {}]
  /\ todo' = [todo EXCEPT ![k] = @ \ {d}]
  /\ Goto(k, "listing")
  /\ UNCHANGED <<daemon, conn, pending, excused, foreign, mute>>

-----------------------------------------------------------------------------
(* zli disconnect, and the disconnect that zli logout does *)

StartDisconnect(k) ==
  /\ pc[k] = "idle" /\ MayStart
  /\ todo' = [todo EXCEPT ![k] = store]
  /\ pending' = [pending EXCEPT ![k] = {d \in store : daemon[d] # "none"}]
  /\ Goto(k, "shutting")
  /\ UNCHANGED <<store, daemon, conn, view, excused, foreign, mute>>

ShutDownSucceeds(k, d) ==
  /\ pc[k] = "shutting" /\ d \in pending[k]
  /\ ~Unanswered(d)
  /\ daemon' = [daemon EXCEPT ![d] = "dead"]
  /\ pending' = [pending EXCEPT ![k] = @ \ {d}]
  /\ UNCHANGED <<store, conn, pc, view, todo, excused, foreign, mute>>

\* The control server answers with an error, or the kill is not permitted.
ShutDownFails(k, d) ==
  /\ pc[k] = "shutting" /\ d \in pending[k]
  /\ Alive(d) /\ ~Unanswered(d)
  /\ excused' = excused \cup {d}
  /\ pending' = [pending EXCEPT ![k] = @ \ {d}]
  /\ UNCHANGED <<store, daemon, conn, pc, view, todo, foreign, mute>>

AllSettled(k) ==
  /\ pc[k] = "shutting" /\ pending[k] = {}
  /\ Goto(k, "purging")
  /\ UNCHANGED <<store, daemon, conn, view, todo, pending, excused, foreign, mute>>

PurgeRead(k) ==
  /\ pc[k] = "purging" /\ todo[k] # {}
  /\ view' = [view EXCEPT ![k] = store]
  /\ Goto(k, "erasing")
  /\ UNCHANGED <<store, daemon, conn, todo, pending, excused, foreign, mute>>

Erase(k, d) ==
  /\ pc[k] = "erasing" /\ d \in todo[k]
  /\ store' = view[k] \ {d}
  /\ view' = [view EXCEPT ![k] = {}]
  /\ todo' = [todo EXCEPT ![k] = @ \ {d}]
  /\ Goto(k, "purging")
  /\ UNCHANGED <<daemon, conn, pending, excused, foreign, mute>>

\* Every entry has had its status shown, or has been deleted.
FinishList(k) ==
  /\ pc[k] = "listing" /\ todo[k] = {}
  /\ Goto(k, "idle")
  /\ UNCHANGED <<store, daemon, conn, view, todo, pending, excused, foreign, mute>>

FinishDisconnect(k) ==
  /\ pc[k] = "purging" /\ todo[k] = {}
  /\ Goto(k, "idle")
  /\ UNCHANGED <<store, daemon, conn, view, todo, pending, excused, foreign, mute>>

FinishCommand(k) == FinishList(k) \/ FinishDisconnect(k)

KillCommand(k) ==
  /\ pc[k] \in CmdSteps
  /\ Goto(k, "idle")
  /\ view' = [view EXCEPT ![k] = {}]
  /\ todo' = [todo EXCEPT ![k] = {}]
  /\ pending' = [pending EXCEPT ![k] = {}]
  /\ UNCHANGED <<store, daemon, conn, excused, foreign, mute>>

-----------------------------------------------------------------------------
(* The daemons themselves *)

DaemonBinds(c) ==
  /\ daemon[c] = "starting"
  /\ ~PortInUse(PortOf[c])
  /\ daemon' = [daemon EXCEPT ![c] = "up"]
  /\ UNCHANGED <<store, conn, pc, view, todo, pending, excused, foreign, mute>>

DaemonQuits(c) ==
  /\ Alive(c)
  /\ daemon' = [daemon EXCEPT ![c] = "dead"]
  /\ UNCHANGED <<store, conn, pc, view, todo, pending, excused, foreign, mute>>

\* The process stops serving its control port, and goes on existing.
DaemonFallsMute(c) ==
  /\ Alive(c) /\ c \notin mute
  /\ mute' = mute \cup {c}
  /\ UNCHANGED <<store, daemon, conn, pc, view, todo, pending, excused, foreign>>

(* Other programs of the machine *)

OtherBinds(p) ==
  /\ ~PortInUse(p)
  /\ foreign' = foreign \cup {p}
  /\ UNCHANGED <<store, daemon, conn, pc, view, todo, pending, excused, mute>>

OtherLeaves(p) ==
  /\ p \in foreign
  /\ foreign' = foreign \ {p}
  /\ UNCHANGED <<store, daemon, conn, pc, view, todo, pending, excused, mute>>

-----------------------------------------------------------------------------

ConnectStep(c) ==
  \/ CreateConnection(c) \/ RefuseConnect(c) \/ PassChecks(c) \/ SpawnDaemon(c)
  \/ KubeConfigFails(c) \/ AddRead(c) \/ AddWrite(c) \/ ServerStarted(c) 
  \/ ServerTimeout(c) \/ StopOwnDaemon(c) \/ ExitWithDaemon(c)

CommandStep(k) ==
  \/ \E d \in Conn : \/ ListRunning(k, d) \/ ListGone(k, d) \/ Unlist(k, d)
                     \/ ShutDownSucceeds(k, d) \/ ShutDownFails(k, d) \/ Erase(k, d)
  \/ AllSettled(k) \/ PurgeRead(k) \/ FinishCommand(k)

Next ==
  \/ \E c \in Conn : \/ ConnectStep(c) \/ KillConnect(c)
                     \/ DaemonBinds(c) \/ DaemonQuits(c) \/ DaemonFallsMute(c)
  \/ \E p \in Ports : OtherBinds(p) \/ OtherLeaves(p)
  \/ \E k \in Cmd : \/ StartList(k) \/ StartDisconnect(k)
                    \/ CommandStep(k) \/ KillCommand(k)

Spec == Init /\ [][Next]_vars

\* A command that has begun is a running process: the operating system
\* schedules it and its timers fire.  A daemon whose control server works
\* answers a request to shut down, or refuses it; nothing is assumed of one
\* that does not, and nothing makes a daemon bind its port or end.
FairSpec ==
  /\ Spec
  /\ \A c \in Conn : WF_vars(pc[c] # "idle" /\ ConnectStep(c))
  /\ \A k \in Cmd : WF_vars(CommandStep(k))
-----------------------------------------------------------------------------
(* Properties *)

\* Every daemon that runs on this machine is one list-daemons can show: it is
\* recorded, its connect command is still at work, or stopping it failed or
\* that command was killed.
LiveDaemonsAreRecorded == \A c \in Conn :
  Alive(c) => c \in store \cup excused \/ pc[c] \in ConnSteps

\* A connect command that reported failure left no daemon behind, unless
\* stopping it threw.
FailedConnectsLeaveNoDaemon == \A c \in Conn :
  pc[c] = "failed" /\ Alive(c) => c \in excused

\* disconnectAllDaemons starts deleting entries only when each daemon of its
\* snapshot is gone or the attempt to stop it threw.
PurgedDaemonsAreStopped == \A k \in Cmd :
  pc[k] \in {"purging", "erasing"} =>
    \A d \in todo[k] : Alive(d) => d \in excused

\* A daemon that is in no entry because its connect failed or was killed
\* before making one, or because stopping it failed before it was deleted.
Lost(c) == c \notin store /\ (pc[c] = "failed" \/ c \in excused)

\* Two running kube daemons serve one target as one user, and so claim one
\* context of the user's kube config, only if one of them has been lost.  It
\* holds for commands that do not overlap; two connects that do both pass
\* the check before either makes its entry.
OneDaemonPerTarget == \A c, d \in Conn :
  c # d /\ Alive(c) /\ Alive(d) /\ TargetOf[c] = TargetOf[d] => Lost(c) \/ Lost(d)

\* Every connect command comes to an end, whether or not its daemon binds its
\* port or ends, unless the daemon it has to stop takes the request to shut
\* down and never answers it.
ConnectTerminates == \A c \in Conn :
  pc[c] \in ConnSteps ~>
    \/ pc[c] \in Resting
    \/ pc[c] = "stopping" /\ Unanswered(c)

\* Every list-daemons and disconnect command comes to an end, unless it waits
\* for a daemon that takes the request to shut down and never answers it.
CommandTerminates == \A k \in Cmd :
  pc[k] \in CmdSteps ~>
    \/ pc[k] = "idle"
    \/ pc[k] = "shutting" /\ \E d \in pending[k] : Unanswered(d)

\* One db, rdp or sqlserver command at a time implements DaemonRegistry.
Registry == INSTANCE DaemonRegistry WITH
  live <- {c \in Conn : Alive(c)},
  recorded <- store,
  connecting <- {c \in Conn : pc[c] \in ConnSteps}

ImplementsRegistry == Registry!Spec
=============================================================================

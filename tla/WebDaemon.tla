------------------------------ MODULE WebDaemon ------------------------------
(***************************************************************************)
(* The web daemon.  Unlike the other types it has a single slot in the     *)
(* zli's configuration file, webConfig, which every command reads whole    *)
(* at its start and writes back whole later.  A web connect stops the      *)
(* daemon of the slot and puts its own there; list-daemons empties the     *)
(* slot of a daemon that has gone, and kills whatever listens at the local *)
(* port of an empty slot; disconnect and logout stop the daemon.           *)
(*                                                                         *)
(* A daemon is named by the connect command that spawns it.                *)
(***************************************************************************)
CONSTANTS
  Conn,        \* web connect commands
  Cmd,         \* zli processes that list, disconnect or log out
  PortOf,      \* the local port each connect command uses
  Concurrent,  \* whether commands may overlap
  None         \* no pid

Port == {PortOf[c] : c \in Conn}

ASSUME WebAssumption ==
  /\ Conn \cap Cmd = {}
  /\ None \notin Conn
  /\ Concurrent \in BOOLEAN

VARIABLES
  slot,     \* webConfig: the daemon of localPid, and localPort
  daemon,   \* the process of each connect command
  other,    \* ports at which programs listen that are no web daemons
  pc,       \* where each command is
  view,     \* the slot as the command read it
  excused,  \* daemons that could not be stopped, or whose connect was
            \* killed before it could record them
  mute      \* daemons whose control server accepts a request and never answers

vars == <<slot, daemon, other, pc, view, excused, mute>>

Zli == Conn \cup Cmd
Slot == [daemon : Conn \cup {None}, port : Port \cup {None}]
Resting == {"idle", "done", "failed", "killed"}
ConnSteps == {"replacing", "checking", "spawning", "saving", "waiting"}
CmdSteps == {"listing", "freeing", "stopping", "clearing"}

TypeOK ==
  /\ slot \in Slot
  /\ daemon \in [Conn -> {"none", "starting", "up", "dead"}]
  /\ other \in SUBSET Port
  /\ pc \in [Zli -> Resting \cup ConnSteps \cup CmdSteps]
  /\ view \in [Zli -> Slot]
  /\ excused \in SUBSET Conn
  /\ mute \in SUBSET Conn

Alive(c) == c # None /\ daemon[c] \in {"starting", "up"}
Listening(p) == {d \in Conn : daemon[d] = "up" /\ PortOf[d] = p}
PortInUse(p) == p \in other \/ Listening(p) # {}

Empty == [daemon |-> None, port |-> None]

Init ==
  /\ slot = Empty
  /\ daemon = [c \in Conn |-> "none"]
  /\ other = {}
  /\ pc = [p \in Zli |-> "idle"]
  /\ view = [p \in Zli |-> Empty]
  /\ excused = {}
  /\ mute = {}

MayStart == Concurrent \/ \A p \in Zli : pc[p] \in Resting
Goto(p, l) == pc' = [pc EXCEPT ![p] = l]
Forget(p) == view' = [view EXCEPT ![p] = Empty]

\* The request that asks a daemon to shut down has no time limit.
Unanswered(d) == Alive(d) /\ d \in mute

\* shutDownDaemonAndLog: an error is logged, and the command goes on.
ShutDown(d) ==
  /\ ~Unanswered(d)
  /\ \/ /\ daemon' = [c \in Conn |-> IF c = d /\ Alive(d) THEN "dead" ELSE daemon[c]]
        /\ UNCHANGED excused
     \/ /\ Alive(d)
        /\ excused' = excused \cup {d}
        /\ UNCHANGED daemon

\* killPortProcess: web daemon or not, errors are ignored.
KillListeners(p) ==
  \E killed \in SUBSET Listening(p) :
    /\ daemon' = [c \in Conn |-> IF c \in killed THEN "dead" ELSE daemon[c]]
    /\ other' \in {other, other \ {p}}

-----------------------------------------------------------------------------
(* Slips that a change to the code could make, one per operator.             *)

\* the slot is emptied when the server does not start.
ForgetAtTimeout(c) ==
  /\ pc[c] = "waiting" /\ ~PortInUse(PortOf[c])
  /\ slot' = Empty
  /\ Goto(c, "failed")
  /\ UNCHANGED <<daemon, other, view, excused, mute>>

\* the daemon of the slot is stopped only for its port.
KeepPrevious(c) ==
  /\ pc[c] = "replacing"
  /\ IF view[c].port = PortOf[c]
       THEN ShutDown(view[c].daemon) ELSE UNCHANGED <<daemon, excused, mute>>
  /\ Goto(c, "checking")
  /\ Forget(c)
  /\ UNCHANGED <<slot, other, mute>>

\* the wait has no limit while the process exists.
TimeoutOnlyWhenGone(c) ==
  /\ pc[c] = "waiting" /\ ~Alive(c)
  /\ Goto(c, "failed")
  /\ UNCHANGED <<slot, daemon, other, view, excused, mute>>

-----------------------------------------------------------------------------
(* zli connect *)

StartConnect(c) ==
  /\ pc[c] = "idle" /\ MayStart
  /\ view' = [view EXCEPT ![c] = slot]
  /\ Goto(c, "replacing")
  /\ UNCHANGED <<slot, daemon, other, excused, mute>>

StopPrevious(c) ==
  /\ pc[c] = "replacing"
  /\ ShutDown(view[c].daemon)
  /\ Goto(c, "checking")
  /\ Forget(c)
  /\ UNCHANGED <<slot, other, mute>>

\* The handler throws; the slot still names the daemon that was stopped.
PortTaken(c) ==
  /\ pc[c] = "checking" /\ PortInUse(PortOf[c])
  /\ Goto(c, "failed")
  /\ UNCHANGED <<slot, daemon, other, view, excused, mute>>

PortFree(c) ==
  /\ pc[c] = "checking" /\ ~PortInUse(PortOf[c])
  /\ Goto(c, "spawning")
  /\ UNCHANGED <<slot, daemon, other, view, excused, mute>>

SpawnDaemon(c) ==
  /\ pc[c] = "spawning"
  /\ daemon' = [daemon EXCEPT ![c] = "starting"]
  /\ Goto(c, "saving")
  /\ UNCHANGED <<slot, other, view, excused, mute>>

\* Every field of the slot is the command's own.
SaveSlot(c) ==
  /\ pc[c] = "saving"
  /\ slot' = [daemon |-> c, port |-> PortOf[c]]
  /\ Goto(c, "waiting")
  /\ UNCHANGED <<daemon, other, view, excused, mute>>

ServerStarted(c) ==
  /\ pc[c] = "waiting" /\ PortInUse(PortOf[c])
  /\ Goto(c, "done")
  /\ UNCHANGED <<slot, daemon, other, view, excused, mute>>

\* The handler returns 1 and leaves daemon and slot as they are.
ServerTimeout(c) ==
  /\ pc[c] = "waiting" /\ ~PortInUse(PortOf[c])
  /\ Goto(c, "failed")
  /\ UNCHANGED <<slot, daemon, other, view, excused, mute>>

ExitWithDaemon(c) ==
  /\ pc[c] = "waiting" /\ ~Alive(c)
  /\ Goto(c, "failed")
  /\ UNCHANGED <<slot, daemon, other, view, excused, mute>>

KillConnect(c) ==
  /\ pc[c] \in ConnSteps
  /\ excused' = excused \cup {d \in {c} : pc[c] = "saving"}
  /\ Goto(c, "killed")
  /\ Forget(c)
  /\ UNCHANGED <<slot, daemon, other, mute>>

-----------------------------------------------------------------------------
(* zli list-daemons *)

StartList(k) ==
  /\ pc[k] = "idle" /\ MayStart
  /\ view' = [view EXCEPT ![k] = slot]
  /\ Goto(k, "listing")
  /\ UNCHANGED <<slot, daemon, other, excused, mute>>

\* The daemon is shown.
ListRunning(k) ==
  /\ pc[k] = "listing" /\ Alive(view[k].daemon)
  /\ Goto(k, "idle")
  /\ Forget(k)
  /\ UNCHANGED <<slot, daemon, other, excused, mute>>

\* No pid is set: nothing is written back.
ListNone(k) ==
  /\ pc[k] = "listing" /\ view[k].daemon = None
  /\ KillListeners(view[k].port)
  /\ Goto(k, "idle")
  /\ Forget(k)
  /\ UNCHANGED <<slot, excused, mute>>

ListGone(k) ==
  /\ pc[k] = "listing" /\ view[k].daemon # None /\ ~Alive(view[k].daemon)
  /\ Goto(k, "freeing")
  /\ UNCHANGED <<slot, daemon, other, view, excused, mute>>

FreePort(k) ==
  /\ pc[k] = "freeing"
  /\ KillListeners(view[k].port)
  /\ Goto(k, "clearing")
  /\ UNCHANGED <<slot, view, excused, mute>>

-----------------------------------------------------------------------------
(* zli disconnect and zli logout *)

StartDisconnect(k) ==
  /\ pc[k] = "idle" /\ MayStart
  /\ view' = [view EXCEPT ![k] = slot]
  /\ Goto(k, "stopping")
  /\ UNCHANGED <<slot, daemon, other, excused, mute>>

StopRecorded(k) ==
  /\ pc[k] = "stopping" /\ view[k].daemon # None
  /\ ShutDown(view[k].daemon)
  /\ Goto(k, "clearing")
  /\ UNCHANGED <<slot, other, view, mute>>

\* logout writes the slot back all the same, disconnect does not.
NothingToStop(k) ==
  /\ pc[k] = "stopping" /\ view[k].daemon = None
  /\ \E next \in {"idle", "clearing"} : Goto(k, next)
  /\ UNCHANGED <<slot, daemon, other, view, excused, mute>>

\* The slot is written back as it was read, with no pid.
ClearPid(k) ==
  /\ pc[k] = "clearing"
  /\ slot' = [view[k] EXCEPT !.daemon = None]
  /\ Goto(k, "idle")
  /\ Forget(k)
  /\ UNCHANGED <<daemon, other, excused, mute>>

KillCommand(k) ==
  /\ pc[k] \in CmdSteps
  /\ Goto(k, "idle")
  /\ Forget(k)
  /\ UNCHANGED <<slot, daemon, other, excused, mute>>

-----------------------------------------------------------------------------
(* Daemons and other programs *)

DaemonBinds(c) ==
  /\ daemon[c] = "starting" /\ ~PortInUse(PortOf[c])
  /\ daemon' = [daemon EXCEPT ![c] = "up"]
  /\ UNCHANGED <<slot, other, pc, view, excused, mute>>

DaemonQuits(c) ==
  /\ Alive(c)
  /\ daemon' = [daemon EXCEPT ![c] = "dead"]
  /\ UNCHANGED <<slot, other, pc, view, excused, mute>>

DaemonFallsMute(c) ==
  /\ Alive(c) /\ c \notin mute
  /\ mute' = mute \cup {c}
  /\ UNCHANGED <<slot, daemon, other, pc, view, excused>>

OtherBinds(p) ==
  /\ ~PortInUse(p)
  /\ other' = other \cup {p}
  /\ UNCHANGED <<slot, daemon, pc, view, excused, mute>>

OtherQuits(p) ==
  /\ p \in other
  /\ other' = other \ {p}
  /\ UNCHANGED <<slot, daemon, pc, view, excused, mute>>

-----------------------------------------------------------------------------

ConnectStep(c) ==
  \/ StopPrevious(c) \/ PortTaken(c) \/ PortFree(c) \/ SpawnDaemon(c)
  \/ SaveSlot(c) \/ ServerStarted(c) \/ ServerTimeout(c) \/ ExitWithDaemon(c)

CommandStep(k) ==
  \/ ListRunning(k) \/ ListNone(k) \/ ListGone(k) \/ FreePort(k)
  \/ StopRecorded(k) \/ NothingToStop(k) \/ ClearPid(k)

Next ==
  \/ \E c \in Conn : \/ StartConnect(c) \/ ConnectStep(c) \/ KillConnect(c)
                     \/ DaemonBinds(c) \/ DaemonQuits(c) \/ DaemonFallsMute(c)
  \/ \E k \in Cmd : \/ StartList(k) \/ StartDisconnect(k)
                    \/ CommandStep(k) \/ KillCommand(k)
  \/ \E p \in Port : OtherBinds(p) \/ OtherQuits(p)

Spec == Init /\ [][Next]_vars

\* A running command is scheduled, and its wait for the server has a time
\* limit.  A daemon whose control server works answers a request to shut down,
\* or refuses it; nothing is assumed of one that does not.
FairSpec ==
  /\ Spec
  /\ \A c \in Conn : WF_vars(ConnectStep(c))
  /\ \A k \in Cmd : WF_vars(CommandStep(k))
-----------------------------------------------------------------------------
(* Properties *)

\* A web daemon that runs is the one of the slot, which list-daemons shows
\* and the next connect, disconnect or logout stops; or its connect command
\* is about to save it, or was killed before that; or the user was told that
\* it could not be stopped.  Of two connects that overlap it does not hold.
WebDaemonRecorded == \A c \in Conn :
  Alive(c) => slot.daemon = c \/ c \in excused \/ pc[c] = "saving"

\* Two web daemons never run at once, unless stopping the first one failed.
OneWebDaemon == \A c, d \in Conn :
  Alive(c) /\ Alive(d) => c = d \/ c \in excused \/ d \in excused

\* Every command ends, whether or not daemons bind their ports or end and
\* whatever other programs do with these, unless it waits for a daemon that
\* takes the request to shut down and never answers it.
WebCommandTerminates == \A p \in Zli :
  pc[p] \notin Resting ~>
    \/ pc[p] \in Resting
    \/ pc[p] \in {"replacing", "stopping"} /\ Unanswered(view[p].daemon)
=============================================================================

--------------------------- MODULE DaemonInstall ---------------------------
(***************************************************************************)
(* copyExecutableToLocalDir: zli commands that start a daemon copy its     *)
(* executable out of the packaged zli, once for each version of the zli.   *)
(* The commands of all versions share one directory and one lock file;     *)
(* whoever installs a version first deletes the executables of the others. *)
(***************************************************************************)
CONSTANTS
  Process,      \* zli processes that start a daemon
  Version,      \* versions of the zli
  VersionOf,    \* the version each process is of
  LockMayFail,  \* the lock may stay taken for longer than a command waits
  Healthy       \* no copy fails and no process is killed

ASSUME InstallAssumption ==
  /\ VersionOf \in [Process -> Version]
  /\ Process \cap {"free", "stale"} = {}
  /\ {LockMayFail, Healthy} \subseteq BOOLEAN

VARIABLES
  file,     \* the executable of each version
  lock,     \* who holds the lock; stale when its holder was killed
  step,     \* where each command is
  exiting,  \* commands that called cleanExit and went on
  broken    \* versions whose installation was cut short

installVars == <<file, lock, step, exiting, broken>>

\* A file that is being written, one without execute permission, a usable one.
FileState == {"absent", "partial", "written", "ready"}
Installing == {"locked", "copying", "writing", "permitting"}

InstallTypeOK ==
  /\ file \in [Version -> FileState]
  /\ lock \in Process \cup {"free", "stale"}
  /\ step \in [Process -> Installing \cup {"idle", "locking", "spawning", "running"}]
  /\ exiting \in SUBSET Process
  /\ \A p \in exiting : step[p] \in {"spawning", "running"}
  /\ broken \in SUBSET Version

InstallInit ==
  /\ file \in [Version -> {"absent", "ready"}]
  /\ lock = "free"
  /\ step = [p \in Process |-> "idle"]
  /\ exiting = {}
  /\ broken = {}

Exists(v) == file[v] # "absent"
Proceed(p, l) == step' = [step EXCEPT ![p] = l]
ReleaseAtExit(p) == lock' = IF lock = p THEN "free" ELSE lock

-----------------------------------------------------------------------------
(* Slips that a change to the code could make, one per operator.             *)

\* a lock is taken for stale although its holder is at work.
TakeAnyLock(p) ==
  /\ step[p] = "locking"
  /\ lock' = p
  /\ Proceed(p, "locked")
  /\ UNCHANGED <<file, exiting, broken>>

\* the directory is not looked at again under the lock.
InstallAgain(p) ==
  /\ step[p] = "locked"
  /\ \E kept \in SUBSET Version :
       file' = [v \in Version |-> IF v \in kept THEN file[v] ELSE "absent"]
  /\ Proceed(p, "copying")
  /\ UNCHANGED <<lock, exiting, broken>>

\* the copy is not waited for.
CopyUnawaited(p) ==
  /\ step[p] = "copying"
  /\ file' = [file EXCEPT ![VersionOf[p]] = "partial"]
  /\ Proceed(p, "spawning")
  /\ UNCHANGED <<lock, exiting, broken>>

\* the wait for the lock has no limit.
WaitForLock(p) ==
  /\ step[p] = "locking"
  /\ LockMayFail /\ lock = "stale"
  /\ exiting' = exiting \cup {p}
  /\ Proceed(p, "spawning")
  /\ UNCHANGED <<file, lock, broken>>

-----------------------------------------------------------------------------

\* The fast path, without the lock: any file of that name will do.
FindExecutable(p) ==
  /\ step[p] = "idle" /\ Exists(VersionOf[p])
  /\ Proceed(p, "spawning")
  /\ UNCHANGED <<file, lock, exiting, broken>>

MissExecutable(p) ==
  /\ step[p] = "idle" /\ ~Exists(VersionOf[p])
  /\ Proceed(p, "locking")
  /\ UNCHANGED <<file, lock, exiting, broken>>

AcquireLock(p) ==
  /\ step[p] = "locking"
  /\ lock \in {"free", "stale"}
  /\ lock' = p
  /\ Proceed(p, "locked")
  /\ UNCHANGED <<file, exiting, broken>>

\* cleanExit is called and not awaited, so that the path is still returned.
LockTimeout(p) ==
  /\ step[p] = "locking"
  /\ LockMayFail /\ lock # "free"
  /\ exiting' = exiting \cup {p}
  /\ Proceed(p, "spawning")
  /\ UNCHANGED <<file, lock, broken>>

\* This return leaves the lock to be removed when the process exits.
FoundInstalled(p) ==
  /\ step[p] = "locked" /\ Exists(VersionOf[p])
  /\ Proceed(p, "spawning")
  /\ UNCHANGED <<file, lock, exiting, broken>>

\* Every executable is removed that the system lets go of.
RemoveOld(p) ==
  /\ step[p] = "locked" /\ ~Exists(VersionOf[p])
  /\ \E kept \in SUBSET Version :
       file' = [v \in Version |-> IF v \in kept THEN file[v] ELSE "absent"]
  /\ Proceed(p, "copying")
  /\ UNCHANGED <<lock, exiting, broken>>

StartCopy(p) ==
  /\ step[p] = "copying"
  /\ file' = [file EXCEPT ![VersionOf[p]] = "partial"]
  /\ Proceed(p, "writing")
  /\ UNCHANGED <<lock, exiting, broken>>

FinishCopy(p) ==
  /\ step[p] = "writing"
  /\ file' = [file EXCEPT ![VersionOf[p]] = "written"]
  /\ Proceed(p, "permitting")
  /\ UNCHANGED <<lock, exiting, broken>>

\* A write or chmod fails: as after LockTimeout, with the lock still taken.
InstallFails(p) ==
  /\ ~Healthy /\ step[p] \in {"writing", "permitting"}
  /\ exiting' = exiting \cup {p}
  /\ broken' = broken \cup {VersionOf[p]}
  /\ Proceed(p, "spawning")
  /\ UNCHANGED <<file, lock>>

GrantPermission(p) ==
  /\ step[p] = "permitting"
  /\ file' = [file EXCEPT ![VersionOf[p]] = "ready"]
  /\ lock' = "free"
  /\ Proceed(p, "spawning")
  /\ UNCHANGED <<exiting, broken>>

\* The daemon is spawned; a connect then ends, a shell stays.
Spawn(p) ==
  /\ step[p] = "spawning"
  /\ Proceed(p, "running")
  /\ UNCHANGED <<file, lock, exiting, broken>>

\* When a process exits its lock file is removed.
Exit(p) ==
  /\ step[p] = "running" \/ p \in exiting
  /\ ReleaseAtExit(p)
  /\ exiting' = exiting \ {p}
  /\ Proceed(p, "idle")
  /\ UNCHANGED <<file, broken>>

\* No exit handler runs: the lock file stays until it is found stale.
Kill(p) ==
  /\ ~Healthy /\ step[p] # "idle"
  /\ lock' = IF lock = p THEN "stale" ELSE lock
  /\ broken' = IF step[p] \in {"writing", "permitting"}
                 THEN broken \cup {VersionOf[p]} ELSE broken
  /\ exiting' = exiting \ {p}
  /\ Proceed(p, "idle")
  /\ UNCHANGED file

Install(p) ==
  \/ AcquireLock(p) \/ LockTimeout(p) \/ FoundInstalled(p) \/ RemoveOld(p)
  \/ StartCopy(p) \/ FinishCopy(p) \/ InstallFails(p) \/ GrantPermission(p)
  \/ Spawn(p)

InstallNext == \E p \in Process :
  \/ FindExecutable(p) \/ MissExecutable(p) \/ Install(p)
  \/ Exit(p) \/ Kill(p)

InstallSpec == InstallInit /\ [][InstallNext]_installVars

\* The system schedules a running command; the retries for the lock are
\* limited, and a copy ends.
FairInstallSpec == InstallSpec /\ \A p \in Process : WF_installVars(Install(p))
-----------------------------------------------------------------------------
(* Properties *)

\* Two commands never remove or copy executables at the same time, whatever
\* their versions, and whether or not others gave up waiting for the lock.
OneInstaller == \A p, q \in Process :
  step[p] \in Installing /\ step[q] \in Installing => p = q

\* An executable that is not usable is being installed, or an installation of
\* that version was cut short by a failure or by a kill.
HalfInstalledHasCause == \A v \in Version :
  file[v] \in {"partial", "written"} =>
    \/ v \in broken
    \/ \E p \in Process : VersionOf[p] = v /\ step[p] \in {"writing", "permitting"}

\* A usable executable is never written to again; it goes only when a command
\* of another version installs its own.
UsableStaysUsable ==
  [][\A v \in Version : file[v] = "ready" /\ file'[v] # "ready" =>
       /\ file'[v] = "absent"
       /\ \E p \in Process : VersionOf[p] # v /\ lock = p]_installVars

\* A command that needs the executable gets to spawn its daemon or ends, also
\* when another keeps the lock.
InstallTerminates == \A p \in Process :
  step[p] = "locking" ~> step[p] \in {"running", "idle"}
=============================================================================

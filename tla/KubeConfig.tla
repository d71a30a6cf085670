----------------------------- MODULE KubeConfig -----------------------------
(***************************************************************************)
(* The user's kube config file and the zli commands that write it: `zli    *)
(* connect' to a cluster adds a context for its daemon, `list-daemons' and *)
(* `disconnect' take away what belongs to no daemon, `generate kubeConfig' *)
(* adds a context for every daemon again, and `zli kube' reads it.  The    *)
(* file also belongs to the user, who edits it with other programs.        *)
(*                                                                         *)
(* A command reads the file, waits, and writes the whole of it.  All       *)
(* daemons are given one token, kept with their certificates in the zli's  *)
(* settings.  How the list of daemons itself is read and written is        *)
(* DaemonManagement's subject: here a change of it is one step.            *)
(***************************************************************************)
EXTENDS Naturals

CONSTANTS
  Conn,       \* `zli connect' commands, each with the daemon it spawns
  Cmd,        \* other zli commands
  Name,       \* names of entries in the file
  NameOf,     \* the name generated for a target and its user
  Managed,    \* the name of the zli's user entry
  Legacy,     \* names that older versions of the zli gave it
  Port, PortOf,
  MaxToken,   \* bound: how many tokens are generated
  MaxRuns,    \* bound: how many other commands that may write are run
  Edits,      \* what a user may put under a name: <<name, entry>>
  Files,      \* what the file may hold at first
  None

VARIABLES
  file,       \* the user's kube config
  copy,       \* what a command that has read it is going to write
  settings,   \* the token the zli has stored, and whether its files exist
  token,      \* the token a command uses: its daemon's, if it spawns one
  fresh,      \* how many tokens have been generated
  runs,       \* how many have been run
  adds,       \* how many daemons have been recorded
  store,      \* when each daemon was recorded, 0 if it is not
  alive,      \* the daemons that run
  pc, job,
  match,      \* the daemon `zli kube' has found
  wanted,     \* history: what the user last put under each own name
  raced,      \* history: own names edited while a command held a copy
  lent,       \* history: clusters of contexts the user made for the zli's user
  disturbed   \* history: connects that overlapped another command

vars == <<file, copy, settings, token, fresh, runs, adds, store, alive, pc,
          job, match, wanted, raced, lent, disturbed>>

Proc == Conn \cup Cmd
Token == 0 .. MaxToken     \* 0: none
OwnName == Name \ ({NameOf[c] : c \in Conn} \cup {Managed})
Context == [cluster : Name, user : Name]
Config == [clusters : [Name -> Port \cup {None}],
           contexts : [Name -> Context \cup {None}],
           users : [Name -> Token],
           current : Name \cup {None},
           other : BOOLEAN]   \* fields that the zli has no place for
Entry == [context : Context \cup {None}, cluster : Port \cup {None}, user : Token]

ASSUME KubeAssumption ==
  /\ Conn \cap Cmd = {} /\ MaxToken \in Nat /\ MaxRuns \in Nat
  /\ NameOf \in [Conn -> Name] /\ Managed \in Name /\ Legacy \subseteq Name
  /\ PortOf \in [Conn -> Port] /\ None \notin Port \cup Name \cup Context \cup Conn
  /\ Edits \subseteq OwnName \X Entry
  /\ Files \subseteq Config

\* The entries of one name.
At(f, n) == [context |-> f.contexts[n], cluster |-> f.clusters[n], user |-> f.users[n]]

IsManaged(f, n) == f.contexts[n] # None /\ f.contexts[n].user = Managed

Recorded == {c \in Conn : store[c] > 0}
Running == Recorded \cap alive

TypeOK ==
  /\ file \in Config /\ copy \in [Proc -> Config]
  /\ settings \in [token : Token, files : BOOLEAN]
  /\ token \in [Proc -> Token] /\ fresh \in Token /\ runs \in 0 .. MaxRuns
  /\ adds \in Nat /\ store \in [Conn -> Nat] /\ alive \subseteq Conn
  /\ pc \in [Proc -> {"idle", "settings", "generating", "spawning", "loading",
                      "checking", "shutting", "filtering", "judging", "rolling",
                      "writing", "overwriting", "adding", "waiting", "kubectl",
                      "done", "failed"}]
  /\ job \in [Cmd -> {"list", "disconnect", "generate", "force", "kube"}]
  /\ match \in [Cmd -> Conn \cup {None}]
  /\ wanted \in [OwnName -> Entry]
  /\ raced \subseteq OwnName /\ lent \subseteq Name /\ disturbed \subseteq Conn

Init ==
  /\ file \in Files /\ copy = [p \in Proc |-> file]
  /\ settings = [token |-> 0, files |-> FALSE]
  /\ token = [p \in Proc |-> 0] /\ fresh = 0 /\ runs = 0
  /\ adds = 0 /\ store = [c \in Conn |-> 0] /\ alive = {}
  /\ pc = [p \in Proc |-> "idle"]
  /\ job = [k \in Cmd |-> "list"] /\ match = [k \in Cmd |-> None]
  /\ wanted = [n \in OwnName |-> At(file, n)]
  /\ lent = {file.contexts[n].cluster : n \in {m \in Name : IsManaged(file, m)}}
  /\ raced = {} /\ disturbed = {}

-----------------------------------------------------------------------------
(* Kube configurations *)

\* What one map has, and what another has under names the first has not.
OrElse(f, g, none) == [n \in Name |-> IF f[n] = none THEN g[n] ELSE f[n]]

\* Only what the zli knows of is loaded.
Loaded(f) == [f EXCEPT !.other = FALSE]

\* The entries of `dest' win.
Merged(src, dest) ==
  [clusters |-> OrElse(dest.clusters, src.clusters, None),
   contexts |-> OrElse(dest.contexts, src.contexts, None),
   users |-> OrElse(dest.users, src.users, 0),
   current |-> IF dest.current = None THEN src.current ELSE dest.current,
   other |-> src.other \/ dest.other]

Newest(cs) == CHOOSE c \in cs : \A d \in cs : store[d] <= store[c]

\* The configuration for some daemons, which the user's entry gives one token:
\* of two daemons with one name the later one's is kept.
Generated(cs, t) ==
  LET Of(n) == {c \in cs : NameOf[c] = n}
  IN [clusters |-> [n \in Name |-> IF Of(n) = {} THEN None ELSE PortOf[Newest(Of(n))]],
      contexts |-> [n \in Name |-> IF Of(n) = {} THEN None
                                   ELSE [cluster |-> n, user |-> Managed]],
      users |-> [n \in Name |-> IF n = Managed /\ cs # {} THEN t ELSE 0],
      current |-> IF cs = {} THEN None ELSE NameOf[Newest(cs)],
      other |-> FALSE]

\* A slip: the user's own entries at such ports are taken for the zli's.
StaleAnyUser(f) == {n \in Name : f.contexts[n] # None /\
  f.clusters[f.contexts[n].cluster] \notin {PortOf[c] : c \in Recorded} \cup {None}}

\* Managed contexts whose cluster is there and at no recorded daemon's port.
Stale(f) == {n \in Name : IsManaged(f, n) /\
  f.clusters[f.contexts[n].cluster] \notin {PortOf[c] : c \in Recorded} \cup {None}}

\* The current context stays what it is, even if it goes.
Filtered(f) ==
  LET gone == {f.contexts[n].cluster : n \in Stale(f)}
  IN [f EXCEPT
        !.contexts = [n \in Name |-> IF n \in Stale(f) THEN None ELSE @[n]],
        !.clusters = [n \in Name |-> IF n \in gone THEN None ELSE @[n]],
        !.users = [n \in Name |-> IF n = Managed /\ Running = {} THEN 0 ELSE @[n]]]

\* The port a context leads to.
Leads(f, n) == IF n = None \/ f.contexts[n] = None THEN None
               ELSE f.clusters[f.contexts[n].cluster]

-----------------------------------------------------------------------------
(* Steps that commands share *)

Goto(p, l) == pc' = [pc EXCEPT ![p] = l]
Busy == {p \in Proc : pc[p] \notin {"idle", "done", "failed"}}
Forcing(k) == pc[k] \in {"checking", "shutting"} /\ job[k] = "force"

\* What a command that starts makes of those that already run, and they of it.
Overlapping(p) == IF Busy = {} THEN {} ELSE (Busy \cup {p}) \cap Conn

history == <<wanted, raced, lent>>
counts == <<fresh, runs, adds>>

\* getKubeDaemonSecuritySettings, whose last part follows a wait.
AfterSettings(p) == CASE p \in Conn -> "spawning"
                      [] p \notin Conn /\ job[p] = "force" -> "checking"
                      [] p \notin Conn /\ job[p] = "kube" -> "kubectl"
                      [] OTHER -> "rolling"

\* A slip: the token is generated again along with the files.
NeedsTokenForFiles(p) ==
  (p \in Cmd /\ job[p] = "force") \/ settings.token = 0 \/ ~settings.files

NeedsToken(p) == (p \in Cmd /\ job[p] = "force") \/ settings.token = 0

ReadSettings(p) ==
  /\ pc[p] = "settings"
  /\ IF NeedsToken(p)
     THEN /\ fresh < MaxToken /\ fresh' = fresh + 1
          /\ token' = [token EXCEPT ![p] = fresh'] /\ Goto(p, "generating")
     ELSE /\ token' = [token EXCEPT ![p] = settings.token] /\ UNCHANGED fresh
          /\ Goto(p, IF settings.files THEN AfterSettings(p) ELSE "generating")
  /\ UNCHANGED <<file, copy, settings, runs, adds, store, alive, job, match,
                 history, disturbed>>

StoreSettings(p) ==
  /\ pc[p] = "generating" /\ Goto(p, AfterSettings(p))
  /\ settings' = [token |-> token[p], files |-> TRUE]
  /\ UNCHANGED <<file, copy, token, counts, store, alive, job, match, history, disturbed>>

\* updateUserKubeConfigWith reads the file and merges ...
LoadAndMerge(p, generated) ==
  /\ copy' = [copy EXCEPT ![p] = Merged(Loaded(file), generated)] /\ Goto(p, "writing")
  /\ UNCHANGED <<file, settings, token, counts, store, alive, job, match,
                 history, disturbed>>

\* ... and a rename puts the result in the file's place.
WriteFile(p) ==
  /\ pc[p] = "writing" /\ Goto(p, IF p \in Conn THEN "adding" ELSE "idle")
  /\ file' = copy[p]
  /\ UNCHANGED <<copy, settings, token, counts, store, alive, job, match,
                 history, disturbed>>

\* An interrupt at any time, or a read or a write that throws.  A `generate'
\* that dies between its new token and its disconnects leaves daemons that
\* have the old one.
Killed(p) ==
  /\ p \in Busy /\ Goto(p, IF p \in Conn THEN "failed" ELSE "idle")
  /\ disturbed' = IF p \in Cmd /\ Forcing(p) THEN Conn ELSE disturbed
  /\ UNCHANGED <<file, copy, settings, token, counts, store, alive, job, match, history>>

-----------------------------------------------------------------------------
(* zli connect *)

StartConnect(c) ==
  /\ pc[c] = "idle" /\ disturbed' = disturbed \cup Overlapping(c)
  /\ Goto(c, IF \E d \in Running : NameOf[d] = NameOf[c] THEN "failed" ELSE "settings")
  /\ UNCHANGED <<file, copy, settings, token, counts, store, alive, job, match, history>>

\* The port is free, or the handler throws.
SpawnDaemon(c) ==
  /\ pc[c] = "spawning"
  /\ IF \E d \in alive : PortOf[d] = PortOf[c]
     THEN Goto(c, "failed") /\ UNCHANGED alive
     ELSE Goto(c, "loading") /\ alive' = alive \cup {c}
  /\ UNCHANGED <<file, copy, settings, token, counts, store, job, match,
                 history, disturbed>>

LoadForDaemon(c) == pc[c] = "loading" /\ LoadAndMerge(c, Generated({c}, token[c]))

AddDaemon(c) ==
  /\ pc[c] = "adding" /\ Goto(c, "waiting") /\ adds' = adds + 1
  /\ store' = [store EXCEPT ![c] = adds']
  /\ UNCHANGED <<file, copy, settings, token, fresh, runs, alive, job, match,
                 history, disturbed>>

\* handleServerStart and pollDaemonReady succeed, or give up and leave it all.
ServerReady(c) ==
  /\ pc[c] = "waiting"
  /\ Goto(c, "failed") \/ (c \in alive /\ Goto(c, "done"))
  /\ UNCHANGED <<file, copy, settings, token, counts, store, alive, job, match,
                 history, disturbed>>

-----------------------------------------------------------------------------
(* The other commands *)

Start(k, j, l) ==
  /\ pc[k] = "idle" /\ job' = [job EXCEPT ![k] = j] /\ Goto(k, l)
  /\ runs' = (IF j = "kube" THEN runs ELSE runs + 1) /\ runs' <= MaxRuns
  /\ disturbed' = disturbed \cup Overlapping(k)
  /\ UNCHANGED <<file, copy, settings, token, fresh, adds, alive, history>>

\* Entries of daemons that have quit are removed before the file is filtered.
StartList(k) ==
  /\ Start(k, "list", "filtering") /\ UNCHANGED match
  /\ store' = [c \in Conn |-> IF c \in alive THEN store[c] ELSE 0]

StartDisconnect(k) == Start(k, "disconnect", "shutting") /\ UNCHANGED <<store, match>>

StartGenerate(k, j) ==
  j \in {"generate", "force"} /\ Start(k, j, "settings") /\ UNCHANGED <<store, match>>

\* bctlHandler: the current context, of this or an older zli, has to lead to a
\* daemon that runs.
StartKube(k) ==
  /\ Start(k, "kube", "settings") /\ UNCHANGED store
  /\ file.current # None /\ file.contexts[file.current] # None
  /\ file.contexts[file.current].user \in {Managed} \cup Legacy
  /\ \E c \in Running : /\ PortOf[c] = Leads(file, file.current)
                        /\ match' = [match EXCEPT ![k] = c]

\* A slip: daemons with the old token are left running.
ForceWithoutDisconnect(k) ==
  /\ pc[k] = "checking" /\ Goto(k, "rolling")
  /\ UNCHANGED <<file, copy, settings, token, counts, store, alive, job, match,
                 history, disturbed>>

\* generate --force looks for running daemons once it has its new token.
CheckRunning(k) ==
  /\ pc[k] = "checking" /\ Goto(k, IF Running = {} THEN "rolling" ELSE "shutting")
  /\ UNCHANGED <<file, copy, settings, token, counts, store, alive, job, match,
                 history, disturbed>>

\* disconnectAllDaemons: `left' are those that cannot be shut down.  All are
\* forgotten.
ShutDownAll(k, left) ==
  /\ pc[k] = "shutting" /\ left \subseteq Running
  /\ alive' = alive \ (Running \ left) /\ store' = [c \in Conn |-> 0] /\ Goto(k, "filtering")
  /\ UNCHANGED <<file, copy, settings, token, counts, job, match, history, disturbed>>

\* filterAndOverwriteUserKubeConfig reads the file, then looks at the daemons,
\* and writes if something was to be removed.
LoadToFilter(k) ==
  /\ pc[k] = "filtering" /\ Goto(k, "judging")
  /\ copy' = [copy EXCEPT ![k] = Loaded(file)]
  /\ UNCHANGED <<file, settings, token, counts, store, alive, job, match,
                 history, disturbed>>

AfterFilter(k) == IF job[k] = "force" THEN "rolling" ELSE "idle"

Judge(k) ==
  /\ pc[k] = "judging" /\ copy' = [copy EXCEPT ![k] = Filtered(copy[k])]
  /\ Goto(k, IF copy' = copy THEN AfterFilter(k) ELSE "overwriting")
  /\ UNCHANGED <<file, settings, token, counts, store, alive, job, match,
                 history, disturbed>>

OverwriteFile(k) ==
  /\ pc[k] = "overwriting" /\ Goto(k, AfterFilter(k))
  /\ file' = copy[k]
  /\ UNCHANGED <<copy, settings, token, counts, store, alive, job, match,
                 history, disturbed>>

RollDaemons(k) == pc[k] = "rolling" /\ LoadAndMerge(k, Generated(Recorded, token[k]))

\* The configuration goes to the terminal or to a file of its own instead.
RollElsewhere(k) ==
  /\ pc[k] = "rolling" /\ Goto(k, "idle")
  /\ UNCHANGED <<file, copy, settings, token, counts, store, alive, job, match,
                 history, disturbed>>

\* kubectl has ended; if badly, the daemon is looked at once more.
FinishKube(k) ==
  /\ pc[k] = "kubectl" /\ Goto(k, "idle")
  /\ \/ UNCHANGED store
     \/ match[k] \notin alive /\ store' = [store EXCEPT ![match[k]] = 0]
  /\ UNCHANGED <<file, copy, settings, token, counts, alive, job, match,
                 history, disturbed>>

-----------------------------------------------------------------------------
(* What happens around them *)

\* The user changes what is under a name of their own.
Edit(n, e) ==
  /\ At(file, n) # e
  /\ file' = [file EXCEPT !.contexts[n] = e.context, !.clusters[n] = e.cluster,
                          !.users[n] = e.user]
  /\ wanted' = [wanted EXCEPT ![n] = e]
  /\ raced' = IF Busy = {} THEN raced \ {n} ELSE raced \cup {n}
  /\ lent' = IF e.context # None /\ e.context.user = Managed
             THEN lent \cup {e.context.cluster} ELSE lent
  /\ UNCHANGED <<copy, settings, token, counts, store, alive, pc, job, match, disturbed>>

\* `kubectl config use-context'.
SwitchContext(n) ==
  /\ file.contexts[n] # None /\ file.current # n
  /\ file' = [file EXCEPT !.current = n]
  /\ UNCHANGED <<copy, settings, token, counts, store, alive, pc, job, match,
                 history, disturbed>>

DaemonDies(c) ==
  /\ c \in alive /\ alive' = alive \ {c}
  /\ UNCHANGED <<file, copy, settings, token, counts, store, pc, job, match,
                 history, disturbed>>

\* A certificate or a key is deleted.
LoseFiles ==
  /\ settings.files /\ settings' = [settings EXCEPT !.files = FALSE]
  /\ UNCHANGED <<file, copy, token, counts, store, alive, pc, job, match,
                 history, disturbed>>

Next ==
  \/ \E p \in Proc : ReadSettings(p) \/ StoreSettings(p) \/ WriteFile(p) \/ Killed(p)
  \/ \E c \in Conn : StartConnect(c) \/ SpawnDaemon(c) \/ LoadForDaemon(c)
                     \/ AddDaemon(c) \/ ServerReady(c) \/ DaemonDies(c)
  \/ \E k \in Cmd : StartList(k) \/ StartDisconnect(k) \/ StartKube(k)
                    \/ CheckRunning(k) \/ LoadToFilter(k) \/ Judge(k)
                    \/ OverwriteFile(k) \/ RollDaemons(k) \/ RollElsewhere(k)
                    \/ FinishKube(k)
  \/ \E k \in Cmd, j \in {"generate", "force"} : StartGenerate(k, j)
  \/ \E k \in Cmd, left \in SUBSET Conn : ShutDownAll(k, left)
  \/ \E e \in Edits : Edit(e[1], e[2])
  \/ \E n \in Name : SwitchContext(n)
  \/ LoseFiles

Spec == Init /\ [][Next]_vars

-----------------------------------------------------------------------------
(* Properties *)

IsOwn(x) == x = None \/ x.user # Managed

\* The contexts, clusters and users under the user's own names stay as the user
\* made them, whatever commands overlap and wherever they are interrupted, but
\* for fields the zli does not know.  Excepted are edits made while a command is
\* under way, which can be lost, and what the user made for the zli's user: such
\* a context may be filtered, and the cluster it names with it.
OthersKept ==
  \A n \in OwnName \ raced :
    LET w == wanted[n]
    IN /\ file.users[n] = w.user
       /\ file.contexts[n] = w.context \/ (~IsOwn(w.context) /\ file.contexts[n] = None)
       /\ file.clusters[n] = w.cluster \/ (n \in lent /\ file.clusters[n] = None)

\* A connect that has succeeded, and that no other command overlapped, has left
\* a context with which kubectl reaches its daemon, for as long as the daemon is
\* running and recorded, whatever commands came later and overlapped each other.
\* Excepted is the time in which a generate --force has stored a new token and
\* not yet disconnected the daemons, and all that follows if it is killed then.
LiveDaemonsReachable ==
  \A c \in Running \ disturbed :
    pc[c] = "done" /\ (\A k \in Cmd : ~Forcing(k)) =>
      LET n == NameOf[c]
      IN /\ file.contexts[n] = [cluster |-> n, user |-> Managed]
         /\ file.clusters[n] = PortOf[c] /\ file.users[Managed] = token[c]

\* `zli kube' sends a token that the daemon it has found accepts, if the connect
\* of that daemon has succeeded and no other command overlapped it, no generate
\* --force is between its new token and its disconnects, and none was killed
\* there.
KubeTokenAccepted ==
  \A k \in Cmd :
    /\ pc[k] = "kubectl" /\ match[k] \in Running \ disturbed /\ pc[match[k]] = "done"
    /\ \A m \in Cmd : ~Forcing(m)
    => token[k] = token[match[k]]
=============================================================================

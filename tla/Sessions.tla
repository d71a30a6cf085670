------------------------------ MODULE Sessions ------------------------------
(***************************************************************************)
(* Commands that keep a session in the foreground: `zli connect' and `zli  *)
(* attach' to a shell, `zli ssh-proxy' for an ssh client.  A shell is one  *)
(* of a daemon's, or for old targets the terminal of the zli itself; an    *)
(* ssh tunnel likewise.  With them `zli close', which closes connections   *)
(* at the service, and the logout of the user, which is to end sessions.   *)
(*                                                                         *)
(* All share the tokens in the configuration file, the temporary ssh key   *)
(* and what the service keeps: connections, and spaces that shells belong  *)
(* to.  The service and the agents are external: the service opens a       *)
(* shell in the latest cli-space, or in a new one, and tells a terminal    *)
(* when another is attached to its connection.                             *)
(***************************************************************************)
EXTENDS Naturals, Sequences, SequencesExt

CONSTANTS
  Client,    \* commands that connect, each of which may open one connection
  Closer,    \* terminals with `zli close --all'
  Beside,    \* bound: the kinds of the commands that these run beside
  MaxSpace,  \* bound on the cli-spaces active at once
  MaxInbox,  \* bound: a websocket breaks only with fewer events not yet handled
  None

ASSUME SessionsAssumption ==
  /\ MaxSpace \in Nat \ {0} /\ MaxInbox \in Nat /\ Client \cap {None, "torn"} = {}
  /\ Beside \subseteq {"linux", "dynamic", "ssm", "attach", "tunnel", "proxy", "background"}

\* Linux targets, dynamic access targets, targets with an SSM agent.
Shell == {"linux", "dynamic", "ssm"}

\* Also ssh tunnels of the zli and of a daemon, and connects that leave a daemon
\* in the background, which DaemonManagement and WebDaemon are about.
Kind == Shell \cup {"attach", "tunnel", "proxy", "background"}

VARIABLES
  tokens,    \* somebody is logged in
  active,    \* the user's active cli-spaces, the latest last
  conn,      \* the connections, by the client that asked for them
  pc, kind,  \* where each client is, and of which kind
  on,        \* the connection it uses
  seen,      \* its watcher saw tokens when it last looked
  blocked,   \* its terminal takes no input
  inbox,     \* events of its websocket not yet handled
  broken,    \* its websocket is down
  file,      \* the temporary ssh key: absent, torn, or the one a client made
  unlinked,  \* clients writing to a key file that was removed meanwhile
  key,       \* whose key a tunnel has told its target to expect
  written,   \* history: clients whose key was in the file
  old,       \* history: those at the time that a tunnel began to write its own
  close      \* the runs of `close --all'

service == <<active, conn>>
terminal == <<blocked, inbox, broken>>
sshkey == <<file, unlinked, key, written, old>>
vars == <<tokens, service, pc, kind, on, seen, terminal, sshkey, close>>

\* What a connection is to those who did not make it.
Type == {"daemon", "terminal", "background", "ssh"}
TypeOf == [k \in Kind |-> CASE k = "linux" -> "daemon" [] k \in {"dynamic", "ssm"} -> "terminal"
                             [] k = "background" -> "background" [] OTHER -> "ssh"]

Event == {"Ready", "Start", "Unattached", "Delete", "Disconnect", "BrokenWebsocket"}
Space == 1..MaxSpace
Half == {"idle", "listing", "closing", "creating", "done", "failed"}

TypeOK ==
  /\ tokens \in BOOLEAN
  /\ active \in Seq(Space)
  /\ conn \in [Client -> [state : {"none", "pending", "open", "closed"}, type : Type,
                          space : Space \cup {0}, attached : Client \cup {None}]]
  /\ pc \in [Client -> {"idle", "looking", "finding", "waiting", "starting", "preparing",
                        "installing", "keying", "generating", "writing", "reading", "dialing",
                        "terminal", "session", "leaving", "failed", "unsettled", "over"}]
  /\ kind \in [Client -> Kind] /\ on \in [Client -> Client] /\ seen \in [Client -> BOOLEAN]
  /\ blocked \in [Client -> BOOLEAN] /\ broken \in [Client -> BOOLEAN]
  /\ inbox \in [Client -> Seq(Event)]
  /\ file \in Client \cup {"torn", None} /\ unlinked \subseteq Client
  /\ key \in [Client -> Client \cup {None}]
  /\ written \subseteq Client /\ old \in [Client -> SUBSET Client]
  /\ close \in [Closer -> [shell : Half, space : Space \cup {0}, others : Half,
                           todo : SUBSET Client, before : SUBSET Client,
                           rejected : BOOLEAN, alone : BOOLEAN]]

\* getCliSpace: the list ends with the latest.
CliSpace == IF active = <<>> THEN 0 ELSE Last(active)

\* Those that stay when one is closed, which is there once if at all.
Without(s) == IF s \notin ToSet(active) THEN active
              ELSE RemoveAt(active, CHOOSE i \in DOMAIN active : active[i] = s)

\* What `close --all' is about: neither web connections nor ssh tunnels.
Closable == {c \in Client : conn[c].state = "open" /\ conn[c].type # "ssh"}
\* The number of a new space: one that nobody knows.
Known == ToSet(active) \cup {close[k].space : k \in Closer}
Unused(s) == s \in Space \ Known /\ \A r \in Space \ Known : s <= r

NoConn == [state |-> "none", type |-> "ssh", space |-> 0, attached |-> None]
NotClosing == [shell |-> "idle", space |-> 0, others |-> "idle",
               todo |-> {}, before |-> {}, rejected |-> FALSE, alone |-> TRUE]

Init ==
  /\ tokens = TRUE
  /\ active \in {<<>>, <<1>>}
  /\ conn = [c \in Client |-> NoConn]
  /\ pc = [c \in Client |-> "idle"] /\ kind = [c \in Client |-> "linux"]
  /\ on = [c \in Client |-> c] /\ seen = [c \in Client |-> FALSE]
  /\ blocked = [c \in Client |-> TRUE] /\ broken = [c \in Client |-> FALSE]
  /\ inbox = [c \in Client |-> <<>>]
  /\ file = None /\ unlinked = {} /\ key = [c \in Client |-> None]
  /\ written = {} /\ old = [c \in Client |-> {}]
  /\ close = [k \in Closer |-> NotClosing]

-----------------------------------------------------------------------------

CloseRuns == \E k \in Closer : close[k] # NotClosing
Running(c) == pc[c] \notin {"idle", "over"}

Goto(c, at) == pc' = [pc EXCEPT ![c] = at]

\* A step of client c that changes no more than where it is.
Only(c, at) == Goto(c, at) /\ UNCHANGED <<tokens, service, kind, on, seen, terminal, sshkey, close>>

\* The process ends, and its websocket with it; the service notices.
Ends(c) ==
  /\ Goto(c, "over")
  /\ conn' = [d \in Client |-> IF conn[d].attached = c THEN [conn[d] EXCEPT !.attached = None]
                                                       ELSE conn[d]]
  /\ kind' = [kind EXCEPT ![c] = "linux"] /\ on' = [on EXCEPT ![c] = c]
  /\ seen' = [seen EXCEPT ![c] = FALSE]
  /\ blocked' = [blocked EXCEPT ![c] = TRUE] /\ broken' = [broken EXCEPT ![c] = FALSE]
  /\ inbox' = [inbox EXCEPT ![c] = <<>>]
  /\ unlinked' = unlinked \ {c}
  /\ key' = [key EXCEPT ![c] = None] /\ old' = [old EXCEPT ![c] = {}]
  /\ UNCHANGED <<tokens, active, file, written, close>>

\* The service closes connections and tells whoever is attached to them.
Closing(cs) ==
  /\ conn' = [c \in Client |-> IF c \in cs /\ conn[c].state # "none"
                THEN [NoConn EXCEPT !.state = "closed"] ELSE conn[c]]
  /\ inbox' = [c \in Client |-> IF ~broken[c] /\ \E d \in cs : conn[d].attached = c
                                THEN Append(inbox[c], "Delete") ELSE inbox[c]]

\* Where tokens are polled, a logout can be seen only after the first poll.
StartsWatching(c) == \E polled \in BOOLEAN : seen' = [seen EXCEPT ![c] = polled]

\* A command that has subscribed to logoutDetected, or that may.
MaySubscribe(c) == pc[c] \in {"looking", "finding", "waiting", "preparing", "installing",
                              "keying", "generating", "writing", "reading", "dialing", "session"}

-----------------------------------------------------------------------------
(* Slips that a change to the code could make, one per operator.             *)

\* the daemon of a shell is spawned without logoutDetected.
NoticeNoShell(c) ==
  /\ MaySubscribe(c) /\ seen[c] # tokens
  /\ seen' = [seen EXCEPT ![c] = tokens]
  /\ IF ~tokens /\ pc[c] = "session" /\ kind[c] = "tunnel" THEN Goto(c, "leaving") ELSE UNCHANGED pc
  /\ UNCHANGED <<tokens, service, kind, on, terminal, sshkey, close>>

\* a broken websocket does not block the input.
BrokenStaysOpen(c) ==
  /\ inbox[c] # <<>> /\ Head(inbox[c]) = "BrokenWebsocket"
  /\ inbox' = [inbox EXCEPT ![c] = Tail(@)]
  /\ UNCHANGED <<tokens, service, pc, kind, on, seen, blocked, broken, sshkey, close>>

\* a key is made only if there is none.
KeepKey(c) ==
  /\ pc[c] = "generating"
  /\ old' = [old EXCEPT ![c] = written]
  /\ IF file = None THEN Goto(c, "writing") /\ file' = "torn" ELSE Goto(c, "reading") /\ UNCHANGED file
  /\ UNCHANGED <<tokens, service, kind, on, seen, terminal, unlinked, key, written, close>>

\* allSettled without a look at what was rejected.
CloseOneSettled(k, c) ==
  /\ close[k].others = "closing" /\ c \in close[k].todo
  /\ (tokens /\ Closing({c})) \/ UNCHANGED <<conn, inbox>>
  /\ close' = [close EXCEPT ![k].todo = @ \ {c},
                            ![k].others = IF close[k].todo = {c} THEN "done" ELSE @]
  /\ UNCHANGED <<tokens, active, pc, kind, on, seen, blocked, broken, sshkey>>

-----------------------------------------------------------------------------
(* connectHandler, sshProxyHandler: without tokens no request can be made.   *)

\* The service makes the connection; a dynamic target has yet to come online.
Opens(c, k) ==
  /\ pc[c] = "idle" /\ tokens /\ k # "attach" /\ (CloseRuns => k \in Beside)
  /\ \E s \in Space \cup {0} :
       /\ IF k \notin Shell THEN s = 0 ELSE IF CliSpace # 0 THEN s = CliSpace ELSE Unused(s)
       /\ active' = IF k \in Shell /\ CliSpace = 0 THEN <<s>> ELSE active
       /\ conn' = [conn EXCEPT ![c] = [state |-> IF k = "dynamic" THEN "pending" ELSE "open",
                                       type |-> TypeOf[k], space |-> s, attached |-> None]]

Connect(c, k) ==
  /\ Opens(c, k)
  /\ kind' = [kind EXCEPT ![c] = k]
  /\ StartsWatching(c)
  /\ Goto(c, CASE k = "dynamic" -> "waiting" [] k = "ssm" -> "starting"
                [] k = "tunnel" -> "keying" [] OTHER -> "preparing")
  /\ UNCHANGED <<tokens, on, terminal, sshkey, close>>

\* The answer is lost: the command fails, and its connection stays.
AnswerLost(c, k) ==
  /\ Opens(c, k)
  /\ Goto(c, "over")
  /\ UNCHANGED <<tokens, kind, on, seen, terminal, sshkey, close>>

\* An error in a handler of connect is thrown on to where connections are
\* closed; attach and ssh-proxy just end, and their connections stay.
Throws(c) ==
  /\ pc[c] \in {"looking", "finding", "waiting", "preparing", "starting", "installing",
               "keying", "generating"}
  /\ IF kind[c] \in Shell \cup {"background"} THEN Only(c, "failed") ELSE Ends(c)

\* The request may fail as well, and then the error before it is lost.
CloseFailed(c) ==
  /\ pc[c] = "failed"
  /\ \/ tokens /\ Closing({c}) /\ Goto(c, "leaving")
        /\ UNCHANGED <<tokens, active, kind, on, seen, blocked, broken, sshkey, close>>
     \/ Ends(c)

BackgroundDone(c) == pc[c] = "preparing" /\ kind[c] = "background" /\ Ends(c)

\* The target registers and comes online.
DatComes(c) ==
  /\ conn[c].state = "pending"
  /\ conn' = [conn EXCEPT ![c].state = "open"]
  /\ UNCHANGED <<tokens, active, pc, kind, on, seen, terminal, sshkey, close>>

\* waitForDATConnection: asks until the connection is no longer pending.
DatAnswers(c) ==
  /\ pc[c] = "waiting" /\ tokens /\ conn[c].state # "pending"
  /\ Only(c, IF conn[c].state = "open" THEN "preparing" ELSE "failed")

-----------------------------------------------------------------------------
(* attachHandler: connection and cli-space are asked for in parallel.        *)

Attach(c, d) ==
  /\ pc[c] = "idle" /\ tokens /\ (CloseRuns => "attach" \in Beside)
  /\ conn[d].state # "none" /\ conn[d].type \in {"daemon", "terminal"}
  /\ kind' = [kind EXCEPT ![c] = "attach"] /\ on' = [on EXCEPT ![c] = d]
  /\ StartsWatching(c)
  /\ \/ conn[d].state = "open" /\ Goto(c, "looking")
     \/ conn[d].space = CliSpace /\ Goto(c, "finding")
  /\ UNCHANGED <<tokens, service, terminal, sshkey, close>>

\* The other answer comes; both have to fit.
Found(c) ==
  LET d == conn[on[c]]
  IN /\ pc[c] \in {"looking", "finding"} /\ tokens
     /\ IF IF pc[c] = "looking" THEN d.space = CliSpace ELSE d.state = "open"
        THEN Only(c, IF d.type = "daemon" THEN "preparing" ELSE "starting")
        ELSE Ends(c)

-----------------------------------------------------------------------------
(* startShellDaemon, bzeroOpaqueSshProxyHandler, bzeroTransparentSshProxyHandler *)

\* The agent is too old, or attaching to it not supported: connections stay.
Refused(c) == pc[c] = "preparing" /\ kind[c] \in {"linux", "dynamic", "attach", "proxy"} /\ Ends(c)

\* getBaseDaemonEnv.  What it throws is lost in the promise of a shell, which
\* is then never settled.
ReadEnv(c) ==
  /\ pc[c] = "preparing" /\ kind[c] # "background"
  /\ CASE tokens -> Only(c, "installing")
       [] ~tokens /\ kind[c] = "proxy" -> Ends(c)
       [] OTHER -> Only(c, "unsettled")

\* The daemon cannot be copied.
CannotInstall(c) ==
  /\ pc[c] = "installing"
  /\ IF kind[c] = "proxy" THEN Ends(c) ELSE Only(c, "unsettled")

\* spawnDaemon, and logoutDetected is subscribed to in the same turn.
Spawn(c) == pc[c] = "installing" /\ Only(c, "session")

\* The daemon, the tunnel or the ssh client ends.
SessionEnds(c) == pc[c] = "session" /\ Ends(c)

\* logoutOnTokenSetCleared.  A terminal never subscribes to it, and who has not
\* subscribed yet is not told later.
Notice(c) ==
  /\ MaySubscribe(c) /\ seen[c] # tokens
  /\ seen' = [seen EXCEPT ![c] = tokens]
  /\ IF ~tokens /\ pc[c] = "session" THEN Goto(c, "leaving") ELSE UNCHANGED pc
  /\ UNCHANGED <<tokens, service, kind, on, terminal, sshkey, close>>

\* The daemon has been shut down or killed, or the tunnel closed, and exits.
\* The zli asks for it and waits: nothing limits how long.
Leave(c) == pc[c] = "leaving" /\ Ends(c)

-----------------------------------------------------------------------------
(* SsmTunnelService.setupWebsocketTunnel *)

\* The target is asked for, which needs tokens; then a key is generated.
GenerateKey(c) == pc[c] = "keying" /\ tokens /\ Only(c, "generating")

\* writeFile truncates before it writes, also after a logout.
OpenKey(c) ==
  /\ pc[c] = "generating"
  /\ file' = "torn" /\ old' = [old EXCEPT ![c] = written]
  /\ Goto(c, "writing")
  /\ UNCHANGED <<tokens, service, kind, on, seen, terminal, unlinked, key, written, close>>

WriteKey(c) ==
  /\ pc[c] = "writing"
  /\ IF c \in unlinked THEN UNCHANGED <<file, written>>
                       ELSE file' = c /\ written' = written \cup {c}
  /\ Goto(c, "reading")
  /\ UNCHANGED <<tokens, service, kind, on, seen, terminal, unlinked, key, old, close>>

\* extractPubKeyFromIdentityFile, of the file as it is by now.
ReadKey(c) ==
  /\ pc[c] = "reading"
  /\ IF file \in Client
     THEN /\ key' = [key EXCEPT ![c] = file] /\ Goto(c, "dialing")
          /\ UNCHANGED <<tokens, service, kind, on, seen, terminal, file, unlinked, written, old, close>>
     ELSE Ends(c)

\* With an identity file of the user's own there is no temporary key.
OwnIdentity(c) == pc[c] = "keying" /\ tokens /\ Only(c, "dialing")

\* Only then logoutDetected is subscribed to.
Dial(c) == pc[c] = "dialing" /\ (Ends(c) \/ (tokens /\ Only(c, "session")))

-----------------------------------------------------------------------------
(* createAndRunShell and SsmShellTerminal *)

\* Or it fails, and the command returns 1 with its connection open.
StartTerminal(c) ==
  /\ pc[c] = "starting"
  /\ \/ /\ tokens
        /\ Goto(c, "terminal") /\ broken' = [broken EXCEPT ![c] = TRUE]
        /\ seen' = [seen EXCEPT ![c] = FALSE]
        /\ UNCHANGED <<tokens, service, kind, on, blocked, inbox, sshkey, close>>
     \/ Ends(c)

\* The websocket connects, with a token that getIdTokenAndExitOnError gets.
WebsocketReady(c) ==
  /\ pc[c] = "terminal" /\ broken[c]
  /\ IF tokens
     THEN /\ broken' = [broken EXCEPT ![c] = FALSE] /\ inbox' = [inbox EXCEPT ![c] = Append(@, "Ready")]
          /\ UNCHANGED <<tokens, service, pc, kind, on, seen, blocked, sshkey, close>>
     ELSE Ends(c)

WebsocketBreaks(c) ==
  /\ pc[c] = "terminal" /\ ~broken[c] /\ Len(inbox[c]) < MaxInbox
  /\ broken' = [broken EXCEPT ![c] = TRUE]
  /\ inbox' = [inbox EXCEPT ![c] = Append(@, "BrokenWebsocket")]
  /\ UNCHANGED <<tokens, service, pc, kind, on, seen, blocked, sshkey, close>>

TargetDisconnects(c) ==
  /\ pc[c] = "terminal" /\ ~broken[c] /\ conn[on[c]].attached = c /\ inbox[c] = <<>>
  /\ inbox' = [inbox EXCEPT ![c] = <<"Disconnect">>]
  /\ UNCHANGED <<tokens, service, pc, kind, on, seen, blocked, broken, sshkey, close>>

\* sendShellConnect: the service attaches this terminal in place of another.
ShellConnect(c) ==
  LET d == on[c]
      Other(p) == p # c /\ conn[d].attached = p /\ ~broken[p]
      rest == Tail(inbox[c])
  IN /\ inbox[c] # <<>> /\ Head(inbox[c]) = "Ready"
     /\ IF broken[c] THEN inbox' = [inbox EXCEPT ![c] = rest] /\ UNCHANGED conn
        ELSE IF conn[d].state = "open"
        THEN /\ conn' = [conn EXCEPT ![d].attached = c]
             /\ inbox' = [p \in Client |-> IF p = c THEN Append(rest, "Start")
                            ELSE IF Other(p) THEN Append(inbox[p], "Unattached") ELSE inbox[p]]
        ELSE inbox' = [inbox EXCEPT ![c] = Append(rest, "Delete")] /\ UNCHANGED conn
     /\ UNCHANGED <<tokens, active, pc, kind, on, seen, blocked, broken, sshkey, close>>

\* The target may have to be asked for first: other events are handled meanwhile.
TargetAsked(c) ==
  /\ inbox[c] # <<>> /\ Head(inbox[c]) = "Ready"
  /\ inbox' = [inbox EXCEPT ![c] = Append(Tail(@), "Ready")]
  /\ UNCHANGED <<tokens, service, pc, kind, on, seen, blocked, broken, sshkey, close>>

\* It has to be asked for, and cannot be.
RefreshFails(c) ==
  /\ inbox[c] # <<>> /\ Head(inbox[c]) = "Ready"
  /\ inbox' = [inbox EXCEPT ![c] = Tail(@)]
  /\ UNCHANGED <<tokens, service, pc, kind, on, seen, blocked, broken, sshkey, close>>

ShellStarts(c) ==
  /\ inbox[c] # <<>> /\ Head(inbox[c]) = "Start"
  /\ inbox' = [inbox EXCEPT ![c] = Tail(@)] /\ blocked' = [blocked EXCEPT ![c] = FALSE]
  /\ UNCHANGED <<tokens, service, pc, kind, on, seen, broken, sshkey, close>>

ShellBroken(c) ==
  /\ inbox[c] # <<>> /\ Head(inbox[c]) = "BrokenWebsocket"
  /\ inbox' = [inbox EXCEPT ![c] = Tail(@)] /\ blocked' = [blocked EXCEPT ![c] = TRUE]
  /\ UNCHANGED <<tokens, service, pc, kind, on, seen, broken, sshkey, close>>

\* Status 0 for Unattached, 1 for the others; no connection is closed.
ShellEnds(c) ==
  /\ inbox[c] # <<>> /\ Head(inbox[c]) \in {"Unattached", "Delete", "Disconnect"}
  /\ Ends(c)

\* writeString: CTRL-C ends a terminal that takes no input.
Interrupt(c) == pc[c] = "terminal" /\ blocked[c] /\ Ends(c)

-----------------------------------------------------------------------------
(* closeConnectionHandler *)

\* `zli close <id>'; also the web app, time limits, and daemons as they end.
CloseOne(c) ==
  /\ conn[c].state \in {"pending", "open"}
  /\ Closing({c})
  /\ UNCHANGED <<tokens, active, pc, kind, on, seen, blocked, broken, sshkey, close>>

BeginClose(k) ==
  /\ close[k] = NotClosing /\ tokens
  /\ \A c \in Client : Running(c) => kind[c] \in Beside
  /\ close' = [close EXCEPT ![k] = [NotClosing EXCEPT
                  !.shell = "listing", !.others = "listing", !.before = Closable]]
  /\ UNCHANGED <<tokens, service, pc, kind, on, seen, terminal, sshkey>>

\* The command will report a failure, whatever the other half comes to.
Fails(k, half) == close' = [close EXCEPT
  ![k] = [[@ EXCEPT ![half] = "failed"] EXCEPT !.before = {}, !.space = 0]]

\* getCliSpace takes the latest if there are several.
ListSpaces(k) ==
  /\ close[k].shell = "listing"
  /\ \/ /\ tokens /\ CliSpace # 0
        /\ close' = [close EXCEPT ![k].shell = "closing", ![k].space = CliSpace,
                                  ![k].alone = Len(active) = 1]
     \/ Fails(k, "shell")
  /\ UNCHANGED <<tokens, service, pc, kind, on, seen, terminal, sshkey>>

CloseSpace(k) ==
  /\ close[k].shell = "closing"
  /\ \/ /\ tokens
        /\ active' = Without(close[k].space)
        /\ Closing({c \in Client : conn[c].space = close[k].space})
        /\ close' = [close EXCEPT ![k].shell = "creating", ![k].space = 0]
     \/ Fails(k, "shell") /\ UNCHANGED <<active, conn, inbox>>
  /\ UNCHANGED <<tokens, pc, kind, on, seen, blocked, broken, sshkey>>

\* In the meantime the service may have made a space for a connect.
CreateSpace(k) ==
  /\ close[k].shell = "creating"
  /\ \/ \E s \in Space :
          /\ tokens /\ Unused(s)
          /\ active' = Append(active, s)
          /\ close' = [close EXCEPT ![k].shell = "done"]
     \/ Fails(k, "shell") /\ UNCHANGED active
  /\ UNCHANGED <<tokens, conn, pc, kind, on, seen, terminal, sshkey>>

\* closeConnections, for all of its types.
ListOthers(k) ==
  /\ close[k].others = "listing"
  /\ LET cs == {c \in Closable : conn[c].type = "background"}
     IN \/ tokens /\ close' = [close EXCEPT ![k].todo = cs,
                                 ![k].others = IF cs = {} THEN "done" ELSE "closing"]
        \/ Fails(k, "others")
  /\ UNCHANGED <<tokens, service, pc, kind, on, seen, terminal, sshkey>>

\* allSettled: all are tried, and then one that was rejected fails the command.
CloseOther(k, c) ==
  /\ close[k].others = "closing" /\ c \in close[k].todo
  /\ \E ok \in BOOLEAN :
       /\ ok => tokens
       /\ Closing(IF ok THEN {c} ELSE {})
       /\ close' = [close EXCEPT ![k].todo = @ \ {c}, ![k].rejected = @ \/ ~ok,
            ![k].others = IF close[k].todo # {c} THEN @
                          ELSE IF close[k].rejected \/ ~ok THEN "failed" ELSE "done"]
  /\ UNCHANGED <<tokens, active, pc, kind, on, seen, blocked, broken, sshkey>>

\* Success or failure is reported when both halves have settled.
EndClose(k) ==
  /\ close[k].shell \in {"done", "failed"} /\ close[k].others \in {"done", "failed"}
  /\ close' = [close EXCEPT ![k] = NotClosing]
  /\ UNCHANGED <<tokens, service, pc, kind, on, seen, terminal, sshkey>>

-----------------------------------------------------------------------------
(* The user, in another terminal *)

\* handleLogout: the tokens, then the temporary key.
Logout ==
  /\ tokens /\ tokens' = FALSE
  /\ file' = None /\ unlinked' = {c \in Client : pc[c] = "writing"}
  /\ UNCHANGED <<service, pc, kind, on, seen, terminal, key, written, old, close>>

Login ==
  /\ ~tokens /\ tokens' = TRUE
  /\ UNCHANGED <<service, pc, kind, on, seen, terminal, sshkey, close>>

-----------------------------------------------------------------------------

ClientStep(c) ==
  \/ (\E k \in Kind : Connect(c, k) \/ AnswerLost(c, k)) \/ Throws(c) \/ CloseFailed(c)
  \/ BackgroundDone(c) \/ DatComes(c) \/ DatAnswers(c)
  \/ (\E d \in Client : Attach(c, d)) \/ Found(c)
  \/ Refused(c) \/ ReadEnv(c) \/ CannotInstall(c) \/ Spawn(c) \/ SessionEnds(c)
  \/ Notice(c) \/ Leave(c)
  \/ GenerateKey(c) \/ OpenKey(c) \/ WriteKey(c) \/ ReadKey(c) \/ OwnIdentity(c) \/ Dial(c)
  \/ StartTerminal(c) \/ WebsocketReady(c) \/ WebsocketBreaks(c) \/ TargetDisconnects(c)
  \/ ShellConnect(c) \/ TargetAsked(c) \/ RefreshFails(c) \/ ShellStarts(c) \/ ShellBroken(c) \/ ShellEnds(c)
  \/ Interrupt(c) \/ CloseOne(c)

CloserStep(k) ==
  \/ BeginClose(k) \/ ListSpaces(k) \/ CloseSpace(k) \/ CreateSpace(k)
  \/ ListOthers(k) \/ (\E c \in Client : CloseOther(k, c)) \/ EndClose(k)

Next == (\E c \in Client : ClientStep(c)) \/ (\E k \in Closer : CloserStep(k)) \/ Logout \/ Login

Spec == Init /\ [][Next]_vars

\* Watchers and timers go on.
FairSpec == Spec /\ \A c \in Client : WF_vars(Notice(c))

-----------------------------------------------------------------------------
(* Properties *)

\* When the user logs out, a daemon's shell, an ssh proxy and an ssh tunnel that
\* have subscribed to logoutDetected are told to end, if the watcher has seen the
\* tokens, unless somebody logs in before it looks.  That they end is not
\* said: what is told to end is waited for without limit.  Commands that have
\* not begun their session, and terminals, are left out.
LogoutReachesSessions == \A c \in Client :
  pc[c] = "session" /\ seen[c] /\ ~tokens ~> pc[c] # "session" \/ tokens

\* A terminal that takes input is the one attached to its connection, or is
\* about to be told that it is not: input never goes where another types.
OnlyAttachedTypes == \A c \in Client : ~blocked[c] =>
  \/ conn[on[c]].attached = c
  \/ \E i \in 1..Len(inbox[c]) : inbox[c][i] \in {"Unattached", "Delete", "BrokenWebsocket"}

\* The key that a tunnel tells its target to expect was not in the file before the
\* tunnel began to write its own: it is its own, or that of a tunnel that wrote
\* its key since.  That other tunnel may have ended.
FreshKey == \A c \in Client : key[c] \notin old[c]

\* `close --all' that reports no failure has closed all that was open when it
\* began, if there was one cli-space when it looked, whatever else connected,
\* closed or logged out meanwhile.
ClosesAll == \A k \in Closer :
  close[k].shell = "done" /\ close[k].others = "done" /\ close[k].alone =>
    \A c \in close[k].before : conn[c].state # "open"
=============================================================================

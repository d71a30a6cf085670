--------------------------- MODULE SessionsProofs ---------------------------
(***************************************************************************)
(* Proofs about Sessions, for any number of clients, of terminals with     *)
(* `close --all', of spaces and of events under way, and whatever runs     *)
(* beside: every type; that a tunnel expects no key older than itself;     *)
(* that `close --all' which reports no failure has closed everything; that *)
(* input goes to the connection only from the terminal attached to it.     *)
(*                                                                         *)
(* Each rests on an invariant of its own: Keys on who wrote the key file   *)
(* when, Placed and Closes on what a run of `close --all' has before it,   *)
(* Attached on what a terminal has yet to be told.                         *)
(***************************************************************************)
EXTENDS Sessions, Integers, SequenceTheorems, TLAPS

USE SessionsAssumption

\* Of a list of spaces only the one that is closed goes.
LEMMA Removed ==
  ASSUME active \in Seq(Space), NEW s
  PROVE  /\ Without(s) \in Seq(Space)
         /\ \A x \in ToSet(active) : x # s => x \in ToSet(Without(s))
<1>1. CASE s \notin ToSet(active)
  BY <1>1 DEF Without
<1>2. CASE s \in ToSet(active)
  <2> DEFINE i == CHOOSE i \in DOMAIN active : active[i] = s
             a == SubSeq(active, 1, i - 1)
             b == SubSeq(active, i + 1, Len(active))
  <2>1. i \in DOMAIN active /\ active[i] = s
    BY <1>2 DEF ToSet
  <2>2. Without(s) = a \o b
    BY <1>2 DEF Without, RemoveAt
  <2> HIDE DEF i
  <2>3. i \in 1 .. Len(active) /\ Len(active) \in Nat
    BY <2>1
  <2>4. a \in Seq(Space) /\ Len(a) = i - 1 /\ \A k \in 1 .. i - 1 : a[k] = active[k]
    BY <2>3
  <2>5. b \in Seq(Space) /\ Len(b) = Len(active) - i
        /\ \A k \in 1 .. Len(active) - i : b[k] = active[i + k]
    BY <2>3
  <2> HIDE DEF a, b
  <2>6. /\ a \o b \in Seq(Space) /\ Len(a \o b) = Len(a) + Len(b)
        /\ \A k \in 1 .. Len(a) + Len(b) : (a \o b)[k] = IF k <= Len(a) THEN a[k] ELSE b[k - Len(a)]
    BY <2>4, <2>5, ConcatProperties
  <2>7. ASSUME NEW j \in 1 .. Len(active), active[j] # s
        PROVE  \E k \in 1 .. Len(a \o b) : (a \o b)[k] = active[j]
    <3>1. CASE j < i
      BY <3>1, <2>3, <2>4, <2>5, <2>6
    <3>2. CASE j > i
      <4>1. b[j - i] = active[i + (j - i)] /\ i + (j - i) = j
        BY <3>2, <2>3, <2>5
      <4>2. j - 1 \in 1 .. Len(a) + Len(b) /\ ~(j - 1 <= Len(a)) /\ (j - 1) - Len(a) = j - i
        BY <3>2, <2>3, <2>4, <2>5
      <4>3. (a \o b)[j - 1] = b[j - i]
        BY <4>2, <2>6
      <4> QED BY <4>1, <4>2, <4>3, <2>6
    <3>3. j # i
      BY <2>1, <2>7
    <3>4. j < i \/ j > i
      BY <3>3, <2>3
    <3> QED BY <3>1, <3>2, <3>4
  <2>8. ASSUME NEW x \in ToSet(active), x # s PROVE x \in ToSet(a \o b)
    <3>1. PICK j \in DOMAIN active : x = active[j]
      BY DEF ToSet
    <3>2. PICK k \in 1 .. Len(a \o b) : (a \o b)[k] = active[j]
      BY <2>7, <2>8, <3>1, <2>3
    <3> QED BY <2>6, <3>1, <3>2 DEF ToSet
  <2> QED BY <2>2, <2>6, <2>8
<1> QED BY <1>1, <1>2

-----------------------------------------------------------------------------
(* Steps                                                                     *)

\* A command goes on, and nothing else happens.
Moves(c) ==
  /\ pc[c] \notin {"idle", "terminal", "session", "leaving", "writing", "reading", "over"}
  /\ \E at \in {"failed", "generating", "preparing", "starting", "installing", "unsettled", "session", "dialing"} :
       Only(c, at) /\ (pc[c] = "dialing" => at = "session")

ClosesFailed(c) ==
  /\ pc[c] = "failed" /\ tokens /\ Closing({c}) /\ Goto(c, "leaving")
  /\ UNCHANGED <<tokens, active, kind, on, seen, blocked, broken, sshkey, close>>

TerminalStep(c) ==
  \/ StartTerminal(c) \/ WebsocketReady(c) \/ WebsocketBreaks(c) \/ TargetDisconnects(c)
  \/ ShellConnect(c) \/ TargetAsked(c) \/ RefreshFails(c) \/ ShellStarts(c) \/ ShellBroken(c)

KeyStep(c) == OpenKey(c) \/ WriteKey(c) \/ ReadKey(c)

LEMMA ClientSteps ==
  ASSUME NEW c \in Client, ClientStep(c)
  PROVE  \/ Ends(c) \/ Moves(c)
         \/ \E k \in Kind : Connect(c, k) \/ AnswerLost(c, k)
         \/ \E d \in Client : Attach(c, d)
         \/ ClosesFailed(c) \/ DatComes(c) \/ Notice(c) \/ CloseOne(c)
         \/ ~Ends(c) /\ (KeyStep(c) \/ TerminalStep(c))
<1> USE DEF Moves
<1>1. CASE Throws(c) \/ DatAnswers(c) \/ Found(c) \/ ReadEnv(c)
  BY <1>1 DEF Throws, DatAnswers, Found, ReadEnv
<1>2. CASE CannotInstall(c) \/ Spawn(c) \/ GenerateKey(c) \/ OwnIdentity(c) \/ Dial(c)
  BY <1>2 DEF CannotInstall, Spawn, GenerateKey, OwnIdentity, Dial
<1>3. CASE CloseFailed(c)
  BY <1>3 DEF CloseFailed, ClosesFailed
<1>4. CASE BackgroundDone(c) \/ Refused(c) \/ SessionEnds(c) \/ Leave(c) \/ ShellEnds(c) \/ Interrupt(c)
  BY <1>4 DEF BackgroundDone, Refused, SessionEnds, Leave, ShellEnds, Interrupt
<1> QED BY <1>1, <1>2, <1>3, <1>4 DEF ClientStep, KeyStep, TerminalStep

-----------------------------------------------------------------------------
(* Types                                                                     *)

Conns == [state : {"none", "pending", "open", "closed"}, type : Type,
          space : Space \cup {0}, attached : Client \cup {None}]
Runs == [shell : Half, space : Space \cup {0}, others : Half, todo : SUBSET Client,
         before : SUBSET Client, rejected : BOOLEAN, alone : BOOLEAN]
Place == {"idle", "looking", "finding", "waiting", "starting", "preparing", "installing", "keying",
          "generating", "writing", "reading", "dialing", "terminal", "session", "leaving", "failed", "unsettled", "over"}

Typed ==
  /\ tokens \in BOOLEAN /\ active \in Seq(Space) /\ conn \in [Client -> Conns]
  /\ pc \in [Client -> Place] /\ kind \in [Client -> Kind] /\ on \in [Client -> Client]
  /\ seen \in [Client -> BOOLEAN] /\ blocked \in [Client -> BOOLEAN]
  /\ broken \in [Client -> BOOLEAN] /\ inbox \in [Client -> Seq(Event)]
  /\ file \in Client \cup {"torn", None} /\ unlinked \subseteq Client
  /\ key \in [Client -> Client \cup {None}]
  /\ written \subseteq Client /\ old \in [Client -> SUBSET Client]
  /\ close \in [Closer -> Runs]

LEMMA TypedIsTypeOK == Typed <=> TypeOK
BY DEF Typed, TypeOK, Conns, Runs, Place

\* What happens to a single connection or run.
LEMMA ConnKept ==
  ASSUME NEW x \in Conns
  PROVE  /\ \A p \in Client \cup {None} : [x EXCEPT !.attached = p] \in Conns
         /\ [x EXCEPT !.state = "open"] \in Conns
         /\ [NoConn EXCEPT !.state = "closed"] \in Conns
         /\ \A s \in {"pending", "open"}, t \in Type, n \in Space \cup {0} :
              [state |-> s, type |-> t, space |-> n, attached |-> None] \in Conns
BY DEF Conns, NoConn, Type

LEMMA RunKept ==
  ASSUME NEW x \in Runs
  PROVE  /\ \A h \in Half : [x EXCEPT !.shell = h] \in Runs /\ [x EXCEPT !.others = h] \in Runs
         /\ \A n \in Space \cup {0} : [x EXCEPT !.space = n] \in Runs
         /\ \A cs \in SUBSET Client : [x EXCEPT !.todo = cs] \in Runs /\ [x EXCEPT !.before = cs] \in Runs
         /\ \A b \in BOOLEAN : [x EXCEPT !.rejected = b] \in Runs /\ [x EXCEPT !.alone = b] \in Runs
BY DEF Runs

\* A run whose request for connection c has settled.
Tried(run, c, ok) ==
  [run EXCEPT !.todo = @ \ {c}, !.rejected = @ \/ ~ok,
    !.others = IF run.todo # {c} THEN @ ELSE IF run.rejected \/ ~ok THEN "failed" ELSE "done"]

LEMMA OtherTried ==
  ASSUME Typed, NEW k \in Closer, NEW c \in Client, CloseOther(k, c)
  PROVE  \E ok \in BOOLEAN : /\ Closing(IF ok THEN {c} ELSE {})
                             /\ close' = [close EXCEPT ![k] = Tried(close[k], c, ok)]
<1>1. PICK ok \in BOOLEAN :
        /\ Closing(IF ok THEN {c} ELSE {})
        /\ close' = [close EXCEPT ![k].todo = @ \ {c}, ![k].rejected = @ \/ ~ok,
             ![k].others = IF close[k].todo # {c} THEN @
                           ELSE IF close[k].rejected \/ ~ok THEN "failed" ELSE "done"]
  BY DEF CloseOther
<1>2. close \in [Closer -> Runs]
  BY DEF Typed
<1>3. close' = [close EXCEPT ![k] = Tried(close[k], c, ok)]
  BY <1>1, <1>2 DEF Tried
<1> QED BY <1>1, <1>3

LEMMA ClosingTyped ==
  ASSUME Typed, NEW cs, Closing(cs)
  PROVE  conn' \in [Client -> Conns] /\ inbox' \in [Client -> Seq(Event)]
<1>1. \A c \in Client : conn[c] \in Conns /\ inbox[c] \in Seq(Event)
  BY DEF Typed
<1>2. \A c \in Client : Append(inbox[c], "Delete") \in Seq(Event)
  BY <1>1 DEF Event
<1>3. conn' \in [Client -> Conns]
  BY <1>1, ConnKept DEF Closing
<1> QED BY <1>1, <1>2, <1>3 DEF Closing

LEMMA TypeStep == ASSUME Typed, [Next]_vars PROVE Typed'
<1> USE DEF service, terminal, sshkey, Goto
<1>1. ASSUME NEW c \in Client, Ends(c) PROVE Typed'
  <2>1. conn' \in [Client -> Conns]
    BY <1>1, ConnKept DEF Ends, Typed
  <2> QED BY <1>1, <2>1 DEF Ends, Typed, Kind, Shell, Place
<1>2. ASSUME NEW c \in Client, Moves(c) PROVE Typed'
  BY <1>2 DEF Moves, Only, Typed, Place
<1>3. ASSUME NEW c \in Client, NEW k \in Kind, Connect(c, k) \/ AnswerLost(c, k) PROVE Typed'
  <2>1. TypeOf[k] \in Type /\ CliSpace \in Space \cup {0}
    BY DEF TypeOf, Type, Kind, Shell, Typed, CliSpace, Last
  <2>2. PICK s \in Space \cup {0} :
          /\ k \in Shell /\ CliSpace = 0 => s \in Space
          /\ active' = IF k \in Shell /\ CliSpace = 0 THEN <<s>> ELSE active
          /\ conn' = [conn EXCEPT ![c] = [state |-> IF k = "dynamic" THEN "pending" ELSE "open",
                                          type |-> TypeOf[k], space |-> s, attached |-> None]]
    BY <1>3 DEF Connect, AnswerLost, Opens, Unused
  <2>3. active' \in Seq(Space) /\ conn' \in [Client -> Conns]
    <3>1. conn'[c] \in Conns /\ conn' = [conn EXCEPT ![c] = conn'[c]]
      BY <2>1, <2>2, ConnKept DEF Typed
    <3> QED BY <2>1, <2>2, <3>1 DEF Typed
  <2>4. \E at \in {"waiting", "starting", "keying", "preparing", "over"} : Goto(c, at)
    BY <1>3 DEF Connect, AnswerLost
  <2>5. pc' \in [Client -> Place]
    BY <2>4 DEF Typed, Place
  <2>6. seen' \in [Client -> BOOLEAN] /\ kind' \in [Client -> Kind]
    <3>1. CASE Connect(c, k)
      BY <3>1 DEF Connect, StartsWatching, Typed
    <3>2. CASE AnswerLost(c, k)
      BY <3>2 DEF AnswerLost, Typed
    <3> QED BY <1>3, <3>1, <3>2
  <2>7. UNCHANGED <<tokens, on, blocked, inbox, broken, file, unlinked, key, written, old, close>>
    BY <1>3 DEF Connect, AnswerLost
  <2> QED BY <2>3, <2>5, <2>6, <2>7 DEF Typed
<1>4. ASSUME NEW c \in Client, NEW d \in Client, Attach(c, d) PROVE Typed'
  <2>0. UNCHANGED <<tokens, active, conn, blocked, inbox, broken, file, unlinked, key, written, old, close>>
    BY <1>4 DEF Attach
  <2>1. Goto(c, "looking") \/ Goto(c, "finding")
    BY <1>4 DEF Attach
  <2>5. pc' \in [Client -> Place]
    BY <2>1 DEF Typed, Place
  <2>2. kind' \in [Client -> Kind]
    BY <1>4 DEF Attach, Typed, Kind
  <2>3. on' \in [Client -> Client]
    BY <1>4 DEF Attach, Typed
  <2>4. seen' \in [Client -> BOOLEAN]
    BY <1>4 DEF Attach, Typed, StartsWatching
  <2> QED BY <2>0, <2>5, <2>2, <2>3, <2>4 DEF Typed
<1>5. ASSUME NEW c \in Client, ClosesFailed(c) \/ CloseOne(c) PROVE Typed'
  <2>1. UNCHANGED <<tokens, active, kind, on, seen, blocked, broken, file, unlinked, key, written, old, close>>
    BY <1>5 DEF ClosesFailed, CloseOne
  <2>2. pc' \in [Client -> Place]
    <3>1. Goto(c, "leaving") \/ UNCHANGED pc
      BY <1>5 DEF ClosesFailed, CloseOne
    <3> QED BY <3>1 DEF Typed, Place
  <2>3. conn' \in [Client -> Conns] /\ inbox' \in [Client -> Seq(Event)]
    BY <1>5, ClosingTyped DEF ClosesFailed, CloseOne
  <2> QED BY <2>1, <2>2, <2>3 DEF Typed
<1>6. ASSUME NEW c \in Client, DatComes(c) \/ Notice(c) PROVE Typed'
  <2>1. CASE DatComes(c)
    <3>1. conn' \in [Client -> Conns]
      BY <2>1, ConnKept DEF DatComes, Typed
    <3> QED BY <2>1, <3>1 DEF DatComes, Typed
  <2>2. CASE Notice(c)
    <3>0. Goto(c, "leaving") \/ UNCHANGED pc
      BY <2>2 DEF Notice
    <3>1. pc' \in [Client -> Place]
      BY <3>0 DEF Typed, Place
    <3>2. seen' \in [Client -> BOOLEAN]
      BY <2>2 DEF Notice, Typed
    <3> QED BY <2>2, <3>1, <3>2 DEF Notice, Typed
  <2> QED BY <1>6, <2>1, <2>2
<1>7. ASSUME NEW c \in Client, ~Ends(c), KeyStep(c) PROVE Typed'
  <2>1. CASE OpenKey(c)
    BY <2>1 DEF OpenKey, Typed, Place
  <2>2. CASE WriteKey(c)
    BY <2>2 DEF WriteKey, Typed, Place
  <2>3. CASE ReadKey(c)
    <3>1. file \in Client /\ key' = [key EXCEPT ![c] = file] /\ Goto(c, "dialing")
          /\ UNCHANGED <<tokens, service, kind, on, seen, terminal, file, unlinked, written, old, close>>
      BY <1>7, <2>3 DEF ReadKey
    <3> QED BY <3>1 DEF Typed, Place
  <2> QED BY <1>7, <2>1, <2>2, <2>3 DEF KeyStep
<1>8. ASSUME NEW c \in Client, ~Ends(c), TerminalStep(c) PROVE Typed'
  <2>0. {"Ready", "Start", "Unattached", "Delete", "Disconnect", "BrokenWebsocket"} \subseteq Event
    BY DEF Event
  <2>1. \A e \in Event, p \in Client : inbox[p] \in Seq(Event) /\ Append(inbox[p], e) \in Seq(Event)
    BY DEF Typed
  <2>2. inbox[c] # <<>> => Tail(inbox[c]) \in Seq(Event)
                           /\ \A e \in Event : Append(Tail(inbox[c]), e) \in Seq(Event)
    BY <2>1, <2>0
  <2>3. CASE StartTerminal(c)
    <3>1. Goto(c, "terminal")
      BY <1>8, <2>3 DEF StartTerminal
    <3>2. pc' \in [Client -> Place]
      BY <3>1 DEF Typed, Place
    <3>3. broken' \in [Client -> BOOLEAN] /\ seen' \in [Client -> BOOLEAN]
      BY <1>8, <2>3 DEF StartTerminal, Typed
    <3>4. UNCHANGED <<tokens, active, conn, kind, on, blocked, inbox, file, unlinked, key, written, old, close>>
      BY <1>8, <2>3 DEF StartTerminal
    <3> QED BY <3>2, <3>3, <3>4 DEF Typed
  <2>4. CASE WebsocketReady(c) \/ WebsocketBreaks(c)
    <3>1. broken' \in [Client -> BOOLEAN]
      BY <1>8, <2>4 DEF WebsocketReady, WebsocketBreaks, Typed
    <3>2. inbox' \in [Client -> Seq(Event)]
      <4>1. \E e \in Event : inbox' = [inbox EXCEPT ![c] = Append(inbox[c], e)]
        BY <1>8, <2>4, <2>0 DEF WebsocketReady, WebsocketBreaks
      <4> QED BY <4>1, <2>1 DEF Typed
    <3>3. UNCHANGED <<tokens, active, conn, kind, on, pc, seen, blocked, file, unlinked, key, written, old, close>>
      BY <1>8, <2>4 DEF WebsocketReady, WebsocketBreaks
    <3> QED BY <3>1, <3>2, <3>3 DEF Typed
  <2>5. CASE TargetDisconnects(c)
    <3>1. <<"Disconnect">> \in Seq(Event)
      BY DEF Event
    <3> QED BY <3>1, <2>5 DEF TargetDisconnects, Typed
  <2>6. CASE ShellConnect(c)
    <3>1. inbox[c] # <<>> /\ on[c] \in Client /\ conn[on[c]] \in Conns
      BY <2>6 DEF ShellConnect, Typed
    <3>2. \/ UNCHANGED conn /\ inbox' = [inbox EXCEPT ![c] = Tail(@)]
          \/ UNCHANGED conn /\ inbox' = [inbox EXCEPT ![c] = Append(Tail(@), "Delete")]
          \/ /\ conn' = [conn EXCEPT ![on[c]] = [conn[on[c]] EXCEPT !.attached = c]]
             /\ inbox' = [p \in Client |-> IF p = c THEN Append(Tail(inbox[c]), "Start")
                            ELSE IF conn[on[c]].attached = p /\ ~broken[p] THEN Append(inbox[p], "Unattached")
                            ELSE inbox[p]]
      BY <2>6 DEF ShellConnect, Typed
    <3>3. conn' \in [Client -> Conns]
      <4>1. [conn[on[c]] EXCEPT !.attached = c] \in Conns
        BY <3>1, ConnKept
      <4>2. UNCHANGED conn \/ \E x \in Conns : conn' = [conn EXCEPT ![on[c]] = x]
        BY <3>2, <4>1
      <4>3. conn \in [Client -> Conns]
        BY DEF Typed
      <4> QED BY <3>1, <4>2, <4>3
    <3>4. inbox' \in [Client -> Seq(Event)]
      <4>1. /\ Tail(inbox[c]) \in Seq(Event) /\ Append(Tail(inbox[c]), "Delete") \in Seq(Event)
            /\ Append(Tail(inbox[c]), "Start") \in Seq(Event)
            /\ \A p \in Client : inbox[p] \in Seq(Event) /\ Append(inbox[p], "Unattached") \in Seq(Event)
        BY <3>1, <2>0, <2>1, <2>2
      <4>2. \/ \E q \in Seq(Event) : inbox' = [inbox EXCEPT ![c] = q]
            \/ inbox' = [p \in Client |-> inbox'[p]] /\ \A p \in Client : inbox'[p] \in Seq(Event)
        BY <3>2, <4>1
      <4>3. inbox \in [Client -> Seq(Event)]
        BY DEF Typed
      <4> QED BY <4>2, <4>3
    <3> QED BY <2>6, <3>3, <3>4 DEF ShellConnect, Typed
  <2>8. CASE TargetAsked(c)
    <3>1. inbox[c] # <<>> /\ inbox' = [inbox EXCEPT ![c] = Append(Tail(inbox[c]), "Ready")]
      BY <2>8 DEF TargetAsked
    <3>2. inbox' \in [Client -> Seq(Event)]
      BY <3>1, <2>0, <2>2 DEF Typed
    <3> QED BY <2>8, <3>2 DEF TargetAsked, Typed
  <2>7. CASE RefreshFails(c) \/ ShellStarts(c) \/ ShellBroken(c)
    <3>1. inbox' \in [Client -> Seq(Event)]
      <4>1. inbox[c] # <<>> /\ inbox' = [inbox EXCEPT ![c] = Tail(inbox[c])]
        BY <2>7 DEF RefreshFails, ShellStarts, ShellBroken
      <4> QED BY <4>1, <2>2 DEF Typed
    <3>2. blocked' \in [Client -> BOOLEAN]
      BY <2>7 DEF RefreshFails, ShellStarts, ShellBroken, Typed
    <3>3. UNCHANGED <<tokens, active, conn, kind, on, pc, seen, broken, file, unlinked, key, written, old, close>>
      BY <2>7 DEF RefreshFails, ShellStarts, ShellBroken
    <3> QED BY <3>1, <3>2, <3>3 DEF Typed
  <2> QED BY <1>8, <2>3, <2>4, <2>5, <2>6, <2>7, <2>8 DEF TerminalStep
<1>9. ASSUME NEW k \in Closer, CloserStep(k) PROVE Typed'
  <2>a. /\ CliSpace \in Space \cup {0} /\ Closable \in SUBSET Client /\ NotClosing \in Runs
        /\ {"listing", "closing", "creating", "done", "failed"} \subseteq Half
    BY DEF Typed, CliSpace, Last, Closable, Runs, NotClosing, Half
  <2>b. ASSUME NEW half \in {"shell", "others"}, Fails(k, half) PROVE close' \in [Closer -> Runs]
    BY <2>a, <2>b, RunKept DEF Fails, Typed
  <2>1. CASE BeginClose(k) \/ EndClose(k)
    <3>1. [NotClosing EXCEPT !.shell = "listing", !.others = "listing", !.before = Closable] \in Runs
      BY <2>a DEF NotClosing, Runs
    <3>2. close' \in [Closer -> Runs]
      <4>1. \E run \in Runs : close' = [close EXCEPT ![k] = run]
        BY <2>a, <2>1, <3>1 DEF BeginClose, EndClose
      <4> QED BY <4>1 DEF Typed
    <3> QED BY <2>1, <3>2 DEF BeginClose, EndClose, Typed
  <2>2. CASE ListSpaces(k) \/ ListOthers(k)
    <3>1. close' \in [Closer -> Runs]
      <4> DEFINE run == close[k]
                 cs == {c \in Closable : conn[c].type = "background"}
                 half == IF cs = {} THEN "done" ELSE "closing"
      <4>1. run \in Runs /\ cs \in SUBSET Client /\ half \in Half /\ (Len(active) = 1) \in BOOLEAN
        BY <2>a DEF Typed
      <4>2. [run EXCEPT !.shell = "closing", !.space = CliSpace, !.alone = (Len(active) = 1)] \in Runs
        BY <2>a, <4>1 DEF Runs
      <4>3. [run EXCEPT !.todo = cs, !.others = half] \in Runs
        BY <4>1 DEF Runs
      <4>4. \/ Fails(k, "shell") \/ Fails(k, "others")
            \/ close' = [close EXCEPT ![k] = [run EXCEPT !.todo = cs, !.others = half]]
            \/ close' = [close EXCEPT ![k] =
                 [run EXCEPT !.shell = "closing", !.space = CliSpace, !.alone = (Len(active) = 1)]]
        BY <2>2 DEF ListSpaces, ListOthers
      <4> HIDE DEF run, cs, half
      <4>5. Fails(k, "shell") \/ Fails(k, "others") \/ \E r \in Runs : close' = [close EXCEPT ![k] = r]
        BY <4>2, <4>3, <4>4
      <4>6. ASSUME NEW r \in Runs, close' = [close EXCEPT ![k] = r] PROVE close' \in [Closer -> Runs]
        BY <4>6 DEF Typed
      <4> QED BY <2>b, <4>5, <4>6
    <3> QED BY <2>2, <3>1 DEF ListSpaces, ListOthers, Typed
  <2>3. CASE CloseSpace(k)
    <3>1. close' \in [Closer -> Runs]
      <4>1. [close[k] EXCEPT !.shell = "creating", !.space = 0] \in Runs
        BY <2>a DEF Typed, Runs
      <4>2. \/ Fails(k, "shell")
            \/ close' = [close EXCEPT ![k] = [close[k] EXCEPT !.shell = "creating", !.space = 0]]
        BY <2>3 DEF CloseSpace
      <4> QED BY <2>b, <4>1, <4>2 DEF Typed
    <3>2. active' \in Seq(Space) /\ conn' \in [Client -> Conns] /\ inbox' \in [Client -> Seq(Event)]
      BY <2>3, ClosingTyped, Removed DEF CloseSpace, Typed
    <3> QED BY <2>3, <3>1, <3>2 DEF CloseSpace, Typed
  <2>4. CASE CreateSpace(k)
    <3>1. close' \in [Closer -> Runs]
      <4>1. [close[k] EXCEPT !.shell = "done"] \in Runs
        BY <2>a DEF Typed, Runs
      <4>2. \/ Fails(k, "shell")
            \/ close' = [close EXCEPT ![k] = [close[k] EXCEPT !.shell = "done"]]
        BY <2>4 DEF CreateSpace
      <4> QED BY <2>b, <4>1, <4>2 DEF Typed
    <3>2. active' \in Seq(Space)
      <4>1. UNCHANGED active \/ \E s \in Space : active' = Append(active, s)
        BY <2>4 DEF CreateSpace
      <4>2. active \in Seq(Space)
        BY DEF Typed
      <4>3. \A s \in Space : Append(active, s) \in Seq(Space)
        BY <4>2
      <4> QED BY <4>1, <4>2, <4>3
    <3>3. UNCHANGED <<tokens, conn, pc, kind, on, seen, blocked, inbox, broken, file, unlinked, key, written, old>>
      BY <2>4 DEF CreateSpace
    <3> QED BY <3>1, <3>2, <3>3 DEF Typed
  <2>5. ASSUME NEW c \in Client, CloseOther(k, c) PROVE Typed'
    <3>1. close' \in [Closer -> Runs]
      <4>1. \E ok \in BOOLEAN : close' = [close EXCEPT ![k] = Tried(close[k], c, ok)]
        BY <2>5, OtherTried
      <4>2. close \in [Closer -> Runs]
        BY DEF Typed
      <4>3. \A ok \in BOOLEAN : Tried(close[k], c, ok) \in Runs
        BY <2>a, <4>2 DEF Tried, Runs
      <4> QED BY <4>1, <4>2, <4>3
    <3> QED BY <2>5, <3>1, ClosingTyped DEF CloseOther, Typed
  <2> QED BY <1>9, <2>1, <2>2, <2>3, <2>4, <2>5 DEF CloserStep
<1>10. CASE Logout \/ Login \/ UNCHANGED vars
  BY <1>10 DEF Logout, Login, vars, Typed
<1> QED BY <1>1, <1>2, <1>3, <1>4, <1>5, <1>6, <1>7, <1>8, <1>9, <1>10, ClientSteps DEF Next

LEMMA TypedAlways == Spec => []Typed
<1>1. Init => Typed
  <2>1. NoConn \in Conns /\ NotClosing \in Runs
    BY DEF NoConn, Conns, Type, NotClosing, Runs, Half
  <2>2. <<>> \in Seq(Space) /\ <<1>> \in Seq(Space) /\ <<>> \in Seq(Event)
    BY DEF Space
  <2>3. "idle" \in Place /\ "linux" \in Kind
    BY DEF Place, Kind, Shell
  <2> SUFFICES ASSUME Init PROVE Typed
    OBVIOUS
  <2>4. /\ active \in Seq(Space) /\ conn \in [Client -> Conns] /\ inbox \in [Client -> Seq(Event)]
        /\ close \in [Closer -> Runs]
    BY <2>1, <2>2 DEF Init
  <2>5. /\ pc \in [Client -> Place] /\ kind \in [Client -> Kind] /\ on \in [Client -> Client]
        /\ seen \in [Client -> BOOLEAN] /\ blocked \in [Client -> BOOLEAN] /\ broken \in [Client -> BOOLEAN]
        /\ key \in [Client -> Client \cup {None}] /\ old \in [Client -> SUBSET Client]
    BY <2>3 DEF Init
  <2> QED BY <2>4, <2>5 DEF Init, Typed
<1>2. Typed /\ [Next]_vars => Typed'
  BY TypeStep
<1> QED BY <1>1, <1>2, PTL DEF Spec

\* Every variable stays in its type.
THEOREM TypeCorrect == Spec => []TypeOK
BY TypedAlways, TypedIsTypeOK, PTL

-----------------------------------------------------------------------------
(* Keys                                                                      *)

\* A key that was in the file belongs to a tunnel that is past its writing.  A
\* tunnel has told its target of no key yet, or the file it reads has been made
\* since it began.
Keys ==
  /\ \A c \in written : pc[c] \in {"reading", "dialing", "session", "leaving", "over"}
  /\ \A c \in Client :
       /\ old[c] \subseteq written
       /\ pc[c] \notin {"dialing", "session", "leaving"} => key[c] = None
       /\ pc[c] \in {"writing", "reading"} => file \notin old[c]
       /\ key[c] \notin old[c]

LEMMA KeysStep == ASSUME Typed, Keys, [Next]_vars PROVE Keys'
<1> USE DEF service, terminal, sshkey, Goto
<1>a. /\ written \subseteq Client /\ pc \in [Client -> Place] /\ key \in [Client -> Client \cup {None}]
      /\ old \in [Client -> SUBSET Client] /\ None \notin Client /\ "torn" \notin Client
  BY DEF Typed
<1>b. ASSUME UNCHANGED sshkey, NEW c \in Client,
             \A d \in Client \ {c} : pc'[d] = pc[d],
             \/ pc'[c] = pc[c]
             \/ pc[c] = "session" /\ pc'[c] = "leaving"
             \/ pc[c] = "dialing" /\ pc'[c] = "session"
             \/ pc[c] \notin {"reading", "dialing", "session", "leaving", "over"}
                /\ pc'[c] \notin {"writing", "reading"}
      PROVE  Keys'
  BY <1>a, <1>b DEF Keys
<1>1. ASSUME NEW c \in Client, Ends(c) PROVE Keys'
  BY <1>1, <1>a DEF Ends, Keys
<1>2. ASSUME NEW c \in Client, Moves(c) PROVE Keys'
  BY <1>2, <1>a, <1>b DEF Moves, Only
<1>3. ASSUME NEW c \in Client, NEW k \in Kind, Connect(c, k) \/ AnswerLost(c, k) PROVE Keys'
  BY <1>3, <1>a, <1>b DEF Connect, AnswerLost, Opens
<1>4. ASSUME NEW c \in Client, NEW d \in Client, Attach(c, d) PROVE Keys'
  BY <1>4, <1>a, <1>b DEF Attach
<1>5. ASSUME NEW c \in Client, ClosesFailed(c) \/ CloseOne(c) \/ DatComes(c) PROVE Keys'
  BY <1>5, <1>a, <1>b DEF ClosesFailed, CloseOne, DatComes
<1>6. ASSUME NEW c \in Client, Notice(c) PROVE Keys'
  BY <1>6, <1>a, <1>b DEF Notice
<1>7. ASSUME NEW c \in Client, OpenKey(c) PROVE Keys'
  BY <1>7, <1>a DEF OpenKey, Keys
<1>8. ASSUME NEW c \in Client, WriteKey(c) PROVE Keys'
  BY <1>8, <1>a DEF WriteKey, Keys
<1>9. ASSUME NEW c \in Client, ~Ends(c), ReadKey(c) PROVE Keys'
  BY <1>9, <1>a DEF ReadKey, Keys
<1>10. ASSUME NEW c \in Client, ~Ends(c), TerminalStep(c) PROVE Keys'
  BY <1>10, <1>a, <1>b DEF TerminalStep, StartTerminal, WebsocketReady, WebsocketBreaks, TargetDisconnects,
                           ShellConnect, TargetAsked, RefreshFails, ShellStarts, ShellBroken
<1>11. ASSUME NEW k \in Closer, CloserStep(k) PROVE Keys'
  BY <1>11 DEF CloserStep, BeginClose, ListSpaces, CloseSpace, CreateSpace, ListOthers, CloseOther,
               EndClose, Keys
<1>12. CASE Logout \/ Login \/ UNCHANGED vars
  BY <1>12, <1>a DEF Logout, Login, vars, Keys
<1> QED BY <1>1, <1>2, <1>3, <1>4, <1>5, <1>6, <1>7, <1>8, <1>9, <1>10, <1>11, <1>12, ClientSteps
        DEF Next, KeyStep

\* The key that a tunnel tells its target to expect was not in the file before the
\* tunnel began to write its own; it may be that of a tunnel that wrote since.
THEOREM FreshKeyAlways == Spec => []FreshKey
<1>1. Init => Keys
  BY DEF Init, Keys
<1>2. Typed /\ Keys /\ [Next]_vars => Keys'
  BY KeysStep
<1>3. Keys => FreshKey
  BY DEF Keys, FreshKey
<1> QED BY <1>1, <1>2, <1>3, TypedAlways, PTL DEF Spec

-----------------------------------------------------------------------------
(* close --all                                                               *)

ShellType == {"daemon", "terminal"}

\* Who has not begun has no connection, and a shell is in a space that is active.
Placed == \A c \in Client :
  /\ pc[c] = "idle" => conn[c].state = "none"
  /\ conn[c].state \in {"pending", "open"} /\ conn[c].type \in ShellType => conn[c].space \in ToSet(active)

\* What run r has to close, connection x of client c, is closed or is still open
\* and what the next requests of r will close.
Pursued(r, x, c) ==
  /\ x.state \in {"open", "closed"}
  /\ x.state = "open" =>
       /\ x.type # "ssh"
       /\ r.alone /\ x.type \in ShellType =>
            /\ r.shell = "closing" => x.space = r.space
            /\ r.shell \notin {"creating", "done"}
       /\ x.type = "background" =>
            /\ r.others = "closing" => c \in r.todo \/ r.rejected
            /\ r.others # "done"

Closes == \A k \in Closer : \A c \in close[k].before : Pursued(close[k], conn[c], c)

\* What a connection is, but for who is attached to it.
Alike(x, y) == x.state = y.state /\ x.type = y.type /\ x.space = y.space

LEMMA ClosingAlike ==
  ASSUME Typed, NEW cs, Closing(cs)
  PROVE  \A c \in Client : \/ Alike(conn'[c], conn[c]) /\ ~(c \in cs /\ conn[c].state # "none")
                           \/ c \in cs /\ conn[c].state # "none" /\ conn'[c].state = "closed"
BY DEF Closing, Typed, Conns, NoConn, Alike

\* The steps of clients, as far as connections go.
LEMMA ConnSteps ==
  ASSUME Typed, Placed, NEW c \in Client, ClientStep(c)
  PROVE  /\ UNCHANGED close
         /\ \A d \in Client : \/ Alike(conn'[d], conn[d])
                              \/ conn[d].state # "none" /\ conn'[d].state = "closed"
                              \/ conn[d].state \in {"none", "pending"}
         /\ Placed'
<1> USE DEF service, terminal, sshkey, Goto
<1>a. /\ pc \in [Client -> Place] /\ conn \in [Client -> Conns] /\ active \in Seq(Space)
      /\ \A d \in Client : conn[d] = [conn[d] EXCEPT !.state = @]
  BY DEF Typed, Conns
<1> DEFINE Good == /\ UNCHANGED close
                   /\ \A d \in Client : \/ Alike(conn'[d], conn[d])
                                        \/ conn[d].state # "none" /\ conn'[d].state = "closed"
                                        \/ conn[d].state \in {"none", "pending"}
                   /\ Placed'
\* No connection changes, but for who is attached, and nobody has not begun who had.
<1>b. ASSUME UNCHANGED <<close, active>>,
             \A d \in Client : Alike(conn'[d], conn[d]) \/ (conn[d].state # "none" /\ conn'[d].state = "closed"),
             \A d \in Client : pc'[d] = "idle" => pc[d] = "idle"
      PROVE  Good
  <2>1. ASSUME NEW d \in Client, Alike(conn'[d], conn[d])
        PROVE  /\ pc'[d] = "idle" => conn'[d].state = "none"
               /\ conn'[d].state \in {"pending", "open"} /\ conn'[d].type \in ShellType =>
                    conn'[d].space \in ToSet(active')
    BY <1>b, <2>1 DEF Alike, Placed
  <2>2. ASSUME NEW d \in Client, conn[d].state # "none", conn'[d].state = "closed"
        PROVE  /\ pc'[d] = "idle" => conn'[d].state = "none"
               /\ conn'[d].state \in {"pending", "open"} /\ conn'[d].type \in ShellType =>
                    conn'[d].space \in ToSet(active')
    BY <1>b, <2>2 DEF Placed
  <2> QED BY <1>b, <2>1, <2>2 DEF Placed
<1>1. CASE Ends(c)
  <2>1. \A d \in Client : Alike(conn'[d], conn[d])
    BY <1>1, <1>a DEF Ends, Alike, Conns
  <2> QED BY <1>1, <1>a, <1>b, <2>1 DEF Ends
<1>2. CASE Moves(c)
  BY <1>2, <1>a, <1>b DEF Moves, Only, Alike
<1>3. ASSUME NEW k \in Kind, Connect(c, k) \/ AnswerLost(c, k) PROVE Good
  <2>1. PICK s \in Space \cup {0} :
          /\ k \in Shell => s = IF CliSpace # 0 THEN CliSpace ELSE s
          /\ active' = IF k \in Shell /\ CliSpace = 0 THEN <<s>> ELSE active
          /\ conn' = [conn EXCEPT ![c] = [state |-> IF k = "dynamic" THEN "pending" ELSE "open",
                                          type |-> TypeOf[k], space |-> s, attached |-> None]]
    BY <1>3 DEF Connect, AnswerLost, Opens
  <2>2. pc[c] = "idle" /\ conn[c].state = "none" /\ UNCHANGED close
    BY <1>3 DEF Connect, AnswerLost, Opens, Placed
  <2>3. pc'[c] # "idle" /\ \A d \in Client \ {c} : pc'[d] = pc[d] /\ conn'[d] = conn[d]
    BY <1>3, <1>a, <2>1 DEF Connect, AnswerLost
  <2>4. TypeOf[k] \in ShellType => k \in Shell
    BY DEF TypeOf, ShellType, Kind, Shell
  <2>5. k \in Shell => s \in ToSet(active')
    BY <2>1, <1>a DEF CliSpace, Last, ToSet
  <2>6. ToSet(active) \subseteq ToSet(active')
    <3>1. CliSpace = 0 => active = <<>>
      BY <1>a DEF CliSpace, Last, Space
    <3> QED BY <3>1, <2>1 DEF ToSet
  <2>7. Placed'
    BY <2>1, <2>3, <2>4, <2>5, <2>6, <1>a DEF Placed
  <2> QED BY <2>2, <2>3, <2>7 DEF Alike
<1>4. ASSUME NEW d \in Client, Attach(c, d) PROVE Good
  BY <1>4, <1>a, <1>b DEF Attach, Alike
<1>5. CASE ClosesFailed(c) \/ CloseOne(c)
  BY <1>5, <1>a, <1>b, ClosingAlike DEF ClosesFailed, CloseOne
<1>6. CASE DatComes(c)
  <2>1. /\ conn[c].state = "pending" /\ conn'[c] = [conn[c] EXCEPT !.state = "open"]
        /\ \A d \in Client \ {c} : conn'[d] = conn[d]
        /\ UNCHANGED <<close, active, pc>>
    BY <1>6, <1>a DEF DatComes
  <2>2. conn'[c].type = conn[c].type /\ conn'[c].space = conn[c].space /\ pc[c] # "idle"
    BY <2>1, <1>a DEF Conns, Placed
  <2>3. Placed'
    BY <2>1, <2>2 DEF Placed
  <2> QED BY <2>1, <2>3 DEF Alike
<1>7. CASE Notice(c)
  BY <1>7, <1>a, <1>b DEF Notice, Alike
<1>8. CASE KeyStep(c) /\ ~Ends(c)
  BY <1>8, <1>a, <1>b DEF KeyStep, OpenKey, WriteKey, ReadKey, Alike
<1>9. CASE TerminalStep(c) /\ ~Ends(c) /\ ~ShellConnect(c)
  BY <1>9, <1>a, <1>b DEF TerminalStep, StartTerminal, WebsocketReady, WebsocketBreaks, TargetDisconnects,
                         TargetAsked, RefreshFails, ShellStarts, ShellBroken, Alike
<1>10. CASE ShellConnect(c)
  <2>1. UNCHANGED conn \/ conn' = [conn EXCEPT ![on[c]] = [conn[on[c]] EXCEPT !.attached = c]]
    BY <1>10 DEF ShellConnect
  <2>2. \A d \in Client : Alike(conn'[d], conn[d])
    BY <2>1, <1>a DEF Alike, Conns
  <2> QED BY <1>10, <1>b, <2>2 DEF ShellConnect
<1> QED BY <1>1, <1>2, <1>3, <1>4, <1>5, <1>6, <1>7, <1>8, <1>9, <1>10, ClientSteps

LEMMA PursuedKept ==
  ASSUME NEW r, NEW c, NEW x, NEW y, Pursued(r, x, c), Alike(y, x) \/ y.state = "closed"
  PROVE  Pursued(r, y, c)
BY DEF Pursued, Alike

\* The steps of a run leave the other runs alone, and close connections at most.
LEMMA RunSteps ==
  ASSUME Typed, NEW k \in Closer, CloserStep(k)
  PROVE  /\ \A d \in Client : \/ Alike(conn'[d], conn[d])
                              \/ conn[d].state # "none" /\ conn'[d].state = "closed"
         /\ \A j \in Closer \ {k} : close'[j] = close[j]
         /\ UNCHANGED pc
<1>a. close \in [Closer -> Runs]
  BY DEF Typed
<1>1. CASE BeginClose(k) \/ ListSpaces(k) \/ CreateSpace(k) \/ ListOthers(k) \/ EndClose(k)
  BY <1>1, <1>a DEF BeginClose, ListSpaces, CreateSpace, ListOthers, EndClose, Fails, service, Alike
<1>2. CASE CloseSpace(k)
  <2>1. \/ UNCHANGED conn
        \/ Closing({c \in Client : conn[c].space = close[k].space})
    BY <1>2 DEF CloseSpace
  <2>2. \A j \in Closer \ {k} : close'[j] = close[j]
    BY <1>2, <1>a DEF CloseSpace, Fails
  <2>3. UNCHANGED pc
    BY <1>2 DEF CloseSpace
  <2> QED BY <2>1, <2>2, <2>3, ClosingAlike DEF Alike
<1>3. ASSUME NEW c \in Client, CloseOther(k, c)
      PROVE  /\ \A d \in Client : \/ Alike(conn'[d], conn[d])
                                  \/ conn[d].state # "none" /\ conn'[d].state = "closed"
             /\ \A j \in Closer \ {k} : close'[j] = close[j]
             /\ UNCHANGED pc
  BY <1>3, <1>a, ClosingAlike DEF CloseOther
<1> QED BY <1>1, <1>2, <1>3 DEF CloserStep

LEMMA PlacedByRun ==
  ASSUME Typed, Placed, NEW k \in Closer, CloserStep(k)
  PROVE  Placed'
<1>a. active \in Seq(Space)
  BY DEF Typed
<1>1. ASSUME NEW c \in Client,
             conn'[c].state \in {"pending", "open"} /\ conn'[c].type \in ShellType =>
               conn[c].space \in ToSet(active')
      PROVE  /\ pc'[c] = "idle" => conn'[c].state = "none"
             /\ conn'[c].state \in {"pending", "open"} /\ conn'[c].type \in ShellType =>
                  conn'[c].space \in ToSet(active')
  BY <1>1, RunSteps DEF Placed, Alike
<1>2. ASSUME NEW c \in Client, conn'[c].state \in {"pending", "open"}, conn'[c].type \in ShellType
      PROVE  conn[c].space \in ToSet(active')
  <2>1. conn[c].space \in ToSet(active) /\ Alike(conn'[c], conn[c])
    BY <1>2, RunSteps DEF Placed, Alike
  <2>2. CASE CloseSpace(k)
    <3>1. CASE UNCHANGED active
      BY <2>1, <3>1
    <3>2. CASE active' = Without(close[k].space) /\ Closing({d \in Client : conn[d].space = close[k].space})
      <4>1. conn[c].space # close[k].space
        <5>1. conn'[c].state # "closed" /\ conn[c].state # "none"
          BY <1>2, <2>1 DEF Alike
        <5> QED BY <5>1, <3>2, ClosingAlike
      <4> QED BY <1>a, <2>1, <3>2, <4>1, Removed
    <3> QED BY <2>2, <3>1, <3>2 DEF CloseSpace
  <2>3. CASE CreateSpace(k)
    <3>1. UNCHANGED active \/ \E s \in Space : active' = Append(active, s)
      BY <2>3 DEF CreateSpace
    <3>2. ASSUME NEW s \in Space PROVE ToSet(active) \subseteq ToSet(Append(active, s))
      <4>1. /\ Len(Append(active, s)) = Len(active) + 1 /\ Len(active) \in Nat
            /\ \A i \in 1 .. Len(active) : Append(active, s)[i] = active[i]
        BY <1>a
      <4>2. Append(active, s) \in Seq(Space)
        BY <1>a
      <4> QED BY <1>a, <4>1, <4>2 DEF ToSet
    <3> QED BY <2>1, <3>1, <3>2
  <2>4. CASE UNCHANGED active
    BY <2>1, <2>4
  <2> QED BY <2>2, <2>3, <2>4 DEF CloserStep, BeginClose, ListSpaces, ListOthers, CloseOther, EndClose, service
<1> QED BY <1>1, <1>2 DEF Placed

LEMMA ClosesByRun ==
  ASSUME Typed, Placed, Closes, NEW k \in Closer, CloserStep(k)
  PROVE  Closes'
<1> DEFINE r == close[k]
<1>a. close \in [Closer -> Runs] /\ active \in Seq(Space) /\ r \in Runs
  BY DEF Typed
<1>b. SUFFICES ASSUME NEW c \in close'[k].before PROVE Pursued(close'[k], conn'[c], c)
  <2>1. ASSUME NEW j \in Closer, j # k, NEW c \in close'[j].before PROVE Pursued(close'[j], conn'[c], c)
    <3>1. close'[j] = close[j] /\ c \in close[j].before
      BY <2>1, RunSteps
    <3>2. close[j].before \subseteq Client
      BY <1>a DEF Runs
    <3>3. Pursued(close[j], conn[c], c) /\ c \in Client
      BY <3>1, <3>2 DEF Closes
    <3>4. Alike(conn'[c], conn[c]) \/ conn'[c].state = "closed"
      BY <3>3, RunSteps
    <3>5. Pursued(close[j], conn'[c], c)
      BY <3>3, <3>4, PursuedKept
    <3> QED BY <3>1, <3>5
  <2> QED BY <2>1 DEF Closes
<1>1. ASSUME NEW half \in {"shell", "others"}, Fails(k, half) PROVE close'[k].before = {}
  BY <1>1, <1>a DEF Fails, Runs
<1>2. CASE BeginClose(k)
  <2>1. close'[k].shell = "listing" /\ close'[k].others = "listing" /\ close'[k].before = Closable
    BY <1>2, <1>a DEF BeginClose, NotClosing
  <2>2. UNCHANGED conn
    BY <1>2 DEF BeginClose, service
  <2> QED BY <2>1, <2>2, <1>b DEF Closable, Pursued
<1>3. CASE EndClose(k)
  <2>1. close'[k].before = {}
    BY <1>3, <1>a DEF EndClose, NotClosing
  <2> QED BY <2>1, <1>b
\* From here on the run is as it was but for one field or two.
<1>4. CASE ListSpaces(k)
  <2>1. CASE close'[k] = [r EXCEPT !.shell = "closing", !.space = CliSpace, !.alone = Len(active) = 1]
             /\ CliSpace # 0
    <3>1. c \in Client /\ Pursued(r, conn[c], c) /\ close'[k].shell = "closing" /\ close'[k].space = CliSpace
          /\ close'[k].alone = (Len(active) = 1) /\ close'[k].others = r.others
          /\ close'[k].todo = r.todo /\ close'[k].rejected = r.rejected
      BY <1>a, <1>b, <2>1 DEF Closes, Runs
    <3>2. Len(active) = 1 => ToSet(active) = {CliSpace}
      BY <1>a, <2>1 DEF ToSet, CliSpace, Last
    <3>3. conn[c].state = "open" /\ conn[c].type \in ShellType => conn[c].space \in ToSet(active)
      BY <3>1 DEF Placed
    <3>4. UNCHANGED conn
      BY <1>4 DEF ListSpaces, service
    <3> QED BY <3>1, <3>2, <3>3, <3>4 DEF Pursued
  <2> QED BY <1>1, <1>4, <1>a, <1>b, <2>1 DEF ListSpaces
<1>5. CASE CloseSpace(k)
  <2>1. CASE close'[k] = [r EXCEPT !.shell = "creating", !.space = 0]
             /\ Closing({d \in Client : conn[d].space = r.space}) /\ r.shell = "closing"
    <3>1. c \in Client /\ Pursued(r, conn[c], c) /\ close'[k].shell = "creating"
          /\ close'[k].alone = r.alone /\ close'[k].others = r.others
          /\ close'[k].todo = r.todo /\ close'[k].rejected = r.rejected
      BY <1>a, <1>b, <2>1 DEF Closes, Runs
    <3>2. \/ conn'[c].state = "closed"
          \/ Alike(conn'[c], conn[c]) /\ (conn[c].space = r.space => conn[c].state = "none")
      BY <2>1, <3>1, ClosingAlike
    <3> QED BY <2>1, <3>1, <3>2 DEF Pursued, Alike
  <2> QED BY <1>1, <1>5, <1>a, <1>b, <2>1 DEF CloseSpace
<1>6. CASE CreateSpace(k)
  <2>1. CASE close'[k] = [r EXCEPT !.shell = "done"] /\ r.shell = "creating"
    <3>1. c \in Client /\ Pursued(r, conn[c], c) /\ close'[k].shell = "done"
          /\ close'[k].alone = r.alone /\ close'[k].others = r.others
          /\ close'[k].todo = r.todo /\ close'[k].rejected = r.rejected
      BY <1>a, <1>b, <2>1 DEF Closes, Runs
    <3>2. UNCHANGED conn
      BY <1>6 DEF CreateSpace
    <3> QED BY <2>1, <3>1, <3>2 DEF Pursued
  <2> QED BY <1>1, <1>6, <1>a, <1>b, <2>1 DEF CreateSpace
<1>7. CASE ListOthers(k)
  <2> DEFINE cs == {d \in Closable : conn[d].type = "background"}
  <2>1. CASE close'[k] = [r EXCEPT !.todo = cs, !.others = IF cs = {} THEN "done" ELSE "closing"]
    <3>1. c \in Client /\ Pursued(r, conn[c], c) /\ close'[k].shell = r.shell /\ close'[k].space = r.space
          /\ close'[k].alone = r.alone /\ close'[k].others = (IF cs = {} THEN "done" ELSE "closing")
          /\ close'[k].todo = cs
      BY <1>a, <1>b, <2>1 DEF Closes, Runs
    <3>2. conn[c].state = "open" /\ conn[c].type = "background" => c \in cs
      BY <3>1 DEF Closable
    <3>3. UNCHANGED conn
      BY <1>7 DEF ListOthers, service
    <3> QED BY <3>1, <3>2, <3>3 DEF Pursued
  <2> QED BY <1>1, <1>7, <1>a, <1>b, <2>1 DEF ListOthers
<1>8. ASSUME NEW e \in Client, CloseOther(k, e) PROVE Pursued(close'[k], conn'[c], c)
  <2>1. PICK ok \in BOOLEAN :
          /\ Closing(IF ok THEN {e} ELSE {})
          /\ close' = [close EXCEPT ![k] = Tried(r, e, ok)]
    BY <1>8, OtherTried
  <2>2. close'[k] = Tried(r, e, ok)
    BY <2>1, <1>a
  <2>3. c \in Client /\ Pursued(r, conn[c], c) /\ close'[k].shell = r.shell /\ close'[k].space = r.space
        /\ close'[k].alone = r.alone /\ close'[k].todo = r.todo \ {e}
        /\ close'[k].others = (IF r.todo # {e} THEN r.others ELSE IF r.rejected \/ ~ok THEN "failed" ELSE "done")
    BY <1>a, <1>b, <2>2 DEF Closes, Runs, Tried
  <2>4. close'[k].rejected = (r.rejected \/ ~ok)
    BY <1>a, <2>2 DEF Runs, Tried
  <2>5. r.others = "closing"
    BY <1>8 DEF CloseOther
  <2>6. \/ conn'[c].state = "closed"
        \/ Alike(conn'[c], conn[c]) /\ (ok /\ c = e => conn[c].state = "none")
    BY <2>1, <2>3, ClosingAlike
  <2> QED BY <2>3, <2>4, <2>5, <2>6 DEF Pursued, Alike
<1> QED BY <1>2, <1>3, <1>4, <1>5, <1>6, <1>7, <1>8 DEF CloserStep

LEMMA ClosesAlways == Spec => [](Placed /\ Closes)
<1>1. Init => Placed /\ Closes
  BY DEF Init, Placed, Closes, NoConn, NotClosing
<1>2. Typed /\ Placed /\ Closes /\ [Next]_vars => Placed' /\ Closes'
  <2> SUFFICES ASSUME Typed, Placed, Closes, [Next]_vars PROVE Placed' /\ Closes'
    OBVIOUS
  <2>1. ASSUME NEW c \in Client, ClientStep(c) PROVE Placed' /\ Closes'
    <3>1. ASSUME NEW k \in Closer, NEW d \in close[k].before PROVE Pursued(close[k], conn'[d], d)
      <4>1. d \in Client /\ Pursued(close[k], conn[d], d)
        BY <3>1 DEF Closes, Typed, Runs
      <4>2. conn[d].state \notin {"none", "pending"}
        BY <4>1 DEF Pursued
      <4> QED BY <2>1, <4>1, <4>2, ConnSteps, PursuedKept
    <3> QED BY <2>1, <3>1, ConnSteps DEF Closes
  <2>2. ASSUME NEW k \in Closer, CloserStep(k) PROVE Placed' /\ Closes'
    BY <2>2, PlacedByRun, ClosesByRun
  <2>3. CASE Logout \/ Login \/ UNCHANGED vars
    BY <2>3 DEF Logout, Login, vars, service, Placed, Closes
  <2> QED BY <2>1, <2>2, <2>3 DEF Next
<1> QED BY <1>1, <1>2, TypedAlways, PTL DEF Spec

LEMMA PlacedAlways == Spec => []Placed
BY ClosesAlways, PTL

\* A run that reports no failure has closed all that was open when it began, if
\* there was one space when it looked, whatever else happened meanwhile.
THEOREM ClosesAllAlways == Spec => []ClosesAll
<1>1. Typed /\ Placed /\ Closes => ClosesAll
  <2> SUFFICES ASSUME Typed, Placed, Closes, NEW k \in Closer, close[k].shell = "done",
                      close[k].others = "done", close[k].alone, NEW c \in close[k].before
               PROVE  conn[c].state # "open"
    BY DEF ClosesAll
  <2>1. Pursued(close[k], conn[c], c) /\ c \in Client
    BY DEF Closes, Typed, Runs
  <2>2. conn[c].type \in Type
    BY <2>1 DEF Typed, Conns
  <2> QED BY <2>1, <2>2 DEF Pursued, ShellType, Type
<1> QED BY <1>1, TypedAlways, ClosesAlways, PTL

-----------------------------------------------------------------------------
(* Terminals                                                                 *)

Ending == {"Unattached", "Delete", "BrokenWebsocket"}

\* A terminal, blocked or not, takes input before its events are handled, or
\* after its i-th.
TakesInput(b, q, i) == (i = 0 /\ ~b) \/ (i \in 1 .. Len(q) /\ q[i] = "Start")

\* It takes input now or will, and no event after that tells it to stop.
Untold(b, q) == \E i \in 0 .. Len(q) :
  TakesInput(b, q, i) /\ \A j \in 1 .. Len(q) : j > i => q[j] \notin Ending

LEMMA UntoldAppend ==
  ASSUME NEW b, NEW q \in Seq(Event), NEW e \in Event
  PROVE  /\ e \in Ending => ~Untold(b, Append(q, e))
         /\ e # "Start" /\ Untold(b, Append(q, e)) => Untold(b, q)
<1> DEFINE a == Append(q, e)
           n == Len(q)
<1>1. n \in Nat /\ Len(a) = n + 1 /\ a[n + 1] = e /\ \A i \in 1 .. n : a[i] = q[i]
  OBVIOUS
<1> HIDE DEF a
<1>2. ASSUME e \in Ending, Untold(b, a) PROVE FALSE
  <2>1. PICK i \in 0 .. Len(a) : TakesInput(b, a, i) /\ \A j \in 1 .. Len(a) : j > i => a[j] \notin Ending
    BY <1>2 DEF Untold
  <2>2. i = n + 1
    BY <2>1, <1>1, <1>2
  <2>3. a[n + 1] = "Start"
    BY <2>1, <2>2, <1>1 DEF TakesInput
  <2> QED BY <2>3, <1>1, <1>2 DEF Ending
<1>3. ASSUME e # "Start", Untold(b, a) PROVE Untold(b, q)
  <2>1. PICK i \in 0 .. Len(a) : TakesInput(b, a, i) /\ \A j \in 1 .. Len(a) : j > i => a[j] \notin Ending
    BY <1>3 DEF Untold
  <2>2. i # n + 1
    BY <2>1, <1>1, <1>3 DEF TakesInput
  <2>3. i \in 0 .. n
    BY <2>2, <1>1
  <2>4. TakesInput(b, q, i)
    BY <2>1, <2>3, <1>1 DEF TakesInput
  <2>5. \A j \in 1 .. n : j > i => q[j] \notin Ending
    BY <2>1, <1>1
  <2> QED BY <2>3, <2>4, <2>5 DEF Untold
<1> QED BY <1>2, <1>3 DEF a

LEMMA UntoldTail ==
  ASSUME NEW b, NEW q \in Seq(Event), q # <<>>
  PROVE  /\ Untold(TRUE, Tail(q)) => Untold(b, q)
         /\ Untold(b, Tail(q)) /\ Head(q) \notin Ending => Untold(b, q)
         /\ Untold(FALSE, Tail(q)) /\ Head(q) = "Start" => Untold(b, q)
<1> DEFINE t == Tail(q)
           n == Len(t)
<1>1. n \in Nat /\ Len(q) = n + 1 /\ Head(q) = q[1] /\ \A i \in 1 .. n : t[i] = q[i + 1]
  OBVIOUS
<1> HIDE DEF t
<1>2. ASSUME NEW i \in 1 .. n, t[i] = "Start", \A j \in 1 .. n : j > i => t[j] \notin Ending
      PROVE  Untold(b, q)
  <2>1. i + 1 \in 1 .. Len(q) /\ i + 1 \in 0 .. Len(q)
    BY <1>1
  <2>2. TakesInput(b, q, i + 1)
    BY <1>1, <1>2, <2>1 DEF TakesInput
  <2>3. ASSUME NEW j \in 1 .. Len(q), j > i + 1 PROVE q[j] \notin Ending
    <3>1. j - 1 \in 1 .. n /\ j - 1 > i /\ (j - 1) + 1 = j
      BY <1>1, <2>3
    <3> QED BY <3>1, <1>1, <1>2
  <2> QED BY <2>1, <2>2, <2>3 DEF Untold
<1>3. ASSUME \A j \in 1 .. n : j > 0 => t[j] \notin Ending, NEW i \in {0, 1}, TakesInput(b, q, i),
             i = 0 => Head(q) \notin Ending
      PROVE  Untold(b, q)
  <2>1. ASSUME NEW j \in 1 .. Len(q), j > i PROVE q[j] \notin Ending
    <3>1. CASE j = 1
      BY <3>1, <2>1, <1>1, <1>3
    <3>2. CASE j # 1
      <4>1. j - 1 \in 1 .. n /\ j - 1 > 0 /\ (j - 1) + 1 = j
        BY <1>1, <3>2
      <4> QED BY <4>1, <1>1, <1>3
    <3> QED BY <3>1, <3>2
  <2>2. i \in 0 .. Len(q)
    BY <1>1
  <2> QED BY <2>1, <2>2, <1>3 DEF Untold
<1>4. ASSUME NEW d, Untold(d, t) PROVE Untold(b, q) \/ (~d /\ \A j \in 1 .. n : j > 0 => t[j] \notin Ending)
  <2>1. PICK i \in 0 .. n : TakesInput(d, t, i) /\ \A j \in 1 .. n : j > i => t[j] \notin Ending
    BY <1>4 DEF Untold
  <2> QED BY <2>1, <1>2 DEF TakesInput
<1>5. Untold(TRUE, t) => Untold(b, q)
  BY <1>4
<1>6. Untold(b, t) /\ Head(q) \notin Ending => Untold(b, q)
  BY <1>4, <1>3 DEF TakesInput
<1>7. Untold(FALSE, t) /\ Head(q) = "Start" => Untold(b, q)
  <2>1. Head(q) = "Start" => TakesInput(b, q, 1)
    BY <1>1 DEF TakesInput
  <2>2. ASSUME Untold(FALSE, t) PROVE Untold(b, q) \/ \A j \in 1 .. n : j > 0 => t[j] \notin Ending
    BY <2>2, <1>4
  <2>3. ASSUME Head(q) = "Start", \A j \in 1 .. n : j > 0 => t[j] \notin Ending PROVE Untold(b, q)
    BY <2>1, <2>3, <1>3
  <2> QED BY <2>2, <2>3
<1> QED BY <1>5, <1>6, <1>7 DEF t

\* Only terminals have events and take input, each is attached to no more than
\* the connection it uses, and one that takes input untold is attached to it.
Attached ==
  /\ \A c \in Client :
       /\ pc[c] # "terminal" => blocked[c] /\ inbox[c] = <<>>
       /\ Untold(blocked[c], inbox[c]) => conn[on[c]].attached = c /\ ~broken[c]
  /\ \A c, d \in Client : conn[d].attached = c => pc[c] = "terminal" /\ on[c] = d /\ conn[d].state = "open"

LEMMA NothingTold == ~Untold(TRUE, <<>>)
BY DEF Untold, TakesInput

\* The service closes connections, and nobody changes their place but out of the
\* places where there is no terminal.
LEMMA ClosingAttached ==
  ASSUME Typed, Attached, NEW cs \in SUBSET Client, Closing(cs), UNCHANGED <<on, blocked, broken>>,
         \A p \in Client : pc'[p] = pc[p] \/ (pc[p] # "terminal" /\ pc'[p] # "terminal")
  PROVE  Attached'
<1>1. \A d \in Client : \/ conn'[d] = conn[d] /\ ~(d \in cs /\ conn[d].state # "none")
                        \/ d \in cs /\ conn'[d].attached = None
  BY DEF Closing, Typed, NoConn
<1>2. ASSUME NEW c \in Client, pc'[c] # "terminal" PROVE blocked'[c] /\ inbox'[c] = <<>>
  <2>1. pc[c] # "terminal" /\ \A d \in Client : conn[d].attached # c
    BY <1>2 DEF Attached
  <2>2. inbox'[c] = inbox[c]
    BY <2>1 DEF Closing
  <2> QED BY <2>1, <2>2 DEF Attached
<1>3. ASSUME NEW c \in Client, Untold(blocked'[c], inbox'[c]) PROVE conn'[on'[c]].attached = c /\ ~broken'[c]
  <2>1. inbox[c] \in Seq(Event) /\ "Delete" \in Event /\ "Delete" \in Ending /\ on[c] \in Client
    BY DEF Typed, Event, Ending
  <2>2. ~Untold(blocked[c], Append(inbox[c], "Delete"))
    BY <2>1, UntoldAppend
  <2>3. inbox'[c] = inbox[c] /\ ~(~broken[c] /\ \E d \in cs : conn[d].attached = c)
    BY <1>3, <2>2 DEF Closing
  <2>4. conn[on[c]].attached = c /\ ~broken[c]
    BY <1>3, <2>3 DEF Attached
  <2>5. on[c] \notin cs
    BY <2>3, <2>4
  <2> QED BY <1>1, <2>1, <2>4, <2>5
<1>4. ASSUME NEW c \in Client, NEW d \in Client, conn'[d].attached = c
      PROVE  pc'[c] = "terminal" /\ on'[c] = d /\ conn'[d].state = "open"
  <2>1. conn'[d] = conn[d]
    BY <1>1, <1>4
  <2> QED BY <1>4, <2>1 DEF Attached
<1> QED BY <1>2, <1>3, <1>4 DEF Attached

\* Events are handled, or come that tell nobody to begin.
LEMMA HandlingAttached ==
  ASSUME Typed, Attached, UNCHANGED <<conn, pc, on>>, NEW c \in Client, pc[c] = "terminal",
         \A p \in Client \ {c} : blocked'[p] = blocked[p] /\ inbox'[p] = inbox[p] /\ broken'[p] = broken[p],
         Untold(blocked'[c], inbox'[c]) => conn[on[c]].attached = c /\ ~broken'[c]
  PROVE  Attached'
<1>1. \A p \in Client : Untold(blocked'[p], inbox'[p]) => conn[on[p]].attached = p /\ ~broken'[p]
  BY DEF Attached
<1>2. \A p \in Client : pc[p] # "terminal" => blocked'[p] /\ inbox'[p] = <<>>
  BY DEF Attached
<1> QED BY <1>1, <1>2 DEF Attached

\* Nothing that terminals are about changes.
LEMMA AttachedKept ==
  ASSUME Attached, UNCHANGED <<conn, on, terminal>>,
         \A p \in Client : pc'[p] = pc[p] \/ (pc[p] # "terminal" /\ pc'[p] # "terminal")
  PROVE  Attached'
BY DEF Attached, terminal

LEMMA TerminalAttached ==
  ASSUME Typed, Attached, NEW c \in Client, ~Ends(c), TerminalStep(c)
  PROVE  Attached'
<1> USE DEF service, terminal, Goto
<1>a. /\ inbox \in [Client -> Seq(Event)] /\ broken \in [Client -> BOOLEAN] /\ blocked \in [Client -> BOOLEAN]
      /\ pc \in [Client -> Place] /\ on \in [Client -> Client] /\ conn \in [Client -> Conns]
  BY DEF Typed
<1>b. inbox[c] # <<>> => pc[c] = "terminal"
  BY DEF Attached
<1>c. \A e \in {"Ready", "Start", "Unattached", "Delete", "Disconnect", "BrokenWebsocket"} : e \in Event
  BY DEF Event
<1>1. CASE StartTerminal(c)
  <2>1. /\ pc[c] = "starting" /\ Goto(c, "terminal") /\ broken' = [broken EXCEPT ![c] = TRUE]
        /\ UNCHANGED <<conn, on, blocked, inbox>>
    BY <1>1 DEF StartTerminal
  <2>2. ~Untold(blocked[c], inbox[c]) /\ \A d \in Client : conn[d].attached # c
    BY <2>1, NothingTold, <1>a DEF Attached
  <2>3. \A p \in Client \ {c} : pc'[p] = pc[p] /\ broken'[p] = broken[p]
    BY <2>1, <1>a
  <2>4. pc'[c] = "terminal"
    BY <2>1, <1>a
  <2> QED BY <2>1, <2>2, <2>3, <2>4 DEF Attached
<1>2. CASE WebsocketReady(c)
  <2>1. /\ pc[c] = "terminal" /\ broken[c] /\ broken' = [broken EXCEPT ![c] = FALSE]
        /\ inbox' = [inbox EXCEPT ![c] = Append(inbox[c], "Ready")] /\ UNCHANGED <<conn, pc, on, blocked>>
    BY <1>2 DEF WebsocketReady
  <2>2. ~Untold(blocked[c], inbox[c])
    BY <2>1 DEF Attached
  <2>3. ~Untold(blocked[c], Append(inbox[c], "Ready"))
    BY <2>2, <1>a, <1>c, UntoldAppend
  <2> QED BY <2>1, <2>3, <1>a, HandlingAttached
<1>3. CASE WebsocketBreaks(c)
  <2>1. /\ pc[c] = "terminal" /\ broken' = [broken EXCEPT ![c] = TRUE]
        /\ inbox' = [inbox EXCEPT ![c] = Append(inbox[c], "BrokenWebsocket")] /\ UNCHANGED <<conn, pc, on, blocked>>
    BY <1>3 DEF WebsocketBreaks
  <2>2. ~Untold(blocked[c], Append(inbox[c], "BrokenWebsocket"))
    BY <1>a, <1>c, UntoldAppend DEF Ending
  <2> QED BY <2>1, <2>2, <1>a, HandlingAttached
<1>4. CASE TargetDisconnects(c)
  BY <1>4, <1>a, HandlingAttached DEF TargetDisconnects
<1>5. CASE RefreshFails(c)
  <2>1. /\ inbox[c] # <<>> /\ Head(inbox[c]) = "Ready" /\ inbox' = [inbox EXCEPT ![c] = Tail(inbox[c])]
        /\ UNCHANGED <<conn, pc, on, blocked, broken>>
    BY <1>5 DEF RefreshFails
  <2>2. Untold(blocked[c], Tail(inbox[c])) => Untold(blocked[c], inbox[c])
    BY <2>1, <1>a, UntoldTail DEF Ending
  <2>3. Untold(blocked'[c], inbox'[c]) => conn[on[c]].attached = c /\ ~broken'[c]
    BY <2>1, <2>2, <1>a DEF Attached
  <2> QED BY <2>1, <2>3, <1>a, <1>b, HandlingAttached
<1>6. CASE ShellStarts(c)
  <2>1. /\ inbox[c] # <<>> /\ Head(inbox[c]) = "Start" /\ inbox' = [inbox EXCEPT ![c] = Tail(inbox[c])]
        /\ blocked' = [blocked EXCEPT ![c] = FALSE] /\ UNCHANGED <<conn, pc, on, broken>>
    BY <1>6 DEF ShellStarts
  <2>2. Untold(FALSE, Tail(inbox[c])) => Untold(blocked[c], inbox[c])
    BY <2>1, <1>a, UntoldTail
  <2>3. Untold(blocked'[c], inbox'[c]) => conn[on[c]].attached = c /\ ~broken'[c]
    BY <2>1, <2>2, <1>a DEF Attached
  <2> QED BY <2>1, <2>3, <1>a, <1>b, HandlingAttached
<1>7. CASE ShellBroken(c)
  <2>1. /\ inbox[c] # <<>> /\ inbox' = [inbox EXCEPT ![c] = Tail(inbox[c])]
        /\ blocked' = [blocked EXCEPT ![c] = TRUE] /\ UNCHANGED <<conn, pc, on, broken>>
    BY <1>7 DEF ShellBroken
  <2>2. Untold(TRUE, Tail(inbox[c])) => Untold(blocked[c], inbox[c])
    BY <2>1, <1>a, UntoldTail
  <2>3. Untold(blocked'[c], inbox'[c]) => conn[on[c]].attached = c /\ ~broken'[c]
    BY <2>1, <2>2, <1>a DEF Attached
  <2> QED BY <2>1, <2>3, <1>a, <1>b, HandlingAttached
<1>8. CASE ShellConnect(c)
  <2> DEFINE d == on[c]
             rest == Tail(inbox[c])
  <2>1. /\ inbox[c] # <<>> /\ Head(inbox[c]) = "Ready" /\ UNCHANGED <<pc, on, blocked, broken>>
        /\ pc[c] = "terminal" /\ d \in Client /\ rest \in Seq(Event)
    BY <1>8, <1>a, <1>b DEF ShellConnect
  <2>2. Untold(blocked[c], rest) => Untold(blocked[c], inbox[c])
    BY <2>1, <1>a, UntoldTail DEF Ending
  <2>3. CASE inbox' = [inbox EXCEPT ![c] = rest] /\ UNCHANGED conn
    <3>1. Untold(blocked'[c], inbox'[c]) => conn[on[c]].attached = c /\ ~broken'[c]
      BY <2>1, <2>2, <2>3, <1>a DEF Attached
    <3> QED BY <2>1, <2>3, <3>1, <1>a, HandlingAttached
  <2>4. CASE inbox' = [inbox EXCEPT ![c] = Append(rest, "Delete")] /\ UNCHANGED conn
    <3>1. ~Untold(blocked[c], Append(rest, "Delete"))
      BY <2>1, <1>c, UntoldAppend DEF Ending
    <3> QED BY <2>1, <2>4, <3>1, <1>a, HandlingAttached
  <2>5. CASE /\ ~broken[c] /\ conn[d].state = "open" /\ conn' = [conn EXCEPT ![d].attached = c]
             /\ inbox' = [p \in Client |-> IF p = c THEN Append(rest, "Start")
                            ELSE IF p # c /\ conn[d].attached = p /\ ~broken[p]
                                 THEN Append(inbox[p], "Unattached") ELSE inbox[p]]
    <3>1. /\ conn'[d].attached = c /\ conn'[d].state = "open"
          /\ \A e \in Client \ {d} : conn'[e] = conn[e]
      BY <2>1, <2>5, <1>a DEF Conns
    <3>2. ASSUME NEW p \in Client, pc[p] # "terminal" PROVE blocked'[p] /\ inbox'[p] = <<>>
      <4>1. p # c /\ conn[d].attached # p
        BY <2>1, <3>2 DEF Attached
      <4> QED BY <2>1, <2>5, <3>2, <4>1 DEF Attached
    <3>3. ASSUME NEW p \in Client, p # c, Untold(blocked[p], inbox'[p]) PROVE conn'[on[p]].attached = p /\ ~broken[p]
      <4>1. inbox[p] \in Seq(Event) /\ on[p] \in Client
        BY <1>a
      <4>2. ~Untold(blocked[p], Append(inbox[p], "Unattached"))
        BY <4>1, <1>c, UntoldAppend DEF Ending
      <4>3. inbox'[p] = inbox[p] /\ ~(conn[d].attached = p /\ ~broken[p])
        BY <2>5, <3>3, <4>2
      <4>4. conn[on[p]].attached = p /\ ~broken[p]
        BY <3>3, <4>3 DEF Attached
      <4> QED BY <3>1, <4>1, <4>3, <4>4
    <3>4. ASSUME NEW p \in Client, NEW e \in Client, conn'[e].attached = p
          PROVE  pc[p] = "terminal" /\ on[p] = e /\ conn'[e].state = "open"
      BY <2>1, <3>1, <3>4 DEF Attached
    <3> QED BY <2>1, <2>5, <3>1, <3>2, <3>3, <3>4 DEF Attached
  <2> QED BY <1>8, <2>3, <2>4, <2>5 DEF ShellConnect
<1>9. CASE TargetAsked(c)
  <2>1. /\ inbox[c] # <<>> /\ Head(inbox[c]) = "Ready"
        /\ inbox' = [inbox EXCEPT ![c] = Append(Tail(inbox[c]), "Ready")]
        /\ UNCHANGED <<conn, pc, on, blocked, broken>>
    BY <1>9 DEF TargetAsked
  <2>2. Untold(blocked[c], Tail(inbox[c])) => Untold(blocked[c], inbox[c])
    BY <2>1, <1>a, UntoldTail DEF Ending
  <2>3. Untold(blocked[c], Append(Tail(inbox[c]), "Ready")) => Untold(blocked[c], Tail(inbox[c]))
    <3>1. Tail(inbox[c]) \in Seq(Event)
      BY <2>1, <1>a
    <3> QED BY <3>1, <1>a, <1>c, UntoldAppend
  <2>4. Untold(blocked'[c], inbox'[c]) => conn[on[c]].attached = c /\ ~broken'[c]
    BY <2>1, <2>2, <2>3, <1>a DEF Attached
  <2> QED BY <2>1, <2>4, <1>a, <1>b, HandlingAttached
<1> QED BY <1>1, <1>2, <1>3, <1>4, <1>5, <1>6, <1>7, <1>8, <1>9 DEF TerminalStep

LEMMA AttachedStep == ASSUME Typed, Placed, Attached, [Next]_vars PROVE Attached'
<1> USE DEF service, terminal, sshkey, Goto
<1>a. /\ inbox \in [Client -> Seq(Event)] /\ broken \in [Client -> BOOLEAN] /\ blocked \in [Client -> BOOLEAN]
      /\ pc \in [Client -> Place] /\ on \in [Client -> Client] /\ conn \in [Client -> Conns] /\ None \notin Client
  BY DEF Typed
<1>1. ASSUME NEW c \in Client, Ends(c) PROVE Attached'
  <2>1. \A d \in Client : \/ conn'[d] = conn[d] /\ conn[d].attached # c
                          \/ conn[d].attached = c /\ conn'[d].attached = None
    BY <1>1, <1>a DEF Ends, Conns
  <2>2. blocked'[c] /\ inbox'[c] = <<>> /\ ~Untold(blocked'[c], inbox'[c])
    BY <1>1, <1>a, NothingTold DEF Ends
  <2>3. \A p \in Client \ {c} : /\ pc'[p] = pc[p] /\ on'[p] = on[p] /\ blocked'[p] = blocked[p]
                                /\ inbox'[p] = inbox[p] /\ broken'[p] = broken[p]
    BY <1>1, <1>a DEF Ends
  <2>4. ASSUME NEW p \in Client, NEW d \in Client, conn'[d].attached = p
        PROVE  pc'[p] = "terminal" /\ on'[p] = d /\ conn'[d].state = "open"
    BY <1>a, <2>1, <2>3, <2>4 DEF Attached
  <2>5. ASSUME NEW p \in Client, Untold(blocked'[p], inbox'[p]) PROVE conn'[on'[p]].attached = p /\ ~broken'[p]
    <3>1. p # c
      BY <2>2, <2>5
    <3>2. Untold(blocked[p], inbox[p]) /\ on'[p] = on[p] /\ broken'[p] = broken[p]
      BY <2>3, <2>5, <3>1
    <3>3. conn[on[p]].attached = p /\ ~broken[p]
      BY <3>2 DEF Attached
    <3>4. on[p] \in Client
      BY <1>a
    <3> QED BY <2>1, <3>1, <3>2, <3>3, <3>4
  <2>6. \A p \in Client : pc'[p] # "terminal" => blocked'[p] /\ inbox'[p] = <<>>
    BY <2>2, <2>3 DEF Attached
  <2> QED BY <2>4, <2>5, <2>6 DEF Attached
<1>2. ASSUME NEW c \in Client, Moves(c) PROVE Attached'
  BY <1>2, <1>a, AttachedKept DEF Moves, Only
<1>3. ASSUME NEW c \in Client, NEW k \in Kind, Connect(c, k) \/ AnswerLost(c, k) PROVE Attached'
  <2>1. pc[c] = "idle" /\ conn[c].state = "none" /\ \A p \in Client : conn[c].attached # p
    BY <1>3, <1>a DEF Connect, AnswerLost, Opens, Placed, Attached
  <2>2. conn'[c].attached = None /\ \A d \in Client \ {c} : conn'[d] = conn[d]
    BY <1>3, <1>a DEF Connect, AnswerLost, Opens
  <2>3. pc'[c] # "terminal" /\ \A d \in Client \ {c} : pc'[d] = pc[d]
    BY <1>3, <1>a DEF Connect, AnswerLost
  <2>4. UNCHANGED <<on, blocked, inbox, broken>>
    BY <1>3 DEF Connect, AnswerLost
  <2>5. ASSUME NEW p \in Client, NEW d \in Client, conn'[d].attached = p
        PROVE  pc'[p] = "terminal" /\ on'[p] = d /\ conn'[d].state = "open"
    <3>1. d # c /\ conn'[d] = conn[d]
      BY <1>a, <2>2, <2>5
    <3>2. pc[p] = "terminal" /\ on[p] = d /\ conn[d].state = "open"
      BY <2>5, <3>1 DEF Attached
    <3>3. p # c
      BY <2>1, <3>2
    <3> QED BY <2>3, <2>4, <3>1, <3>2, <3>3
  <2>6. ASSUME NEW p \in Client, Untold(blocked'[p], inbox'[p]) PROVE conn'[on'[p]].attached = p /\ ~broken'[p]
    <3>1. conn[on[p]].attached = p /\ ~broken[p] /\ on[p] \in Client
      BY <1>a, <2>4, <2>6 DEF Attached
    <3> QED BY <2>1, <2>2, <2>4, <3>1
  <2>7. \A p \in Client : pc'[p] # "terminal" => blocked'[p] /\ inbox'[p] = <<>>
    BY <2>1, <2>3, <2>4 DEF Attached
  <2> QED BY <2>5, <2>6, <2>7 DEF Attached
<1>4. ASSUME NEW c \in Client, NEW d \in Client, Attach(c, d) PROVE Attached'
  <2>1. /\ pc[c] = "idle" /\ UNCHANGED <<conn, blocked, inbox, broken>> /\ on' = [on EXCEPT ![c] = d]
        /\ (Goto(c, "looking") \/ Goto(c, "finding"))
    BY <1>4 DEF Attach
  <2>2. ~Untold(blocked[c], inbox[c]) /\ \A e \in Client : conn[e].attached # c
    BY <2>1, <1>a, NothingTold DEF Attached
  <2>3. /\ pc'[c] # "terminal" /\ \A p \in Client \ {c} : pc'[p] = pc[p] /\ on'[p] = on[p]
    BY <2>1, <1>a
  <2> QED BY <2>1, <2>2, <2>3 DEF Attached
<1>5. ASSUME NEW c \in Client, ClosesFailed(c) \/ CloseOne(c) PROVE Attached'
  <2>1. Closing({c}) /\ UNCHANGED <<on, blocked, broken>>
        /\ \A p \in Client : pc'[p] = pc[p] \/ (pc[p] # "terminal" /\ pc'[p] # "terminal")
    BY <1>5, <1>a DEF ClosesFailed, CloseOne
  <2> QED BY <2>1, ClosingAttached
<1>6. ASSUME NEW c \in Client, DatComes(c) PROVE Attached'
  <2>1. /\ conn[c].state = "pending" /\ conn'[c] = [conn[c] EXCEPT !.state = "open"]
        /\ \A d \in Client \ {c} : conn'[d] = conn[d]
        /\ UNCHANGED <<pc, on, blocked, inbox, broken>>
    BY <1>6, <1>a DEF DatComes
  <2>2. conn'[c].attached = conn[c].attached /\ \A p \in Client : conn[c].attached # p
    BY <2>1, <1>a DEF Attached, Conns
  <2>3. \A d \in Client : conn'[d].attached = conn[d].attached
    BY <2>1, <2>2
  <2>4. ASSUME NEW p \in Client, NEW d \in Client, conn'[d].attached = p
        PROVE  pc'[p] = "terminal" /\ on'[p] = d /\ conn'[d].state = "open"
    <3>1. d # c /\ conn'[d] = conn[d]
      BY <2>1, <2>2, <2>4
    <3> QED BY <2>1, <2>4, <3>1 DEF Attached
  <2>5. ASSUME NEW p \in Client, Untold(blocked'[p], inbox'[p]) PROVE conn'[on'[p]].attached = p /\ ~broken'[p]
    <3>1. conn[on[p]].attached = p /\ ~broken[p] /\ on[p] \in Client
      BY <1>a, <2>1, <2>5 DEF Attached
    <3> QED BY <2>1, <2>3, <3>1
  <2> QED BY <2>1, <2>4, <2>5 DEF Attached
<1>7. ASSUME NEW c \in Client, Notice(c) \/ KeyStep(c), ~Ends(c) PROVE Attached'
  <2>1. UNCHANGED <<conn, on, blocked, inbox, broken>>
    BY <1>7 DEF Notice, KeyStep, OpenKey, WriteKey, ReadKey
  <2>2. \A p \in Client : pc'[p] = pc[p] \/ (pc[p] # "terminal" /\ pc'[p] # "terminal")
    BY <1>7, <1>a DEF Notice, KeyStep, OpenKey, WriteKey, ReadKey
  <2> QED BY <2>1, <2>2, AttachedKept
<1>8. ASSUME NEW k \in Closer, CloserStep(k) PROVE Attached'
  <2>1. CASE UNCHANGED <<conn, on, terminal, pc>>
    BY <2>1, AttachedKept
  <2>2. ASSUME NEW cs \in SUBSET Client, Closing(cs), UNCHANGED <<on, blocked, broken, pc>> PROVE Attached'
    BY <2>2, ClosingAttached
  <2>3. CASE CloseSpace(k)
    <3>1. \/ UNCHANGED <<conn, on, terminal, pc>>
          \/ Closing({c \in Client : conn[c].space = close[k].space}) /\ UNCHANGED <<on, blocked, broken, pc>>
      BY <2>3 DEF CloseSpace
    <3> QED BY <3>1, <2>1, <2>2
  <2>4. ASSUME NEW c \in Client, CloseOther(k, c) PROVE Attached'
    <3>1. UNCHANGED <<on, blocked, broken, pc>> /\ \E ok \in BOOLEAN : Closing(IF ok THEN {c} ELSE {})
      BY <2>4 DEF CloseOther
    <3> QED BY <3>1, <2>2
  <2> QED BY <1>8, <2>1, <2>3, <2>4
          DEF CloserStep, BeginClose, ListSpaces, CreateSpace, ListOthers, EndClose
<1>9. CASE Logout \/ Login \/ UNCHANGED vars
  BY <1>9, AttachedKept DEF Logout, Login, vars
<1>10. ASSUME NEW c \in Client, Notice(c), Ends(c) PROVE Attached'
  BY <1>1, <1>10
<1> QED BY <1>1, <1>2, <1>3, <1>4, <1>5, <1>6, <1>7, <1>8, <1>9, TerminalAttached, ClientSteps DEF Next

\* Input never goes where another terminal types: who takes input is attached,
\* or is about to be told otherwise.
THEOREM OnlyAttachedAlways == Spec => []OnlyAttachedTypes
<1>1. Init => Attached
  <2> SUFFICES ASSUME Init PROVE Attached
    OBVIOUS
  <2>1. \A c \in Client : blocked[c] = TRUE /\ inbox[c] = <<>> /\ conn[c].attached = None
    BY DEF Init, NoConn
  <2>2. None \notin Client
    OBVIOUS
  <2> QED BY <2>1, <2>2, NothingTold DEF Attached
<1>2. Typed /\ Placed /\ Attached /\ [Next]_vars => Attached'
  BY AttachedStep
<1>3. Typed /\ Attached => OnlyAttachedTypes
  <2> SUFFICES ASSUME Typed, Attached, NEW c \in Client, ~blocked[c], conn[on[c]].attached # c
               PROVE  \E i \in 1 .. Len(inbox[c]) : inbox[c][i] \in {"Unattached", "Delete", "BrokenWebsocket"}
    BY DEF OnlyAttachedTypes
  <2>1. ~Untold(blocked[c], inbox[c]) /\ Len(inbox[c]) \in Nat
    BY DEF Attached, Typed
  <2> QED BY <2>1 DEF Untold, TakesInput, Ending
<1> QED BY <1>1, <1>2, <1>3, TypedAlways, PlacedAlways, PTL DEF Spec
=============================================================================

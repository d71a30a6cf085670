--------------------------- MODULE DaemonRegistry ---------------------------
(***************************************************************************)
(* What the zli promises about its background daemons, without the steps   *)
(* it takes: a daemon that was started is either still being connected, or *)
(* recorded in the configuration file, or given up in a way the user is    *)
(* told about.  An entry is made only by the connect command it belongs    *)
(* to, is made once, and is removed only after its daemon is gone or after *)
(* stopping that daemon failed.                                            *)
(***************************************************************************)

CONSTANT Conn           \* connection ids, one daemon each

VARIABLES live,         \* connections whose daemon process exists
          recorded,     \* connections with an entry in the configuration
          connecting,   \* connections whose connect command is under way
          excused       \* stopping failed, or the connect command was killed

regvars == <<live, recorded, connecting, excused>>

Init ==
  /\ recorded \in SUBSET Conn
  /\ live \in SUBSET recorded
  /\ connecting = {}
  /\ excused = {}

Begin(c) ==
  /\ c \notin live \cup recorded \cup connecting
  /\ connecting' = connecting \cup {c}
  /\ UNCHANGED <<live, recorded, excused>>

Start(c) ==
  /\ c \in connecting \ (live \cup recorded)
  /\ live' = live \cup {c}
  /\ UNCHANGED <<recorded, connecting, excused>>

\* The entry appears, and with it the command may be finished.
Record(c) ==
  /\ c \in connecting \ recorded
  /\ recorded' = recorded \cup {c}
  /\ connecting' \in {connecting, connecting \ {c}}
  /\ UNCHANGED <<live, excused>>

Die(c) ==
  /\ c \in live
  /\ live' = live \ {c}
  /\ connecting' \in {connecting, connecting \ {c}}
  /\ UNCHANGED <<recorded, excused>>

\* A command may end without having recorded a daemon only if there is none
\* left, or it says that it could not be stopped.
End(c) ==
  /\ c \in connecting
  /\ connecting' = connecting \ {c}
  /\ excused' \in {excused, excused \cup {c}}
  /\ c \in live => c \in recorded \cup excused'
  /\ UNCHANGED <<live, recorded>>

Excuse(c) ==
  /\ excused' = excused \cup {c}
  /\ UNCHANGED <<live, recorded, connecting>>

Forget(c) ==
  /\ c \in recorded
  /\ c \notin live \ excused
  /\ recorded' = recorded \ {c}
  /\ UNCHANGED <<live, connecting, excused>>

Next == \E c \in Conn :
  \/ Begin(c) \/ Start(c) \/ Record(c) \/ Die(c)
  \/ End(c) \/ Excuse(c) \/ Forget(c)

Spec == Init /\ [][Next]_regvars
=============================================================================

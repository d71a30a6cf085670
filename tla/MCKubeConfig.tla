---------------------------- MODULE MCKubeConfig ----------------------------
(* One target for all; a context of the user's own, and one the user makes  *)
(* for the zli's user.                                                      *)
EXTENDS KubeConfig, TLC

CONSTANTS c1, c2, k2, prod, mine, bzero, p1, p2, q

MCNameOf == [c \in Conn |-> prod]
MCPortOf == [c \in Conn |-> IF c = c1 THEN p1 ELSE p2]
Only(n, x, none) == [m \in Name |-> IF m = n THEN x ELSE none]
Own == [cluster |-> mine, user |-> mine]
OwnEntry(port) == [context |-> Own, cluster |-> port, user |-> 1]
FileAt(port) == [clusters |-> Only(mine, port, None), contexts |-> Only(mine, Own, None),
                 users |-> Only(mine, 1, 0), current |-> mine, other |-> TRUE]
MCEdits ==
  {<<mine, [OwnEntry(p1) EXCEPT !.context = [cluster |-> mine, user |-> bzero]]>>}

\* The user's context is at no daemon's port, or has been made by an older zli
\* for the port that a daemon is given.
MCFiles == {FileAt(q), FileAt(p1)}

\* What is followed: two connects beside one command after another, until both
\* connects have been overlapped; or one connect beside two commands that overlap,
\* on the older file, or while the user edits and one token is made.
Edited == wanted[mine] \notin {OwnEntry(q), OwnEntry(p1)}
Second == pc[c2] # "idle"
Explored ==
  /\ Edited => ~Second /\ fresh < MaxToken
  /\ Second => wanted[mine] = OwnEntry(q) /\ pc[k2] = "idle" /\ disturbed # Conn
  /\ wanted[mine] = OwnEntry(q) /\ Cmd \subseteq Busy => fresh < MaxToken

\* What a command has left behind and the next one sets before it reads it is
\* not told apart, nor is how a connect ended whose daemon is gone.
Held(p) == IF pc[p] \in {"judging", "overwriting", "writing"} THEN copy[p] ELSE None
Over(c) == pc[c] \in {"done", "failed"} /\ c \notin alive
Current == <<file, settings, fresh, runs, adds, store, alive, wanted, raced, lent,
  {c \in disturbed : ~Over(c)}, [p \in Proc |-> Held(p)],
  [c \in Conn |-> IF Over(c) THEN <<>> ELSE <<pc[c], token[c]>>],
  [k \in Cmd |-> IF pc[k] = "idle" THEN <<>> ELSE <<pc[k], job[k], match[k], token[k]>>]>>
=============================================================================

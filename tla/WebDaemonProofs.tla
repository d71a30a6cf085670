--------------------------- MODULE WebDaemonProofs ---------------------------
(* Theorems about WebDaemon, for any number of commands, whichever ports     *)
(* they use and whatever other programs do.  The invariant follows a single  *)
(* command from the moment it reads the slot: nobody else changes the slot   *)
(* meanwhile, so the daemon it stops is the only one that may run.           *)
(*                                                                           *)
(* And about DaemonInstall, which every connect goes through before it       *)
(* spawns a daemon, for any number of commands and versions.  Its invariant  *)
(* says that who holds the lock alone changes executables, and changes only  *)
(* those that are not usable.                                                *)
EXTENDS WebDaemon, DaemonInstall, TLAPS

USE WebAssumption

LEMMA TypeStep == TypeOK /\ [Next]_vars => TypeOK'
<1> SUFFICES ASSUME TypeOK, [Next]_vars PROVE TypeOK'
  OBVIOUS
<1> USE DEF TypeOK, Slot, Zli, Resting, ConnSteps, CmdSteps, Port, Empty, Alive
<1>1. ASSUME NEW c \in Conn, StartConnect(c) PROVE TypeOK'
  BY <1>1 DEF StartConnect, Goto, MayStart
<1>2. ASSUME NEW c \in Conn, StopPrevious(c) PROVE TypeOK'
  BY <1>2 DEF StopPrevious, Goto, Forget, ShutDown
<1>3. ASSUME NEW c \in Conn, PortTaken(c) PROVE TypeOK'
  BY <1>3 DEF PortTaken, Goto, PortInUse
<1>4. ASSUME NEW c \in Conn, PortFree(c) PROVE TypeOK'
  BY <1>4 DEF PortFree, Goto, PortInUse
<1>5. ASSUME NEW c \in Conn, SpawnDaemon(c) PROVE TypeOK'
  BY <1>5 DEF SpawnDaemon, Goto
<1>6. ASSUME NEW c \in Conn, SaveSlot(c) PROVE TypeOK'
  BY <1>6 DEF SaveSlot, Goto
<1>7. ASSUME NEW c \in Conn, ServerStarted(c) PROVE TypeOK'
  BY <1>7 DEF ServerStarted, Goto, PortInUse
<1>8. ASSUME NEW c \in Conn, ServerTimeout(c) PROVE TypeOK'
  BY <1>8 DEF ServerTimeout, Goto, PortInUse
<1>9. ASSUME NEW c \in Conn, ExitWithDaemon(c) PROVE TypeOK'
  BY <1>9 DEF ExitWithDaemon, Goto
<1>10. ASSUME NEW c \in Conn, KillConnect(c) PROVE TypeOK'
  BY <1>10 DEF KillConnect, Goto, Forget
<1>11. ASSUME NEW c \in Conn, DaemonBinds(c) PROVE TypeOK'
  BY <1>11 DEF DaemonBinds, PortInUse
<1>12. ASSUME NEW c \in Conn, DaemonQuits(c) PROVE TypeOK'
  BY <1>12 DEF DaemonQuits
<1>13. ASSUME NEW k \in Cmd, StartList(k) PROVE TypeOK'
  BY <1>13 DEF StartList, Goto, MayStart
<1>14. ASSUME NEW k \in Cmd, ListRunning(k) PROVE TypeOK'
  BY <1>14 DEF ListRunning, Goto, Forget
<1>15. ASSUME NEW k \in Cmd, ListNone(k) PROVE TypeOK'
  BY <1>15 DEF ListNone, Goto, Forget, KillListeners
<1>16. ASSUME NEW k \in Cmd, ListGone(k) PROVE TypeOK'
  BY <1>16 DEF ListGone, Goto
<1>17. ASSUME NEW k \in Cmd, FreePort(k) PROVE TypeOK'
  BY <1>17 DEF FreePort, Goto, KillListeners
<1>18. ASSUME NEW k \in Cmd, StartDisconnect(k) PROVE TypeOK'
  BY <1>18 DEF StartDisconnect, Goto, MayStart
<1>19. ASSUME NEW k \in Cmd, StopRecorded(k) PROVE TypeOK'
  BY <1>19 DEF StopRecorded, Goto, ShutDown
<1>20. ASSUME NEW k \in Cmd, NothingToStop(k) PROVE TypeOK'
  BY <1>20 DEF NothingToStop, Goto
<1>21. ASSUME NEW k \in Cmd, ClearPid(k) PROVE TypeOK'
  BY <1>21 DEF ClearPid, Goto, Forget
<1>22. ASSUME NEW k \in Cmd, KillCommand(k) PROVE TypeOK'
  BY <1>22 DEF KillCommand, Goto, Forget
<1>23. ASSUME NEW p \in Port, OtherBinds(p) PROVE TypeOK'
  BY <1>23 DEF OtherBinds, PortInUse
<1>24. ASSUME NEW p \in Port, OtherQuits(p) PROVE TypeOK'
  BY <1>24 DEF OtherQuits
<1>25. ASSUME NEW c \in Conn, DaemonFallsMute(c) PROVE TypeOK'
  BY <1>25 DEF DaemonFallsMute
<1>26. CASE UNCHANGED vars
  BY <1>26 DEF vars
<1>27. QED
  BY <1>1, <1>2, <1>3, <1>4, <1>5, <1>6, <1>7, <1>8, <1>9, <1>10, <1>11, <1>12,
      <1>13, <1>14, <1>15, <1>16, <1>17, <1>18, <1>19, <1>20, <1>21, <1>22,
      <1>23, <1>24, <1>25, <1>26 DEF Next, ConnectStep, CommandStep

\* Every variable stays in its type, however commands overlap.
THEOREM TypeCorrect == Spec => []TypeOK
<1>1. Init => TypeOK
  BY DEF Init, TypeOK, Slot, Empty, Zli, Resting
<1>2. QED
  BY <1>1, TypeStep, PTL DEF Spec

\* One command at a time.
Alone == \A p, q \in Zli : pc[p] \notin Resting /\ pc[q] \notin Resting => p =
    q

LEMMA AloneStep == ~Concurrent /\ TypeOK /\ Alone /\ [Next]_vars => Alone'
<1> SUFFICES ASSUME ~Concurrent, TypeOK, Alone, [Next]_vars PROVE Alone'
  OBVIOUS
<1> USE DEF TypeOK, Slot, Zli, Resting, ConnSteps, CmdSteps, Alone
<1>1. ASSUME NEW c \in Conn, StartConnect(c) PROVE Alone'
  BY <1>1 DEF StartConnect, Goto, MayStart
<1>2. ASSUME NEW c \in Conn, StopPrevious(c) PROVE Alone'
  BY <1>2 DEF StopPrevious, Goto, Forget, ShutDown
<1>3. ASSUME NEW c \in Conn, PortTaken(c) PROVE Alone'
  BY <1>3 DEF PortTaken, Goto, PortInUse
<1>4. ASSUME NEW c \in Conn, PortFree(c) PROVE Alone'
  BY <1>4 DEF PortFree, Goto, PortInUse
<1>5. ASSUME NEW c \in Conn, SpawnDaemon(c) PROVE Alone'
  BY <1>5 DEF SpawnDaemon, Goto
<1>6. ASSUME NEW c \in Conn, SaveSlot(c) PROVE Alone'
  BY <1>6 DEF SaveSlot, Goto
<1>7. ASSUME NEW c \in Conn, ServerStarted(c) PROVE Alone'
  BY <1>7 DEF ServerStarted, Goto, PortInUse
<1>8. ASSUME NEW c \in Conn, ServerTimeout(c) PROVE Alone'
  BY <1>8 DEF ServerTimeout, Goto, PortInUse
<1>9. ASSUME NEW c \in Conn, ExitWithDaemon(c) PROVE Alone'
  BY <1>9 DEF ExitWithDaemon, Goto
<1>10. ASSUME NEW c \in Conn, KillConnect(c) PROVE Alone'
  BY <1>10 DEF KillConnect, Goto, Forget
<1>11. ASSUME NEW c \in Conn, DaemonBinds(c) PROVE Alone'
  BY <1>11 DEF DaemonBinds, PortInUse
<1>12. ASSUME NEW c \in Conn, DaemonQuits(c) PROVE Alone'
  BY <1>12 DEF DaemonQuits
<1>13. ASSUME NEW k \in Cmd, StartList(k) PROVE Alone'
  BY <1>13 DEF StartList, Goto, MayStart
<1>14. ASSUME NEW k \in Cmd, ListRunning(k) PROVE Alone'
  BY <1>14 DEF ListRunning, Goto, Forget
<1>15. ASSUME NEW k \in Cmd, ListNone(k) PROVE Alone'
  BY <1>15 DEF ListNone, Goto, Forget, KillListeners
<1>16. ASSUME NEW k \in Cmd, ListGone(k) PROVE Alone'
  BY <1>16 DEF ListGone, Goto
<1>17. ASSUME NEW k \in Cmd, FreePort(k) PROVE Alone'
  BY <1>17 DEF FreePort, Goto, KillListeners
<1>18. ASSUME NEW k \in Cmd, StartDisconnect(k) PROVE Alone'
  BY <1>18 DEF StartDisconnect, Goto, MayStart
<1>19. ASSUME NEW k \in Cmd, StopRecorded(k) PROVE Alone'
  BY <1>19 DEF StopRecorded, Goto, ShutDown
<1>20. ASSUME NEW k \in Cmd, NothingToStop(k) PROVE Alone'
  BY <1>20 DEF NothingToStop, Goto
<1>21. ASSUME NEW k \in Cmd, ClearPid(k) PROVE Alone'
  BY <1>21 DEF ClearPid, Goto, Forget
<1>22. ASSUME NEW k \in Cmd, KillCommand(k) PROVE Alone'
  BY <1>22 DEF KillCommand, Goto, Forget
<1>23. ASSUME NEW p \in Port, OtherBinds(p) PROVE Alone'
  BY <1>23 DEF OtherBinds, PortInUse
<1>24. ASSUME NEW p \in Port, OtherQuits(p) PROVE Alone'
  BY <1>24 DEF OtherQuits
<1>25. ASSUME NEW c \in Conn, DaemonFallsMute(c) PROVE Alone'
  BY <1>25 DEF DaemonFallsMute
<1>26. CASE UNCHANGED vars
  BY <1>26 DEF vars
<1>27. QED
  BY <1>1, <1>2, <1>3, <1>4, <1>5, <1>6, <1>7, <1>8, <1>9, <1>10, <1>11, <1>12,
      <1>13, <1>14, <1>15, <1>16, <1>17, <1>18, <1>19, <1>20, <1>21, <1>22,
      <1>23, <1>24, <1>25, <1>26 DEF Next, ConnectStep, CommandStep

\* A connect that has not spawned its daemon has none.
Fresh == \A c \in Conn :
  pc[c] \in {"idle", "replacing", "checking", "spawning"} => daemon[c] = "none"

LEMMA FreshStep == TypeOK /\ Fresh /\ [Next]_vars => Fresh'
<1> SUFFICES ASSUME TypeOK, Fresh, [Next]_vars PROVE Fresh'
  OBVIOUS
<1> USE DEF TypeOK, Slot, Zli, Resting, ConnSteps, CmdSteps, Fresh, Alive,
    Listening
<1>1. ASSUME NEW c \in Conn, StartConnect(c) PROVE Fresh'
  BY <1>1 DEF StartConnect, Goto, MayStart
<1>2. ASSUME NEW c \in Conn, StopPrevious(c) PROVE Fresh'
  BY <1>2 DEF StopPrevious, Goto, Forget, ShutDown
<1>3. ASSUME NEW c \in Conn, PortTaken(c) PROVE Fresh'
  BY <1>3 DEF PortTaken, Goto, PortInUse
<1>4. ASSUME NEW c \in Conn, PortFree(c) PROVE Fresh'
  BY <1>4 DEF PortFree, Goto, PortInUse
<1>5. ASSUME NEW c \in Conn, SpawnDaemon(c) PROVE Fresh'
  BY <1>5 DEF SpawnDaemon, Goto
<1>6. ASSUME NEW c \in Conn, SaveSlot(c) PROVE Fresh'
  BY <1>6 DEF SaveSlot, Goto
<1>7. ASSUME NEW c \in Conn, ServerStarted(c) PROVE Fresh'
  BY <1>7 DEF ServerStarted, Goto, PortInUse
<1>8. ASSUME NEW c \in Conn, ServerTimeout(c) PROVE Fresh'
  BY <1>8 DEF ServerTimeout, Goto, PortInUse
<1>9. ASSUME NEW c \in Conn, ExitWithDaemon(c) PROVE Fresh'
  BY <1>9 DEF ExitWithDaemon, Goto
<1>10. ASSUME NEW c \in Conn, KillConnect(c) PROVE Fresh'
  BY <1>10 DEF KillConnect, Goto, Forget
<1>11. ASSUME NEW c \in Conn, DaemonBinds(c) PROVE Fresh'
  BY <1>11 DEF DaemonBinds, PortInUse
<1>12. ASSUME NEW c \in Conn, DaemonQuits(c) PROVE Fresh'
  BY <1>12 DEF DaemonQuits
<1>13. ASSUME NEW k \in Cmd, StartList(k) PROVE Fresh'
  BY <1>13 DEF StartList, Goto, MayStart
<1>14. ASSUME NEW k \in Cmd, ListRunning(k) PROVE Fresh'
  BY <1>14 DEF ListRunning, Goto, Forget
<1>15. ASSUME NEW k \in Cmd, ListNone(k) PROVE Fresh'
  BY <1>15 DEF ListNone, Goto, Forget, KillListeners
<1>16. ASSUME NEW k \in Cmd, ListGone(k) PROVE Fresh'
  BY <1>16 DEF ListGone, Goto
<1>17. ASSUME NEW k \in Cmd, FreePort(k) PROVE Fresh'
  BY <1>17 DEF FreePort, Goto, KillListeners
<1>18. ASSUME NEW k \in Cmd, StartDisconnect(k) PROVE Fresh'
  BY <1>18 DEF StartDisconnect, Goto, MayStart
<1>19. ASSUME NEW k \in Cmd, StopRecorded(k) PROVE Fresh'
  BY <1>19 DEF StopRecorded, Goto, ShutDown
<1>20. ASSUME NEW k \in Cmd, NothingToStop(k) PROVE Fresh'
  BY <1>20 DEF NothingToStop, Goto
<1>21. ASSUME NEW k \in Cmd, ClearPid(k) PROVE Fresh'
  BY <1>21 DEF ClearPid, Goto, Forget
<1>22. ASSUME NEW k \in Cmd, KillCommand(k) PROVE Fresh'
  BY <1>22 DEF KillCommand, Goto, Forget
<1>23. ASSUME NEW p \in Port, OtherBinds(p) PROVE Fresh'
  BY <1>23 DEF OtherBinds, PortInUse
<1>24. ASSUME NEW p \in Port, OtherQuits(p) PROVE Fresh'
  BY <1>24 DEF OtherQuits
<1>25. ASSUME NEW c \in Conn, DaemonFallsMute(c) PROVE Fresh'
  BY <1>25 DEF DaemonFallsMute
<1>26. CASE UNCHANGED vars
  BY <1>26 DEF vars
<1>27. QED
  BY <1>1, <1>2, <1>3, <1>4, <1>5, <1>6, <1>7, <1>8, <1>9, <1>10, <1>11, <1>12,
      <1>13, <1>14, <1>15, <1>16, <1>17, <1>18, <1>19, <1>20, <1>21, <1>22,
      <1>23, <1>24, <1>25, <1>26 DEF Next, ConnectStep, CommandStep

\* What a command read of the slot is still in it.
Reading == {"replacing", "listing", "freeing", "stopping", "clearing"}
ViewHolds == \A p \in Zli : pc[p] \in Reading => view[p].daemon = slot.daemon

LEMMA ViewStep == TypeOK /\ Alone /\ ViewHolds /\ [Next]_vars => ViewHolds'
<1> SUFFICES ASSUME TypeOK, Alone, ViewHolds, [Next]_vars PROVE ViewHolds'
  OBVIOUS
<1> USE DEF TypeOK, Slot, Zli, Resting, ConnSteps, CmdSteps, Alone, Reading,
    ViewHolds
<1>1. ASSUME NEW c \in Conn, StartConnect(c) PROVE ViewHolds'
  BY <1>1 DEF StartConnect, Goto, MayStart
<1>2. ASSUME NEW c \in Conn, StopPrevious(c) PROVE ViewHolds'
  BY <1>2 DEF StopPrevious, Goto, Forget, ShutDown
<1>3. ASSUME NEW c \in Conn, PortTaken(c) PROVE ViewHolds'
  BY <1>3 DEF PortTaken, Goto, PortInUse
<1>4. ASSUME NEW c \in Conn, PortFree(c) PROVE ViewHolds'
  BY <1>4 DEF PortFree, Goto, PortInUse
<1>5. ASSUME NEW c \in Conn, SpawnDaemon(c) PROVE ViewHolds'
  BY <1>5 DEF SpawnDaemon, Goto
<1>6. ASSUME NEW c \in Conn, SaveSlot(c) PROVE ViewHolds'
  BY <1>6 DEF SaveSlot, Goto
<1>7. ASSUME NEW c \in Conn, ServerStarted(c) PROVE ViewHolds'
  BY <1>7 DEF ServerStarted, Goto, PortInUse
<1>8. ASSUME NEW c \in Conn, ServerTimeout(c) PROVE ViewHolds'
  BY <1>8 DEF ServerTimeout, Goto, PortInUse
<1>9. ASSUME NEW c \in Conn, ExitWithDaemon(c) PROVE ViewHolds'
  BY <1>9 DEF ExitWithDaemon, Goto
<1>10. ASSUME NEW c \in Conn, KillConnect(c) PROVE ViewHolds'
  BY <1>10 DEF KillConnect, Goto, Forget
<1>11. ASSUME NEW c \in Conn, DaemonBinds(c) PROVE ViewHolds'
  BY <1>11 DEF DaemonBinds, PortInUse
<1>12. ASSUME NEW c \in Conn, DaemonQuits(c) PROVE ViewHolds'
  BY <1>12 DEF DaemonQuits
<1>13. ASSUME NEW k \in Cmd, StartList(k) PROVE ViewHolds'
  BY <1>13 DEF StartList, Goto, MayStart
<1>14. ASSUME NEW k \in Cmd, ListRunning(k) PROVE ViewHolds'
  BY <1>14 DEF ListRunning, Goto, Forget
<1>15. ASSUME NEW k \in Cmd, ListNone(k) PROVE ViewHolds'
  BY <1>15 DEF ListNone, Goto, Forget, KillListeners
<1>16. ASSUME NEW k \in Cmd, ListGone(k) PROVE ViewHolds'
  BY <1>16 DEF ListGone, Goto
<1>17. ASSUME NEW k \in Cmd, FreePort(k) PROVE ViewHolds'
  BY <1>17 DEF FreePort, Goto, KillListeners
<1>18. ASSUME NEW k \in Cmd, StartDisconnect(k) PROVE ViewHolds'
  BY <1>18 DEF StartDisconnect, Goto, MayStart
<1>19. ASSUME NEW k \in Cmd, StopRecorded(k) PROVE ViewHolds'
  BY <1>19 DEF StopRecorded, Goto, ShutDown
<1>20. ASSUME NEW k \in Cmd, NothingToStop(k) PROVE ViewHolds'
  BY <1>20 DEF NothingToStop, Goto
<1>21. ASSUME NEW k \in Cmd, ClearPid(k) PROVE ViewHolds'
  BY <1>21 DEF ClearPid, Goto, Forget
<1>22. ASSUME NEW k \in Cmd, KillCommand(k) PROVE ViewHolds'
  BY <1>22 DEF KillCommand, Goto, Forget
<1>23. ASSUME NEW p \in Port, OtherBinds(p) PROVE ViewHolds'
  BY <1>23 DEF OtherBinds, PortInUse
<1>24. ASSUME NEW p \in Port, OtherQuits(p) PROVE ViewHolds'
  BY <1>24 DEF OtherQuits
<1>25. ASSUME NEW c \in Conn, DaemonFallsMute(c) PROVE ViewHolds'
  BY <1>25 DEF DaemonFallsMute
<1>26. CASE UNCHANGED vars
  BY <1>26 DEF vars
<1>27. QED
  BY <1>1, <1>2, <1>3, <1>4, <1>5, <1>6, <1>7, <1>8, <1>9, <1>10, <1>11, <1>12,
      <1>13, <1>14, <1>15, <1>16, <1>17, <1>18, <1>19, <1>20, <1>21, <1>22,
      <1>23, <1>24, <1>25, <1>26 DEF Next, ConnectStep, CommandStep

\* Once the previous daemon is dealt with, no other runs that could be stopped,
\* and likewise when a command is about to empty the slot.
Replaced == \A c \in Conn : pc[c] \in {"checking", "spawning", "saving"} =>
  \A d \in Conn : Alive(d) => d \in excused \/ (d = c /\ pc[c] = "saving")
Cleared == \A k \in Cmd : pc[k] \in {"freeing", "clearing"} =>
  \A d \in Conn : Alive(d) => d \in excused

LEMMA ReplacedStep == TypeOK /\ Alone /\ Fresh /\ ViewHolds /\
    WebDaemonRecorded /\ Replaced /\ [Next]_vars => Replaced'
<1> SUFFICES ASSUME TypeOK, Alone, Fresh, ViewHolds, WebDaemonRecorded,
    Replaced, [Next]_vars PROVE Replaced'
  OBVIOUS
<1> USE DEF TypeOK, Slot, Zli, Resting, ConnSteps, CmdSteps, Alone, Fresh,
    Reading, ViewHolds, WebDaemonRecorded, Alive, Replaced
<1>1. ASSUME NEW c \in Conn, StartConnect(c) PROVE Replaced'
  BY <1>1 DEF StartConnect, Goto, MayStart
<1>2. ASSUME NEW c \in Conn, StopPrevious(c) PROVE Replaced'
  BY <1>2 DEF StopPrevious, Goto, Forget, ShutDown
<1>3. ASSUME NEW c \in Conn, PortTaken(c) PROVE Replaced'
  BY <1>3 DEF PortTaken, Goto, PortInUse
<1>4. ASSUME NEW c \in Conn, PortFree(c) PROVE Replaced'
  BY <1>4 DEF PortFree, Goto, PortInUse
<1>5. ASSUME NEW c \in Conn, SpawnDaemon(c) PROVE Replaced'
  BY <1>5 DEF SpawnDaemon, Goto
<1>6. ASSUME NEW c \in Conn, SaveSlot(c) PROVE Replaced'
  BY <1>6 DEF SaveSlot, Goto
<1>7. ASSUME NEW c \in Conn, ServerStarted(c) PROVE Replaced'
  BY <1>7 DEF ServerStarted, Goto, PortInUse
<1>8. ASSUME NEW c \in Conn, ServerTimeout(c) PROVE Replaced'
  BY <1>8 DEF ServerTimeout, Goto, PortInUse
<1>9. ASSUME NEW c \in Conn, ExitWithDaemon(c) PROVE Replaced'
  BY <1>9 DEF ExitWithDaemon, Goto
<1>10. ASSUME NEW c \in Conn, KillConnect(c) PROVE Replaced'
  BY <1>10 DEF KillConnect, Goto, Forget
<1>11. ASSUME NEW c \in Conn, DaemonBinds(c) PROVE Replaced'
  BY <1>11 DEF DaemonBinds, PortInUse
<1>12. ASSUME NEW c \in Conn, DaemonQuits(c) PROVE Replaced'
  BY <1>12 DEF DaemonQuits
<1>13. ASSUME NEW k \in Cmd, StartList(k) PROVE Replaced'
  BY <1>13 DEF StartList, Goto, MayStart
<1>14. ASSUME NEW k \in Cmd, ListRunning(k) PROVE Replaced'
  BY <1>14 DEF ListRunning, Goto, Forget
<1>15. ASSUME NEW k \in Cmd, ListNone(k) PROVE Replaced'
  BY <1>15 DEF ListNone, Goto, Forget, KillListeners
<1>16. ASSUME NEW k \in Cmd, ListGone(k) PROVE Replaced'
  BY <1>16 DEF ListGone, Goto
<1>17. ASSUME NEW k \in Cmd, FreePort(k) PROVE Replaced'
  BY <1>17 DEF FreePort, Goto, KillListeners
<1>18. ASSUME NEW k \in Cmd, StartDisconnect(k) PROVE Replaced'
  BY <1>18 DEF StartDisconnect, Goto, MayStart
<1>19. ASSUME NEW k \in Cmd, StopRecorded(k) PROVE Replaced'
  BY <1>19 DEF StopRecorded, Goto, ShutDown
<1>20. ASSUME NEW k \in Cmd, NothingToStop(k) PROVE Replaced'
  BY <1>20 DEF NothingToStop, Goto
<1>21. ASSUME NEW k \in Cmd, ClearPid(k) PROVE Replaced'
  BY <1>21 DEF ClearPid, Goto, Forget
<1>22. ASSUME NEW k \in Cmd, KillCommand(k) PROVE Replaced'
  BY <1>22 DEF KillCommand, Goto, Forget
<1>23. ASSUME NEW p \in Port, OtherBinds(p) PROVE Replaced'
  BY <1>23 DEF OtherBinds, PortInUse
<1>24. ASSUME NEW p \in Port, OtherQuits(p) PROVE Replaced'
  BY <1>24 DEF OtherQuits
<1>25. ASSUME NEW c \in Conn, DaemonFallsMute(c) PROVE Replaced'
  BY <1>25 DEF DaemonFallsMute
<1>26. CASE UNCHANGED vars
  BY <1>26 DEF vars
<1>27. QED
  BY <1>1, <1>2, <1>3, <1>4, <1>5, <1>6, <1>7, <1>8, <1>9, <1>10, <1>11, <1>12,
      <1>13, <1>14, <1>15, <1>16, <1>17, <1>18, <1>19, <1>20, <1>21, <1>22,
      <1>23, <1>24, <1>25, <1>26 DEF Next, ConnectStep, CommandStep

LEMMA ClearedStep == TypeOK /\ Alone /\ Fresh /\ ViewHolds /\ WebDaemonRecorded
    /\ Cleared /\ [Next]_vars => Cleared'
<1> SUFFICES ASSUME TypeOK, Alone, Fresh, ViewHolds, WebDaemonRecorded,
    Cleared, [Next]_vars PROVE Cleared'
  OBVIOUS
<1> USE DEF TypeOK, Slot, Zli, Resting, ConnSteps, CmdSteps, Alone, Fresh,
    Reading, ViewHolds, WebDaemonRecorded, Alive, Cleared
<1>1. ASSUME NEW c \in Conn, StartConnect(c) PROVE Cleared'
  BY <1>1 DEF StartConnect, Goto, MayStart
<1>2. ASSUME NEW c \in Conn, StopPrevious(c) PROVE Cleared'
  BY <1>2 DEF StopPrevious, Goto, Forget, ShutDown
<1>3. ASSUME NEW c \in Conn, PortTaken(c) PROVE Cleared'
  BY <1>3 DEF PortTaken, Goto, PortInUse
<1>4. ASSUME NEW c \in Conn, PortFree(c) PROVE Cleared'
  BY <1>4 DEF PortFree, Goto, PortInUse
<1>5. ASSUME NEW c \in Conn, SpawnDaemon(c) PROVE Cleared'
  BY <1>5 DEF SpawnDaemon, Goto
<1>6. ASSUME NEW c \in Conn, SaveSlot(c) PROVE Cleared'
  BY <1>6 DEF SaveSlot, Goto
<1>7. ASSUME NEW c \in Conn, ServerStarted(c) PROVE Cleared'
  BY <1>7 DEF ServerStarted, Goto, PortInUse
<1>8. ASSUME NEW c \in Conn, ServerTimeout(c) PROVE Cleared'
  BY <1>8 DEF ServerTimeout, Goto, PortInUse
<1>9. ASSUME NEW c \in Conn, ExitWithDaemon(c) PROVE Cleared'
  BY <1>9 DEF ExitWithDaemon, Goto
<1>10. ASSUME NEW c \in Conn, KillConnect(c) PROVE Cleared'
  BY <1>10 DEF KillConnect, Goto, Forget
<1>11. ASSUME NEW c \in Conn, DaemonBinds(c) PROVE Cleared'
  BY <1>11 DEF DaemonBinds, PortInUse
<1>12. ASSUME NEW c \in Conn, DaemonQuits(c) PROVE Cleared'
  BY <1>12 DEF DaemonQuits
<1>13. ASSUME NEW k \in Cmd, StartList(k) PROVE Cleared'
  BY <1>13 DEF StartList, Goto, MayStart
<1>14. ASSUME NEW k \in Cmd, ListRunning(k) PROVE Cleared'
  BY <1>14 DEF ListRunning, Goto, Forget
<1>15. ASSUME NEW k \in Cmd, ListNone(k) PROVE Cleared'
  BY <1>15 DEF ListNone, Goto, Forget, KillListeners
<1>16. ASSUME NEW k \in Cmd, ListGone(k) PROVE Cleared'
  BY <1>16 DEF ListGone, Goto
<1>17. ASSUME NEW k \in Cmd, FreePort(k) PROVE Cleared'
  BY <1>17 DEF FreePort, Goto, KillListeners
<1>18. ASSUME NEW k \in Cmd, StartDisconnect(k) PROVE Cleared'
  BY <1>18 DEF StartDisconnect, Goto, MayStart
<1>19. ASSUME NEW k \in Cmd, StopRecorded(k) PROVE Cleared'
  BY <1>19 DEF StopRecorded, Goto, ShutDown
<1>20. ASSUME NEW k \in Cmd, NothingToStop(k) PROVE Cleared'
  BY <1>20 DEF NothingToStop, Goto
<1>21. ASSUME NEW k \in Cmd, ClearPid(k) PROVE Cleared'
  BY <1>21 DEF ClearPid, Goto, Forget
<1>22. ASSUME NEW k \in Cmd, KillCommand(k) PROVE Cleared'
  BY <1>22 DEF KillCommand, Goto, Forget
<1>23. ASSUME NEW p \in Port, OtherBinds(p) PROVE Cleared'
  BY <1>23 DEF OtherBinds, PortInUse
<1>24. ASSUME NEW p \in Port, OtherQuits(p) PROVE Cleared'
  BY <1>24 DEF OtherQuits
<1>25. ASSUME NEW c \in Conn, DaemonFallsMute(c) PROVE Cleared'
  BY <1>25 DEF DaemonFallsMute
<1>26. CASE UNCHANGED vars
  BY <1>26 DEF vars
<1>27. QED
  BY <1>1, <1>2, <1>3, <1>4, <1>5, <1>6, <1>7, <1>8, <1>9, <1>10, <1>11, <1>12,
      <1>13, <1>14, <1>15, <1>16, <1>17, <1>18, <1>19, <1>20, <1>21, <1>22,
      <1>23, <1>24, <1>25, <1>26 DEF Next, ConnectStep, CommandStep

LEMMA RecordedStep == TypeOK /\ Alone /\ Fresh /\ ViewHolds /\
    WebDaemonRecorded /\ Replaced /\ Cleared /\ [Next]_vars =>
    WebDaemonRecorded'
<1> SUFFICES ASSUME TypeOK, Alone, Fresh, ViewHolds, WebDaemonRecorded,
    Replaced, Cleared, [Next]_vars PROVE WebDaemonRecorded'
  OBVIOUS
<1> USE DEF TypeOK, Slot, Zli, Resting, ConnSteps, CmdSteps, Alone, Fresh,
    Reading, ViewHolds, WebDaemonRecorded, Alive, Replaced, Cleared
<1>1. ASSUME NEW c \in Conn, StartConnect(c) PROVE WebDaemonRecorded'
  BY <1>1 DEF StartConnect, Goto, MayStart
<1>2. ASSUME NEW c \in Conn, StopPrevious(c) PROVE WebDaemonRecorded'
  BY <1>2 DEF StopPrevious, Goto, Forget, ShutDown
<1>3. ASSUME NEW c \in Conn, PortTaken(c) PROVE WebDaemonRecorded'
  BY <1>3 DEF PortTaken, Goto, PortInUse
<1>4. ASSUME NEW c \in Conn, PortFree(c) PROVE WebDaemonRecorded'
  BY <1>4 DEF PortFree, Goto, PortInUse
<1>5. ASSUME NEW c \in Conn, SpawnDaemon(c) PROVE WebDaemonRecorded'
  BY <1>5 DEF SpawnDaemon, Goto
<1>6. ASSUME NEW c \in Conn, SaveSlot(c) PROVE WebDaemonRecorded'
  BY <1>6 DEF SaveSlot, Goto
<1>7. ASSUME NEW c \in Conn, ServerStarted(c) PROVE WebDaemonRecorded'
  BY <1>7 DEF ServerStarted, Goto, PortInUse
<1>8. ASSUME NEW c \in Conn, ServerTimeout(c) PROVE WebDaemonRecorded'
  BY <1>8 DEF ServerTimeout, Goto, PortInUse
<1>9. ASSUME NEW c \in Conn, ExitWithDaemon(c) PROVE WebDaemonRecorded'
  BY <1>9 DEF ExitWithDaemon, Goto
<1>10. ASSUME NEW c \in Conn, KillConnect(c) PROVE WebDaemonRecorded'
  BY <1>10 DEF KillConnect, Goto, Forget
<1>11. ASSUME NEW c \in Conn, DaemonBinds(c) PROVE WebDaemonRecorded'
  BY <1>11 DEF DaemonBinds, PortInUse
<1>12. ASSUME NEW c \in Conn, DaemonQuits(c) PROVE WebDaemonRecorded'
  BY <1>12 DEF DaemonQuits
<1>13. ASSUME NEW k \in Cmd, StartList(k) PROVE WebDaemonRecorded'
  BY <1>13 DEF StartList, Goto, MayStart
<1>14. ASSUME NEW k \in Cmd, ListRunning(k) PROVE WebDaemonRecorded'
  BY <1>14 DEF ListRunning, Goto, Forget
<1>15. ASSUME NEW k \in Cmd, ListNone(k) PROVE WebDaemonRecorded'
  BY <1>15 DEF ListNone, Goto, Forget, KillListeners
<1>16. ASSUME NEW k \in Cmd, ListGone(k) PROVE WebDaemonRecorded'
  BY <1>16 DEF ListGone, Goto
<1>17. ASSUME NEW k \in Cmd, FreePort(k) PROVE WebDaemonRecorded'
  BY <1>17 DEF FreePort, Goto, KillListeners
<1>18. ASSUME NEW k \in Cmd, StartDisconnect(k) PROVE WebDaemonRecorded'
  BY <1>18 DEF StartDisconnect, Goto, MayStart
<1>19. ASSUME NEW k \in Cmd, StopRecorded(k) PROVE WebDaemonRecorded'
  BY <1>19 DEF StopRecorded, Goto, ShutDown
<1>20. ASSUME NEW k \in Cmd, NothingToStop(k) PROVE WebDaemonRecorded'
  BY <1>20 DEF NothingToStop, Goto
<1>21. ASSUME NEW k \in Cmd, ClearPid(k) PROVE WebDaemonRecorded'
  BY <1>21 DEF ClearPid, Goto, Forget
<1>22. ASSUME NEW k \in Cmd, KillCommand(k) PROVE WebDaemonRecorded'
  BY <1>22 DEF KillCommand, Goto, Forget
<1>23. ASSUME NEW p \in Port, OtherBinds(p) PROVE WebDaemonRecorded'
  BY <1>23 DEF OtherBinds, PortInUse
<1>24. ASSUME NEW p \in Port, OtherQuits(p) PROVE WebDaemonRecorded'
  BY <1>24 DEF OtherQuits
<1>25. ASSUME NEW c \in Conn, DaemonFallsMute(c) PROVE WebDaemonRecorded'
  BY <1>25 DEF DaemonFallsMute
<1>26. CASE UNCHANGED vars
  BY <1>26 DEF vars
<1>27. QED
  BY <1>1, <1>2, <1>3, <1>4, <1>5, <1>6, <1>7, <1>8, <1>9, <1>10, <1>11, <1>12,
      <1>13, <1>14, <1>15, <1>16, <1>17, <1>18, <1>19, <1>20, <1>21, <1>22,
      <1>23, <1>24, <1>25, <1>26 DEF Next, ConnectStep, CommandStep

SlotInv == Alone /\ Fresh /\ ViewHolds /\ WebDaemonRecorded /\ Replaced /\
    Cleared

LEMMA SlotInvAlways == ~Concurrent => (Spec => []SlotInv)
<1> SUFFICES ASSUME ~Concurrent PROVE Spec => []SlotInv
  OBVIOUS
<1>1. Init => SlotInv
  BY DEF Init, SlotInv, Alone, Fresh, ViewHolds, Reading, WebDaemonRecorded,
         Replaced, Cleared, Alive, Resting, Zli
<1>2. TypeOK /\ SlotInv /\ [Next]_vars => SlotInv'
  BY AloneStep, FreshStep, ViewStep, ReplacedStep, ClearedStep, RecordedStep
     DEF SlotInv
<1>3. QED
  BY <1>1, <1>2, TypeCorrect, PTL DEF Spec

\* With one command at a time, the slot names the web daemon that runs, unless
\* that could not be stopped or is just about to be saved.
THEOREM WebRecorded == ~Concurrent => (Spec => []WebDaemonRecorded)
<1> SUFFICES ASSUME ~Concurrent PROVE Spec => []WebDaemonRecorded
  OBVIOUS
<1>1. SlotInv => WebDaemonRecorded
  BY DEF SlotInv
<1>2. QED
  BY <1>1, SlotInvAlways, PTL

\* With one command at a time, a second web daemon runs only when stopping the
\* first one failed.
THEOREM OneWebDaemonAlways == ~Concurrent => (Spec => []OneWebDaemon)
<1> SUFFICES ASSUME ~Concurrent PROVE Spec => []OneWebDaemon
  OBVIOUS
<1>1. SlotInv => OneWebDaemon
  BY DEF SlotInv, WebDaemonRecorded, Replaced, OneWebDaemon
<1>2. QED
  BY <1>1, SlotInvAlways, PTL

-----------------------------------------------------------------------------
(* The installation of the executable, whichever copies fail and whoever is  *)
(* killed or gives up waiting                                                *)

USE InstallAssumption

\* Whoever removes or copies executables holds the lock.
Holder == \A p \in Process : step[p] \in Installing => lock = p

\* While a command removes, copies or permits, the executable of its version
\* is not usable.
NotYetUsable == \A p \in Process :
  step[p] \in {"copying", "writing", "permitting"} => file[VersionOf[p]] # "ready"

InstallInv == InstallTypeOK /\ Holder /\ HalfInstalledHasCause /\ NotYetUsable

StaysUsable == \A v \in Version : file[v] = "ready" /\ file'[v] # "ready" =>
  /\ file'[v] = "absent"
  /\ \E p \in Process : VersionOf[p] # v /\ lock = p

LEMMA InstallStep ==
  ASSUME InstallInv, [InstallNext]_installVars
  PROVE  InstallInv' /\ StaysUsable
<1> USE DEF InstallInv, InstallTypeOK, FileState, Installing, Holder,
            HalfInstalledHasCause, NotYetUsable, StaysUsable, Proceed, Exists
<1>1. ASSUME NEW p \in Process, FindExecutable(p) \/ MissExecutable(p)
      PROVE  InstallInv' /\ StaysUsable
  BY <1>1 DEF FindExecutable, MissExecutable
<1>2. ASSUME NEW p \in Process, AcquireLock(p) PROVE InstallInv' /\ StaysUsable
  BY <1>2 DEF AcquireLock
<1>3. ASSUME NEW p \in Process, LockTimeout(p) PROVE InstallInv' /\ StaysUsable
  BY <1>3 DEF LockTimeout
<1>4. ASSUME NEW p \in Process, FoundInstalled(p) PROVE InstallInv' /\ StaysUsable
  BY <1>4 DEF FoundInstalled
<1>5. ASSUME NEW p \in Process, RemoveOld(p) PROVE InstallInv' /\ StaysUsable
  BY <1>5 DEF RemoveOld
<1>6. ASSUME NEW p \in Process, StartCopy(p) PROVE InstallInv' /\ StaysUsable
  BY <1>6 DEF StartCopy
<1>7. ASSUME NEW p \in Process, FinishCopy(p) PROVE InstallInv' /\ StaysUsable
  BY <1>7 DEF FinishCopy
<1>8. ASSUME NEW p \in Process, InstallFails(p) PROVE InstallInv' /\ StaysUsable
  BY <1>8 DEF InstallFails
<1>9. ASSUME NEW p \in Process, GrantPermission(p) PROVE InstallInv' /\ StaysUsable
  BY <1>9 DEF GrantPermission
<1>10. ASSUME NEW p \in Process, Spawn(p) PROVE InstallInv' /\ StaysUsable
  BY <1>10 DEF Spawn
<1>11. ASSUME NEW p \in Process, Exit(p) PROVE InstallInv' /\ StaysUsable
  BY <1>11 DEF Exit, ReleaseAtExit
<1>12. ASSUME NEW p \in Process, Kill(p) PROVE InstallInv' /\ StaysUsable
  BY <1>12 DEF Kill
<1>13. CASE UNCHANGED installVars
  BY <1>13 DEF installVars
<1> HIDE DEF InstallInv, StaysUsable
<1> QED
  BY <1>1, <1>2, <1>3, <1>4, <1>5, <1>6, <1>7, <1>8, <1>9, <1>10, <1>11, <1>12, <1>13
     DEF InstallNext, Install

LEMMA InstallAlways == InstallSpec => []InstallInv
<1>1. InstallInit => InstallInv
  BY DEF InstallInv, InstallInit, InstallTypeOK, FileState, Installing,
         Holder, HalfInstalledHasCause, NotYetUsable
<1>2. InstallInv /\ [InstallNext]_installVars => InstallInv'
  BY InstallStep
<1> QED BY <1>1, <1>2, PTL DEF InstallSpec

\* Every variable stays in its type: an executable is absent, half written,
\* without permission, or usable.
THEOREM InstallTypeCorrect == InstallSpec => []InstallTypeOK
<1>1. InstallInv => InstallTypeOK
  BY DEF InstallInv
<1> QED BY <1>1, InstallAlways, PTL

\* Two commands never remove or copy executables at the same time: one that
\* gave up waiting no longer does either.
THEOREM OneInstallerAlways == InstallSpec => []OneInstaller
<1>1. InstallInv => OneInstaller
  BY DEF InstallInv, Holder, OneInstaller
<1> QED BY <1>1, InstallAlways, PTL

\* An executable that is not usable is being installed, or its installation
\* was cut short.
THEOREM CauseAlways == InstallSpec => []HalfInstalledHasCause
<1>1. InstallInv => HalfInstalledHasCause
  BY DEF InstallInv
<1> QED BY <1>1, InstallAlways, PTL

\* A usable executable is never written to again, and only the command of
\* another version that holds the lock removes it.
THEOREM UsableAlways == InstallSpec => UsableStaysUsable
<1>1. InstallInv /\ [InstallNext]_installVars =>
        \A v \in Version : file[v] = "ready" /\ file'[v] # "ready" =>
          /\ file'[v] = "absent"
          /\ \E p \in Process : VersionOf[p] # v /\ lock = p
  BY InstallStep DEF StaysUsable
<1> QED BY <1>1, InstallAlways, PTL DEF InstallSpec, UsableStaysUsable
=============================================================================

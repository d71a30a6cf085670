----------------------- MODULE DaemonManagementProofs -----------------------
(* Theorems about DaemonManagement, for any sets of connections, commands    *)
(* and ports, and for daemons that quit and bind at any time.                *)
EXTENDS DaemonManagement, TLAPS

USE ConnAssumption

-----------------------------------------------------------------------------
(* Types *)

LEMMA TypeStep == TypeOK /\ [Next]_vars => TypeOK'
<1> SUFFICES ASSUME TypeOK, [Next]_vars PROVE TypeOK'
  OBVIOUS
<1> USE DEF TypeOK, Zli, Resting, ConnSteps, CmdSteps
<1>1. ASSUME NEW c \in Conn, CreateConnection(c) PROVE TypeOK'
  BY <1>1 DEF CreateConnection, Goto
<1>2. ASSUME NEW c \in Conn, RefuseConnect(c) PROVE TypeOK'
  BY <1>2 DEF RefuseConnect, Goto
<1>3. ASSUME NEW c \in Conn, PassChecks(c) PROVE TypeOK'
  BY <1>3 DEF PassChecks, Goto
<1>4. ASSUME NEW c \in Conn, SpawnDaemon(c) PROVE TypeOK'
  BY <1>4 DEF SpawnDaemon, Goto
<1>5. ASSUME NEW c \in Conn, KubeConfigFails(c) PROVE TypeOK'
  BY <1>5 DEF KubeConfigFails, Goto
<1>6. ASSUME NEW c \in Conn, AddRead(c) PROVE TypeOK'
  BY <1>6 DEF AddRead, Goto
<1>7. ASSUME NEW c \in Conn, AddWrite(c) PROVE TypeOK'
  BY <1>7 DEF AddWrite, Goto
<1>8. ASSUME NEW c \in Conn, ServerStarted(c) PROVE TypeOK'
  BY <1>8 DEF ServerStarted, Goto
<1>9. ASSUME NEW c \in Conn, ServerTimeout(c) PROVE TypeOK'
  BY <1>9 DEF ServerTimeout, Goto
<1>10. ASSUME NEW c \in Conn, StopOwnDaemon(c) PROVE TypeOK'
  BY <1>10 DEF StopOwnDaemon, Goto
<1>11. ASSUME NEW c \in Conn, ExitWithDaemon(c) PROVE TypeOK'
  BY <1>11 DEF ExitWithDaemon, Goto
<1>12. ASSUME NEW c \in Conn, KillConnect(c) PROVE TypeOK'
  BY <1>12 DEF KillConnect, Goto
<1>13. ASSUME NEW c \in Conn, DaemonBinds(c) PROVE TypeOK'
  BY <1>13 DEF DaemonBinds
<1>14. ASSUME NEW c \in Conn, DaemonQuits(c) PROVE TypeOK'
  BY <1>14 DEF DaemonQuits
<1>15. ASSUME NEW k \in Cmd, StartList(k) PROVE TypeOK'
  BY <1>15 DEF StartList, Goto
<1>16. ASSUME NEW k \in Cmd, StartDisconnect(k) PROVE TypeOK'
  BY <1>16 DEF StartDisconnect, Goto
<1>17. ASSUME NEW k \in Cmd, AllSettled(k) PROVE TypeOK'
  BY <1>17 DEF AllSettled, Goto
<1>18. ASSUME NEW k \in Cmd, PurgeRead(k) PROVE TypeOK'
  BY <1>18 DEF PurgeRead, Goto
<1>19. ASSUME NEW k \in Cmd, FinishCommand(k) PROVE TypeOK'
  BY <1>19 DEF FinishCommand, FinishList, FinishDisconnect, Goto
<1>20. ASSUME NEW k \in Cmd, KillCommand(k) PROVE TypeOK'
  BY <1>20 DEF KillCommand, Goto
<1>21. ASSUME NEW k \in Cmd, NEW d \in Conn, ListRunning(k, d) PROVE TypeOK'
  BY <1>21 DEF ListRunning
<1>22. ASSUME NEW k \in Cmd, NEW d \in Conn, ListGone(k, d) PROVE TypeOK'
  BY <1>22 DEF ListGone, Goto
<1>23. ASSUME NEW k \in Cmd, NEW d \in Conn, Unlist(k, d) PROVE TypeOK'
  BY <1>23 DEF Unlist, Goto
<1>24. ASSUME NEW k \in Cmd, NEW d \in Conn, ShutDownSucceeds(k, d) PROVE
    TypeOK'
  BY <1>24 DEF ShutDownSucceeds
<1>25. ASSUME NEW k \in Cmd, NEW d \in Conn, ShutDownFails(k, d) PROVE TypeOK'
  BY <1>25 DEF ShutDownFails
<1>26. ASSUME NEW k \in Cmd, NEW d \in Conn, Erase(k, d) PROVE TypeOK'
  BY <1>26 DEF Erase, Goto
<1>27. ASSUME NEW c \in Conn, DaemonFallsMute(c) PROVE TypeOK'
  BY <1>27 DEF DaemonFallsMute
<1>28. ASSUME NEW p \in Ports, OtherBinds(p) PROVE TypeOK'
  BY <1>28 DEF OtherBinds
<1>29. ASSUME NEW p \in Ports, OtherLeaves(p) PROVE TypeOK'
  BY <1>29 DEF OtherLeaves
<1>30. CASE UNCHANGED vars
  BY <1>30 DEF vars
<1>31. QED
  BY <1>1, <1>2, <1>3, <1>4, <1>5, <1>6, <1>7, <1>8, <1>9, <1>10, <1>11, <1>12,
      <1>13, <1>14, <1>15, <1>16, <1>17, <1>18, <1>19, <1>20, <1>21, <1>22,
      <1>23, <1>24, <1>25, <1>26, <1>27, <1>28,
      <1>29, <1>30 DEF Next, ConnectStep, CommandStep

\* Every variable stays in its type: among others, an entry is only ever made
\* under a connection id that exists.
THEOREM TypeCorrect == Spec => []TypeOK
<1>1. Init => TypeOK
  BY DEF Init, TypeOK, Zli, Resting
<1>2. QED
  BY <1>1, TypeStep, PTL DEF Spec

-----------------------------------------------------------------------------
(* What holds however the commands interleave *)

\* Until its daemon is spawned, a connection id is in no store and no snapshot.
Fresh == \A c \in Conn : pc[c] \in {"idle", "created", "ready"} =>
  /\ daemon[c] = "none"
  /\ c \notin store
  /\ \A p \in Zli : c \notin view[p]
  /\ \A k \in Cmd : c \notin todo[k] \cup pending[k]

LEMMA FreshStep == TypeOK /\ Fresh /\ [Next]_vars => Fresh'
<1> SUFFICES ASSUME TypeOK, Fresh, [Next]_vars PROVE Fresh'
  OBVIOUS
<1> USE DEF TypeOK, Zli, Resting, ConnSteps, CmdSteps, Fresh
<1>1. ASSUME NEW c \in Conn, CreateConnection(c) PROVE Fresh'
  BY <1>1 DEF CreateConnection, Goto
<1>2. ASSUME NEW c \in Conn, RefuseConnect(c) PROVE Fresh'
  BY <1>2 DEF RefuseConnect, Goto
<1>3. ASSUME NEW c \in Conn, PassChecks(c) PROVE Fresh'
  BY <1>3 DEF PassChecks, Goto
<1>4. ASSUME NEW c \in Conn, SpawnDaemon(c) PROVE Fresh'
  BY <1>4 DEF SpawnDaemon, Goto
<1>5. ASSUME NEW c \in Conn, KubeConfigFails(c) PROVE Fresh'
  BY <1>5 DEF KubeConfigFails, Goto
<1>6. ASSUME NEW c \in Conn, AddRead(c) PROVE Fresh'
  BY <1>6 DEF AddRead, Goto
<1>7. ASSUME NEW c \in Conn, AddWrite(c) PROVE Fresh'
  BY <1>7 DEF AddWrite, Goto
<1>8. ASSUME NEW c \in Conn, ServerStarted(c) PROVE Fresh'
  BY <1>8 DEF ServerStarted, Goto
<1>9. ASSUME NEW c \in Conn, ServerTimeout(c) PROVE Fresh'
  BY <1>9 DEF ServerTimeout, Goto
<1>10. ASSUME NEW c \in Conn, StopOwnDaemon(c) PROVE Fresh'
  BY <1>10 DEF StopOwnDaemon, Goto
<1>11. ASSUME NEW c \in Conn, ExitWithDaemon(c) PROVE Fresh'
  BY <1>11 DEF ExitWithDaemon, Goto, Alive
<1>12. ASSUME NEW c \in Conn, KillConnect(c) PROVE Fresh'
  BY <1>12 DEF KillConnect, Goto
<1>13. ASSUME NEW c \in Conn, DaemonBinds(c) PROVE Fresh'
  BY <1>13 DEF DaemonBinds
<1>14. ASSUME NEW c \in Conn, DaemonQuits(c) PROVE Fresh'
  BY <1>14 DEF DaemonQuits, Alive
<1>15. ASSUME NEW k \in Cmd, StartList(k) PROVE Fresh'
  BY <1>15 DEF StartList, Goto
<1>16. ASSUME NEW k \in Cmd, StartDisconnect(k) PROVE Fresh'
  BY <1>16 DEF StartDisconnect, Goto
<1>17. ASSUME NEW k \in Cmd, AllSettled(k) PROVE Fresh'
  BY <1>17 DEF AllSettled, Goto
<1>18. ASSUME NEW k \in Cmd, PurgeRead(k) PROVE Fresh'
  BY <1>18 DEF PurgeRead, Goto
<1>19. ASSUME NEW k \in Cmd, FinishCommand(k) PROVE Fresh'
  BY <1>19 DEF FinishCommand, FinishList, FinishDisconnect, Goto
<1>20. ASSUME NEW k \in Cmd, KillCommand(k) PROVE Fresh'
  BY <1>20 DEF KillCommand, Goto
<1>21. ASSUME NEW k \in Cmd, NEW d \in Conn, ListRunning(k, d) PROVE Fresh'
  BY <1>21 DEF ListRunning
<1>22. ASSUME NEW k \in Cmd, NEW d \in Conn, ListGone(k, d) PROVE Fresh'
  BY <1>22 DEF ListGone, Goto
<1>23. ASSUME NEW k \in Cmd, NEW d \in Conn, Unlist(k, d) PROVE Fresh'
  BY <1>23 DEF Unlist, Goto
<1>24. ASSUME NEW k \in Cmd, NEW d \in Conn, ShutDownSucceeds(k, d) PROVE
    Fresh'
  BY <1>24 DEF ShutDownSucceeds
<1>25. ASSUME NEW k \in Cmd, NEW d \in Conn, ShutDownFails(k, d) PROVE Fresh'
  BY <1>25 DEF ShutDownFails
<1>26. ASSUME NEW k \in Cmd, NEW d \in Conn, Erase(k, d) PROVE Fresh'
  BY <1>26 DEF Erase, Goto
<1>27. ASSUME NEW c \in Conn, DaemonFallsMute(c) PROVE Fresh'
  BY <1>27 DEF DaemonFallsMute
<1>28. ASSUME NEW p \in Ports, OtherBinds(p) PROVE Fresh'
  BY <1>28 DEF OtherBinds
<1>29. ASSUME NEW p \in Ports, OtherLeaves(p) PROVE Fresh'
  BY <1>29 DEF OtherLeaves
<1>30. CASE UNCHANGED vars
  BY <1>30 DEF vars
<1>31. QED
  BY <1>1, <1>2, <1>3, <1>4, <1>5, <1>6, <1>7, <1>8, <1>9, <1>10, <1>11, <1>12,
      <1>13, <1>14, <1>15, <1>16, <1>17, <1>18, <1>19, <1>20, <1>21, <1>22,
      <1>23, <1>24, <1>25, <1>26, <1>27, <1>28,
      <1>29, <1>30 DEF Next, ConnectStep, CommandStep

\* While a disconnect waits, a daemon of its snapshot that runs is one whose
\* shut down has not settled, or has thrown; afterwards only the latter.
Settling == \A k \in Cmd : pc[k] = "shutting" =>
  \A d \in todo[k] : Alive(d) => d \in pending[k] \cup excused

Stopped == Settling /\ PurgedDaemonsAreStopped

LEMMA StoppedStep == TypeOK /\ Fresh /\ Stopped /\ [Next]_vars => Stopped'
<1> SUFFICES ASSUME TypeOK, Fresh, Stopped, [Next]_vars PROVE Stopped'
  OBVIOUS
<1> USE DEF TypeOK, Zli, Resting, ConnSteps, CmdSteps, Alive, Fresh, Stopped,
    Settling, PurgedDaemonsAreStopped
<1>1. ASSUME NEW c \in Conn, CreateConnection(c) PROVE Stopped'
  BY <1>1 DEF CreateConnection, Goto
<1>2. ASSUME NEW c \in Conn, RefuseConnect(c) PROVE Stopped'
  BY <1>2 DEF RefuseConnect, Goto
<1>3. ASSUME NEW c \in Conn, PassChecks(c) PROVE Stopped'
  BY <1>3 DEF PassChecks, Goto
<1>4. ASSUME NEW c \in Conn, SpawnDaemon(c) PROVE Stopped'
  BY <1>4 DEF SpawnDaemon, Goto
<1>5. ASSUME NEW c \in Conn, KubeConfigFails(c) PROVE Stopped'
  BY <1>5 DEF KubeConfigFails, Goto
<1>6. ASSUME NEW c \in Conn, AddRead(c) PROVE Stopped'
  BY <1>6 DEF AddRead, Goto
<1>7. ASSUME NEW c \in Conn, AddWrite(c) PROVE Stopped'
  BY <1>7 DEF AddWrite, Goto
<1>8. ASSUME NEW c \in Conn, ServerStarted(c) PROVE Stopped'
  BY <1>8 DEF ServerStarted, Goto
<1>9. ASSUME NEW c \in Conn, ServerTimeout(c) PROVE Stopped'
  BY <1>9 DEF ServerTimeout, Goto
<1>10. ASSUME NEW c \in Conn, StopOwnDaemon(c) PROVE Stopped'
  BY <1>10 DEF StopOwnDaemon, Goto
<1>11. ASSUME NEW c \in Conn, ExitWithDaemon(c) PROVE Stopped'
  BY <1>11 DEF ExitWithDaemon, Goto
<1>12. ASSUME NEW c \in Conn, KillConnect(c) PROVE Stopped'
  BY <1>12 DEF KillConnect, Goto
<1>13. ASSUME NEW c \in Conn, DaemonBinds(c) PROVE Stopped'
  BY <1>13 DEF DaemonBinds
<1>14. ASSUME NEW c \in Conn, DaemonQuits(c) PROVE Stopped'
  BY <1>14 DEF DaemonQuits
<1>15. ASSUME NEW k \in Cmd, StartList(k) PROVE Stopped'
  BY <1>15 DEF StartList, Goto
<1>16. ASSUME NEW k \in Cmd, StartDisconnect(k) PROVE Stopped'
  BY <1>16 DEF StartDisconnect, Goto
<1>17. ASSUME NEW k \in Cmd, AllSettled(k) PROVE Stopped'
  BY <1>17 DEF AllSettled, Goto
<1>18. ASSUME NEW k \in Cmd, PurgeRead(k) PROVE Stopped'
  BY <1>18 DEF PurgeRead, Goto
<1>19. ASSUME NEW k \in Cmd, FinishCommand(k) PROVE Stopped'
  BY <1>19 DEF FinishCommand, FinishList, FinishDisconnect, Goto
<1>20. ASSUME NEW k \in Cmd, KillCommand(k) PROVE Stopped'
  BY <1>20 DEF KillCommand, Goto
<1>21. ASSUME NEW k \in Cmd, NEW d \in Conn, ListRunning(k, d) PROVE Stopped'
  BY <1>21 DEF ListRunning
<1>22. ASSUME NEW k \in Cmd, NEW d \in Conn, ListGone(k, d) PROVE Stopped'
  BY <1>22 DEF ListGone, Goto
<1>23. ASSUME NEW k \in Cmd, NEW d \in Conn, Unlist(k, d) PROVE Stopped'
  BY <1>23 DEF Unlist, Goto
<1>24. ASSUME NEW k \in Cmd, NEW d \in Conn, ShutDownSucceeds(k, d) PROVE
    Stopped'
  BY <1>24 DEF ShutDownSucceeds
<1>25. ASSUME NEW k \in Cmd, NEW d \in Conn, ShutDownFails(k, d) PROVE Stopped'
  BY <1>25 DEF ShutDownFails
<1>26. ASSUME NEW k \in Cmd, NEW d \in Conn, Erase(k, d) PROVE Stopped'
  BY <1>26 DEF Erase, Goto
<1>27. ASSUME NEW c \in Conn, DaemonFallsMute(c) PROVE Stopped'
  BY <1>27 DEF DaemonFallsMute
<1>28. ASSUME NEW p \in Ports, OtherBinds(p) PROVE Stopped'
  BY <1>28 DEF OtherBinds
<1>29. ASSUME NEW p \in Ports, OtherLeaves(p) PROVE Stopped'
  BY <1>29 DEF OtherLeaves
<1>30. CASE UNCHANGED vars
  BY <1>30 DEF vars
<1>31. QED
  BY <1>1, <1>2, <1>3, <1>4, <1>5, <1>6, <1>7, <1>8, <1>9, <1>10, <1>11, <1>12,
      <1>13, <1>14, <1>15, <1>16, <1>17, <1>18, <1>19, <1>20, <1>21, <1>22,
      <1>23, <1>24, <1>25, <1>26, <1>27, <1>28,
      <1>29, <1>30 DEF Next, ConnectStep, CommandStep

LEMMA FailedStep == ~RecordFirst /\ TypeOK /\ Fresh /\
    FailedConnectsLeaveNoDaemon /\ [Next]_vars => FailedConnectsLeaveNoDaemon'
<1> SUFFICES ASSUME ~RecordFirst, TypeOK, Fresh, FailedConnectsLeaveNoDaemon,
    [Next]_vars PROVE FailedConnectsLeaveNoDaemon'
  OBVIOUS
<1> USE DEF TypeOK, Zli, Resting, ConnSteps, CmdSteps, Alive, Fresh,
    FailedConnectsLeaveNoDaemon
<1>1. ASSUME NEW c \in Conn, CreateConnection(c) PROVE
    FailedConnectsLeaveNoDaemon'
  BY <1>1 DEF CreateConnection, Goto
<1>2. ASSUME NEW c \in Conn, RefuseConnect(c) PROVE
    FailedConnectsLeaveNoDaemon'
  BY <1>2 DEF RefuseConnect, Goto
<1>3. ASSUME NEW c \in Conn, PassChecks(c) PROVE FailedConnectsLeaveNoDaemon'
  BY <1>3 DEF PassChecks, Goto
<1>4. ASSUME NEW c \in Conn, SpawnDaemon(c) PROVE FailedConnectsLeaveNoDaemon'
  BY <1>4 DEF SpawnDaemon, Goto
<1>5. ASSUME NEW c \in Conn, KubeConfigFails(c) PROVE
    FailedConnectsLeaveNoDaemon'
  BY <1>5 DEF KubeConfigFails, Goto
<1>6. ASSUME NEW c \in Conn, AddRead(c) PROVE FailedConnectsLeaveNoDaemon'
  BY <1>6 DEF AddRead, Goto
<1>7. ASSUME NEW c \in Conn, AddWrite(c) PROVE FailedConnectsLeaveNoDaemon'
  BY <1>7 DEF AddWrite, Goto
<1>8. ASSUME NEW c \in Conn, ServerStarted(c) PROVE
    FailedConnectsLeaveNoDaemon'
  BY <1>8 DEF ServerStarted, Goto
<1>9. ASSUME NEW c \in Conn, ServerTimeout(c) PROVE
    FailedConnectsLeaveNoDaemon'
  BY <1>9 DEF ServerTimeout, Goto
<1>10. ASSUME NEW c \in Conn, StopOwnDaemon(c) PROVE
    FailedConnectsLeaveNoDaemon'
  BY <1>10 DEF StopOwnDaemon, Goto
<1>11. ASSUME NEW c \in Conn, ExitWithDaemon(c) PROVE
    FailedConnectsLeaveNoDaemon'
  BY <1>11 DEF ExitWithDaemon, Goto
<1>12. ASSUME NEW c \in Conn, KillConnect(c) PROVE FailedConnectsLeaveNoDaemon'
  BY <1>12 DEF KillConnect, Goto
<1>13. ASSUME NEW c \in Conn, DaemonBinds(c) PROVE FailedConnectsLeaveNoDaemon'
  BY <1>13 DEF DaemonBinds
<1>14. ASSUME NEW c \in Conn, DaemonQuits(c) PROVE FailedConnectsLeaveNoDaemon'
  BY <1>14 DEF DaemonQuits
<1>15. ASSUME NEW k \in Cmd, StartList(k) PROVE FailedConnectsLeaveNoDaemon'
  BY <1>15 DEF StartList, Goto
<1>16. ASSUME NEW k \in Cmd, StartDisconnect(k) PROVE
    FailedConnectsLeaveNoDaemon'
  BY <1>16 DEF StartDisconnect, Goto
<1>17. ASSUME NEW k \in Cmd, AllSettled(k) PROVE FailedConnectsLeaveNoDaemon'
  BY <1>17 DEF AllSettled, Goto
<1>18. ASSUME NEW k \in Cmd, PurgeRead(k) PROVE FailedConnectsLeaveNoDaemon'
  BY <1>18 DEF PurgeRead, Goto
<1>19. ASSUME NEW k \in Cmd, FinishCommand(k) PROVE
    FailedConnectsLeaveNoDaemon'
  BY <1>19 DEF FinishCommand, FinishList, FinishDisconnect, Goto
<1>20. ASSUME NEW k \in Cmd, KillCommand(k) PROVE FailedConnectsLeaveNoDaemon'
  BY <1>20 DEF KillCommand, Goto
<1>21. ASSUME NEW k \in Cmd, NEW d \in Conn, ListRunning(k, d) PROVE
    FailedConnectsLeaveNoDaemon'
  BY <1>21 DEF ListRunning
<1>22. ASSUME NEW k \in Cmd, NEW d \in Conn, ListGone(k, d) PROVE
    FailedConnectsLeaveNoDaemon'
  BY <1>22 DEF ListGone, Goto
<1>23. ASSUME NEW k \in Cmd, NEW d \in Conn, Unlist(k, d) PROVE
    FailedConnectsLeaveNoDaemon'
  BY <1>23 DEF Unlist, Goto
<1>24. ASSUME NEW k \in Cmd, NEW d \in Conn, ShutDownSucceeds(k, d) PROVE
    FailedConnectsLeaveNoDaemon'
  BY <1>24 DEF ShutDownSucceeds
<1>25. ASSUME NEW k \in Cmd, NEW d \in Conn, ShutDownFails(k, d) PROVE
    FailedConnectsLeaveNoDaemon'
  BY <1>25 DEF ShutDownFails
<1>26. ASSUME NEW k \in Cmd, NEW d \in Conn, Erase(k, d) PROVE
    FailedConnectsLeaveNoDaemon'
  BY <1>26 DEF Erase, Goto
<1>27. ASSUME NEW c \in Conn, DaemonFallsMute(c) PROVE FailedConnectsLeaveNoDaemon'
  BY <1>27 DEF DaemonFallsMute
<1>28. ASSUME NEW p \in Ports, OtherBinds(p) PROVE FailedConnectsLeaveNoDaemon'
  BY <1>28 DEF OtherBinds
<1>29. ASSUME NEW p \in Ports, OtherLeaves(p) PROVE FailedConnectsLeaveNoDaemon'
  BY <1>29 DEF OtherLeaves
<1>30. CASE UNCHANGED vars
  BY <1>30 DEF vars
<1>31. QED
  BY <1>1, <1>2, <1>3, <1>4, <1>5, <1>6, <1>7, <1>8, <1>9, <1>10, <1>11, <1>12,
      <1>13, <1>14, <1>15, <1>16, <1>17, <1>18, <1>19, <1>20, <1>21, <1>22,
      <1>23, <1>24, <1>25, <1>26, <1>27, <1>28,
      <1>29, <1>30 DEF Next, ConnectStep, CommandStep

LEMMA GeneralInit == Init => TypeOK /\ Fresh /\ Stopped /\
    FailedConnectsLeaveNoDaemon
  BY DEF Init, TypeOK, Zli, Resting, Fresh, Stopped, Settling,
         PurgedDaemonsAreStopped, FailedConnectsLeaveNoDaemon

LEMMA FreshAlways == Spec => []Fresh
  BY GeneralInit, TypeCorrect, FreshStep, PTL DEF Spec

\* However zli commands interleave, disconnectAllDaemons deletes the entry of a
\* running daemon only if the attempt to stop that daemon threw.
THEOREM PurgedStopped == Spec => []PurgedDaemonsAreStopped
<1>1. Spec => []Stopped
  BY GeneralInit, TypeCorrect, FreshAlways, StoppedStep, PTL DEF Spec
<1>2. Stopped => PurgedDaemonsAreStopped
  BY DEF Stopped
<1>3. QED
  BY <1>1, <1>2, PTL

\* However zli commands interleave, a db, rdp or sqlserver connect that fails
\* leaves no daemon running, unless the attempt to stop it threw.
THEOREM FailedConnectClean == ~RecordFirst => (Spec =>
    []FailedConnectsLeaveNoDaemon)
<1> SUFFICES ASSUME ~RecordFirst PROVE Spec => []FailedConnectsLeaveNoDaemon
  OBVIOUS
<1>1. TypeOK /\ Fresh /\ FailedConnectsLeaveNoDaemon /\ [Next]_vars
        => FailedConnectsLeaveNoDaemon'
  BY FailedStep
<1>2. QED
  BY <1>1, GeneralInit, TypeCorrect, FreshAlways, PTL DEF Spec

\* Outside kube an entry follows its connect: before that command ends, its id
\* is in no store and no snapshot.
Unrecorded == \A c \in Conn : pc[c] \in ConnSteps \cup {"idle"} =>
  /\ c \notin store
  /\ \A p \in Zli : c \notin view[p]

LEMMA UnrecordedStep == ~RecordFirst /\ TypeOK /\ Unrecorded /\ [Next]_vars =>
    Unrecorded'
<1> SUFFICES ASSUME ~RecordFirst, TypeOK, Unrecorded, [Next]_vars PROVE
    Unrecorded'
  OBVIOUS
<1> USE DEF TypeOK, Zli, Resting, ConnSteps, CmdSteps, Unrecorded
<1>1. ASSUME NEW c \in Conn, CreateConnection(c) PROVE Unrecorded'
  BY <1>1 DEF CreateConnection, Goto
<1>2. ASSUME NEW c \in Conn, RefuseConnect(c) PROVE Unrecorded'
  BY <1>2 DEF RefuseConnect, Goto
<1>3. ASSUME NEW c \in Conn, PassChecks(c) PROVE Unrecorded'
  BY <1>3 DEF PassChecks, Goto
<1>4. ASSUME NEW c \in Conn, SpawnDaemon(c) PROVE Unrecorded'
  BY <1>4 DEF SpawnDaemon, Goto
<1>5. ASSUME NEW c \in Conn, KubeConfigFails(c) PROVE Unrecorded'
  BY <1>5 DEF KubeConfigFails, Goto
<1>6. ASSUME NEW c \in Conn, AddRead(c) PROVE Unrecorded'
  BY <1>6 DEF AddRead, Goto
<1>7. ASSUME NEW c \in Conn, AddWrite(c) PROVE Unrecorded'
  BY <1>7 DEF AddWrite, Goto
<1>8. ASSUME NEW c \in Conn, ServerStarted(c) PROVE Unrecorded'
  BY <1>8 DEF ServerStarted, Goto
<1>9. ASSUME NEW c \in Conn, ServerTimeout(c) PROVE Unrecorded'
  BY <1>9 DEF ServerTimeout, Goto
<1>10. ASSUME NEW c \in Conn, StopOwnDaemon(c) PROVE Unrecorded'
  BY <1>10 DEF StopOwnDaemon, Goto
<1>11. ASSUME NEW c \in Conn, ExitWithDaemon(c) PROVE Unrecorded'
  BY <1>11 DEF ExitWithDaemon, Goto
<1>12. ASSUME NEW c \in Conn, KillConnect(c) PROVE Unrecorded'
  BY <1>12 DEF KillConnect, Goto
<1>13. ASSUME NEW c \in Conn, DaemonBinds(c) PROVE Unrecorded'
  BY <1>13 DEF DaemonBinds
<1>14. ASSUME NEW c \in Conn, DaemonQuits(c) PROVE Unrecorded'
  BY <1>14 DEF DaemonQuits
<1>15. ASSUME NEW k \in Cmd, StartList(k) PROVE Unrecorded'
  BY <1>15 DEF StartList, Goto
<1>16. ASSUME NEW k \in Cmd, StartDisconnect(k) PROVE Unrecorded'
  BY <1>16 DEF StartDisconnect, Goto
<1>17. ASSUME NEW k \in Cmd, AllSettled(k) PROVE Unrecorded'
  BY <1>17 DEF AllSettled, Goto
<1>18. ASSUME NEW k \in Cmd, PurgeRead(k) PROVE Unrecorded'
  BY <1>18 DEF PurgeRead, Goto
<1>19. ASSUME NEW k \in Cmd, FinishCommand(k) PROVE Unrecorded'
  BY <1>19 DEF FinishCommand, FinishList, FinishDisconnect, Goto
<1>20. ASSUME NEW k \in Cmd, KillCommand(k) PROVE Unrecorded'
  BY <1>20 DEF KillCommand, Goto
<1>21. ASSUME NEW k \in Cmd, NEW d \in Conn, ListRunning(k, d) PROVE
    Unrecorded'
  BY <1>21 DEF ListRunning
<1>22. ASSUME NEW k \in Cmd, NEW d \in Conn, ListGone(k, d) PROVE Unrecorded'
  BY <1>22 DEF ListGone, Goto
<1>23. ASSUME NEW k \in Cmd, NEW d \in Conn, Unlist(k, d) PROVE Unrecorded'
  BY <1>23 DEF Unlist, Goto
<1>24. ASSUME NEW k \in Cmd, NEW d \in Conn, ShutDownSucceeds(k, d) PROVE
    Unrecorded'
  BY <1>24 DEF ShutDownSucceeds
<1>25. ASSUME NEW k \in Cmd, NEW d \in Conn, ShutDownFails(k, d) PROVE
    Unrecorded'
  BY <1>25 DEF ShutDownFails
<1>26. ASSUME NEW k \in Cmd, NEW d \in Conn, Erase(k, d) PROVE Unrecorded'
  BY <1>26 DEF Erase, Goto
<1>27. ASSUME NEW c \in Conn, DaemonFallsMute(c) PROVE Unrecorded'
  BY <1>27 DEF DaemonFallsMute
<1>28. ASSUME NEW p \in Ports, OtherBinds(p) PROVE Unrecorded'
  BY <1>28 DEF OtherBinds
<1>29. ASSUME NEW p \in Ports, OtherLeaves(p) PROVE Unrecorded'
  BY <1>29 DEF OtherLeaves
<1>30. CASE UNCHANGED vars
  BY <1>30 DEF vars
<1>31. QED
  BY <1>1, <1>2, <1>3, <1>4, <1>5, <1>6, <1>7, <1>8, <1>9, <1>10, <1>11, <1>12,
      <1>13, <1>14, <1>15, <1>16, <1>17, <1>18, <1>19, <1>20, <1>21, <1>22,
      <1>23, <1>24, <1>25, <1>26, <1>27, <1>28,
      <1>29, <1>30 DEF Next, ConnectStep, CommandStep

-----------------------------------------------------------------------------
(* One command at a time *)

OneActive == \A p, q \in Zli :
  pc[p] \notin Resting /\ pc[q] \notin Resting => p = q

LEMMA OneActiveStep == ~Concurrent /\ TypeOK /\ OneActive /\ [Next]_vars =>
    OneActive'
<1> SUFFICES ASSUME ~Concurrent, TypeOK, OneActive, [Next]_vars PROVE
    OneActive'
  OBVIOUS
<1> USE DEF TypeOK, Zli, Resting, ConnSteps, CmdSteps, OneActive, MayStart
<1>1. ASSUME NEW c \in Conn, CreateConnection(c) PROVE OneActive'
  BY <1>1 DEF CreateConnection, Goto
<1>2. ASSUME NEW c \in Conn, RefuseConnect(c) PROVE OneActive'
  BY <1>2 DEF RefuseConnect, Goto
<1>3. ASSUME NEW c \in Conn, PassChecks(c) PROVE OneActive'
  BY <1>3 DEF PassChecks, Goto
<1>4. ASSUME NEW c \in Conn, SpawnDaemon(c) PROVE OneActive'
  BY <1>4 DEF SpawnDaemon, Goto
<1>5. ASSUME NEW c \in Conn, KubeConfigFails(c) PROVE OneActive'
  BY <1>5 DEF KubeConfigFails, Goto
<1>6. ASSUME NEW c \in Conn, AddRead(c) PROVE OneActive'
  BY <1>6 DEF AddRead, Goto
<1>7. ASSUME NEW c \in Conn, AddWrite(c) PROVE OneActive'
  BY <1>7 DEF AddWrite, Goto
<1>8. ASSUME NEW c \in Conn, ServerStarted(c) PROVE OneActive'
  BY <1>8 DEF ServerStarted, Goto
<1>9. ASSUME NEW c \in Conn, ServerTimeout(c) PROVE OneActive'
  BY <1>9 DEF ServerTimeout, Goto
<1>10. ASSUME NEW c \in Conn, StopOwnDaemon(c) PROVE OneActive'
  BY <1>10 DEF StopOwnDaemon, Goto
<1>11. ASSUME NEW c \in Conn, ExitWithDaemon(c) PROVE OneActive'
  BY <1>11 DEF ExitWithDaemon, Goto
<1>12. ASSUME NEW c \in Conn, KillConnect(c) PROVE OneActive'
  BY <1>12 DEF KillConnect, Goto
<1>13. ASSUME NEW c \in Conn, DaemonBinds(c) PROVE OneActive'
  BY <1>13 DEF DaemonBinds
<1>14. ASSUME NEW c \in Conn, DaemonQuits(c) PROVE OneActive'
  BY <1>14 DEF DaemonQuits
<1>15. ASSUME NEW k \in Cmd, StartList(k) PROVE OneActive'
  BY <1>15 DEF StartList, Goto
<1>16. ASSUME NEW k \in Cmd, StartDisconnect(k) PROVE OneActive'
  BY <1>16 DEF StartDisconnect, Goto
<1>17. ASSUME NEW k \in Cmd, AllSettled(k) PROVE OneActive'
  BY <1>17 DEF AllSettled, Goto
<1>18. ASSUME NEW k \in Cmd, PurgeRead(k) PROVE OneActive'
  BY <1>18 DEF PurgeRead, Goto
<1>19. ASSUME NEW k \in Cmd, FinishCommand(k) PROVE OneActive'
  BY <1>19 DEF FinishCommand, FinishList, FinishDisconnect, Goto
<1>20. ASSUME NEW k \in Cmd, KillCommand(k) PROVE OneActive'
  BY <1>20 DEF KillCommand, Goto
<1>21. ASSUME NEW k \in Cmd, NEW d \in Conn, ListRunning(k, d) PROVE OneActive'
  BY <1>21 DEF ListRunning
<1>22. ASSUME NEW k \in Cmd, NEW d \in Conn, ListGone(k, d) PROVE OneActive'
  BY <1>22 DEF ListGone, Goto
<1>23. ASSUME NEW k \in Cmd, NEW d \in Conn, Unlist(k, d) PROVE OneActive'
  BY <1>23 DEF Unlist, Goto
<1>24. ASSUME NEW k \in Cmd, NEW d \in Conn, ShutDownSucceeds(k, d) PROVE
    OneActive'
  BY <1>24 DEF ShutDownSucceeds
<1>25. ASSUME NEW k \in Cmd, NEW d \in Conn, ShutDownFails(k, d) PROVE
    OneActive'
  BY <1>25 DEF ShutDownFails
<1>26. ASSUME NEW k \in Cmd, NEW d \in Conn, Erase(k, d) PROVE OneActive'
  BY <1>26 DEF Erase, Goto
<1>27. ASSUME NEW c \in Conn, DaemonFallsMute(c) PROVE OneActive'
  BY <1>27 DEF DaemonFallsMute
<1>28. ASSUME NEW p \in Ports, OtherBinds(p) PROVE OneActive'
  BY <1>28 DEF OtherBinds
<1>29. ASSUME NEW p \in Ports, OtherLeaves(p) PROVE OneActive'
  BY <1>29 DEF OtherLeaves
<1>30. CASE UNCHANGED vars
  BY <1>30 DEF vars
<1>31. QED
  BY <1>1, <1>2, <1>3, <1>4, <1>5, <1>6, <1>7, <1>8, <1>9, <1>10, <1>11, <1>12,
      <1>13, <1>14, <1>15, <1>16, <1>17, <1>18, <1>19, <1>20, <1>21, <1>22,
      <1>23, <1>24, <1>25, <1>26, <1>27, <1>28,
      <1>29, <1>30 DEF Next, ConnectStep, CommandStep

\* What a command read of the store is still the store when it writes it back.
ViewCurrent == \A p \in Zli :
  pc[p] \in {"adding", "unlisting", "erasing"} => view[p] = store

LEMMA ViewStep == TypeOK /\ OneActive /\ ViewCurrent /\ [Next]_vars =>
    ViewCurrent'
<1> SUFFICES ASSUME TypeOK, OneActive, ViewCurrent, [Next]_vars PROVE
    ViewCurrent'
  OBVIOUS
<1> USE DEF TypeOK, Zli, Resting, ConnSteps, CmdSteps, OneActive, ViewCurrent
<1>1. ASSUME NEW c \in Conn, CreateConnection(c) PROVE ViewCurrent'
  BY <1>1 DEF CreateConnection, Goto
<1>2. ASSUME NEW c \in Conn, RefuseConnect(c) PROVE ViewCurrent'
  BY <1>2 DEF RefuseConnect, Goto
<1>3. ASSUME NEW c \in Conn, PassChecks(c) PROVE ViewCurrent'
  BY <1>3 DEF PassChecks, Goto
<1>4. ASSUME NEW c \in Conn, SpawnDaemon(c) PROVE ViewCurrent'
  BY <1>4 DEF SpawnDaemon, Goto
<1>5. ASSUME NEW c \in Conn, KubeConfigFails(c) PROVE ViewCurrent'
  BY <1>5 DEF KubeConfigFails, Goto
<1>6. ASSUME NEW c \in Conn, AddRead(c) PROVE ViewCurrent'
  BY <1>6 DEF AddRead, Goto
<1>7. ASSUME NEW c \in Conn, AddWrite(c) PROVE ViewCurrent'
  BY <1>7 DEF AddWrite, Goto
<1>8. ASSUME NEW c \in Conn, ServerStarted(c) PROVE ViewCurrent'
  BY <1>8 DEF ServerStarted, Goto
<1>9. ASSUME NEW c \in Conn, ServerTimeout(c) PROVE ViewCurrent'
  BY <1>9 DEF ServerTimeout, Goto
<1>10. ASSUME NEW c \in Conn, StopOwnDaemon(c) PROVE ViewCurrent'
  BY <1>10 DEF StopOwnDaemon, Goto
<1>11. ASSUME NEW c \in Conn, ExitWithDaemon(c) PROVE ViewCurrent'
  BY <1>11 DEF ExitWithDaemon, Goto
<1>12. ASSUME NEW c \in Conn, KillConnect(c) PROVE ViewCurrent'
  BY <1>12 DEF KillConnect, Goto
<1>13. ASSUME NEW c \in Conn, DaemonBinds(c) PROVE ViewCurrent'
  BY <1>13 DEF DaemonBinds
<1>14. ASSUME NEW c \in Conn, DaemonQuits(c) PROVE ViewCurrent'
  BY <1>14 DEF DaemonQuits
<1>15. ASSUME NEW k \in Cmd, StartList(k) PROVE ViewCurrent'
  BY <1>15 DEF StartList, Goto
<1>16. ASSUME NEW k \in Cmd, StartDisconnect(k) PROVE ViewCurrent'
  BY <1>16 DEF StartDisconnect, Goto
<1>17. ASSUME NEW k \in Cmd, AllSettled(k) PROVE ViewCurrent'
  BY <1>17 DEF AllSettled, Goto
<1>18. ASSUME NEW k \in Cmd, PurgeRead(k) PROVE ViewCurrent'
  BY <1>18 DEF PurgeRead, Goto
<1>19. ASSUME NEW k \in Cmd, FinishCommand(k) PROVE ViewCurrent'
  BY <1>19 DEF FinishCommand, FinishList, FinishDisconnect, Goto
<1>20. ASSUME NEW k \in Cmd, KillCommand(k) PROVE ViewCurrent'
  BY <1>20 DEF KillCommand, Goto
<1>21. ASSUME NEW k \in Cmd, NEW d \in Conn, ListRunning(k, d) PROVE
    ViewCurrent'
  BY <1>21 DEF ListRunning
<1>22. ASSUME NEW k \in Cmd, NEW d \in Conn, ListGone(k, d) PROVE ViewCurrent'
  BY <1>22 DEF ListGone, Goto
<1>23. ASSUME NEW k \in Cmd, NEW d \in Conn, Unlist(k, d) PROVE ViewCurrent'
  BY <1>23 DEF Unlist, Goto
<1>24. ASSUME NEW k \in Cmd, NEW d \in Conn, ShutDownSucceeds(k, d) PROVE
    ViewCurrent'
  BY <1>24 DEF ShutDownSucceeds
<1>25. ASSUME NEW k \in Cmd, NEW d \in Conn, ShutDownFails(k, d) PROVE
    ViewCurrent'
  BY <1>25 DEF ShutDownFails
<1>26. ASSUME NEW k \in Cmd, NEW d \in Conn, Erase(k, d) PROVE ViewCurrent'
  BY <1>26 DEF Erase, Goto
<1>27. ASSUME NEW c \in Conn, DaemonFallsMute(c) PROVE ViewCurrent'
  BY <1>27 DEF DaemonFallsMute
<1>28. ASSUME NEW p \in Ports, OtherBinds(p) PROVE ViewCurrent'
  BY <1>28 DEF OtherBinds
<1>29. ASSUME NEW p \in Ports, OtherLeaves(p) PROVE ViewCurrent'
  BY <1>29 DEF OtherLeaves
<1>30. CASE UNCHANGED vars
  BY <1>30 DEF vars
<1>31. QED
  BY <1>1, <1>2, <1>3, <1>4, <1>5, <1>6, <1>7, <1>8, <1>9, <1>10, <1>11, <1>12,
      <1>13, <1>14, <1>15, <1>16, <1>17, <1>18, <1>19, <1>20, <1>21, <1>22,
      <1>23, <1>24, <1>25, <1>26, <1>27, <1>28,
      <1>29, <1>30 DEF Next, ConnectStep, CommandStep

Alone == OneActive /\ ViewCurrent

LEMMA AloneAlways == ~Concurrent => (Spec => []Alone)
<1> SUFFICES ASSUME ~Concurrent PROVE Spec => []Alone
  OBVIOUS
<1>1. Init => Alone
  <2>1. ASSUME Init, NEW p \in Zli PROVE pc[p] \in Resting
    BY <2>1 DEF Init, Resting
  <2> QED BY <2>1 DEF Alone, OneActive, ViewCurrent, Resting
<1>2. TypeOK /\ Alone /\ [Next]_vars => Alone'
  BY OneActiveStep, ViewStep DEF Alone
<1>3. QED
  BY <1>1, <1>2, TypeCorrect, PTL DEF Spec

LEMMA LiveStep == ~RecordFirst /\ TypeOK /\ Fresh /\ Stopped /\ Alone /\
    LiveDaemonsAreRecorded /\ [Next]_vars => LiveDaemonsAreRecorded'
<1> SUFFICES ASSUME ~RecordFirst, TypeOK, Fresh, Stopped, Alone,
    LiveDaemonsAreRecorded, [Next]_vars PROVE LiveDaemonsAreRecorded'
  OBVIOUS
<1> USE DEF TypeOK, Zli, Resting, ConnSteps, CmdSteps, Alive, Fresh, Stopped,
    PurgedDaemonsAreStopped, Alone, ViewCurrent, LiveDaemonsAreRecorded
<1>1. ASSUME NEW c \in Conn, CreateConnection(c) PROVE LiveDaemonsAreRecorded'
  BY <1>1 DEF CreateConnection, Goto
<1>2. ASSUME NEW c \in Conn, RefuseConnect(c) PROVE LiveDaemonsAreRecorded'
  BY <1>2 DEF RefuseConnect, Goto
<1>3. ASSUME NEW c \in Conn, PassChecks(c) PROVE LiveDaemonsAreRecorded'
  BY <1>3 DEF PassChecks, Goto
<1>4. ASSUME NEW c \in Conn, SpawnDaemon(c) PROVE LiveDaemonsAreRecorded'
  BY <1>4 DEF SpawnDaemon, Goto
<1>5. ASSUME NEW c \in Conn, KubeConfigFails(c) PROVE LiveDaemonsAreRecorded'
  BY <1>5 DEF KubeConfigFails, Goto
<1>6. ASSUME NEW c \in Conn, AddRead(c) PROVE LiveDaemonsAreRecorded'
  BY <1>6 DEF AddRead, Goto
<1>7. ASSUME NEW c \in Conn, AddWrite(c) PROVE LiveDaemonsAreRecorded'
  BY <1>7 DEF AddWrite, Goto
<1>8. ASSUME NEW c \in Conn, ServerStarted(c) PROVE LiveDaemonsAreRecorded'
  BY <1>8 DEF ServerStarted, Goto
<1>9. ASSUME NEW c \in Conn, ServerTimeout(c) PROVE LiveDaemonsAreRecorded'
  BY <1>9 DEF ServerTimeout, Goto
<1>10. ASSUME NEW c \in Conn, StopOwnDaemon(c) PROVE LiveDaemonsAreRecorded'
  BY <1>10 DEF StopOwnDaemon, Goto
<1>11. ASSUME NEW c \in Conn, ExitWithDaemon(c) PROVE LiveDaemonsAreRecorded'
  BY <1>11 DEF ExitWithDaemon, Goto
<1>12. ASSUME NEW c \in Conn, KillConnect(c) PROVE LiveDaemonsAreRecorded'
  BY <1>12 DEF KillConnect, Goto
<1>13. ASSUME NEW c \in Conn, DaemonBinds(c) PROVE LiveDaemonsAreRecorded'
  BY <1>13 DEF DaemonBinds
<1>14. ASSUME NEW c \in Conn, DaemonQuits(c) PROVE LiveDaemonsAreRecorded'
  BY <1>14 DEF DaemonQuits
<1>15. ASSUME NEW k \in Cmd, StartList(k) PROVE LiveDaemonsAreRecorded'
  BY <1>15 DEF StartList, Goto
<1>16. ASSUME NEW k \in Cmd, StartDisconnect(k) PROVE LiveDaemonsAreRecorded'
  BY <1>16 DEF StartDisconnect, Goto
<1>17. ASSUME NEW k \in Cmd, AllSettled(k) PROVE LiveDaemonsAreRecorded'
  BY <1>17 DEF AllSettled, Goto
<1>18. ASSUME NEW k \in Cmd, PurgeRead(k) PROVE LiveDaemonsAreRecorded'
  BY <1>18 DEF PurgeRead, Goto
<1>19. ASSUME NEW k \in Cmd, FinishCommand(k) PROVE LiveDaemonsAreRecorded'
  BY <1>19 DEF FinishCommand, FinishList, FinishDisconnect, Goto
<1>20. ASSUME NEW k \in Cmd, KillCommand(k) PROVE LiveDaemonsAreRecorded'
  BY <1>20 DEF KillCommand, Goto
<1>21. ASSUME NEW k \in Cmd, NEW d \in Conn, ListRunning(k, d) PROVE
    LiveDaemonsAreRecorded'
  BY <1>21 DEF ListRunning
<1>22. ASSUME NEW k \in Cmd, NEW d \in Conn, ListGone(k, d) PROVE
    LiveDaemonsAreRecorded'
  BY <1>22 DEF ListGone, Goto
<1>23. ASSUME NEW k \in Cmd, NEW d \in Conn, Unlist(k, d) PROVE
    LiveDaemonsAreRecorded'
  BY <1>23 DEF Unlist, Goto
<1>24. ASSUME NEW k \in Cmd, NEW d \in Conn, ShutDownSucceeds(k, d) PROVE
    LiveDaemonsAreRecorded'
  BY <1>24 DEF ShutDownSucceeds
<1>25. ASSUME NEW k \in Cmd, NEW d \in Conn, ShutDownFails(k, d) PROVE
    LiveDaemonsAreRecorded'
  BY <1>25 DEF ShutDownFails
<1>26. ASSUME NEW k \in Cmd, NEW d \in Conn, Erase(k, d) PROVE
    LiveDaemonsAreRecorded'
  BY <1>26 DEF Erase, Goto
<1>27. ASSUME NEW c \in Conn, DaemonFallsMute(c) PROVE LiveDaemonsAreRecorded'
  BY <1>27 DEF DaemonFallsMute
<1>28. ASSUME NEW p \in Ports, OtherBinds(p) PROVE LiveDaemonsAreRecorded'
  BY <1>28 DEF OtherBinds
<1>29. ASSUME NEW p \in Ports, OtherLeaves(p) PROVE LiveDaemonsAreRecorded'
  BY <1>29 DEF OtherLeaves
<1>30. CASE UNCHANGED vars
  BY <1>30 DEF vars
<1>31. QED
  BY <1>1, <1>2, <1>3, <1>4, <1>5, <1>6, <1>7, <1>8, <1>9, <1>10, <1>11, <1>12,
      <1>13, <1>14, <1>15, <1>16, <1>17, <1>18, <1>19, <1>20, <1>21, <1>22,
      <1>23, <1>24, <1>25, <1>26, <1>27, <1>28,
      <1>29, <1>30 DEF Next, ConnectStep, CommandStep

LEMMA StoppedAlways == Spec => []Stopped
  BY GeneralInit, TypeCorrect, FreshAlways, StoppedStep, PTL DEF Spec

\* With one db, rdp or sqlserver command at a time, every daemon that runs is
\* recorded, or its connect is at work, or it was given up with an error.
THEOREM LiveRecorded == ~RecordFirst /\ ~Concurrent => (Spec =>
    []LiveDaemonsAreRecorded)
<1> SUFFICES ASSUME ~RecordFirst, ~Concurrent PROVE Spec =>
    []LiveDaemonsAreRecorded
  OBVIOUS
<1>1. Init => LiveDaemonsAreRecorded
  BY DEF Init, LiveDaemonsAreRecorded, Alive
<1>2. TypeOK /\ Fresh /\ Stopped /\ Alone /\ LiveDaemonsAreRecorded /\
    [Next]_vars
        => LiveDaemonsAreRecorded'
  BY LiveStep
<1>3. QED
  BY <1>1, <1>2, TypeCorrect, FreshAlways, StoppedAlways, AloneAlways, PTL DEF
      Spec

-----------------------------------------------------------------------------
(* kube, one command at a time *)

\* A running kube daemon is recorded, or lost, or its connect is at work, and
\* that connect has made the entry by the time it waits for the server.
Accounted == \A c \in Conn :
  /\ Alive(c) => c \in store \/ Lost(c) \/ pc[c] \in ConnSteps
  /\ pc[c] = "waiting" => c \in store

LEMMA AccountedStep == RecordFirst /\ TypeOK /\ Fresh /\ Stopped /\ Alone /\
    Accounted /\ [Next]_vars => Accounted'
<1> SUFFICES ASSUME RecordFirst, TypeOK, Fresh, Stopped, Alone, Accounted,
    [Next]_vars PROVE Accounted'
  OBVIOUS
<1> USE DEF TypeOK, Zli, Resting, ConnSteps, CmdSteps, Alive, Fresh, Stopped,
    PurgedDaemonsAreStopped, Alone, OneActive, ViewCurrent, Lost, Accounted
<1>1. ASSUME NEW c \in Conn, CreateConnection(c) PROVE Accounted'
  BY <1>1 DEF CreateConnection, Goto
<1>2. ASSUME NEW c \in Conn, RefuseConnect(c) PROVE Accounted'
  BY <1>2 DEF RefuseConnect, Goto
<1>3. ASSUME NEW c \in Conn, PassChecks(c) PROVE Accounted'
  BY <1>3 DEF PassChecks, Goto, SameTargetRunning
<1>4. ASSUME NEW c \in Conn, SpawnDaemon(c) PROVE Accounted'
  BY <1>4 DEF SpawnDaemon, Goto
<1>5. ASSUME NEW c \in Conn, KubeConfigFails(c) PROVE Accounted'
  BY <1>5 DEF KubeConfigFails, Goto
<1>6. ASSUME NEW c \in Conn, AddRead(c) PROVE Accounted'
  BY <1>6 DEF AddRead, Goto
<1>7. ASSUME NEW c \in Conn, AddWrite(c) PROVE Accounted'
  BY <1>7 DEF AddWrite, Goto
<1>8. ASSUME NEW c \in Conn, ServerStarted(c) PROVE Accounted'
  BY <1>8 DEF ServerStarted, Goto
<1>9. ASSUME NEW c \in Conn, ServerTimeout(c) PROVE Accounted'
  BY <1>9 DEF ServerTimeout, Goto
<1>10. ASSUME NEW c \in Conn, StopOwnDaemon(c) PROVE Accounted'
  BY <1>10 DEF StopOwnDaemon, Goto
<1>11. ASSUME NEW c \in Conn, ExitWithDaemon(c) PROVE Accounted'
  BY <1>11 DEF ExitWithDaemon, Goto
<1>12. ASSUME NEW c \in Conn, KillConnect(c) PROVE Accounted'
  BY <1>12 DEF KillConnect, Goto
<1>13. ASSUME NEW c \in Conn, DaemonBinds(c) PROVE Accounted'
  BY <1>13 DEF DaemonBinds
<1>14. ASSUME NEW c \in Conn, DaemonQuits(c) PROVE Accounted'
  BY <1>14 DEF DaemonQuits
<1>15. ASSUME NEW k \in Cmd, StartList(k) PROVE Accounted'
  BY <1>15 DEF StartList, Goto
<1>16. ASSUME NEW k \in Cmd, StartDisconnect(k) PROVE Accounted'
  BY <1>16 DEF StartDisconnect, Goto
<1>17. ASSUME NEW k \in Cmd, AllSettled(k) PROVE Accounted'
  BY <1>17 DEF AllSettled, Goto
<1>18. ASSUME NEW k \in Cmd, PurgeRead(k) PROVE Accounted'
  BY <1>18 DEF PurgeRead, Goto
<1>19. ASSUME NEW k \in Cmd, FinishCommand(k) PROVE Accounted'
  BY <1>19 DEF FinishCommand, FinishList, FinishDisconnect, Goto
<1>20. ASSUME NEW k \in Cmd, KillCommand(k) PROVE Accounted'
  BY <1>20 DEF KillCommand, Goto
<1>21. ASSUME NEW k \in Cmd, NEW d \in Conn, ListRunning(k, d) PROVE Accounted'
  BY <1>21 DEF ListRunning
<1>22. ASSUME NEW k \in Cmd, NEW d \in Conn, ListGone(k, d) PROVE Accounted'
  BY <1>22 DEF ListGone, Goto
<1>23. ASSUME NEW k \in Cmd, NEW d \in Conn, Unlist(k, d) PROVE Accounted'
  BY <1>23 DEF Unlist, Goto
<1>24. ASSUME NEW k \in Cmd, NEW d \in Conn, ShutDownSucceeds(k, d) PROVE Accounted'
  BY <1>24 DEF ShutDownSucceeds
<1>25. ASSUME NEW k \in Cmd, NEW d \in Conn, ShutDownFails(k, d) PROVE Accounted'
  BY <1>25 DEF ShutDownFails
<1>26. ASSUME NEW k \in Cmd, NEW d \in Conn, Erase(k, d) PROVE Accounted'
  BY <1>26 DEF Erase, Goto
<1>27. ASSUME NEW c \in Conn, DaemonFallsMute(c) PROVE Accounted'
  BY <1>27 DEF DaemonFallsMute
<1>28. ASSUME NEW p \in Ports, OtherBinds(p) PROVE Accounted'
  BY <1>28 DEF OtherBinds
<1>29. ASSUME NEW p \in Ports, OtherLeaves(p) PROVE Accounted'
  BY <1>29 DEF OtherLeaves
<1>30. CASE UNCHANGED vars
  BY <1>30 DEF vars
<1>31. QED
  BY <1>1, <1>2, <1>3, <1>4, <1>5, <1>6, <1>7, <1>8, <1>9, <1>10, <1>11,
      <1>12, <1>13, <1>14, <1>15, <1>16, <1>17, <1>18, <1>19, <1>20, <1>21,
      <1>22, <1>23, <1>24, <1>25, <1>26, <1>27, <1>28, <1>29, <1>30 DEF Next, ConnectStep,
      CommandStep

\* From the check on, every other running daemon of the connect's target is
\* one that has been lost.
TargetFree == \A c \in Conn : pc[c] \in {"ready", "recording", "adding"} =>
  \A d \in Conn : d # c /\ Alive(d) /\ TargetOf[d] = TargetOf[c] => Lost(d)

OneServes == OneDaemonPerTarget /\ TargetFree

LEMMA OneServesStep == RecordFirst /\ TypeOK /\ Fresh /\ Stopped /\ Alone /\
    Accounted /\ OneServes /\ [Next]_vars => OneServes'
<1> SUFFICES ASSUME RecordFirst, TypeOK, Fresh, Stopped, Alone, Accounted,
    OneServes, [Next]_vars PROVE OneServes'
  OBVIOUS
<1> USE DEF TypeOK, Zli, Resting, ConnSteps, CmdSteps, Alive, Fresh, Alone,
    Stopped, PurgedDaemonsAreStopped, OneActive, ViewCurrent, Accounted, Lost,
    OneServes, OneDaemonPerTarget, TargetFree
<1>1. ASSUME NEW c \in Conn, CreateConnection(c) PROVE OneServes'
  BY <1>1 DEF CreateConnection, Goto
<1>2. ASSUME NEW c \in Conn, RefuseConnect(c) PROVE OneServes'
  BY <1>2 DEF RefuseConnect, Goto
<1>3. ASSUME NEW c \in Conn, PassChecks(c) PROVE OneServes'
  BY <1>3 DEF PassChecks, Goto, SameTargetRunning
<1>4. ASSUME NEW c \in Conn, SpawnDaemon(c) PROVE OneServes'
  BY <1>4 DEF SpawnDaemon, Goto
<1>5. ASSUME NEW c \in Conn, KubeConfigFails(c) PROVE OneServes'
  BY <1>5 DEF KubeConfigFails, Goto
<1>6. ASSUME NEW c \in Conn, AddRead(c) PROVE OneServes'
  BY <1>6 DEF AddRead, Goto
<1>7. ASSUME NEW c \in Conn, AddWrite(c) PROVE OneServes'
  BY <1>7 DEF AddWrite, Goto
<1>8. ASSUME NEW c \in Conn, ServerStarted(c) PROVE OneServes'
  BY <1>8 DEF ServerStarted, Goto
<1>9. ASSUME NEW c \in Conn, ServerTimeout(c) PROVE OneServes'
  BY <1>9 DEF ServerTimeout, Goto
<1>10. ASSUME NEW c \in Conn, StopOwnDaemon(c) PROVE OneServes'
  BY <1>10 DEF StopOwnDaemon, Goto
<1>11. ASSUME NEW c \in Conn, ExitWithDaemon(c) PROVE OneServes'
  BY <1>11 DEF ExitWithDaemon, Goto
<1>12. ASSUME NEW c \in Conn, KillConnect(c) PROVE OneServes'
  BY <1>12 DEF KillConnect, Goto
<1>13. ASSUME NEW c \in Conn, DaemonBinds(c) PROVE OneServes'
  BY <1>13 DEF DaemonBinds
<1>14. ASSUME NEW c \in Conn, DaemonQuits(c) PROVE OneServes'
  BY <1>14 DEF DaemonQuits
<1>15. ASSUME NEW k \in Cmd, StartList(k) PROVE OneServes'
  BY <1>15 DEF StartList, Goto
<1>16. ASSUME NEW k \in Cmd, StartDisconnect(k) PROVE OneServes'
  BY <1>16 DEF StartDisconnect, Goto
<1>17. ASSUME NEW k \in Cmd, AllSettled(k) PROVE OneServes'
  BY <1>17 DEF AllSettled, Goto
<1>18. ASSUME NEW k \in Cmd, PurgeRead(k) PROVE OneServes'
  BY <1>18 DEF PurgeRead, Goto
<1>19. ASSUME NEW k \in Cmd, FinishCommand(k) PROVE OneServes'
  BY <1>19 DEF FinishCommand, FinishList, FinishDisconnect, Goto
<1>20. ASSUME NEW k \in Cmd, KillCommand(k) PROVE OneServes'
  BY <1>20 DEF KillCommand, Goto
<1>21. ASSUME NEW k \in Cmd, NEW d \in Conn, ListRunning(k, d) PROVE OneServes'
  BY <1>21 DEF ListRunning
<1>22. ASSUME NEW k \in Cmd, NEW d \in Conn, ListGone(k, d) PROVE OneServes'
  BY <1>22 DEF ListGone, Goto
<1>23. ASSUME NEW k \in Cmd, NEW d \in Conn, Unlist(k, d) PROVE OneServes'
  BY <1>23 DEF Unlist, Goto
<1>24. ASSUME NEW k \in Cmd, NEW d \in Conn, ShutDownSucceeds(k, d) PROVE OneServes'
  BY <1>24 DEF ShutDownSucceeds
<1>25. ASSUME NEW k \in Cmd, NEW d \in Conn, ShutDownFails(k, d) PROVE OneServes'
  BY <1>25 DEF ShutDownFails
<1>26. ASSUME NEW k \in Cmd, NEW d \in Conn, Erase(k, d) PROVE OneServes'
  BY <1>26 DEF Erase, Goto
<1>27. ASSUME NEW c \in Conn, DaemonFallsMute(c) PROVE OneServes'
  BY <1>27 DEF DaemonFallsMute
<1>28. ASSUME NEW p \in Ports, OtherBinds(p) PROVE OneServes'
  BY <1>28 DEF OtherBinds
<1>29. ASSUME NEW p \in Ports, OtherLeaves(p) PROVE OneServes'
  BY <1>29 DEF OtherLeaves
<1>30. CASE UNCHANGED vars
  BY <1>30 DEF vars
<1>31. QED
  BY <1>1, <1>2, <1>3, <1>4, <1>5, <1>6, <1>7, <1>8, <1>9, <1>10, <1>11,
      <1>12, <1>13, <1>14, <1>15, <1>16, <1>17, <1>18, <1>19, <1>20, <1>21,
      <1>22, <1>23, <1>24, <1>25, <1>26, <1>27, <1>28, <1>29, <1>30 DEF Next, ConnectStep,
      CommandStep

\* With one kube command at a time, two kube daemons run for the same target
\* and user only if one of them has been lost: its connect ended before making
\* an entry, or its entry was deleted though stopping it failed.
THEOREM TargetUnique == RecordFirst /\ ~Concurrent => (Spec =>
    []OneDaemonPerTarget)
<1> SUFFICES ASSUME RecordFirst, ~Concurrent PROVE Spec => []OneDaemonPerTarget
  OBVIOUS
<1>1. Init => Accounted /\ OneServes
  BY DEF Init, OneServes, OneDaemonPerTarget, TargetFree, Zli, Alive, Accounted
<1>2. TypeOK /\ Fresh /\ Stopped /\ Alone /\ Accounted /\ [Next]_vars =>
        Accounted'
  BY AccountedStep
<1>3. TypeOK /\ Fresh /\ Stopped /\ Alone /\ Accounted /\ OneServes /\
        [Next]_vars => OneServes'
  BY OneServesStep
<1>4. OneServes => OneDaemonPerTarget
  BY DEF OneServes
<1>5. QED
  BY <1>1, <1>2, <1>3, <1>4, TypeCorrect, FreshAlways, StoppedAlways,
      AloneAlways, PTL DEF Spec

-----------------------------------------------------------------------------
(* The registry of daemons is implemented *)

Live == {c \in Conn : Alive(c)}
Connecting == {c \in Conn : pc[c] \in ConnSteps}

\* What holds of every state the commands reach, one at a time, outside kube.
Supported == TypeOK /\ Fresh /\ Unrecorded /\ Stopped /\ Alone

Mapped == [Registry!Next]_Registry!regvars

LEMMA MappedStep == ~RecordFirst /\ Supported /\ [Next]_vars => Mapped
<1> SUFFICES ASSUME ~RecordFirst, Supported, [Next]_vars PROVE Mapped
  OBVIOUS
<1> USE DEF Supported, TypeOK, Zli, Resting, ConnSteps, CmdSteps, Alive
<1>1. ASSUME NEW c \in Conn, CreateConnection(c) PROVE Mapped
  <2>1. Registry!Begin(c)
    BY <1>1 DEF Live, Connecting, CreateConnection, Goto, Fresh, Unrecorded,
        Registry!Begin
  <2>2. QED
    BY <2>1 DEF Mapped, Registry!Next
<1>2. ASSUME NEW c \in Conn, RefuseConnect(c) PROVE Mapped
  <2>1. Registry!End(c)
    BY <1>2 DEF Live, Connecting, RefuseConnect, Goto, Fresh, Registry!End
  <2>2. QED
    BY <2>1 DEF Mapped, Registry!Next
<1>3. ASSUME NEW c \in Conn, PassChecks(c) PROVE Mapped
  <2>1. Live' = Live /\ Connecting' = Connecting /\ UNCHANGED <<store,
      excused>>
    BY <1>3 DEF Live, Connecting, PassChecks, Goto
  <2>2. QED
    BY <2>1 DEF Mapped, Registry!regvars, Live, Connecting
<1>4. ASSUME NEW c \in Conn, SpawnDaemon(c) PROVE Mapped
  <2>1. Registry!Start(c)
    BY <1>4 DEF Live, Connecting, SpawnDaemon, Goto, Fresh, Unrecorded,
        Registry!Start
  <2>2. QED
    BY <2>1 DEF Mapped, Registry!Next
<1>5. ASSUME NEW c \in Conn, KubeConfigFails(c) PROVE Mapped
  <2>1. Live' = Live /\ Connecting' = Connecting /\ UNCHANGED <<store,
      excused>>
    BY <1>5 DEF Live, Connecting, KubeConfigFails, Goto
  <2>2. QED
    BY <2>1 DEF Mapped, Registry!regvars, Live, Connecting
<1>6. ASSUME NEW c \in Conn, AddRead(c) PROVE Mapped
  <2>1. Live' = Live /\ Connecting' = Connecting /\ UNCHANGED <<store,
      excused>>
    BY <1>6 DEF Live, Connecting, AddRead, Goto
  <2>2. QED
    BY <2>1 DEF Mapped, Registry!regvars, Live, Connecting
<1>7. ASSUME NEW c \in Conn, AddWrite(c) PROVE Mapped
  <2>1. Registry!Record(c)
    BY <1>7 DEF Live, Connecting, AddWrite, Goto, Unrecorded, Alone,
        ViewCurrent, Registry!Record
  <2>2. QED
    BY <2>1 DEF Mapped, Registry!Next
<1>8. ASSUME NEW c \in Conn, ServerStarted(c) PROVE Mapped
  <2>1. Live' = Live /\ Connecting' = Connecting /\ UNCHANGED <<store,
      excused>>
    BY <1>8 DEF Live, Connecting, ServerStarted, Goto
  <2>2. QED
    BY <2>1 DEF Mapped, Registry!regvars, Live, Connecting
<1>9. ASSUME NEW c \in Conn, ServerTimeout(c) PROVE Mapped
  <2>1. Live' = Live /\ Connecting' = Connecting /\ UNCHANGED <<store,
      excused>>
    BY <1>9 DEF Live, Connecting, ServerTimeout, Goto
  <2>2. QED
    BY <2>1 DEF Mapped, Registry!regvars, Live, Connecting
<1>10. ASSUME NEW c \in Conn, StopOwnDaemon(c) PROVE Mapped
  <2>1. CASE Alive(c) /\ daemon' = [daemon EXCEPT ![c] = "dead"] /\ UNCHANGED
      excused
    <3>1. Registry!Die(c)
      BY <1>10, <2>1 DEF Live, Connecting, StopOwnDaemon, Goto,
          Registry!Die
    <3>2. QED
      BY <3>1 DEF Mapped, Registry!Next
  <2>2. CASE ~Alive(c) \/ UNCHANGED daemon
    <3>1. Registry!End(c)
      BY <1>10, <2>2 DEF Live, Connecting, StopOwnDaemon, Goto,
          Registry!End
    <3>2. QED
      BY <3>1 DEF Mapped, Registry!Next
  <2>3. QED
    BY <1>10, <2>1, <2>2 DEF StopOwnDaemon
<1>11. ASSUME NEW c \in Conn, ExitWithDaemon(c) PROVE Mapped
  <2>1. Registry!End(c)
    BY <1>11 DEF Live, Connecting, ExitWithDaemon, Goto, Registry!End
  <2>2. QED
    BY <2>1 DEF Mapped, Registry!Next
<1>12. ASSUME NEW c \in Conn, KillConnect(c) PROVE Mapped
  <2>1. Registry!End(c)
    BY <1>12 DEF Live, Connecting, KillConnect, Goto, Registry!End
  <2>2. QED
    BY <2>1 DEF Mapped, Registry!Next
<1>13. ASSUME NEW c \in Conn, DaemonBinds(c) PROVE Mapped
  <2>1. Live' = Live /\ Connecting' = Connecting /\ UNCHANGED <<store,
      excused>>
    BY <1>13 DEF Live, Connecting, DaemonBinds
  <2>2. QED
    BY <2>1 DEF Mapped, Registry!regvars, Live, Connecting
<1>14. ASSUME NEW c \in Conn, DaemonQuits(c) PROVE Mapped
  <2>1. Registry!Die(c)
    BY <1>14 DEF Live, Connecting, DaemonQuits, Registry!Die
  <2>2. QED
    BY <2>1 DEF Mapped, Registry!Next
<1>15. ASSUME NEW k \in Cmd, StartList(k) PROVE Mapped
  <2>1. Live' = Live /\ Connecting' = Connecting /\ UNCHANGED <<store,
      excused>>
    BY <1>15 DEF Live, Connecting, StartList, Goto
  <2>2. QED
    BY <2>1 DEF Mapped, Registry!regvars, Live, Connecting
<1>16. ASSUME NEW k \in Cmd, StartDisconnect(k) PROVE Mapped
  <2>1. Live' = Live /\ Connecting' = Connecting /\ UNCHANGED <<store,
      excused>>
    BY <1>16 DEF Live, Connecting, StartDisconnect, Goto
  <2>2. QED
    BY <2>1 DEF Mapped, Registry!regvars, Live, Connecting
<1>17. ASSUME NEW k \in Cmd, AllSettled(k) PROVE Mapped
  <2>1. Live' = Live /\ Connecting' = Connecting /\ UNCHANGED <<store,
      excused>>
    BY <1>17 DEF Live, Connecting, AllSettled, Goto
  <2>2. QED
    BY <2>1 DEF Mapped, Registry!regvars, Live, Connecting
<1>18. ASSUME NEW k \in Cmd, PurgeRead(k) PROVE Mapped
  <2>1. Live' = Live /\ Connecting' = Connecting /\ UNCHANGED <<store,
      excused>>
    BY <1>18 DEF Live, Connecting, PurgeRead, Goto
  <2>2. QED
    BY <2>1 DEF Mapped, Registry!regvars, Live, Connecting
<1>19. ASSUME NEW k \in Cmd, FinishCommand(k) PROVE Mapped
  <2>1. Live' = Live /\ Connecting' = Connecting /\ UNCHANGED <<store,
      excused>>
    BY <1>19 DEF Live, Connecting, FinishCommand, FinishList,
                 FinishDisconnect, Goto
  <2>2. QED
    BY <2>1 DEF Mapped, Registry!regvars, Live, Connecting
<1>20. ASSUME NEW k \in Cmd, KillCommand(k) PROVE Mapped
  <2>1. Live' = Live /\ Connecting' = Connecting /\ UNCHANGED <<store,
      excused>>
    BY <1>20 DEF Live, Connecting, KillCommand, Goto
  <2>2. QED
    BY <2>1 DEF Mapped, Registry!regvars, Live, Connecting
<1>21. ASSUME NEW k \in Cmd, NEW d \in Conn, ListRunning(k, d) PROVE Mapped
  <2>1. Live' = Live /\ Connecting' = Connecting /\ UNCHANGED <<store,
      excused>>
    BY <1>21 DEF Live, Connecting, ListRunning
  <2>2. QED
    BY <2>1 DEF Mapped, Registry!regvars, Live, Connecting
<1>22. ASSUME NEW k \in Cmd, NEW d \in Conn, ListGone(k, d) PROVE Mapped
  <2>1. Live' = Live /\ Connecting' = Connecting /\ UNCHANGED <<store,
      excused>>
    BY <1>22 DEF Live, Connecting, ListGone, Goto
  <2>2. QED
    BY <2>1 DEF Mapped, Registry!regvars, Live, Connecting
<1>23. ASSUME NEW k \in Cmd, NEW d \in Conn, Unlist(k, d) PROVE Mapped
  <2>1. CASE d \in store
    <3>1. Registry!Forget(d)
      BY <1>23, <2>1 DEF Live, Connecting, Unlist, Goto, Alone, ViewCurrent,
          Registry!Forget
    <3>2. QED
      BY <3>1 DEF Mapped, Registry!Next
  <2>2. CASE ~(d \in store)
    <3>1. Live' = Live /\ Connecting' = Connecting /\ UNCHANGED <<store,
        excused>>
      BY <1>23, <2>2 DEF Live, Connecting, Unlist, Goto, Alone, ViewCurrent
    <3>2. QED
      BY <3>1 DEF Mapped, Registry!regvars, Live, Connecting
  <2>3. QED
    BY <2>1, <2>2
<1>24. ASSUME NEW k \in Cmd, NEW d \in Conn, ShutDownSucceeds(k, d) PROVE
    Mapped
  <2>1. CASE Alive(d)
    <3>1. Registry!Die(d)
      BY <1>24, <2>1 DEF Live, Connecting, ShutDownSucceeds, Registry!Die
    <3>2. QED
      BY <3>1 DEF Mapped, Registry!Next
  <2>2. CASE ~(Alive(d))
    <3>1. Live' = Live /\ Connecting' = Connecting /\ UNCHANGED <<store,
        excused>>
      BY <1>24, <2>2 DEF Live, Connecting, ShutDownSucceeds
    <3>2. QED
      BY <3>1 DEF Mapped, Registry!regvars, Live, Connecting
  <2>3. QED
    BY <2>1, <2>2
<1>25. ASSUME NEW k \in Cmd, NEW d \in Conn, ShutDownFails(k, d) PROVE Mapped
  <2>1. Registry!Excuse(d)
    BY <1>25 DEF Live, Connecting, ShutDownFails, Registry!Excuse
  <2>2. QED
    BY <2>1 DEF Mapped, Registry!Next
<1>26. ASSUME NEW k \in Cmd, NEW d \in Conn, Erase(k, d) PROVE Mapped
  <2>1. CASE d \in store
    <3>1. Registry!Forget(d)
      BY <1>26, <2>1 DEF Live, Connecting, Erase, Goto, Alone, ViewCurrent,
          Stopped, PurgedDaemonsAreStopped, Registry!Forget
    <3>2. QED
      BY <3>1 DEF Mapped, Registry!Next
  <2>2. CASE ~(d \in store)
    <3>1. Live' = Live /\ Connecting' = Connecting /\ UNCHANGED <<store,
        excused>>
      BY <1>26, <2>2 DEF Live, Connecting, Erase, Goto, Alone, ViewCurrent,
          Stopped, PurgedDaemonsAreStopped
    <3>2. QED
      BY <3>1 DEF Mapped, Registry!regvars, Live, Connecting
  <2>3. QED
    BY <2>1, <2>2
<1>27. ASSUME NEW c \in Conn, DaemonFallsMute(c) PROVE Mapped
  <2>1. Live' = Live /\ Connecting' = Connecting /\ UNCHANGED <<store,
      excused>>
    BY <1>27 DEF Live, Connecting, DaemonFallsMute
  <2>2. QED
    BY <2>1 DEF Mapped, Registry!regvars, Live, Connecting
<1>28. ASSUME NEW p \in Ports, OtherBinds(p) PROVE Mapped
  <2>1. Live' = Live /\ Connecting' = Connecting /\ UNCHANGED <<store,
      excused>>
    BY <1>28 DEF Live, Connecting, OtherBinds
  <2>2. QED
    BY <2>1 DEF Mapped, Registry!regvars, Live, Connecting
<1>29. ASSUME NEW p \in Ports, OtherLeaves(p) PROVE Mapped
  <2>1. Live' = Live /\ Connecting' = Connecting /\ UNCHANGED <<store,
      excused>>
    BY <1>29 DEF Live, Connecting, OtherLeaves
  <2>2. QED
    BY <2>1 DEF Mapped, Registry!regvars, Live, Connecting
<1>30. CASE UNCHANGED vars
  <2>1. Live' = Live /\ Connecting' = Connecting /\ UNCHANGED <<store,
      excused>>
    BY <1>30 DEF vars, Live, Connecting
  <2>2. QED
    BY <2>1 DEF Mapped, Registry!regvars, Live, Connecting
<1>31. QED
  BY <1>1, <1>2, <1>3, <1>4, <1>5, <1>6, <1>7, <1>8, <1>9, <1>10, <1>11, <1>12,
      <1>13, <1>14, <1>15, <1>16, <1>17, <1>18, <1>19, <1>20, <1>21, <1>22,
      <1>23, <1>24, <1>25, <1>26, <1>27, <1>28,
      <1>29, <1>30 DEF Next, ConnectStep, CommandStep

\* One db, rdp or sqlserver command at a time behaves as DaemonRegistry says:
\* an entry is made once, by its own connect, and goes only when its daemon
\* has gone or could not be stopped.
THEOREM RegistryImplemented == ~RecordFirst /\ ~Concurrent => (Spec =>
    ImplementsRegistry)
<1> SUFFICES ASSUME ~RecordFirst, ~Concurrent PROVE Spec => ImplementsRegistry
  OBVIOUS
<1>1. Init => Registry!Init
  BY DEF Init, Registry!Init, Alive, Zli, ConnSteps
<1>2. Init => Unrecorded
  BY DEF Init, Unrecorded, Zli, ConnSteps
<1>3. TypeOK /\ Unrecorded /\ [Next]_vars => Unrecorded'
  BY UnrecordedStep
<1>4. Spec => []Unrecorded
  BY <1>2, <1>3, TypeCorrect, PTL DEF Spec
<1>5. TypeOK /\ Fresh /\ Unrecorded /\ Stopped /\ Alone /\ [Next]_vars
        => [Registry!Next]_Registry!regvars
  BY MappedStep DEF Supported, Mapped
<1>6. QED
  BY <1>1, <1>4, <1>5, TypeCorrect, FreshAlways, StoppedAlways, AloneAlways,
      PTL
     DEF Spec, ImplementsRegistry, Registry!Spec
=============================================================================

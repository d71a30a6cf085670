-------------------------- MODULE QuickstartProofs --------------------------
(* Theorems about Quickstart, for any hosts and user names and any number of *)
(* runs, whatever fails.                                                     *)
(*                                                                           *)
(* And about Policies, of which quickstart creates some, for any commands,   *)
(* policies, targets and entries, and any overlap.                           *)
EXTENDS Quickstart, Policies, TLAPS

-----------------------------------------------------------------------------
(* Types of Quickstart *)

LEMMA NoTargets == [h \in Host |-> 0] \in [Host -> 0 .. MaxReg]
  BY QuickstartAssumption

LEMMA OneMore == ASSUME NEW n \in 0 .. MaxReg, n < MaxReg
                 PROVE  n + 1 \in 0 .. MaxReg
  BY QuickstartAssumption

LEMMA TypeStep == TypeOK /\ [Next]_vars => TypeOK'
<1> SUFFICES ASSUME TypeOK, [Next]_vars PROVE TypeOK'
  OBVIOUS
<1> USE DEF TypeOK, Opening, Settled, Unsettled, handler, jobs, service,
            machines
<1>1. ASSUME NEW h \in Host, ListPreexisting(h) PROVE TypeOK'
  BY <1>1 DEF ListPreexisting, Goto
<1>2. ASSUME NEW h \in Host, Connect(h) PROVE TypeOK'
  BY <1>2 DEF Connect, Goto
<1>3. ASSUME NEW h \in Host, FailsEarly(h) PROVE TypeOK'
  BY <1>3 DEF FailsEarly, Goto
<1>4. ASSUME NEW h \in Host, AlreadyInstalled(h) PROVE TypeOK'
  BY <1>4 DEF AlreadyInstalled, Goto
<1>5. ASSUME NEW h \in Host, NotInstalled(h) PROVE TypeOK'
  BY <1>5 DEF NotInstalled, Goto
<1>6. ASSUME NEW h \in Host, RunScript(h) PROVE TypeOK'
  BY <1>6 DEF RunScript, Goto
<1>7. ASSUME NEW h \in Host, ScriptSucceeds(h) PROVE TypeOK'
  BY <1>7 DEF ScriptSucceeds, Goto
<1>8. ASSUME NEW h \in Host, ScriptFails(h) PROVE TypeOK'
  BY <1>8 DEF ScriptFails, Goto
<1>9. ASSUME NEW h \in Host, TargetNamed(h) PROVE TypeOK'
  BY <1>9 DEF TargetNamed, Goto
<1>10. ASSUME NEW h \in Host, NamingThrows(h) PROVE TypeOK'
  BY <1>10 DEF NamingThrows, Goto
<1>11. ASSUME NEW h \in Host, CloseConnection(h) PROVE TypeOK'
  BY <1>11 DEF CloseConnection, Goto
<1>12. ASSUME NEW h \in Host, CloseFailed(h) PROVE TypeOK'
  BY <1>12 DEF CloseFailed, Goto
<1>13. ASSUME NEW h \in Host, TargetOnline(h) PROVE TypeOK'
  BY <1>13 DEF TargetOnline, Goto
<1>14. ASSUME NEW h \in Host, PollGivesUp(h) PROVE TypeOK'
  BY <1>14 DEF PollGivesUp, Goto
<1>15. ASSUME StartAdding PROVE TypeOK'
  BY <1>15 DEF StartAdding, Advance
<1>16. ASSUME AllSettled PROVE TypeOK'
  BY <1>16 DEF AllSettled, Advance, Added
<1>17. ASSUME Congratulate PROVE TypeOK'
  BY <1>17 DEF Congratulate
<1>18. ASSUME NEW u \in SshUser, CreateEnv(u) PROVE TypeOK'
  BY <1>18 DEF CreateEnv, HostsOf
<1>19. ASSUME NEW u \in SshUser, EnvFails(u) PROVE TypeOK'
  BY <1>19 DEF EnvFails, HostsOf
<1>20. ASSUME NEW u \in SshUser, CreatePolicy(u) PROVE TypeOK'
  BY <1>20 DEF CreatePolicy, HostsOf
<1>21. ASSUME NEW u \in SshUser, PolicyFails(u) PROVE TypeOK'
  BY <1>21 DEF PolicyFails, HostsOf
<1>22. ASSUME NEW S \in SUBSET Host, SelectHosts(S) PROVE TypeOK'
  BY <1>22 DEF SelectHosts, Advance
<1>23. ASSUME NEW h \in Host, TakeHost(h) PROVE TypeOK'
  BY <1>23 DEF TakeHost
<1>24. ASSUME NEW h \in Host, SkipHost(h) PROVE TypeOK'
  BY <1>24 DEF SkipHost
<1>25. ASSUME Confirm PROVE TypeOK'
  BY <1>25 DEF Confirm, Advance
<1>26. ASSUME Decline PROVE TypeOK'
  BY <1>26 DEF Decline
<1>27. ASSUME Interrupt PROVE TypeOK'
  BY <1>27 DEF Interrupt
<1>28. ASSUME Exit PROVE TypeOK'
  BY <1>28, NoTargets DEF Exit, End
<1>29. ASSUME Kill PROVE TypeOK'
  BY <1>29, NoTargets DEF Kill, End
<1>30. ASSUME NEW h \in Host, InstallAgent(h) PROVE TypeOK'
  BY <1>30 DEF InstallAgent
<1>31. ASSUME NEW h \in Host, AgentRegisters(h) PROVE TypeOK'
  <2>1. reg[h] + 1 \in 0 .. MaxReg
    BY <1>31, OneMore DEF AgentRegisters
  <2>2. QED
    BY <1>31, <2>1 DEF AgentRegisters
<1>32. ASSUME NEW h \in Host, RemoveAgent(h) PROVE TypeOK'
  BY <1>32 DEF RemoveAgent
<1>33. ASSUME StartQuickstart PROVE TypeOK'
  BY <1>33 DEF StartQuickstart
<1>34. ASSUME LoggedIn PROVE TypeOK'
  BY <1>34 DEF LoggedIn
<1>35. ASSUME NotAdmitted PROVE TypeOK'
  BY <1>35, NoTargets DEF NotAdmitted, End
<1>36. ASSUME NEW S \in SUBSET Host, ParseHosts(S) PROVE TypeOK'
  BY <1>36 DEF ParseHosts
<1>37. ASSUME NEW S \in SUBSET Host, OfferHosts(S) PROVE TypeOK'
  BY <1>37 DEF OfferHosts, Advance
<1>38. ASSUME NEW h \in Host, UnlockHost(h) PROVE TypeOK'
  BY <1>38 DEF UnlockHost
<1>39. ASSUME NEW u \in SshUser, EnvExists(u) PROVE TypeOK'
  BY <1>39 DEF EnvExists, HostsOf
<1>40. ASSUME NEW u \in SshUser, PolicyExists(u) PROVE TypeOK'
  BY <1>40 DEF PolicyExists, HostsOf
<1>41. CASE UNCHANGED vars
  BY <1>41 DEF vars
<1>42. QED
  BY <1>1, <1>2, <1>3, <1>4, <1>5, <1>6, <1>7, <1>8, <1>9, <1>10, <1>11,
     <1>12, <1>13, <1>14, <1>15, <1>16, <1>17, <1>18, <1>19, <1>20, <1>21,
     <1>22, <1>23, <1>24, <1>25, <1>26, <1>27, <1>28, <1>29, <1>30, <1>31,
     <1>32, <1>33, <1>34, <1>35, <1>36, <1>37, <1>38, <1>39, <1>40,
     <1>41
     DEF Next, HostStep, HandlerStep, UserStep, MachineStep

\* Every variable stays in its type, however often quickstart is run.
THEOREM TypeCorrect == Spec => []TypeOK
<1>1. Init => TypeOK
  BY NoTargets DEF Init, TypeOK, Opening, Settled
<1>2. QED
  BY <1>1, TypeStep, PTL DEF Spec

-----------------------------------------------------------------------------
(* The ssh connections *)

\* Jobs exist from the start of the adding on, and only those have
\* connections.
Connections ==
  /\ main \in Opening \cup {"keys", "envs"} =>
       conn = {} /\ \A h \in Host : pc[h] = "idle"
  /\ ConnectionsClosed

LEMMA ConnectionsStep == TypeOK /\ Connections /\ [Next]_vars => Connections'
<1> SUFFICES ASSUME TypeOK, Connections, [Next]_vars PROVE Connections'
  OBVIOUS
<1> USE DEF TypeOK, Opening, Settled, Unsettled, Connections, ConnectionsClosed,
            handler, jobs, service, machines
<1>1. ASSUME NEW h \in Host, ListPreexisting(h) PROVE Connections'
  BY <1>1 DEF ListPreexisting, Goto
<1>2. ASSUME NEW h \in Host, Connect(h) PROVE Connections'
  BY <1>2 DEF Connect, Goto
<1>3. ASSUME NEW h \in Host, FailsEarly(h) PROVE Connections'
  BY <1>3 DEF FailsEarly, Goto
<1>4. ASSUME NEW h \in Host, AlreadyInstalled(h) PROVE Connections'
  BY <1>4 DEF AlreadyInstalled, Goto
<1>5. ASSUME NEW h \in Host, NotInstalled(h) PROVE Connections'
  BY <1>5 DEF NotInstalled, Goto
<1>6. ASSUME NEW h \in Host, RunScript(h) PROVE Connections'
  BY <1>6 DEF RunScript, Goto
<1>7. ASSUME NEW h \in Host, ScriptSucceeds(h) PROVE Connections'
  BY <1>7 DEF ScriptSucceeds, Goto
<1>8. ASSUME NEW h \in Host, ScriptFails(h) PROVE Connections'
  BY <1>8 DEF ScriptFails, Goto
<1>9. ASSUME NEW h \in Host, TargetNamed(h) PROVE Connections'
  BY <1>9 DEF TargetNamed, Goto
<1>10. ASSUME NEW h \in Host, NamingThrows(h) PROVE Connections'
  BY <1>10 DEF NamingThrows, Goto
<1>11. ASSUME NEW h \in Host, CloseConnection(h) PROVE Connections'
  BY <1>11 DEF CloseConnection, Goto
<1>12. ASSUME NEW h \in Host, CloseFailed(h) PROVE Connections'
  BY <1>12 DEF CloseFailed, Goto
<1>13. ASSUME NEW h \in Host, TargetOnline(h) PROVE Connections'
  BY <1>13 DEF TargetOnline, Goto
<1>14. ASSUME NEW h \in Host, PollGivesUp(h) PROVE Connections'
  BY <1>14 DEF PollGivesUp, Goto
<1>15. ASSUME StartAdding PROVE Connections'
  BY <1>15 DEF StartAdding, Advance
<1>16. ASSUME AllSettled PROVE Connections'
  BY <1>16 DEF AllSettled, Advance, Added
<1>17. ASSUME Congratulate PROVE Connections'
  BY <1>17 DEF Congratulate
<1>18. ASSUME NEW u \in SshUser, CreateEnv(u) PROVE Connections'
  BY <1>18 DEF CreateEnv, HostsOf
<1>19. ASSUME NEW u \in SshUser, EnvFails(u) PROVE Connections'
  BY <1>19 DEF EnvFails, HostsOf
<1>20. ASSUME NEW u \in SshUser, CreatePolicy(u) PROVE Connections'
  BY <1>20 DEF CreatePolicy, HostsOf
<1>21. ASSUME NEW u \in SshUser, PolicyFails(u) PROVE Connections'
  BY <1>21 DEF PolicyFails, HostsOf
<1>22. ASSUME NEW S \in SUBSET Host, SelectHosts(S) PROVE Connections'
  BY <1>22 DEF SelectHosts, Advance
<1>23. ASSUME NEW h \in Host, TakeHost(h) PROVE Connections'
  BY <1>23 DEF TakeHost
<1>24. ASSUME NEW h \in Host, SkipHost(h) PROVE Connections'
  BY <1>24 DEF SkipHost
<1>25. ASSUME Confirm PROVE Connections'
  BY <1>25 DEF Confirm, Advance
<1>26. ASSUME Decline PROVE Connections'
  BY <1>26 DEF Decline
<1>27. ASSUME Interrupt PROVE Connections'
  BY <1>27 DEF Interrupt
<1>28. ASSUME Exit PROVE Connections'
  BY <1>28 DEF Exit, End
<1>29. ASSUME Kill PROVE Connections'
  BY <1>29 DEF Kill, End
<1>30. ASSUME NEW h \in Host, InstallAgent(h) PROVE Connections'
  BY <1>30 DEF InstallAgent
<1>31. ASSUME NEW h \in Host, AgentRegisters(h) PROVE Connections'
  BY <1>31 DEF AgentRegisters
<1>32. ASSUME NEW h \in Host, RemoveAgent(h) PROVE Connections'
  BY <1>32 DEF RemoveAgent
<1>33. ASSUME StartQuickstart PROVE Connections'
  BY <1>33 DEF StartQuickstart
<1>34. ASSUME LoggedIn PROVE Connections'
  BY <1>34 DEF LoggedIn
<1>35. ASSUME NotAdmitted PROVE Connections'
  BY <1>35 DEF NotAdmitted, End
<1>36. ASSUME NEW S \in SUBSET Host, ParseHosts(S) PROVE Connections'
  BY <1>36 DEF ParseHosts
<1>37. ASSUME NEW S \in SUBSET Host, OfferHosts(S) PROVE Connections'
  BY <1>37 DEF OfferHosts, Advance
<1>38. ASSUME NEW h \in Host, UnlockHost(h) PROVE Connections'
  BY <1>38 DEF UnlockHost
<1>39. ASSUME NEW u \in SshUser, EnvExists(u) PROVE Connections'
  BY <1>39 DEF EnvExists, HostsOf
<1>40. ASSUME NEW u \in SshUser, PolicyExists(u) PROVE Connections'
  BY <1>40 DEF PolicyExists, HostsOf
<1>41. CASE UNCHANGED vars
  BY <1>41 DEF vars
<1>42. QED
  BY <1>1, <1>2, <1>3, <1>4, <1>5, <1>6, <1>7, <1>8, <1>9, <1>10, <1>11,
     <1>12, <1>13, <1>14, <1>15, <1>16, <1>17, <1>18, <1>19, <1>20, <1>21,
     <1>22, <1>23, <1>24, <1>25, <1>26, <1>27, <1>28, <1>29, <1>30, <1>31,
     <1>32, <1>33, <1>34, <1>35, <1>36, <1>37, <1>38, <1>39, <1>40,
     <1>41
     DEF Next, HostStep, HandlerStep, UserStep, MachineStep

\* The connection of a host is closed before its registration is polled for
\* or rejected.
THEOREM ClosedAlways == Spec => []ConnectionsClosed
<1>1. Init => Connections
  BY DEF Init, Opening, Connections, ConnectionsClosed
<1>2. Connections => ConnectionsClosed
  BY DEF Connections
<1>3. QED
  BY <1>1, <1>2, ConnectionsStep, TypeCorrect, PTL DEF Spec

-----------------------------------------------------------------------------
(* The environments *)

\* The hosts that are handed on have their environment.
Environments ==
  /\ main = "envs" => \A h \in chosen : name[h] \in envs
  /\ RegistersInEnvironment

LEMMA EnvironmentsStep ==
  TypeOK /\ Environments /\ [Next]_vars => Environments'
<1> SUFFICES ASSUME TypeOK, Environments, [Next]_vars PROVE Environments'
  OBVIOUS
<1> USE DEF TypeOK, Opening, Settled, Unsettled, Environments,
            RegistersInEnvironment, handler, jobs, service, machines
<1>1. ASSUME NEW h \in Host, ListPreexisting(h) PROVE Environments'
  BY <1>1 DEF ListPreexisting, Goto
<1>2. ASSUME NEW h \in Host, Connect(h) PROVE Environments'
  BY <1>2 DEF Connect, Goto
<1>3. ASSUME NEW h \in Host, FailsEarly(h) PROVE Environments'
  BY <1>3 DEF FailsEarly, Goto
<1>4. ASSUME NEW h \in Host, AlreadyInstalled(h) PROVE Environments'
  BY <1>4 DEF AlreadyInstalled, Goto
<1>5. ASSUME NEW h \in Host, NotInstalled(h) PROVE Environments'
  BY <1>5 DEF NotInstalled, Goto
<1>6. ASSUME NEW h \in Host, RunScript(h) PROVE Environments'
  BY <1>6 DEF RunScript, Goto
<1>7. ASSUME NEW h \in Host, ScriptSucceeds(h) PROVE Environments'
  BY <1>7 DEF ScriptSucceeds, Goto
<1>8. ASSUME NEW h \in Host, ScriptFails(h) PROVE Environments'
  BY <1>8 DEF ScriptFails, Goto
<1>9. ASSUME NEW h \in Host, TargetNamed(h) PROVE Environments'
  BY <1>9 DEF TargetNamed, Goto
<1>10. ASSUME NEW h \in Host, NamingThrows(h) PROVE Environments'
  BY <1>10 DEF NamingThrows, Goto
<1>11. ASSUME NEW h \in Host, CloseConnection(h) PROVE Environments'
  BY <1>11 DEF CloseConnection, Goto
<1>12. ASSUME NEW h \in Host, CloseFailed(h) PROVE Environments'
  BY <1>12 DEF CloseFailed, Goto
<1>13. ASSUME NEW h \in Host, TargetOnline(h) PROVE Environments'
  BY <1>13 DEF TargetOnline, Goto
<1>14. ASSUME NEW h \in Host, PollGivesUp(h) PROVE Environments'
  BY <1>14 DEF PollGivesUp, Goto
<1>15. ASSUME StartAdding PROVE Environments'
  BY <1>15 DEF StartAdding, Advance
<1>16. ASSUME AllSettled PROVE Environments'
  BY <1>16 DEF AllSettled, Advance, Added
<1>17. ASSUME Congratulate PROVE Environments'
  BY <1>17 DEF Congratulate
<1>18. ASSUME NEW u \in SshUser, CreateEnv(u) PROVE Environments'
  BY <1>18 DEF CreateEnv, HostsOf
<1>19. ASSUME NEW u \in SshUser, EnvFails(u) PROVE Environments'
  BY <1>19 DEF EnvFails, HostsOf
<1>20. ASSUME NEW u \in SshUser, CreatePolicy(u) PROVE Environments'
  BY <1>20 DEF CreatePolicy, HostsOf
<1>21. ASSUME NEW u \in SshUser, PolicyFails(u) PROVE Environments'
  BY <1>21 DEF PolicyFails, HostsOf
<1>22. ASSUME NEW S \in SUBSET Host, SelectHosts(S) PROVE Environments'
  BY <1>22 DEF SelectHosts, Advance
<1>23. ASSUME NEW h \in Host, TakeHost(h) PROVE Environments'
  BY <1>23 DEF TakeHost
<1>24. ASSUME NEW h \in Host, SkipHost(h) PROVE Environments'
  BY <1>24 DEF SkipHost
<1>25. ASSUME Confirm PROVE Environments'
  BY <1>25 DEF Confirm, Advance
<1>26. ASSUME Decline PROVE Environments'
  BY <1>26 DEF Decline
<1>27. ASSUME Interrupt PROVE Environments'
  BY <1>27 DEF Interrupt
<1>28. ASSUME Exit PROVE Environments'
  BY <1>28 DEF Exit, End
<1>29. ASSUME Kill PROVE Environments'
  BY <1>29 DEF Kill, End
<1>30. ASSUME NEW h \in Host, InstallAgent(h) PROVE Environments'
  BY <1>30 DEF InstallAgent
<1>31. ASSUME NEW h \in Host, AgentRegisters(h) PROVE Environments'
  BY <1>31 DEF AgentRegisters
<1>32. ASSUME NEW h \in Host, RemoveAgent(h) PROVE Environments'
  BY <1>32 DEF RemoveAgent
<1>33. ASSUME StartQuickstart PROVE Environments'
  BY <1>33 DEF StartQuickstart
<1>34. ASSUME LoggedIn PROVE Environments'
  BY <1>34 DEF LoggedIn
<1>35. ASSUME NotAdmitted PROVE Environments'
  BY <1>35 DEF NotAdmitted, End
<1>36. ASSUME NEW S \in SUBSET Host, ParseHosts(S) PROVE Environments'
  BY <1>36 DEF ParseHosts
<1>37. ASSUME NEW S \in SUBSET Host, OfferHosts(S) PROVE Environments'
  BY <1>37 DEF OfferHosts, Advance
<1>38. ASSUME NEW h \in Host, UnlockHost(h) PROVE Environments'
  BY <1>38 DEF UnlockHost
<1>39. ASSUME NEW u \in SshUser, EnvExists(u) PROVE Environments'
  BY <1>39 DEF EnvExists, HostsOf
<1>40. ASSUME NEW u \in SshUser, PolicyExists(u) PROVE Environments'
  BY <1>40 DEF PolicyExists, HostsOf
<1>41. CASE UNCHANGED vars
  BY <1>41 DEF vars
<1>42. QED
  BY <1>1, <1>2, <1>3, <1>4, <1>5, <1>6, <1>7, <1>8, <1>9, <1>10, <1>11,
     <1>12, <1>13, <1>14, <1>15, <1>16, <1>17, <1>18, <1>19, <1>20, <1>21,
     <1>22, <1>23, <1>24, <1>25, <1>26, <1>27, <1>28, <1>29, <1>30, <1>31,
     <1>32, <1>33, <1>34, <1>35, <1>36, <1>37, <1>38, <1>39, <1>40,
     <1>41
     DEF Next, HostStep, HandlerStep, UserStep, MachineStep

\* A host is registered only if its user's environment exists.
THEOREM EnvironmentAlways == Spec => []RegistersInEnvironment
<1>1. Init => Environments
  BY DEF Init, Environments, RegistersInEnvironment
<1>2. Environments => RegistersInEnvironment
  BY DEF Environments
<1>3. QED
  BY <1>1, <1>2, EnvironmentsStep, TypeCorrect, PTL DEF Spec

-----------------------------------------------------------------------------
(* What the user is told *)

\* Each stage still has the hosts to treat that the user was not told about.
Accounted ==
  /\ main \in Opening => selected = {}
  /\ main \in {"keys", "envs"} => selected \subseteq todo \cup chosen \cup told
  /\ main = "adding" => selected \subseteq todo \cup told
  /\ main = "adding" => \A h \in todo : pc[h] # "idle"
  /\ main = "policies" => \A h \in selected :
       h \in told \/ (h \in Added /\ (h \in todo \/ name[h] \in policies))
  /\ \A h \in Host : pc[h] = "failed" => h \in told
  /\ NothingDropped

LEMMA AccountedStep ==
  TypeOK /\ Connections /\ Accounted /\ [Next]_vars => Accounted'
<1> SUFFICES ASSUME TypeOK, Connections, Accounted, [Next]_vars
             PROVE  Accounted'
  OBVIOUS
<1> USE DEF TypeOK, Opening, Settled, Unsettled, Connections, Accounted,
            NothingDropped, Added, handler, jobs, service, machines
<1>1. ASSUME NEW h \in Host, ListPreexisting(h) PROVE Accounted'
  BY <1>1 DEF ListPreexisting, Goto
<1>2. ASSUME NEW h \in Host, Connect(h) PROVE Accounted'
  BY <1>2 DEF Connect, Goto
<1>3. ASSUME NEW h \in Host, FailsEarly(h) PROVE Accounted'
  BY <1>3 DEF FailsEarly, Goto
<1>4. ASSUME NEW h \in Host, AlreadyInstalled(h) PROVE Accounted'
  BY <1>4 DEF AlreadyInstalled, Goto
<1>5. ASSUME NEW h \in Host, NotInstalled(h) PROVE Accounted'
  BY <1>5 DEF NotInstalled, Goto
<1>6. ASSUME NEW h \in Host, RunScript(h) PROVE Accounted'
  BY <1>6 DEF RunScript, Goto
<1>7. ASSUME NEW h \in Host, ScriptSucceeds(h) PROVE Accounted'
  BY <1>7 DEF ScriptSucceeds, Goto
<1>8. ASSUME NEW h \in Host, ScriptFails(h) PROVE Accounted'
  BY <1>8 DEF ScriptFails, Goto
<1>9. ASSUME NEW h \in Host, TargetNamed(h) PROVE Accounted'
  BY <1>9 DEF TargetNamed, Goto
<1>10. ASSUME NEW h \in Host, NamingThrows(h) PROVE Accounted'
  BY <1>10 DEF NamingThrows, Goto
<1>11. ASSUME NEW h \in Host, CloseConnection(h) PROVE Accounted'
  BY <1>11 DEF CloseConnection, Goto
<1>12. ASSUME NEW h \in Host, CloseFailed(h) PROVE Accounted'
  BY <1>12 DEF CloseFailed, Goto
<1>13. ASSUME NEW h \in Host, TargetOnline(h) PROVE Accounted'
  BY <1>13 DEF TargetOnline, Goto
<1>14. ASSUME NEW h \in Host, PollGivesUp(h) PROVE Accounted'
  BY <1>14 DEF PollGivesUp, Goto
<1>15. ASSUME StartAdding PROVE Accounted'
  BY <1>15 DEF StartAdding, Advance
<1>16. ASSUME AllSettled PROVE Accounted'
  BY <1>16 DEF AllSettled, Advance
<1>17. ASSUME Congratulate PROVE Accounted'
  BY <1>17 DEF Congratulate
<1>18. ASSUME NEW u \in SshUser, CreateEnv(u) PROVE Accounted'
  BY <1>18 DEF CreateEnv, HostsOf
<1>19. ASSUME NEW u \in SshUser, EnvFails(u) PROVE Accounted'
  BY <1>19 DEF EnvFails, HostsOf
<1>20. ASSUME NEW u \in SshUser, CreatePolicy(u) PROVE Accounted'
  BY <1>20 DEF CreatePolicy, HostsOf
<1>21. ASSUME NEW u \in SshUser, PolicyFails(u) PROVE Accounted'
  BY <1>21 DEF PolicyFails, HostsOf
<1>22. ASSUME NEW S \in SUBSET Host, SelectHosts(S) PROVE Accounted'
  BY <1>22 DEF SelectHosts, Advance
<1>23. ASSUME NEW h \in Host, TakeHost(h) PROVE Accounted'
  BY <1>23 DEF TakeHost
<1>24. ASSUME NEW h \in Host, SkipHost(h) PROVE Accounted'
  BY <1>24 DEF SkipHost
<1>25. ASSUME Confirm PROVE Accounted'
  BY <1>25 DEF Confirm, Advance
<1>26. ASSUME Decline PROVE Accounted'
  BY <1>26 DEF Decline
<1>27. ASSUME Interrupt PROVE Accounted'
  BY <1>27 DEF Interrupt
<1>28. ASSUME Exit PROVE Accounted'
  BY <1>28 DEF Exit, End
<1>29. ASSUME Kill PROVE Accounted'
  BY <1>29 DEF Kill, End
<1>30. ASSUME NEW h \in Host, InstallAgent(h) PROVE Accounted'
  BY <1>30 DEF InstallAgent
<1>31. ASSUME NEW h \in Host, AgentRegisters(h) PROVE Accounted'
  BY <1>31 DEF AgentRegisters
<1>32. ASSUME NEW h \in Host, RemoveAgent(h) PROVE Accounted'
  BY <1>32 DEF RemoveAgent
<1>33. ASSUME StartQuickstart PROVE Accounted'
  BY <1>33 DEF StartQuickstart
<1>34. ASSUME LoggedIn PROVE Accounted'
  BY <1>34 DEF LoggedIn
<1>35. ASSUME NotAdmitted PROVE Accounted'
  BY <1>35 DEF NotAdmitted, End
<1>36. ASSUME NEW S \in SUBSET Host, ParseHosts(S) PROVE Accounted'
  BY <1>36 DEF ParseHosts
<1>37. ASSUME NEW S \in SUBSET Host, OfferHosts(S) PROVE Accounted'
  BY <1>37 DEF OfferHosts, Advance
<1>38. ASSUME NEW h \in Host, UnlockHost(h) PROVE Accounted'
  BY <1>38 DEF UnlockHost
<1>39. ASSUME NEW u \in SshUser, EnvExists(u) PROVE Accounted'
  BY <1>39 DEF EnvExists, HostsOf
<1>40. ASSUME NEW u \in SshUser, PolicyExists(u) PROVE Accounted'
  BY <1>40 DEF PolicyExists, HostsOf
<1>41. CASE UNCHANGED vars
  BY <1>41 DEF vars
<1>42. QED
  BY <1>1, <1>2, <1>3, <1>4, <1>5, <1>6, <1>7, <1>8, <1>9, <1>10, <1>11,
     <1>12, <1>13, <1>14, <1>15, <1>16, <1>17, <1>18, <1>19, <1>20, <1>21,
     <1>22, <1>23, <1>24, <1>25, <1>26, <1>27, <1>28, <1>29, <1>30, <1>31,
     <1>32, <1>33, <1>34, <1>35, <1>36, <1>37, <1>38, <1>39, <1>40,
     <1>41
     DEF Next, HostStep, HandlerStep, UserStep, MachineStep

\* When quickstart ends, each host the user wanted is added and covered by a
\* policy, or the user was told.
THEOREM NothingDroppedAlways == Spec => []NothingDropped
<1>1. Init => Connections /\ Accounted
  BY DEF Init, Opening, Connections, ConnectionsClosed, Accounted,
     NothingDropped
<1>2. Accounted => NothingDropped
  BY DEF Accounted
<1>3. QED
  BY <1>1, <1>2, ConnectionsStep, AccountedStep, TypeCorrect, PTL DEF Spec

-----------------------------------------------------------------------------
(* Types of Policies *)

\* The first lookup of each handler, whichever it is.
Beginning(c) == \E op \in {"add", "delete"}, S \in SUBSET Entry, l \in {"looking", "reading"} :
                  Begin(c, op, S, l)

LEMMA Handlers ==
  ASSUME NEW c \in Editor,
         \/ AddUser(c) \/ DeleteUser(c) \/ AddSubject(c) \/ DeleteSubject(c)
         \/ AddGroup(c) \/ DeleteGroup(c) \/ AddTargetUser(c)
         \/ DeleteTargetUser(c) \/ AddTargetGroup(c) \/ DeleteTargetGroup(c)
  PROVE  Beginning(c)
<1>1. /\ User \in SUBSET Entry /\ Subject \in SUBSET Entry /\ Group \in SUBSET Entry
      /\ TargetUser \in SUBSET Entry /\ TargetGroup \in SUBSET Entry
  BY DEF Entry, Subject
<1>2. CASE AddUser(c) \/ DeleteUser(c) \/ AddSubject(c) \/ DeleteSubject(c)
  BY <1>1, <1>2 DEF AddUser, DeleteUser, AddSubject, DeleteSubject, Beginning
<1>3. CASE AddGroup(c) \/ DeleteGroup(c) \/ AddTargetUser(c) \/ DeleteTargetUser(c)
  BY <1>1, <1>3 DEF AddGroup, DeleteGroup, AddTargetUser, DeleteTargetUser, Beginning
<1>4. CASE AddTargetGroup(c) \/ DeleteTargetGroup(c)
  BY <1>1, <1>4 DEF AddTargetGroup, DeleteTargetGroup, Beginning
<1> QED BY <1>2, <1>3, <1>4

Creating(c) == \E k \in Kind : BeginCreate(c, k)

LEMMA CreateHandlers ==
  ASSUME NEW c \in Creator,
         \/ CreateClusterPolicy(c) \/ CreateTConnectPolicy(c)
         \/ CreateProxyPolicy(c) \/ CreateRecordingPolicy(c)
  PROVE  Creating(c)
  BY DEF CreateClusterPolicy, CreateTConnectPolicy, CreateProxyPolicy,
         CreateRecordingPolicy, Creating, Kind, Rank

\* What happens in a step, one case for each kind of action.
LEMMA Steps ==
  ASSUME [PoliciesNext]_policyVars, NEW G,
         \A c \in Editor : Beginning(c) => G,
         \A c \in Editor : Lookup(c) => G,
         \A c \in Editor : EditorFails(c) => G,
         \A c \in Editor : NoSuchPolicy(c) => G,
         \A c \in Editor : \A k \in Kind : ListPolicies(c, k) => G,
         \A c \in Editor : \A p \in Policy : Refuse(c, p) => G,
         \A c \in Editor : \A p \in Policy : EditPolicy(c, p) => G,
         \A c \in Creator : Creating(c) => G,
         \A c \in Creator : CreatorFails(c) => G,
         \A c \in Creator : UnknownTarget(c) => G,
         \A c \in Creator : ResolveTargets(c) => G,
         \A c \in Creator : ExitDone(c) => G,
         \A c \in Creator : \A p \in Policy : AddPolicy(c, p) => G,
         UNCHANGED policyVars => G
  PROVE  G
<1>1. ASSUME NEW c \in Editor, EditorStep(c) PROVE G
  BY <1>1, Handlers DEF EditorStep
<1>2. ASSUME NEW c \in Creator, CreatorStep(c) PROVE G
  BY <1>2, CreateHandlers DEF CreatorStep
<1> QED BY <1>1, <1>2 DEF PoliciesNext

LEMMA PoliciesTypeStep == PoliciesTypeOK /\ [PoliciesNext]_policyVars => PoliciesTypeOK'
<1> SUFFICES ASSUME PoliciesTypeOK, [PoliciesNext]_policyVars PROVE PoliciesTypeOK'
  OBVIOUS
<1> USE DEF PoliciesTypeOK, atService, editors, creators, GoesTo
<1>1. ASSUME NEW c \in Editor, Beginning(c) PROVE PoliciesTypeOK'
  <2>1. Searched(job[c].entry) \subseteq Kind
    BY DEF Searched, Kind, Rank
  <2> QED BY <1>1, <2>1 DEF Beginning, Begin
<1>2. ASSUME NEW c \in Editor, Lookup(c) \/ EditorFails(c) \/ NoSuchPolicy(c)
      PROVE  PoliciesTypeOK'
  BY <1>2 DEF Lookup, EditorFails, NoSuchPolicy
<1>3. ASSUME NEW c \in Editor, NEW k \in Kind, ListPolicies(c, k) PROVE PoliciesTypeOK'
  BY <1>3 DEF ListPolicies
<1>4. ASSUME NEW c \in Editor, NEW p \in Policy, Refuse(c, p) PROVE PoliciesTypeOK'
  BY <1>4 DEF Refuse
<1>5. ASSUME NEW c \in Editor, NEW p \in Policy, EditPolicy(c, p) PROVE PoliciesTypeOK'
  <2>1. job[c] \in Job
    BY PoliciesAssumption
  <2>2. Edited(c, p) \in SUBSET Entry
    BY <2>1 DEF Edited, Job
  <2> QED BY <1>5, <2>2 DEF EditPolicy
<1>6. ASSUME NEW c \in Creator, Creating(c) \/ CreatorFails(c) \/ UnknownTarget(c)
      PROVE  PoliciesTypeOK'
  BY <1>6 DEF Creating, BeginCreate, CreatorFails, UnknownTarget
<1>7. ASSUME NEW c \in Creator, ResolveTargets(c) \/ ExitDone(c) PROVE PoliciesTypeOK'
  BY <1>7 DEF ResolveTargets, ExitDone
<1>8. ASSUME NEW c \in Creator, NEW p \in Policy, AddPolicy(c, p) PROVE PoliciesTypeOK'
  <2>1. order[c] \in Order
    BY PoliciesAssumption
  <2>2. order[c].who \in SUBSET Entry /\ order[c].ids \in SUBSET Identifier
    BY <2>1 DEF Order, Entry
  <2> QED BY <1>8, <2>2 DEF AddPolicy
<1>9. CASE UNCHANGED policyVars
  BY <1>9 DEF policyVars
<1> HIDE DEF PoliciesTypeOK
<1> QED BY <1>1, <1>2, <1>3, <1>4, <1>5, <1>6, <1>7, <1>8, <1>9, Steps

LEMMA PoliciesTypeInit == PoliciesInit => PoliciesTypeOK
<1> SUFFICES ASSUME PoliciesInit PROVE PoliciesTypeOK
  OBVIOUS
<1>1. members \in [Policy -> SUBSET Entry]
  BY DEF PoliciesInit, Fits
<1> QED BY <1>1 DEF PoliciesInit, PoliciesTypeOK

\* Every variable keeps its type.
THEOREM PoliciesTypeCorrect == PoliciesSpec => []PoliciesTypeOK
  BY PoliciesTypeInit, PoliciesTypeStep, PTL DEF PoliciesSpec

-----------------------------------------------------------------------------
(* Created policies *)

LEMMA GrantsStep == PoliciesTypeOK /\ GrantsWhatWasNamed /\ [PoliciesNext]_policyVars => GrantsWhatWasNamed'
<1> SUFFICES ASSUME PoliciesTypeOK, GrantsWhatWasNamed, [PoliciesNext]_policyVars PROVE GrantsWhatWasNamed'
  OBVIOUS
<1>1. ASSUME targets' = targets, named' = named PROVE GrantsWhatWasNamed'
  BY <1>1 DEF GrantsWhatWasNamed, Meaning
<1>2. ASSUME NEW c \in Creator, NEW p \in Policy, AddPolicy(c, p)
      PROVE  GrantsWhatWasNamed'
  <2>1. PICK first \in [order[c].ids -> Target] :
          /\ \A i \in order[c].ids : first[i] \in Meaning(order[c].kind, i)
          /\ targets' = [targets EXCEPT ![p] = {first[i] : i \in order[c].ids}]
    BY <1>2 DEF AddPolicy
  <2>2. named' = [named EXCEPT ![p] = order[c].ids] /\ KindOf[p] = order[c].kind
    BY <1>2 DEF AddPolicy
  <2>3. ASSUME NEW q \in Policy, q # p
        PROVE  targets'[q] = targets[q] /\ named'[q] = named[q]
    BY <2>1, <2>2, <2>3 DEF PoliciesTypeOK
  <2>4. targets'[p] = {first[i] : i \in order[c].ids} /\ named'[p] = order[c].ids
    BY <2>1, <2>2 DEF PoliciesTypeOK
  <2>5. \A i \in order[c].ids : first[i] \in targets'[p] \cap Meaning(KindOf[p], i)
    BY <2>1, <2>2, <2>4
  <2> QED BY <2>3, <2>4, <2>5 DEF GrantsWhatWasNamed, Meaning
<1> USE DEF atService, editors, creators
<1>3. ASSUME NEW c \in Editor, Beginning(c) PROVE targets' = targets /\ named' = named
  BY <1>3 DEF Beginning, Begin
<1>4. ASSUME NEW c \in Editor, Lookup(c) \/ EditorFails(c) \/ NoSuchPolicy(c)
      PROVE  targets' = targets /\ named' = named
  BY <1>4 DEF Lookup, EditorFails, NoSuchPolicy
<1>5. ASSUME NEW c \in Editor, NEW k \in Kind, ListPolicies(c, k)
      PROVE  targets' = targets /\ named' = named
  BY <1>5 DEF ListPolicies
<1>6. ASSUME NEW c \in Editor, NEW p \in Policy, Refuse(c, p) \/ EditPolicy(c, p)
      PROVE  targets' = targets /\ named' = named
  BY <1>6 DEF Refuse, EditPolicy
<1>7. ASSUME NEW c \in Creator,
             \/ Creating(c) \/ CreatorFails(c) \/ UnknownTarget(c)
             \/ ResolveTargets(c) \/ ExitDone(c)
      PROVE  targets' = targets /\ named' = named
  BY <1>7 DEF Creating, BeginCreate, CreatorFails, UnknownTarget, ResolveTargets, ExitDone
<1>8. UNCHANGED policyVars => targets' = targets /\ named' = named
  BY DEF policyVars
<1> HIDE DEF atService, editors, creators
<1> QED BY <1>1, <1>2, <1>3, <1>4, <1>5, <1>6, <1>7, <1>8, Steps

\* A created policy covers, for every identifier, a target it refers to, and
\* no other target.
THEOREM GrantsAlways == PoliciesSpec => []GrantsWhatWasNamed
<1>1. PoliciesInit => GrantsWhatWasNamed
  BY DEF PoliciesInit, GrantsWhatWasNamed
<1> QED BY <1>1, GrantsStep, PoliciesTypeCorrect, PTL DEF PoliciesSpec

-----------------------------------------------------------------------------
(* Edits.  What a command has read of a policy may be out of date, but it    *)
(* differs from what the policy granted at first only in entries that were   *)
(* asked about, as the policy itself does.                                   *)

AskedFor(p) == {e \in Entry : Asked(p, e)}

\* S differs from O in entries of A only, and fits the kind k.
Explained(S, O, k, A) ==
  S \subseteq Fits(k) /\ \A e \in Entry : (e \in S) # (e \in O) => e \in A

Copies ==
  \A c \in Editor :
    /\ unread[c] \subseteq Searched(job[c].entry)
    /\ \A p \in seen[c] :
         /\ p \in exists
         /\ KindOf[p] \in Searched(job[c].entry)
         /\ Explained(copy[c][p], original[p], KindOf[p], AskedFor(p))

Stored ==
  \A p \in Policy : Explained(members[p], original[p], KindOf[p], AskedFor(p))

EditInv == Copies /\ Stored

LEMMA MoreAsked ==
  ASSUME NEW S, NEW O, NEW k, NEW A, NEW B, A \subseteq B, Explained(S, O, k, A)
  PROVE  Explained(S, O, k, B)
  BY DEF Explained

\* An explanation is never taken back.
LEMMA AskedStays ==
  ASSUME PoliciesTypeOK, NEW c \in Editor \cup Creator, NEW l,
         step' = [step EXCEPT ![c] = l], job' = job,
         step[c] \in {"reading", "done", "exited"} => l \in {"reading", "done", "exited"}
  PROVE  \A p \in Policy : AskedFor(p) \subseteq AskedFor(p)'
  BY DEF Asked, AskedFor, PoliciesTypeOK

LEMMA AskedUnchanged ==
  ASSUME \A c \in Editor : step'[c] = step[c], job' = job
  PROVE  \A p \in Policy : AskedFor(p) \subseteq AskedFor(p)'
  BY DEF Asked, AskedFor

\* A step that does not edit policies keeps what is stored explained ...
LEMMA StoredStays ==
  ASSUME Stored, members' = members, original' = original,
         \A p \in Policy : AskedFor(p) \subseteq AskedFor(p)'
  PROVE  Stored'
<1>1. ASSUME NEW p \in Policy
      PROVE  Explained(members[p], original[p], KindOf[p], AskedFor(p)')
  BY <1>1, MoreAsked DEF Stored
<1> QED BY <1>1 DEF Stored

\* ... and one that reads none, what was read.
LEMMA CopiesStay ==
  ASSUME PoliciesTypeOK, Copies, UNCHANGED <<job, seen, copy>>, exists \subseteq exists',
         \A p \in exists : original'[p] = original[p],
         \A c \in Editor : unread'[c] \subseteq Searched(job[c].entry),
         \A p \in Policy : AskedFor(p) \subseteq AskedFor(p)'
  PROVE  Copies'
<1>1. ASSUME NEW c \in Editor, NEW p \in seen[c]
      PROVE  /\ p \in exists' /\ KindOf[p] \in Searched(job[c].entry)
             /\ Explained(copy[c][p], original'[p], KindOf[p], AskedFor(p)')
  <2>1. /\ p \in Policy /\ p \in exists /\ KindOf[p] \in Searched(job[c].entry)
        /\ Explained(copy[c][p], original[p], KindOf[p], AskedFor(p))
    BY <1>1 DEF PoliciesTypeOK, Copies
  <2> QED BY <2>1, MoreAsked
<1> QED BY <1>1 DEF Copies

LEMMA Bystander ==
  ASSUME PoliciesTypeOK, EditInv, UNCHANGED <<exists, members, original, job, seen, copy>>,
         \A c \in Editor : unread'[c] \subseteq Searched(job[c].entry),
         \A p \in Policy : AskedFor(p) \subseteq AskedFor(p)'
  PROVE  EditInv'
  BY StoredStays, CopiesStay DEF EditInv

LEMMA EditStep == PoliciesTypeOK /\ EditInv /\ [PoliciesNext]_policyVars => EditInv'
<1> SUFFICES ASSUME PoliciesTypeOK, EditInv, [PoliciesNext]_policyVars PROVE EditInv'
  OBVIOUS
<1> USE DEF atService, editors, creators, GoesTo
<1>0. \A d \in Editor : unread[d] \subseteq Searched(job[d].entry)
  BY DEF EditInv, Copies
<1>1. ASSUME NEW c \in Editor, Beginning(c) PROVE EditInv'
  <2>1. \A d \in Editor : unread'[d] \subseteq Searched(job[d].entry)
    BY <1>0, <1>1 DEF Beginning, Begin, PoliciesTypeOK
  <2>2. \A p \in Policy : AskedFor(p) \subseteq AskedFor(p)'
    BY <1>1, AskedStays DEF Beginning, Begin
  <2> QED BY <1>1, <2>1, <2>2, Bystander DEF Beginning, Begin
<1>2. ASSUME NEW c \in Editor, Lookup(c) \/ EditorFails(c) \/ NoSuchPolicy(c)
      PROVE  EditInv'
  <2>1. \A p \in Policy : AskedFor(p) \subseteq AskedFor(p)'
    BY <1>2, AskedStays DEF Lookup, EditorFails, NoSuchPolicy
  <2> QED BY <1>0, <1>2, <2>1, Bystander DEF Lookup, EditorFails, NoSuchPolicy
<1>3. ASSUME NEW c \in Editor, NEW k \in Kind, ListPolicies(c, k) PROVE EditInv'
  <2>1. \A p \in Policy : AskedFor(p) \subseteq AskedFor(p)'
    BY <1>3, AskedUnchanged DEF ListPolicies
  <2>2. Stored'
    BY <1>3, <2>1, StoredStays DEF ListPolicies, EditInv
  <2>3. ASSUME NEW d \in Editor, NEW p \in seen'[d]
        PROVE  /\ p \in exists' /\ KindOf[p] \in Searched(job'[d].entry)
               /\ Explained(copy'[d][p], original'[p], KindOf[p], AskedFor(p)')
    <3>1. CASE p \in seen[d] /\ (d # c \/ KindOf[p] # k)
      <4>1. copy'[d][p] = copy[d][p] /\ p \in Policy
        BY <1>3, <3>1 DEF ListPolicies, PoliciesTypeOK
      <4>2. /\ p \in exists /\ KindOf[p] \in Searched(job[d].entry)
            /\ Explained(copy[d][p], original[p], KindOf[p], AskedFor(p))
        BY <3>1 DEF EditInv, Copies
      <4> QED BY <1>3, <2>1, <4>1, <4>2, MoreAsked DEF ListPolicies
    <3>2. CASE d = c /\ p \in exists /\ KindOf[p] = k
      <4>1. copy'[d][p] = members[p] /\ p \in Policy /\ k \in Searched(job[c].entry)
        BY <1>0, <1>3, <3>2 DEF ListPolicies, PoliciesTypeOK
      <4>2. Explained(members[p], original[p], KindOf[p], AskedFor(p)')
        BY <1>3, <2>2, <4>1 DEF Stored, ListPolicies
      <4> QED BY <1>3, <3>2, <4>1, <4>2 DEF ListPolicies
    <3>3. p \in seen[c] => p \in exists
      BY DEF EditInv, Copies
    <3> QED BY <1>3, <2>3, <3>1, <3>2, <3>3 DEF ListPolicies, PoliciesTypeOK
  <2>4. \A d \in Editor : unread'[d] \subseteq Searched(job'[d].entry)
    BY <1>0, <1>3 DEF ListPolicies, PoliciesTypeOK
  <2>5. Copies'
    BY <2>3, <2>4 DEF Copies
  <2> QED BY <2>2, <2>5 DEF EditInv
<1>4. ASSUME NEW c \in Editor, NEW p \in Policy, Refuse(c, p) PROVE EditInv'
  <2>1. \A q \in Policy : AskedFor(q) \subseteq AskedFor(q)'
    BY <1>4, AskedStays DEF Refuse
  <2> QED BY <1>0, <1>4, <2>1, Bystander DEF Refuse
<1>5. ASSUME NEW c \in Editor, NEW p \in Policy, EditPolicy(c, p) PROVE EditInv'
  <2>1. \A q \in Policy : AskedFor(q) \subseteq AskedFor(q)'
    BY <1>5, AskedStays DEF EditPolicy
  <2>2. Copies'
    BY <1>0, <1>5, <2>1, CopiesStay DEF EditPolicy, EditInv
  <2>3. /\ p \in seen[c] /\ NameOf[p] = job[c].name /\ job[c] \in Job
        /\ members'[p] = Edited(c, p)
    BY <1>5, PoliciesAssumption DEF EditPolicy, Found, PoliciesTypeOK
  <2>4. /\ Explained(copy[c][p], original[p], KindOf[p], AskedFor(p)')
        /\ KindOf[p] \in Searched(job[c].entry)
    BY <2>1, <2>3, MoreAsked DEF EditInv, Copies
  <2>5. job[c].entry \in AskedFor(p)'
    BY <1>5, <2>3 DEF EditPolicy, Asked, AskedFor, PoliciesTypeOK, Job
  <2>6. Explained(Edited(c, p), original[p], KindOf[p], AskedFor(p)')
    BY <2>3, <2>4, <2>5 DEF Explained, Edited, Fits, Job
  <2>7. ASSUME NEW q \in Policy
        PROVE  Explained(members'[q], original[q], KindOf[q], AskedFor(q)')
    <3>1. CASE q = p
      BY <2>3, <2>6, <3>1
    <3>2. CASE q # p
      <4>1. members'[q] = members[q]
        BY <1>5, <3>2 DEF EditPolicy, PoliciesTypeOK
      <4> QED BY <2>1, <4>1, MoreAsked DEF EditInv, Stored
    <3> QED BY <3>1, <3>2
  <2>8. Stored'
    BY <1>5, <2>7 DEF Stored, EditPolicy
  <2> QED BY <2>2, <2>8 DEF EditInv
<1>6. ASSUME NEW c \in Creator,
             \/ Creating(c) \/ CreatorFails(c) \/ UnknownTarget(c)
             \/ ResolveTargets(c) \/ ExitDone(c)
      PROVE  EditInv'
  <2>1. c \notin Editor
    BY <1>6, PoliciesAssumption
  <2>2. /\ UNCHANGED <<exists, members, original, editors>>
        /\ \A d \in Editor : step'[d] = step[d]
    BY <1>6, <2>1 DEF Creating, BeginCreate, CreatorFails, UnknownTarget,
                      ResolveTargets, ExitDone, PoliciesTypeOK
  <2>3. \A p \in Policy : AskedFor(p) \subseteq AskedFor(p)'
    BY <2>2, AskedUnchanged
  <2> QED BY <1>0, <2>2, <2>3, Bystander
<1>7. ASSUME NEW c \in Creator, NEW p \in Policy, AddPolicy(c, p) PROVE EditInv'
  <2>1. c \notin Editor /\ order[c] \in Order
    BY <1>7, PoliciesAssumption DEF PoliciesTypeOK
  <2>2. /\ UNCHANGED editors /\ \A d \in Editor : step'[d] = step[d]
        /\ p \notin exists /\ exists' = exists \cup {p}
        /\ members'[p] = order[c].who /\ original'[p] = order[c].who
        /\ \A q \in Policy \ {p} : members'[q] = members[q] /\ original'[q] = original[q]
    BY <1>7, <2>1 DEF AddPolicy, PoliciesTypeOK
  <2>3. \A q \in Policy : AskedFor(q) \subseteq AskedFor(q)'
    BY <2>2, AskedUnchanged
  <2>4. Copies'
    <3>1. \A q \in exists : original'[q] = original[q]
      BY <2>2 DEF PoliciesTypeOK
    <3> QED BY <1>0, <2>2, <2>3, <3>1, CopiesStay DEF EditInv
  <2>5. ASSUME NEW q \in Policy
        PROVE  Explained(members'[q], original'[q], KindOf[q], AskedFor(q)')
    <3>1. CASE q = p
      <4>1. KindOf[p] \in Kind /\ order[c].who \subseteq Subject \cup Group
        BY <2>1, PoliciesAssumption DEF Order
      <4>2. order[c].who \subseteq Fits(KindOf[p])
        BY <4>1, PoliciesAssumption DEF Fits, Searched, Entry
      <4> QED BY <2>2, <3>1, <4>2 DEF Explained
    <3>2. CASE q # p
      BY <2>2, <2>3, <3>2, MoreAsked DEF EditInv, Stored
    <3> QED BY <3>1, <3>2
  <2> QED BY <2>4, <2>5 DEF EditInv, Stored
<1>8. CASE UNCHANGED policyVars
  <2>1. UNCHANGED <<exists, members, original, job, seen, copy, step, unread>>
    BY <1>8 DEF policyVars
  <2>2. \A p \in Policy : AskedFor(p) \subseteq AskedFor(p)'
    BY <2>1, AskedUnchanged
  <2> QED BY <1>0, <2>1, <2>2, Bystander
<1> HIDE DEF atService, editors, creators, GoesTo
<1> QED BY <1>1, <1>2, <1>3, <1>4, <1>5, <1>6, <1>7, <1>8, Steps

LEMMA EditInit == PoliciesInit => EditInv
<1> SUFFICES ASSUME PoliciesInit PROVE EditInv
  OBVIOUS
<1>1. \A p \in Policy : members[p] \subseteq Fits(KindOf[p])
  BY DEF PoliciesInit
<1>2. Stored
  BY <1>1 DEF PoliciesInit, Stored, Explained
<1> QED BY <1>2 DEF PoliciesInit, EditInv, Copies

\* A policy differs from what it granted at first only in entries that
\* commands were asked about under its name.
THEOREM OnlyAskedAlways == PoliciesSpec => []OnlyAskedChanges
<1>1. EditInv => OnlyAskedChanges
  BY DEF EditInv, Stored, Explained, AskedFor, OnlyAskedChanges
<1> QED BY <1>1, EditInit, EditStep, PoliciesTypeCorrect, PTL DEF PoliciesSpec

\* A policy grants only what its kind has a field for.
THEOREM FieldsFitAlways == PoliciesSpec => []FieldsFit
<1>1. EditInv => FieldsFit
  BY DEF EditInv, Stored, Explained, FieldsFit
<1> QED BY <1>1, EditInit, EditStep, PoliciesTypeCorrect, PTL DEF PoliciesSpec
=============================================================================

----------------------------- MODULE Quickstart -----------------------------
(***************************************************************************)
(* `zli quickstart' adds the hosts of the user's ssh configuration to      *)
(* BastionZero: the user logs in, picks hosts and unlocks their keys, an   *)
(* environment is made sure of for each ssh user name, all hosts are       *)
(* registered at the same time over ssh, and a policy is made sure of for  *)
(* each user name.  It may be run again and again; what it left at the     *)
(* service and on the hosts is what the next run finds.                    *)
(*                                                                         *)
(* User names that differ in case are one: the program takes them for the  *)
(* same.  Hosts are different machines with different hostnames.           *)
(***************************************************************************)
EXTENDS Naturals

CONSTANTS
  Host,       \* the hosts that an ssh configuration may name
  Encrypted,  \* hosts whose key is encrypted
  SshUser,       \* ssh user names, in lower case
  MaxReg      \* bound on the times a machine is registered

ASSUME QuickstartAssumption == MaxReg \in Nat /\ Encrypted \subseteq Host

VARIABLES
  name,       \* the user name of each host in the ssh configuration
  main,       \* where quickstartHandler is
  todo,       \* hosts this stage has still to treat
  chosen,     \* hosts it hands to the next one
  selected,   \* hosts the user wants added
  told,       \* hosts the user was told are not added, or have no policy
  cancelled,  \* the user has pressed CTRL-C while hosts were added
  pc,         \* where addSSHHostToBastionZero is for each host
  conn,       \* hosts an ssh connection is open to
  before,     \* targets of a host's name that were there before its install
  reg,        \* targets the service has under the host's name
  agent,      \* the agent on each machine
  envs,       \* users whose environment exists at the service
  policies    \* users whose policy exists at the service

handler == <<main, todo, chosen, selected, told, cancelled>>
jobs == <<pc, conn, before>>
service == <<reg, envs, policies>>
machines == <<agent, name>>
vars == <<handler, jobs, service, machines>>

\* The stages before the user has selected hosts.
Opening == {"idle", "login", "parsing", "reading", "choosing"}

Settled == {"idle", "added", "failed"}
Unsettled == {"listing", "connecting", "checking", "fetching", "running",
              "naming", "closing", "giving up", "polling"}

TypeOK ==
  /\ name \in [Host -> SshUser]
  /\ main \in Opening \cup {"keys", "envs", "adding", "policies", "saving"}
  /\ todo \subseteq Host /\ chosen \subseteq Host /\ selected \subseteq Host
  /\ told \subseteq Host /\ conn \subseteq Host
  /\ cancelled \in BOOLEAN
  /\ pc \in [Host -> Settled \cup Unsettled \cup {"stuck"}]
  /\ before \in [Host -> 0 .. MaxReg] /\ reg \in [Host -> 0 .. MaxReg]
  /\ agent \in [Host -> {"none", "installed", "registered"}]
  /\ envs \subseteq SshUser /\ policies \subseteq SshUser

Init ==
  /\ name \in [Host -> SshUser]
  /\ main = "idle" /\ cancelled = FALSE
  /\ todo = {} /\ chosen = {} /\ selected = {} /\ told = {}
  /\ pc = [h \in Host |-> "idle"] /\ conn = {}
  /\ before = [h \in Host |-> 0] /\ reg = [h \in Host |-> 0]
  /\ agent = [h \in Host |-> "none"]
  /\ envs = {} /\ policies = {}

Goto(h, l) == pc' = [pc EXCEPT ![h] = l]
Added == {h \in Host : pc[h] = "added"}
HostsOf(u) == {h \in todo : name[h] = u}

\* The next stage treats the hosts in S; without any, quickstart ends.
Advance(stage, S) ==
  /\ main' = IF S = {} THEN "saving" ELSE stage
  /\ todo' = S
  /\ chosen' = {}

-----------------------------------------------------------------------------
(* Slips that a change to the code could make, one per operator.             *)

\* the hosts of a user without a policy are skipped in silence.
FailInSilence(u) ==
  /\ main = "policies" /\ HostsOf(u) # {}
  /\ todo' = todo \ HostsOf(u)
  /\ UNCHANGED <<main, chosen, selected, told, cancelled, jobs, service,
                 machines>>

\* an agent that is already there fails before the try block.
SkipWithoutClose(h) ==
  /\ pc[h] = "checking" /\ agent[h] # "none"
  /\ Goto(h, "failed")
  /\ told' = told \cup {h}
  /\ UNCHANGED <<main, todo, chosen, selected, cancelled, conn, before,
                 service, machines>>

\* the poll has no limit.
PollForever(h) ==
  /\ pc[h] = "polling" /\ reg[h] > before[h]
  /\ Goto(h, "failed")
  /\ told' = told \cup {h}
  /\ UNCHANGED <<main, todo, chosen, selected, cancelled, conn, before,
                 service, machines>>

-----------------------------------------------------------------------------
(* The login, the ssh configuration and the keys *)

\* The configuration file is there.
StartQuickstart ==
  /\ main = "idle"
  /\ main' = "login"
  /\ UNCHANGED <<todo, chosen, selected, told, cancelled, jobs, service,
                 machines>>

\* Logged in already or now, as a user who is an administrator.
LoggedIn ==
  /\ main = "login"
  /\ main' = "parsing"
  /\ UNCHANGED <<todo, chosen, selected, told, cancelled, jobs, service,
                 machines>>

\* Of the blocks of a name the first counts; one that lacks the address, the
\* user or the key file is no host.  V are the hosts that remain.
ParseHosts(V) ==
  /\ main = "parsing"
  /\ main' = "reading"
  /\ todo' = V
  /\ UNCHANGED <<chosen, selected, told, cancelled, jobs, service, machines>>

\* R are the parsed hosts whose key file can be read now.
OfferHosts(R) ==
  /\ main = "reading" /\ R \subseteq todo
  /\ Advance("choosing", R)
  /\ UNCHANGED <<selected, told, cancelled, jobs, service, machines>>

SelectHosts(S) ==
  /\ main = "choosing" /\ S \subseteq todo
  /\ selected' = S
  /\ Advance("keys", S)
  /\ UNCHANGED <<told, cancelled, jobs, service, machines>>

\* A key that is missing or cannot be parsed is found out when it is used.
TakeHost(h) ==
  /\ main = "keys" /\ h \in todo \ Encrypted
  /\ todo' = todo \ {h}
  /\ chosen' = chosen \cup {h}
  /\ UNCHANGED <<main, selected, told, cancelled, jobs, service, machines>>

\* The prompt accepts only a passphrase that decrypts the key.
UnlockHost(h) ==
  /\ main = "keys" /\ h \in todo \cap Encrypted
  /\ todo' = todo \ {h}
  /\ chosen' = chosen \cup {h}
  /\ UNCHANGED <<main, selected, told, cancelled, jobs, service, machines>>

\* The prompt was cancelled, and the host is to be skipped.
SkipHost(h) ==
  /\ main = "keys" /\ h \in todo \cap Encrypted
  /\ todo' = todo \ {h}
  /\ told' = told \cup {h}
  /\ UNCHANGED <<main, chosen, selected, cancelled, jobs, service, machines>>

Confirm ==
  /\ main = "keys" /\ todo = {}
  /\ Advance("envs", chosen)
  /\ UNCHANGED <<selected, told, cancelled, jobs, service, machines>>

\* The user cancels a prompt, or answers that quickstart is to be left.
Decline ==
  /\ main \in {"choosing", "keys"}
  /\ main' = "saving" /\ selected' = {}
  /\ UNCHANGED <<todo, chosen, told, cancelled, jobs, service, machines>>

-----------------------------------------------------------------------------
(* createEnvForUniqueUsernames *)

EnvExists(u) ==
  /\ main = "envs" /\ HostsOf(u) # {} /\ u \in envs
  /\ todo' = todo \ HostsOf(u)
  /\ chosen' = chosen \cup HostsOf(u)
  /\ UNCHANGED <<main, selected, told, cancelled, jobs, service, machines>>

CreateEnv(u) ==
  /\ main = "envs" /\ HostsOf(u) # {} /\ u \notin envs
  /\ envs' = envs \cup {u}
  /\ todo' = todo \ HostsOf(u)
  /\ chosen' = chosen \cup HostsOf(u)
  /\ UNCHANGED <<main, selected, told, cancelled, jobs, reg, policies,
                 machines>>

\* The service may have created it although the request failed.
EnvFails(u) ==
  /\ main = "envs" /\ HostsOf(u) # {}
  /\ envs' \in {envs, envs \cup {u}}
  /\ todo' = todo \ HostsOf(u)
  /\ told' = told \cup HostsOf(u)
  /\ UNCHANGED <<main, chosen, selected, cancelled, jobs, reg, policies,
                 machines>>

\* All hosts start at the same time.
StartAdding ==
  /\ main = "envs" /\ todo = {}
  /\ Advance("adding", chosen)
  /\ pc' = [h \in Host |-> IF h \in chosen THEN "listing" ELSE "idle"]
  /\ UNCHANGED <<selected, told, cancelled, conn, before, service, machines>>

-----------------------------------------------------------------------------
(* addSSHHostToBastionZero, for each host *)

ListPreexisting(h) ==
  /\ pc[h] = "listing"
  /\ before' = [before EXCEPT ![h] = reg[h]]
  /\ Goto(h, "connecting")
  /\ UNCHANGED <<handler, conn, service, machines>>

Connect(h) ==
  /\ pc[h] = "connecting"
  /\ conn' = conn \cup {h}
  /\ Goto(h, "checking")
  /\ UNCHANGED <<handler, before, service, machines>>

\* Without a connection there is nothing to close.
FailsEarly(h) ==
  /\ pc[h] \in {"listing", "connecting"}
  /\ Goto(h, "failed")
  /\ told' = told \cup {h}
  /\ UNCHANGED <<main, todo, chosen, selected, cancelled, conn, before,
                 service, machines>>

AlreadyInstalled(h) ==
  /\ pc[h] = "checking" /\ agent[h] # "none"
  /\ Goto(h, "giving up")
  /\ UNCHANGED <<handler, conn, before, service, machines>>

\* Whatever goes wrong with the question means that there is no agent.
NotInstalled(h) ==
  /\ pc[h] = "checking"
  /\ Goto(h, "fetching")
  /\ UNCHANGED <<handler, conn, before, service, machines>>

RunScript(h) ==
  /\ pc[h] = "fetching"
  /\ Goto(h, "running")
  /\ UNCHANGED <<handler, conn, before, service, machines>>

ScriptSucceeds(h) ==
  /\ pc[h] = "running" /\ agent[h] # "none"
  /\ Goto(h, "naming")
  /\ UNCHANGED <<handler, conn, before, service, machines>>

\* The script cannot be had or started, or fails, or the hostname is empty.
ScriptFails(h) ==
  /\ pc[h] \in {"fetching", "running", "naming"}
  /\ Goto(h, "giving up")
  /\ UNCHANGED <<handler, conn, before, service, machines>>

TargetNamed(h) ==
  /\ pc[h] = "naming"
  /\ Goto(h, "closing")
  /\ UNCHANGED <<handler, conn, before, service, machines>>

\* The command that asks for the hostname throws in the listener of the close
\* event: nobody settles the promise.
NamingThrows(h) ==
  /\ pc[h] = "naming"
  /\ Goto(h, "stuck")
  /\ UNCHANGED <<handler, conn, before, service, machines>>

CloseConnection(h) ==
  /\ pc[h] = "closing"
  /\ conn' = conn \ {h}
  /\ Goto(h, "polling")
  /\ UNCHANGED <<handler, before, service, machines>>

CloseFailed(h) ==
  /\ pc[h] = "giving up"
  /\ conn' = conn \ {h}
  /\ Goto(h, "failed")
  /\ told' = told \cup {h}
  /\ UNCHANGED <<main, todo, chosen, selected, cancelled, before, service,
                 machines>>

TargetOnline(h) ==
  /\ pc[h] = "polling" /\ reg[h] > before[h]
  /\ Goto(h, "added")
  /\ UNCHANGED <<handler, conn, before, service, machines>>

\* Sixty times the target was not there, not online, or could not be asked for.
PollGivesUp(h) ==
  /\ pc[h] = "polling"
  /\ Goto(h, "failed")
  /\ told' = told \cup {h}
  /\ UNCHANGED <<main, todo, chosen, selected, cancelled, conn, before,
                 service, machines>>

-----------------------------------------------------------------------------
(* createPolicyForUniqueUsernames, and the end *)

AllSettled ==
  /\ main = "adding"
  /\ \A h \in todo : pc[h] \in Settled
  /\ Advance("policies", Added)
  /\ UNCHANGED <<selected, told, cancelled, jobs, service, machines>>

PolicyExists(u) ==
  /\ main = "policies" /\ HostsOf(u) # {} /\ u \in policies
  /\ todo' = todo \ HostsOf(u)
  /\ UNCHANGED <<main, chosen, selected, told, cancelled, jobs, service,
                 machines>>

CreatePolicy(u) ==
  /\ main = "policies" /\ HostsOf(u) # {} /\ u \notin policies
  /\ policies' = policies \cup {u}
  /\ todo' = todo \ HostsOf(u)
  /\ UNCHANGED <<main, chosen, selected, told, cancelled, jobs, reg, envs,
                 machines>>

PolicyFails(u) ==
  /\ main = "policies" /\ HostsOf(u) # {}
  /\ policies' \in {policies, policies \cup {u}}
  /\ todo' = todo \ HostsOf(u)
  /\ told' = told \cup HostsOf(u)
  /\ UNCHANGED <<main, chosen, selected, cancelled, jobs, reg, envs, machines>>

Congratulate ==
  /\ main = "policies" /\ todo = {}
  /\ main' = "saving"
  /\ UNCHANGED <<todo, chosen, selected, told, cancelled, jobs, service,
                 machines>>

\* CTRL-C while the spinner turns: the handler asks whether to save the
\* transcript, and everything else goes on meanwhile.
Interrupt ==
  /\ main = "adding" /\ ~cancelled
  /\ cancelled' = TRUE
  /\ UNCHANGED <<main, todo, chosen, selected, told, jobs, service, machines>>

End ==
  /\ main' = "idle" /\ cancelled' = FALSE
  /\ todo' = {} /\ chosen' = {} /\ selected' = {} /\ told' = {}
  /\ pc' = [h \in Host |-> "idle"] /\ conn' = {}
  /\ before' = [h \in Host |-> 0]
  /\ UNCHANGED <<service, machines>>

\* The answer about the transcript is followed by cleanExit.
Exit == (main = "saving" \/ cancelled) /\ End

\* Not an administrator, or the second factor was not given: nothing is saved.
NotAdmitted == main = "login" /\ End

Kill == main # "idle" /\ End

-----------------------------------------------------------------------------
(* The machines *)

\* By the script, whether or not it is still listened to, and whether or not
\* there is an agent: the machine is then registered again.
InstallAgent(h) ==
  /\ agent[h] # "installed"
  /\ agent' = [agent EXCEPT ![h] = "installed"]
  /\ UNCHANGED <<handler, jobs, service, name>>

AgentRegisters(h) ==
  /\ agent[h] = "installed" /\ reg[h] < MaxReg
  /\ agent' = [agent EXCEPT ![h] = "registered"]
  /\ reg' = [reg EXCEPT ![h] = @ + 1]
  /\ UNCHANGED <<handler, jobs, envs, policies, name>>

\* The target of an agent that is removed stays at the service.
RemoveAgent(h) ==
  /\ agent[h] # "none"
  /\ agent' = [agent EXCEPT ![h] = "none"]
  /\ UNCHANGED <<handler, jobs, service, name>>

-----------------------------------------------------------------------------

HostStep(h) ==
  \/ ListPreexisting(h) \/ Connect(h) \/ FailsEarly(h)
  \/ AlreadyInstalled(h) \/ NotInstalled(h) \/ RunScript(h)
  \/ ScriptSucceeds(h) \/ ScriptFails(h) \/ TargetNamed(h) \/ NamingThrows(h)
  \/ CloseConnection(h) \/ CloseFailed(h) \/ TargetOnline(h) \/ PollGivesUp(h)

HandlerStep ==
  \/ StartAdding \/ AllSettled \/ Congratulate
  \/ \E V \in SUBSET Host : ParseHosts(V) \/ OfferHosts(V)
  \/ \E u \in SshUser : EnvExists(u) \/ CreateEnv(u) \/ EnvFails(u)
                       \/ PolicyExists(u) \/ CreatePolicy(u) \/ PolicyFails(u)

UserStep ==
  \/ StartQuickstart \/ LoggedIn \/ NotAdmitted
  \/ \E S \in SUBSET Host : SelectHosts(S)
  \/ \E h \in Host : TakeHost(h) \/ UnlockHost(h) \/ SkipHost(h)
  \/ Confirm \/ Decline \/ Interrupt \/ Exit \/ Kill

MachineStep ==
  \E h \in Host : InstallAgent(h) \/ AgentRegisters(h) \/ RemoveAgent(h)

Next ==
  \/ \E h \in Host : HostStep(h)
  \/ HandlerStep \/ UserStep \/ MachineStep

Spec == Init /\ [][Next]_vars

\* The handler of a host waits for a command on the machine, without a limit.
Remote(h) == pc[h] \in {"checking", "running", "naming"}

\* The program is scheduled and its requests end.  Nothing is assumed of the
\* user and of the machines, and so not that a remote command ends.
FairSpec ==
  /\ Spec
  /\ WF_vars(HandlerStep)
  /\ \A h \in Host : WF_vars(~Remote(h) /\ HostStep(h))

-----------------------------------------------------------------------------
(* Properties *)

\* Once a host's registration has left the ssh part, by whatever error, its
\* connection is closed; only a promise that nobody settles keeps it.
ConnectionsClosed == \A h \in conn :
  pc[h] \in (Unsettled \ {"listing", "connecting", "polling"}) \cup {"stuck"}

\* Hosts are registered only with an environment that exists, so that each
\* new target is found where its policy applies.
RegistersInEnvironment == \A h \in Host : pc[h] # "idle" => name[h] \in envs

\* No host is dropped in silence: when quickstart ends, each host the user
\* wanted is added and its user has a policy, or the user was told.
NothingDropped == main = "saving" => \A h \in selected :
  h \in told \/ (h \in Added /\ name[h] \in policies)

\* After the dialogue quickstart comes to an end, however hosts fail, unless it
\* waits for ever for a command on a machine or for a promise nobody settles.
QuickstartEnds == main \in {"envs", "adding", "policies"} ~>
  \/ main \in {"idle", "saving"}
  \/ \E h \in Host : [](Remote(h) \/ pc[h] = "stuck")

=============================================================================

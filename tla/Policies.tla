------------------------------ MODULE Policies ------------------------------
(***************************************************************************)
(* Administrators edit policies with `zli policy': a command looks up what *)
(* it is to add or delete, reads the lists of policies to find the one     *)
(* with a name, changes its copy and sends the whole copy back.  Others    *)
(* create policies for targets they name.  The service keeps no version of *)
(* a policy, so that a copy may be out of date when it is sent.            *)
(*                                                                         *)
(* A policy is what it grants (`members') and to what (`targets').  The    *)
(* requests that create one refer to targets by name or by id; several     *)
(* targets may have one name.                                              *)
(***************************************************************************)
EXTENDS Naturals, Sequences

CONSTANTS
  Editor, Creator,   \* commands that edit a policy, and that create one
  Policy,            \* ids of policies, of those to be created too
  KindOf, NameOf,    \* kind and name of each policy
  User, ServiceAccount, Group, TargetUser, TargetGroup,  \* what is granted
  Target,            \* ids of targets
  TargetName,        \* the name of each target
  TargetKind,        \* the kind of policy a target can be in
  Jobs, Orders,      \* what editors and creators are asked
  Grants             \* what policies may grant at first

VARIABLES
  exists,    \* the policies at the service
  members,   \* what each policy grants
  targets,   \* the targets of each policy
  job,       \* what each editor was asked to do
  step,      \* where each command is
  unread,    \* the lists an editor still has to read
  seen,      \* the policies it found in those it has read
  copy,      \* what it read of them
  order,     \* what each creator was asked to make
  leaving,   \* creators that have said they cannot go on, and have not ended
  original,  \* history: what a policy granted at first
  named      \* history: the identifiers a policy was created with

atService == <<exists, members, targets, original, named>>
editors == <<job, unread, seen, copy>>
creators == <<order, leaving>>
policyVars == <<atService, editors, creators, step>>

Subject == User \cup ServiceAccount
Entry == Subject \cup Group \cup TargetUser \cup TargetGroup
Identifier == Target \cup {TargetName[t] : t \in Target}

\* The order in which lists are searched, or read if one waits for the other.
Rank == [Kubernetes |-> 1, TargetConnect |-> 2, Proxy |-> 3,
         JustInTime |-> 4, SessionRecording |-> 5]
Kind == DOMAIN Rank

Name == {NameOf[p] : p \in Policy}

\* The lists that are searched for a policy when an entry is added or deleted.
Searched(e) == IF e \in TargetGroup THEN {"Kubernetes"}
               ELSE IF e \in TargetUser THEN {"Kubernetes", "TargetConnect", "Proxy"}
               ELSE Kind

\* What a policy of a kind can grant.
Fits(k) == {e \in Entry : k \in Searched(e)}

\* The targets of a kind that an identifier refers to.
Meaning(k, i) == {t \in Target : TargetKind[t] = k /\ i \in {t, TargetName[t]}}

Job == [op : {"add", "delete"}, name : Name, entry : Entry]
Order == [kind : Kind, name : Name, who : SUBSET (Subject \cup Group),
          ids : SUBSET Identifier]

ASSUME PoliciesAssumption ==
  /\ KindOf \in [Policy -> Kind] /\ DOMAIN NameOf = Policy
  /\ DOMAIN TargetName = Target /\ TargetKind \in [Target -> Kind]
  /\ Editor \cap Creator = {}
  /\ (Subject \cup Group) \cap (TargetUser \cup TargetGroup) = {}
  /\ Subject \cap Group = {} /\ TargetUser \cap TargetGroup = {}
  /\ Jobs \subseteq Job /\ Orders \subseteq Order
  /\ Grants \subseteq SUBSET Entry

PoliciesTypeOK ==
  /\ exists \subseteq Policy
  /\ members \in [Policy -> SUBSET Entry] /\ original \in [Policy -> SUBSET Entry]
  /\ targets \in [Policy -> SUBSET Target] /\ named \in [Policy -> SUBSET Identifier]
  /\ job \in [Editor -> Jobs] /\ order \in [Creator -> Orders]
  /\ step \in [Editor \cup Creator -> {"idle", "looking", "reading", "resolving",
                                       "posting", "done", "exited"}]
  /\ unread \in [Editor -> SUBSET Kind]
  /\ seen \in [Editor -> SUBSET Policy]
  /\ copy \in [Editor -> [Policy -> SUBSET Entry]]
  /\ leaving \subseteq Creator

PoliciesInit ==
  /\ exists \in SUBSET Policy
  /\ \E g \in [exists -> Grants] : members =
       [p \in Policy |-> IF p \in exists THEN g[p] \cap Fits(KindOf[p]) ELSE {}]
  /\ original = members
  /\ targets = [p \in Policy |-> {}] /\ named = [p \in Policy |-> {}]
  /\ job \in [Editor -> Jobs] /\ order \in [Creator -> Orders]
  /\ step = [c \in Editor \cup Creator |-> "idle"]
  /\ unread = [c \in Editor |-> {}] /\ seen = [c \in Editor |-> {}]
  /\ copy = [c \in Editor |-> [p \in Policy |-> {}]]
  /\ leaving = {}

-----------------------------------------------------------------------------
(* Slips that a change to the code could make, one per operator.  Nothing    *)
(* else uses them.                                                           *)

\* The update request leaves the groups out.
EditedWithoutGroups(c, p) ==
  (IF job[c].op = "add" THEN copy[c][p] \cup {job[c].entry}
   ELSE copy[c][p] \ {job[c].entry}) \ Group

\* Each target replaces the one before it in the request.
AddPolicyWithOneTarget(c, p) ==
  /\ step[c] = "posting"
  /\ p \notin exists /\ KindOf[p] = order[c].kind /\ NameOf[p] = order[c].name
  /\ \E i \in order[c].ids : \E t \in Meaning(order[c].kind, i) :
       targets' = [targets EXCEPT ![p] = {t}]
  /\ exists' = exists \cup {p}
  /\ members' = [members EXCEPT ![p] = order[c].who]
  /\ original' = [original EXCEPT ![p] = order[c].who]
  /\ named' = [named EXCEPT ![p] = order[c].ids]
  /\ leaving' = leaving \ {c} /\ step' = [step EXCEPT ![c] = "done"]
  /\ UNCHANGED <<editors, order>>

-----------------------------------------------------------------------------
(* Editors *)

GoesTo(c, l) == step' = [step EXCEPT ![c] = l]

\* Every handler: is it this command's, and what does it read first?
Begin(c, op, S, l) ==
  /\ step[c] = "idle" /\ GoesTo(c, l)
  /\ job[c].op = op /\ job[c].entry \in S
  /\ unread' = [unread EXCEPT ![c] =
                Searched(job[c].entry) \cap {KindOf[p] : p \in Policy}]
  /\ UNCHANGED <<atService, creators, job, seen, copy>>

AddUser(c) == Begin(c, "add", User, "looking")
DeleteUser(c) == Begin(c, "delete", User, "looking")
AddSubject(c) == Begin(c, "add", Subject, "looking")
DeleteSubject(c) == Begin(c, "delete", Subject, "looking")
AddGroup(c) == Begin(c, "add", Group, "looking")
DeleteGroup(c) == Begin(c, "delete", Group, "looking")
AddTargetUser(c) == Begin(c, "add", TargetUser, "reading")
DeleteTargetUser(c) == Begin(c, "delete", TargetUser, "reading")
AddTargetGroup(c) == Begin(c, "add", TargetGroup, "reading")
DeleteTargetGroup(c) == Begin(c, "delete", TargetGroup, "reading")

\* The subject or group is known to the service.
Lookup(c) ==
  /\ step[c] = "looking" /\ GoesTo(c, "reading")
  /\ UNCHANGED <<atService, editors, creators>>

\* It is not, or a request fails.
EditorFails(c) ==
  /\ step[c] \in {"looking", "reading"} /\ GoesTo(c, "exited")
  /\ UNCHANGED <<atService, editors, creators>>

\* Subjects and groups: all lists are asked for at once and arrive in any
\* order.  Target users: one list after the other.
ListPolicies(c, k) ==
  /\ step[c] = "reading" /\ k \in unread[c]
  /\ job[c].entry \in TargetUser => \A l \in unread[c] : Rank[k] <= Rank[l]
  /\ LET found == {p \in exists : KindOf[p] = k}
     IN /\ seen' = [seen EXCEPT ![c] = @ \cup found]
        /\ copy' = [copy EXCEPT ![c] =
             [p \in Policy |-> IF p \in found THEN members[p] ELSE copy[c][p]]]
  /\ unread' = [unread EXCEPT ![c] = @ \ {k}]
  /\ UNCHANGED <<atService, creators, job, step>>

\* The policies that `find' may return: of the name, in the first list.
Found(c) == {p \in seen[c] : /\ NameOf[p] = job[c].name
                             /\ \A q \in seen[c] : NameOf[q] = job[c].name =>
                                     Rank[KindOf[p]] <= Rank[KindOf[q]]}

\* An entry is added that is not there, or deleted that is.
Sensible(c, p) == (job[c].op = "delete") <=> job[c].entry \in copy[c][p]

Edited(c, p) == IF job[c].op = "add" THEN copy[c][p] \cup {job[c].entry}
                ELSE copy[c][p] \ {job[c].entry}

\* No policy of the name: a message or, where undefined is taken for a policy,
\* an exception.
NoSuchPolicy(c) ==
  /\ step[c] = "reading" /\ unread[c] = {} /\ Found(c) = {}
  /\ GoesTo(c, "exited")
  /\ UNCHANGED <<atService, editors, creators>>

Refuse(c, p) ==
  /\ step[c] = "reading" /\ unread[c] = {}
  /\ p \in Found(c) /\ ~Sensible(c, p)
  /\ GoesTo(c, "exited")
  /\ UNCHANGED <<atService, editors, creators>>

\* The whole summary, as it was read but for the entry, replaces the policy.
EditPolicy(c, p) ==
  /\ step[c] = "reading" /\ unread[c] = {}
  /\ p \in Found(c) /\ Sensible(c, p)
  /\ GoesTo(c, "done")
  /\ members' = [members EXCEPT ![p] = Edited(c, p)]
  /\ UNCHANGED <<exists, targets, original, named, editors, creators>>

-----------------------------------------------------------------------------
(* Creators *)

BeginCreate(c, k) ==
  /\ step[c] = "idle" /\ order[c].kind = k
  /\ GoesTo(c, "resolving")
  /\ UNCHANGED <<atService, editors, creators>>

CreateClusterPolicy(c) == BeginCreate(c, "Kubernetes")
CreateTConnectPolicy(c) == BeginCreate(c, "TargetConnect")
CreateProxyPolicy(c) == BeginCreate(c, "Proxy")
CreateRecordingPolicy(c) ==
  order[c].ids = {} /\ BeginCreate(c, "SessionRecording")

\* A missing argument, a subject, group or environment that does not exist
\* (the exit is awaited), or a request that fails.
CreatorFails(c) ==
  /\ step[c] \in {"resolving", "posting"} /\ GoesTo(c, "exited")
  /\ UNCHANGED <<atService, editors, creators>>

\* An identifier without a target: the exit is not awaited, but reading the
\* target's id throws.
UnknownTarget(c) ==
  /\ step[c] = "resolving"
  /\ \E i \in order[c].ids : Meaning(order[c].kind, i) = {}
  /\ GoesTo(c, "exited")
  /\ UNCHANGED <<atService, editors, creators>>

\* All identifiers have targets.  One that has several is an error whose exit
\* is not awaited, so that the handler goes on.
ResolveTargets(c) ==
  /\ step[c] = "resolving"
  /\ \A i \in order[c].ids : Meaning(order[c].kind, i) # {}
  /\ leaving' = IF \E i \in order[c].ids, t, u \in Target :
                      t # u /\ {t, u} \subseteq Meaning(order[c].kind, i)
                THEN leaving \cup {c} ELSE leaving
  /\ GoesTo(c, "posting")
  /\ UNCHANGED <<atService, editors, order>>

\* The exit is done before the policy is sent.
ExitDone(c) ==
  /\ step[c] = "posting" /\ c \in leaving
  /\ leaving' = leaving \ {c} /\ GoesTo(c, "exited")
  /\ UNCHANGED <<atService, editors, order>>

\* The first of the targets with an identifier stands for it.
AddPolicy(c, p) ==
  /\ step[c] = "posting"
  /\ p \notin exists /\ KindOf[p] = order[c].kind /\ NameOf[p] = order[c].name
  /\ \E first \in [order[c].ids -> Target] :
       /\ \A i \in order[c].ids : first[i] \in Meaning(order[c].kind, i)
       /\ targets' = [targets EXCEPT ![p] = {first[i] : i \in order[c].ids}]
  /\ exists' = exists \cup {p}
  /\ members' = [members EXCEPT ![p] = order[c].who]
  /\ original' = [original EXCEPT ![p] = order[c].who]
  /\ named' = [named EXCEPT ![p] = order[c].ids]
  /\ leaving' = leaving \ {c} /\ GoesTo(c, "done")
  /\ UNCHANGED <<editors, order>>

-----------------------------------------------------------------------------
EditorStep(c) ==
  \/ AddUser(c) \/ DeleteUser(c) \/ AddSubject(c) \/ DeleteSubject(c)
  \/ AddGroup(c) \/ DeleteGroup(c) \/ AddTargetUser(c) \/ DeleteTargetUser(c)
  \/ AddTargetGroup(c) \/ DeleteTargetGroup(c)
  \/ Lookup(c) \/ EditorFails(c) \/ NoSuchPolicy(c)
  \/ \E k \in Kind : ListPolicies(c, k)
  \/ \E p \in Policy : Refuse(c, p) \/ EditPolicy(c, p)

CreatorStep(c) ==
  \/ CreateClusterPolicy(c) \/ CreateTConnectPolicy(c)
  \/ CreateProxyPolicy(c) \/ CreateRecordingPolicy(c)
  \/ CreatorFails(c) \/ UnknownTarget(c) \/ ResolveTargets(c) \/ ExitDone(c)
  \/ \E p \in Policy : AddPolicy(c, p)

PoliciesNext == (\E c \in Editor : EditorStep(c)) \/ (\E c \in Creator : CreatorStep(c))

PoliciesSpec == PoliciesInit /\ [][PoliciesNext]_policyVars

-----------------------------------------------------------------------------
(* Properties *)

\* An editor at work, or done, was asked to change e in policies of p's name.
Asked(p, e) == \E c \in Editor : /\ step[c] \in {"reading", "done", "exited"}
                                 /\ job[c].entry = e /\ job[c].name = NameOf[p]

\* However commands overlap, a policy grants something it did not grant at
\* first, or no longer grants something, only if a command was asked to change
\* that very entry under the policy's name: whole summaries that are sent back
\* out of date lose the changes of other commands, but never touch an entry
\* that nobody asked about (editPolicy and the Edit... requests).
OnlyAskedChanges ==
  \A p \in Policy, e \in Entry :
    (e \in members[p]) # (e \in original[p]) => Asked(p, e)

\* A policy grants only what its kind has a field for, although a command
\* finds it by a name that policies of several kinds may share
\* (getPolicyFromName, the target user handlers).
FieldsFit == \A p \in Policy : members[p] \subseteq Fits(KindOf[p])

\* A created policy covers, for each identifier that was given, a target the
\* identifier refers to, and no target besides: nothing is created from an
\* identifier that refers to nothing, even though that check is not awaited
\* either (checkAllIdentifiersExist in the create handlers).  Which of several
\* targets an identifier stands for is left open: the check that there is only
\* one is not awaited, and does not keep the policy from being created.
GrantsWhatWasNamed ==
  \A p \in Policy :
    /\ \A i \in named[p] : targets[p] \cap Meaning(KindOf[p], i) # {}
    /\ \A t \in targets[p] : \E i \in named[p] : t \in Meaning(KindOf[p], i)

=============================================================================

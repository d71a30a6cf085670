--------------------------- MODULE Configuration ----------------------------
(***************************************************************************)
(* The configuration file over the life of a user's zli: every command     *)
(* first brings the file to its own schema, then passes the checks before  *)
(* its handler, and the handler may change settings: the ports remembered  *)
(* for targets, default groups, daemons, and the ssh configuration.        *)
(*                                                                         *)
(* An upgrade is a sequence of migrations, each of them several writes.    *)
(* Commands run at once, also those that daemons start, and any may be     *)
(* killed between two writes.  A write of one field is a step.  Tokens,    *)
(* logins and the life of daemons are the subject of other modules.        *)
(***************************************************************************)
EXTENDS Naturals, SshConfig

CONSTANTS
  Cmd,      \* processes of the zli
  App,      \* a target with an application of it: rdp or sqlserver
  Port,     \* local ports
  None

VARIABLES
  file,     \* the configuration
  ssh,      \* the user's ssh configuration
  made,     \* the generated files it may include
  pc, kind, \* where a command is, and which it is
  todo,     \* the migrations still to run
  writes,   \* the writes of the migration under way
  about,    \* the app or path of a handler
  seen,     \* what it read and will write back, changed
  want,     \* history: the settings as handlers made them
  linked,   \* history: the paths that the last generate has linked
  excuse    \* history: overlaps and kills that the code does not guard against

command == <<pc, kind, todo, writes, about, seen>>
vars == <<file, ssh, made, command, want, linked, excuse>>

\* The migrations, of which conf skips those whose range the version of the file
\* satisfies: that file is Current, or it lacks all from some on.
Migrations == <<"serviceUrl", "dbDaemons", "mrtap", "kubeDaemons", "whoami">>
Current == Len(Migrations)
\* After each, conf stores its range in place of a version, and no range has that.
Interrupted == None
Pending(stamp) == SubSeq(Migrations, IF stamp = Interrupted THEN 1 ELSE stamp + 1, Current)

\* An entry made before entries had their type, and one that has it.
Untyped == "untyped"
Typed == "typed"

\* Daemons are known by their connection, which may be the same for all here, older
\* ones by a special key, and that one's entry may lack its type.
Connection == "connection"
Legacy == "legacy"
Key == {Connection, Legacy, Untyped}

\* What the old kubeConfig held: settings for security, a daemon, groups, a type.
KubeConfig == [secure : BOOLEAN, daemon : BOOLEAN, groups : BOOLEAN, typed : BOOLEAN]

File == [stamp : 0..Current \cup {Interrupted}, serviceUrl : BOOLEAN,
         dbConfig : BOOLEAN, dbDaemons : SUBSET Key, web : {Typed, Untyped},
         keySplitting : BOOLEAN, mrtap : BOOLEAN,
         kubeConfig : KubeConfig \cup {None}, kubeDaemons : SUBSET Key,
         globalKubeConfig : [secure : BOOLEAN, groups : BOOLEAN],
         whoami : {Typed, Untyped, None}, ports : [App -> Port \cup {None}]]

ASSUME ConfigurationAssumption ==
  /\ None \notin 0..Current /\ None \notin KubeConfig /\ None \notin {Typed, Untyped}
  /\ Path \cap {"own", Description, Note} = {}

Kind == {"refresh", "default-targetgroup", "connect", "tcp", "disconnect",
         "generate", "policy", "service-account login"}
oauthCommands == {"connect", "tcp", "disconnect", "generate", "policy", "service-account login"}
GACommands == oauthCommands
adminOnlyCommands == {"policy", "service-account login"}
isServiceAccountLogin(k) == k = "service-account login"

TypeOK ==
  /\ file \in File
  /\ ssh \in Seq(Path \cup {Description, Note, "own"}) /\ made \subseteq Path
  /\ pc \in [Cmd -> {"idle", "upgrading", "loading", "tracking", "authorizing", "admitting",
                     "certifying", "running", "keyless", "keyed", "choosing", "securing",
                     "secured", "generating", "linking", "unlinking", "writingLinked",
                     "writingRest", "removing"}]
  /\ kind \in [Cmd -> Kind]
  /\ \A c \in Cmd : \E i \in 1..Current + 1 : todo[c] = SubSeq(Migrations, i, Current)
  /\ about \in [Cmd -> App \cup Path \cup {None}]
  /\ linked \subseteq Path
  /\ excuse \subseteq {"upgrades", "killed", "ports", "ssh", "keys", "groups"}

\* A setting's value, whatever the schema it is still kept in.
Effective ==
  LET k == file.kubeConfig
      Known(daemons) == {IF d = Untyped THEN Legacy ELSE d : d \in daemons}
  IN [db |-> IF file.dbConfig THEN {Legacy} ELSE Known(file.dbDaemons),
      keys |-> file.keySplitting \/ file.mrtap,
      kube |-> IF k = None THEN Known(file.kubeDaemons) ELSE IF k.daemon THEN {Legacy} ELSE {},
      secure |-> IF k = None THEN file.globalKubeConfig.secure ELSE k.secure,
      groups |-> IF k = None THEN file.globalKubeConfig.groups ELSE k.groups,
      me |-> file.whoami # None,
      ports |-> file.ports]

\* Files as the zlis left them whose migrations end with the n-th.
Left(n) == {f \in [
    stamp : {n}, serviceUrl : {n > 0}, dbConfig : IF n < 2 THEN BOOLEAN ELSE {FALSE},
    dbDaemons : IF n < 2 THEN {{}} ELSE {{}, {Legacy}},
    web : {IF n < 2 THEN Untyped ELSE Typed},
    keySplitting : IF n < 3 THEN BOOLEAN ELSE {FALSE},
    mrtap : IF n < 3 THEN {FALSE} ELSE BOOLEAN,
    kubeConfig : IF n < 4 THEN {k \in KubeConfig : k.typed = (n > 1) /\ k.secure = k.groups}
                 ELSE {None},
    kubeDaemons : IF n < 4 THEN {{}} ELSE {{}, {Legacy}},
    globalKubeConfig : {IF n < 4 THEN [secure |-> FALSE, groups |-> FALSE]
                        ELSE [secure |-> TRUE, groups |-> TRUE]},
    whoami : {None, IF n < Current THEN Untyped ELSE Typed},
    ports : {[a \in App |-> None]}] : f.whoami = None => ~f.keySplitting /\ ~f.mrtap}

Init ==
  /\ \E n \in 0..Current : file \in Left(n)
  /\ ssh \in {<<"own">>} \cup {<<p, "own">> : p \in Path}
  /\ linked = {p \in Path : Includes(ssh, p)} /\ made = linked
  /\ pc = [c \in Cmd |-> "idle"] /\ kind = [c \in Cmd |-> "refresh"]
  /\ todo = [c \in Cmd |-> <<>>] /\ writes = [c \in Cmd |-> <<>>]
  /\ about = [c \in Cmd |-> None] /\ seen = [c \in Cmd |-> None]
  /\ want = Effective
  /\ excuse = {}

-----------------------------------------------------------------------------

Goto(c, at) == pc' = [pc EXCEPT ![c] = at]

\* The command is over, and what it had read is forgotten.
Ends(c) ==
  /\ Goto(c, "idle") /\ kind' = [kind EXCEPT ![c] = "refresh"]
  /\ todo' = [todo EXCEPT ![c] = <<>>] /\ writes' = [writes EXCEPT ![c] = <<>>]
  /\ about' = [about EXCEPT ![c] = None] /\ seen' = [seen EXCEPT ![c] = None]

\* No more than where the command is changes.
Passes(c, at) ==
  /\ Goto(c, at)
  /\ UNCHANGED <<file, ssh, made, kind, todo, writes, about, seen, want, linked, excuse>>
Stops(c) == Ends(c) /\ UNCHANGED <<file, ssh, made, want, linked, excuse>>

\* A handler's write of a field, its last; in w is what the user then expects.
Saves(c, field, value, w) ==
  /\ file' = [file EXCEPT ![field] = value] /\ want' = w
  /\ Ends(c) /\ UNCHANGED <<ssh, made, linked>>

Generates == {"generating", "linking", "unlinking", "writingLinked", "writingRest", "removing"}
Others(c, at) == \E d \in Cmd \ {c} : pc[d] \in at

-----------------------------------------------------------------------------
(* UnixConfig: conf runs the migrations that the version of the file calls for *)

Begin(c, k) ==
  /\ pc[c] = "idle"
  /\ kind' = [kind EXCEPT ![c] = k]
  /\ IF file.stamp = Current THEN Goto(c, "loading") /\ UNCHANGED <<todo, excuse>>
     ELSE /\ Goto(c, "upgrading") /\ todo' = [todo EXCEPT ![c] = Pending(file.stamp)]
          /\ excuse' = excuse \cup (IF Others(c, {"upgrading"}) THEN {"upgrades"} ELSE {})
  /\ UNCHANGED <<file, ssh, made, writes, about, seen, want, linked>>

Set(field, value) == <<[field |-> field, value |-> value]>>

\* Each migration reads first, and then sets or deletes fields one by one.

\* A slip: the types are forgotten.
DbDaemonsAlone(k) ==
  IF file.dbConfig THEN Set("dbDaemons", {Legacy}) \o Set("dbConfig", FALSE) ELSE <<>>

\* '>=6.8.0'
DbDaemons(k) ==
  (IF file.dbConfig THEN Set("dbDaemons", {Legacy}) \o Set("dbConfig", FALSE) ELSE <<>>)
  \o (IF k # None THEN Set("kubeConfig", [k EXCEPT !.typed = TRUE]) ELSE <<>>)
  \o Set("web", Typed)

\* '>=6.13.0'
Security(k) == Set("globalKubeConfig", [secure |-> k.secure, groups |-> k.groups])
Moved(k) == Set("kubeDaemons", IF ~k.daemon THEN {} ELSE IF k.typed THEN {Legacy} ELSE {Untyped})

\* A slip: the old settings are deleted first.
DeletesFirst(k) == IF k = None THEN <<>> ELSE Set("kubeConfig", None) \o Security(k) \o Moved(k)
KubeDaemons(k) == IF k = None THEN <<>> ELSE Security(k) \o Moved(k) \o Set("kubeConfig", None)

Writes(migration) ==
  CASE migration = "serviceUrl" -> Set("serviceUrl", TRUE)
    [] migration = "dbDaemons" -> DbDaemons(file.kubeConfig)
    [] migration = "mrtap" -> Set("mrtap", file.keySplitting) \o Set("keySplitting", FALSE)
    [] migration = "kubeDaemons" -> KubeDaemons(file.kubeConfig)
    [] migration = "whoami" -> IF file.whoami = Untyped THEN Set("whoami", Typed) ELSE <<>>

\* conf then stores the range of the migration, and after the last the version.
Migrate(c) ==
  /\ pc[c] = "upgrading" /\ writes[c] = <<>> /\ todo[c] # <<>>
  /\ todo' = [todo EXCEPT ![c] = Tail(@)]
  /\ writes' = [writes EXCEPT ![c] = Writes(Head(todo[c])) \o Set("stamp", Interrupted)
                  \o (IF Len(todo[c]) = 1 THEN Set("stamp", Current) ELSE <<>>)]
  /\ UNCHANGED <<file, ssh, made, pc, kind, about, seen, want, linked, excuse>>

Write(c) ==
  /\ pc[c] = "upgrading" /\ writes[c] # <<>>
  /\ LET w == Head(writes[c]) IN file' = [file EXCEPT ![w.field] = w.value]
  /\ writes' = [writes EXCEPT ![c] = Tail(@)]
  /\ Goto(c, IF Len(writes[c]) = 1 /\ todo[c] = <<>> THEN "loading" ELSE "upgrading")
  /\ UNCHANGED <<ssh, made, kind, todo, about, seen, want, linked, excuse>>

\* Keys that have moved to their new place are lost to an upgrade that begins anew.
Kill(c) ==
  /\ pc[c] # "idle" /\ Ends(c)
  /\ excuse' = excuse
       \cup (IF pc[c] = "upgrading" /\ ~file.keySplitting /\ "mrtap" \in ToSet(Pending(file.stamp))
             THEN {"killed"} ELSE {})
       \cup (IF pc[c] \in {"writingLinked", "writingRest"} THEN {"ssh"} ELSE {})
  /\ UNCHANGED <<file, ssh, made, want, linked>>

-----------------------------------------------------------------------------
(* The checks before a handler, in the order of CliDriver                    *)

\* The data for MrTAP, with the user's keys, is read once.
Load(c) ==
  /\ pc[c] = "loading"
  /\ seen' = [seen EXCEPT ![c] = [mrtap |-> file.mrtap]] /\ Goto(c, "tracking")
  /\ UNCHANGED <<file, ssh, made, kind, todo, writes, about, want, linked, excuse>>

\* The tokens for analytics, if they are not known yet, cannot be fetched.
Track(c) ==
  /\ pc[c] = "tracking"
  /\ \/ Passes(c, "authorizing")
     \/ kind[c] \in GACommands /\ ~isServiceAccountLogin(kind[c]) /\ Stops(c)

\* The version is no longer supported, the user not logged in, or not enabled.
Authorize(c) ==
  /\ pc[c] = "authorizing"
  /\ \/ /\ kind[c] \in oauthCommands /\ ~isServiceAccountLogin(kind[c]) => file.whoami # None
        /\ Passes(c, "admitting")
     \/ kind[c] \in oauthCommands /\ Stops(c)

\* The handler begins, and what the checks have read is of no more use.
Runs(c) ==
  /\ Goto(c, "running") /\ seen' = [seen EXCEPT ![c] = None]
  /\ UNCHANGED <<ssh, made, kind, todo, writes, about, want, linked>>

Certified(k) == k \in oauthCommands /\ ~isServiceAccountLogin(k)

\* The user is no admin; or the data for MrTAP now tells what certificates need, or
\* the organization is asked for it.
Admit(c) ==
  /\ pc[c] = "admitting"
  /\ \/ /\ kind[c] \in adminOnlyCommands /\ ~isServiceAccountLogin(kind[c]) => file.whoami # None
        /\ \/ (Certified(kind[c]) => file.mrtap) /\ Runs(c) /\ UNCHANGED <<file, excuse>>
           \/ Certified(kind[c]) /\ Passes(c, "certifying")
     \/ kind[c] \in adminOnlyCommands /\ ~isServiceAccountLogin(kind[c]) /\ Stops(c)

\* bzCertValidationInfoMiddleware: the answer is written back with all that was loaded.
Certify(c) ==
  /\ pc[c] = "certifying"
  /\ \/ /\ file' = [file EXCEPT !.mrtap = seen[c].mrtap] /\ Runs(c)
        /\ excuse' = excuse \cup (IF seen[c].mrtap # file.mrtap THEN {"keys"} ELSE {})
     \/ Stops(c)

-----------------------------------------------------------------------------
(* Handlers                                                                  *)

\* Those that change none of the settings here, and all that fail.
Returns(c) == pc[c] \in {"running", "keyless", "keyed", "choosing", "securing", "secured",
                         "linking", "unlinking"} /\ Stops(c)

DefaultTargetGroup(c) ==
  /\ pc[c] = "running" /\ kind[c] = "default-targetgroup"
  /\ \E groups \in BOOLEAN :
       Saves(c, "globalKubeConfig", [file.globalKubeConfig EXCEPT !.groups = groups],
             [want EXCEPT !.groups = groups])
  /\ UNCHANGED excuse

\* A certificate for kube daemons is there, or is made: what is kept for them is
\* read, and after that written back.
ReadSecurity(c) ==
  /\ pc[c] = "running" /\ kind[c] = "connect"
  /\ \/ file.globalKubeConfig.secure /\ Passes(c, "secured")
     \/ /\ seen' = [seen EXCEPT ![c] = file.globalKubeConfig] /\ Goto(c, "securing")
        /\ UNCHANGED <<file, ssh, made, kind, todo, writes, about, want, linked, excuse>>

SaveSecurity(c) ==
  /\ pc[c] = "securing"
  /\ file' = [file EXCEPT !.globalKubeConfig = [seen[c] EXCEPT !.secure = TRUE]]
  /\ want' = [want EXCEPT !.secure = TRUE]
  /\ Goto(c, "secured") /\ seen' = [seen EXCEPT ![c] = None]
  /\ excuse' = excuse \cup
       (IF seen[c].groups # file.globalKubeConfig.groups THEN {"groups"} ELSE {})
  /\ UNCHANGED <<ssh, made, kind, todo, writes, about, linked>>

AddDaemon(c) ==
  /\ \/ /\ pc[c] = "running" /\ kind[c] = "connect"
        /\ Saves(c, "dbDaemons", file.dbDaemons \cup {Connection},
                 [want EXCEPT !.db = @ \cup {Connection}])
     \/ /\ pc[c] = "secured"
        /\ Saves(c, "kubeDaemons", file.kubeDaemons \cup {Connection},
                 [want EXCEPT !.kube = @ \cup {Connection}])
  /\ UNCHANGED excuse

Disconnect(c) ==
  /\ pc[c] = "running" /\ kind[c] = "disconnect"
  /\ \/ Saves(c, "dbDaemons", {}, [want EXCEPT !.db = {}])
     \/ Saves(c, "kubeDaemons", {}, [want EXCEPT !.kube = {}])
  /\ UNCHANGED excuse

\* loginServiceAccountHandler logs out first, and may fail before or after it has
\* new keys.  Login has the steps of a user's login.
LogsOut(c) ==
  /\ pc[c] = "running" /\ kind[c] = "service-account login"
  /\ file' = [file EXCEPT !.mrtap = FALSE] /\ want' = [want EXCEPT !.keys = FALSE]
  /\ Goto(c, "keyless") /\ UNCHANGED <<ssh, made, kind, todo, writes, about, seen, linked, excuse>>

MakesKeys(c) ==
  /\ pc[c] = "keyless"
  /\ file' = [file EXCEPT !.mrtap = TRUE] /\ want' = [want EXCEPT !.keys = TRUE]
  /\ Goto(c, "keyed") /\ UNCHANGED <<ssh, made, kind, todo, writes, about, seen, linked, excuse>>

LogsIn(c) ==
  /\ pc[c] = "keyed"
  /\ Saves(c, "whoami", Typed, [want EXCEPT !.me = TRUE])
  /\ UNCHANGED excuse

\* tcpAppConnectHandler: the ports of all targets are read, and after requests
\* and the choice of a free one written back, if this app had none.
ReadPorts(c) ==
  /\ pc[c] = "running" /\ kind[c] = "tcp"
  /\ \E a \in App : about' = [about EXCEPT ![c] = a]
  /\ seen' = [seen EXCEPT ![c] = file.ports]
  /\ Goto(c, "choosing")
  /\ UNCHANGED <<file, ssh, made, kind, todo, writes, want, linked, excuse>>

SavePort(c) ==
  /\ pc[c] = "choosing" /\ seen[c][about[c]] = None
  /\ \E p \in Port :
       Saves(c, "ports", [seen[c] EXCEPT ![about[c]] = p], [want EXCEPT !.ports[about[c]] = p])
  /\ excuse' = excuse \cup (IF seen[c] # file.ports THEN {"ports"} ELSE {})

-----------------------------------------------------------------------------
(* generateSshConfigHandler                                                  *)

\* The user has access to targets, or to none.
AskTargets(c) ==
  /\ pc[c] = "running" /\ kind[c] = "generate"
  /\ \E p \in Path : about' = [about EXCEPT ![c] = p]
  /\ Goto(c, "generating") \/ Goto(c, "unlinking")
  /\ excuse' = excuse \cup (IF Others(c, Generates) THEN {"ssh"} ELSE {})
  /\ UNCHANGED <<file, ssh, made, kind, todo, writes, seen, want, linked>>

MakeFile(c) ==
  /\ pc[c] = "generating"
  /\ made' = made \cup {about[c]} /\ Goto(c, "linking")
  /\ UNCHANGED <<file, ssh, kind, todo, writes, about, seen, want, linked, excuse>>

\* openSync truncates what has just been read.
OpenSsh(c) ==
  /\ \/ /\ pc[c] = "linking" /\ Goto(c, "writingLinked")
        /\ seen' = [seen EXCEPT ![c] = Linked(ssh, about[c])]
     \/ /\ pc[c] = "unlinking" /\ Goto(c, "writingRest")
        /\ seen' = [seen EXCEPT ![c] = Unlinked(ssh, about[c])]
  /\ ssh' = <<>>
  /\ UNCHANGED <<file, made, kind, todo, writes, about, want, linked, excuse>>

WriteSsh(c) ==
  /\ ssh' = seen[c]
  /\ \/ pc[c] = "writingLinked" /\ linked' = linked \cup {about[c]} /\ Ends(c)
     \/ /\ pc[c] = "writingRest" /\ linked' = linked \ {about[c]}
        /\ Goto(c, "removing") /\ UNCHANGED <<kind, todo, writes, about, seen>>
  /\ UNCHANGED <<file, made, want, excuse>>

RemoveFile(c) ==
  /\ pc[c] = "removing"
  /\ made' = made \ {about[c]} /\ Ends(c)
  /\ UNCHANGED <<file, ssh, want, linked, excuse>>

-----------------------------------------------------------------------------

CmdStep(c) ==
  \/ (\E k \in Kind : Begin(c, k)) \/ Migrate(c) \/ Write(c) \/ Kill(c)
  \/ Load(c) \/ Track(c) \/ Authorize(c) \/ Admit(c) \/ Certify(c)
  \/ Returns(c) \/ DefaultTargetGroup(c) \/ ReadSecurity(c) \/ SaveSecurity(c)
  \/ AddDaemon(c) \/ Disconnect(c)
  \/ LogsOut(c) \/ MakesKeys(c) \/ LogsIn(c)
  \/ ReadPorts(c) \/ SavePort(c)
  \/ AskTargets(c) \/ MakeFile(c) \/ OpenSsh(c) \/ WriteSsh(c) \/ RemoveFile(c)

Next == \E c \in Cmd : CmdStep(c)

Spec == Init /\ [][Next]_vars

-----------------------------------------------------------------------------
(* Properties *)

\* Settings are what handlers made them, through every upgrade and however often
\* it is killed.  Not said of: any but the ports, once two upgrades overlapped; the
\* keys, once an upgrade was killed after they had moved, or a command wrote back
\* the data it had loaded before another logged out or in; the default groups, once
\* a kube connect wrote back those it had read before they were changed; and the
\* ports, once a connect did.
SettingsKept ==
  LET e == Effective
      Unless(excuses) == excuses \cap excuse = {}
  IN /\ Unless({"upgrades"}) =>
          e.db = want.db /\ e.kube = want.kube /\ e.secure = want.secure /\ e.me = want.me
     /\ Unless({"upgrades", "groups"}) => e.groups = want.groups
     /\ Unless({"upgrades", "killed", "keys"}) => e.keys = want.keys
     /\ Unless({"ports"}) => e.ports = want.ports

\* A command that is past the upgrade sees the new schema alone, unless upgrades
\* overlapped: nothing old is left, also where a killed upgrade was taken up.
NewSchemaOnly == "upgrades" \notin excuse => \A c \in Cmd : pc[c] \notin {"idle", "upgrading"} =>
  /\ ~file.dbConfig /\ ~file.keySplitting /\ file.kubeConfig = None
  /\ file.web = Typed /\ file.whoami # Untyped /\ Untyped \notin file.kubeDaemons

\* No command has truncated the file and not written it yet.
Untruncated == \A c \in Cmd : pc[c] \notin {"writingLinked", "writingRest"}

\* Whatever is generated and taken back for whichever files, and whatever older
\* zlis had put in, the user's own ssh configuration is not touched; but for
\* commands that overlap, and for a kill of one that has just truncated the file.
OwnKept == "ssh" \notin excuse /\ Untruncated => Once(ssh, "own")

\* A file that was linked last is included once, and it exists.
LinkedOnce == "ssh" \notin excuse /\ Untruncated => \A p \in linked : Once(ssh, p) /\ p \in made
=============================================================================

------------------------- MODULE ConfigurationProofs ------------------------
(* Theorems about Configuration, for any commands, apps, ports and generated *)
(* files: what the upgrade of a file keeps, however often it is killed, and  *)
(* what generate keeps of the user's ssh configuration.                      *)
EXTENDS Configuration, Integers, SequenceTheorems, WellFoundedInduction, TLAPS

-----------------------------------------------------------------------------
(* Types *)

Place == {"idle", "upgrading", "loading", "tracking", "authorizing", "admitting",
          "certifying", "running", "keyless", "keyed", "choosing", "securing", "secured",
          "generating", "linking", "unlinking", "writingLinked", "writingRest", "removing"}

\* Where a command has loaded the data for MrTAP, and where it has read nothing that
\* it writes back to the file.
Checking == {"tracking", "authorizing", "admitting", "certifying"}
Free == {"idle", "loading", "running", "keyless", "keyed", "secured", "generating", "linking",
         "unlinking", "writingLinked", "writingRest", "removing"}

Ports == [App -> Port \cup {None}]
Settings == [db : SUBSET Key, keys : BOOLEAN, kube : SUBSET Key, secure : BOOLEAN,
             groups : BOOLEAN, me : BOOLEAN, ports : Ports]
Secure == [secure : BOOLEAN, groups : BOOLEAN]
Loaded == [mrtap : BOOLEAN]

\* What a migration may write.
Assignment ==
  [field : {"serviceUrl"}, value : {TRUE}] \cup [field : {"dbDaemons"}, value : {{Legacy}}]
  \cup [field : {"dbConfig", "keySplitting"}, value : {FALSE}]
  \cup [field : {"kubeConfig"}, value : KubeConfig \cup {None}]
  \cup [field : {"web", "whoami"}, value : {Typed}] \cup [field : {"mrtap"}, value : BOOLEAN]
  \cup [field : {"globalKubeConfig"}, value : Secure]
  \cup [field : {"kubeDaemons"}, value : SUBSET Key]
  \cup [field : {"stamp"}, value : {Current, Interrupted}]

\* The migrations that are left to a command are the last ones.
Migration == {Migrations[i] : i \in 1..Current}
IsRest(s) ==
  /\ s \in Seq(Migration) /\ Len(s) <= Current
  /\ \A i \in 1..Len(s) : s[i] = Migrations[Current - Len(s) + i]

\* What a command has read is what it writes back.
Holds(c) ==
  /\ pc[c] = "choosing" => about[c] \in App /\ seen[c] \in Ports
  /\ pc[c] \in Checking => seen[c] \in Loaded
  /\ pc[c] = "securing" => seen[c] \in Secure

\* Only who upgrades has migrations to run or writes to do.
Shape ==
  /\ file \in File /\ want \in Settings
  /\ pc \in [Cmd -> Place]
  /\ DOMAIN about = Cmd /\ DOMAIN seen = Cmd /\ DOMAIN todo = Cmd /\ DOMAIN writes = Cmd
  /\ \A c \in Cmd : IsRest(todo[c]) /\ writes[c] \in Seq(Assignment)
  /\ \A c \in Cmd : Holds(c)
  /\ \A c \in Cmd : pc[c] = "upgrading" <=> writes[c] # <<>> \/ todo[c] # <<>>

LEMMA Five == Current = 5
  BY DEF Current, Migrations

LEMMA Natural == Current \in Nat
  BY Five

LEMMA EmptyIsZero ==
  ASSUME NEW S, NEW s \in Seq(S)
  PROVE  s = <<>> <=> Len(s) = 0
  BY EmptySeq

\* What is left of a sequence of which the first is taken.
LEMMA Taken ==
  ASSUME NEW S, NEW s \in Seq(S), s # <<>>
  PROVE  /\ Len(s) \in Nat \ {0} /\ Head(s) = s[1] /\ Head(s) \in S
         /\ Tail(s) \in Seq(S) /\ Len(Tail(s)) = Len(s) - 1
         /\ \A i \in 1..Len(s) - 1 : Tail(s)[i] = s[i + 1]
         /\ Tail(s) = <<>> <=> Len(s) = 1
<1>1. Len(s) \in Nat \ {0}
  BY EmptySeq
<1>2. /\ Head(s) = s[1] /\ Tail(s) \in Seq(S) /\ Len(Tail(s)) = Len(s) - 1
      /\ \A i \in 1..Len(s) - 1 : Tail(s)[i] = s[i + 1]
  BY <1>1, HeadTailProperties
<1>3. Tail(s) = <<>> <=> Len(Tail(s)) = 0
  BY <1>2, EmptyIsZero, Zenon
<1>4. Tail(s) = <<>> <=> Len(s) = 1
  BY <1>1, <1>2, <1>3
<1>5. Head(s) \in S
  BY <1>1, <1>2, ElementOfSeq
<1> QED BY <1>1, <1>2, <1>3, <1>4, <1>5

\* The file's version tells which migrations it lacks.
Start == IF file.stamp = Interrupted THEN 0 ELSE file.stamp

LEMMA PendingIsRest ==
  ASSUME NEW n \in 0..Current
  PROVE  LET s == SubSeq(Migrations, n + 1, Current) IN IsRest(s) /\ Len(s) = Current - n
<1>1. Migrations \in Seq(Migration) /\ Len(Migrations) = 5
  BY DEF Migrations, Migration, Current
<1>2. /\ SubSeq(Migrations, n + 1, Current) \in Seq(Migration)
      /\ Len(SubSeq(Migrations, n + 1, Current)) = Current - n
      /\ \A i \in 1..Current - n : SubSeq(Migrations, n + 1, Current)[i] = Migrations[n + i]
  <2>1. \A i \in n + 1..Current : Migrations[i] \in Migration
    BY <1>1, Five
  <2> QED BY <2>1, Five, SubSeqProperties
<1> QED BY <1>2, Five DEF IsRest

LEMMA RestShrinks ==
  ASSUME NEW s, IsRest(s), s # <<>>
  PROVE  /\ IsRest(Tail(s)) /\ Len(Tail(s)) = Len(s) - 1
         /\ Len(s) \in 1..Current /\ Head(s) = Migrations[Current - Len(s) + 1]
         /\ Tail(s) = <<>> <=> Len(s) = 1
<1>1. Len(s) \in 1..Current
  <2>1. s \in Seq(Migration) BY DEF IsRest
  <2>2. Len(s) <= Current BY DEF IsRest
  <2>3. Len(s) \in Nat \ {0} BY <2>1, EmptySeq
  <2> QED BY <2>2, <2>3, Natural
<1>2. PICK t : t = Tail(s)
  OBVIOUS
<1>3. /\ t \in Seq(Migration) /\ Len(t) = Len(s) - 1 /\ Head(s) = s[1]
      /\ \A i \in 1..Len(s) - 1 : t[i] = s[i + 1]
      /\ t = <<>> <=> Len(s) = 1
  <2>1. s \in Seq(Migration) BY DEF IsRest
  <2> QED BY <1>2, <2>1, Taken
<1>4. \A i \in 1..Len(s) : s[i] = Migrations[Current - Len(s) + i]
  BY DEF IsRest
<1>5. ASSUME NEW i \in 1..Len(t) PROVE t[i] = Migrations[Current - Len(t) + i]
  <2>1. i + 1 \in 1..Len(s) /\ Current - Len(s) + (i + 1) = Current - Len(t) + i
    BY <1>1, <1>3, Five
  <2> QED BY <1>3, <1>4, <2>1
<1>6. Len(t) <= Current
  BY <1>1, <1>3, Five
<1>7. IsRest(t)
  BY <1>3, <1>5, <1>6 DEF IsRest
<1>8. Head(s) = Migrations[Current - Len(s) + 1]
  BY <1>1, <1>3, <1>4
<1> QED BY <1>1, <1>2, <1>3, <1>7, <1>8

-----------------------------------------------------------------------------
(* The writes of a migration *)

\* The order they come in, in every migration.
Order == [serviceUrl |-> 1, dbDaemons |-> 2, dbConfig |-> 3, globalKubeConfig |-> 4,
          kubeDaemons |-> 5, kubeConfig |-> 6, web |-> 7, mrtap |-> 8, keySplitting |-> 9,
          whoami |-> 10, stamp |-> 11]
Stamps(w) == w.field = "stamp"
Ordered(ws, last) ==
  /\ \A i, j \in 1..Len(ws) : i < j =>
       Order[ws[i].field] < Order[ws[j].field] \/ (Stamps(ws[i]) /\ Stamps(ws[j]))
  /\ \A j \in 1..Len(ws) : Stamps(ws[j]) => (ws[j].value = Current <=> last /\ j = Len(ws))
  /\ ws # <<>> => Stamps(ws[Len(ws)])

Fields(ws) == {ws[j].field : j \in 1..Len(ws)}

Secures(k) == [secure |-> k.secure, groups |-> k.groups]
Daemons(k) == IF k.daemon THEN {Legacy} ELSE {}

\* A write is of what the settings are, and what it replaces has been moved, or
\* is to be moved by another of the writes to come.
Sound(w, fields) ==
  LET k == file.kubeConfig
  IN /\ w.field = "dbDaemons" => file.dbConfig
     /\ w.field = "dbConfig" => file.dbConfig
          /\ (file.dbDaemons = {Legacy} \/ "dbDaemons" \in fields)
     /\ w.field = "globalKubeConfig" => k # None /\ w.value = Secures(k)
     /\ w.field = "kubeDaemons" => k # None /\ w.value = Daemons(k)
     /\ w.field = "kubeConfig" => k # None /\ w.value \in {None, [k EXCEPT !.typed = TRUE]}
     /\ w.field = "kubeConfig" /\ w.value = None =>
          /\ file.globalKubeConfig = Secures(k) \/ "globalKubeConfig" \in fields
          /\ file.kubeDaemons = Daemons(k) \/ "kubeDaemons" \in fields
     /\ w.field = "mrtap" => w.value = file.keySplitting
     /\ w.field = "keySplitting" => file.mrtap = file.keySplitting \/ "mrtap" \in fields
     /\ w.field = "whoami" => file.whoami # None

\* Nothing old is left by the first n migrations, but for writes to come.
Schema(n, fields) ==
  /\ n >= 2 => /\ file.dbConfig => "dbConfig" \in fields
               /\ file.web = Typed \/ "web" \in fields
               /\ file.kubeConfig # None => file.kubeConfig.typed \/ "kubeConfig" \in fields
  /\ n >= 3 /\ file.keySplitting => "keySplitting" \in fields
  /\ n >= 4 /\ file.kubeConfig # None => "kubeConfig" \in fields
  /\ n >= 5 => file.whoami # Untyped \/ "whoami" \in fields
  /\ Untyped \notin file.kubeDaemons

\* The keys are not in the new place alone while a migration would clear it.
KeysKept(n, fields) ==
  n < 3 \/ "mrtap" \in fields => (file.mrtap => file.keySplitting)

\* The keys are moved by the third migration, and types added by the second.
Timely(w, n) ==
  /\ w.field \in {"mrtap", "keySplitting"} => n = 3
  /\ w.field = "kubeConfig" /\ w.value # None => n = 2

Right(ws, n, last) ==
  /\ Ordered(ws, last)
  /\ \A j \in 1..Len(ws) : Sound(ws[j], Fields(ws)) /\ Timely(ws[j], n)
  /\ Schema(n, Fields(ws))

Plan(m, last) == Writes(m) \o Set("stamp", Interrupted) \o (IF last THEN Set("stamp",
  Current) ELSE <<>>)

W(field, value) == [field |-> field, value |-> value]

LEMMA Writable ==
  /\ W("serviceUrl", TRUE) \in Assignment /\ W("dbDaemons", {Legacy}) \in Assignment
  /\ W("dbConfig", FALSE) \in Assignment /\ W("keySplitting", FALSE) \in Assignment
  /\ \A k \in KubeConfig \cup {None} : W("kubeConfig", k) \in Assignment
  /\ W("web", Typed) \in Assignment /\ W("whoami", Typed) \in Assignment
  /\ \A b \in BOOLEAN : W("mrtap", b) \in Assignment
  /\ \A g \in Secure : W("globalKubeConfig", g) \in Assignment
  /\ \A d \in SUBSET Key : W("kubeDaemons", d) \in Assignment
  /\ W("stamp", Current) \in Assignment /\ W("stamp", Interrupted) \in Assignment
<1>1. W("stamp", Current) \in Assignment /\ W("stamp", Interrupted) \in Assignment
  BY DEF W, Assignment
<1>2. /\ W("serviceUrl", TRUE) \in Assignment /\ W("dbDaemons", {Legacy}) \in Assignment
      /\ W("dbConfig", FALSE) \in Assignment /\ W("keySplitting", FALSE) \in Assignment
  BY DEF W, Assignment
<1>3. \A k \in KubeConfig \cup {None} : W("kubeConfig", k) \in Assignment
  BY DEF W, Assignment
<1>4. /\ W("web", Typed) \in Assignment /\ W("whoami", Typed) \in Assignment
      /\ \A b \in BOOLEAN : W("mrtap", b) \in Assignment
  BY DEF W, Assignment
<1>5. /\ \A g \in Secure : W("globalKubeConfig", g) \in Assignment
      /\ \A d \in SUBSET Key : W("kubeDaemons", d) \in Assignment
  BY DEF W, Assignment
<1> QED BY <1>1, <1>2, <1>3, <1>4, <1>5

LEMMA OneWrite == \A f, v : Set(f, v) = <<W(f, v)>>
  BY DEF Set, W

\* Sequences put together one by one.
LEMMA Join2 ==
  ASSUME NEW a, NEW b
  PROVE  <<a>> \o <<b>> = <<a, b>>
<1> DEFINE S == {a, b}
<1>1. <<a>> \in Seq(S) /\ <<b>> \in Seq(S) /\ <<a, b>> \in Seq(S)
  OBVIOUS
<1> HIDE DEF S
<1>2. <<a>> \o <<b>> \in Seq(S) /\ Len(<<a>> \o <<b>>) = 2
  BY <1>1
<1>3. \A i \in 1..2 : (<<a>> \o <<b>>)[i] = <<a, b>>[i]
  BY <1>1
<1> QED BY <1>1, <1>2, <1>3, SeqEqual

LEMMA Join3 ==
  ASSUME NEW a, NEW b, NEW c
  PROVE  <<a, b>> \o <<c>> = <<a, b, c>>
<1> DEFINE S == {a, b, c}
<1>1. <<a, b>> \in Seq(S) /\ <<c>> \in Seq(S) /\ <<a, b, c>> \in Seq(S)
  OBVIOUS
<1> HIDE DEF S
<1>2. <<a, b>> \o <<c>> \in Seq(S) /\ Len(<<a, b>> \o <<c>>) = 3
  BY <1>1
<1>3. \A i \in 1..3 : (<<a, b>> \o <<c>>)[i] = <<a, b, c>>[i]
  BY <1>1
<1> QED BY <1>1, <1>2, <1>3, SeqEqual

LEMMA Join4 ==
  ASSUME NEW a, NEW b, NEW c, NEW d
  PROVE  <<a, b, c>> \o <<d>> = <<a, b, c, d>>
<1> DEFINE S == {a, b, c, d}
<1>1. <<a, b, c>> \in Seq(S) /\ <<d>> \in Seq(S) /\ <<a, b, c, d>> \in Seq(S)
  OBVIOUS
<1> HIDE DEF S
<1>2. <<a, b, c>> \o <<d>> \in Seq(S) /\ Len(<<a, b, c>> \o <<d>>) = 4
  BY <1>1
<1>3. \A i \in 1..4 : (<<a, b, c>> \o <<d>>)[i] = <<a, b, c, d>>[i]
  BY <1>1
<1> QED BY <1>1, <1>2, <1>3, SeqEqual

LEMMA Join5 ==
  ASSUME NEW a, NEW b, NEW c, NEW d, NEW e
  PROVE  <<a, b, c, d>> \o <<e>> = <<a, b, c, d, e>>
<1> DEFINE S == {a, b, c, d, e}
<1>1. <<a, b, c, d>> \in Seq(S) /\ <<e>> \in Seq(S) /\ <<a, b, c, d, e>> \in Seq(S)
  OBVIOUS
<1> HIDE DEF S
<1>2. <<a, b, c, d>> \o <<e>> \in Seq(S) /\ Len(<<a, b, c, d>> \o <<e>>) = 5
  BY <1>1
<1>3. \A i \in 1..5 : (<<a, b, c, d>> \o <<e>>)[i] = <<a, b, c, d, e>>[i]
  BY <1>1
<1> QED BY <1>1, <1>2, <1>3, SeqEqual

LEMMA Join1 == ASSUME NEW a PROVE <<>> \o <<a>> = <<a>>
  OBVIOUS

LEMMA End1 ==
  ASSUME NEW a
  PROVE  <<a>> \o <<>> = <<a>>
<1>1. <<a>> \in Seq({a})
  OBVIOUS
<1> QED BY <1>1, ConcatEmptySeq, Zenon

LEMMA End2 ==
  ASSUME NEW a, NEW b
  PROVE  <<a, b>> \o <<>> = <<a, b>>
<1>1. <<a, b>> \in Seq({a, b})
  OBVIOUS
<1> QED BY <1>1, ConcatEmptySeq, Zenon

LEMMA End3 ==
  ASSUME NEW a, NEW b, NEW c
  PROVE  <<a, b, c>> \o <<>> = <<a, b, c>>
<1>1. <<a, b, c>> \in Seq({a, b, c})
  OBVIOUS
<1> QED BY <1>1, ConcatEmptySeq, Zenon

LEMMA End4 ==
  ASSUME NEW a, NEW b, NEW c, NEW d
  PROVE  <<a, b, c, d>> \o <<>> = <<a, b, c, d>>
<1>1. <<a, b, c, d>> \in Seq({a, b, c, d})
  OBVIOUS
<1> QED BY <1>1, ConcatEmptySeq, Zenon

LEMMA End5 ==
  ASSUME NEW a, NEW b, NEW c, NEW d, NEW e
  PROVE  <<a, b, c, d, e>> \o <<>> = <<a, b, c, d, e>>
<1>1. <<a, b, c, d, e>> \in Seq({a, b, c, d, e})
  OBVIOUS
<1> QED BY <1>1, ConcatEmptySeq, Zenon

LEMMA Chain3 ==
  ASSUME NEW a, NEW b, NEW c
  PROVE  (<<a>> \o <<b>>) \o <<c>> = <<a, b, c>>
<1>1. <<a>> \o <<b>> = <<a, b>>
  BY Join2, Zenon
<1> QED BY <1>1, Join3, Zenon

LEMMA Chain4 ==
  ASSUME NEW a, NEW b, NEW c, NEW d
  PROVE  ((<<a>> \o <<b>>) \o <<c>>) \o <<d>> = <<a, b, c, d>>
<1>1. (<<a>> \o <<b>>) \o <<c>> = <<a, b, c>>
  BY Chain3, Zenon
<1>2. <<a, b, c>> \o <<d>> = <<a, b, c, d>>
  BY Join4, Zenon
<1> QED BY <1>1, <1>2, Zenon

LEMMA Chain5 ==
  ASSUME NEW a, NEW b, NEW c, NEW d, NEW e
  PROVE  (((<<a>> \o <<b>>) \o <<c>>) \o <<d>>) \o <<e>> = <<a, b, c, d, e>>
<1>1. ((<<a>> \o <<b>>) \o <<c>>) \o <<d>> = <<a, b, c, d>>
  BY Chain4, Zenon
<1>2. <<a, b, c, d>> \o <<e>> = <<a, b, c, d, e>>
  BY Join5, Zenon
<1> QED BY <1>1, <1>2, Zenon

\* What each consists of, in this order.
LEMMA PlanOfServiceUrl ==
  Plan("serviceUrl", FALSE) = <<W("serviceUrl", TRUE), W("stamp", Interrupted)>>
<1>1. Plan("serviceUrl", FALSE) = <<W("serviceUrl", TRUE)>> \o <<W("stamp", Interrupted)>> \o <<>>
  BY OneWrite DEF Plan, Writes
<1> QED BY <1>1, Join2, End2, Zenon

LEMMA PlanOfWhoami ==
  Plan("whoami", TRUE) =
    IF file.whoami = Untyped
    THEN <<W("whoami", Typed), W("stamp", Interrupted), W("stamp", Current)>>
    ELSE <<W("stamp", Interrupted), W("stamp", Current)>>
<1>1. CASE file.whoami = Untyped
  <2>1. Plan("whoami", TRUE) = <<W("whoami", Typed)>> \o <<W("stamp",
          Interrupted)>> \o <<W("stamp", Current)>>
    BY <1>1, OneWrite DEF Plan, Writes
  <2> QED BY <1>1, <2>1, Chain3, Zenon
<1>2. CASE file.whoami # Untyped
  <2>1. Plan("whoami", TRUE) = <<>> \o <<W("stamp", Interrupted)>> \o <<W("stamp", Current)>>
    BY <1>2, OneWrite DEF Plan, Writes
  <2> QED BY <1>2, <2>1, Join1, Join2, Zenon
<1> QED BY <1>1, <1>2

LEMMA PlanOfMrtap ==
  Plan("mrtap", FALSE) =
    <<W("mrtap", file.keySplitting), W("keySplitting", FALSE), W("stamp", Interrupted)>>
<1>1. Plan("mrtap", FALSE) = (<<W("mrtap", file.keySplitting)>> \o <<W("keySplitting", FALSE)>>)
                               \o <<W("stamp", Interrupted)>> \o <<>>
  BY OneWrite DEF Plan, Writes
<1>2. (<<W("mrtap", file.keySplitting)>> \o <<W("keySplitting", FALSE)>>) \o <<W("stamp",
        Interrupted)>>
        = <<W("mrtap", file.keySplitting), W("keySplitting", FALSE), W("stamp", Interrupted)>>
  BY Chain3, Zenon
<1> QED BY <1>1, <1>2, End3, Zenon

LEMMA PlanOfKubeDaemons ==
  ASSUME file.kubeConfig # None => file.kubeConfig.typed
  PROVE  LET k == file.kubeConfig
         IN Plan("kubeDaemons", FALSE) =
              IF k = None THEN <<W("stamp", Interrupted)>>
              ELSE <<W("globalKubeConfig", Secures(k)), W("kubeDaemons", Daemons(k)),
                     W("kubeConfig", None), W("stamp", Interrupted)>>
<1> DEFINE k == file.kubeConfig
<1>1. CASE k = None
  <2>1. Plan("kubeDaemons", FALSE) = <<>> \o <<W("stamp", Interrupted)>> \o <<>>
    BY <1>1, OneWrite DEF Plan, Writes, KubeDaemons
  <2> QED BY <1>1, <2>1, Join1, End1, Zenon
<1>2. CASE k # None
  <2>1. k.typed /\ Security(k) = <<W("globalKubeConfig", Secures(k))>>
    BY <1>2, OneWrite DEF Security, Secures
  <2>2. Moved(k) = <<W("kubeDaemons", Daemons(k))>>
    BY <2>1, OneWrite DEF Moved, Daemons
  <2>3. Plan("kubeDaemons", FALSE) =
          ((<<W("globalKubeConfig", Secures(k))>> \o <<W("kubeDaemons", Daemons(k))>>)
             \o <<W("kubeConfig", None)>>) \o <<W("stamp", Interrupted)>> \o <<>>
    BY <1>2, <2>1, <2>2, OneWrite DEF Plan, Writes, KubeDaemons
  <2>4. ((<<W("globalKubeConfig", Secures(k))>> \o <<W("kubeDaemons", Daemons(k))>>)
           \o <<W("kubeConfig", None)>>) \o <<W("stamp", Interrupted)>>
        = <<W("globalKubeConfig", Secures(k)), W("kubeDaemons", Daemons(k)),
            W("kubeConfig", None), W("stamp", Interrupted)>>
    BY Chain4, Zenon
  <2> QED BY <1>2, <2>3, <2>4, End4, Zenon
<1> QED BY <1>1, <1>2

Typing(k) == W("kubeConfig", [k EXCEPT !.typed = TRUE])

LEMMA PlanOfDbDaemons ==
  LET k == file.kubeConfig
  IN Plan("dbDaemons", FALSE) =
       IF file.dbConfig
       THEN IF k = None
            THEN <<W("dbDaemons", {Legacy}), W("dbConfig", FALSE), W("web", Typed), W("stamp",
              Interrupted)>>
            ELSE <<W("dbDaemons", {Legacy}), W("dbConfig", FALSE), Typing(k), W("web", Typed),
                   W("stamp", Interrupted)>>
       ELSE IF k = None THEN <<W("web", Typed), W("stamp", Interrupted)>>
            ELSE <<Typing(k), W("web", Typed), W("stamp", Interrupted)>>
<1> DEFINE k == file.kubeConfig
           old == <<W("dbDaemons", {Legacy})>> \o <<W("dbConfig", FALSE)>>
           Both(x, y) == (((x \o y) \o <<W("web", Typed)>>) \o <<W("stamp", Interrupted)>>) \o <<>>
<1>1. Plan("dbDaemons", FALSE) =
        Both(IF file.dbConfig THEN old ELSE <<>>, IF k # None THEN <<Typing(k)>> ELSE <<>>)
  BY OneWrite DEF Plan, Writes, DbDaemons, Typing
<1>2. CASE ~file.dbConfig /\ k = None
  <2>1. Plan("dbDaemons", FALSE) = Both(<<>>, <<>>)
    BY <1>1, <1>2, Zenon
  <2>2. (<<>> \o <<>>) \o <<W("web", Typed)>> = <<W("web", Typed)>>
    OBVIOUS
  <2>3. <<W("web", Typed)>> \o <<W("stamp", Interrupted)>> = <<W("web", Typed), W("stamp",
          Interrupted)>>
    BY Join2, Zenon
  <2> QED BY <1>2, <2>1, <2>2, <2>3, End2, Zenon
<1>3. CASE ~file.dbConfig /\ k # None
  <2>1. Plan("dbDaemons", FALSE) = Both(<<>>, <<Typing(k)>>)
    BY <1>1, <1>3, Zenon
  <2>2. <<>> \o <<Typing(k)>> = <<Typing(k)>>
    BY Join1
  <2>3. (<<Typing(k)>> \o <<W("web", Typed)>>) \o <<W("stamp", Interrupted)>>
        = <<Typing(k), W("web", Typed), W("stamp", Interrupted)>>
    BY Chain3, Zenon
  <2> QED BY <1>3, <2>1, <2>2, <2>3, End3, Zenon
<1>4. CASE file.dbConfig /\ k = None
  <2>1. Plan("dbDaemons", FALSE) = Both(old, <<>>)
    BY <1>1, <1>4, Zenon
  <2>2. old \o <<>> = old
    BY Join2, End2, Zenon
  <2>3. (old \o <<W("web", Typed)>>) \o <<W("stamp", Interrupted)>>
        = <<W("dbDaemons", {Legacy}), W("dbConfig", FALSE), W("web", Typed), W("stamp",
          Interrupted)>>
    BY Chain4, Zenon
  <2> QED BY <1>4, <2>1, <2>2, <2>3, End4, Zenon
<1>5. CASE file.dbConfig /\ k # None
  <2>1. Plan("dbDaemons", FALSE) = Both(old, <<Typing(k)>>)
    BY <1>1, <1>5, Zenon
  <2>2. ((old \o <<Typing(k)>>) \o <<W("web", Typed)>>) \o <<W("stamp", Interrupted)>>
        = <<W("dbDaemons", {Legacy}), W("dbConfig", FALSE), Typing(k), W("web", Typed),
            W("stamp", Interrupted)>>
    BY Chain5, Zenon
  <2> QED BY <1>5, <2>1, <2>2, End5, Zenon
<1> QED BY <1>2, <1>3, <1>4, <1>5
LEMMA InSeq ==
  ASSUME NEW S, NEW a \in S, NEW b \in S, NEW c \in S, NEW d \in S, NEW e \in S
  PROVE  /\ <<a>> \in Seq(S) /\ <<a, b>> \in Seq(S) /\ <<a, b, c>> \in Seq(S)
         /\ <<a, b, c, d>> \in Seq(S) /\ <<a, b, c, d, e>> \in Seq(S)
  OBVIOUS

\* Right, and not empty.
Fine(ws, n, last) == ws \in Seq(Assignment) /\ ws # <<>> /\ Right(ws, n, last)

LEMMA RightServiceUrl ==
  ASSUME file \in File, Schema(0, {})
  PROVE  Fine(Plan("serviceUrl", FALSE), 1, FALSE)
<1> DEFINE ws == <<W("serviceUrl", TRUE), W("stamp", Interrupted)>>
<1>1. ws \in Seq(Assignment) /\ ws # <<>>
  <2>1. ws \in Seq(Assignment) BY Writable, InSeq, Zenon
  <2> QED BY <2>1
<1>2. Ordered(ws, FALSE)
  BY ConfigurationAssumption, Five DEF Ordered, Order, Stamps, W, Interrupted
<1>3. \A j \in 1..Len(ws) : Sound(ws[j], Fields(ws)) /\ Timely(ws[j], 1)
  BY DEF Sound, Timely, W
<1>4. Schema(1, Fields(ws))
  BY DEF Schema
<1> QED BY <1>1, <1>2, <1>3, <1>4, PlanOfServiceUrl DEF Right, Fine

LEMMA RightDbDaemons ==
  ASSUME file \in File, Schema(1, {})
  PROVE  Fine(Plan("dbDaemons", FALSE), 2, FALSE)
<1> DEFINE k == file.kubeConfig
           a == W("dbDaemons", {Legacy})
           b == W("dbConfig", FALSE)
           c == Typing(k)
           d == W("web", Typed)
           e == W("stamp", Interrupted)
<1>1. /\ a \in Assignment /\ b \in Assignment /\ d \in Assignment /\ e \in Assignment
      /\ k # None => c \in Assignment
  BY Writable DEF Typing, File, KubeConfig
<1>2. /\ a.field = "dbDaemons" /\ b.field = "dbConfig" /\ c.field = "kubeConfig"
      /\ d.field = "web" /\ e.field = "stamp" /\ e.value # Current
      /\ c.value = [k EXCEPT !.typed = TRUE]
  BY ConfigurationAssumption, Five DEF W, Typing, Interrupted
<1>3. Untyped \notin file.kubeDaemons /\ (k # None => c.value # None)
  <2>1. k # None => [k EXCEPT !.typed = TRUE] \in KubeConfig
    BY DEF File, KubeConfig
  <2> QED BY <1>2, <2>1, ConfigurationAssumption DEF Schema
<1> HIDE DEF a, b, c, d, e
<1>4. CASE ~file.dbConfig /\ k = None
  <2> DEFINE ws == <<d, e>>
  <2>1. Plan("dbDaemons", FALSE) = ws
    BY <1>4, PlanOfDbDaemons, Zenon DEF d, e
  <2>2. ws \in Seq(Assignment) /\ ws # <<>>
    BY <1>1
  <2>3. Ordered(ws, FALSE)
    BY <1>2 DEF Ordered, Order, Stamps
  <2>4. Fields(ws) = {"web", "stamp"}
    BY <1>2 DEF Fields
  <2>5. \A j \in 1..Len(ws) : Sound(ws[j], Fields(ws)) /\ Timely(ws[j], 2)
    BY <1>2 DEF Sound, Timely
  <2>6. Schema(2, Fields(ws))
    BY <1>3, <1>4, <2>4 DEF Schema
  <2> QED BY <2>1, <2>2, <2>3, <2>5, <2>6 DEF Right, Fine
<1>5. CASE ~file.dbConfig /\ k # None
  <2> DEFINE ws == <<c, d, e>>
  <2>1. Plan("dbDaemons", FALSE) = ws
    BY <1>5, PlanOfDbDaemons, Zenon DEF c, d, e
  <2>2. ws \in Seq(Assignment) /\ ws # <<>>
    BY <1>1, <1>5
  <2>3. Ordered(ws, FALSE)
    BY <1>2 DEF Ordered, Order, Stamps
  <2>4. Fields(ws) = {"kubeConfig", "web", "stamp"}
    BY <1>2 DEF Fields
  <2>5. \A j \in 1..Len(ws) : Sound(ws[j], Fields(ws)) /\ Timely(ws[j], 2)
    BY <1>2, <1>3, <1>5 DEF Sound, Timely
  <2>6. Schema(2, Fields(ws))
    BY <1>3, <1>5, <2>4 DEF Schema
  <2> QED BY <2>1, <2>2, <2>3, <2>5, <2>6 DEF Right, Fine
<1>6. CASE file.dbConfig /\ k = None
  <2> DEFINE ws == <<a, b, d, e>>
  <2>1. Plan("dbDaemons", FALSE) = ws
    BY <1>6, PlanOfDbDaemons, Zenon DEF a, b, d, e
  <2>2. ws \in Seq(Assignment) /\ ws # <<>>
    BY <1>1
  <2>3. Ordered(ws, FALSE)
    BY <1>2 DEF Ordered, Order, Stamps
  <2>4. Fields(ws) = {"dbDaemons", "dbConfig", "web", "stamp"}
    BY <1>2 DEF Fields
  <2>5. \A j \in 1..Len(ws) : Sound(ws[j], Fields(ws)) /\ Timely(ws[j], 2)
    BY <1>2, <1>6, <2>4 DEF Sound, Timely
  <2>6. Schema(2, Fields(ws))
    BY <1>3, <1>6, <2>4 DEF Schema
  <2> QED BY <2>1, <2>2, <2>3, <2>5, <2>6 DEF Right, Fine
<1>7. CASE file.dbConfig /\ k # None
  <2> DEFINE ws == <<a, b, c, d, e>>
  <2>1. Plan("dbDaemons", FALSE) = ws
    BY <1>7, PlanOfDbDaemons, Zenon DEF a, b, c, d, e
  <2>2. ws \in Seq(Assignment) /\ ws # <<>>
    BY <1>1, <1>7
  <2>3. Ordered(ws, FALSE)
    BY <1>2 DEF Ordered, Order, Stamps
  <2>4. Fields(ws) = {"dbDaemons", "dbConfig", "kubeConfig", "web", "stamp"}
    BY <1>2 DEF Fields
  <2>5. \A j \in 1..Len(ws) : Sound(ws[j], Fields(ws)) /\ Timely(ws[j], 2)
    BY <1>2, <1>3, <1>7, <2>4 DEF Sound, Timely
  <2>6. Schema(2, Fields(ws))
    BY <1>3, <1>7, <2>4 DEF Schema
  <2> QED BY <2>1, <2>2, <2>3, <2>5, <2>6 DEF Right, Fine
<1>8. file.dbConfig \in BOOLEAN
  BY DEF File
<1> QED BY <1>4, <1>5, <1>6, <1>7, <1>8

LEMMA RightMrtap ==
  ASSUME file \in File, Schema(2, {})
  PROVE  Fine(Plan("mrtap", FALSE), 3, FALSE)
<1> DEFINE a == W("mrtap", file.keySplitting)
           b == W("keySplitting", FALSE)
           c == W("stamp", Interrupted)
           ws == <<a, b, c>>
<1>1. a \in Assignment /\ b \in Assignment /\ c \in Assignment
  <2>1. file.keySplitting \in BOOLEAN BY DEF File
  <2> QED BY <2>1, Writable
<1>2. /\ a.field = "mrtap" /\ b.field = "keySplitting" /\ c.field = "stamp"
      /\ a.value = file.keySplitting /\ c.value # Current
  BY ConfigurationAssumption, Five DEF W, Interrupted
<1>3. Plan("mrtap", FALSE) = ws
  BY PlanOfMrtap
<1> HIDE DEF a, b, c
<1>4. ws \in Seq(Assignment) /\ ws # <<>>
  BY <1>1
<1>5. Ordered(ws, FALSE)
  BY <1>2 DEF Ordered, Order, Stamps
<1>6. Fields(ws) = {"mrtap", "keySplitting", "stamp"}
  BY <1>2 DEF Fields
<1>7. \A j \in 1..Len(ws) : Sound(ws[j], Fields(ws)) /\ Timely(ws[j], 3)
  BY <1>2, <1>6 DEF Sound, Timely
<1>8. Schema(3, Fields(ws))
  BY <1>6 DEF Schema
<1> QED BY <1>3, <1>4, <1>5, <1>7, <1>8 DEF Right, Fine

LEMMA RightKubeDaemons ==
  ASSUME file \in File, Schema(3, {})
  PROVE  Fine(Plan("kubeDaemons", FALSE), 4, FALSE)
<1> DEFINE k == file.kubeConfig
           a == W("globalKubeConfig", Secures(k))
           b == W("kubeDaemons", Daemons(k))
           c == W("kubeConfig", None)
           d == W("stamp", Interrupted)
<1>1. /\ c \in Assignment /\ d \in Assignment
      /\ k # None => a \in Assignment /\ b \in Assignment
  <2>1. k # None => Secures(k) \in Secure /\ Daemons(k) \in SUBSET Key
    BY DEF File, KubeConfig, Secures, Daemons, Secure, Key
  <2> QED BY <2>1, Writable
<1>2. /\ a.field = "globalKubeConfig" /\ b.field = "kubeDaemons" /\ c.field = "kubeConfig"
      /\ d.field = "stamp" /\ d.value # Current
      /\ a.value = Secures(k) /\ b.value = Daemons(k) /\ c.value = None
  BY ConfigurationAssumption, Five DEF W, Interrupted
<1>3. Untyped \notin file.kubeDaemons /\ (k # None => k.typed)
      /\ ~file.dbConfig /\ file.web = Typed /\ ~file.keySplitting
  BY DEF Schema
<1> HIDE DEF a, b, c, d
<1>4. CASE k = None
  <2> DEFINE ws == <<d>>
  <2>1. Plan("kubeDaemons", FALSE) = ws
    BY <1>3, <1>4, PlanOfKubeDaemons, Zenon DEF d
  <2>2. ws \in Seq(Assignment) /\ ws # <<>>
    BY <1>1
  <2>3. Ordered(ws, FALSE)
    BY <1>2 DEF Ordered, Order, Stamps
  <2>4. Fields(ws) = {"stamp"}
    BY <1>2 DEF Fields
  <2>5. \A j \in 1..Len(ws) : Sound(ws[j], Fields(ws)) /\ Timely(ws[j], 4)
    BY <1>2 DEF Sound, Timely
  <2>6. Schema(4, Fields(ws))
    BY <1>3, <1>4 DEF Schema
  <2> QED BY <2>1, <2>2, <2>3, <2>5, <2>6 DEF Right, Fine
<1>5. CASE k # None
  <2> DEFINE ws == <<a, b, c, d>>
  <2>1. Plan("kubeDaemons", FALSE) = ws
    BY <1>3, <1>5, PlanOfKubeDaemons, Zenon DEF a, b, c, d
  <2>2. ws \in Seq(Assignment) /\ ws # <<>>
    BY <1>1, <1>5
  <2>3. Ordered(ws, FALSE)
    BY <1>2 DEF Ordered, Order, Stamps
  <2>4. Fields(ws) = {"globalKubeConfig", "kubeDaemons", "kubeConfig", "stamp"}
    BY <1>2 DEF Fields
  <2>5. \A j \in 1..Len(ws) : Sound(ws[j], Fields(ws)) /\ Timely(ws[j], 4)
    BY <1>2, <1>5, <2>4 DEF Sound, Timely
  <2>6. Schema(4, Fields(ws))
    BY <1>3, <1>5, <2>4 DEF Schema
  <2> QED BY <2>1, <2>2, <2>3, <2>5, <2>6 DEF Right, Fine
<1> QED BY <1>4, <1>5

LEMMA RightWhoami ==
  ASSUME file \in File, Schema(4, {})
  PROVE  Fine(Plan("whoami", TRUE), 5, TRUE)
<1> DEFINE a == W("whoami", Typed)
           b == W("stamp", Interrupted)
           c == W("stamp", Current)
<1>1. a \in Assignment /\ b \in Assignment /\ c \in Assignment
  BY Writable
<1>2. /\ a.field = "whoami" /\ b.field = "stamp" /\ c.field = "stamp"
      /\ b.value # Current /\ c.value = Current
  BY ConfigurationAssumption, Five DEF W, Interrupted
<1>3. Schema(5, {"whoami"}) /\ (file.whoami # Untyped => Schema(5, {}))
  BY DEF Schema
<1> HIDE DEF a, b, c
<1>4. CASE file.whoami = Untyped
  <2> DEFINE ws == <<a, b, c>>
  <2>1. Plan("whoami", TRUE) = ws
    BY <1>4, PlanOfWhoami, Zenon DEF a, b, c
  <2>2. ws \in Seq(Assignment) /\ ws # <<>>
    BY <1>1
  <2>3. Ordered(ws, TRUE)
    BY <1>2 DEF Ordered, Order, Stamps
  <2>4. Fields(ws) = {"whoami", "stamp"}
    BY <1>2 DEF Fields
  <2>5. \A j \in 1..Len(ws) : Sound(ws[j], Fields(ws)) /\ Timely(ws[j], 5)
    BY <1>2, <1>4, ConfigurationAssumption DEF Sound, Timely
  <2>6. Schema(5, Fields(ws))
    BY <1>3, <2>4 DEF Schema
  <2> QED BY <2>1, <2>2, <2>3, <2>5, <2>6 DEF Right, Fine
<1>5. CASE file.whoami # Untyped
  <2> DEFINE ws == <<b, c>>
  <2>1. Plan("whoami", TRUE) = ws
    BY <1>5, PlanOfWhoami, Zenon DEF b, c
  <2>2. ws \in Seq(Assignment) /\ ws # <<>>
    BY <1>1
  <2>3. Ordered(ws, TRUE)
    BY <1>2 DEF Ordered, Order, Stamps
  <2>4. Fields(ws) = {"stamp"}
    BY <1>2 DEF Fields
  <2>5. \A j \in 1..Len(ws) : Sound(ws[j], Fields(ws)) /\ Timely(ws[j], 5)
    BY <1>2 DEF Sound, Timely
  <2>6. Schema(5, Fields(ws))
    BY <1>3, <1>5 DEF Schema
  <2> QED BY <2>1, <2>2, <2>3, <2>5, <2>6 DEF Right, Fine
<1> QED BY <1>4, <1>5

\* The plan of the migration that comes after the first n.
LEMMA RightPlan ==
  ASSUME file \in File, NEW n \in 0..Current - 1, Schema(n, {})
  PROVE  Fine(Plan(Migrations[n + 1], n + 1 = Current), n + 1, n + 1 = Current)
<1>1. /\ Migrations[1] = "serviceUrl" /\ Migrations[2] = "dbDaemons" /\ Migrations[3] = "mrtap"
      /\ Migrations[4] = "kubeDaemons" /\ Migrations[5] = "whoami"
  BY DEF Migrations
<1>2. n \in {0, 1, 2, 3, 4}
  BY Five
<1>3. CASE n = 0
  <2>1. n + 1 = 1 /\ (n + 1 = Current) = FALSE BY <1>3, Five
  <2> QED BY <1>1, <1>3, <2>1, RightServiceUrl
<1>4. CASE n = 1
  <2>1. n + 1 = 2 /\ (n + 1 = Current) = FALSE BY <1>4, Five
  <2> QED BY <1>1, <1>4, <2>1, RightDbDaemons
<1>5. CASE n = 2
  <2>1. n + 1 = 3 /\ (n + 1 = Current) = FALSE BY <1>5, Five
  <2> QED BY <1>1, <1>5, <2>1, RightMrtap
<1>6. CASE n = 3
  <2>1. n + 1 = 4 /\ (n + 1 = Current) = FALSE BY <1>6, Five
  <2> QED BY <1>1, <1>6, <2>1, RightKubeDaemons
<1>7. CASE n = 4
  <2>1. n + 1 = 5 /\ (n + 1 = Current) = TRUE BY <1>7, Five
  <2> QED BY <1>1, <1>7, <2>1, RightWhoami
<1> QED BY <1>2, <1>3, <1>4, <1>5, <1>6, <1>7

-----------------------------------------------------------------------------
(* One write *)

\* What taking the first of the writes leaves.
Shrinks(ws, h, t, last) ==
  /\ h \in Assignment /\ t \in Seq(Assignment) /\ Ordered(t, last)
  /\ \A j \in 1..Len(t) : j + 1 \in 1..Len(ws) /\ t[j] = ws[j + 1]
  /\ h = ws[1] /\ 1 \in 1..Len(ws)
  /\ Fields(ws) = {h.field} \cup Fields(t)
  /\ \A f \in Fields(t) : Order[h.field] < Order[f] \/ (h.field = "stamp" /\ f = "stamp")
  /\ Stamps(h) => (h.value = Current <=> last /\ t = <<>>)
  /\ t = <<>> => Stamps(h)
  /\ t = <<>> <=> Len(ws) = 1

LEMMA TailRight ==
  ASSUME NEW ws \in Seq(Assignment), ws # <<>>, NEW last, Ordered(ws, last),
         NEW h, h = Head(ws), NEW t, t = Tail(ws)
  PROVE  Shrinks(ws, h, t, last)
<1>1. /\ Len(ws) \in Nat \ {0} /\ h = ws[1] /\ h \in Assignment
      /\ t \in Seq(Assignment) /\ Len(t) = Len(ws) - 1
      /\ \A i \in 1..Len(ws) - 1 : t[i] = ws[i + 1]
      /\ t = <<>> <=> Len(ws) = 1
  BY Taken
<1>2. Len(t) \in Nat
  BY <1>1
<1>3. \A j \in 1..Len(t) : j + 1 \in 1..Len(ws) /\ t[j] = ws[j + 1]
  BY <1>1, <1>2
<1>4. 1 \in 1..Len(ws)
  BY <1>1
<1>5. Ordered(t, last)
  <2>1. ASSUME NEW i \in 1..Len(t), NEW j \in 1..Len(t), i < j
        PROVE  Order[t[i].field] < Order[t[j].field] \/ (Stamps(t[i]) /\ Stamps(t[j]))
    <3>1. i + 1 \in 1..Len(ws) /\ j + 1 \in 1..Len(ws) /\ i + 1 < j + 1
      BY <1>3, <2>1
    <3>2. Order[ws[i + 1].field] < Order[ws[j + 1].field] \/ (Stamps(ws[i + 1])
            /\ Stamps(ws[j + 1]))
      BY <3>1 DEF Ordered
    <3> QED BY <1>3, <3>2
  <2>2. ASSUME NEW j \in 1..Len(t), Stamps(t[j])
        PROVE  t[j].value = Current <=> last /\ j = Len(t)
    <3>1. j + 1 \in 1..Len(ws) /\ (j + 1 = Len(ws) <=> j = Len(t))
      BY <1>1, <1>2, <1>3
    <3>2. ws[j + 1].value = Current <=> last /\ j + 1 = Len(ws)
      BY <1>3, <2>2, <3>1 DEF Ordered
    <3> QED BY <1>3, <3>1, <3>2
  <2>3. ASSUME t # <<>> PROVE Stamps(t[Len(t)])
    <3>1. Len(t) \in 1..Len(t) /\ Len(t) + 1 = Len(ws)
      BY <1>1, <1>2, <2>3
    <3>2. Stamps(ws[Len(ws)]) BY DEF Ordered
    <3> QED BY <1>3, <3>1, <3>2
  <2> QED BY <2>1, <2>2, <2>3 DEF Ordered
<1>6. Fields(ws) = {h.field} \cup Fields(t)
  <2>1. ASSUME NEW i \in 1..Len(ws) PROVE i = 1 \/ \E j \in 1..Len(t) : i = j + 1
    <3>1. CASE i = 1 BY <3>1
    <3>2. CASE i # 1
      <4>1. i - 1 \in 1..Len(t) /\ i = (i - 1) + 1 BY <1>1, <3>2
      <4> QED BY <4>1
    <3> QED BY <3>1, <3>2
  <2>2. ASSUME NEW f \in Fields(ws) PROVE f \in {h.field} \cup Fields(t)
    <3>1. PICK i \in 1..Len(ws) : f = ws[i].field BY DEF Fields
    <3>2. CASE i = 1 BY <1>1, <3>1, <3>2
    <3>3. CASE \E j \in 1..Len(t) : i = j + 1
      BY <1>3, <3>1, <3>3 DEF Fields
    <3> QED BY <2>1, <3>2, <3>3
  <2>3. \A f \in {h.field} \cup Fields(t) : f \in Fields(ws)
    BY <1>1, <1>3, <1>4 DEF Fields
  <2> QED BY <2>2, <2>3
<1>7. ASSUME NEW f \in Fields(t)
      PROVE  Order[h.field] < Order[f] \/ (h.field = "stamp" /\ f = "stamp")
  <2>1. PICK j \in 1..Len(t) : f = t[j].field
    BY DEF Fields
  <2>2. 1 < j + 1
    BY <1>2
  <2> QED BY <1>1, <1>3, <1>4, <2>1, <2>2 DEF Ordered, Stamps
<1>8. Stamps(h) => (h.value = Current <=> last /\ t = <<>>)
  BY <1>1, <1>4 DEF Ordered
<1>9. t = <<>> => Stamps(h)
  BY <1>1 DEF Ordered
<1> QED BY <1>1, <1>3, <1>4, <1>5, <1>6, <1>7, <1>8, <1>9 DEF Shrinks

\* What a write changes.
LEMMA FileWritten ==
  ASSUME file \in File, NEW h \in Assignment, file' = [file EXCEPT ![h.field] = h.value]
  PROVE  /\ file' \in File
         /\ \A f \in DOMAIN file : file'[f] = IF f = h.field THEN h.value ELSE file[f]
         /\ file'.ports = file.ports
<1>1. h.field \in DOMAIN file /\ DOMAIN file' = DOMAIN file
  BY DEF Assignment, File
<1>2. \A f \in DOMAIN file : file'[f] = IF f = h.field THEN h.value ELSE file[f]
  BY <1>1
<1>3. file'.ports = file.ports
  BY <1>2 DEF Assignment, File
<1>4. file' \in File
  <2>1. CASE h.field = "serviceUrl"
    BY <2>1 DEF Assignment, File
  <2>2. CASE h.field = "dbDaemons"
    BY <2>2 DEF Assignment, File, Key
  <2>3. CASE h.field = "dbConfig"
    BY <2>3 DEF Assignment, File
  <2>4. CASE h.field = "keySplitting"
    BY <2>4 DEF Assignment, File
  <2>5. CASE h.field = "kubeConfig"
    BY <2>5 DEF Assignment, File
  <2>6. CASE h.field = "web"
    BY <2>6 DEF Assignment, File
  <2>7. CASE h.field = "whoami"
    BY <2>7 DEF Assignment, File
  <2>8. CASE h.field = "mrtap"
    BY <2>8 DEF Assignment, File
  <2>9. CASE h.field = "globalKubeConfig"
    BY <2>9 DEF Assignment, File, Secure
  <2>10. CASE h.field = "kubeDaemons"
    BY <2>10 DEF Assignment, File
  <2>11. CASE h.field = "stamp"
    <3>1. Current \in 0..Current BY Natural
    <3>2. h.value \in 0..Current \cup {Interrupted} BY <2>11, <3>1 DEF Assignment
    <3> QED BY <2>11, <3>2 DEF File
  <2>12. h.field \in {"serviceUrl", "dbDaemons", "dbConfig", "keySplitting", "kubeConfig", "web",
                     "whoami", "mrtap", "globalKubeConfig", "kubeDaemons", "stamp"}
    BY DEF Assignment
  <2> QED BY <2>1, <2>2, <2>3, <2>4, <2>5, <2>6, <2>7, <2>8, <2>9, <2>10, <2>11, <2>12
<1> QED BY <1>2, <1>3, <1>4

\* The settings besides the keys, and what an entry without type is known as.
Apart(e) == <<e.db, e.kube, e.secure, e.groups, e.me>>
Known(daemons) == {IF d = Untyped THEN Legacy ELSE d : d \in daemons}

LEMMA KnownAs ==
  /\ Known({}) = {} /\ Known({Legacy}) = {Legacy}
  /\ \A ds : Known(ds \cup {Connection}) = Known(ds) \cup {Connection}
  /\ \A ds \in SUBSET Key : Known(ds) \in SUBSET Key
  BY DEF Known, Untyped, Legacy, Connection, Key

LEMMA Written ==
  ASSUME file \in File, NEW ws \in Seq(Assignment), ws # <<>>, NEW n \in 0..Current,
         NEW last, Right(ws, n, last),
         NEW h, h = Head(ws), NEW t, t = Tail(ws),
         file' = [file EXCEPT ![h.field] = h.value]
  PROVE  /\ Right(t, n, last)'
         /\ Apart(Effective)' = Apart(Effective)
         /\ KeysKept(n, Fields(ws)) => KeysKept(n, Fields(t))' /\ Effective'.keys = Effective.keys
         /\ \A m \in 0..Current : Schema(m, {}) => Schema(m, {})'
<1>1. /\ h \in Assignment /\ t \in Seq(Assignment) /\ Ordered(t, last)
      /\ \A j \in 1..Len(t) : j + 1 \in 1..Len(ws) /\ t[j] = ws[j + 1]
      /\ h = ws[1] /\ 1 \in 1..Len(ws)
      /\ Fields(ws) = {h.field} \cup Fields(t)
      /\ \A f \in Fields(t) : Order[h.field] < Order[f] \/ (h.field = "stamp" /\ f = "stamp")
  <2>1. Ordered(ws, last) BY DEF Right
  <2>2. Shrinks(ws, h, t, last) BY <2>1, TailRight
  <2> QED BY <2>2 DEF Shrinks
<1>2. Sound(h, Fields(ws)) /\ Timely(h, n) /\ Schema(n, Fields(ws))
  BY <1>1 DEF Right
<1>3. \A j \in 1..Len(t) : t[j] \in Assignment /\ Sound(t[j], Fields(ws)) /\ Timely(t[j], n)
                           /\ t[j].field \in Fields(t)
  BY <1>1, ElementOfSeq DEF Right, Fields
<1> DEFINE F == Fields(ws)
           T == Fields(t)
           V(f) == IF f = h.field THEN h.value ELSE file[f]
<1>4. /\ file'.dbConfig = V("dbConfig") /\ file'.dbDaemons = V("dbDaemons") /\ file'.web = V("web")
      /\ file'.keySplitting = V("keySplitting") /\ file'.mrtap = V("mrtap")
      /\ file'.kubeConfig = V("kubeConfig") /\ file'.kubeDaemons = V("kubeDaemons")
      /\ file'.globalKubeConfig = V("globalKubeConfig") /\ file'.whoami = V("whoami")
      /\ file'.ports = file.ports /\ file' \in File
  BY <1>1, FileWritten DEF File
<1>5. \A f \in T : f # h.field \/ f = "stamp"
  <2>2. h.field \in {"serviceUrl", "dbDaemons", "dbConfig", "keySplitting", "kubeConfig", "web",
                    "whoami", "mrtap", "globalKubeConfig", "kubeDaemons", "stamp"}
    BY <1>1 DEF Assignment
  <2>1. Order[h.field] \in Nat BY <2>2 DEF Order
  <2> QED BY <1>1, <2>1
<1> DEFINE k == file.kubeConfig
<1>20. /\ Effective.keys = (file.keySplitting \/ file.mrtap)
       /\ Apart(Effective) =
            <<IF file.dbConfig THEN {Legacy} ELSE Known(file.dbDaemons),
              IF k = None THEN Known(file.kubeDaemons) ELSE Daemons(k),
              IF k = None THEN file.globalKubeConfig.secure ELSE k.secure,
              IF k = None THEN file.globalKubeConfig.groups ELSE k.groups,
              file.whoami # None>>
  BY DEF Effective, Apart, Known, Daemons
<1>21. (/\ Effective.keys = (file.keySplitting \/ file.mrtap)
        /\ Apart(Effective) =
            <<IF file.dbConfig THEN {Legacy} ELSE Known(file.dbDaemons),
              IF k = None THEN Known(file.kubeDaemons) ELSE Daemons(k),
              IF k = None THEN file.globalKubeConfig.secure ELSE k.secure,
              IF k = None THEN file.globalKubeConfig.groups ELSE k.groups,
              file.whoami # None>>)'
  BY DEF Effective, Apart, Known, Daemons
<1>22. /\ h.field = "dbDaemons" => h.value = {Legacy}
       /\ h.field \in {"dbConfig", "keySplitting"} => h.value = FALSE
       /\ h.field \in {"web", "whoami"} => h.value = Typed
       /\ h.field = "kubeConfig" => h.value \in KubeConfig \cup {None}
       /\ h.field = "mrtap" => h.value \in BOOLEAN
  BY <1>1 DEF Assignment
<1>23. /\ Untyped # Legacy /\ Untyped # Typed /\ None # Typed /\ None # Untyped
       /\ \A x : Untyped \notin Daemons(x)
  BY ConfigurationAssumption DEF Untyped, Legacy, Typed, Daemons
<1>24. k # None /\ h.value = [k EXCEPT !.typed = TRUE] =>
         /\ h.value # None /\ h.value.secure = k.secure /\ h.value.daemon = k.daemon
         /\ h.value.groups = k.groups /\ h.value.typed = TRUE
              /\ [h.value EXCEPT !.typed = TRUE] = h.value
  <2> SUFFICES ASSUME k # None, h.value = [k EXCEPT !.typed = TRUE]
               PROVE  /\ h.value # None /\ h.value.secure = k.secure /\ h.value.daemon = k.daemon
                      /\ h.value.groups = k.groups /\ h.value.typed = TRUE
                      /\ [h.value EXCEPT !.typed = TRUE] = h.value
    OBVIOUS
  <2>1. k \in KubeConfig BY DEF File
  <2>2. h.value \in KubeConfig BY <2>1 DEF KubeConfig
  <2>3. h.value # None BY <2>2, ConfigurationAssumption
  <2> QED BY <2>1, <2>2, <2>3 DEF KubeConfig
<1> DEFINE SoundStays == \A w \in Assignment : w.field \in T /\ Sound(w, F) => Sound(w, T)'
           KeysStay == KeysKept(n, F) => KeysKept(n, T)' /\ Effective'.keys = Effective.keys
           SchemaStays == \A m \in 0..Current : Schema(m, {}) => Schema(m, {})'
           Good == SoundStays /\ Schema(n, T)' /\ Apart(Effective)' = Apart(Effective)
             /\ KeysStay /\ SchemaStays
<1>6. ASSUME h.field = "serviceUrl" PROVE Good
  <2>1. \A f \in T : f \notin {"serviceUrl"}
    BY <1>1, <1>5, <1>6 DEF Order
  <2>2. SoundStays
    <3> SUFFICES ASSUME NEW w \in Assignment, w.field \in T, Sound(w, F) PROVE Sound(w, T)'
      OBVIOUS
    <3> QED BY <1>1, <1>2, <1>4, <1>22, <1>23, <1>6, <2>1 DEF Sound
  <2>3. Schema(n, T)'
    BY <1>1, <1>2, <1>4, <1>22, <1>23, <1>6, <2>1 DEF Schema, Sound
  <2>4. Apart(Effective)' = Apart(Effective)
    BY <1>1, <1>2, <1>4, <1>22, <1>23, <1>6, <2>1, <1>20, <1>21, KnownAs DEF Sound, Secures, Daemons
  <2>5. KeysStay
    BY <1>1, <1>2, <1>4, <1>22, <1>23, <1>6, <2>1, <1>20, <1>21 DEF KeysKept, Sound
  <2>6. SchemaStays
    <3> SUFFICES ASSUME NEW m \in 0..Current, Schema(m, {}) PROVE Schema(m, {})'
      OBVIOUS
    <3> QED BY <1>1, <1>2, <1>4, <1>22, <1>23, <1>6 DEF Schema, Sound
  <2> QED BY <2>2, <2>3, <2>4, <2>5, <2>6
<1>7. ASSUME h.field = "dbDaemons" PROVE Good
  <2>1. \A f \in T : f \notin {"serviceUrl", "dbDaemons"}
    BY <1>1, <1>5, <1>7 DEF Order
  <2>2. SoundStays
    <3> SUFFICES ASSUME NEW w \in Assignment, w.field \in T, Sound(w, F) PROVE Sound(w, T)'
      OBVIOUS
    <3> QED BY <1>1, <1>2, <1>4, <1>22, <1>23, <1>7, <2>1 DEF Sound
  <2>3. Schema(n, T)'
    BY <1>1, <1>2, <1>4, <1>22, <1>23, <1>7, <2>1 DEF Schema, Sound
  <2>4. Apart(Effective)' = Apart(Effective)
    BY <1>1, <1>2, <1>4, <1>22, <1>23, <1>7, <2>1, <1>20, <1>21, KnownAs DEF Sound, Secures, Daemons
  <2>5. KeysStay
    BY <1>1, <1>2, <1>4, <1>22, <1>23, <1>7, <2>1, <1>20, <1>21 DEF KeysKept, Sound
  <2>6. SchemaStays
    <3> SUFFICES ASSUME NEW m \in 0..Current, Schema(m, {}) PROVE Schema(m, {})'
      OBVIOUS
    <3> QED BY <1>1, <1>2, <1>4, <1>22, <1>23, <1>7 DEF Schema, Sound
  <2> QED BY <2>2, <2>3, <2>4, <2>5, <2>6
<1>8. ASSUME h.field = "dbConfig" PROVE Good
  <2>1. \A f \in T : f \notin {"serviceUrl", "dbDaemons", "dbConfig"}
    BY <1>1, <1>5, <1>8 DEF Order
  <2>2. SoundStays
    <3> SUFFICES ASSUME NEW w \in Assignment, w.field \in T, Sound(w, F) PROVE Sound(w, T)'
      OBVIOUS
    <3> QED BY <1>1, <1>2, <1>4, <1>22, <1>23, <1>8, <2>1 DEF Sound
  <2>3. Schema(n, T)'
    BY <1>1, <1>2, <1>4, <1>22, <1>23, <1>8, <2>1 DEF Schema, Sound
  <2>4. Apart(Effective)' = Apart(Effective)
    <3>1. file.dbConfig /\ file.dbDaemons = {Legacy} BY <1>1, <1>2, <1>8, <2>1 DEF Sound
    <3>2. file'.dbConfig = FALSE /\ file'.dbDaemons = {Legacy} BY <1>4, <1>8, <1>22, <3>1
    <3>3. file'.kubeConfig = k /\ file'.kubeDaemons = file.kubeDaemons /\ file'.whoami = file.whoami
          /\ file'.globalKubeConfig = file.globalKubeConfig
      BY <1>4, <1>8
    <3>4. Known(file'.dbDaemons) = {Legacy} BY <3>2, KnownAs
    <3> QED BY <1>20, <1>21, <3>1, <3>2, <3>3, <3>4
  <2>5. KeysStay
    BY <1>1, <1>2, <1>4, <1>22, <1>23, <1>8, <2>1, <1>20, <1>21 DEF KeysKept, Sound
  <2>6. SchemaStays
    <3> SUFFICES ASSUME NEW m \in 0..Current, Schema(m, {}) PROVE Schema(m, {})'
      OBVIOUS
    <3> QED BY <1>1, <1>2, <1>4, <1>22, <1>23, <1>8 DEF Schema, Sound
  <2> QED BY <2>2, <2>3, <2>4, <2>5, <2>6
<1>9. ASSUME h.field = "globalKubeConfig" PROVE Good
  <2>1. \A f \in T : f \notin {"serviceUrl", "dbDaemons", "dbConfig", "globalKubeConfig"}
    BY <1>1, <1>5, <1>9 DEF Order
  <2>2. SoundStays
    <3> SUFFICES ASSUME NEW w \in Assignment, w.field \in T, Sound(w, F) PROVE Sound(w, T)'
      OBVIOUS
    <3> QED BY <1>1, <1>2, <1>4, <1>22, <1>23, <1>9, <2>1 DEF Sound
  <2>3. Schema(n, T)'
    BY <1>1, <1>2, <1>4, <1>22, <1>23, <1>9, <2>1 DEF Schema, Sound
  <2>4. Apart(Effective)' = Apart(Effective)
    BY <1>1, <1>2, <1>4, <1>22, <1>23, <1>9, <2>1, <1>20, <1>21, KnownAs DEF Sound, Secures, Daemons
  <2>5. KeysStay
    BY <1>1, <1>2, <1>4, <1>22, <1>23, <1>9, <2>1, <1>20, <1>21 DEF KeysKept, Sound
  <2>6. SchemaStays
    <3> SUFFICES ASSUME NEW m \in 0..Current, Schema(m, {}) PROVE Schema(m, {})'
      OBVIOUS
    <3> QED BY <1>1, <1>2, <1>4, <1>22, <1>23, <1>9 DEF Schema, Sound
  <2> QED BY <2>2, <2>3, <2>4, <2>5, <2>6
<1>10. ASSUME h.field = "kubeDaemons" PROVE Good
  <2>1. \A f \in T : f \notin {"serviceUrl", "dbDaemons", "dbConfig", "globalKubeConfig",
          "kubeDaemons"}
    BY <1>1, <1>5, <1>10 DEF Order
  <2>2. SoundStays
    <3> SUFFICES ASSUME NEW w \in Assignment, w.field \in T, Sound(w, F) PROVE Sound(w, T)'
      OBVIOUS
    <3> QED BY <1>1, <1>2, <1>4, <1>22, <1>23, <1>10, <2>1 DEF Sound
  <2>3. Schema(n, T)'
    BY <1>1, <1>2, <1>4, <1>22, <1>23, <1>10, <2>1 DEF Schema, Sound
  <2>4. Apart(Effective)' = Apart(Effective)
    BY <1>1, <1>2, <1>4, <1>22, <1>23, <1>10, <2>1, <1>20, <1>21, KnownAs DEF Sound, Secures,
      Daemons
  <2>5. KeysStay
    BY <1>1, <1>2, <1>4, <1>22, <1>23, <1>10, <2>1, <1>20, <1>21 DEF KeysKept, Sound
  <2>6. SchemaStays
    <3> SUFFICES ASSUME NEW m \in 0..Current, Schema(m, {}) PROVE Schema(m, {})'
      OBVIOUS
    <3> QED BY <1>1, <1>2, <1>4, <1>22, <1>23, <1>10 DEF Schema, Sound
  <2> QED BY <2>2, <2>3, <2>4, <2>5, <2>6
<1>11. ASSUME h.field = "kubeConfig" PROVE Good
  <2>1. \A f \in T : f \notin {"serviceUrl", "dbDaemons", "dbConfig", "globalKubeConfig",
          "kubeDaemons", "kubeConfig"}
    BY <1>1, <1>5, <1>11 DEF Order
  <2>2. SoundStays
    <3> SUFFICES ASSUME NEW w \in Assignment, w.field \in T, Sound(w, F) PROVE Sound(w, T)'
      OBVIOUS
    <3> QED BY <1>1, <1>2, <1>4, <1>22, <1>23, <1>24, <1>11, <2>1 DEF Sound
  <2>3. Schema(n, T)'
    <3>1. file'.kubeConfig = h.value /\ (h.value = None \/ h.value.typed = TRUE) /\ k # None
      BY <1>2, <1>4, <1>11, <1>24 DEF Sound
    <3>2. /\ file'.dbConfig = file.dbConfig /\ file'.web = file.web /\ file'.whoami = file.whoami
          /\ file'.keySplitting = file.keySplitting /\ file'.kubeDaemons = file.kubeDaemons
      BY <1>4, <1>11
    <3>3. n >= 4 => h.value = None
      BY <1>2, <1>11 DEF Timely
    <3> QED BY <1>1, <1>2, <1>11, <3>1, <3>2, <3>3 DEF Schema
  <2>4. Apart(Effective)' = Apart(Effective)
    <3>1. k # None /\ file'.kubeConfig = h.value
      BY <1>2, <1>4, <1>11 DEF Sound
    <3>2. /\ file'.dbConfig = file.dbConfig /\ file'.dbDaemons = file.dbDaemons
          /\ file'.kubeDaemons = file.kubeDaemons /\ file'.whoami = file.whoami
          /\ file'.globalKubeConfig = file.globalKubeConfig
      BY <1>4, <1>11
    <3>3. CASE h.value = None
      <4>1. file.globalKubeConfig = Secures(k) /\ file.kubeDaemons = Daemons(k)
        BY <1>1, <1>2, <1>11, <2>1, <3>3 DEF Sound
      <4>2. Known(Daemons(k)) = Daemons(k)
        BY KnownAs DEF Daemons
      <4> QED BY <1>20, <1>21, <3>1, <3>2, <3>3, <4>1, <4>2 DEF Secures
    <3>4. CASE h.value # None
      <4>1. h.value = [k EXCEPT !.typed = TRUE]
        BY <1>2, <1>11, <3>4 DEF Sound
      <4> QED BY <1>20, <1>21, <1>24, <3>1, <3>2, <4>1 DEF Daemons
    <3> QED BY <3>3, <3>4
  <2>5. KeysStay
    BY <1>1, <1>2, <1>4, <1>22, <1>23, <1>24, <1>11, <2>1, <1>20, <1>21 DEF KeysKept, Sound
  <2>6. SchemaStays
    <3> SUFFICES ASSUME NEW m \in 0..Current, Schema(m, {}) PROVE Schema(m, {})'
      OBVIOUS
    <3> QED BY <1>1, <1>2, <1>4, <1>22, <1>23, <1>24, <1>11 DEF Schema, Sound
  <2> QED BY <2>2, <2>3, <2>4, <2>5, <2>6
<1>12. ASSUME h.field = "web" PROVE Good
  <2>1. \A f \in T : f \notin {"serviceUrl", "dbDaemons", "dbConfig", "globalKubeConfig",
          "kubeDaemons", "kubeConfig", "web"}
    BY <1>1, <1>5, <1>12 DEF Order
  <2>2. SoundStays
    <3> SUFFICES ASSUME NEW w \in Assignment, w.field \in T, Sound(w, F) PROVE Sound(w, T)'
      OBVIOUS
    <3> QED BY <1>1, <1>2, <1>4, <1>22, <1>23, <1>12, <2>1 DEF Sound
  <2>3. Schema(n, T)'
    BY <1>1, <1>2, <1>4, <1>22, <1>23, <1>12, <2>1 DEF Schema, Sound
  <2>4. Apart(Effective)' = Apart(Effective)
    BY <1>1, <1>2, <1>4, <1>22, <1>23, <1>12, <2>1, <1>20, <1>21, KnownAs DEF Sound, Secures,
      Daemons
  <2>5. KeysStay
    BY <1>1, <1>2, <1>4, <1>22, <1>23, <1>12, <2>1, <1>20, <1>21 DEF KeysKept, Sound
  <2>6. SchemaStays
    <3> SUFFICES ASSUME NEW m \in 0..Current, Schema(m, {}) PROVE Schema(m, {})'
      OBVIOUS
    <3> QED BY <1>1, <1>2, <1>4, <1>22, <1>23, <1>12 DEF Schema, Sound
  <2> QED BY <2>2, <2>3, <2>4, <2>5, <2>6
<1>13. ASSUME h.field = "mrtap" PROVE Good
  <2>1. \A f \in T : f \notin {"serviceUrl", "dbDaemons", "dbConfig", "globalKubeConfig",
          "kubeDaemons", "kubeConfig", "web", "mrtap"}
    BY <1>1, <1>5, <1>13 DEF Order
  <2>2. SoundStays
    <3> SUFFICES ASSUME NEW w \in Assignment, w.field \in T, Sound(w, F) PROVE Sound(w, T)'
      OBVIOUS
    <3> QED BY <1>1, <1>2, <1>4, <1>22, <1>23, <1>13, <2>1 DEF Sound
  <2>3. Schema(n, T)'
    BY <1>1, <1>2, <1>4, <1>22, <1>23, <1>13, <2>1 DEF Schema, Sound
  <2>4. Apart(Effective)' = Apart(Effective)
    BY <1>1, <1>2, <1>4, <1>22, <1>23, <1>13, <2>1, <1>20, <1>21, KnownAs DEF Sound, Secures,
      Daemons
  <2>5. KeysStay
    BY <1>1, <1>2, <1>4, <1>22, <1>23, <1>13, <2>1, <1>20, <1>21 DEF KeysKept, Sound
  <2>6. SchemaStays
    <3> SUFFICES ASSUME NEW m \in 0..Current, Schema(m, {}) PROVE Schema(m, {})'
      OBVIOUS
    <3> QED BY <1>1, <1>2, <1>4, <1>22, <1>23, <1>13 DEF Schema, Sound
  <2> QED BY <2>2, <2>3, <2>4, <2>5, <2>6
<1>14. ASSUME h.field = "keySplitting" PROVE Good
  <2>1. \A f \in T : f \notin {"serviceUrl", "dbDaemons", "dbConfig", "globalKubeConfig",
          "kubeDaemons", "kubeConfig", "web", "mrtap", "keySplitting"}
    BY <1>1, <1>5, <1>14 DEF Order
  <2>2. SoundStays
    <3> SUFFICES ASSUME NEW w \in Assignment, w.field \in T, Sound(w, F) PROVE Sound(w, T)'
      OBVIOUS
    <3> QED BY <1>1, <1>2, <1>4, <1>22, <1>23, <1>14, <2>1 DEF Sound
  <2>3. Schema(n, T)'
    BY <1>1, <1>2, <1>4, <1>22, <1>23, <1>14, <2>1 DEF Schema, Sound
  <2>4. Apart(Effective)' = Apart(Effective)
    BY <1>1, <1>2, <1>4, <1>22, <1>23, <1>14, <2>1, <1>20, <1>21, KnownAs DEF Sound, Secures,
      Daemons
  <2>5. KeysStay
    <3>1. file.mrtap = file.keySplitting /\ n = 3 BY <1>1, <1>2, <1>14, <2>1 DEF Sound, Timely
    <3>2. file'.mrtap = file.mrtap /\ file'.keySplitting = FALSE BY <1>4, <1>14, <1>22
    <3> QED BY <1>20, <1>21, <2>1, <3>1, <3>2 DEF KeysKept
  <2>6. SchemaStays
    <3> SUFFICES ASSUME NEW m \in 0..Current, Schema(m, {}) PROVE Schema(m, {})'
      OBVIOUS
    <3> QED BY <1>1, <1>2, <1>4, <1>22, <1>23, <1>14 DEF Schema, Sound
  <2> QED BY <2>2, <2>3, <2>4, <2>5, <2>6
<1>15. ASSUME h.field = "whoami" PROVE Good
  <2>1. \A f \in T : f \notin {"serviceUrl", "dbDaemons", "dbConfig", "globalKubeConfig",
          "kubeDaemons", "kubeConfig", "web", "mrtap", "keySplitting", "whoami"}
    BY <1>1, <1>5, <1>15 DEF Order
  <2>2. SoundStays
    <3> SUFFICES ASSUME NEW w \in Assignment, w.field \in T, Sound(w, F) PROVE Sound(w, T)'
      OBVIOUS
    <3> QED BY <1>1, <1>2, <1>4, <1>22, <1>23, <1>15, <2>1 DEF Sound
  <2>3. Schema(n, T)'
    BY <1>1, <1>2, <1>4, <1>22, <1>23, <1>15, <2>1 DEF Schema, Sound
  <2>4. Apart(Effective)' = Apart(Effective)
    BY <1>1, <1>2, <1>4, <1>22, <1>23, <1>15, <2>1, <1>20, <1>21, KnownAs DEF Sound, Secures,
      Daemons
  <2>5. KeysStay
    BY <1>1, <1>2, <1>4, <1>22, <1>23, <1>15, <2>1, <1>20, <1>21 DEF KeysKept, Sound
  <2>6. SchemaStays
    <3> SUFFICES ASSUME NEW m \in 0..Current, Schema(m, {}) PROVE Schema(m, {})'
      OBVIOUS
    <3> QED BY <1>1, <1>2, <1>4, <1>22, <1>23, <1>15 DEF Schema, Sound
  <2> QED BY <2>2, <2>3, <2>4, <2>5, <2>6
<1>16. ASSUME h.field = "stamp" PROVE Good
  <2>1. \A f \in T : f \notin {"serviceUrl", "dbDaemons", "dbConfig", "globalKubeConfig",
          "kubeDaemons", "kubeConfig", "web", "mrtap", "keySplitting", "whoami"}
    BY <1>1, <1>5, <1>16 DEF Order
  <2>2. SoundStays
    <3> SUFFICES ASSUME NEW w \in Assignment, w.field \in T, Sound(w, F) PROVE Sound(w, T)'
      OBVIOUS
    <3> QED BY <1>1, <1>2, <1>4, <1>22, <1>23, <1>16, <2>1 DEF Sound
  <2>3. Schema(n, T)'
    BY <1>1, <1>2, <1>4, <1>22, <1>23, <1>16, <2>1 DEF Schema, Sound
  <2>4. Apart(Effective)' = Apart(Effective)
    BY <1>1, <1>2, <1>4, <1>22, <1>23, <1>16, <2>1, <1>20, <1>21, KnownAs DEF Sound, Secures,
      Daemons
  <2>5. KeysStay
    BY <1>1, <1>2, <1>4, <1>22, <1>23, <1>16, <2>1, <1>20, <1>21 DEF KeysKept, Sound
  <2>6. SchemaStays
    <3> SUFFICES ASSUME NEW m \in 0..Current, Schema(m, {}) PROVE Schema(m, {})'
      OBVIOUS
    <3> QED BY <1>1, <1>2, <1>4, <1>22, <1>23, <1>16 DEF Schema, Sound
  <2> QED BY <2>2, <2>3, <2>4, <2>5, <2>6
<1>17. Good
  BY <1>1, <1>6, <1>7, <1>8, <1>9, <1>10, <1>11, <1>12, <1>13, <1>14, <1>15, <1>16 DEF Assignment
<1>18. Right(t, n, last)'
  BY <1>1, <1>3, <1>17 DEF Right
<1> QED BY <1>17, <1>18

-----------------------------------------------------------------------------
(* The invariant *)

Begun(c) == Current - Len(todo[c])

\* Unless two of them overlap, who upgrades is alone: all others rest, and a file
\* that has its version is not upgraded.
Turn ==
  /\ \A c \in Cmd : pc[c] \notin {"idle", "upgrading"} => file.stamp = Current
  /\ \A c \in Cmd : pc[c] = "upgrading" => file.stamp # Current
  /\ \A c, d \in Cmd : pc[c] = "upgrading" /\ pc[d] = "upgrading" => c = d

\* The writes to come are right for the file, and complete the migration; if the
\* command is killed, what the version tells is true as well.
Working == \A c \in Cmd : pc[c] = "upgrading" =>
  /\ Right(writes[c], Begun(c), todo[c] = <<>>)
  /\ "killed" \notin excuse => KeysKept(Begun(c), Fields(writes[c]))
Resting == (\A c \in Cmd : pc[c] # "upgrading") /\ "killed" \notin excuse => KeysKept(Start, {})

\* Settings as they are wanted, but for the groups, the keys and the ports.
Match(e, w) == e.db = w.db /\ e.kube = w.kube /\ e.secure = w.secure /\ e.me = w.me
KeysSure == "killed" \notin excuse /\ "keys" \notin excuse

Faithful ==
  /\ Match(Effective, want)
  /\ "groups" \notin excuse => Effective.groups = want.groups
  /\ KeysSure => Effective.keys = want.keys

Upgraded == Turn /\ Working /\ Schema(Start, {}) /\ Resting /\ Faithful
Numbers == "ports" \notin excuse => file.ports = want.ports
IInv == Shape /\ ("upgrades" \notin excuse => Upgraded) /\ Numbers

LEMMA EmptyRest == IsRest(<<>>) /\ <<>> \in Seq(Assignment)
<1>1. <<>> \in Seq(Migration) /\ <<>> \in Seq(Assignment)
  OBVIOUS
<1>2. Len(<<>>) = 0
  OBVIOUS
<1>3. Len(<<>>) <= Current
  BY <1>2, Five
<1>4. \A i \in 1..Len(<<>>) : FALSE
  BY <1>2
<1>5. \A i \in 1..Len(<<>>) : <<>>[i] = Migrations[Current - Len(<<>>) + i]
  BY <1>4, Zenon
<1> QED BY <1>1, <1>3, <1>5, Zenon DEF IsRest

\* Files as older zlis left them, field by field.
Leaves(n) ==
  /\ file.stamp = n
  /\ n >= 2 => file.dbConfig = FALSE /\ file.web = Typed
  /\ n >= 2 => file.kubeConfig = None \/ file.kubeConfig.typed = TRUE
  /\ IF n < 3 THEN file.mrtap = FALSE ELSE file.keySplitting = FALSE
  /\ n >= 4 => file.kubeConfig = None
  /\ file.kubeDaemons \in {{}, {Legacy}}
  /\ file.whoami \in {None, IF n < Current THEN Untyped ELSE Typed}

LEMMA Wider ==
  ASSUME NEW a1, NEW a2, NEW a3, NEW a4, NEW a5, NEW a6, NEW a7, NEW a8, NEW a9, NEW a10, NEW a11,
           NEW a12,
         NEW b1, NEW b2, NEW b3, NEW b4, NEW b5, NEW b6, NEW b7, NEW b8, NEW b9, NEW b10, NEW b11,
           NEW b12,
         a1 \subseteq b1, a2 \subseteq b2, a3 \subseteq b3, a4 \subseteq b4, a5 \subseteq b5,
           a6 \subseteq b6,
         a7 \subseteq b7, a8 \subseteq b8, a9 \subseteq b9, a10 \subseteq b10, a11 \subseteq b11,
           a12 \subseteq b12,
         NEW f \in [stamp : a1, serviceUrl : a2, dbConfig : a3, dbDaemons : a4, web : a5,
           keySplitting : a6,
                    mrtap : a7, kubeConfig : a8, kubeDaemons : a9, globalKubeConfig : a10,
                      whoami : a11, ports : a12]
  PROVE  /\ f \in [stamp : b1, serviceUrl : b2, dbConfig : b3, dbDaemons : b4, web : b5,
              keySplitting : b6,
                    mrtap : b7, kubeConfig : b8, kubeDaemons : b9, globalKubeConfig : b10,
                      whoami : b11, ports : b12]
         /\ f.stamp \in a1 /\ f.dbConfig \in a3 /\ f.web \in a5 /\ f.keySplitting \in a6
              /\ f.mrtap \in a7
         /\ f.kubeConfig \in a8 /\ f.kubeDaemons \in a9 /\ f.whoami \in a11
  OBVIOUS

LEMMA InitFile == Init => file \in File /\ \E n \in 0..Current : Leaves(n)
<1> SUFFICES ASSUME Init PROVE file \in File /\ \E n \in 0..Current : Leaves(n)
  OBVIOUS
<1>1. PICK n \in 0..Current : file \in Left(n)
  BY DEF Init
<1> DEFINE S1 == {n}
           S2 == {n > 0}
           S3 == IF n < 2 THEN BOOLEAN ELSE {FALSE}
           S4 == IF n < 2 THEN {{}} ELSE {{}, {Legacy}}
           S5 == {IF n < 2 THEN Untyped ELSE Typed}
           S6 == IF n < 3 THEN BOOLEAN ELSE {FALSE}
           S7 == IF n < 3 THEN {FALSE} ELSE BOOLEAN
           S8 == IF n < 4 THEN {k \in KubeConfig : k.typed = (n > 1) /\ k.secure = k.groups}
             ELSE {None}
           S9 == IF n < 4 THEN {{}} ELSE {{}, {Legacy}}
           S10 == {IF n < 4 THEN [secure |-> FALSE, groups |-> FALSE]
                   ELSE [secure |-> TRUE, groups |-> TRUE]}
           S11 == {None, IF n < Current THEN Untyped ELSE Typed}
           S12 == {[a \in App |-> None]}
           B1 == 0..Current \cup {Interrupted}
           B10 == [secure : BOOLEAN, groups : BOOLEAN]
           B12 == [App -> Port \cup {None}]
<1>2. file \in [stamp : S1, serviceUrl : S2, dbConfig : S3, dbDaemons : S4, web : S5,
        keySplitting : S6,
                 mrtap : S7, kubeConfig : S8, kubeDaemons : S9, globalKubeConfig : S10,
                   whoami : S11, ports : S12]
  BY <1>1 DEF Left
<1>3. /\ S1 \subseteq B1 /\ S2 \subseteq BOOLEAN /\ S4 \subseteq SUBSET Key
      /\ S5 \subseteq {Typed, Untyped} /\ S9 \subseteq SUBSET Key /\ S11 \subseteq {Typed, Untyped,
           None}
  BY DEF Key
<1>4. /\ S3 \subseteq BOOLEAN /\ S6 \subseteq BOOLEAN /\ S7 \subseteq BOOLEAN
      /\ S8 \subseteq KubeConfig \cup {None} /\ S10 \subseteq B10
  <2>1. S3 \subseteq BOOLEAN BY Zenon
  <2>2. S6 \subseteq BOOLEAN BY Zenon
  <2>3. S7 \subseteq BOOLEAN BY Zenon
  <2>4. S8 \subseteq KubeConfig \cup {None} BY Zenon
  <2>5. S10 \subseteq B10
    <3>1. [secure |-> FALSE, groups |-> FALSE] \in B10 /\ [secure |-> TRUE, groups |-> TRUE] \in B10
      OBVIOUS
    <3> HIDE DEF B10
    <3> QED BY <3>1, Zenon
  <2> QED BY <2>1, <2>2, <2>3, <2>4, <2>5
<1>5. S12 \subseteq B12
  <2>1. [a \in App |-> None] \in B12
    OBVIOUS
  <2> HIDE DEF B12
  <2> QED BY <2>1, Zenon
<1>6. n \in Nat
  BY Natural
<1>7. (n >= 2 => ~(n < 2)) /\ (n >= 4 => ~(n < 4)) /\ (n >= 2 => n > 1)
  BY <1>6
<1>8. n >= 2 => S3 = {FALSE} /\ S5 = {Typed}
  BY <1>7, Zenon
<1>9. IF n < 3 THEN S7 = {FALSE} ELSE S6 = {FALSE}
  BY Zenon
<1>10. (n >= 4 => S8 = {None}) /\ (n >= 2 => \A k \in S8 : k = None \/ k.typed = TRUE)
  <2>1. n >= 4 => S8 = {None} BY <1>7, Zenon
  <2>2. ASSUME n >= 2, NEW k \in S8 PROVE k = None \/ k.typed = TRUE
    <3>1. CASE n < 4
      <4>1. k.typed = (n > 1) BY <3>1, <2>2, Zenon
      <4> QED BY <4>1, <1>7, <2>2
    <3>2. CASE ~(n < 4) BY <3>2, <2>2, Zenon
    <3> QED BY <3>1, <3>2
  <2> QED BY <2>1, <2>2
<1>11. S9 \subseteq {{}, {Legacy}}
  OBVIOUS
<1> HIDE DEF S1, S2, S3, S4, S5, S6, S7, S8, S9, S10, S11, S12, B1, B10, B12
<1>12. /\ file \in [stamp : B1, serviceUrl : BOOLEAN, dbConfig : BOOLEAN, dbDaemons : SUBSET Key,
                     web : {Typed, Untyped}, keySplitting : BOOLEAN, mrtap : BOOLEAN,
                     kubeConfig : KubeConfig \cup {None}, kubeDaemons : SUBSET Key,
                       globalKubeConfig : B10,
                     whoami : {Typed, Untyped, None}, ports : B12]
       /\ file.stamp \in S1 /\ file.dbConfig \in S3 /\ file.web \in S5 /\ file.keySplitting \in S6
       /\ file.mrtap \in S7 /\ file.kubeConfig \in S8 /\ file.kubeDaemons \in S9
            /\ file.whoami \in S11
  BY <1>2, <1>3, <1>4, <1>5, Wider, Zenon
<1>13. file \in File
  BY <1>12 DEF File, B1, B10, B12
<1>14. Leaves(n)
  <2>1. file.stamp = n /\ file.whoami \in {None, IF n < Current THEN Untyped ELSE Typed}
    BY <1>12 DEF S1, S11
  <2>2. /\ n >= 2 => file.dbConfig = FALSE /\ file.web = Typed
        /\ n >= 2 => file.kubeConfig = None \/ file.kubeConfig.typed = TRUE
        /\ IF n < 3 THEN file.mrtap = FALSE ELSE file.keySplitting = FALSE
        /\ n >= 4 => file.kubeConfig = None
        /\ file.kubeDaemons \in {{}, {Legacy}}
    <3>1. n >= 2 => file.dbConfig = FALSE /\ file.web = Typed BY <1>8, <1>12, Zenon
    <3>2. n >= 2 => file.kubeConfig = None \/ file.kubeConfig.typed = TRUE BY <1>10, <1>12, Zenon
    <3>3. IF n < 3 THEN file.mrtap = FALSE ELSE file.keySplitting = FALSE BY <1>9, <1>12, Zenon
    <3>4. n >= 4 => file.kubeConfig = None BY <1>10, <1>12, Zenon
    <3>5. file.kubeDaemons \in {{}, {Legacy}} BY <1>11, <1>12, Zenon
    <3> QED BY <3>1, <3>2, <3>3, <3>4, <3>5
  <2> QED BY <2>1, <2>2 DEF Leaves
<1> QED BY <1>13, <1>14

LEMMA InitShape == Init => Shape
<1> SUFFICES ASSUME Init PROVE Shape
  OBVIOUS
<1>2. file \in File
  BY InitFile
<1>3. Effective \in Settings
  <2>1. file.dbDaemons \in SUBSET Key /\ file.kubeDaemons \in SUBSET Key /\ {Legacy} \in SUBSET Key
        /\ {} \in SUBSET Key
    BY <1>2 DEF File, Key
  <2>2. /\ Known(file.dbDaemons) \in SUBSET Key /\ Known(file.kubeDaemons) \in SUBSET Key
    BY <2>1, KnownAs, Zenon
  <2>3. file.kubeConfig # None => file.kubeConfig \in KubeConfig
    BY <1>2 DEF File
  <2>4. file.ports \in Ports /\ file.keySplitting \in BOOLEAN /\ file.mrtap \in BOOLEAN
        /\ file.globalKubeConfig \in Secure
    BY <1>2 DEF File, Ports, Secure
  <2> QED BY <2>1, <2>2, <2>3, <2>4 DEF Effective, Settings, KubeConfig, Secure, Known
<1>4. IsRest(<<>>) /\ <<>> \in Seq(Assignment)
  BY EmptyRest
<1>5. /\ pc \in [Cmd -> Place] /\ \A c \in Cmd : pc[c] = "idle"
      /\ DOMAIN about = Cmd /\ DOMAIN seen = Cmd /\ DOMAIN todo = Cmd /\ DOMAIN writes = Cmd
      /\ \A c \in Cmd : todo[c] = <<>> /\ writes[c] = <<>>
  BY DEF Init, Place
<1>6. \A c \in Cmd : Holds(c)
  BY <1>5 DEF Holds, Checking
<1> QED BY <1>2, <1>3, <1>4, <1>5, <1>6 DEF Init, Shape

LEMMA InitIInv == Init => IInv
<1> SUFFICES ASSUME Init PROVE IInv
  OBVIOUS
<1>1. PICK n \in 0..Current : Leaves(n)
  BY InitFile
<1>2. Shape
  BY InitShape
<1>4. \A c \in Cmd : pc[c] = "idle"
  BY DEF Init
<1>5. Start = n /\ n \in Nat
  BY <1>1, Five, ConfigurationAssumption DEF Leaves, Start, Interrupted
<1>6. Schema(n, {}) /\ KeysKept(n, {})
  <2>1. Untyped \notin file.kubeDaemons
    BY <1>1 DEF Leaves, Untyped, Legacy
  <2>2. n >= 5 => file.whoami # Untyped
    <3>1. None # Untyped BY ConfigurationAssumption
    <3> QED BY <1>1, <1>5, <3>1, Five DEF Leaves, Untyped, Typed
  <2>3. Schema(n, {})
    BY <1>1, <1>5, <2>1, <2>2 DEF Schema, Leaves
  <2>4. KeysKept(n, {})
    BY <1>1, <1>5 DEF KeysKept, Leaves
  <2> QED BY <2>3, <2>4
<1>7. Faithful /\ Numbers
  <2>1. want = Effective BY DEF Init
  <2>2. Effective.ports = file.ports BY DEF Effective
  <2> QED BY <2>1, <2>2 DEF Faithful, Match, Numbers
<1> QED BY <1>2, <1>4, <1>5, <1>6, <1>7 DEF IInv, Upgraded, Turn, Working, Resting

-----------------------------------------------------------------------------
(* Types *)

\* A command that is elsewhere than in an upgrade has none of it left.
LEMMA EndShape ==
  ASSUME Shape, NEW c \in Cmd, file' \in File, want' \in Settings, Ends(c)
  PROVE  Shape'
<1>1. pc' \in [Cmd -> Place] /\ pc'[c] = "idle" /\ \A d \in Cmd \ {c} : pc'[d] = pc[d]
  BY DEF Ends, Goto, Shape, Place
<1>2. /\ DOMAIN about' = Cmd /\ DOMAIN seen' = Cmd /\ DOMAIN todo' = Cmd /\ DOMAIN writes' = Cmd
      /\ todo'[c] = <<>> /\ writes'[c] = <<>>
      /\ \A d \in Cmd \ {c} : /\ todo'[d] = todo[d] /\ writes'[d] = writes[d]
                              /\ about'[d] = about[d] /\ seen'[d] = seen[d]
  BY DEF Ends, Shape
<1>3. \A d \in Cmd : IsRest(todo'[d]) /\ writes'[d] \in Seq(Assignment)
  BY <1>2, EmptyRest DEF Shape
<1>4. \A d \in Cmd : Holds(d)'
  BY <1>1, <1>2 DEF Shape, Holds, Checking
<1>5. \A d \in Cmd : pc'[d] = "upgrading" <=> writes'[d] # <<>> \/ todo'[d] # <<>>
  BY <1>1, <1>2 DEF Shape
<1> QED BY <1>1, <1>2, <1>3, <1>4, <1>5 DEF Shape

\* A command that goes on, outside of its upgrade.
LEMMA GoShape ==
  ASSUME Shape, NEW c \in Cmd, file' \in File, want' \in Settings,
         NEW at \in Place \ {"upgrading"}, pc[c] # "upgrading", Goto(c, at), Holds(c)',
         todo' = todo, writes' = writes, DOMAIN about' = Cmd, DOMAIN seen' = Cmd,
         \A d \in Cmd \ {c} : about'[d] = about[d] /\ seen'[d] = seen[d]
  PROVE  Shape'
<1>1. pc' \in [Cmd -> Place] /\ pc'[c] = at /\ \A d \in Cmd \ {c} : pc'[d] = pc[d]
  BY DEF Goto, Shape
<1>2. \A d \in Cmd : IsRest(todo'[d]) /\ writes'[d] \in Seq(Assignment)
  BY DEF Shape
<1>3. \A d \in Cmd : Holds(d)'
  <2> SUFFICES ASSUME NEW d \in Cmd, d # c PROVE Holds(d)'
    OBVIOUS
  <2>1. Holds(d) /\ pc'[d] = pc[d] /\ about'[d] = about[d] /\ seen'[d] = seen[d]
    BY <1>1 DEF Shape
  <2> QED BY <2>1 DEF Holds
<1>4. \A d \in Cmd : pc'[d] = "upgrading" <=> writes'[d] # <<>> \/ todo'[d] # <<>>
  BY <1>1 DEF Shape
<1> QED BY <1>1, <1>2, <1>3, <1>4 DEF Shape

LEMMA Freely ==
  ASSUME Shape, NEW c \in Cmd, NEW at \in Free, Goto(c, at)
  PROVE  at \in Place \ {"upgrading"} /\ Holds(c)'
<1>1. pc'[c] = at
  BY DEF Goto, Shape
<1>2. at \notin Checking /\ at \notin {"choosing", "securing", "upgrading"} /\ at \in Place
  BY DEF Free, Checking, Place
<1> QED BY <1>1, <1>2 DEF Holds

-----------------------------------------------------------------------------
(* Steps that leave the file alone *)

LEMMA RightStays ==
  ASSUME file' = file, NEW ws, NEW n, NEW last, Right(ws, n, last)
  PROVE  Right(ws, n, last)'
  BY DEF Right, Sound, Schema

LEMMA FileStays ==
  ASSUME file' = file
  PROVE  /\ \A n, fields : Schema(n, fields)' <=> Schema(n, fields)
         /\ \A n, fields : KeysKept(n, fields)' <=> KeysKept(n, fields)
         /\ Effective' = Effective /\ Start' = Start
  BY DEF Schema, KeysKept, Effective, Start

\* The others are where they were.
Elsewhere(c) == \A d \in Cmd \ {c} : pc'[d] = pc[d] /\ todo'[d] = todo[d] /\ writes'[d] = writes[d]

\* No other goes on with an upgrade, when one command is elsewhere.
LEMMA OthersWork ==
  ASSUME Working, NEW c \in Cmd, Elsewhere(c), file' = file, excuse \subseteq excuse',
           pc'[c] # "upgrading"
  PROVE  Working'
<1> SUFFICES ASSUME NEW d \in Cmd, pc'[d] = "upgrading"
             PROVE  /\ Right(writes[d], Begun(d), todo[d] = <<>>)'
                    /\ "killed" \notin excuse' => KeysKept(Begun(d), Fields(writes[d]))'
  BY DEF Working
<1>1. d # c
  OBVIOUS
<1>2. pc[d] = "upgrading" /\ todo'[d] = todo[d] /\ writes'[d] = writes[d]
  BY <1>1 DEF Elsewhere
<1>3. Begun(d)' = Begun(d)
  BY <1>2 DEF Begun
<1>4. Right(writes[d], Begun(d), todo[d] = <<>>)
  BY <1>2 DEF Working
<1>5. Right(writes[d], Begun(d), todo[d] = <<>>)'
  BY <1>2, <1>3, <1>4, RightStays
<1>6. "killed" \notin excuse => KeysKept(Begun(d), Fields(writes[d]))
  BY <1>2 DEF Working
<1>7. "killed" \notin excuse' => KeysKept(Begun(d), Fields(writes[d]))'
  BY <1>2, <1>3, <1>6, FileStays DEF Fields, KeysKept
<1> QED BY <1>5, <1>7

\* A command goes where it may go.
LEMMA Aside ==
  ASSUME Shape, Upgraded, NEW c \in Cmd, NEW at \in Place \ {"upgrading"}, Goto(c, at),
         \A d \in Cmd \ {c} : todo'[d] = todo[d] /\ writes'[d] = writes[d],
         file' = file, want' = want, excuse \subseteq excuse',
         at = "idle" \/ file.stamp = Current,
         pc[c] = "upgrading" /\ "killed" \notin excuse' => KeysKept(Start, {})
  PROVE  Upgraded'
<1>1. pc'[c] = at /\ Elsewhere(c)
  BY DEF Goto, Shape, Elsewhere
<1>2. Turn'
  BY <1>1 DEF Upgraded, Turn, Elsewhere
<1>3. Working'
  BY <1>1, OthersWork DEF Upgraded
<1>4. Schema(Start, {})'
  BY FileStays DEF Upgraded
<1>5. Resting'
  <2> SUFFICES ASSUME \A d \in Cmd : pc'[d] # "upgrading", "killed" \notin excuse'
                        PROVE KeysKept(Start, {})'
    BY DEF Resting
  <2>1. KeysKept(Start, {})
    <3>1. CASE pc[c] = "upgrading" BY <3>1
    <3>2. CASE pc[c] # "upgrading"
      <4>1. \A d \in Cmd : pc[d] # "upgrading" BY <1>1, <3>2 DEF Elsewhere
      <4> QED BY <4>1 DEF Upgraded, Resting
    <3> QED BY <3>1, <3>2
  <2> QED BY <2>1, FileStays
<1>6. Faithful'
  BY FileStays DEF Upgraded, Faithful, Match, KeysSure
<1> QED BY <1>2, <1>3, <1>4, <1>5, <1>6 DEF Upgraded

-----------------------------------------------------------------------------
(* The upgrade *)

LEMMA BeginIInv ==
  ASSUME IInv, NEW c \in Cmd, NEW k \in Kind, Begin(c, k)
  PROVE  IInv'
<1>1. Shape /\ file' = file /\ want' = want /\ pc[c] = "idle"
  BY DEF IInv, Begin
<1>2. CASE file.stamp = Current
  <2>1. Goto(c, "loading") /\ todo' = todo /\ writes' = writes /\ about' = about
          /\ seen' = seen /\ excuse' = excuse
    BY <1>2 DEF Begin
  <2>2. Shape'
    <3>1. "loading" \in Free BY DEF Free
    <3> QED BY <1>1, <2>1, <3>1, GoShape, Freely DEF Shape
  <2>3. "upgrades" \notin excuse' => Upgraded'
    <3> SUFFICES ASSUME "upgrades" \notin excuse' PROVE Upgraded'
      OBVIOUS
    <3>1. Upgraded BY <2>1 DEF IInv
    <3>2. "loading" \in Place \ {"upgrading"} BY DEF Place
    <3> QED BY <1>1, <1>2, <2>1, <3>1, <3>2, Aside
  <2> QED BY <1>1, <2>1, <2>2, <2>3 DEF IInv, Numbers
<1>3. CASE file.stamp # Current
  <2>1. /\ Goto(c, "upgrading") /\ todo' = [todo EXCEPT ![c] = Pending(file.stamp)]
        /\ writes' = writes /\ about' = about /\ seen' = seen
        /\ excuse' = excuse \cup (IF Others(c, {"upgrading"}) THEN {"upgrades"} ELSE {})
    BY <1>3 DEF Begin
  <2>2. Start \in 0..Current - 1 /\ Pending(file.stamp) = SubSeq(Migrations, Start + 1, Current)
    <3>1. file.stamp \in 0..Current \cup {Interrupted} BY <1>1 DEF Shape, File
    <3> QED BY <1>3, <3>1, Five DEF Start, Pending
  <2>3. PICK s : s = Pending(file.stamp)
    OBVIOUS
  <2>4. IsRest(s) /\ Len(s) = Current - Start /\ s # <<>>
    <3>1. Start \in 0..Current BY <2>2, Five
    <3>2. IsRest(s) /\ Len(s) = Current - Start
      BY <2>2, <2>3, <3>1, PendingIsRest
    <3>3. Len(s) # 0 BY <2>2, <3>2, Five
    <3>4. s \in Seq(Migration) BY <3>2 DEF IsRest
    <3> QED BY <3>2, <3>3, <3>4, EmptyIsZero
  <2>5. pc'[c] = "upgrading" /\ todo'[c] = s /\ \A d \in Cmd \ {c} : pc'[d] = pc[d]
          /\ todo'[d] = todo[d]
    BY <1>1, <2>1, <2>3 DEF Goto, Shape
  <2>6. todo[c] = <<>> /\ writes[c] = <<>>
    BY <1>1 DEF Shape
  <2>7. Shape'
    <3>1. pc' \in [Cmd -> Place] BY <1>1, <2>1 DEF Shape, Goto, Place
    <3>2. \A d \in Cmd : IsRest(todo'[d]) /\ writes'[d] \in Seq(Assignment)
      BY <1>1, <2>1, <2>4, <2>5 DEF Shape
    <3>3. \A d \in Cmd : Holds(d)'
      BY <1>1, <2>1, <2>5 DEF Shape, Holds, Checking
    <3>4. \A d \in Cmd : pc'[d] = "upgrading" <=> writes'[d] # <<>> \/ todo'[d] # <<>>
      BY <1>1, <2>1, <2>4, <2>5 DEF Shape
    <3>5. DOMAIN about' = Cmd /\ DOMAIN seen' = Cmd /\ DOMAIN todo' = Cmd /\ DOMAIN writes' = Cmd
      BY <1>1, <2>1 DEF Shape
    <3> QED BY <1>1, <3>1, <3>2, <3>3, <3>4, <3>5 DEF Shape
  <2>8. "upgrades" \notin excuse' => Upgraded'
    <3> SUFFICES ASSUME "upgrades" \notin excuse' PROVE Upgraded'
      OBVIOUS
    <3>1. Upgraded /\ excuse' = excuse /\ ~Others(c, {"upgrading"})
      BY <2>1 DEF IInv
    <3>2. \A d \in Cmd : pc[d] # "upgrading"
      BY <1>1, <3>1 DEF Others
    <3>3. Turn'
      BY <1>1, <1>3, <2>5, <3>1, <3>2 DEF Upgraded, Turn
    <3>4. Working'
      <4> SUFFICES ASSUME NEW d \in Cmd, pc'[d] = "upgrading"
                   PROVE  /\ Right(writes[d], Begun(d), todo[d] = <<>>)'
                          /\ "killed" \notin excuse' => KeysKept(Begun(d), Fields(writes[d]))'
        BY DEF Working
      <4>1. d = c BY <2>5, <3>2
      <4>2. writes'[d] = <<>> /\ Begun(d)' = Start
        <5>1. Begun(d)' = Current - Len(todo'[d]) BY DEF Begun
        <5>2. Begun(d)' = Current - Len(s) BY <2>5, <4>1, <5>1
        <5>3. Begun(d)' = Start BY <2>2, <2>4, <5>2, Five
        <5> QED BY <2>1, <2>6, <4>1, <5>3
      <4>3. Fields(<<>>) = {} BY DEF Fields
      <4>4. Schema(Start, Fields(<<>>)) /\ ("killed" \notin excuse => KeysKept(Start, Fields(<<>>)))
        BY <3>1, <3>2, <4>3 DEF Upgraded, Resting
      <4>5. \A last : Ordered(<<>>, last) BY DEF Ordered
      <4>6. \A last : Right(<<>>, Start, last) BY <4>4, <4>5 DEF Right
      <4>7. Right(writes[d], Begun(d), todo[d] = <<>>)'
        BY <1>1, <4>2, <4>6, FileStays, RightStays
      <4> QED BY <1>1, <3>1, <4>2, <4>4, <4>7, FileStays DEF Fields
    <3>5. Schema(Start, {})'
      BY <1>1, <3>1, FileStays DEF Upgraded
    <3>6. Resting'
      BY <2>5 DEF Resting
    <3>7. Faithful'
      BY <1>1, <3>1, FileStays DEF Upgraded, Faithful, Match, KeysSure
    <3> QED BY <3>3, <3>4, <3>5, <3>6, <3>7 DEF Upgraded
  <2>9. Numbers'
    BY <1>1, <2>1 DEF IInv, Numbers
  <2> QED BY <2>7, <2>8, <2>9 DEF IInv
<1> QED BY <1>2, <1>3

LEMMA Concat ==
  ASSUME NEW S, NEW s \in Seq(S), NEW t \in Seq(S)
  PROVE  s \o t \in Seq(S) /\ (t # <<>> => s \o t # <<>>) /\ (s # <<>> => s \o t # <<>>)
<1>1. s \o t \in Seq(S) /\ Len(s \o t) = Len(s) + Len(t)
  BY ConcatProperties
<1>2. Len(s) \in Nat /\ Len(t) \in Nat
  OBVIOUS
<1> QED BY <1>1, <1>2, EmptyIsZero

\* Whatever the file is, migrations write what may be written.
LEMMA PlanOk ==
  ASSUME file \in File, NEW m \in Migration, NEW last
  PROVE  Plan(m, last) \in Seq(Assignment) /\ Plan(m, last) # <<>>
<1>1. \A f, v : W(f, v) \in Assignment => Set(f, v) \in Seq(Assignment) /\ Set(f, v) # <<>>
  <2> SUFFICES ASSUME NEW f, NEW v, W(f, v) \in Assignment
               PROVE  Set(f, v) \in Seq(Assignment) /\ Set(f, v) # <<>>
    OBVIOUS
  <2>1. PICK w : w = W(f, v) OBVIOUS
  <2>2. Set(f, v) = <<w>> BY <2>1, OneWrite, Zenon
  <2>3. w \in Assignment BY <2>1
  <2> QED BY <2>2, <2>3
<1> DEFINE k == file.kubeConfig
<1>2. <<>> \in Seq(Assignment)
  OBVIOUS
<1>3. k # None => /\ k \in KubeConfig /\ [k EXCEPT !.typed = TRUE] \in KubeConfig
                  /\ [secure |-> k.secure, groups |-> k.groups] \in Secure
  BY DEF File, KubeConfig, Secure
<1>4. {} \in SUBSET Key /\ {Legacy} \in SUBSET Key /\ {Untyped} \in SUBSET Key
  BY DEF Key
<1>5. Writes(m) \in Seq(Assignment)
  <2>1. CASE m = "serviceUrl"
    BY <2>1, <1>1, Writable DEF Writes
  <2>2. CASE m = "dbDaemons"
    <3>1. /\ Set("dbDaemons", {Legacy}) \in Seq(Assignment) /\ Set("dbConfig",
               FALSE) \in Seq(Assignment)
          /\ Set("web", Typed) \in Seq(Assignment)
      BY <1>1, Writable
    <3>2. k # None => Set("kubeConfig", [k EXCEPT !.typed = TRUE]) \in Seq(Assignment)
      BY <1>1, <1>3, Writable
    <3>3. Set("dbDaemons", {Legacy}) \o Set("dbConfig", FALSE) \in Seq(Assignment)
      BY <3>1, Concat, Zenon
    <3>4. (IF file.dbConfig THEN Set("dbDaemons", {Legacy}) \o Set("dbConfig", FALSE)
            ELSE <<>>) \in Seq(Assignment)
      BY <3>3, <1>2, Zenon
    <3>5. (IF k # None THEN Set("kubeConfig", [k EXCEPT !.typed = TRUE])
            ELSE <<>>) \in Seq(Assignment)
      BY <3>2, <1>2, Zenon
    <3>6. DbDaemons(k) \in Seq(Assignment)
      BY <3>1, <3>4, <3>5, Concat, Zenon DEF DbDaemons
    <3> QED BY <2>2, <3>6 DEF Writes
  <2>3. CASE m = "mrtap"
    <3>1. file.keySplitting \in BOOLEAN BY DEF File
    <3>2. Set("mrtap", file.keySplitting) \in Seq(Assignment) /\ Set("keySplitting",
            FALSE) \in Seq(Assignment)
      BY <3>1, <1>1, Writable
    <3>3. Set("mrtap", file.keySplitting) \o Set("keySplitting", FALSE) \in Seq(Assignment)
      BY <3>2, Concat, Zenon
    <3> QED BY <2>3, <3>3 DEF Writes
  <2>4. CASE m = "kubeDaemons"
    <3>1. CASE k = None BY <2>4, <3>1, <1>2 DEF Writes, KubeDaemons
    <3>2. CASE k # None
      <4>1. Security(k) \in Seq(Assignment)
        BY <3>2, <1>1, <1>3, Writable DEF Security
      <4>2. Moved(k) \in Seq(Assignment)
        BY <1>1, <1>4, Writable DEF Moved
      <4>3. Set("kubeConfig", None) \in Seq(Assignment)
        BY <1>1, Writable
      <4>4. Security(k) \o Moved(k) \o Set("kubeConfig", None) \in Seq(Assignment)
        BY <4>1, <4>2, <4>3, Concat, Zenon
      <4> QED BY <2>4, <3>2, <4>4 DEF Writes, KubeDaemons
    <3> QED BY <3>1, <3>2
  <2>5. CASE m = "whoami"
    <3>1. Set("whoami", Typed) \in Seq(Assignment) BY <1>1, Writable
    <3> QED BY <2>5, <3>1, <1>2 DEF Writes
  <2>6. m \in {"serviceUrl", "dbDaemons", "mrtap", "kubeDaemons", "whoami"}
    <3>1. PICK i \in 1..5 : m = Migrations[i] BY Five DEF Migration
    <3> QED BY <3>1 DEF Migrations
  <2> QED BY <2>1, <2>2, <2>3, <2>4, <2>5, <2>6
<1>6. Set("stamp", Interrupted) \in Seq(Assignment) /\ Set("stamp", Interrupted) # <<>>
      /\ Set("stamp", Current) \in Seq(Assignment)
  BY <1>1, Writable
<1>7. (IF last THEN Set("stamp", Current) ELSE <<>>) \in Seq(Assignment)
  BY <1>2, <1>6, Zenon
<1>8. Writes(m) \o Set("stamp", Interrupted) \in Seq(Assignment) /\ Writes(m) \o Set("stamp",
        Interrupted) # <<>>
  BY <1>5, <1>6, Concat, Zenon
<1>9. Plan(m, last) \in Seq(Assignment) /\ Plan(m, last) # <<>>
  BY <1>7, <1>8, Concat, Zenon DEF Plan
<1> QED BY <1>9

LEMMA MigrateIInv ==
  ASSUME IInv, NEW c \in Cmd, Migrate(c)
  PROVE  IInv'
<1>1. /\ Shape /\ file' = file /\ want' = want /\ pc' = pc /\ about' = about /\ seen' = seen
      /\ excuse' = excuse /\ pc[c] = "upgrading" /\ writes[c] = <<>> /\ todo[c] # <<>>
  BY DEF IInv, Migrate
<1>2. PICK td : td = todo[c]
  OBVIOUS
<1>3. /\ IsRest(Tail(td)) /\ Len(Tail(td)) = Len(td) - 1
      /\ Len(td) \in 1..Current /\ Head(td) = Migrations[Current - Len(td) + 1]
      /\ Tail(td) = <<>> <=> Len(td) = 1
  <2>1. IsRest(td) /\ td # <<>> BY <1>1, <1>2 DEF Shape
  <2> QED BY <2>1, RestShrinks, Zenon
<1>4. PICK tt, m, l, last : tt = Tail(td) /\ m = Head(td) /\ l = Len(td) /\ last = (l = 1)
  OBVIOUS
<1>5. PICK n : n = Current - l
  OBVIOUS
<1>6. n \in 0..Current - 1 /\ n + 1 \in 1..Current /\ m = Migrations[n + 1]
        /\ last = (n + 1 = Current)
      /\ m \in Migration /\ last = (tt = <<>>)
  <2>1. n \in 0..Current - 1 /\ n + 1 \in 1..Current /\ (l = 1) = (n + 1 = Current)
    <3>1. l \in 1..Current BY <1>3, <1>4
    <3> QED BY <3>1, <1>5, Five
  <2>2. m = Migrations[Current - l + 1] /\ Current - l + 1 = n + 1 /\ (tt = <<>> <=> l = 1)
    BY <1>3, <1>4, <1>5
  <2>3. m = Migrations[n + 1] BY <2>2
  <2>4. last = (n + 1 = Current) /\ last = (tt = <<>>) BY <1>4, <2>1, <2>2
  <2>5. m \in Migration BY <2>1, <2>3 DEF Migration
  <2> QED BY <2>1, <2>3, <2>4, <2>5
<1>7. PICK p : p = Plan(m, last)
  OBVIOUS
<1>8. /\ todo' = [todo EXCEPT ![c] = tt]
      /\ writes' = [writes EXCEPT ![c] = p]
  <2>1. /\ todo' = [todo EXCEPT ![c] = Tail(todo[c])]
        /\ writes' = [writes EXCEPT ![c] = Writes(Head(todo[c])) \o Set("stamp", Interrupted)
                  \o (IF Len(todo[c]) = 1 THEN Set("stamp", Current) ELSE <<>>)]
    BY DEF Migrate
  <2> QED BY <2>1, <1>2, <1>4, <1>7, Zenon DEF Plan
<1>9. /\ todo'[c] = tt /\ writes'[c] = p
      /\ \A d \in Cmd \ {c} : todo'[d] = todo[d] /\ writes'[d] = writes[d]
  BY <1>1, <1>8 DEF Shape
<1>10. p \in Seq(Assignment) /\ p # <<>>
  BY <1>1, <1>6, <1>7, PlanOk DEF Shape
<1>11. Shape'
  <2>1. \A d \in Cmd : IsRest(todo'[d]) /\ writes'[d] \in Seq(Assignment)
    BY <1>1, <1>3, <1>4, <1>9, <1>10 DEF Shape
  <2>2. \A d \in Cmd : pc'[d] = "upgrading" <=> writes'[d] # <<>> \/ todo'[d] # <<>>
    BY <1>1, <1>9, <1>10 DEF Shape
  <2>3. DOMAIN todo' = Cmd /\ DOMAIN writes' = Cmd
    BY <1>1, <1>8 DEF Shape
  <2> QED BY <1>1, <2>1, <2>2, <2>3 DEF Shape, Holds
<1>12. "upgrades" \notin excuse' => Upgraded'
  <2> SUFFICES ASSUME "upgrades" \notin excuse' PROVE Upgraded'
    OBVIOUS
  <2>1. Upgraded BY <1>1 DEF IInv
  <2>2. Begun(c) = n BY <1>2, <1>4, <1>5 DEF Begun
  <2>3. Fields(<<>>) = {} BY DEF Fields
  <2>4. Schema(n, {}) /\ ("killed" \notin excuse => KeysKept(n, {}))
    <3>1. Right(writes[c], Begun(c), todo[c] = <<>>) /\ ("killed" \notin excuse
            => KeysKept(Begun(c), Fields(writes[c])))
      BY <1>1, <2>1 DEF Upgraded, Working
    <3>2. Schema(Begun(c), Fields(writes[c])) BY <3>1 DEF Right
    <3> QED BY <1>1, <2>2, <2>3, <3>1, <3>2
  <2>5. Right(p, n + 1, last)
    <3>1. Fine(Plan(Migrations[n + 1], n + 1 = Current), n + 1, n + 1 = Current)
      BY <1>1, <1>6, <2>4, RightPlan DEF Shape
    <3> QED BY <3>1, <1>6, <1>7 DEF Fine
  <2>6. "killed" \notin excuse => KeysKept(n + 1, Fields(p))
    <3> SUFFICES ASSUME "killed" \notin excuse, n + 1 < 3 \/ "mrtap" \in Fields(p)
                 PROVE  file.mrtap => file.keySplitting
      BY DEF KeysKept
    <3>1. n < 3
      <4>1. CASE n + 1 < 3 BY <4>1, <1>6, Five
      <4>2. CASE "mrtap" \in Fields(p)
        <5>1. PICK j \in 1..Len(p) : p[j].field = "mrtap" BY <4>2 DEF Fields
        <5>2. n + 1 = 3 BY <5>1, <2>5 DEF Right, Timely
        <5> QED BY <5>2, <1>6, Five
      <4> QED BY <4>1, <4>2
    <3> QED BY <2>4, <3>1 DEF KeysKept
  <2>7. Begun(c)' = n + 1
    <3>1. Begun(c)' = Current - Len(tt) BY <1>9 DEF Begun
    <3>2. Len(tt) = l - 1 /\ l \in 1..Current BY <1>3, <1>4
    <3> QED BY <1>5, <3>1, <3>2, Five
  <2>8. Turn' BY <1>1, <2>1 DEF Upgraded, Turn
  <2>9. Working'
    <3> SUFFICES ASSUME NEW d \in Cmd, pc'[d] = "upgrading"
                 PROVE  /\ Right(writes[d], Begun(d), todo[d] = <<>>)'
                        /\ "killed" \notin excuse' => KeysKept(Begun(d), Fields(writes[d]))'
      BY DEF Working
    <3>1. d = c BY <1>1, <2>1 DEF Upgraded, Turn
    <3>2. writes'[d] = p /\ Begun(d)' = n + 1 /\ (todo'[d] = <<>>) = last
      BY <1>6, <1>9, <2>7, <3>1
    <3>3. Right(writes[d], Begun(d), todo[d] = <<>>)'
      BY <1>1, <2>5, <3>2, RightStays
    <3>4. "killed" \notin excuse' => KeysKept(Begun(d), Fields(writes[d]))'
      BY <1>1, <2>6, <3>2 DEF KeysKept, Fields
    <3> QED BY <3>3, <3>4
  <2>10. Schema(Start, {})' BY <1>1, <2>1, FileStays DEF Upgraded
  <2>11. Resting' BY <1>1, <2>1, FileStays DEF Upgraded, Resting
  <2>12. Faithful' BY <1>1, <2>1, FileStays DEF Upgraded, Faithful, Match, KeysSure
  <2> QED BY <2>8, <2>9, <2>10, <2>11, <2>12 DEF Upgraded
<1> QED BY <1>1, <1>11, <1>12 DEF IInv, Numbers

LEMMA SchemaOfNone == \A n : Schema(n, {}) => Schema(0, {})
  BY DEF Schema

LEMMA WriteIInv ==
  ASSUME IInv, NEW c \in Cmd, Write(c)
  PROVE  IInv'
<1>1. /\ Shape /\ file \in File /\ want' = want /\ todo' = todo /\ about' = about /\ seen' = seen
      /\ excuse' = excuse /\ pc[c] = "upgrading" /\ writes[c] # <<>>
  BY DEF IInv, Write, Shape
<1>2. PICK ws, h, t, last : ws = writes[c] /\ h = Head(ws) /\ t = Tail(ws)
        /\ last = (todo[c] = <<>>)
  OBVIOUS
<1>3. ws \in Seq(Assignment) /\ ws # <<>> /\ last \in BOOLEAN
  BY <1>1, <1>2 DEF Shape
<1>4. h \in Assignment /\ t \in Seq(Assignment) /\ (t = <<>> <=> Len(ws) = 1)
  BY <1>2, <1>3, Taken
<1>5. file' = [file EXCEPT ![h.field] = h.value] /\ writes' = [writes EXCEPT ![c] = t]
      /\ Goto(c, IF t = <<>> /\ last THEN "loading" ELSE "upgrading")
  <2>1. /\ file' = [file EXCEPT ![Head(writes[c]).field] = Head(writes[c]).value]
        /\ writes' = [writes EXCEPT ![c] = Tail(writes[c])]
        /\ Goto(c, IF Len(writes[c]) = 1 /\ todo[c] = <<>> THEN "loading" ELSE "upgrading")
    BY DEF Write
  <2> QED BY <2>1, <1>2, <1>4
<1>6. /\ pc' \in [Cmd -> Place] /\ pc'[c] = (IF t = <<>> /\ last THEN "loading" ELSE "upgrading")
      /\ writes'[c] = t /\ DOMAIN writes' = Cmd
      /\ \A d \in Cmd \ {c} : pc'[d] = pc[d] /\ writes'[d] = writes[d]
  BY <1>1, <1>5 DEF Shape, Goto, Place
<1>7. file' \in File /\ file'.ports = file.ports
      /\ \A f \in DOMAIN file : file'[f] = IF f = h.field THEN h.value ELSE file[f]
  BY <1>1, <1>4, <1>5, FileWritten
<1>8. Shape'
  <2>1. \A d \in Cmd : IsRest(todo'[d]) /\ writes'[d] \in Seq(Assignment)
    BY <1>1, <1>4, <1>6 DEF Shape
  <2>2. \A d \in Cmd : pc'[d] = "upgrading" <=> writes'[d] # <<>> \/ todo'[d] # <<>>
    BY <1>1, <1>2, <1>6 DEF Shape
  <2>3. \A d \in Cmd : Holds(d)'
    BY <1>1, <1>6 DEF Shape, Holds, Checking
  <2> QED BY <1>1, <1>6, <1>7, <2>1, <2>2, <2>3 DEF Shape
<1>9. Numbers'
  BY <1>1, <1>7 DEF IInv, Numbers
<1>10. ASSUME "upgrades" \notin excuse' PROVE Upgraded'
  <2>1. Upgraded BY <1>1, <1>10 DEF IInv
  <2>2. PICK n : n = Begun(c) OBVIOUS
  <2>3. n \in 0..Current /\ (last => n = Current)
    <3>1. PICK td : td = todo[c] OBVIOUS
    <3>2. td \in Seq(Migration) /\ Len(td) <= Current BY <1>1, <3>1 DEF Shape, IsRest
    <3>3. Len(td) \in Nat BY <3>2
    <3>4. last => Len(td) = 0 BY <1>2, <3>1
    <3>5. PICK l : l = Len(td) OBVIOUS
    <3>6. n = Current - l BY <2>2, <3>1, <3>5 DEF Begun
    <3> QED BY <3>2, <3>3, <3>4, <3>5, <3>6, Natural
  <2>4. Right(ws, n, last) /\ ("killed" \notin excuse => KeysKept(n, Fields(ws)))
    BY <1>1, <1>2, <2>1, <2>2 DEF Upgraded, Working
  <2>5. /\ Right(t, n, last)'
        /\ Apart(Effective)' = Apart(Effective)
        /\ KeysKept(n, Fields(ws)) => KeysKept(n, Fields(t))' /\ Effective'.keys = Effective.keys
        /\ \A m \in 0..Current : Schema(m, {}) => Schema(m, {})'
    BY <1>1, <1>2, <1>3, <1>5, <2>3, <2>4, Written
  <2>6. (Stamps(h) => (h.value = Current <=> last /\ t = <<>>)) /\ (t = <<>> => Stamps(h))
    <3>1. Ordered(ws, last) BY <2>4 DEF Right
    <3>2. Shrinks(ws, h, t, last) BY <1>2, <1>3, <3>1, TailRight
    <3> QED BY <3>2 DEF Shrinks
  <2>7. Begun(c)' = n
    BY <1>1, <2>2 DEF Begun
  <2>8. file.stamp # Current /\ \A d \in Cmd \ {c} : pc[d] = "idle"
    BY <1>1, <2>1 DEF Upgraded, Turn
  <2>9. Faithful'
    <3>1. Faithful BY <2>1 DEF Upgraded
    <3>2. /\ Effective'.db = Effective.db /\ Effective'.kube = Effective.kube
          /\ Effective'.secure = Effective.secure /\ Effective'.groups = Effective.groups
          /\ Effective'.me = Effective.me
      <4> DEFINE e == Effective
                 f == Effective'
      <4>1. Apart(f) = Apart(e) BY <2>5 DEF Apart
      <4> HIDE DEF e, f
      <4>2. f.db = e.db /\ f.kube = e.kube /\ f.secure = e.secure /\ f.groups = e.groups
            /\ f.me = e.me
        BY <4>1 DEF Apart
      <4> QED BY <4>2 DEF e, f
    <3> QED BY <1>1, <2>4, <2>5, <3>1, <3>2 DEF Faithful, Match, KeysSure
  <2>10. Current # Interrupted /\ 0 \in 0..Current
    BY ConfigurationAssumption, Five DEF Interrupted
  <2>11. file'.stamp = (IF h.field = "stamp" THEN h.value ELSE file.stamp)
    BY <1>1, <1>7 DEF File
  <2>12. h.field = "stamp" => h.value \in {Current, Interrupted}
    BY <1>4 DEF Assignment
  <2>13. ASSUME t = <<>>, last PROVE Upgraded'
    <3>1. file'.stamp = Current
      BY <2>6, <2>11, <2>13 DEF Stamps
    <3>2. \A d \in Cmd : pc'[d] # "upgrading"
      BY <1>6, <2>8, <2>13
    <3>3. Start' = Current /\ n = Current
      BY <2>3, <2>10, <2>13, <3>1 DEF Start
    <3>4. Schema(n, {})'
      <4>1. Schema(n, Fields(t))' BY <2>5 DEF Right
      <4>2. Fields(t) = {} BY <2>13 DEF Fields
      <4> QED BY <4>1, <4>2
    <3>5. Schema(Start, {})'
      BY <3>3, <3>4 DEF Schema
    <3>6. Turn' BY <1>6, <2>8, <3>1, <3>2 DEF Turn
    <3>7. Working' BY <3>2 DEF Working
    <3>8. Resting' 
      <4>1. ~(Start' < 3) BY <3>3, Five
      <4> QED BY <4>1 DEF Resting, KeysKept
    <3> QED BY <2>9, <3>5, <3>6, <3>7, <3>8 DEF Upgraded
  <2>14. ASSUME ~(t = <<>> /\ last) PROVE Upgraded'
    <3>1. file'.stamp = (IF h.field = "stamp" THEN Interrupted ELSE file.stamp)
      BY <2>6, <2>11, <2>12, <2>14 DEF Stamps
    <3>2. file'.stamp # Current
      BY <2>8, <2>10, <3>1
    <3>3. pc'[c] = "upgrading" /\ \A d \in Cmd \ {c} : pc'[d] = "idle"
      BY <1>6, <2>8, <2>14
    <3>4. Turn' BY <3>2, <3>3 DEF Turn
    <3>5. Working'
      <4> SUFFICES ASSUME NEW d \in Cmd, pc'[d] = "upgrading"
                   PROVE  /\ Right(writes[d], Begun(d), todo[d] = <<>>)'
                          /\ "killed" \notin excuse' => KeysKept(Begun(d), Fields(writes[d]))'
        BY DEF Working
      <4>1. d = c BY <3>3
      <4>2. writes'[d] = t /\ Begun(d)' = n /\ (todo'[d] = <<>>) = last
        BY <1>1, <1>2, <1>6, <2>7, <4>1
      <4>3. Right(writes[d], Begun(d), todo[d] = <<>>)'
        BY <2>5, <4>2
      <4>4. "killed" \notin excuse' => KeysKept(n, Fields(t))'
        BY <1>1, <2>4, <2>5
      <4>5. "killed" \notin excuse' => KeysKept(Begun(d), Fields(writes[d]))'
        BY <4>2, <4>4 DEF KeysKept, Fields
      <4> QED BY <4>3, <4>5
    <3>6. Schema(Start, {})'
      <4>1. Start \in 0..Current
        <5>1. file.stamp \in 0..Current \cup {Interrupted} BY <1>1 DEF File
        <5> QED BY <2>10, <5>1 DEF Start
      <4>2. Schema(Start, {}) /\ Schema(0, {})
        BY <2>1, SchemaOfNone DEF Upgraded
      <4>3. Start' = 0 \/ Start' = Start
        BY <3>1 DEF Start
      <4>4. PICK s : s = Start OBVIOUS
      <4>5. Schema(s, {})' /\ Schema(0, {})'
        BY <2>5, <2>10, <4>1, <4>2, <4>4
      <4> QED BY <4>3, <4>4, <4>5 DEF Schema
    <3>7. Resting' BY <3>3 DEF Resting
    <3> QED BY <2>9, <3>4, <3>5, <3>6, <3>7 DEF Upgraded
  <2> QED BY <2>13, <2>14
<1> QED BY <1>8, <1>9, <1>10 DEF IInv

\* Keys that have moved are safe when the migration that moves them is done.
LEMMA KillIInv ==
  ASSUME IInv, NEW c \in Cmd, Kill(c)
  PROVE  IInv'
<1>1. Shape /\ Ends(c) /\ file' = file /\ want' = want /\ excuse \subseteq excuse'
  BY DEF IInv, Kill
<1>2. Shape'
  BY <1>1, EndShape DEF Shape
<1>3. pc[c] = "upgrading" /\ "killed" \notin excuse' => KeysKept(Start, {})
  <2> SUFFICES ASSUME pc[c] = "upgrading", "killed" \notin excuse', Start < 3, ~file.keySplitting
               PROVE  FALSE
    BY DEF KeysKept
  <2>1. PICK s : s = Pending(file.stamp)
    OBVIOUS
  <2>2. "mrtap" \notin {s[i] : i \in DOMAIN s}
    BY <2>1 DEF Kill, ToSet
  <2>3. Start \in 0..Current /\ s = SubSeq(Migrations, Start + 1, Current)
    <3>1. file.stamp \in 0..Current \cup {Interrupted} BY <1>1 DEF Shape, File
    <3> QED BY <2>1, <3>1, Five DEF Start, Pending
  <2>4. IsRest(s) /\ Len(s) = Current - Start
    BY <2>3, PendingIsRest
  <2>5. PICK l : l = Len(s)
    OBVIOUS
  <2>6. 3 - Start \in 1..l /\ Current - l + (3 - Start) = 3
    <3>1. l = Current - Start BY <2>4, <2>5
    <3> QED BY <2>3, <3>1, Five
  <2>7. s[3 - Start] = Migrations[3]
    <3>1. s[3 - Start] = Migrations[Current - l + (3 - Start)]
      BY <2>4, <2>5, <2>6 DEF IsRest
    <3> QED BY <2>6, <3>1
  <2>8. 3 - Start \in DOMAIN s /\ Migrations[3] = "mrtap"
    BY <2>4, <2>5, <2>6 DEF IsRest, Migrations
  <2> QED BY <2>2, <2>7, <2>8
<1>4. "upgrades" \notin excuse' => Upgraded'
  <2> SUFFICES ASSUME "upgrades" \notin excuse' PROVE Upgraded'
    OBVIOUS
  <2>1. Upgraded BY <1>1 DEF IInv
  <2>2. Goto(c, "idle") /\ "idle" \in Place \ {"upgrading"} 
        /\ \A d \in Cmd \ {c} : todo'[d] = todo[d] /\ writes'[d] = writes[d]
    BY <1>1 DEF Ends, Place, Shape
  <2> QED BY <1>1, <1>3, <2>1, <2>2, Aside
<1>5. Numbers' BY <1>1 DEF IInv, Numbers
<1> QED BY <1>2, <1>4, <1>5 DEF IInv

-----------------------------------------------------------------------------
(* Checks and handlers *)

\* Commands that are past their upgrade, and change none of the settings here.
LEMMA StandsIInv ==
  ASSUME IInv, NEW c \in Cmd, NEW at \in Place \ {"upgrading"}, Goto(c, at), Shape',
         pc[c] \notin {"idle", "upgrading"},
         \A d \in Cmd \ {c} : todo'[d] = todo[d] /\ writes'[d] = writes[d],
         file' = file, want' = want, excuse \subseteq excuse'
  PROVE  IInv'
<1>1. "upgrades" \notin excuse' => Upgraded'
  <2> SUFFICES ASSUME "upgrades" \notin excuse' PROVE Upgraded'
    OBVIOUS
  <2>1. Shape /\ Upgraded BY DEF IInv
  <2>2. file.stamp = Current BY <2>1 DEF Upgraded, Turn
  <2> QED BY <2>1, <2>2, Aside
<1>2. Numbers' BY DEF IInv, Numbers
<1> QED BY <1>1, <1>2 DEF IInv

LEMMA StopsIInv ==
  ASSUME IInv, NEW c \in Cmd, pc[c] \notin {"idle", "upgrading"}, Ends(c),
         file' = file, want' = want, excuse \subseteq excuse'
  PROVE  IInv'
<1>1. Shape /\ Shape'
  BY EndShape DEF IInv, Shape
<1>2. Goto(c, "idle") /\ "idle" \in Place \ {"upgrading"}
      /\ \A d \in Cmd \ {c} : todo'[d] = todo[d] /\ writes'[d] = writes[d]
  BY <1>1 DEF Ends, Place, Shape
<1> QED BY <1>1, <1>2, StandsIInv

LEMMA GoesIInv ==
  ASSUME IInv, NEW c \in Cmd, pc[c] \notin {"idle", "upgrading"},
         NEW at \in Free, Goto(c, at),
         todo' = todo, writes' = writes, DOMAIN about' = Cmd, DOMAIN seen' = Cmd,
         \A d \in Cmd \ {c} : about'[d] = about[d] /\ seen'[d] = seen[d],
         file' = file, want' = want, excuse \subseteq excuse'
  PROVE  IInv'
<1>1. Shape /\ file' \in File /\ want' \in Settings
  BY DEF IInv, Shape
<1>2. at \in Place \ {"upgrading"} /\ Holds(c)'
  BY <1>1, Freely
<1>3. Shape'
  BY <1>1, <1>2, GoShape
<1> QED BY <1>2, <1>3, StandsIInv

LEMMA PassesIInv ==
  ASSUME IInv, NEW c \in Cmd, pc[c] \notin {"idle", "upgrading"},
         NEW at \in Free \cup Checking, at \in Checking => pc[c] \in Checking, Passes(c, at)
  PROVE  IInv'
<1>1. /\ Goto(c, at) /\ todo' = todo /\ writes' = writes /\ about' = about /\ seen' = seen
      /\ file' = file /\ want' = want /\ excuse' = excuse
  BY DEF Passes
<1>2. DOMAIN about = Cmd /\ DOMAIN seen = Cmd /\ Shape
  BY DEF IInv, Shape
<1>3. CASE at \in Free
  BY <1>1, <1>2, <1>3, GoesIInv
<1>4. CASE at \in Checking
  <2>1. pc'[c] = at /\ Holds(c)
    BY <1>1, <1>2 DEF Goto, Shape
  <2>2. Holds(c)' /\ at \in Place \ {"upgrading"}
    BY <1>1, <1>4, <2>1 DEF Holds, Checking, Place
  <2>3. Shape'
    BY <1>1, <1>2, <2>2, GoShape DEF Shape
  <2> QED BY <1>1, <2>2, <2>3, StandsIInv
<1> QED BY <1>3, <1>4

LEMMA LoadIInv ==
  ASSUME IInv, NEW c \in Cmd, Load(c)
  PROVE  IInv'
<1>1. /\ Shape /\ pc[c] = "loading" /\ Goto(c, "tracking") /\ todo' = todo /\ writes' = writes
      /\ file' = file /\ want' = want /\ excuse' = excuse /\ about' = about
      /\ seen' = [seen EXCEPT ![c] = [mrtap |-> file.mrtap]]
  BY DEF IInv, Load
<1>2. /\ seen'[c] = [mrtap |-> file.mrtap] /\ DOMAIN about' = Cmd /\ DOMAIN seen' = Cmd
      /\ \A d \in Cmd \ {c} : seen'[d] = seen[d]
  BY <1>1 DEF Shape
<1>3. seen'[c] \in Loaded
  BY <1>1, <1>2 DEF Shape, File, Loaded
<1>4. pc'[c] = "tracking" /\ "tracking" \in Place \ {"upgrading"}
  BY <1>1 DEF Goto, Shape, Place
<1>5. Holds(c)'
  BY <1>3, <1>4 DEF Holds
<1>6. Shape'
  BY <1>1, <1>2, <1>4, <1>5, GoShape DEF Shape
<1> QED BY <1>1, <1>4, <1>6, StandsIInv

\* A handler begins.
LEMMA RunsIInv ==
  ASSUME IInv, NEW c \in Cmd, pc[c] \notin {"idle", "upgrading"}, Runs(c), file' = file,
         excuse' = excuse
  PROVE  IInv'
<1>1. /\ Shape /\ Goto(c, "running") /\ todo' = todo /\ writes' = writes /\ about' = about
      /\ want' = want /\ seen' = [seen EXCEPT ![c] = None]
  BY DEF IInv, Runs
<1>2. /\ DOMAIN about' = Cmd /\ DOMAIN seen' = Cmd
      /\ \A d \in Cmd \ {c} : about'[d] = about[d] /\ seen'[d] = seen[d]
  BY <1>1 DEF Shape
<1>3. "running" \in Free
  BY DEF Free
<1> QED BY <1>1, <1>2, <1>3, GoesIInv

LEMMA ChecksIInv ==
  ASSUME IInv, NEW c \in Cmd, Track(c) \/ Authorize(c) \/ Admit(c) \/ Returns(c)
  PROVE  IInv'
<1>1. pc[c] \notin {"idle", "upgrading"}
  BY DEF Track, Authorize, Admit, Returns
<1>2. \/ \E at \in {"authorizing", "admitting", "certifying"} :
           Passes(c, at) /\ pc[c] \in Checking
      \/ Stops(c)
      \/ Runs(c) /\ file' = file /\ excuse' = excuse
  BY DEF Track, Authorize, Admit, Returns, Checking
<1>3. CASE Stops(c)
  BY <1>1, <1>3, StopsIInv DEF Stops
<1>4. ASSUME NEW at \in {"authorizing", "admitting", "certifying"}, Passes(c, at),
             pc[c] \in Checking
      PROVE  IInv'
  <2>1. at \in Free \cup Checking
    BY DEF Checking
  <2> QED BY <1>1, <1>4, <2>1, PassesIInv
<1>5. CASE Runs(c) /\ file' = file /\ excuse' = excuse
  BY <1>1, <1>5, RunsIInv
<1> QED BY <1>2, <1>3, <1>4, <1>5

LEMMA SshIInv ==
  ASSUME IInv, NEW c \in Cmd,
         AskTargets(c) \/ MakeFile(c) \/ OpenSsh(c) \/ WriteSsh(c) \/ RemoveFile(c)
  PROVE  IInv'
<1>1. Shape
  BY DEF IInv
<1>2. CASE AskTargets(c)
  <2>1. PICK at \in {"generating", "unlinking"} : Goto(c, at)
    BY <1>2 DEF AskTargets
  <2>2. /\ pc[c] = "running" /\ todo' = todo /\ writes' = writes /\ seen' = seen
        /\ file' = file /\ want' = want /\ excuse \subseteq excuse'
    BY <1>2 DEF AskTargets
  <2>3. DOMAIN about' = Cmd /\ \A d \in Cmd \ {c} : about'[d] = about[d]
    BY <1>1, <1>2 DEF AskTargets, Shape
  <2>4. at \in Free /\ DOMAIN seen = Cmd
    BY <1>1 DEF Free, Shape
  <2> QED BY <2>1, <2>2, <2>3, <2>4, GoesIInv
<1>3. CASE MakeFile(c)
  <2>1. /\ pc[c] = "generating" /\ todo' = todo /\ writes' = writes /\ seen' = seen
             /\ about' = about
        /\ file' = file /\ want' = want /\ excuse' = excuse /\ Goto(c, "linking")
    BY <1>3 DEF MakeFile
  <2>2. "linking" \in Free /\ DOMAIN seen = Cmd /\ DOMAIN about = Cmd
    BY <1>1 DEF Free, Shape
  <2> QED BY <2>1, <2>2, GoesIInv
<1>4. CASE OpenSsh(c)
  <2>1. PICK at \in {"writingLinked", "writingRest"} : Goto(c, at)
    BY <1>4 DEF OpenSsh
  <2>2. /\ pc[c] \in {"linking", "unlinking"} /\ todo' = todo /\ writes' = writes /\ about' = about
        /\ file' = file /\ want' = want /\ excuse' = excuse
    BY <1>4 DEF OpenSsh
  <2>3. DOMAIN seen' = Cmd /\ \A d \in Cmd \ {c} : seen'[d] = seen[d]
    <3>1. \E v : seen' = [seen EXCEPT ![c] = v] BY <1>4 DEF OpenSsh
    <3> QED BY <1>1, <3>1 DEF Shape
  <2>4. at \in Free /\ DOMAIN about = Cmd
    BY <1>1 DEF Free, Shape
  <2> QED BY <2>1, <2>2, <2>3, <2>4, GoesIInv
<1>5. CASE WriteSsh(c)
  <2>1. pc[c] \in {"writingLinked", "writingRest"} /\ file' = file /\ want' = want
          /\ excuse' = excuse
    BY <1>5 DEF WriteSsh
  <2>2. CASE Ends(c)
    BY <2>1, <2>2, StopsIInv
  <2>3. CASE Goto(c, "removing") /\ UNCHANGED <<kind, todo, writes, about, seen>>
    <3>1. "removing" \in Free /\ DOMAIN seen = Cmd
            /\ DOMAIN about = Cmd
      BY <1>1 DEF Free, Shape
    <3> QED BY <2>1, <2>3, <3>1, GoesIInv
  <2> QED BY <1>5, <2>2, <2>3 DEF WriteSsh
<1>6. CASE RemoveFile(c)
  BY <1>6, StopsIInv DEF RemoveFile
<1> QED BY <1>2, <1>3, <1>4, <1>5, <1>6

LEMMA ReadPortsIInv ==
  ASSUME IInv, NEW c \in Cmd, ReadPorts(c)
  PROVE  IInv'
<1>1. /\ Shape /\ pc[c] = "running" /\ Goto(c, "choosing") /\ todo' = todo /\ writes' = writes
      /\ file' = file /\ want' = want /\ excuse' = excuse /\ seen' = [seen EXCEPT ![c] = file.ports]
  BY DEF IInv, ReadPorts
<1>2. PICK a \in App : about' = [about EXCEPT ![c] = a]
  BY DEF ReadPorts
<1>3. pc' \in [Cmd -> Place] /\ pc'[c] = "choosing" /\ \A d \in Cmd \ {c} : pc'[d] = pc[d]
  BY <1>1 DEF Goto, Shape, Place
<1>4. /\ about'[c] = a /\ seen'[c] = file.ports /\ DOMAIN about' = Cmd /\ DOMAIN seen' = Cmd
      /\ \A d \in Cmd \ {c} : about'[d] = about[d] /\ seen'[d] = seen[d]
  BY <1>1, <1>2 DEF Shape
<1>5. file.ports \in Ports
  BY <1>1 DEF Shape, File, Ports
<1>6. Shape'
  <2>1. \A d \in Cmd : Holds(d)'
    BY <1>1, <1>2, <1>3, <1>4, <1>5 DEF Shape, Holds, Checking
  <2>2. \A d \in Cmd : IsRest(todo'[d]) /\ writes'[d] \in Seq(Assignment)
    BY <1>1 DEF Shape
  <2>3. \A d \in Cmd : pc'[d] = "upgrading" <=> writes'[d] # <<>> \/ todo'[d] # <<>>
    BY <1>1, <1>3 DEF Shape
  <2> QED BY <1>1, <1>3, <1>4, <2>1, <2>2, <2>3 DEF Shape
<1>7. "choosing" \in Place \ {"upgrading"}
  BY DEF Place
<1> QED BY <1>1, <1>6, <1>7, StandsIInv

\* The settings of a file that has nothing old, and that it has nothing old.
Reads(e, f) ==
  /\ e.db = Known(f.dbDaemons) /\ e.kube = Known(f.kubeDaemons) /\ e.keys = f.mrtap
  /\ e.secure = f.globalKubeConfig.secure /\ e.groups = f.globalKubeConfig.groups
  /\ e.me = (f.whoami # None)
Fits(f, w) ==
  /\ Known(f.dbDaemons) = w.db /\ Known(f.kubeDaemons) = w.kube
  /\ f.globalKubeConfig.secure = w.secure /\ (f.whoami # None) = w.me
Modern(f) ==
  /\ f.stamp = Current /\ f.dbConfig = FALSE /\ f.keySplitting = FALSE /\ f.kubeConfig = None
  /\ f.web = Typed /\ f.whoami # Untyped /\ Untyped \notin f.kubeDaemons

LEMMA ModernFile ==
  ASSUME file \in File
  PROVE  /\ file.stamp = Current /\ Schema(Start, {}) <=> Modern(file)
         /\ Modern(file) => Reads(Effective, file)
<1>1. Current = 5 /\ Current # Interrupted
  BY Five, ConfigurationAssumption DEF Interrupted
<1>2. file.dbConfig \in BOOLEAN /\ file.keySplitting \in BOOLEAN /\ file.mrtap \in BOOLEAN
  BY DEF File
<1>3. file.stamp = Current => (Schema(Start, {}) <=> Modern(file))
  <2> SUFFICES ASSUME file.stamp = Current PROVE Schema(Start, {}) <=> Modern(file)
    OBVIOUS
  <2>1. Start = 5 BY <1>1 DEF Start
  <2> QED BY <1>1, <1>2, <2>1 DEF Schema, Modern
<1>4. Modern(file) => Reads(Effective, file)
  BY <1>2 DEF Modern, Effective, Reads, Known
<1> QED BY <1>3, <1>4 DEF Modern

LEMMA ModernAfter ==
  ASSUME file' \in File
  PROVE  /\ file'.stamp = Current /\ Schema(Start, {})' <=> Modern(file')
         /\ Modern(file') => Reads(Effective', file')
<1>1. Current = 5 /\ Current # Interrupted
  BY Five, ConfigurationAssumption DEF Interrupted
<1>2. file'.dbConfig \in BOOLEAN /\ file'.keySplitting \in BOOLEAN /\ file'.mrtap \in BOOLEAN
  BY DEF File
<1>3. file'.stamp = Current => (Schema(Start, {})' <=> Modern(file'))
  <2> SUFFICES ASSUME file'.stamp = Current PROVE Schema(Start, {})' <=> Modern(file')
    OBVIOUS
  <2>1. Start' = 5 BY <1>1 DEF Start
  <2> QED BY <1>1, <1>2, <2>1 DEF Schema, Modern
<1>4. Modern(file') => Reads(Effective', file')
  BY <1>2 DEF Modern, Effective, Reads, Known
<1> QED BY <1>3, <1>4 DEF Modern

\* What a handler changes in a file that has nothing old is what is wanted of it.
LEMMA ChangesIInv ==
  ASSUME IInv, NEW c \in Cmd, NEW at \in Place \ {"upgrading"}, Goto(c, at), Shape',
         pc[c] \notin {"idle", "upgrading"}, excuse \subseteq excuse',
         \A d \in Cmd \ {c} : todo'[d] = todo[d] /\ writes'[d] = writes[d],
         Modern(file) => Modern(file'),
         Fits(file, want) => Fits(file', want'),
         "groups" \notin excuse' /\ file.globalKubeConfig.groups = want.groups
           => file'.globalKubeConfig.groups = want'.groups,
         KeysSure' /\ file.mrtap = want.keys => file'.mrtap = want'.keys,
         Numbers'
  PROVE  IInv'
<1>1. "upgrades" \notin excuse' => Upgraded'
  <2> SUFFICES ASSUME "upgrades" \notin excuse' PROVE Upgraded'
    OBVIOUS
  <2>1. Shape /\ Upgraded /\ file \in File /\ file' \in File
    BY DEF IInv, Shape
  <2>2. file.stamp = Current
    BY <2>1 DEF Upgraded, Turn
  <2>3. Modern(file)
    BY <2>1, <2>2, ModernFile DEF Upgraded
  <2>4. Modern(file') /\ file'.stamp = Current /\ Schema(Start, {})'
    BY <2>1, <2>3, ModernAfter DEF Modern
  <2>5. \A d \in Cmd : pc'[d] # "upgrading"
    BY <2>1, <2>2 DEF Upgraded, Turn, Goto, Shape
  <2>6. Turn' /\ Working'
    BY <2>4, <2>5 DEF Turn, Working
  <2>7. Resting'
    <3>1. ~(Start' < 3) BY <2>4, Five, ConfigurationAssumption DEF Start, Interrupted
    <3> QED BY <3>1 DEF Resting, KeysKept
  <2>8. Faithful'
    <3>1. Faithful BY <2>1 DEF Upgraded
    <3>2. Reads(Effective, file)
      BY <2>1, <2>3, ModernFile
    <3>3. Reads(Effective', file')
      BY <2>1, <2>4, ModernAfter
    <3>4. Fits(file', want')
      BY <3>1, <3>2 DEF Faithful, Match, Fits, Reads
    <3>5. Match(Effective', want')
      BY <3>3, <3>4 DEF Match, Fits, Reads
    <3>6. "groups" \notin excuse' => Effective'.groups = want'.groups
      BY <3>1, <3>2, <3>3 DEF Faithful, Reads
    <3>7. KeysSure' => Effective'.keys = want'.keys
      BY <3>1, <3>2, <3>3 DEF Faithful, Reads, KeysSure
    <3> QED BY <3>5, <3>6, <3>7 DEF Faithful, Match
  <2> QED BY <2>4, <2>6, <2>7, <2>8 DEF Upgraded
<1> QED BY <1>1 DEF IInv

\* A handler's last write is of one field.
LEMMA SavesIInv ==
  ASSUME IInv, NEW c \in Cmd, pc[c] \notin {"idle", "upgrading"}, NEW field, NEW value,
           NEW w \in Settings,
         Saves(c, field, value, w), file' \in File, excuse \subseteq excuse',
         Modern(file) => Modern(file'),
         Fits(file, want) => Fits(file', w),
         file.globalKubeConfig.groups = want.groups => file'.globalKubeConfig.groups = w.groups,
         file.mrtap = want.keys => file'.mrtap = w.keys,
         Numbers'
  PROVE  IInv'
<1>1. Ends(c) /\ want' = w /\ Shape
  BY DEF Saves, IInv
<1>2. Shape'
  BY <1>1, EndShape
<1>3. Goto(c, "idle") /\ "idle" \in Place \ {"upgrading"}
      /\ \A d \in Cmd \ {c} : todo'[d] = todo[d] /\ writes'[d] = writes[d]
  BY <1>1 DEF Ends, Place, Shape
<1> QED BY <1>1, <1>2, <1>3, ChangesIInv

LEMMA DefaultTargetGroupIInv ==
  ASSUME IInv, NEW c \in Cmd, DefaultTargetGroup(c)
  PROVE  IInv'
<1>1. pc[c] \notin {"idle", "upgrading"} /\ excuse' = excuse /\ file \in File /\ want \in Settings
  BY DEF DefaultTargetGroup, IInv, Shape
<1>2. PICK groups, v, w :
        /\ groups \in BOOLEAN /\ v = [file.globalKubeConfig EXCEPT !.groups = groups]
        /\ w = [want EXCEPT !.groups = groups] /\ Saves(c, "globalKubeConfig", v, w)
  BY DEF DefaultTargetGroup
<1>3. file' = [file EXCEPT !.globalKubeConfig = v] /\ want' = w
  BY <1>2 DEF Saves
<1>4. v \in Secure /\ v.secure = file.globalKubeConfig.secure /\ v.groups = groups
  BY <1>1, <1>2 DEF File, Secure
<1>5. /\ w \in Settings /\ w.db = want.db /\ w.kube = want.kube /\ w.secure = want.secure
      /\ w.groups = groups /\ w.me = want.me /\ w.keys = want.keys /\ w.ports = want.ports
  BY <1>1, <1>2 DEF Settings
<1>6. file' \in File
  BY <1>1, <1>3, <1>4 DEF File, Secure
<1>7. /\ file'.globalKubeConfig = v /\ file'.dbDaemons = file.dbDaemons
           /\ file'.kubeDaemons = file.kubeDaemons
      /\ file'.whoami = file.whoami /\ file'.mrtap = file.mrtap /\ file'.ports = file.ports
      /\ file'.stamp = file.stamp /\ file'.dbConfig = file.dbConfig
           /\ file'.keySplitting = file.keySplitting
      /\ file'.kubeConfig = file.kubeConfig /\ file'.web = file.web
  BY <1>1, <1>3 DEF File
<1>8. Modern(file) => Modern(file')
  BY <1>7 DEF Modern
<1>9. Fits(file, want) => Fits(file', w)
  BY <1>4, <1>5, <1>7 DEF Fits
<1>10. Numbers'
  BY <1>1, <1>3, <1>5, <1>7 DEF IInv, Numbers
<1>11. file'.globalKubeConfig.groups = w.groups
  BY <1>4, <1>5, <1>7
<1> QED BY <1>1, <1>2, <1>11, <1>5, <1>6, <1>7, <1>8, <1>9, <1>10, SavesIInv

\* Daemons are added and removed by their connection.
LEMMA DaemonsIInv ==
  ASSUME IInv, NEW c \in Cmd, AddDaemon(c) \/ Disconnect(c)
  PROVE  IInv'
<1>1. pc[c] \notin {"idle", "upgrading"} /\ excuse' = excuse /\ file \in File /\ want \in Settings
  BY DEF AddDaemon, Disconnect, IInv, Shape
<1>2. /\ file.dbDaemons \in SUBSET Key /\ file.kubeDaemons \in SUBSET Key
      /\ want.db \in SUBSET Key /\ want.kube \in SUBSET Key
      /\ Connection \in Key /\ Connection # Untyped
  BY <1>1 DEF File, Settings, Key, Connection, Untyped
<1>3. \/ \E v, w :
           /\ \/ v = file.dbDaemons \cup {Connection}
                /\ w = [want EXCEPT !.db = want.db \cup {Connection}]
              \/ v = {} /\ w = [want EXCEPT !.db = {}]
           /\ Saves(c, "dbDaemons", v, w)
      \/ \E v, w :
           /\ \/ v = file.kubeDaemons \cup {Connection}
                /\ w = [want EXCEPT !.kube = want.kube \cup {Connection}]
              \/ v = {} /\ w = [want EXCEPT !.kube = {}]
           /\ Saves(c, "kubeDaemons", v, w)
  BY DEF AddDaemon, Disconnect
<1>4. ASSUME NEW v, NEW w, Saves(c, "dbDaemons", v, w),
             \/ v = file.dbDaemons \cup {Connection}
                  /\ w = [want EXCEPT !.db = want.db \cup {Connection}]
             \/ v = {} /\ w = [want EXCEPT !.db = {}]
      PROVE  IInv'
  <2>1. file' = [file EXCEPT !.dbDaemons = v] /\ want' = w
    BY <1>4 DEF Saves
  <2>2. v \in SUBSET Key /\ (Known(file.dbDaemons) = want.db => Known(v) = w.db)
    <3>1. CASE v = {} /\ w = [want EXCEPT !.db = {}]
      BY <1>1, <3>1, KnownAs DEF Settings
    <3>2. CASE v = file.dbDaemons \cup {Connection}
                 /\ w = [want EXCEPT !.db = want.db \cup {Connection}]
      <4>1. w.db = want.db \cup {Connection} BY <1>1, <3>2 DEF Settings
      <4>2. Known(v) = Known(file.dbDaemons) \cup {Connection} BY <3>2, KnownAs
      <4> QED BY <1>2, <3>2, <4>1, <4>2
    <3> QED BY <1>4, <3>1, <3>2
  <2>3. /\ w \in Settings /\ w.kube = want.kube /\ w.secure = want.secure /\ w.groups = want.groups
        /\ w.me = want.me /\ w.keys = want.keys /\ w.ports = want.ports
    BY <1>1, <1>2, <1>4 DEF Settings
  <2>4. file' \in File
    BY <1>1, <2>1, <2>2 DEF File
  <2>5. /\ file'.dbDaemons = v /\ file'.globalKubeConfig = file.globalKubeConfig
             /\ file'.kubeDaemons = file.kubeDaemons
        /\ file'.whoami = file.whoami /\ file'.mrtap = file.mrtap /\ file'.ports = file.ports
        /\ file'.stamp = file.stamp /\ file'.dbConfig = file.dbConfig
             /\ file'.keySplitting = file.keySplitting
        /\ file'.kubeConfig = file.kubeConfig /\ file'.web = file.web
    BY <1>1, <2>1 DEF File
  <2>6. Modern(file) => Modern(file')
    BY <2>5 DEF Modern
  <2>7. Fits(file, want) => Fits(file', w)
    BY <2>2, <2>3, <2>5 DEF Fits
  <2>8. Numbers'
    BY <1>1, <2>1, <2>3, <2>5 DEF IInv, Numbers
  <2> QED BY <1>1, <1>4, <2>3, <2>4, <2>5, <2>6, <2>7, <2>8, SavesIInv
<1>5. ASSUME NEW v, NEW w, Saves(c, "kubeDaemons", v, w),
             \/ v = file.kubeDaemons \cup {Connection}
                  /\ w = [want EXCEPT !.kube = want.kube \cup {Connection}]
             \/ v = {} /\ w = [want EXCEPT !.kube = {}]
      PROVE  IInv'
  <2>1. file' = [file EXCEPT !.kubeDaemons = v] /\ want' = w
    BY <1>5 DEF Saves
  <2>2. /\ v \in SUBSET Key /\ (Known(file.kubeDaemons) = want.kube => Known(v) = w.kube)
        /\ Untyped \notin file.kubeDaemons => Untyped \notin v
    <3>1. CASE v = {} /\ w = [want EXCEPT !.kube = {}]
      BY <1>1, <3>1, KnownAs DEF Settings
    <3>2. CASE v = file.kubeDaemons \cup {Connection}
                 /\ w = [want EXCEPT !.kube = want.kube \cup {Connection}]
      <4>1. w.kube = want.kube \cup {Connection} BY <1>1, <3>2 DEF Settings
      <4>2. Known(v) = Known(file.kubeDaemons) \cup {Connection} BY <3>2, KnownAs
      <4> QED BY <1>2, <3>2, <4>1, <4>2
    <3> QED BY <1>5, <3>1, <3>2
  <2>3. /\ w \in Settings /\ w.db = want.db /\ w.secure = want.secure /\ w.groups = want.groups
        /\ w.me = want.me /\ w.keys = want.keys /\ w.ports = want.ports
    BY <1>1, <1>2, <1>5 DEF Settings
  <2>4. file' \in File
    BY <1>1, <2>1, <2>2 DEF File
  <2>5. /\ file'.kubeDaemons = v /\ file'.globalKubeConfig = file.globalKubeConfig
             /\ file'.dbDaemons = file.dbDaemons
        /\ file'.whoami = file.whoami /\ file'.mrtap = file.mrtap /\ file'.ports = file.ports
        /\ file'.stamp = file.stamp /\ file'.dbConfig = file.dbConfig
             /\ file'.keySplitting = file.keySplitting
        /\ file'.kubeConfig = file.kubeConfig /\ file'.web = file.web
    BY <1>1, <2>1 DEF File
  <2>6. Modern(file) => Modern(file')
    BY <2>2, <2>5 DEF Modern
  <2>7. Fits(file, want) => Fits(file', w)
    BY <2>2, <2>3, <2>5 DEF Fits
  <2>8. Numbers'
    BY <1>1, <2>1, <2>3, <2>5 DEF IInv, Numbers
  <2> QED BY <1>1, <1>5, <2>3, <2>4, <2>5, <2>6, <2>7, <2>8, SavesIInv
<1> QED BY <1>3, <1>4, <1>5

\* The keys of a service account are deleted and made.
LEMMA KeysIInv ==
  ASSUME IInv, NEW c \in Cmd, LogsOut(c) \/ MakesKeys(c)
  PROVE  IInv'
<1>1. PICK b \in BOOLEAN, at \in {"keyless", "keyed"} :
        file' = [file EXCEPT !.mrtap = b] /\ want' = [want EXCEPT !.keys = b] /\ Goto(c, at)
  BY DEF LogsOut, MakesKeys
<1>2. /\ pc[c] \notin {"idle", "upgrading"} /\ Shape /\ file \in File /\ want \in Settings
      /\ todo' = todo /\ writes' = writes /\ about' = about /\ seen' = seen /\ excuse' = excuse
  BY DEF LogsOut, MakesKeys, IInv, Shape
<1>3. file' \in File
  BY <1>1, <1>2 DEF File
<1>4. /\ want' \in Settings /\ want'.db = want.db /\ want'.kube = want.kube
           /\ want'.secure = want.secure
      /\ want'.groups = want.groups /\ want'.me = want.me /\ want'.keys = b
           /\ want'.ports = want.ports
  BY <1>1, <1>2 DEF Settings
<1>5. /\ file'.mrtap = b /\ file'.globalKubeConfig = file.globalKubeConfig
           /\ file'.dbDaemons = file.dbDaemons
      /\ file'.kubeDaemons = file.kubeDaemons /\ file'.whoami = file.whoami
           /\ file'.ports = file.ports
      /\ file'.stamp = file.stamp /\ file'.dbConfig = file.dbConfig
           /\ file'.keySplitting = file.keySplitting
      /\ file'.kubeConfig = file.kubeConfig /\ file'.web = file.web
  BY <1>1, <1>2 DEF File
<1>6. at \in Place \ {"upgrading"} /\ Holds(c)'
  <2>1. at \in Free BY DEF Free
  <2> QED BY <1>1, <1>2, <2>1, Freely
<1>7. Shape'
  BY <1>1, <1>2, <1>3, <1>4, <1>6, GoShape DEF Shape
<1>8. Modern(file) => Modern(file')
  BY <1>5 DEF Modern
<1>9. Fits(file, want) => Fits(file', want')
  BY <1>4, <1>5 DEF Fits
<1>10. Numbers'
  BY <1>2, <1>4, <1>5 DEF IInv, Numbers
<1> QED BY <1>1, <1>2, <1>4, <1>5, <1>6, <1>7, <1>8, <1>9, <1>10, ChangesIInv

\* The data for MrTAP is written back as it was loaded, with what certificates need.
LEMMA CertifyIInv ==
  ASSUME IInv, NEW c \in Cmd, Certify(c)
  PROVE  IInv'
<1>1. CASE Stops(c)
  BY <1>1, StopsIInv DEF Certify, Stops
<1>2. CASE Runs(c) /\ file' = [file EXCEPT !.mrtap = seen[c].mrtap]
           /\ excuse' = excuse \cup (IF seen[c].mrtap # file.mrtap THEN {"keys"} ELSE {})
  <2>1. /\ Shape /\ Goto(c, "running") /\ todo' = todo /\ writes' = writes /\ about' = about
        /\ want' = want /\ seen' = [seen EXCEPT ![c] = None]
        /\ file \in File /\ want \in Settings /\ pc[c] = "certifying"
    BY <1>2 DEF IInv, Shape, Runs, Certify
  <2>2. /\ DOMAIN about' = Cmd /\ DOMAIN seen' = Cmd
        /\ \A d \in Cmd \ {c} : about'[d] = about[d] /\ seen'[d] = seen[d]
    BY <2>1 DEF Shape
  <2>3. PICK b : b = seen[c].mrtap
    OBVIOUS
  <2>4. b \in BOOLEAN
    <3>1. Holds(c) BY <2>1 DEF Shape
    <3> QED BY <2>1, <2>3, <3>1 DEF Holds, Checking, Loaded
  <2>5. file' = [file EXCEPT !.mrtap = b] /\ (KeysSure' => b = file.mrtap)
    BY <1>2, <2>3 DEF KeysSure
  <2>6. file' \in File
    BY <2>1, <2>4, <2>5 DEF File
  <2>7. /\ file'.mrtap = b /\ file'.globalKubeConfig = file.globalKubeConfig
             /\ file'.dbDaemons = file.dbDaemons
        /\ file'.kubeDaemons = file.kubeDaemons /\ file'.whoami = file.whoami
             /\ file'.ports = file.ports
        /\ file'.stamp = file.stamp /\ file'.dbConfig = file.dbConfig
             /\ file'.keySplitting = file.keySplitting
        /\ file'.kubeConfig = file.kubeConfig /\ file'.web = file.web
    BY <2>1, <2>5 DEF File
  <2>8. "running" \in Place \ {"upgrading"} /\ Holds(c)'
    <3>1. "running" \in Free BY DEF Free
    <3> QED BY <2>1, <3>1, Freely
  <2>9. Shape'
    BY <2>1, <2>2, <2>6, <2>8, GoShape
  <2>10. Modern(file) => Modern(file')
    BY <2>7 DEF Modern
  <2>11. Fits(file, want) => Fits(file', want')
    BY <2>1, <2>7 DEF Fits
  <2>12. Numbers'
    <3>1. excuse \subseteq excuse' BY <1>2
    <3> QED BY <2>1, <2>7, <3>1 DEF IInv, Numbers
  <2>13. KeysSure' /\ file.mrtap = want.keys => file'.mrtap = want'.keys
    BY <2>1, <2>5, <2>7
  <2>14. excuse \subseteq excuse'
         /\ \A d \in Cmd \ {c} : todo'[d] = todo[d] /\ writes'[d] = writes[d]
    BY <1>2, <2>1
  <2> QED BY <2>1, <2>7, <2>8, <2>9, <2>10, <2>11, <2>12, <2>13, <2>14, ChangesIInv
<1> QED BY <1>1, <1>2 DEF Certify

\* What is kept for kube daemons is read, and written back with a certificate.
LEMMA ReadSecurityIInv ==
  ASSUME IInv, NEW c \in Cmd, ReadSecurity(c)
  PROVE  IInv'
<1>1. CASE Passes(c, "secured")
  <2>1. pc[c] = "running" /\ "secured" \in Free \cup Checking /\ "secured" \notin Checking
    BY DEF ReadSecurity, Free, Checking
  <2> QED BY <1>1, <2>1, PassesIInv
<1>2. CASE ~Passes(c, "secured")
  <2>1. /\ Shape /\ pc[c] = "running" /\ Goto(c, "securing") /\ todo' = todo /\ writes' = writes
        /\ file' = file /\ want' = want /\ excuse' = excuse /\ about' = about
        /\ seen' = [seen EXCEPT ![c] = file.globalKubeConfig]
    BY <1>2 DEF IInv, ReadSecurity
  <2>2. /\ seen'[c] = file.globalKubeConfig /\ DOMAIN about' = Cmd /\ DOMAIN seen' = Cmd
        /\ \A d \in Cmd \ {c} : seen'[d] = seen[d]
    BY <2>1 DEF Shape
  <2>3. seen'[c] \in Secure
    BY <2>1, <2>2 DEF Shape, File, Secure
  <2>4. pc'[c] = "securing" /\ "securing" \in Place \ {"upgrading"}
    BY <2>1 DEF Goto, Shape, Place
  <2>5. Holds(c)'
    BY <2>3, <2>4 DEF Holds, Checking
  <2>6. Shape'
    BY <2>1, <2>2, <2>4, <2>5, GoShape DEF Shape
  <2> QED BY <2>1, <2>4, <2>6, StandsIInv
<1> QED BY <1>1, <1>2

LEMMA SaveSecurityIInv ==
  ASSUME IInv, NEW c \in Cmd, SaveSecurity(c)
  PROVE  IInv'
<1>1. /\ Shape /\ Goto(c, "secured") /\ todo' = todo /\ writes' = writes /\ about' = about
      /\ want' = [want EXCEPT !.secure = TRUE] /\ seen' = [seen EXCEPT ![c] = None]
      /\ file \in File /\ want \in Settings /\ pc[c] = "securing"
      /\ excuse' = excuse \cup
           (IF seen[c].groups # file.globalKubeConfig.groups THEN {"groups"} ELSE {})
  BY DEF IInv, Shape, SaveSecurity
<1>2. /\ DOMAIN about' = Cmd /\ DOMAIN seen' = Cmd
      /\ \A d \in Cmd \ {c} : about'[d] = about[d] /\ seen'[d] = seen[d]
  BY <1>1 DEF Shape
<1>3. PICK s, v : s = seen[c] /\ v = [s EXCEPT !.secure = TRUE]
  OBVIOUS
<1>4. s \in Secure
  <2>1. Holds(c) BY <1>1 DEF Shape
  <2> QED BY <1>1, <1>3, <2>1 DEF Holds
<1>5. v \in Secure /\ v.secure = TRUE /\ v.groups = s.groups
  BY <1>3, <1>4 DEF Secure
<1>6. file' = [file EXCEPT !.globalKubeConfig = v]
  BY <1>3 DEF SaveSecurity
<1>7. "groups" \notin excuse' => s.groups = file.globalKubeConfig.groups
  BY <1>1, <1>3
<1>8. file' \in File
  BY <1>1, <1>5, <1>6 DEF File, Secure
<1>9. /\ want' \in Settings /\ want'.db = want.db /\ want'.kube = want.kube
      /\ want'.secure = TRUE /\ want'.groups = want.groups /\ want'.me = want.me
      /\ want'.keys = want.keys /\ want'.ports = want.ports
  BY <1>1 DEF Settings
<1>10. /\ file'.globalKubeConfig = v /\ file'.dbDaemons = file.dbDaemons
            /\ file'.kubeDaemons = file.kubeDaemons
       /\ file'.whoami = file.whoami /\ file'.mrtap = file.mrtap /\ file'.ports = file.ports
       /\ file'.stamp = file.stamp /\ file'.dbConfig = file.dbConfig
            /\ file'.keySplitting = file.keySplitting
       /\ file'.kubeConfig = file.kubeConfig /\ file'.web = file.web
  BY <1>1, <1>6 DEF File
<1>11. "secured" \in Place \ {"upgrading"} /\ Holds(c)'
  <2>1. "secured" \in Free BY DEF Free
  <2> QED BY <1>1, <2>1, Freely
<1>12. Shape'
  BY <1>1, <1>2, <1>8, <1>9, <1>11, GoShape
<1>13. Modern(file) => Modern(file')
  BY <1>10 DEF Modern
<1>14. Fits(file, want) => Fits(file', want')
  BY <1>5, <1>9, <1>10 DEF Fits
<1>15. excuse \subseteq excuse' /\ \A d \in Cmd \ {c} : todo'[d] = todo[d] /\ writes'[d] = writes[d]
  BY <1>1
<1>16. Numbers'
  BY <1>9, <1>10, <1>15 DEF IInv, Numbers
<1>17. "groups" \notin excuse' /\ file.globalKubeConfig.groups = want.groups
         => file'.globalKubeConfig.groups = want'.groups
  BY <1>5, <1>7, <1>9, <1>10
<1>18. KeysSure' /\ file.mrtap = want.keys => file'.mrtap = want'.keys
  BY <1>9, <1>10
<1> QED BY <1>1, <1>11, <1>12, <1>13, <1>14, <1>15, <1>16, <1>17, <1>18, ChangesIInv

LEMMA LogsInIInv ==
  ASSUME IInv, NEW c \in Cmd, LogsIn(c)
  PROVE  IInv'
<1>1. pc[c] \notin {"idle", "upgrading"} /\ excuse' = excuse /\ file \in File /\ want \in Settings
  BY DEF LogsIn, IInv, Shape
<1>2. PICK w : w = [want EXCEPT !.me = TRUE] /\ Saves(c, "whoami", Typed, w)
  BY DEF LogsIn
<1>3. file' = [file EXCEPT !.whoami = Typed] /\ want' = w
  BY <1>2 DEF Saves
<1>4. /\ w \in Settings /\ w.db = want.db /\ w.kube = want.kube /\ w.secure = want.secure
      /\ w.groups = want.groups /\ w.me = TRUE /\ w.keys = want.keys /\ w.ports = want.ports
  BY <1>1, <1>2 DEF Settings
<1>5. file' \in File
  BY <1>1, <1>3 DEF File
<1>6. /\ file'.whoami = Typed /\ file'.globalKubeConfig = file.globalKubeConfig
           /\ file'.dbDaemons = file.dbDaemons
      /\ file'.kubeDaemons = file.kubeDaemons /\ file'.mrtap = file.mrtap
           /\ file'.ports = file.ports
      /\ file'.stamp = file.stamp /\ file'.dbConfig = file.dbConfig
           /\ file'.keySplitting = file.keySplitting
      /\ file'.kubeConfig = file.kubeConfig /\ file'.web = file.web
  BY <1>1, <1>3 DEF File
<1>7. Typed # Untyped /\ Typed # None
  BY ConfigurationAssumption DEF Typed, Untyped
<1>8. Modern(file) => Modern(file')
  BY <1>6, <1>7 DEF Modern
<1>9. Fits(file, want) => Fits(file', w)
  BY <1>4, <1>6, <1>7 DEF Fits
<1>10. Numbers'
  BY <1>1, <1>3, <1>4, <1>6 DEF IInv, Numbers
<1> QED BY <1>1, <1>2, <1>4, <1>5, <1>6, <1>8, <1>9, <1>10, SavesIInv

\* A port is saved with all others as they were read: they are what they were.
LEMMA SavePortIInv ==
  ASSUME IInv, NEW c \in Cmd, SavePort(c)
  PROVE  IInv'
<1>1. /\ pc[c] \notin {"idle", "upgrading"} /\ file \in File /\ want \in Settings
      /\ about[c] \in App /\ seen[c] \in Ports
      /\ excuse' = excuse \cup (IF seen[c] # file.ports THEN {"ports"} ELSE {})
  BY DEF SavePort, IInv, Shape, Holds
<1>2. PICK p, a, s, v, w :
        /\ p \in Port /\ a = about[c] /\ s = seen[c] /\ v = [s EXCEPT ![a] = p]
        /\ w = [want EXCEPT !.ports[a] = p] /\ Saves(c, "ports", v, w)
  BY DEF SavePort
<1>3. file' = [file EXCEPT !.ports = v] /\ want' = w
  BY <1>2 DEF Saves
<1>4. v \in Ports
  BY <1>1, <1>2 DEF Ports
<1>5. want.ports \in Ports
  BY <1>1 DEF Settings
<1>6. [want.ports EXCEPT ![a] = p] \in Ports
  BY <1>2, <1>5 DEF Ports
<1>7. /\ w \in Settings /\ w.db = want.db /\ w.kube = want.kube /\ w.secure = want.secure
      /\ w.groups = want.groups /\ w.me = want.me /\ w.keys = want.keys
      /\ w.ports = [want.ports EXCEPT ![a] = p]
  BY <1>1, <1>2, <1>6 DEF Settings
<1>8. file' \in File
  BY <1>1, <1>3, <1>4 DEF File, Ports
<1>9. /\ file'.ports = v /\ file'.globalKubeConfig = file.globalKubeConfig
           /\ file'.dbDaemons = file.dbDaemons
      /\ file'.kubeDaemons = file.kubeDaemons /\ file'.mrtap = file.mrtap
           /\ file'.whoami = file.whoami
      /\ file'.stamp = file.stamp /\ file'.dbConfig = file.dbConfig
           /\ file'.keySplitting = file.keySplitting
      /\ file'.kubeConfig = file.kubeConfig /\ file'.web = file.web
  BY <1>1, <1>3 DEF File
<1>10. Modern(file) => Modern(file')
  BY <1>9 DEF Modern
<1>11. Fits(file, want) => Fits(file', w)
  BY <1>7, <1>9 DEF Fits
<1>12. Numbers'
  <2> SUFFICES ASSUME "ports" \notin excuse' PROVE file'.ports = want'.ports
    BY DEF Numbers
  <2>1. s = file.ports /\ file.ports = want.ports
    BY <1>1, <1>2 DEF IInv, Numbers
  <2> QED BY <1>2, <1>3, <1>7, <1>9, <2>1
<1> QED BY <1>1, <1>2, <1>7, <1>8, <1>9, <1>10, <1>11, <1>12, SavesIInv

-----------------------------------------------------------------------------
(* Every step, and what follows *)

LEMMA StepIInv == IInv /\ [Next]_vars => IInv'
<1> SUFFICES ASSUME IInv, [Next]_vars PROVE IInv'
  OBVIOUS
<1>1. CASE Next
  <2>1. PICK c \in Cmd : CmdStep(c)
    BY <1>1 DEF Next
  <2>2. CASE \E k \in Kind : Begin(c, k)
    BY <2>2, BeginIInv
  <2>3. CASE Migrate(c)
    BY <2>3, MigrateIInv
  <2>4. CASE Write(c)
    BY <2>4, WriteIInv
  <2>5. CASE Kill(c)
    BY <2>5, KillIInv
  <2>6. CASE Track(c) \/ Authorize(c) \/ Admit(c) \/ Returns(c)
    BY <2>6, ChecksIInv
  <2>7. CASE DefaultTargetGroup(c)
    BY <2>7, DefaultTargetGroupIInv
  <2>8. CASE AddDaemon(c) \/ Disconnect(c)
    BY <2>8, DaemonsIInv
  <2>9. CASE LogsOut(c) \/ MakesKeys(c)
    BY <2>9, KeysIInv
  <2>10. CASE LogsIn(c)
    BY <2>10, LogsInIInv
  <2>11. CASE ReadPorts(c)
    BY <2>11, ReadPortsIInv
  <2>12. CASE SavePort(c)
    BY <2>12, SavePortIInv
  <2>13. CASE AskTargets(c) \/ MakeFile(c) \/ OpenSsh(c) \/ WriteSsh(c) \/ RemoveFile(c)
    BY <2>13, SshIInv
  <2>14. CASE Load(c)
    BY <2>14, LoadIInv
  <2>15. CASE Certify(c)
    BY <2>15, CertifyIInv
  <2>16. CASE ReadSecurity(c)
    BY <2>16, ReadSecurityIInv
  <2>17. CASE SaveSecurity(c)
    BY <2>17, SaveSecurityIInv
  <2> QED BY <2>1, <2>2, <2>3, <2>4, <2>5, <2>6, <2>7, <2>8, <2>9, <2>10, <2>11, <2>12,
        <2>13, <2>14, <2>15, <2>16, <2>17 DEF CmdStep
<1>2. CASE UNCHANGED vars
  <2>1. /\ file' = file /\ want' = want /\ pc' = pc /\ todo' = todo /\ writes' = writes
             /\ about' = about
        /\ seen' = seen /\ excuse' = excuse
    BY <1>2 DEF vars, command
  <2>2. Shape' BY <2>1 DEF IInv, Shape, Holds
  <2>3. ASSUME "upgrades" \notin excuse' PROVE Upgraded'
    <3>1. Upgraded BY <2>1, <2>3 DEF IInv
    <3>2. Turn' BY <2>1, <3>1 DEF Upgraded, Turn
    <3>3. Working'
      <4> SUFFICES ASSUME NEW d \in Cmd, pc'[d] = "upgrading"
                   PROVE  /\ Right(writes[d], Begun(d), todo[d] = <<>>)'
                          /\ "killed" \notin excuse' => KeysKept(Begun(d), Fields(writes[d]))'
        BY DEF Working
      <4>1. Begun(d)' = Begun(d) /\ writes'[d] = writes[d] /\ todo'[d] = todo[d]
        BY <2>1 DEF Begun
      <4>2. Right(writes[d], Begun(d), todo[d] = <<>>)
            /\ ("killed" \notin excuse => KeysKept(Begun(d), Fields(writes[d])))
        BY <2>1, <3>1 DEF Upgraded, Working
      <4>3. Right(writes[d], Begun(d), todo[d] = <<>>)'
        BY <2>1, <4>1, <4>2, RightStays
      <4> QED BY <2>1, <4>1, <4>2, <4>3, FileStays DEF Fields, KeysKept
    <3>4. Schema(Start, {})' /\ Resting' /\ Faithful'
      BY <2>1, <3>1, FileStays DEF Upgraded, Resting, Faithful, Match, KeysSure
    <3> QED BY <3>2, <3>3, <3>4 DEF Upgraded
  <2>4. Numbers' BY <2>1 DEF IInv, Numbers
  <2> QED BY <2>2, <2>3, <2>4 DEF IInv
<1> QED BY <1>1, <1>2

LEMMA AlwaysIInv == Spec => []IInv
  BY InitIInv, StepIInv, PTL DEF Spec

\* Settings are what handlers made them, through all the migrations of an upgrade
\* and each of its writes, wherever commands stop or are killed: NodeConf's migrations,
\* the checks and the handlers that write.  The exceptions are those of SettingsKept:
\* overlapping upgrades; keys after a kill or an overlapping logout or login; groups
\* and ports after a write of what was read before they changed.
THEOREM SettingsKeptAlways == Spec => []SettingsKept
<1>1. IInv => SettingsKept
  <2> SUFFICES ASSUME IInv PROVE SettingsKept
    OBVIOUS
  <2>1. PICK e : e = Effective
    OBVIOUS
  <2>2. "upgrades" \notin excuse =>
          /\ Match(e, want)
          /\ "groups" \notin excuse => e.groups = want.groups
          /\ "killed" \notin excuse /\ "keys" \notin excuse => e.keys = want.keys
    BY <2>1 DEF IInv, Upgraded, Faithful, KeysSure
  <2>4. e.ports = file.ports
    BY <2>1 DEF Effective
  <2>5. "ports" \notin excuse => e.ports = want.ports
    BY <2>4 DEF IInv, Numbers
  <2>6. /\ {"upgrades"} \cap excuse = {} => "upgrades" \notin excuse
        /\ {"upgrades", "groups"} \cap excuse = {}
             => "upgrades" \notin excuse /\ "groups" \notin excuse
        /\ {"upgrades", "killed", "keys"} \cap excuse = {}
             => "upgrades" \notin excuse /\ "killed" \notin excuse /\ "keys" \notin excuse
        /\ {"ports"} \cap excuse = {} => "ports" \notin excuse
    OBVIOUS
  <2>7. {"upgrades"} \cap excuse = {} =>
          e.db = want.db /\ e.kube = want.kube /\ e.secure = want.secure /\ e.me = want.me
    BY <2>2, <2>6 DEF Match
  <2>8. {"upgrades", "groups"} \cap excuse = {} => e.groups = want.groups
    BY <2>2, <2>6
  <2>9. {"upgrades", "killed", "keys"} \cap excuse = {} => e.keys = want.keys
    BY <2>2, <2>6
  <2>10. {"ports"} \cap excuse = {} => e.ports = want.ports
    BY <2>5, <2>6
  <2> QED BY <2>1, <2>7, <2>8, <2>9, <2>10, Zenon DEF SettingsKept
<1> QED BY <1>1, AlwaysIInv, PTL

\* A command past the upgrade finds nothing of an older schema, also when an
\* upgrade that was killed has been taken up, at whatever write that was.
THEOREM NewSchemaOnlyAlways == Spec => []NewSchemaOnly
<1>1. IInv => NewSchemaOnly
  <2> SUFFICES ASSUME IInv, "upgrades" \notin excuse, NEW c \in Cmd, pc[c] \notin {"idle",
                        "upgrading"}
               PROVE  /\ ~file.dbConfig /\ ~file.keySplitting /\ file.kubeConfig = None
                      /\ file.web = Typed /\ file.whoami # Untyped
                           /\ Untyped \notin file.kubeDaemons
    BY DEF NewSchemaOnly
  <2>1. file \in File /\ Upgraded BY DEF IInv, Shape
  <2>2. file.stamp = Current BY <2>1 DEF Upgraded, Turn
  <2>3. Modern(file) BY <2>1, <2>2, ModernFile DEF Upgraded
  <2> QED BY <2>3 DEF Modern
<1> QED BY <1>1, AlwaysIInv, PTL

-----------------------------------------------------------------------------
(* Texts: what is cut out of them and put before them *)

\* What the user's ssh configuration is made of.
Piece == Path \cup {Description, Note, "own"}

\* A piece is not there twice.
AtMostOnce(text, piece) == \A i, j \in 1..Len(text) : text[i] = piece /\ text[j] = piece => i = j

\* A piece is not among those after the a-th and before the b-th.
Spares(text, a, b, x) == \A i \in a + 1..b - 1 : text[i] # x

\* It is not there at all.
Absent(text, x) == \A i \in 1..Len(text) : text[i] # x

\* A text, and what is left of it once the pieces after the a-th and before the b-th
\* are cut out.
IsCut(text, a, b, t) ==
  /\ t \in Seq(Piece) /\ Len(t) = a + (Len(text) + 1 - b)
  /\ \A i \in 1..a + (Len(text) + 1 - b) : t[i] = IF i <= a THEN text[i] ELSE text[i + (b - 1 - a)]

LEMMA CutText ==
  ASSUME NEW text \in Seq(Piece), NEW a \in Nat, NEW b \in Nat, a < b, b <= Len(text) + 1
  PROVE  IsCut(text, a, b, SubSeq(text, 1, a) \o SubSeq(text, b, Len(text)))
<1>a. PICK n \in Nat : n = Len(text)
  OBVIOUS
<1>b. PICK s1, s2 : s1 = SubSeq(text, 1, a) /\ s2 = SubSeq(text, b, n)
  BY Zenon
<1>0. n = Len(text) /\ s1 = SubSeq(text, 1, a) /\ s2 = SubSeq(text, b, n)
  BY <1>a, <1>b
<1>1. \A i \in 1..n : text[i] \in Piece
  BY <1>0, ElementOfSeq
<1>2. s1 \in Seq(Piece) /\ Len(s1) = a /\ \A i \in 1..a : s1[i] = text[i]
  BY <1>0, <1>1, SubSeqProperties
<1>3. /\ s2 \in Seq(Piece) /\ Len(s2) = n + 1 - b
      /\ \A i \in 1..n + 1 - b : s2[i] = text[b + i - 1]
  BY <1>0, <1>1, SubSeqProperties
<1>4. PICK m \in Nat : m = n + 1 - b
  BY <1>0
<1>5. PICK t : t = s1 \o s2
  OBVIOUS
<1>6. /\ t \in Seq(Piece) /\ Len(t) = a + m
      /\ \A i \in 1..a + m : t[i] = IF i <= a THEN s1[i] ELSE s2[i - a]
  <2>1. Len(s1) = a /\ Len(s2) = m
    BY <1>2, <1>3, <1>4
  <2>2. /\ t \in Seq(Piece) /\ Len(t) = Len(s1) + Len(s2)
        /\ \A i \in 1..Len(s1) + Len(s2) : t[i] = IF i <= Len(s1) THEN s1[i] ELSE s2[i - Len(s1)]
    BY <1>2, <1>3, <1>5, ConcatProperties, Zenon
  <2> QED BY <2>1, <2>2, Zenon
<1>7. \A i \in 1..a + m : t[i] = IF i <= a THEN text[i] ELSE text[i + (b - 1 - a)]
  <2> TAKE i \in 1..a + m
  <2>1. CASE i <= a
    BY <1>2, <1>6, <2>1
  <2>2. CASE ~(i <= a)
    <3>1. i - a \in 1..n + 1 - b /\ b + (i - a) - 1 = i + (b - 1 - a)
      BY <1>4, <2>2
    <3> QED BY <1>3, <1>6, <2>2, <3>1
  <2> QED BY <2>1, <2>2
<1> QED BY <1>0, <1>4, <1>5, <1>6, <1>7 DEF IsCut

\* A cut makes nothing occur twice, and keeps what it spares.
LEMMA CutKeeps ==
  ASSUME NEW text, NEW t, NEW n \in Nat, Len(text) = n,
         NEW a \in Nat, NEW b \in Nat, a < b, b <= n + 1, IsCut(text, a, b, t), NEW x
  PROVE  /\ AtMostOnce(text, x) => AtMostOnce(t, x)
         /\ Once(text, x) /\ Spares(text, a, b, x) => Once(t, x)
<1>1. PICK m \in Nat : m = a + (n + 1 - b)
  OBVIOUS
<1>2. Len(t) = m /\ \A i \in 1..m : t[i] = IF i <= a THEN text[i] ELSE text[i + (b - 1 - a)]
  BY <1>1 DEF IsCut
<1>3. ASSUME AtMostOnce(text, x) PROVE AtMostOnce(t, x)
  <2> SUFFICES ASSUME NEW i \in 1..m, NEW j \in 1..m, t[i] = x, t[j] = x PROVE i = j
    BY <1>2 DEF AtMostOnce
  <2>1. PICK k \in 1..n : text[k] = x /\ k = IF i <= a THEN i ELSE i + (b - 1 - a)
    BY <1>1, <1>2
  <2>2. PICK l \in 1..n : text[l] = x /\ l = IF j <= a THEN j ELSE j + (b - 1 - a)
    BY <1>1, <1>2
  <2>3. k = l
    BY <1>3, <2>1, <2>2 DEF AtMostOnce
  <2> QED BY <2>1, <2>2, <2>3
<1>4. ASSUME Once(text, x), Spares(text, a, b, x) PROVE Once(t, x)
  <2>1. PICK i \in 1..n : \A j \in 1..n : text[j] = x <=> i = j
    BY <1>4 DEF Once
  <2>0. text[i] = x
    BY <2>1
  <2>2. ~(i \in a + 1..b - 1)
    BY <1>4, <2>0, Zenon DEF Spares
  <2>3. i <= a \/ i >= b
    BY <2>2
  <2>4. PICK k : k = IF i <= a THEN i ELSE i - (b - 1 - a)
    OBVIOUS
  <2>6. i >= b => i - (b - 1 - a) \in 1..m
    BY <1>1
  <2>7. k \in 1..m
    BY <1>1, <2>3, <2>4, <2>6
  <2>5. ASSUME NEW j \in 1..m PROVE t[j] = x <=> k = j
    <3>0. PICK l : l = IF j <= a THEN j ELSE j + (b - 1 - a)
      OBVIOUS
    <3>1. l \in 1..n
      BY <1>1, <3>0
    <3>2. t[j] = text[l]
      BY <1>2, <3>0
    <3>3. i = l <=> k = j
      BY <2>3, <2>4, <3>0
    <3> QED BY <2>1, <3>1, <3>2, <3>3, Zenon
  <2> QED BY <1>2, <2>5, <2>7 DEF Once
<1> QED BY <1>3, <1>4

\* A set of numbers has a least one, which is what CHOOSE and Min then take.
LEMMA Least ==
  ASSUME NEW T \in SUBSET Nat, T # {}
  PROVE  \E x \in T : \A y \in T : x <= y
<1>1. PICK R : R = OpToRel(<, Nat)
  BY Zenon
<1>2. IsWellFoundedOn(R, Nat)
  BY <1>1, NatLessThanWellFounded
<1>3. PICK x \in T : \A y \in T : <<y, x>> \notin R
  BY <1>2, WFMin
<1>4. R = {ss \in Nat \X Nat : ss[1] < ss[2]}
  BY <1>1, Zenon DEF OpToRel
<1>5. \A y \in T : y < x => <<y, x>> \in R
  BY <1>4
<1>6. \A y \in T : ~(y < x)
  BY <1>3, <1>5
<1> QED BY <1>6

\* RemoveFirst takes out one piece, or finds none.
LEMMA RemoveFirstCuts ==
  ASSUME NEW text \in Seq(Piece), NEW x
  PROVE  \/ ~Includes(text, x) /\ RemoveFirst(text, x) = text
         \/ \E i \in 1..Len(text) : text[i] = x /\ IsCut(text, i - 1, i + 1, RemoveFirst(text, x))
<1>1. CASE ~\E i \in 1..Len(text) : text[i] = x
  BY <1>1 DEF RemoveFirst, Includes, ToSet
<1>2. CASE \E i \in 1..Len(text) : text[i] = x
  <2>0. PICK n \in Nat : n = Len(text)
    OBVIOUS
  <2>a. PICK T : T = {j \in 1..n : text[j] = x}
    OBVIOUS
  <2>b. T \in SUBSET Nat
    BY <2>a
  <2>1. T = {j \in 1..n : text[j] = x} /\ T \in SUBSET Nat /\ T # {}
    BY <1>2, <2>0, <2>a, <2>b
  <2>2. PICK i : i = Min(T)
    OBVIOUS
  <2>3. i \in T
    <3>1. \E k \in T : \A l \in T : k <= l
      BY <2>1, Least
    <3> QED BY <2>2, <3>1, Zenon DEF Min
  <2>4. i \in 1..n /\ text[i] = x
    BY <2>1, <2>3
  <2>5. SelectInSeq(text, LAMBDA v : v = x) = i
    BY <2>0, <2>1, <2>2, Zenon DEF SelectInSeq
  <2>6. RemoveFirst(text, x) = SubSeq(text, 1, i - 1) \o SubSeq(text, i + 1, Len(text))
    BY <1>2, <2>5, Zenon DEF RemoveFirst, RemoveAt
  <2>7. /\ i - 1 \in Nat /\ i + 1 \in Nat /\ i - 1 < i + 1 /\ i + 1 <= Len(text) + 1
        /\ i \in 1..Len(text)
    BY <2>0, <2>4
  <2>8. IsCut(text, i - 1, i + 1, RemoveFirst(text, x))
    BY <2>6, <2>7, CutText
  <2> QED BY <2>4, <2>7, <2>8
<1> QED BY <1>1, <1>2

\* What a cut leaves was there, and what was there once and is cut out is gone.
LEMMA CutLeaves ==
  ASSUME NEW text, NEW t, NEW n \in Nat, Len(text) = n,
         NEW a \in Nat, NEW b \in Nat, a < b, b <= n + 1, IsCut(text, a, b, t), NEW x
  PROVE  /\ Absent(text, x) => Absent(t, x)
         /\ AtMostOnce(text, x) /\ ~Spares(text, a, b, x) => Absent(t, x)
<1>1. PICK m \in Nat : m = a + (n + 1 - b)
  OBVIOUS
<1>2. Len(t) = m /\ \A i \in 1..m : t[i] = IF i <= a THEN text[i] ELSE text[i + (b - 1 - a)]
  BY <1>1 DEF IsCut
<1>3. \A j \in 1..m : \E k \in 1..n : t[j] = text[k] /\ ~(k \in a + 1..b - 1)
  <2> TAKE j \in 1..m
  <2>1. CASE j <= a
    <3>1. j \in 1..n /\ ~(j \in a + 1..b - 1) /\ t[j] = text[j]
      BY <1>2, <2>1
    <3> QED BY <3>1, Zenon
  <2>2. CASE ~(j <= a)
    <3>1. PICK k : k = j + (b - 1 - a)
      OBVIOUS
    <3>2. k \in 1..n /\ ~(k \in a + 1..b - 1) /\ t[j] = text[k]
      BY <1>1, <1>2, <2>2, <3>1
    <3> QED BY <3>2, Zenon
  <2> QED BY <2>1, <2>2
<1>4. ASSUME AtMostOnce(text, x), NEW i \in a + 1..b - 1, text[i] = x,
             NEW k \in 1..n, ~(k \in a + 1..b - 1)
      PROVE text[k] # x
  <2>1. i \in 1..n
    OBVIOUS
  <2>2. i # k
    BY <1>4
  <2> QED BY <1>4, <2>1, <2>2 DEF AtMostOnce
<1> QED BY <1>2, <1>3, <1>4, Zenon DEF Absent, Spares

\* A text that others can go on with: the user's own piece is there, and once,
\* nothing that may be taken out again is twice, and what is linked is included.
Good(text, paths) ==
  /\ text \in Seq(Piece)
  /\ Once(text, "own") /\ AtMostOnce(text, Note)
  /\ \A p \in Path : AtMostOnce(text, p)
  /\ \A p \in paths : Once(text, p)

\* A cut that spares what is still linked leaves a good text.
LEMMA CutGood ==
  ASSUME NEW text, NEW t, NEW before \in SUBSET Path, NEW after \in SUBSET before,
         Good(text, before),
         NEW a \in Nat, NEW b \in Nat, a < b, b <= Len(text) + 1, IsCut(text, a, b, t),
         Spares(text, a, b, "own"), \A p \in after : Spares(text, a, b, p)
  PROVE  Good(t, after)
<1>1. PICK n \in Nat : n = Len(text)
  BY DEF Good
<1>2. t \in Seq(Piece)
  BY DEF IsCut
<1>3. \A x : /\ AtMostOnce(text, x) => AtMostOnce(t, x)
             /\ Once(text, x) /\ Spares(text, a, b, x) => Once(t, x)
  <2>1. a < b /\ b <= n + 1 /\ Len(text) = n
    BY <1>1
  <2>2. n \in Nat /\ a \in Nat /\ b \in Nat /\ IsCut(text, a, b, t)
    BY <1>1
  <2> TAKE x
  <2> QED BY <2>1, CutKeeps, Zenon
<1>4. Once(t, "own") /\ AtMostOnce(t, Note)
  BY <1>3, Zenon DEF Good
<1>5. \A p \in Path : AtMostOnce(t, p)
  BY <1>3, Zenon DEF Good
<1>6. \A p \in after : Once(t, p)
  BY <1>3, Zenon DEF Good
<1> QED BY <1>2, <1>4, <1>5, <1>6 DEF Good

\* A text with another before it.
IsJoined(pre, text, k, n, t) ==
  /\ t \in Seq(Piece) /\ Len(t) = k + n
  /\ \A i \in 1..k + n : t[i] = IF i <= k THEN pre[i] ELSE text[i - k]

LEMMA Joined ==
  ASSUME NEW pre \in Seq(Piece), NEW text \in Seq(Piece), NEW k \in Nat, NEW n \in Nat,
         Len(pre) = k, Len(text) = n, NEW t, t = pre \o text
  PROVE  IsJoined(pre, text, k, n, t)
<1>1. /\ t \in Seq(Piece) /\ Len(t) = Len(pre) + Len(text)
      /\ \A i \in 1..Len(pre) + Len(text) :
            t[i] = IF i <= Len(pre) THEN pre[i] ELSE text[i - Len(pre)]
  BY ConcatProperties, Zenon
<1> QED BY <1>1, Zenon DEF IsJoined

\* The same for what linkNewConfigFile puts in front.
LEMMA FrontGood ==
  ASSUME NEW text, NEW paths \in SUBSET Path, Good(text, paths), NEW p \in Path,
         Absent(text, p),
         NEW pre, \/ pre = <<Description, p>>
                  \/ pre = <<Description, p, Note>> /\ Absent(text, Note)
  PROVE  Good(pre \o text, paths \cup {p})
<1>1. PICK n \in Nat : n = Len(text)
  BY DEF Good
<1>2. PICK k \in {2, 3} : k = Len(pre)
  OBVIOUS
<1>3. /\ pre[1] = Description /\ pre[2] = p
      /\ k = 3 => pre[3] = Note /\ \A i \in 1..n : text[i] # Note
      /\ pre \in Seq(Piece)
  <2>1. /\ pre[1] = Description /\ pre[2] = p
        /\ k = 3 => pre[3] = Note /\ \A i \in 1..n : text[i] # Note
    BY <1>1, <1>2 DEF Absent
  <2>2. Description \in Piece /\ p \in Piece /\ Note \in Piece
    BY DEF Piece
  <2>3. <<Description, p>> \in Seq(Piece) /\ <<Description, p, Note>> \in Seq(Piece)
    BY <2>2
  <2>4. pre \in Seq(Piece)
    BY <2>3, Zenon
  <2> QED BY <2>1, <2>4
<1>4. /\ p \notin {"own", Description, Note} /\ Description # "own"
      /\ Description # Note /\ Note # "own"
  BY ConfigurationAssumption DEF Description, Note
<1>5. text \in Seq(Piece)
  BY DEF Good
<1>6. PICK t : t = pre \o text
  OBVIOUS
<1>7. /\ t \in Seq(Piece) /\ Len(t) = k + n
      /\ \A i \in 1..k + n : t[i] = IF i <= k THEN pre[i] ELSE text[i - k]
  <2>1. Len(pre) = k /\ Len(text) = n /\ k \in Nat
    BY <1>1, <1>2
  <2>2. IsJoined(pre, text, k, n, t)
    BY <1>3, <1>5, <1>6, <2>1, Joined, Zenon
  <2> QED BY <2>2 DEF IsJoined
<1>8. ASSUME NEW x, \A i \in 1..k : pre[i] # x
      PROVE (AtMostOnce(text, x) => AtMostOnce(t, x)) /\ (Once(text, x) => Once(t, x))
  <2>1. \A i \in 1..k + n : t[i] = x => i - k \in 1..n /\ text[i - k] = x
    BY <1>7, <1>8
  <2>2. ASSUME AtMostOnce(text, x) PROVE AtMostOnce(t, x)
    <3> SUFFICES ASSUME NEW i \in 1..k + n, NEW j \in 1..k + n, t[i] = x, t[j] = x PROVE i = j
      BY <1>7 DEF AtMostOnce
    <3>1. i - k = j - k
      BY <1>1, <2>1, <2>2 DEF AtMostOnce
    <3> QED BY <3>1
  <2>3. ASSUME Once(text, x) PROVE Once(t, x)
    <3>1. PICK i \in 1..n : \A j \in 1..n : text[j] = x <=> i = j
      BY <1>1, <2>3 DEF Once
    <3>2. i + k \in 1..k + n /\ t[i + k] = x
      <4>1. i + k \in 1..k + n /\ ~(i + k <= k) /\ (i + k) - k = i
        OBVIOUS
      <4> QED BY <1>7, <3>1, <4>1
    <3>3. \A j \in 1..k + n : t[j] = x <=> i + k = j
      BY <2>1, <3>1, <3>2
    <3>4. PICK l : l = i + k
      OBVIOUS
    <3>5. l \in 1..Len(t) /\ \A j \in 1..Len(t) : t[j] = x <=> l = j
      BY <1>7, <3>2, <3>3, <3>4, Zenon
    <3> QED BY <3>5, Zenon DEF Once
  <2> QED BY <2>2, <2>3
<1>9. ASSUME NEW i \in 1..k, \A j \in 1..k : pre[j] = pre[i] => i = j,
             \A j \in 1..n : text[j] # pre[i]
      PROVE Once(t, pre[i])
  <2>1. \A j \in 1..k + n : t[j] = pre[i] <=> i = j
    BY <1>7, <1>9
  <2>2. i \in 1..k + n
    OBVIOUS
  <2>3. i \in 1..Len(t) /\ \A j \in 1..Len(t) : t[j] = pre[i] <=> i = j
    BY <1>7, <2>1, <2>2, Zenon
  <2> QED BY <2>3, Zenon DEF Once
<1>10. Once(t, "own")
  BY <1>2, <1>3, <1>4, <1>8 DEF Good
<1>11. \A x : Once(t, x) => AtMostOnce(t, x)
  BY <1>7 DEF Once, AtMostOnce
<1>12. AtMostOnce(t, Note)
  <2>1. CASE k = 2
    BY <2>1, <1>3, <1>4, <1>8 DEF Good
  <2>2. CASE k = 3
    BY <2>2, <1>3, <1>4, <1>9, <1>11
  <2> QED BY <2>1, <2>2
<1>13. Once(t, p)
  BY <1>1, <1>2, <1>3, <1>4, <1>9 DEF Absent
<1>14. ASSUME NEW q \in Path, q # p PROVE AtMostOnce(t, q) /\ (Once(text, q) => Once(t, q))
  <2>1. q \notin {Description, Note}
    BY ConfigurationAssumption
  <2>2. \A i \in 1..k : pre[i] # q
    BY <1>2, <1>3, <1>14, <2>1
  <2> QED BY <1>8, <2>2 DEF Good
<1>15. (\A q \in Path : AtMostOnce(t, q)) /\ \A q \in paths \cup {p} : Once(t, q)
  BY <1>11, <1>13, <1>14 DEF Good
<1> QED BY <1>6, <1>7, <1>10, <1>12, <1>15 DEF Good

LEMMA NotIncluded ==
  ASSUME NEW text \in Seq(Piece), NEW x
  PROVE  ~Includes(text, x) <=> Absent(text, x)
  BY DEF Includes, ToSet, Absent

\* A first occurrence is taken out.
LEMMA RemoveFirstGood ==
  ASSUME NEW text, NEW before \in SUBSET Path, NEW after \in SUBSET before,
         Good(text, before),
         NEW x, AtMostOnce(text, x), x # "own", x \notin after
  PROVE  /\ Good(RemoveFirst(text, x), after) /\ Absent(RemoveFirst(text, x), x)
         /\ \A y : Absent(text, y) => Absent(RemoveFirst(text, x), y)
<1>0. PICK t : t = RemoveFirst(text, x)
  OBVIOUS
<1>1. text \in Seq(Piece)
  BY DEF Good
<1>2. CASE ~Includes(text, x) /\ t = text
  BY <1>0, <1>1, <1>2, NotIncluded DEF Good
<1>3. ASSUME NEW i \in 1..Len(text), text[i] = x, IsCut(text, i - 1, i + 1, t)
      PROVE  Good(t, after) /\ Absent(t, x) /\ \A y : Absent(text, y) => Absent(t, y)
  <2>0. PICK n, a, b : n = Len(text) /\ a = i - 1 /\ b = i + 1
    BY Zenon
  <2>1. n \in Nat /\ a \in Nat /\ b \in Nat /\ a < b /\ b <= n + 1
    BY <1>1, <2>0
  <2>2. Len(text) = n /\ IsCut(text, a, b, t) /\ b <= Len(text) + 1
    BY <1>3, <2>0, <2>1, Zenon
  <2>3. \A j \in a + 1..b - 1 : j = i
    BY <1>1, <2>0
  <2>4. i \in a + 1..b - 1
    BY <1>1, <2>0
  <2>5. ~Spares(text, a, b, x) /\ \A y : y # x => Spares(text, a, b, y)
    BY <1>3, <2>3, <2>4, Zenon DEF Spares
  <2>6. Good(t, after)
    <3>1. Spares(text, a, b, "own") /\ \A p \in after : Spares(text, a, b, p)
      BY <2>5, Zenon
    <3> QED BY <2>1, <2>2, <3>1, CutGood, Zenon
  <2>7. Absent(t, x)
    BY <2>1, <2>2, <2>5, CutLeaves, Zenon
  <2>8. \A y : Absent(text, y) => Absent(t, y)
    BY <2>1, <2>2, CutLeaves, Zenon
  <2> QED BY <2>6, <2>7, <2>8
<1> QED BY <1>0, <1>1, <1>2, <1>3, RemoveFirstCuts, Zenon

LEMMA GoodPath ==
  ASSUME NEW text, NEW paths \in SUBSET Path, Good(text, paths), NEW p \in Path
  PROVE  /\ text \in Seq(Piece) /\ AtMostOnce(text, p) /\ AtMostOnce(text, Note)
         /\ p # "own" /\ p # Description /\ p # Note
         /\ Note # "own" /\ Description # "own" /\ Note # Description
  BY ConfigurationAssumption DEF Good, Description, Note

\* linkNewConfigFile leaves the user's own, and has a path in it, and once.
LEMMA LinkedGood ==
  ASSUME NEW text, NEW paths \in SUBSET Path, Good(text, paths), NEW p \in Path
  PROVE  Good(Linked(text, p), paths \cup {p})
<1>0. /\ text \in Seq(Piece) /\ AtMostOnce(text, p) /\ p # "own" /\ p # Note
  BY GoodPath
<1>1. /\ <<Description, p>> \o <<>> = <<Description, p>>
      /\ <<Description, p>> \o <<Note>> = <<Description, p, Note>>
  <2>1. <<Description, p>> \in Seq({Description, p})
    OBVIOUS
  <2> QED BY <2>1, ConcatEmptySeq, Join3, Zenon
<1>2. CASE ~Includes(text, p)
  <2>1. CASE Includes(text, Note)
    <3>1. Linked(text, p) = <<Description, p>> \o text
      BY <1>1, <1>2, <2>1, Zenon DEF Linked
    <3>2. Absent(text, p)
      BY <1>0, <1>2, NotIncluded
    <3>3. Good(<<Description, p>> \o text, paths \cup {p})
      BY <3>2, FrontGood, ZenonT(30)
    <3> QED BY <3>1, <3>3, Zenon
  <2>2. CASE ~Includes(text, Note)
    <3>1. Linked(text, p) = <<Description, p, Note>> \o text
      BY <1>1, <1>2, <2>2, Zenon DEF Linked
    <3>2. Absent(text, p) /\ Absent(text, Note)
      BY <1>0, <1>2, <2>2, NotIncluded
    <3>3. Good(<<Description, p, Note>> \o text, paths \cup {p})
      BY <3>2, FrontGood, ZenonT(30)
    <3> QED BY <3>1, <3>3, Zenon
  <2> QED BY <2>1, <2>2
<1>3. CASE Includes(text, p) /\ ~Includes(text, Description) /\ ~Includes(text, Note)
  <2>1. PICK t : t = RemoveFirst(text, p)
    OBVIOUS
  <2>2. Linked(text, p) = <<Description, p, Note>> \o t
    BY <1>1, <1>3, <2>1, Zenon DEF Linked
  <2>3. PICK rest \in SUBSET paths : rest = paths \ {p}
    OBVIOUS
  <2>4. Good(t, rest) /\ Absent(t, p) /\ Absent(t, Note)
    <3>1. Absent(text, Note)
      BY <1>0, <1>3, NotIncluded
    <3>2. p \notin rest
      BY <2>3
    <3> QED BY <1>0, <2>1, <3>1, <3>2, RemoveFirstGood, Zenon
  <2>5. Good(<<Description, p, Note>> \o t, rest \cup {p})
    BY <2>4, FrontGood, Zenon
  <2>6. rest \cup {p} = paths \cup {p}
    BY <2>3
  <2> QED BY <2>2, <2>5, <2>6, Zenon
<1>4. CASE Includes(text, p) /\ ~(~Includes(text, Description) /\ ~Includes(text, Note))
  <2>1. Linked(text, p) = text
    BY <1>4, Zenon DEF Linked
  <2>2. Once(text, p)
    <3>1. PICK i \in 1..Len(text) : text[i] = p
      BY <1>0, <1>4 DEF Includes, ToSet
    <3> QED BY <1>0, <3>1 DEF AtMostOnce, Once
  <2> QED BY <2>1, <2>2 DEF Good
<1> QED BY <1>2, <1>3, <1>4

\* deleteBzConfigContents leaves the user's own and all other paths.
LEMMA UnlinkedGood ==
  ASSUME NEW text, NEW paths \in SUBSET Path, Good(text, paths), NEW p \in Path
  PROVE  Good(Unlinked(text, p), paths \ {p})
<1>0. /\ text \in Seq(Piece) /\ AtMostOnce(text, p) /\ p # "own" /\ p # Note /\ Note # "own"
      /\ Description # "own"
  BY GoodPath
<1>1. PICK rest \in SUBSET paths : rest = paths \ {p}
  OBVIOUS
<1>2. p \notin rest /\ Note \notin rest /\ Description \notin rest /\ rest \in SUBSET Path
  BY <1>1, ConfigurationAssumption
<1>3. PICK t : t = Unincluded(text, p)
  OBVIOUS
<1>4. Good(t, rest)
  <2>1. PICK described : described = {i \in 1..Len(text) : text[i] = p /\ Described(text, i)}
    OBVIOUS
  <2>2. CASE described # {}
    <3>1. PICK i \in 1..Len(text) :
            described = {i} /\ text[i] = p /\ i > 1 /\ text[i - 1] = Description
      <4>1. PICK i \in 1..Len(text) :
              i \in described /\ text[i] = p /\ i > 1 /\ text[i - 1] = Description
        BY <2>1, <2>2 DEF Described
      <4>2. described = {i}
        BY <1>0, <2>1, <4>1 DEF AtMostOnce
      <4> QED BY <4>1, <4>2
    <3>2. (CHOOSE j \in described : \A k \in described : j <= k) = i
      <4>1. i <= i
        BY <1>0
      <4> QED BY <3>1, <4>1
    <3>3. t = SubSeq(text, 1, i - 2) \o SubSeq(text, i + 1, Len(text))
      BY <1>3, <2>1, <2>2, <3>2, Zenon DEF Unincluded
    <3>4. PICK n, a, b : n = Len(text) /\ a = i - 2 /\ b = i + 1
      BY Zenon
    <3>5. n \in Nat /\ a \in Nat /\ b \in Nat /\ a < b /\ b <= n + 1
      BY <1>0, <3>1, <3>4
    <3>6. b <= Len(text) + 1 /\ IsCut(text, a, b, t)
      BY <1>0, <3>3, <3>4, <3>5, CutText, Zenon
    <3>7. \A j \in a + 1..b - 1 : j = i \/ j = i - 1
      BY <1>0, <3>4
    <3>8. \A y : y # p /\ y # Description => Spares(text, a, b, y)
      BY <3>1, <3>7, Zenon DEF Spares
    <3>9. Spares(text, a, b, "own") /\ \A q \in rest : Spares(text, a, b, q)
      BY <1>0, <1>2, <3>8
    <3> QED BY <3>5, <3>6, <3>9, CutGood, Zenon
  <2>3. CASE described = {} /\ ~Includes(text, Description)
    <3>1. t = RemoveFirst(text, p)
      BY <1>3, <2>1, <2>3, Zenon DEF Unincluded
    <3> QED BY <1>0, <1>2, <3>1, RemoveFirstGood, Zenon
  <2>4. CASE described = {} /\ Includes(text, Description)
    <3>1. t = text
      BY <1>3, <2>1, <2>4, Zenon DEF Unincluded
    <3> QED BY <3>1 DEF Good
  <2> QED BY <2>2, <2>3, <2>4
<1>5. CASE Includes(t, Description)
  BY <1>1, <1>3, <1>4, <1>5, Zenon DEF Unlinked
<1>6. CASE ~Includes(t, Description)
  <2>1. Unlinked(text, p) = RemoveFirst(t, Note)
    BY <1>3, <1>6, Zenon DEF Unlinked
  <2>2. AtMostOnce(t, Note)
    BY <1>4 DEF Good
  <2>3. rest \in SUBSET rest
    OBVIOUS
  <2>4. Good(RemoveFirst(t, Note), rest)
    BY <1>0, <1>2, <1>4, <2>2, <2>3, RemoveFirstGood, Zenon
  <2> QED BY <1>1, <2>1, <2>4
<1> QED BY <1>5, <1>6

\* Whatever the text is, it stays one.
LEMMA RemoveFirstTyped ==
  ASSUME NEW text \in Seq(Piece), NEW x
  PROVE  RemoveFirst(text, x) \in Seq(Piece)
  BY RemoveFirstCuts DEF IsCut

LEMMA LinkedTyped ==
  ASSUME NEW text \in Seq(Piece), NEW p \in Path
  PROVE  Linked(text, p) \in Seq(Piece)
<1>1. \A q : q \in {Description, p, Note} => q \in Piece
  BY DEF Piece
<1>2. <<Description, p>> \in Seq(Piece) /\ <<>> \in Seq(Piece) /\ <<Note>> \in Seq(Piece)
  BY <1>1
<1>3. \A s, t \in Seq(Piece) : s \o t \in Seq(Piece)
  BY ConcatProperties
<1>4. RemoveFirst(text, p) \in Seq(Piece)
  BY RemoveFirstTyped
<1> QED BY <1>2, <1>3, <1>4, Zenon DEF Linked

LEMMA UnlinkedTyped ==
  ASSUME NEW text \in Seq(Piece), NEW p \in Path
  PROVE  Unlinked(text, p) \in Seq(Piece)
<1>1. PICK t : t = Unincluded(text, p)
  OBVIOUS
<1>2. t \in Seq(Piece)
  <2>0. PICK n \in Nat : n = Len(text)
    OBVIOUS
  <2>1. PICK described : described = {i \in 1..Len(text) : text[i] = p /\ Described(text, i)}
    OBVIOUS
  <2>4. described \in SUBSET Nat
    BY <2>0, <2>1
  <2>2. CASE described # {}
    <3>1. PICK i : i = CHOOSE k \in described : \A j \in described : k <= j
      OBVIOUS
    <3>2. i \in described
      <4>1. \E k \in described : \A l \in described : k <= l
        BY <2>2, <2>4, Least
      <4> QED BY <3>1, <4>1, Zenon
    <3>3. t = SubSeq(text, 1, i - 2) \o SubSeq(text, i + 1, Len(text))
      BY <1>1, <2>1, <2>2, <3>1, Zenon DEF Unincluded
    <3>4. i - 2 \in Nat /\ i + 1 \in Nat /\ i - 2 < i + 1 /\ i + 1 <= Len(text) + 1
      BY <2>0, <2>1, <3>2 DEF Described
    <3> QED BY <3>3, <3>4, CutText DEF IsCut
  <2>3. CASE described = {}
    BY <1>1, <2>1, <2>3, RemoveFirstTyped, Zenon DEF Unincluded
  <2> QED BY <2>2, <2>3
<1> QED BY <1>1, <1>2, RemoveFirstTyped, Zenon DEF Unlinked

-----------------------------------------------------------------------------
(* What generate keeps of the ssh configuration, if no other overlaps it *)

\* Between the truncation of the file and the write of its new text.
Writing == {"writingLinked", "writingRest"}
\* What is linked exists.
Included == /\ linked \subseteq made /\ linked \subseteq Path
            /\ \A c \in Cmd : pc[c] \in Generates => about[c] \in Path

\* One command generates.
Alone == \A c, d \in Cmd : pc[c] \in Generates /\ pc[d] \in Generates => c = d

\* The file is good but while it is truncated.
Unwritten == (\A c \in Cmd : pc[c] \notin Writing) => Good(ssh, linked)

\* The text that is about to be written is as good, with or without the path.
Prepared ==
  \A c \in Cmd :
    /\ pc[c] = "writingLinked" => Good(seen[c], linked \cup {about[c]})
    /\ pc[c] = "writingRest" => Good(seen[c], linked \ {about[c]})
    /\ pc[c] \in {"linking", "writingLinked"} => about[c] \in made
    /\ pc[c] = "removing" => about[c] \notin linked

SshInv == "ssh" \notin excuse => Included /\ Alone /\ Unwritten /\ Prepared

LEMMA InitSshInv == Init => SshInv
<1> SUFFICES ASSUME Init PROVE SshInv
  OBVIOUS
<1>1. \A c \in Cmd : pc[c] = "idle"
  BY DEF Init
<1>2. linked \subseteq made /\ linked \subseteq Path /\ linked = {p \in Path : Includes(ssh, p)}
  BY DEF Init
<1>3. \A p \in Path : p \notin {"own", Note}
  BY ConfigurationAssumption
<1>4. Note # "own"
  BY DEF Note
<1>5. CASE ssh = <<"own">>
  <2>1. ssh \in Seq(Piece) /\ Len(ssh) = 1 /\ ssh[1] = "own"
    BY <1>5 DEF Piece
  <2>2. Once(ssh, "own") /\ AtMostOnce(ssh, Note) /\ \A p \in Path : AtMostOnce(ssh, p)
    BY <2>1 DEF Once, AtMostOnce
  <2>3. linked = {}
    BY <1>2, <1>3, <2>1 DEF Includes, ToSet
  <2> QED BY <1>1, <1>2, <2>1, <2>2, <2>3
        DEF SshInv, Included, Alone, Unwritten, Prepared, Good, Generates
<1>6. ASSUME NEW p \in Path, ssh = <<p, "own">> PROVE SshInv
  <2>1. ssh \in Seq(Piece) /\ Len(ssh) = 2 /\ ssh[1] = p /\ ssh[2] = "own"
    BY <1>6 DEF Piece
  <2>2. \A i \in 1..2 : i = 1 \/ i = 2
    OBVIOUS
  <2>3. Once(ssh, "own") /\ AtMostOnce(ssh, Note) /\ Once(ssh, p)
    BY <1>3, <1>4, <2>1, <2>2 DEF Once, AtMostOnce
  <2>4. \A q \in Path : AtMostOnce(ssh, q)
    BY <1>3, <2>1, <2>2 DEF AtMostOnce
  <2>5. linked = {p}
    BY <1>2, <1>3, <2>1, <2>2 DEF Includes, ToSet
  <2> QED BY <1>1, <1>2, <2>1, <2>3, <2>4, <2>5
        DEF SshInv, Included, Alone, Unwritten, Prepared, Good, Generates
<1> QED BY <1>5, <1>6 DEF Init

\* No other command is touched.
OthersStay(c) == \A d \in Cmd \ {c} : pc'[d] = pc[d] /\ about'[d] = about[d] /\ seen'[d] = seen[d]

LEMMA EndsAway ==
  ASSUME Shape, NEW c \in Cmd, Ends(c)
  PROVE  pc'[c] = "idle" /\ OthersStay(c)
  BY DEF Shape, Ends, Goto, OthersStay

LEMMA GoesAway ==
  ASSUME Shape, NEW c \in Cmd, NEW at, Goto(c, at), OthersStay(c) \/ UNCHANGED <<about, seen>>
  PROVE  pc'[c] = at /\ OthersStay(c)
  BY DEF Shape, Goto, OthersStay

\* Who writes nothing, or is killed at it, leaves all to the others.
LEMMA SshAside ==
  ASSUME SshInv, NEW c \in Cmd, UNCHANGED <<ssh, made, linked>>,
         pc'[c] \notin Generates, OthersStay(c),
         pc[c] \in Writing => "ssh" \in excuse', excuse \subseteq excuse'
  PROVE  SshInv'
<1> SUFFICES ASSUME "ssh" \notin excuse' PROVE (Included /\ Alone /\ Unwritten /\ Prepared)'
  BY DEF SshInv
<1>1. /\ Included /\ Alone /\ Unwritten /\ Prepared
      /\ pc[c] \notin Writing /\ Writing \subseteq Generates
  BY DEF SshInv, Writing, Generates
<1>2. \A d \in Cmd : pc'[d] \in Generates =>
        d # c /\ pc'[d] = pc[d] /\ about'[d] = about[d] /\ seen'[d] = seen[d]
  BY DEF OthersStay
<1>3. Included' /\ Alone'
  BY <1>1, <1>2 DEF Included, Alone
<1>4. (\A d \in Cmd : pc'[d] \notin Writing) => \A d \in Cmd : pc[d] \notin Writing
  BY <1>1 DEF OthersStay
<1>5. Unwritten'
  BY <1>1, <1>4 DEF Unwritten
<1>6. Prepared'
  <2> SUFFICES ASSUME NEW d \in Cmd
               PROVE /\ pc'[d] = "writingLinked" => Good(seen'[d], linked' \cup {about'[d]})
                     /\ pc'[d] = "writingRest" => Good(seen'[d], linked' \ {about'[d]})
                     /\ pc'[d] \in {"linking", "writingLinked"} => about'[d] \in made'
                     /\ pc'[d] = "removing" => about'[d] \notin linked'
    BY DEF Prepared, Good, Once, AtMostOnce
  <2>1. CASE pc'[d] \in Generates
    BY <1>1, <1>2, <2>1 DEF Prepared
  <2>2. CASE pc'[d] \notin Generates
    BY <2>2 DEF Generates
  <2> QED BY <2>1, <2>2
<1> QED BY <1>3, <1>5, <1>6

\* A step that is not about the ssh configuration, or a kill.
Away(c) == /\ UNCHANGED <<ssh, made, linked>> /\ pc'[c] \notin Generates /\ OthersStay(c)
           /\ pc[c] \in Writing => "ssh" \in excuse'
           /\ excuse \subseteq excuse'

LEMMA OtherStepsAway ==
  ASSUME Shape, NEW c \in Cmd,
         \/ \E k \in Kind : Begin(c, k)
         \/ Migrate(c) \/ Write(c) \/ Kill(c)
         \/ Load(c) \/ Track(c) \/ Authorize(c) \/ Admit(c) \/ Certify(c)
         \/ Returns(c) \/ DefaultTargetGroup(c) \/ ReadSecurity(c) \/ SaveSecurity(c)
         \/ AddDaemon(c) \/ Disconnect(c)
         \/ LogsOut(c) \/ MakesKeys(c) \/ LogsIn(c)
         \/ ReadPorts(c) \/ SavePort(c)
  PROVE  Away(c)
<1> USE DEF Writing, Generates, Away
<1>1. ASSUME NEW k \in Kind, Begin(c, k) PROVE Away(c)
  <2>1. PICK at \in {"loading", "upgrading"} : Goto(c, at)
    BY <1>1 DEF Begin
  <2>2. UNCHANGED <<ssh, made, linked, about, seen>> /\ pc[c] = "idle" /\ excuse \subseteq excuse'
    BY <1>1 DEF Begin
  <2> QED BY <2>1, <2>2, GoesAway
<1>2. ASSUME Migrate(c) PROVE Away(c)
  BY <1>2 DEF Migrate, OthersStay
<1>3. ASSUME Write(c) PROVE Away(c)
  <2>1. PICK at \in {"loading", "upgrading"} : Goto(c, at)
    BY <1>3 DEF Write
  <2>2. UNCHANGED <<ssh, made, linked, about, seen, excuse>> /\ pc[c] = "upgrading"
    BY <1>3 DEF Write
  <2> QED BY <2>1, <2>2, GoesAway
<1>4. ASSUME Kill(c) PROVE Away(c)
  BY <1>4, EndsAway DEF Kill
<1>5. ASSUME Stops(c), pc[c] \notin Writing PROVE Away(c)
  BY <1>5, EndsAway DEF Stops
<1>6. ASSUME NEW at, at \notin Generates, Passes(c, at), pc[c] \notin Writing PROVE Away(c)
  <2>1. Goto(c, at) /\ UNCHANGED <<ssh, made, linked, about, seen, excuse>>
    BY <1>6 DEF Passes
  <2> QED BY <1>6, <2>1, GoesAway
<1>12. ASSUME NEW at, at \notin Generates, Goto(c, at), UNCHANGED <<ssh, made, linked>>,
              excuse \subseteq excuse', pc[c] \notin Generates, about' = about,
              NEW v, seen' = [seen EXCEPT ![c] = v]
       PROVE Away(c)
  <2>1. OthersStay(c)
    BY <1>12 DEF Goto, OthersStay, Shape
  <2> QED BY <1>12, <2>1, GoesAway
<1>13. ASSUME Runs(c), excuse \subseteq excuse', pc[c] \notin Generates PROVE Away(c)
  BY <1>12, <1>13 DEF Runs
<1>7. ASSUME Track(c) \/ Authorize(c) \/ Admit(c) \/ Returns(c) PROVE Away(c)
  <2>1. pc[c] \notin Writing
    BY <1>7 DEF Track, Authorize, Admit, Returns
  <2>2. \/ Stops(c) \/ Passes(c, "authorizing") \/ Passes(c, "admitting")
        \/ Passes(c, "certifying")
        \/ Runs(c) /\ excuse' = excuse /\ pc[c] \notin Generates
    BY <1>7 DEF Track, Authorize, Admit, Returns
  <2> QED BY <1>5, <1>6, <1>13, <2>1, <2>2
<1>8. ASSUME NEW field, NEW value, NEW w, Saves(c, field, value, w), pc[c] \notin Writing,
             excuse \subseteq excuse'
      PROVE Away(c)
  BY <1>8, EndsAway DEF Saves
<1>9. ASSUME DefaultTargetGroup(c) \/ AddDaemon(c) \/ Disconnect(c) \/ LogsIn(c) \/ SavePort(c)
      PROVE Away(c)
  <2>1. pc[c] \notin Writing /\ excuse \subseteq excuse'
    BY <1>9 DEF DefaultTargetGroup, AddDaemon, Disconnect, LogsIn, SavePort
  <2>2. Ends(c) /\ UNCHANGED <<ssh, made, linked>>
    BY <1>9 DEF DefaultTargetGroup, AddDaemon, Disconnect, LogsIn, SavePort, Saves
  <2> QED BY <2>1, <2>2, EndsAway
<1>10. ASSUME LogsOut(c) \/ MakesKeys(c) PROVE Away(c)
  <2>1. PICK at \in {"keyless", "keyed"} : Goto(c, at)
    BY <1>10 DEF LogsOut, MakesKeys
  <2>2. UNCHANGED <<ssh, made, linked, about, seen, excuse>> /\ pc[c] \notin Writing
    BY <1>10 DEF LogsOut, MakesKeys
  <2> QED BY <2>1, <2>2, GoesAway
<1>11. ASSUME ReadPorts(c) PROVE Away(c)
  <2>1. Goto(c, "choosing") /\ UNCHANGED <<ssh, made, linked, excuse>> /\ pc[c] = "running"
    BY <1>11 DEF ReadPorts
  <2>2. OthersStay(c)
    BY <1>11 DEF ReadPorts, Goto, OthersStay, Shape
  <2> QED BY <2>1, <2>2, GoesAway
<1>14. ASSUME Load(c) PROVE Away(c)
  <2>1. /\ Goto(c, "tracking") /\ UNCHANGED <<ssh, made, linked>> /\ pc[c] = "loading"
        /\ excuse' = excuse /\ about' = about /\ seen' = [seen EXCEPT ![c] = [mrtap |-> file.mrtap]]
    BY <1>14 DEF Load
  <2> QED BY <1>12, <2>1
<1>15. ASSUME Certify(c) PROVE Away(c)
  <2>1. pc[c] = "certifying"
    BY <1>15 DEF Certify
  <2>2. CASE Stops(c)
    BY <1>5, <2>1, <2>2
  <2>3. CASE ~Stops(c)
    BY <1>13, <1>15, <2>1, <2>3 DEF Certify
  <2> QED BY <2>2, <2>3
<1>16. ASSUME ReadSecurity(c) PROVE Away(c)
  <2>1. CASE Passes(c, "secured")
    BY <1>6, <1>16, <2>1 DEF ReadSecurity
  <2>2. CASE ~Passes(c, "secured")
    <3>1. /\ Goto(c, "securing") /\ UNCHANGED <<ssh, made, linked>> /\ pc[c] = "running"
          /\ excuse' = excuse /\ about' = about
          /\ seen' = [seen EXCEPT ![c] = file.globalKubeConfig]
      BY <1>16, <2>2 DEF ReadSecurity
    <3> QED BY <1>12, <3>1
  <2> QED BY <2>1, <2>2
<1>17. ASSUME SaveSecurity(c) PROVE Away(c)
  <2>1. /\ Goto(c, "secured") /\ UNCHANGED <<ssh, made, linked>> /\ pc[c] = "securing"
        /\ excuse \subseteq excuse' /\ about' = about /\ seen' = [seen EXCEPT ![c] = None]
    BY <1>17 DEF SaveSecurity
  <2> QED BY <1>12, <2>1
<1> QED BY <1>1, <1>2, <1>3, <1>4, <1>7, <1>9, <1>10, <1>11, <1>14, <1>15, <1>16, <1>17, Zenon

\* The steps of a generate that find no other at it.
LEMMA GenerateSsh ==
  ASSUME Shape, SshInv, NEW c \in Cmd,
         AskTargets(c) \/ MakeFile(c) \/ OpenSsh(c) \/ WriteSsh(c) \/ RemoveFile(c)
  PROVE  SshInv'
<1> SUFFICES ASSUME "ssh" \notin excuse' PROVE (Included /\ Alone /\ Unwritten /\ Prepared)'
  BY DEF SshInv
<1>1. excuse \subseteq excuse'
  BY DEF AskTargets, MakeFile, OpenSsh, WriteSsh, RemoveFile
<1>2. Included /\ Alone /\ Unwritten /\ Prepared
  BY <1>1 DEF SshInv
<1>3. pc[c] \in Generates \/ AskTargets(c)
  BY DEF MakeFile, OpenSsh, WriteSsh, RemoveFile, Generates
<1>4. \A d \in Cmd \ {c} : pc[d] \notin Generates
  BY <1>2, <1>3 DEF Alone, AskTargets, Others
<1>5. OthersStay(c)
  BY DEF AskTargets, MakeFile, OpenSsh, WriteSsh, RemoveFile, OthersStay, Shape, Goto, Ends
<1>6. Alone' /\ \A d \in Cmd \ {c} : pc'[d] \notin Generates
  BY <1>4, <1>5 DEF OthersStay, Alone
<1>7. ASSUME /\ linked' \subseteq made' /\ linked' \subseteq Path
             /\ pc'[c] \in Generates => about'[c] \in Path
             /\ pc'[c] \notin Writing => Good(ssh', linked')
             /\ pc'[c] = "writingLinked" => Good(seen'[c], linked' \cup {about'[c]})
             /\ pc'[c] = "writingRest" => Good(seen'[c], linked' \ {about'[c]})
             /\ pc'[c] \in {"linking", "writingLinked"} => about'[c] \in made'
             /\ pc'[c] = "removing" => about'[c] \notin linked'
      PROVE (Included /\ Alone /\ Unwritten /\ Prepared)'
  <2>1. Included'
    BY <1>6, <1>7 DEF Included
  <2>2. Unwritten'
    BY <1>7 DEF Unwritten
  <2>3. Prepared'
    <3> SUFFICES ASSUME NEW d \in Cmd
                 PROVE /\ pc'[d] = "writingLinked" => Good(seen'[d], linked' \cup {about'[d]})
                       /\ pc'[d] = "writingRest" => Good(seen'[d], linked' \ {about'[d]})
                       /\ pc'[d] \in {"linking", "writingLinked"} => about'[d] \in made'
                       /\ pc'[d] = "removing" => about'[d] \notin linked'
      BY DEF Prepared, Good, Once, AtMostOnce
    <3>1. CASE d = c
      BY <1>7, <3>1
    <3>2. CASE d # c
      BY <1>6, <3>2 DEF Generates
    <3> QED BY <3>1, <3>2
  <2> QED BY <1>6, <2>1, <2>2, <2>3
<1>8. pc[c] \in Place /\ DOMAIN pc = Cmd /\ DOMAIN about = Cmd /\ DOMAIN seen = Cmd
  BY DEF Shape
<1>9. CASE AskTargets(c)
  <2>1. /\ ssh' = ssh /\ made' = made /\ linked' = linked /\ about'[c] \in Path
        /\ pc'[c] \in {"generating", "unlinking"} /\ pc[c] = "running"
    BY <1>8, <1>9 DEF AskTargets, Goto
  <2>2. Good(ssh, linked)
    BY <1>2, <1>4, <2>1 DEF Unwritten, Writing, Generates
  <2> QED BY <1>2, <1>7, <2>1, <2>2 DEF Included, Writing
<1>10. CASE MakeFile(c)
  <2>1. /\ ssh' = ssh /\ made' = made \cup {about[c]} /\ linked' = linked /\ about' = about
        /\ pc'[c] = "linking" /\ pc[c] = "generating" /\ about[c] \in Path
    BY <1>2, <1>8, <1>10 DEF MakeFile, Goto, Included, Generates
  <2>2. Good(ssh, linked)
    BY <1>2, <1>4, <2>1 DEF Unwritten, Writing, Generates
  <2> QED BY <1>2, <1>7, <2>1, <2>2 DEF Included, Writing
<1>11. CASE OpenSsh(c)
  <2>1. /\ made' = made /\ linked' = linked /\ about' = about /\ about[c] \in Path
    BY <1>2, <1>11 DEF OpenSsh, Included, Generates
  <2>2. pc[c] \in {"linking", "unlinking"}
    BY <1>11 DEF OpenSsh
  <2>3. Good(ssh, linked) /\ linked \in SUBSET Path
    BY <1>2, <1>4, <2>2 DEF Unwritten, Writing, Generates, Included
  <2>4. CASE pc[c] = "linking"
    <3>1. pc'[c] = "writingLinked" /\ seen'[c] = Linked(ssh, about[c])
      BY <1>8, <1>11, <2>4 DEF OpenSsh, Goto
    <3>2. Good(Linked(ssh, about[c]), linked \cup {about[c]})
      BY <2>1, <2>3, LinkedGood
    <3>3. about[c] \in made
      BY <1>2, <2>4 DEF Prepared
    <3> QED BY <1>2, <1>7, <2>1, <3>1, <3>2, <3>3 DEF Included, Writing
  <2>5. CASE pc[c] = "unlinking"
    <3>1. pc'[c] = "writingRest" /\ seen'[c] = Unlinked(ssh, about[c])
      BY <1>8, <1>11, <2>5 DEF OpenSsh, Goto
    <3>2. Good(Unlinked(ssh, about[c]), linked \ {about[c]})
      BY <2>1, <2>3, UnlinkedGood
    <3> QED BY <1>2, <1>7, <2>1, <3>1, <3>2 DEF Included, Writing
  <2> QED BY <2>2, <2>4, <2>5
<1>12. CASE WriteSsh(c)
  <2>1. made' = made /\ ssh' = seen[c]
    BY <1>12 DEF WriteSsh
  <2>2. CASE pc[c] = "writingLinked"
    <3>1. pc'[c] = "idle" /\ linked' = linked \cup {about[c]}
      BY <1>8, <1>12, <2>2 DEF WriteSsh, Ends, Goto
    <3>2. about[c] \in Path /\ about[c] \in made /\ Good(seen[c], linked \cup {about[c]})
      BY <1>2, <2>2 DEF Included, Generates, Prepared
    <3> QED BY <1>2, <1>7, <2>1, <3>1, <3>2 DEF Included, Writing, Generates
  <2>3. CASE pc[c] = "writingRest"
    <3>1. pc'[c] = "removing" /\ linked' = linked \ {about[c]} /\ about' = about
      BY <1>8, <1>12, <2>3 DEF WriteSsh, Goto
    <3>2. about[c] \in Path /\ Good(seen[c], linked \ {about[c]})
      BY <1>2, <2>3 DEF Included, Generates, Prepared
    <3> QED BY <1>2, <1>7, <2>1, <3>1, <3>2 DEF Included, Writing
  <2> QED BY <1>12, <2>2, <2>3 DEF WriteSsh
<1>13. CASE RemoveFile(c)
  <2>1. /\ ssh' = ssh /\ made' = made \ {about[c]} /\ linked' = linked /\ pc[c] = "removing"
        /\ pc'[c] = "idle"
    BY <1>8, <1>13 DEF RemoveFile, Ends, Goto
  <2>2. Good(ssh, linked) /\ about[c] \notin linked
    BY <1>2, <1>4, <2>1 DEF Unwritten, Writing, Generates, Prepared
  <2> QED BY <1>2, <1>7, <2>1, <2>2 DEF Included, Writing, Generates
<1> QED BY <1>9, <1>10, <1>11, <1>12, <1>13

LEMMA StepSshInv == Shape /\ SshInv /\ [Next]_vars => SshInv'
<1> SUFFICES ASSUME Shape, SshInv, [Next]_vars PROVE SshInv'
  OBVIOUS
<1>1. CASE Next
  <2>1. PICK c \in Cmd : CmdStep(c)
    BY <1>1 DEF Next
  <2>2. CASE AskTargets(c) \/ MakeFile(c) \/ OpenSsh(c) \/ WriteSsh(c) \/ RemoveFile(c)
    BY <2>2, GenerateSsh
  <2>3. CASE Away(c)
    BY <2>3, SshAside DEF Away
  <2> QED BY <2>1, <2>2, <2>3, OtherStepsAway DEF CmdStep
<1>2. CASE UNCHANGED vars
  BY <1>2 DEF vars, command, SshInv, Included, Alone, Unwritten, Prepared, Good, Once, AtMostOnce
<1> QED BY <1>1, <1>2

LEMMA AlwaysSshInv == Spec => []SshInv
<1>1. IInv => Shape
  BY DEF IInv
<1> QED BY <1>1, InitSshInv, StepSshInv, AlwaysIInv, PTL DEF Spec

-----------------------------------------------------------------------------
(* Types of what is about the ssh configuration *)

Names ==
  /\ ssh \in Seq(Piece) /\ made \subseteq Path /\ linked \subseteq Path
  /\ kind \in [Cmd -> Kind] /\ about \in [Cmd -> App \cup Path \cup {None}]
  /\ excuse \subseteq {"upgrades", "killed", "ports", "ssh", "keys", "groups"}
  /\ \A c \in Cmd : pc[c] \in Generates => about[c] \in Path
  /\ \A c \in Cmd : pc[c] \in Writing => seen[c] \in Seq(Piece)

LEMMA InitNames == Init => Names
<1> SUFFICES ASSUME Init PROVE Names
  OBVIOUS
<1>1. \A p : p \in Path \cup {"own"} => p \in Piece
  BY DEF Piece
<1>2. ssh \in Seq(Piece)
  <2>1. <<"own">> \in Seq(Piece) /\ \A p \in Path : <<p, "own">> \in Seq(Piece)
    BY <1>1
  <2> QED BY <2>1, Zenon DEF Init
<1>3. kind \in [Cmd -> Kind] /\ about \in [Cmd -> App \cup Path \cup {None}]
  BY DEF Init, Kind
<1>4. \A c \in Cmd : pc[c] = "idle"
  BY DEF Init
<1> QED BY <1>2, <1>3, <1>4 DEF Init, Names, Generates, Writing

LEMMA KindsStay ==
  ASSUME Names, NEW c \in Cmd, CmdStep(c)
  PROVE  /\ kind' \in [Cmd -> Kind] /\ about' \in [Cmd -> App \cup Path \cup {None}]
         /\ excuse' \subseteq {"upgrades", "killed", "ports", "ssh", "keys", "groups"}
<1> USE DEF Names
<1>1. "refresh" \in Kind
  BY DEF Kind
<1>2. Ends(c) => kind' \in [Cmd -> Kind] /\ about' \in [Cmd -> App \cup Path \cup {None}]
  BY <1>1 DEF Ends
<1>3. (\E k \in Kind : Begin(c, k)) \/ Migrate(c) \/ Write(c) \/ Kill(c)
      => /\ kind' \in [Cmd -> Kind] /\ about' \in [Cmd -> App \cup Path \cup {None}]
         /\ excuse' \subseteq {"upgrades", "killed", "ports", "ssh", "keys", "groups"}
  BY <1>2 DEF Begin, Migrate, Write, Kill
<1>4. Load(c) \/ Track(c) \/ Authorize(c) \/ Admit(c) \/ Certify(c) \/ Returns(c)
      => /\ kind' \in [Cmd -> Kind] /\ about' \in [Cmd -> App \cup Path \cup {None}]
         /\ excuse' \subseteq {"upgrades", "killed", "ports", "ssh", "keys", "groups"}
  BY <1>2 DEF Load, Track, Authorize, Admit, Certify, Returns, Passes, Stops, Runs
<1>5. DefaultTargetGroup(c) \/ AddDaemon(c) \/ Disconnect(c) \/ LogsIn(c) \/ SavePort(c)
      => /\ kind' \in [Cmd -> Kind] /\ about' \in [Cmd -> App \cup Path \cup {None}]
         /\ excuse' \subseteq {"upgrades", "killed", "ports", "ssh", "keys", "groups"}
  BY <1>2 DEF DefaultTargetGroup, AddDaemon, Disconnect, LogsIn, SavePort, Saves
<1>6. LogsOut(c) \/ MakesKeys(c) \/ ReadPorts(c) \/ ReadSecurity(c) \/ SaveSecurity(c)
      => /\ kind' \in [Cmd -> Kind] /\ about' \in [Cmd -> App \cup Path \cup {None}]
         /\ excuse' \subseteq {"upgrades", "killed", "ports", "ssh", "keys", "groups"}
  BY DEF LogsOut, MakesKeys, ReadPorts, ReadSecurity, SaveSecurity, Passes
<1>7. AskTargets(c) \/ MakeFile(c) \/ OpenSsh(c) \/ WriteSsh(c) \/ RemoveFile(c)
      => /\ kind' \in [Cmd -> Kind] /\ about' \in [Cmd -> App \cup Path \cup {None}]
         /\ excuse' \subseteq {"upgrades", "killed", "ports", "ssh", "keys", "groups"}
  BY <1>2 DEF AskTargets, MakeFile, OpenSsh, WriteSsh, RemoveFile
<1> QED BY <1>3, <1>4, <1>5, <1>6, <1>7 DEF CmdStep

\* What is written back to the ssh configuration is a text.
LEMMA GenerateNames ==
  ASSUME Shape, Names, NEW c \in Cmd,
         AskTargets(c) \/ MakeFile(c) \/ OpenSsh(c) \/ WriteSsh(c) \/ RemoveFile(c)
  PROVE  /\ ssh' \in Seq(Piece) /\ made' \subseteq Path /\ linked' \subseteq Path /\ OthersStay(c)
         /\ pc'[c] \in Generates => about'[c] \in Path
         /\ pc'[c] \in Writing => seen'[c] \in Seq(Piece)
<1>1. DOMAIN pc = Cmd /\ DOMAIN about = Cmd /\ DOMAIN seen = Cmd
  BY DEF Shape
<1>2. OthersStay(c)
  BY <1>1 DEF AskTargets, MakeFile, OpenSsh, WriteSsh, RemoveFile, OthersStay, Goto, Ends
<1>3. ssh \in Seq(Piece) /\ made \subseteq Path /\ linked \subseteq Path
  BY DEF Names
<1>4. pc[c] \in Generates => about[c] \in Path
  BY DEF Names
<1>5. pc[c] \in Writing => seen[c] \in Seq(Piece)
  BY DEF Names
<1>6. CASE AskTargets(c)
  <2>1. /\ ssh' = ssh /\ made' = made /\ linked' = linked /\ about'[c] \in Path
        /\ pc'[c] \in {"generating", "unlinking"}
    BY <1>1, <1>6 DEF AskTargets, Goto
  <2> QED BY <1>2, <1>3, <2>1 DEF Writing
<1>7. CASE MakeFile(c)
  <2>1. /\ ssh' = ssh /\ made' = made \cup {about[c]} /\ linked' = linked /\ about' = about
        /\ pc'[c] = "linking" /\ pc[c] = "generating"
    BY <1>1, <1>7 DEF MakeFile, Goto
  <2> QED BY <1>2, <1>3, <1>4, <2>1 DEF Writing, Generates
<1>8. CASE OpenSsh(c)
  <2>1. /\ ssh' = <<>> /\ made' = made /\ linked' = linked /\ about' = about
        /\ pc[c] \in {"linking", "unlinking"}
        /\ seen'[c] = Linked(ssh, about[c]) \/ seen'[c] = Unlinked(ssh, about[c])
    BY <1>1, <1>8 DEF OpenSsh
  <2>2. about[c] \in Path
    BY <1>4, <2>1 DEF Generates
  <2>3. seen'[c] \in Seq(Piece)
    BY <1>3, <2>1, <2>2, LinkedTyped, UnlinkedTyped
  <2> QED BY <1>2, <1>3, <2>1, <2>2, <2>3
<1>9. CASE WriteSsh(c)
  <2>1. /\ made' = made /\ ssh' = seen[c] /\ pc[c] \in Writing
        /\ linked' \in {linked \cup {about[c]}, linked \ {about[c]}}
    BY <1>9 DEF WriteSsh, Writing
  <2>2. \/ pc'[c] = "idle"
        \/ pc'[c] = "removing" /\ about' = about
    BY <1>1, <1>9 DEF WriteSsh, Ends, Goto
  <2>3. about[c] \in Path
    BY <1>4, <2>1 DEF Generates, Writing
  <2> QED BY <1>2, <1>3, <1>5, <2>1, <2>2, <2>3 DEF Generates, Writing
<1>10. CASE RemoveFile(c)
  <2>1. ssh' = ssh /\ made' = made \ {about[c]} /\ linked' = linked /\ pc'[c] = "idle"
    BY <1>1, <1>10 DEF RemoveFile, Ends, Goto
  <2> QED BY <1>2, <1>3, <2>1 DEF Generates, Writing
<1> QED BY <1>6, <1>7, <1>8, <1>9, <1>10

LEMMA StepNames == Shape /\ Names /\ [Next]_vars => Names'
<1> SUFFICES ASSUME Shape, Names, [Next]_vars PROVE Names'
  OBVIOUS
<1>1. CASE Next
  <2>1. PICK c \in Cmd : CmdStep(c)
    BY <1>1 DEF Next
  <2>2. /\ ssh' \in Seq(Piece) /\ made' \subseteq Path /\ linked' \subseteq Path /\ OthersStay(c)
        /\ pc'[c] \in Generates => about'[c] \in Path
        /\ pc'[c] \in Writing => seen'[c] \in Seq(Piece)
    <3>1. CASE AskTargets(c) \/ MakeFile(c) \/ OpenSsh(c) \/ WriteSsh(c) \/ RemoveFile(c)
      BY <3>1, GenerateNames
    <3>2. CASE Away(c)
      BY <3>2 DEF Away, Names, Generates, Writing
    <3> QED BY <2>1, <3>1, <3>2, OtherStepsAway DEF CmdStep
  <2>3. \A d \in Cmd : /\ pc'[d] \in Generates => about'[d] \in Path
                       /\ pc'[d] \in Writing => seen'[d] \in Seq(Piece)
    BY <2>2 DEF Names, OthersStay
  <2> QED BY <2>1, <2>2, <2>3, KindsStay DEF Names
<1>2. CASE UNCHANGED vars
  BY <1>2 DEF vars, command, Names
<1> QED BY <1>1, <1>2

LEMMA RestOf ==
  ASSUME NEW s, IsRest(s)
  PROVE  \E i \in 1..Current + 1 : s = SubSeq(Migrations, i, Current)
<1>a. PICK l, five : l = Len(s) /\ five = Current
  OBVIOUS
<1>b. five = 5 /\ l \in Nat /\ l <= five
  <2>1. s \in Seq(Migration) /\ Len(s) <= Current
    BY DEF IsRest
  <2>2. Len(s) \in Nat
    BY <2>1
  <2> QED BY <1>a, <2>1, <2>2, Five, Zenon
<1>1. l \in 0..5 /\ l = Len(s)
  BY <1>a, <1>b
<1>c. PICK n : n = five - l
  OBVIOUS
<1>d. n \in 0..five /\ n = 5 - l /\ n + 1 \in 1..five + 1
  BY <1>b, <1>c
<1>2. n \in 0..Current /\ n = 5 - l /\ n + 1 \in 1..Current + 1
  BY <1>a, <1>d, Zenon
<1>3. PICK t : t = SubSeq(Migrations, n + 1, Current)
  BY Zenon
<1>4. IsRest(t) /\ Len(t) = 5 - n
  <2>1. IsRest(t) /\ Len(t) = Current - n
    BY <1>2, <1>3, PendingIsRest, Zenon
  <2> QED BY <2>1, Five, Zenon
<1>5. Len(t) = l
  BY <1>b, <1>2, <1>4
<1>6. /\ s \in Seq(Migration) /\ \A i \in 1..Len(s) : s[i] = Migrations[Current - Len(s) + i]
      /\ t \in Seq(Migration) /\ \A i \in 1..Len(t) : t[i] = Migrations[Current - Len(t) + i]
  BY <1>4, Zenon DEF IsRest
<1>7. s = t
  <2>1. Len(s) = Len(t)
    BY <1>1, <1>5
  <2>2. \A i \in 1..Len(s) : s[i] = t[i]
    BY <1>6, <2>1, Zenon
  <2> QED BY <1>6, <2>1, <2>2, SeqEqual
<1> QED BY <1>2, <1>3, <1>7, Zenon

\* Types: every setting is of its schema, and every command is at a place, of a kind
\* and about what it may be.
THEOREM TypeCorrect == Spec => []TypeOK
<1>1. Shape /\ Names => TypeOK
  <2> SUFFICES ASSUME Shape, Names PROVE TypeOK
    OBVIOUS
  <2>1. \A c \in Cmd : \E i \in 1..Current + 1 : todo[c] = SubSeq(Migrations, i, Current)
    BY RestOf DEF Shape
  <2>2. file \in File /\ pc \in [Cmd -> Place]
    BY DEF Shape
  <2>3. /\ ssh \in Seq(Piece) /\ made \subseteq Path /\ linked \subseteq Path
        /\ kind \in [Cmd -> Kind] /\ about \in [Cmd -> App \cup Path \cup {None}]
        /\ excuse \subseteq {"upgrades", "killed", "ports", "ssh", "keys", "groups"}
    BY DEF Names
  <2> QED BY <2>1, <2>2, <2>3, Zenon DEF TypeOK, Place, Piece
<1>2. IInv => Shape
  BY DEF IInv
<1> QED BY <1>1, <1>2, InitNames, StepNames, AlwaysIInv, PTL DEF Spec

\* The user's own ssh configuration stays as it is: linkNewConfigFile and
\* deleteBzConfigContents touch nothing of it, whatever was linked before.
THEOREM OwnKeptAlways == Spec => []OwnKept
<1>1. SshInv => OwnKept
  BY DEF SshInv, Unwritten, Writing, Good, OwnKept, Untruncated
<1> QED BY <1>1, AlwaysSshInv, PTL

\* What was linked last is included, once, and the file that is included exists:
\* generateSshConfigHandler makes it before and removes it after.
THEOREM LinkedOnceAlways == Spec => []LinkedOnce
<1>1. SshInv => LinkedOnce
  BY DEF SshInv, Unwritten, Writing, Good, Included, LinkedOnce, Untruncated
<1> QED BY <1>1, AlwaysSshInv, PTL
=============================================================================

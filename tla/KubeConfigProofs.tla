-------------------------- MODULE KubeConfigProofs --------------------------
(* Theorems about KubeConfig, for any commands, names, files and edits.     *)
EXTENDS KubeConfig, Integers, TLAPS, WellFoundedInduction

-----------------------------------------------------------------------------
(* The newest of some daemons *)

\* A set of naturals that is not empty has a least element.
LEMMA Least ==
  ASSUME NEW T, T \subseteq Nat, T # {}
  PROVE  \E x \in T : \A y \in T : x <= y
<1> DEFINE R == OpToRel(<, Nat)
<1>1. IsWellFoundedOn(R, Nat)
  BY NatLessThanWellFounded
<1>2. \A a, b \in Nat : a < b => <<a, b>> \in R
  BY DEF OpToRel
<1> HIDE DEF R
<1>3. PICK x \in T : \A y \in T : <<y, x>> \notin R
  BY <1>1, WFMin, Zenon
<1>4. \A y \in T : ~(y < x)
  BY <1>2, <1>3
<1>5. x \in Nat /\ \A y \in T : y \in Nat
  OBVIOUS
<1> QED BY <1>3, <1>4, <1>5

\* Of daemons recorded so far there is a newest one.
LEMMA NewestIn ==
  ASSUME NEW S \in SUBSET Conn, S # {}, store \in [Conn -> Nat],
         NEW N \in Nat, \A c \in Conn : store[c] <= N
  PROVE  Newest(S) \in S
<1> DEFINE T == {N - store[c] : c \in S}
<1>1. \A c \in S : store[c] \in Nat /\ store[c] <= N /\ N - store[c] \in Nat
  <2> SUFFICES ASSUME NEW c \in S
               PROVE  store[c] \in Nat /\ store[c] <= N /\ N - store[c] \in Nat
    OBVIOUS
  <2>1. store[c] \in Nat /\ store[c] <= N
    OBVIOUS
  <2> QED BY <2>1
<1>2. T \subseteq Nat
  BY <1>1
<1>3. PICK c \in S : TRUE
  OBVIOUS
<1>4. T # {}
  BY <1>3, Zenon
<1> HIDE DEF T
<1>5. PICK t \in T : \A y \in T : t <= y
  BY <1>2, <1>4, Least
<1>6. PICK d \in S : t = N - store[d]
  BY <1>5 DEF T
<1>7. ASSUME NEW e \in S PROVE store[e] <= store[d]
  <2>1. N - store[e] \in T
    BY DEF T
  <2>2. N - store[d] <= N - store[e]
    BY <2>1, <1>5, <1>6
  <2> QED BY <2>2, <1>1
<1> QED BY <1>7 DEF Newest

-----------------------------------------------------------------------------
(* What happens in a step, one case for each kind of action. *)

Merging(p) == \E cs \in SUBSET Conn :
  /\ LoadAndMerge(p, Generated(cs, token[p]))
  /\ IF p \in Conn THEN pc[p] = "loading" /\ cs = {p} ELSE pc[p] = "rolling" /\ cs = Recorded

ConnectStep(c) == StartConnect(c) \/ SpawnDaemon(c) \/ AddDaemon(c)
                  \/ ServerReady(c) \/ DaemonDies(c)

StartStep(k) == StartList(k) \/ StartDisconnect(k) \/ StartKube(k)
                \/ StartGenerate(k, "generate") \/ StartGenerate(k, "force")

OtherStep(k) == CheckRunning(k) \/ RollElsewhere(k) \/ FinishKube(k)

LEMMA Steps ==
  ASSUME [Next]_vars, NEW G,
         \A p \in Proc : ReadSettings(p) \/ StoreSettings(p) => G,
         \A p \in Proc : WriteFile(p) => G,
         \A p \in Proc : Killed(p) => G,
         \A p \in Proc : Merging(p) => G,
         \A c \in Conn : ConnectStep(c) => G,
         \A k \in Cmd : StartStep(k) => G,
         \A k \in Cmd : OtherStep(k) => G,
         \A k \in Cmd : LoadToFilter(k) => G,
         \A k \in Cmd : Judge(k) => G,
         \A k \in Cmd : OverwriteFile(k) => G,
         \A k \in Cmd : \A left \in SUBSET Conn : ShutDownAll(k, left) => G,
         \A e \in Edits : Edit(e[1], e[2]) => G,
         \A n \in Name : SwitchContext(n) => G,
         LoseFiles => G,
         UNCHANGED vars => G
  PROVE  G
<1>1. \A c \in Conn : LoadForDaemon(c) => c \in Proc /\ Merging(c)
  <2> SUFFICES ASSUME NEW c \in Conn, LoadForDaemon(c) PROVE Merging(c)
    BY DEF Proc
  <2>1. {c} \in SUBSET Conn
    OBVIOUS
  <2> QED BY <2>1 DEF LoadForDaemon, Merging
<1>2. \A k \in Cmd : RollDaemons(k) => k \in Proc /\ Merging(k)
  <2> SUFFICES ASSUME NEW k \in Cmd, RollDaemons(k) PROVE Merging(k)
    BY DEF Proc
  <2>1. Recorded \in SUBSET Conn /\ k \notin Conn
    BY KubeAssumption DEF Recorded
  <2> QED BY <2>1 DEF RollDaemons, Merging
<1>3. ASSUME NEW c \in Conn, StartConnect(c) \/ SpawnDaemon(c) \/ LoadForDaemon(c)
                             \/ AddDaemon(c) \/ ServerReady(c) \/ DaemonDies(c)
      PROVE  G
  BY <1>1, <1>3 DEF ConnectStep
<1>4. ASSUME NEW k \in Cmd, StartList(k) \/ StartDisconnect(k) \/ StartKube(k)
                            \/ CheckRunning(k) \/ LoadToFilter(k) \/ Judge(k)
                            \/ OverwriteFile(k) \/ RollDaemons(k) \/ RollElsewhere(k)
                            \/ FinishKube(k)
      PROVE  G
  BY <1>2, <1>4 DEF StartStep, OtherStep
<1>5. ASSUME NEW k \in Cmd, NEW j \in {"generate", "force"}, StartGenerate(k, j)
      PROVE  G
  BY <1>5 DEF StartStep
<1> QED BY <1>3, <1>4, <1>5 DEF Next

-----------------------------------------------------------------------------
(* Types *)

\* The types, and that daemons are counted as they are recorded.
Typed == TypeOK /\ \A c \in Conn : store[c] <= adds

LEMMA MergedType ==
  ASSUME NEW f \in Config, NEW g \in Config
  PROVE  Merged(f, g) \in Config
  BY DEF Merged, OrElse, Config

LEMMA GeneratedType ==
  ASSUME Typed, NEW cs \in SUBSET Conn, NEW t \in Token
  PROVE  Generated(cs, t) \in Config
<1> USE KubeAssumption
<1>1. \A S \in SUBSET Conn : S # {} => Newest(S) \in S
  BY NewestIn DEF Typed, TypeOK
<1> DEFINE Of(n) == {c \in cs : NameOf[c] = n}
<1>2. \A n \in Name : Of(n) # {} => PortOf[Newest(Of(n))] \in Port
  <2> SUFFICES ASSUME NEW n \in Name, Of(n) # {} PROVE PortOf[Newest(Of(n))] \in Port
    OBVIOUS
  <2>1. Newest(Of(n)) \in Of(n)
    BY <1>1
  <2> QED BY <2>1
<1>3. cs # {} => NameOf[Newest(cs)] \in Name
  BY <1>1
<1>4. 0 \in Token
  BY DEF Token
<1> QED BY <1>2, <1>3, <1>4 DEF Generated, Config, Context

LEMMA LoadedType ==
  ASSUME NEW f \in Config
  PROVE  /\ Loaded(f) \in Config /\ Loaded(f).contexts = f.contexts
         /\ Loaded(f).clusters = f.clusters /\ Loaded(f).users = f.users
  BY DEF Loaded, Config

LEMMA FilteredType ==
  ASSUME NEW f \in Config
  PROVE  Filtered(f) \in Config
<1>1. 0 \in Token
  BY KubeAssumption DEF Token
<1> QED BY <1>1 DEF Filtered, Config

LEMMA TypedStep == Typed /\ [Next]_vars => Typed'
<1> SUFFICES ASSUME Typed, [Next]_vars PROVE Typed'
  OBVIOUS
<1> USE DEF Typed, TypeOK, history, counts, Goto
<1>1. ASSUME NEW p \in Proc, ReadSettings(p) \/ StoreSettings(p) PROVE Typed'
  <2>1. AfterSettings(p) \in {"spawning", "checking", "kubectl", "rolling"}
    BY DEF AfterSettings
  <2>2. CASE ReadSettings(p) /\ NeedsToken(p)
    BY <2>2, KubeAssumption DEF ReadSettings, Token
  <2>3. CASE ReadSettings(p) /\ ~NeedsToken(p)
    BY <2>1, <2>3 DEF ReadSettings
  <2>4. CASE StoreSettings(p)
    BY <2>1, <2>4 DEF StoreSettings
  <2> QED BY <1>1, <2>2, <2>3, <2>4
<1>2. ASSUME NEW p \in Proc, WriteFile(p) \/ Killed(p) PROVE Typed'
  BY <1>2 DEF WriteFile, Killed, Proc
<1>3. ASSUME NEW c \in Conn, ConnectStep(c) PROVE Typed'
  BY <1>3 DEF ConnectStep, StartConnect, SpawnDaemon, AddDaemon, ServerReady,
              DaemonDies, Overlapping, Proc
<1>4. ASSUME NEW p \in Proc, Merging(p) PROVE Typed'
  <2>1. PICK cs \in SUBSET Conn : LoadAndMerge(p, Generated(cs, token[p]))
    BY <1>4 DEF Merging
  <2>2. Merged(Loaded(file), Generated(cs, token[p])) \in Config
    BY GeneratedType, LoadedType, MergedType
  <2> QED BY <2>1, <2>2 DEF LoadAndMerge
<1>5. ASSUME NEW k \in Cmd, StartStep(k) PROVE Typed'
  BY <1>5, KubeAssumption
  DEF StartStep, StartList, StartDisconnect, StartKube, StartGenerate, Start,
      Overlapping, Proc, Running, Recorded
<1>6. ASSUME NEW k \in Cmd, OtherStep(k) \/ LoadToFilter(k) \/ OverwriteFile(k)
      PROVE  Typed'
  BY <1>6, LoadedType DEF OtherStep, CheckRunning, LoadToFilter, OverwriteFile, RollElsewhere,
              FinishKube, AfterFilter, Proc
<1>7. ASSUME NEW k \in Cmd, Judge(k) PROVE Typed'
  BY <1>7, FilteredType DEF Judge, AfterFilter, Proc
<1>8. ASSUME NEW k \in Cmd, NEW left \in SUBSET Conn, ShutDownAll(k, left)
      PROVE  Typed'
  BY <1>8 DEF ShutDownAll, Proc
<1>9. ASSUME NEW e \in Edits, Edit(e[1], e[2]) PROVE Typed'
  <2>1. e[1] \in OwnName /\ e[2] \in Entry
    BY KubeAssumption
  <2>2. e[2].context # None => e[2].context.cluster \in Name
    BY <2>1, KubeAssumption DEF Entry, Context
  <2>3. file' \in Config
    BY <1>9, <2>1 DEF Edit, Config, Entry, OwnName
  <2>4. lent' \subseteq Name
    BY <1>9, <2>2 DEF Edit
  <2> QED BY <1>9, <2>1, <2>3, <2>4 DEF Edit
<1>10. ASSUME LoseFiles PROVE Typed'
  BY <1>10 DEF LoseFiles
<1>11. CASE UNCHANGED vars
  BY <1>11 DEF vars
<1>s. ASSUME NEW n \in Name, SwitchContext(n) PROVE Typed'
  BY <1>s DEF SwitchContext, Config
<1> HIDE DEF Typed
<1> QED BY <1>1, <1>2, <1>3, <1>4, <1>5, <1>6, <1>7, <1>8, <1>9, <1>10, <1>11, <1>s, Steps

LEMMA TypedInit == Init => Typed
<1> SUFFICES ASSUME Init PROVE Typed
  OBVIOUS
<1>0. file \in Config
  BY KubeAssumption DEF Init
<1>1. \A n \in OwnName : At(file, n) \in Entry
  BY <1>0 DEF At, Entry, Config, OwnName
<1>2. \A n \in Name : IsManaged(file, n) => file.contexts[n].cluster \in Name
  BY <1>0 DEF IsManaged, Config, Context
<1>3. lent \subseteq Name
  BY <1>2 DEF Init
<1> QED BY <1>0, <1>1, <1>3, KubeAssumption DEF Init, Typed, TypeOK, Token

\* Every variable keeps its type.
THEOREM TypeCorrect == Spec => []TypeOK
<1>1. Typed => TypeOK
  BY DEF Typed
<1> QED BY <1>1, TypedInit, TypedStep, PTL DEF Spec

-----------------------------------------------------------------------------
(* The user's own entries *)

\* A configuration has what the user wants under a name, or the zli has taken
\* it for its own.
Kept(f, n, w) ==
  /\ f.users[n] = w.user
  /\ f.contexts[n] = w.context \/ (~IsOwn(w.context) /\ f.contexts[n] = None)
  /\ f.clusters[n] = w.cluster \/ (n \in lent /\ f.clusters[n] = None)

\* The clusters of the user's own that its managed contexts name are lent.
Lends(f) == \A m \in Name :
  IsManaged(f, m) /\ f.contexts[m].cluster \in OwnName => f.contexts[m].cluster \in lent

Holding == {"judging", "overwriting", "writing"}

\* So has the file, and so has every copy that is going to be written.
CopiesKept ==
  /\ Lends(file) /\ \A p \in Proc : pc[p] \in Holding => Lends(copy[p])
  /\ \A n \in OwnName \ raced :
       /\ Kept(file, n, wanted[n])
       /\ \A p \in Proc : pc[p] \in Holding => Kept(copy[p], n, wanted[n])

LEMMA OwnNames == /\ OwnName \subseteq Name /\ Managed \notin OwnName
                  /\ \A c \in Conn : NameOf[c] \notin OwnName
  BY DEF OwnName

\* What is generated has none of the user's names, and refers to none.
LEMMA MergedKeeps ==
  ASSUME NEW f \in Config, NEW cs \in SUBSET Conn, NEW t,
         NEW g, g = Merged(Loaded(f), Generated(cs, t))
  PROVE  /\ \A n \in OwnName : /\ g.contexts[n] = f.contexts[n]
                                /\ g.clusters[n] = f.clusters[n]
                                /\ g.users[n] = f.users[n]
         /\ Lends(f) => Lends(g)
<1>0. /\ g.contexts = OrElse(Generated(cs, t).contexts, f.contexts, None)
      /\ g.clusters = OrElse(Generated(cs, t).clusters, f.clusters, None)
      /\ g.users = OrElse(Generated(cs, t).users, f.users, 0)
  BY LoadedType DEF Merged
<1> HIDE DEF Generated
<1>1. ASSUME NEW n \in OwnName
      PROVE  /\ g.contexts[n] = f.contexts[n] /\ g.clusters[n] = f.clusters[n]
             /\ g.users[n] = f.users[n]
  <2>1. n \in Name /\ {c \in cs : NameOf[c] = n} = {} /\ n # Managed
    BY <1>1, OwnNames
  <2>2. /\ Generated(cs, t).contexts[n] = None /\ Generated(cs, t).clusters[n] = None
        /\ Generated(cs, t).users[n] = 0
    BY <2>1 DEF Generated
  <2> QED BY <1>0, <2>1, <2>2 DEF OrElse
<1>2. ASSUME Lends(f), NEW m \in Name, IsManaged(g, m), g.contexts[m].cluster \in OwnName
      PROVE  g.contexts[m].cluster \in lent
  <2>1. CASE {c \in cs : NameOf[c] = m} = {}
    <3>1. Generated(cs, t).contexts[m] = None
      BY <2>1 DEF Generated
    <3>2. g.contexts[m] = f.contexts[m]
      BY <1>0, <3>1 DEF OrElse
    <3> QED BY <1>2, <3>2 DEF Lends, IsManaged
  <2>2. CASE {c \in cs : NameOf[c] = m} # {}
    <3>1. Generated(cs, t).contexts[m] = [cluster |-> m, user |-> Managed]
      BY <2>2 DEF Generated
    <3>2. [cluster |-> m, user |-> Managed] # None
      BY KubeAssumption DEF Context
    <3>3. g.contexts[m] = [cluster |-> m, user |-> Managed]
      BY <1>0, <3>1, <3>2 DEF OrElse
    <3>4. m \notin OwnName
      BY <2>2, OwnNames
    <3> QED BY <1>2, <3>3, <3>4
  <2> QED BY <2>1, <2>2
<1> QED BY <1>1, <1>2 DEF Lends

\* What is filtered out refers to the zli's user, or is lent to it.
LEMMA FilteredKeeps ==
  ASSUME NEW f \in Config, Lends(f)
  PROVE  /\ Lends(Filtered(f))
         /\ \A n \in OwnName : \A w : Kept(f, n, w) => Kept(Filtered(f), n, w)
<1> DEFINE g == Filtered(f)
           gone == {f.contexts[n].cluster : n \in Stale(f)}
<1>0. /\ g.contexts = [n \in Name |-> IF n \in Stale(f) THEN None ELSE f.contexts[n]]
      /\ g.clusters = [n \in Name |-> IF n \in gone THEN None ELSE f.clusters[n]]
      /\ g.users = [n \in Name |-> IF n = Managed /\ Running = {} THEN 0 ELSE f.users[n]]
  BY DEF Filtered, Config
<1>2. \A n \in Stale(f) : n \in Name /\ IsManaged(f, n)
  BY DEF Stale
<1> HIDE DEF g
<1>3. \A n \in OwnName : n \in gone => n \in lent
  BY <1>2 DEF Lends
<1> HIDE DEF gone
<1>4. ASSUME NEW m \in Name, IsManaged(g, m), g.contexts[m].cluster \in OwnName
      PROVE  g.contexts[m].cluster \in lent
  <2>1. g.contexts[m] = f.contexts[m]
    BY <1>0, <1>4 DEF IsManaged
  <2> QED BY <1>4, <2>1 DEF Lends, IsManaged
<1>5. ASSUME NEW n \in OwnName, NEW w, Kept(f, n, w) PROVE Kept(g, n, w)
  <2>1. n \in Name /\ n # Managed
    BY OwnNames
  <2>2. g.users[n] = f.users[n]
    BY <1>0, <2>1
  <2>3. g.clusters[n] = f.clusters[n] \/ (g.clusters[n] = None /\ n \in lent)
    BY <1>0, <1>3, <2>1
  <2>4. g.contexts[n] = f.contexts[n] \/ (g.contexts[n] = None /\ IsManaged(f, n))
    BY <1>0, <1>2, <2>1
  <2>5. IsManaged(f, n) => ~IsOwn(w.context) \/ w.context # f.contexts[n]
    BY DEF IsManaged, IsOwn
  <2> QED BY <1>5, <2>2, <2>3, <2>4, <2>5 DEF Kept, IsManaged
<1> QED BY <1>4, <1>5 DEF g, Lends

LEMMA CopiesStep == Typed /\ CopiesKept /\ [Next]_vars => CopiesKept'
<1> SUFFICES ASSUME Typed, CopiesKept, [Next]_vars PROVE CopiesKept'
  OBVIOUS
<1> USE DEF history, counts, Goto
<1>a. /\ file \in Config /\ copy \in [Proc -> Config] /\ Conn \subseteq Proc
      /\ Cmd \subseteq Proc /\ DOMAIN pc = Proc
  BY DEF Typed, TypeOK, Proc
\* Steps that leave the file and the copies alone and start no holding of one.
<1>b. ASSUME UNCHANGED <<file, copy, wanted, raced, lent>>,
             \A p \in Proc : pc'[p] \in Holding => pc[p] \in Holding
      PROVE  CopiesKept'
  BY <1>b DEF CopiesKept, Kept, Lends, IsManaged
<1>1. ASSUME NEW p \in Proc, ReadSettings(p) \/ StoreSettings(p) PROVE CopiesKept'
  <2>1. AfterSettings(p) \notin Holding
    BY DEF AfterSettings, Holding
  <2> QED BY <1>1, <1>a, <1>b, <2>1 DEF ReadSettings, StoreSettings, Holding
<1>2. ASSUME NEW p \in Proc, WriteFile(p) PROVE CopiesKept'
  BY <1>2, <1>a DEF WriteFile, CopiesKept, Kept, Lends, IsManaged, Holding
<1>3. ASSUME NEW p \in Proc, Killed(p) PROVE CopiesKept'
  BY <1>3, <1>a, <1>b DEF Killed, Holding
<1>4. ASSUME NEW p \in Proc, Merging(p) PROVE CopiesKept'
  <2>1. PICK cs \in SUBSET Conn : LoadAndMerge(p, Generated(cs, token[p]))
    BY <1>4 DEF Merging
  <2>0. copy'[p] = Merged(Loaded(file), Generated(cs, token[p]))
    BY <1>a, <2>1 DEF LoadAndMerge
  <2>2. /\ Lends(copy'[p])
        /\ \A n \in OwnName : /\ copy'[p].contexts[n] = file.contexts[n]
                               /\ copy'[p].clusters[n] = file.clusters[n]
                               /\ copy'[p].users[n] = file.users[n]
    <3> DEFINE g == copy'[p]
    <3>1. g = Merged(Loaded(file), Generated(cs, token[p])) /\ file \in Config /\ Lends(file)
      BY <1>a, <2>0 DEF CopiesKept
    <3> HIDE DEF g
    <3>2. /\ Lends(g)
          /\ \A n \in OwnName : /\ g.contexts[n] = file.contexts[n]
                                 /\ g.clusters[n] = file.clusters[n]
                                 /\ g.users[n] = file.users[n]
      BY <3>1, MergedKeeps
    <3> QED BY <3>2 DEF g
  <2>3. \A q \in Proc \ {p} : copy'[q] = copy[q] /\ pc'[q] = pc[q]
    BY <1>a, <2>1 DEF LoadAndMerge
  <2>4. UNCHANGED <<file, wanted, raced, lent>>
    BY <2>1 DEF LoadAndMerge
  <2>5. Lends(copy[p])' /\ Lends(file)'
    BY <2>2, <2>4 DEF CopiesKept, Lends, IsManaged
  <2>6. \A q \in Proc \ {p} : pc'[q] \in Holding => Lends(copy[q])'
    BY <2>3, <2>4 DEF CopiesKept, Lends, IsManaged
  <2>7. ASSUME NEW n \in OwnName \ raced'
        PROVE  /\ Kept(file, n, wanted[n])'
               /\ \A q \in Proc : pc'[q] \in Holding => Kept(copy[q], n, wanted[n])'
    <3>1. Kept(file, n, wanted[n])
      BY <2>4, <2>7 DEF CopiesKept
    <3>2. Kept(copy[p], n, wanted[n])' /\ Kept(file, n, wanted[n])'
      BY <2>2, <2>4, <3>1 DEF Kept
    <3>3. \A q \in Proc \ {p} : pc'[q] \in Holding => Kept(copy[q], n, wanted[n])'
      BY <2>3, <2>4, <2>7 DEF CopiesKept, Kept
    <3> QED BY <3>2, <3>3
  <2> QED BY <2>5, <2>6, <2>7 DEF CopiesKept
<1>5. ASSUME NEW c \in Conn, ConnectStep(c) PROVE CopiesKept'
  BY <1>5, <1>a, <1>b DEF ConnectStep, StartConnect, SpawnDaemon, AddDaemon,
                          ServerReady, DaemonDies, Holding
<1>6. ASSUME NEW k \in Cmd, StartStep(k) PROVE CopiesKept'
  BY <1>6, <1>a, <1>b DEF StartStep, StartList, StartDisconnect, StartKube,
                          StartGenerate, Start, Holding
<1>7. ASSUME NEW k \in Cmd, OtherStep(k) PROVE CopiesKept'
  BY <1>7, <1>a, <1>b DEF OtherStep, CheckRunning, RollElsewhere, FinishKube, Holding
<1>8. ASSUME NEW k \in Cmd, LoadToFilter(k) PROVE CopiesKept'
  <2>1. copy'[k] = Loaded(file) /\ \A q \in Proc \ {k} : copy'[q] = copy[q] /\ pc'[q] = pc[q]
    BY <1>8, <1>a DEF LoadToFilter
  <2>2. UNCHANGED <<file, wanted, raced, lent>>
    BY <1>8 DEF LoadToFilter
  <2>3. /\ copy'[k].contexts = file.contexts /\ copy'[k].clusters = file.clusters
        /\ copy'[k].users = file.users
    BY <1>a, <2>1, LoadedType
  <2> QED BY <2>1, <2>2, <2>3 DEF CopiesKept, Kept, Lends, IsManaged
<1>9. ASSUME NEW k \in Cmd, Judge(k) PROVE CopiesKept'
  <2>0. copy'[k] = Filtered(copy[k]) /\ pc[k] = "judging" /\ Lends(copy[k])
    BY <1>9, <1>a DEF Judge, CopiesKept, Holding
  <2>1. Lends(copy'[k]) /\ \A n \in OwnName \ raced : Kept(copy'[k], n, wanted[n])
    BY <1>a, <2>0, FilteredKeeps DEF CopiesKept, Holding
  <2>2. \A q \in Proc \ {k} : copy'[q] = copy[q] /\ pc'[q] = pc[q]
    BY <1>9, <1>a DEF Judge
  <2>3. UNCHANGED <<file, wanted, raced, lent>>
    BY <1>9 DEF Judge
  <2> QED BY <2>1, <2>2, <2>3 DEF CopiesKept, Kept, Lends, IsManaged
<1>10. ASSUME NEW k \in Cmd, OverwriteFile(k) PROVE CopiesKept'
  <2>1. AfterFilter(k) \notin Holding
    BY DEF AfterFilter, Holding
  <2> QED BY <1>10, <1>a, <2>1 DEF OverwriteFile, CopiesKept, Kept, Lends, IsManaged, Holding
<1>11. ASSUME NEW k \in Cmd, NEW left \in SUBSET Conn, ShutDownAll(k, left)
       PROVE  CopiesKept'
  BY <1>11, <1>a, <1>b DEF ShutDownAll, Holding
<1>12. ASSUME NEW e \in Edits, Edit(e[1], e[2]) PROVE CopiesKept'
  <2>1. e[1] \in OwnName /\ e[1] \in Name /\ e[2] \in Entry
    BY KubeAssumption, OwnNames
  <2>2. /\ file'.contexts = [file.contexts EXCEPT ![e[1]] = e[2].context]
        /\ file'.clusters = [file.clusters EXCEPT ![e[1]] = e[2].cluster]
        /\ file'.users = [file.users EXCEPT ![e[1]] = e[2].user]
        /\ wanted' = [wanted EXCEPT ![e[1]] = e[2]]
    BY <1>12, <1>a DEF Edit, Config
  <2>3. UNCHANGED <<copy, pc>> /\ lent \subseteq lent'
    BY <1>12 DEF Edit
  <2>4. ASSUME NEW m \in Name, IsManaged(file', m), file'.contexts[m].cluster \in OwnName
        PROVE  file'.contexts[m].cluster \in lent'
    <3>1. CASE m = e[1]
      <4>1. file'.contexts[m] = e[2].context
        BY <1>a, <2>1, <2>2, <3>1 DEF Config
      <4> QED BY <1>12, <2>4, <4>1 DEF Edit, IsManaged
    <3>2. CASE m # e[1]
      <4>1. file'.contexts[m] = file.contexts[m]
        BY <1>a, <2>2, <3>2 DEF Config
      <4> QED BY <2>3, <2>4, <4>1 DEF CopiesKept, Lends, IsManaged
    <3> QED BY <3>1, <3>2
  <2>5. Lends(file)' /\ \A p \in Proc : pc'[p] \in Holding => Lends(copy[p])'
    BY <2>3, <2>4 DEF CopiesKept, Lends, IsManaged
  <2>7. ASSUME NEW n \in OwnName \ raced, n # e[1]
        PROVE  /\ Kept(file, n, wanted[n])'
               /\ \A p \in Proc : pc'[p] \in Holding => Kept(copy[p], n, wanted[n])'
    <3>1. At(file', n) = At(file, n) /\ wanted'[n] = wanted[n]
      BY <1>a, <2>2, <2>7, OwnNames DEF Config, At, Typed, TypeOK
    <3> QED BY <2>3, <2>7, <3>1 DEF CopiesKept, Kept, At
  <2>8. Kept(file, e[1], wanted[e[1]])'
    BY <1>a, <2>1, <2>2 DEF Kept, Config, Typed, TypeOK
  <2>9. CASE Busy = {}
    <3>1. \A p \in Proc : pc[p] \notin Holding
      BY <2>9 DEF Busy, Holding
    <3>2. raced' = raced \ {e[1]}
      BY <1>12, <2>9 DEF Edit
    <3> QED BY <2>3, <2>5, <2>7, <2>8, <3>1, <3>2 DEF CopiesKept
  <2>10. CASE Busy # {}
    <3>1. raced' = raced \cup {e[1]}
      BY <1>12, <2>10 DEF Edit
    <3> QED BY <2>5, <2>7, <3>1 DEF CopiesKept
  <2> QED BY <2>9, <2>10
<1>13. ASSUME LoseFiles PROVE CopiesKept'
  BY <1>13, <1>b DEF LoseFiles
<1>14. CASE UNCHANGED vars
  BY <1>14, <1>b DEF vars
<1>s. ASSUME NEW n \in Name, SwitchContext(n) PROVE CopiesKept'
  <2>1. \A m \in Name : At(file', m) = At(file, m) /\ (IsManaged(file', m) <=> IsManaged(file, m))
    BY <1>s, <1>a DEF SwitchContext, At, IsManaged, Config
  <2>2. UNCHANGED <<copy, wanted, raced, lent, pc>>
    BY <1>s DEF SwitchContext
  <2> QED BY <2>1, <2>2, OwnNames DEF CopiesKept, Kept, Lends, At
<1> QED BY <1>1, <1>2, <1>3, <1>4, <1>5, <1>6, <1>7, <1>8, <1>9, <1>10, <1>11,
           <1>12, <1>13, <1>14, <1>s, Steps

\* No command takes or brings back a context, a cluster or a user that the user
\* has made, whatever overlaps and is interrupted.  Only edits made while a command
\* runs can be lost, and what the user made for the zli's user can be filtered.
THEOREM OthersKeptAlways == Spec => []OthersKept
<1>1. Init => CopiesKept
  <2> SUFFICES ASSUME Init PROVE CopiesKept
    OBVIOUS
  <2>1. Lends(file) /\ \A p \in Proc : pc[p] \notin Holding
    BY DEF Init, Lends, Holding
  <2>2. \A n \in OwnName : Kept(file, n, wanted[n])
    BY DEF Init, Kept, At
  <2> QED BY <2>1, <2>2 DEF CopiesKept
<1>2. CopiesKept => OthersKept
  BY DEF CopiesKept, OthersKept, Kept
<1> QED BY <1>1, <1>2, CopiesStep, TypedInit, TypedStep, PTL DEF Spec

-----------------------------------------------------------------------------
(* Daemons stay reachable *)

\* A daemon whose connect was not overlapped and is over.
Serving(c) == c \in Running \ disturbed /\ pc[c] = "done"
Settled == \A k \in Cmd : ~Forcing(k)
Forced(p) == p \in Cmd /\ job[p] = "force"

Reaches(f, c) ==
  LET n == NameOf[c]
  IN /\ f.contexts[n] = [cluster |-> n, user |-> Managed]
     /\ f.clusters[n] = PortOf[c] /\ f.users[Managed] = token[c]

\* A connect that nothing has overlapped so far is alone: what it has stored
\* and written is still there, and its daemon is the newest.
Alone(c) ==
  /\ Busy = {c}
  /\ pc[c] \in {"generating", "spawning", "loading", "writing", "adding", "waiting"} => token[c] # 0
  /\ pc[c] \in {"spawning", "loading", "writing", "adding", "waiting"} => settings.token = token[c]
  /\ pc[c] = "writing" => Reaches(copy[c], c)
  /\ pc[c] \in {"adding", "waiting"} => Reaches(file, c)
  /\ pc[c] = "waiting" => \A d \in Conn \ {c} : store[d] < store[c]
Lonely == \A c \in Conn \cap Busy : c \notin disturbed => Alone(c)

\* While a daemon serves, none with its name is to be recorded.
Unrivalled(c) == \A d \in Conn \ {c} : NameOf[d] = NameOf[c] =>
  d \notin Busy /\ store[d] < store[c]

\* A generate --force that has disconnected the daemons has left none of them.
Spared(c) == \A k \in Cmd : Forced(k) =>
  pc[k] \notin {"filtering", "judging", "overwriting", "rolling", "writing"}

\* While no token is about to change, all have the token of the daemons that
\* serve, and the file and every copy of it lead to them.
TokenOf(c) ==
  /\ token[c] # 0 /\ settings.token = token[c]
  /\ \A p \in Proc :
       \/ pc[p] \in {"spawning", "loading", "rolling", "kubectl"}
       \/ pc[p] = "generating" /\ ~Forced(p)
       => token[p] = token[c]
CopiesLead(c) ==
  Reaches(file, c) /\ \A p \in Proc : pc[p] \in Holding => Reaches(copy[p], c)

Served(c) == Unrivalled(c) /\ Spared(c) /\ (Settled => TokenOf(c) /\ CopiesLead(c))
Serves == \A c \in Conn : Serving(c) => Served(c)

\* Of some daemons, one recorded after the others of its name is the one whose
\* port and token are generated under it.
LEMMA GeneratedReaches ==
  ASSUME Typed, NEW cs \in SUBSET Conn, NEW c \in cs, NEW t \in Token, t = token[c],
         \A d \in cs : NameOf[d] = NameOf[c] /\ d # c => store[d] < store[c]
  PROVE  Reaches(Generated(cs, t), c)
<1> DEFINE same == {d \in cs : NameOf[d] = NameOf[c]}
<1>1. \A d \in Conn : store[d] \in Nat
  BY DEF Typed, TypeOK
<1>2. c \in same /\ \A d \in same : d # c => store[d] < store[c]
  OBVIOUS
<1>3. Newest(same) = c
  BY <1>1, <1>2 DEF Newest
<1>4. NameOf[c] \in Name /\ Managed \in Name /\ cs # {} /\ same # {}
  BY <1>2, KubeAssumption
<1> QED BY <1>3, <1>4 DEF Reaches, Generated

\* What is generated wins over what is merged with it.
LEMMA MergedReaches ==
  ASSUME Typed, NEW f \in Config, NEW g \in Config, NEW c \in Conn, Reaches(g, c), token[c] # 0
  PROVE  Reaches(Merged(f, g), c)
<1>1. NameOf[c] \in Name /\ Managed \in Name
  BY KubeAssumption
<1>2. /\ [cluster |-> NameOf[c], user |-> Managed] # None /\ PortOf[c] # None
  BY <1>1, KubeAssumption DEF Context
<1> QED BY <1>1, <1>2 DEF Reaches, Merged, OrElse

\* Nor does a daemon of another name and the same token get in the way.
LEMMA MergedStillReaches ==
  ASSUME Typed, NEW f \in Config, NEW c \in Conn, Reaches(f, c), token[c] # 0,
         NEW cs \in SUBSET Conn, cs # {}, \A d \in cs : NameOf[d] # NameOf[c]
  PROVE  Reaches(Merged(f, Generated(cs, token[c])), c)
<1>1. NameOf[c] \in Name /\ Managed \in Name
  BY KubeAssumption
<1>2. {d \in cs : NameOf[d] = NameOf[c]} = {}
  OBVIOUS
<1> QED BY <1>1, <1>2 DEF Reaches, Merged, OrElse, Generated

\* What is filtered out leads to no daemon that is recorded.
LEMMA FilteredReaches ==
  ASSUME NEW f \in Config, NEW c \in Running, Reaches(f, c)
  PROVE  Reaches(Filtered(f), c)
<1>1. NameOf[c] \in Name /\ Managed \in Name /\ c \in Recorded /\ c \in Conn
  BY KubeAssumption DEF Running, Recorded
<1>2. f.clusters[NameOf[c]] \in {PortOf[d] : d \in Recorded}
  BY <1>1 DEF Reaches
<1>3. \A n \in Stale(f) : f.contexts[n].cluster # NameOf[c]
  BY <1>2 DEF Stale
<1>4. NameOf[c] \notin Stale(f)
  BY <1>3 DEF Reaches
<1>5. Running # {}
  OBVIOUS
<1>6. /\ Filtered(f).contexts[NameOf[c]] = f.contexts[NameOf[c]]
      /\ Filtered(f).clusters[NameOf[c]] = f.clusters[NameOf[c]]
      /\ Filtered(f).users[Managed] = f.users[Managed]
  BY <1>1, <1>3, <1>4, <1>5 DEF Filtered, Config
<1> QED BY <1>6 DEF Reaches

\* The user's own entries are not on the way.
LEMMA EditReaches ==
  ASSUME Typed, NEW e \in Edits, Edit(e[1], e[2]), NEW c \in Conn, Reaches(file, c)
  PROVE  Reaches(file', c)
<1>1. e[1] \in OwnName /\ NameOf[c] # e[1] /\ Managed # e[1]
  BY KubeAssumption, OwnNames
<1>2. file \in Config
  BY DEF Typed, TypeOK
<1>3. /\ file'.contexts = [file.contexts EXCEPT ![e[1]] = e[2].context]
      /\ file'.clusters = [file.clusters EXCEPT ![e[1]] = e[2].cluster]
      /\ file'.users = [file.users EXCEPT ![e[1]] = e[2].user]
      /\ token' = token
  BY <1>2 DEF Edit, Config, counts
<1>4. /\ file'.contexts[NameOf[c]] = file.contexts[NameOf[c]]
      /\ file'.clusters[NameOf[c]] = file.clusters[NameOf[c]]
      /\ file'.users[Managed] = file.users[Managed]
  BY <1>1, <1>2, <1>3, KubeAssumption DEF Config
<1> QED BY <1>4 DEF Reaches

\* Starting while another is at work marks the connects among the two.
LEMMA LonelyStep == Typed /\ Lonely /\ [Next]_vars => Lonely'
<1> SUFFICES ASSUME Typed, Lonely, [Next]_vars,
                    NEW c \in Conn, c \in Busy', c \notin disturbed'
             PROVE  Alone(c)'
  BY DEF Lonely
<1> USE DEF history, counts, Goto
<1>a. /\ file \in Config /\ copy \in [Proc -> Config] /\ c \in Proc /\ c \notin Cmd
      /\ token \in [Proc -> Token] /\ store \in [Conn -> Nat] /\ DOMAIN pc = Proc
      /\ Cmd \subseteq Proc /\ Conn \subseteq Proc /\ fresh \in Nat
      /\ \A d \in Conn : store[d] <= adds
  BY KubeAssumption DEF Typed, TypeOK, Proc, Token
\* Until it ends, a command is not disturbed by one of its own steps.
<1>b. ASSUME NEW p \in Proc, p \in Busy, UNCHANGED disturbed,
             \A q \in Proc \ {p} : pc'[q] = pc[q]
      PROVE  p = c /\ Alone(c) /\ Busy' = {c}
  <2>1. c \in Busy
    BY <1>a, <1>b DEF Busy
  <2>2. Alone(c) /\ p = c
    BY <1>b, <2>1 DEF Lonely, Alone
  <2> QED BY <1>b, <2>2 DEF Alone, Busy
\* Nobody else is at work: what is around a command leaves it alone.
<1>c. ASSUME UNCHANGED <<disturbed, pc>>
      PROVE  Alone(c) /\ Busy' = {c}
  BY <1>c DEF Lonely, Alone, Busy
<1>1. ASSUME NEW p \in Proc, ReadSettings(p) PROVE Alone(c)'
  <2>1. p \in Busy /\ UNCHANGED disturbed /\ \A q \in Proc \ {p} : pc'[q] = pc[q]
    BY <1>1, <1>a DEF ReadSettings, Busy
  <2>2. p = c /\ Alone(c) /\ Busy' = {c}
    BY <2>1, <1>b
  <2>3. AfterSettings(c) = "spawning"
    BY DEF AfterSettings
  <2>4. CASE NeedsToken(c)
    BY <1>1, <1>a, <2>2, <2>4 DEF ReadSettings, Alone
  <2>5. CASE ~NeedsToken(c)
    BY <1>1, <1>a, <2>2, <2>3, <2>5 DEF ReadSettings, NeedsToken, Alone
  <2> QED BY <2>4, <2>5
<1>2. ASSUME NEW p \in Proc, StoreSettings(p) PROVE Alone(c)'
  <2>1. p \in Busy /\ UNCHANGED disturbed /\ \A q \in Proc \ {p} : pc'[q] = pc[q]
    BY <1>2, <1>a DEF StoreSettings, Busy
  <2>2. p = c /\ Alone(c) /\ Busy' = {c}
    BY <2>1, <1>b
  <2>3. AfterSettings(c) = "spawning"
    BY DEF AfterSettings
  <2> QED BY <1>2, <1>a, <2>2, <2>3 DEF StoreSettings, Alone
<1>3. ASSUME NEW p \in Proc, WriteFile(p) PROVE Alone(c)'
  <2>1. p \in Busy /\ UNCHANGED disturbed /\ \A q \in Proc \ {p} : pc'[q] = pc[q]
    BY <1>3, <1>a DEF WriteFile, Busy
  <2>2. p = c /\ Alone(c) /\ Busy' = {c}
    BY <2>1, <1>b
  <2> QED BY <1>3, <1>a, <2>2 DEF WriteFile, Alone, Reaches
<1>4. ASSUME NEW p \in Proc, Killed(p) PROVE Alone(c)'
  <2>1. disturbed' \in {disturbed, Conn} /\ p \in Busy /\ \A q \in Proc \ {p} : pc'[q] = pc[q]
    BY <1>4, <1>a DEF Killed
  <2>2. p = c
    BY <2>1, <1>b
  <2> QED BY <1>4, <1>a, <2>2 DEF Killed, Busy
<1>5. ASSUME NEW p \in Proc, Merging(p) PROVE Alone(c)'
  <2>1. PICK cs \in SUBSET Conn :
          /\ LoadAndMerge(p, Generated(cs, token[p]))
          /\ IF p \in Conn THEN pc[p] = "loading" /\ cs = {p} ELSE pc[p] = "rolling" /\ cs = Recorded
    BY <1>5 DEF Merging
  <2>2. p \in Busy /\ UNCHANGED disturbed /\ \A q \in Proc \ {p} : pc'[q] = pc[q]
    BY <2>1, <1>a DEF LoadAndMerge, Busy
  <2>3. p = c /\ Alone(c) /\ Busy' = {c}
    BY <2>2, <1>b
  <2>4. cs = {c} /\ pc[c] = "loading" /\ token[c] \in Token /\ token[c] # 0
    BY <1>a, <2>1, <2>3 DEF Alone
  <2>5. Generated(cs, token[c]) \in Config /\ Reaches(Generated(cs, token[c]), c)
    BY <2>4, GeneratedType, GeneratedReaches
  <2>6. Reaches(Merged(Loaded(file), Generated(cs, token[c])), c)
    BY <1>a, <2>4, <2>5, LoadedType, MergedReaches
  <2>7. /\ copy'[c] = Merged(Loaded(file), Generated(cs, token[c])) /\ pc'[c] = "writing"
        /\ UNCHANGED <<file, settings, token, store>>
    BY <1>a, <2>1, <2>3 DEF LoadAndMerge
  <2> QED BY <2>3, <2>4, <2>6, <2>7 DEF Alone, Reaches
<1>6. ASSUME NEW d \in Conn, ConnectStep(d) PROVE Alone(c)'
  <2>1. CASE StartConnect(d)
    <3>1. Busy \subseteq Busy' /\ c \in Busy \cup {d}
      BY <2>1, <1>a DEF StartConnect, Busy
    <3>2. Busy = {} /\ c = d
      BY <2>1, <3>1 DEF StartConnect, Overlapping
    <3>3. Busy' = {c} /\ pc'[c] = "settings"
      BY <2>1, <1>a, <3>2 DEF StartConnect, Busy
    <3> QED BY <3>3 DEF Alone
  <2>2. CASE SpawnDaemon(d) \/ AddDaemon(d) \/ ServerReady(d)
    <3>1. d \in Busy /\ UNCHANGED disturbed /\ \A q \in Proc \ {d} : pc'[q] = pc[q]
      BY <2>2, <1>a DEF SpawnDaemon, AddDaemon, ServerReady, Busy
    <3>2. d = c /\ Alone(c) /\ Busy' = {c}
      BY <3>1, <1>a, <1>b
    <3>3. CASE SpawnDaemon(d) \/ ServerReady(d)
      BY <1>a, <3>2, <3>3 DEF SpawnDaemon, ServerReady, Alone, Busy
    <3>4. CASE AddDaemon(d)
      <4>1. store'[c] = adds + 1 /\ \A e \in Conn \ {c} : store'[e] = store[e]
        BY <1>a, <3>2, <3>4 DEF AddDaemon
      <4>2. adds \in Nat /\ \A e \in Conn \ {c} : store'[e] < store'[c]
        BY <4>1, <1>a DEF Typed, TypeOK
      <4> QED BY <1>a, <3>2, <3>4, <4>2 DEF AddDaemon, Alone, Reaches
    <3> QED BY <2>2, <3>3, <3>4
  <2>3. CASE DaemonDies(d)
    BY <2>3, <1>c DEF DaemonDies, Alone, Reaches
  <2> QED BY <1>6, <2>1, <2>2, <2>3 DEF ConnectStep
<1>7. ASSUME NEW k \in Cmd, StartStep(k) PROVE Alone(c)'
  <2>1. c \in Busy
    BY <1>7, <1>a DEF StartStep, StartList, StartDisconnect, StartKube, StartGenerate, Start, Busy
  <2>2. c \in disturbed'
    BY <1>7, <2>1 DEF StartStep, StartList, StartDisconnect, StartKube, StartGenerate, Start,
                      Overlapping
  <2> QED BY <2>2
<1>8. ASSUME NEW k \in Cmd, OtherStep(k) \/ LoadToFilter(k) \/ Judge(k) \/ OverwriteFile(k)
      PROVE  Alone(c)'
  <2>1. k \in Busy /\ UNCHANGED disturbed /\ \A q \in Proc \ {k} : pc'[q] = pc[q]
    BY <1>8, <1>a DEF OtherStep, CheckRunning, RollElsewhere, FinishKube, LoadToFilter, Judge,
                      OverwriteFile, Busy
  <2> QED BY <2>1, <1>a, <1>b
<1>9. ASSUME NEW k \in Cmd, NEW left \in SUBSET Conn, ShutDownAll(k, left) PROVE Alone(c)'
  <2>1. k \in Busy /\ UNCHANGED disturbed /\ \A q \in Proc \ {k} : pc'[q] = pc[q]
    BY <1>9, <1>a DEF ShutDownAll, Busy
  <2> QED BY <2>1, <1>a, <1>b
<1>10. ASSUME NEW e \in Edits, Edit(e[1], e[2]) PROVE Alone(c)'
  <2>1. Reaches(file, c) => Reaches(file', c)
    BY <1>10, EditReaches
  <2> QED BY <1>10, <1>c, <2>1 DEF Edit, Alone, Reaches
<1>11. ASSUME LoseFiles PROVE Alone(c)'
  BY <1>11, <1>c DEF LoseFiles, Alone, Reaches
<1>12. CASE UNCHANGED vars
  BY <1>12, <1>c DEF vars, Alone, Reaches
<1>s. ASSUME NEW n \in Name, SwitchContext(n) PROVE Alone(c)'
  BY <1>s, <1>a, <1>c DEF SwitchContext, Alone, Reaches, Config
<1> HIDE DEF Alone
<1> QED BY <1>1, <1>2, <1>3, <1>4, <1>5, <1>6, <1>7, <1>8, <1>9, <1>10, <1>11,
           <1>12, <1>s, Steps

\* A daemon that serves has done so before, or its connect was the only command
\* and has come to its end.
Before(c) ==
  /\ store[c] > 0 /\ store'[c] = store[c] /\ token'[c] = token[c] /\ c \in Running
  /\ Serving(c) \/ (Alone(c) /\ ServerReady(c))

LEMMA ServingStep ==
  ASSUME Typed, Lonely, [Next]_vars, NEW c \in Conn, Serving(c)'
  PROVE  Before(c)
<1> USE DEF history, counts, Goto, Serving, Running, Recorded, Before
<1>a. /\ c \in Proc /\ c \notin Cmd /\ token \in [Proc -> Token] /\ store \in [Conn -> Nat]
      /\ DOMAIN pc = Proc /\ Cmd \subseteq Proc /\ Conn \subseteq Proc
      /\ pc'[c] = "done" /\ c \in alive' /\ store'[c] > 0 /\ c \notin disturbed'
  BY KubeAssumption DEF Typed, TypeOK, Proc
<1>1. ASSUME NEW p \in Proc, ReadSettings(p) \/ StoreSettings(p) PROVE Before(c)
  <2>1. AfterSettings(p) # "done"
    BY DEF AfterSettings
  <2>2. p # c
    BY <1>1, <1>a, <2>1 DEF ReadSettings, StoreSettings
  <2> QED BY <1>1, <1>a, <2>2 DEF ReadSettings, StoreSettings
<1>2. ASSUME NEW p \in Proc, WriteFile(p) \/ Killed(p) PROVE Before(c)
  BY <1>2, <1>a DEF WriteFile, Killed
<1>3. ASSUME NEW p \in Proc, Merging(p) PROVE Before(c)
  BY <1>3, <1>a DEF Merging, LoadAndMerge
<1>4. ASSUME NEW d \in Conn, ConnectStep(d) PROVE Before(c)
  <2>1. CASE StartConnect(d) \/ SpawnDaemon(d) \/ AddDaemon(d) \/ DaemonDies(d)
    BY <1>a, <2>1 DEF StartConnect, SpawnDaemon, AddDaemon, DaemonDies
  <2>2. CASE ServerReady(d) /\ d # c
    BY <1>a, <2>2 DEF ServerReady
  <2>3. CASE ServerReady(d) /\ d = c
    <3>1. c \in Busy /\ c \notin disturbed
      BY <1>a, <2>3 DEF ServerReady, Busy
    <3> QED BY <1>a, <2>3, <3>1 DEF ServerReady, Lonely
  <2> QED BY <1>4, <2>1, <2>2, <2>3 DEF ConnectStep
<1>5. ASSUME NEW k \in Cmd, StartStep(k) PROVE Before(c)
  BY <1>5, <1>a DEF StartStep, StartList, StartDisconnect, StartKube, StartGenerate, Start
<1>6. ASSUME NEW k \in Cmd, OtherStep(k) \/ LoadToFilter(k) \/ Judge(k) \/ OverwriteFile(k)
      PROVE  Before(c)
  BY <1>6, <1>a DEF OtherStep, CheckRunning, RollElsewhere, FinishKube, LoadToFilter, Judge,
                    OverwriteFile
<1>7. ASSUME NEW k \in Cmd, NEW left \in SUBSET Conn, ShutDownAll(k, left) PROVE Before(c)
  BY <1>7, <1>a DEF ShutDownAll
<1>8. ASSUME NEW e \in Edits, Edit(e[1], e[2]) PROVE Before(c)
  BY <1>8, <1>a DEF Edit
<1>9. CASE LoseFiles \/ UNCHANGED vars
  BY <1>9, <1>a DEF LoseFiles, vars
<1>s. ASSUME NEW n \in Name, SwitchContext(n) PROVE Before(c)
  BY <1>s, <1>a DEF SwitchContext
<1> HIDE DEF Before, Serving, Running, Recorded
<1> QED BY <1>1, <1>2, <1>3, <1>4, <1>5, <1>6, <1>7, <1>8, <1>9, <1>s, Steps

\* One that begins to serve finds all as its connect has left it.
LEMMA BeginsToServe ==
  ASSUME Typed, NEW c \in Conn, Alone(c), ServerReady(c), c \in Running
  PROVE  Served(c)' \/ ~Serving(c)'
<1> USE DEF history, counts, Goto
<1>1. CASE pc'[c] = "done"
  <2>1. \A p \in Proc : pc'[p] \in {"idle", "done", "failed"}
    BY <1>1 DEF ServerReady, Alone, Busy, Typed, TypeOK
  <2>2. Busy' = {}
    BY <2>1 DEF Busy
  <2>3. /\ UNCHANGED <<file, copy, settings, token, store>> /\ pc[c] = "waiting"
        /\ token[c] # 0 /\ settings.token = token[c] /\ Reaches(file, c)
        /\ \A d \in Conn \ {c} : store[d] < store[c]
    BY DEF ServerReady, Alone
  <2>4. Unrivalled(c)'
    BY <2>2, <2>3 DEF Unrivalled
  <2>5. Spared(c)' /\ TokenOf(c)' /\ CopiesLead(c)'
    BY <2>1, <2>3, KubeAssumption DEF Spared, TokenOf, CopiesLead, Reaches, Holding, Proc
  <2> QED BY <2>4, <2>5 DEF Served
<1> QED BY <1>1 DEF Serving

\* While it serves, no connect to its target passes the check at its start.
LEMMA UnrivalledStep ==
  ASSUME Typed, [Next]_vars, NEW c \in Conn, Serving(c), Serving(c)', Before(c), Served(c)
  PROVE  Unrivalled(c)'
<1> SUFFICES ASSUME NEW d \in Conn \ {c}, NameOf[d] = NameOf[c]
             PROVE  d \notin Busy' /\ store'[d] < store'[c]
  BY DEF Unrivalled
<1> USE DEF history, counts, Goto
<1>a. /\ file \in Config /\ copy \in [Proc -> Config] /\ c \in Proc /\ c \notin Cmd
      /\ token \in [Proc -> Token] /\ store \in [Conn -> Nat] /\ DOMAIN pc = Proc
      /\ DOMAIN job = Cmd /\ Cmd \subseteq Proc /\ Conn \subseteq Proc /\ Conn \cap Cmd = {}
      /\ pc[c] = "done" /\ pc'[c] = "done"
  BY KubeAssumption DEF Typed, TypeOK, Proc, Serving
<1>b. d \notin Busy /\ store[d] < store'[c] /\ store'[c] > 0 /\ pc[d] \in {"idle", "done", "failed"}
  BY <1>a DEF Served, Unrivalled, Before, Busy
<1>1. ASSUME NEW p \in Proc, ReadSettings(p) \/ StoreSettings(p) PROVE d \notin Busy' /\ store'[d] < store'[c]
  BY <1>1, <1>a, <1>b DEF ReadSettings, StoreSettings, Busy
<1>2. ASSUME NEW p \in Proc, WriteFile(p) \/ Killed(p) PROVE d \notin Busy' /\ store'[d] < store'[c]
  BY <1>2, <1>a, <1>b DEF WriteFile, Killed, Busy
<1>3. ASSUME NEW p \in Proc, Merging(p) PROVE d \notin Busy' /\ store'[d] < store'[c]
  BY <1>3, <1>a, <1>b, KubeAssumption DEF Merging, LoadAndMerge, Busy, Proc
<1>4. ASSUME NEW e \in Conn, ConnectStep(e) PROVE d \notin Busy' /\ store'[d] < store'[c]
  BY <1>4, <1>a, <1>b DEF ConnectStep, StartConnect, SpawnDaemon, AddDaemon, ServerReady, DaemonDies,
                          Busy, Before
<1>5. ASSUME NEW k \in Cmd, StartStep(k) PROVE d \notin Busy' /\ store'[d] < store'[c]
  BY <1>5, <1>a, <1>b DEF StartStep, StartList, StartDisconnect, StartKube, StartGenerate, Start, Busy
<1>6. ASSUME NEW k \in Cmd, OtherStep(k) \/ LoadToFilter(k) \/ Judge(k) \/ OverwriteFile(k)
      PROVE  d \notin Busy' /\ store'[d] < store'[c]
  BY <1>6, <1>a, <1>b DEF OtherStep, CheckRunning, RollElsewhere, FinishKube, LoadToFilter, Judge,
                          OverwriteFile, Busy
<1>7. ASSUME NEW k \in Cmd, NEW left \in SUBSET Conn, ShutDownAll(k, left)
      PROVE  d \notin Busy' /\ store'[d] < store'[c]
  BY <1>7, <1>a, <1>b DEF ShutDownAll, Busy
<1>8. ASSUME NEW e \in Edits, Edit(e[1], e[2]) PROVE d \notin Busy' /\ store'[d] < store'[c]
  BY <1>8, <1>b DEF Edit, Busy
<1>9. CASE LoseFiles \/ UNCHANGED vars
  BY <1>9, <1>b DEF LoseFiles, vars, Busy
<1>s. ASSUME NEW n \in Name, SwitchContext(n) PROVE d \notin Busy' /\ store'[d] < store'[c]
  BY <1>s, <1>b DEF SwitchContext, Busy
<1> QED BY <1>1, <1>2, <1>3, <1>4, <1>5, <1>6, <1>7, <1>8, <1>9, <1>s, Steps

\* A generate --force passes its disconnects only when nothing serves.
LEMMA SparedStep ==
  ASSUME Typed, [Next]_vars, NEW c \in Conn, Serving(c), Serving(c)', Served(c)
  PROVE  Spared(c)'
<1> DEFINE Later == {"filtering", "judging", "overwriting", "rolling", "writing"}
<1> SUFFICES ASSUME NEW k \in Cmd, Forced(k)' PROVE pc'[k] \notin Later
  BY DEF Spared
<1> USE DEF history, counts, Goto, Forced
<1>a. /\ file \in Config /\ copy \in [Proc -> Config] /\ c \in Proc /\ c \notin Cmd
      /\ token \in [Proc -> Token] /\ store \in [Conn -> Nat] /\ DOMAIN pc = Proc
      /\ DOMAIN job = Cmd /\ Cmd \subseteq Proc /\ Conn \subseteq Proc /\ Conn \cap Cmd = {}
      /\ pc[c] = "done" /\ pc'[c] = "done"
  BY KubeAssumption DEF Typed, TypeOK, Proc, Serving
<1>b. c \in Running /\ c \in Running'
  BY DEF Serving
<1>c. Forced(k) => pc[k] \notin Later
  BY DEF Served, Spared
<1>1. ASSUME NEW p \in Proc, ReadSettings(p) \/ StoreSettings(p) PROVE pc'[k] \notin Later
  <2>1. Forced(k) => AfterSettings(k) = "checking"
    BY <1>a DEF AfterSettings
  <2> QED BY <1>1, <1>a, <1>c, <2>1 DEF ReadSettings, StoreSettings, NeedsToken
<1>2. ASSUME NEW p \in Proc, WriteFile(p) \/ Killed(p) PROVE pc'[k] \notin Later
  BY <1>2, <1>a, <1>c DEF WriteFile, Killed
<1>3. ASSUME NEW p \in Proc, Merging(p) PROVE pc'[k] \notin Later
  BY <1>3, <1>a, <1>c DEF Merging, LoadAndMerge
<1>4. ASSUME NEW e \in Conn, ConnectStep(e) PROVE pc'[k] \notin Later
  BY <1>4, <1>a, <1>c DEF ConnectStep, StartConnect, SpawnDaemon, AddDaemon, ServerReady, DaemonDies
<1>5. ASSUME NEW m \in Cmd, StartStep(m) PROVE pc'[k] \notin Later
  BY <1>5, <1>a, <1>c DEF StartStep, StartList, StartDisconnect, StartKube, StartGenerate, Start
<1>6. ASSUME NEW m \in Cmd, OtherStep(m) \/ LoadToFilter(m) \/ Judge(m) \/ OverwriteFile(m)
      PROVE  pc'[k] \notin Later
  BY <1>6, <1>a, <1>b, <1>c DEF OtherStep, CheckRunning, RollElsewhere, FinishKube, LoadToFilter,
                                Judge, OverwriteFile
<1>7. ASSUME NEW m \in Cmd, NEW left \in SUBSET Conn, ShutDownAll(m, left) PROVE pc'[k] \notin Later
  BY <1>7, <1>b DEF ShutDownAll, Running, Recorded
<1>8. ASSUME NEW e \in Edits, Edit(e[1], e[2]) PROVE pc'[k] \notin Later
  BY <1>8, <1>c DEF Edit
<1>9. CASE LoseFiles \/ UNCHANGED vars
  BY <1>9, <1>c DEF LoseFiles, vars
<1>s. ASSUME NEW n \in Name, SwitchContext(n) PROVE pc'[k] \notin Later
  BY <1>s, <1>c DEF SwitchContext
<1> QED BY <1>1, <1>2, <1>3, <1>4, <1>5, <1>6, <1>7, <1>8, <1>9, <1>s, Steps

\* No new token is settled on while a daemon serves with the old one.
LEMMA SettledStep ==
  ASSUME Typed, [Next]_vars, NEW c \in Conn, Serving(c)', Settled'
  PROVE  Settled
<1> SUFFICES ASSUME NEW k \in Cmd, Forcing(k) PROVE FALSE
  BY DEF Settled
<1> USE DEF history, counts, Goto, Forcing
<1>a. /\ DOMAIN pc = Proc /\ DOMAIN job = Cmd /\ Cmd \subseteq Proc /\ Conn \cap Cmd = {}
      /\ c \in Running' /\ c \notin disturbed' /\ store \in [Conn -> Nat] /\ k \in Proc
      /\ pc'[k] = pc[k] /\ job'[k] = job[k] => FALSE
      /\ ~Forcing(k)'
  BY KubeAssumption DEF Typed, TypeOK, Proc, Serving, Settled
<1>1. ASSUME NEW p \in Proc, ReadSettings(p) \/ StoreSettings(p) PROVE FALSE
  BY <1>1, <1>a DEF ReadSettings, StoreSettings
<1>2. ASSUME NEW p \in Proc, WriteFile(p) \/ Killed(p) PROVE FALSE
  BY <1>2, <1>a DEF WriteFile, Killed
<1>3. ASSUME NEW p \in Proc, Merging(p) PROVE FALSE
  BY <1>3, <1>a DEF Merging, LoadAndMerge
<1>4. ASSUME NEW e \in Conn, ConnectStep(e) PROVE FALSE
  BY <1>4, <1>a DEF ConnectStep, StartConnect, SpawnDaemon, AddDaemon, ServerReady, DaemonDies
<1>5. ASSUME NEW m \in Cmd, StartStep(m) PROVE FALSE
  BY <1>5, <1>a DEF StartStep, StartList, StartDisconnect, StartKube, StartGenerate, Start
<1>6. ASSUME NEW m \in Cmd, OtherStep(m) \/ LoadToFilter(m) \/ Judge(m) \/ OverwriteFile(m)
      PROVE  FALSE
  BY <1>6, <1>a DEF OtherStep, CheckRunning, RollElsewhere, FinishKube, LoadToFilter, Judge,
                    OverwriteFile, Running, Recorded
<1>7. ASSUME NEW m \in Cmd, NEW left \in SUBSET Conn, ShutDownAll(m, left) PROVE FALSE
  BY <1>7, <1>a DEF ShutDownAll, Running, Recorded
<1>8. ASSUME NEW e \in Edits, Edit(e[1], e[2]) PROVE FALSE
  BY <1>8, <1>a DEF Edit
<1>9. CASE LoseFiles \/ UNCHANGED vars
  BY <1>9, <1>a DEF LoseFiles, vars
<1>s. ASSUME NEW n \in Name, SwitchContext(n) PROVE FALSE
  BY <1>s, <1>a DEF SwitchContext
<1> QED BY <1>1, <1>2, <1>3, <1>4, <1>5, <1>6, <1>7, <1>8, <1>9, <1>s, Steps

\* Until another is settled on, all commands use the token of the daemons that
\* serve.
LEMMA TokenStep ==
  ASSUME Typed, [Next]_vars, NEW c \in Conn, Serving(c), Serving(c)', Before(c), Served(c), Settled'
  PROVE  TokenOf(c)'
<1> USE DEF history, counts, Goto, Forced
<1>a. /\ file \in Config /\ copy \in [Proc -> Config] /\ c \in Proc /\ c \notin Cmd
      /\ token \in [Proc -> Token] /\ store \in [Conn -> Nat] /\ DOMAIN pc = Proc
      /\ DOMAIN job = Cmd /\ Cmd \subseteq Proc /\ Conn \subseteq Proc /\ Conn \cap Cmd = {}
      /\ pc[c] = "done" /\ pc'[c] = "done" /\ c \in Running /\ c \in Running'
  BY KubeAssumption DEF Typed, TypeOK, Proc, Serving
<1>b. /\ token[c] # 0 /\ token'[c] = token[c] /\ settings.token = token[c]
      /\ \A q \in Proc :
           \/ pc[q] \in {"spawning", "loading", "rolling", "kubectl"}
           \/ pc[q] = "generating" /\ ~Forced(q)
           => token[q] = token[c]
  BY SettledStep DEF Served, TokenOf, Before
<1>c. ASSUME settings'.token = token[c],
             \A q \in Proc :
               \/ pc'[q] \in {"spawning", "loading", "rolling", "kubectl"}
               \/ pc'[q] = "generating" /\ ~Forced(q)'
               => token'[q] = token[c]
      PROVE  TokenOf(c)'
  BY <1>b, <1>c DEF TokenOf
\* A step that only moves commands on, and none of them to use a token.
<1>d. ASSUME UNCHANGED <<settings, token>>,
             \A q \in Proc :
               \/ pc'[q] \notin {"spawning", "loading", "rolling", "kubectl", "generating"}
               \/ pc'[q] = pc[q] /\ Forced(q)' = Forced(q)
               \/ pc'[q] = "loading" /\ pc[q] = "spawning"
      PROVE  TokenOf(c)'
  BY <1>b, <1>d DEF TokenOf
<1>1. ASSUME NEW p \in Proc, ReadSettings(p) PROVE TokenOf(c)'
  <2>1. CASE Forced(p)
    BY <1>1, <1>a, <1>b, <1>c, <2>1 DEF ReadSettings, NeedsToken, Forced
  <2>2. CASE ~Forced(p)
    <3>1. ~NeedsToken(p)
      BY <1>b, <2>2 DEF NeedsToken, Forced
    <3>2. token' = [token EXCEPT ![p] = token[c]] /\ UNCHANGED <<settings, job>>
          /\ \A q \in Proc \ {p} : pc'[q] = pc[q]
      BY <1>1, <1>a, <1>b, <3>1 DEF ReadSettings
    <3>3. \A q \in Proc : Forced(q)' = Forced(q)
      BY <3>2 DEF Forced
    <3> QED BY <1>a, <1>b, <1>c, <3>2, <3>3
  <2> QED BY <2>1, <2>2
<1>2. ASSUME NEW p \in Proc, StoreSettings(p) PROVE TokenOf(c)'
  <2>0. UNCHANGED <<job, token>> /\ settings'.token = token[p] /\ pc[p] = "generating"
        /\ pc'[p] = AfterSettings(p) /\ \A q \in Proc \ {p} : pc'[q] = pc[q]
    BY <1>2, <1>a DEF StoreSettings
  <2>1. CASE Forced(p)
    <3>1. pc'[p] = "checking" /\ p \in Cmd /\ job'[p] = "force"
      BY <1>a, <2>0, <2>1 DEF AfterSettings, Forced
    <3> QED BY <3>1 DEF Settled, Forcing
  <2>2. CASE ~Forced(p)
    <3>1. token[p] = token[c]
      BY <1>b, <2>0, <2>2
    <3>2. \A q \in Proc : Forced(q)' = Forced(q)
      BY <2>0 DEF Forced
    <3> QED BY <1>b, <1>c, <2>0, <3>1, <3>2
  <2> QED BY <2>1, <2>2
<1>3. ASSUME NEW p \in Proc, WriteFile(p) \/ Killed(p) PROVE TokenOf(c)'
  BY <1>3, <1>a, <1>d DEF WriteFile, Killed, Forced
<1>4. ASSUME NEW p \in Proc, Merging(p) PROVE TokenOf(c)'
  BY <1>4, <1>a, <1>d DEF Merging, LoadAndMerge, Forced
<1>5. ASSUME NEW d \in Conn, ConnectStep(d) PROVE TokenOf(c)'
  BY <1>5, <1>a, <1>d DEF ConnectStep, StartConnect, SpawnDaemon, AddDaemon, ServerReady, DaemonDies,
                          Forced
<1>6. ASSUME NEW k \in Cmd, StartStep(k) PROVE TokenOf(c)'
  <2>1. /\ UNCHANGED <<settings, token>> /\ pc'[k] \in {"filtering", "shutting", "settings"}
        /\ \A q \in Proc \ {k} : pc'[q] = pc[q] /\ Forced(q)' = Forced(q)
    BY <1>6, <1>a DEF StartStep, StartList, StartDisconnect, StartKube, StartGenerate, Start, Forced
  <2> QED BY <1>d, <2>1
<1>7. ASSUME NEW k \in Cmd, OtherStep(k) PROVE TokenOf(c)'
  BY <1>7, <1>a, <1>d DEF OtherStep, CheckRunning, RollElsewhere, FinishKube, Forced
<1>8. ASSUME NEW k \in Cmd, LoadToFilter(k) \/ Judge(k) \/ OverwriteFile(k) PROVE TokenOf(c)'
  <2>1. pc[k] \in {"judging", "overwriting"} => AfterFilter(k) = "idle"
    BY DEF AfterFilter, Served, Spared, Forced
  <2>2. /\ UNCHANGED <<settings, token>> /\ pc'[k] \in {"judging", "idle", "overwriting"}
        /\ \A q \in Proc \ {k} : pc'[q] = pc[q] /\ Forced(q)' = Forced(q)
    BY <1>8, <1>a, <2>1 DEF LoadToFilter, Judge, OverwriteFile, Forced
  <2> QED BY <1>d, <2>2
<1>9. ASSUME NEW k \in Cmd, NEW left \in SUBSET Conn, ShutDownAll(k, left) PROVE TokenOf(c)'
  BY <1>9, <1>a DEF ShutDownAll, Running, Recorded
<1>10. ASSUME NEW e \in Edits, Edit(e[1], e[2]) PROVE TokenOf(c)'
  BY <1>10, <1>d DEF Edit, Forced
<1>11. ASSUME LoseFiles PROVE TokenOf(c)'
  BY <1>11, <1>b, <1>c, <1>a DEF LoseFiles, Forced, Typed, TypeOK
<1>12. CASE UNCHANGED vars
  BY <1>12, <1>d DEF vars, Forced
<1>s. ASSUME NEW n \in Name, SwitchContext(n) PROVE TokenOf(c)'
  BY <1>s, <1>d DEF SwitchContext, Forced
<1> QED BY <1>1, <1>2, <1>3, <1>4, <1>5, <1>6, <1>7, <1>8, <1>9, <1>10, <1>11, <1>12, <1>s, Steps

\* Until then what is written leads to the daemons that serve.
LEMMA LeadStep ==
  ASSUME Typed, [Next]_vars, NEW c \in Conn, Serving(c), Serving(c)', Before(c), Served(c), Settled'
  PROVE  CopiesLead(c)'
<1> USE DEF history, counts, Goto
<1>a. /\ file \in Config /\ copy \in [Proc -> Config] /\ c \in Proc /\ c \notin Cmd
      /\ token \in [Proc -> Token] /\ store \in [Conn -> Nat] /\ DOMAIN pc = Proc
      /\ DOMAIN job = Cmd /\ Cmd \subseteq Proc /\ Conn \subseteq Proc /\ Conn \cap Cmd = {}
      /\ pc[c] = "done" /\ pc'[c] = "done" /\ c \in Running /\ c \in Running'
  BY KubeAssumption DEF Typed, TypeOK, Proc, Serving
<1>b. token'[c] = token[c] /\ TokenOf(c) /\ CopiesLead(c) /\ token[c] # 0
  BY SettledStep DEF Served, Before, TokenOf
\* A step that leaves the file alone and takes no copy of it.
<1>c. ASSUME UNCHANGED <<file, copy>>, \A q \in Proc : pc'[q] \in Holding => pc[q] \in Holding
      PROVE  CopiesLead(c)'
  BY <1>b, <1>c DEF CopiesLead, Reaches
<1>1. ASSUME NEW p \in Proc, ReadSettings(p) \/ StoreSettings(p) PROVE CopiesLead(c)'
  <2>1. AfterSettings(p) \notin Holding
    BY DEF AfterSettings, Holding
  <2> QED BY <1>1, <1>a, <1>c, <2>1 DEF ReadSettings, StoreSettings, Holding
<1>2. ASSUME NEW p \in Proc, WriteFile(p) PROVE CopiesLead(c)'
  BY <1>2, <1>a, <1>b DEF WriteFile, CopiesLead, Reaches, Holding
<1>3. ASSUME NEW p \in Proc, Killed(p) PROVE CopiesLead(c)'
  BY <1>3, <1>a, <1>c DEF Killed, Holding
<1>4. ASSUME NEW p \in Proc, Merging(p) PROVE CopiesLead(c)'
  <2>1. PICK cs \in SUBSET Conn :
          /\ LoadAndMerge(p, Generated(cs, token[p]))
          /\ IF p \in Conn THEN pc[p] = "loading" /\ cs = {p} ELSE pc[p] = "rolling" /\ cs = Recorded
    BY <1>4 DEF Merging
  <2>2. token[p] = token[c] /\ token[c] \in Token
    BY <1>a, <1>b, <2>1 DEF TokenOf
  <2>3. Reaches(Merged(Loaded(file), Generated(cs, token[p])), c)
    <3>1. CASE p \in Conn
      <4>1. cs = {p} /\ p \in Busy /\ p # c
        BY <1>a, <2>1, <3>1 DEF Busy
      <4>2. NameOf[p] # NameOf[c]
        BY <3>1, <4>1 DEF Served, Unrivalled
      <4>3. Loaded(file) \in Config /\ Reaches(Loaded(file), c)
        BY <1>a, <1>b, LoadedType DEF CopiesLead, Reaches
      <4>4. cs # {} /\ \A d \in cs : NameOf[d] # NameOf[c]
        BY <4>1, <4>2
      <4>5. Reaches(Merged(Loaded(file), Generated(cs, token[c])), c)
        BY <1>b, <4>3, <4>4, MergedStillReaches
      <4> QED BY <2>2, <4>5
    <3>2. CASE p \notin Conn
      <4>1. cs = Recorded /\ c \in cs
        BY <1>a, <2>1, <3>2 DEF Running
      <4>2. \A d \in cs : NameOf[d] = NameOf[c] /\ d # c => store[d] < store[c]
        BY DEF Served, Unrivalled
      <4>3. Generated(cs, token[p]) \in Config /\ Reaches(Generated(cs, token[p]), c)
        BY <2>2, <4>1, <4>2, GeneratedType, GeneratedReaches
      <4> QED BY <1>a, <1>b, <4>3, LoadedType, MergedReaches
    <3> QED BY <3>1, <3>2
  <2>4. /\ copy'[p] = Merged(Loaded(file), Generated(cs, token[p])) /\ file' = file
        /\ \A q \in Proc \ {p} : copy'[q] = copy[q] /\ pc'[q] = pc[q]
    BY <1>a, <2>1 DEF LoadAndMerge
  <2> QED BY <1>b, <2>3, <2>4 DEF CopiesLead, Reaches
<1>5. ASSUME NEW d \in Conn, ConnectStep(d) PROVE CopiesLead(c)'
  BY <1>5, <1>a, <1>c DEF ConnectStep, StartConnect, SpawnDaemon, AddDaemon, ServerReady, DaemonDies,
                          Holding
<1>6. ASSUME NEW k \in Cmd, StartStep(k) \/ OtherStep(k) PROVE CopiesLead(c)'
  BY <1>6, <1>a, <1>c DEF StartStep, StartList, StartDisconnect, StartKube, StartGenerate, Start,
                          OtherStep, CheckRunning, RollElsewhere, FinishKube, Holding
<1>7. ASSUME NEW k \in Cmd, LoadToFilter(k) PROVE CopiesLead(c)'
  <2>1. Reaches(Loaded(file), c)
    BY <1>a, <1>b, LoadedType DEF CopiesLead, Reaches
  <2>2. /\ copy'[k] = Loaded(file) /\ file' = file
        /\ \A q \in Proc \ {k} : copy'[q] = copy[q] /\ pc'[q] = pc[q]
    BY <1>7, <1>a DEF LoadToFilter
  <2> QED BY <1>b, <2>1, <2>2 DEF CopiesLead, Reaches
<1>8. ASSUME NEW k \in Cmd, Judge(k) PROVE CopiesLead(c)'
  <2>1. Reaches(Filtered(copy[k]), c)
    BY <1>8, <1>a, <1>b, FilteredReaches DEF Judge, CopiesLead, Holding
  <2>2. /\ copy'[k] = Filtered(copy[k]) /\ file' = file
        /\ \A q \in Proc \ {k} : copy'[q] = copy[q] /\ pc'[q] = pc[q]
    BY <1>8, <1>a DEF Judge
  <2> QED BY <1>b, <2>1, <2>2 DEF CopiesLead, Reaches
<1>9. ASSUME NEW k \in Cmd, OverwriteFile(k) PROVE CopiesLead(c)'
  <2>1. AfterFilter(k) \notin Holding
    BY DEF AfterFilter, Holding
  <2> QED BY <1>9, <1>a, <1>b, <2>1 DEF OverwriteFile, CopiesLead, Reaches, Holding
<1>10. ASSUME NEW k \in Cmd, NEW left \in SUBSET Conn, ShutDownAll(k, left) PROVE CopiesLead(c)'
  BY <1>10, <1>a, <1>c DEF ShutDownAll, Holding
<1>11. ASSUME NEW e \in Edits, Edit(e[1], e[2]) PROVE CopiesLead(c)'
  <2>1. Reaches(file', c)
    BY <1>11, <1>b, EditReaches DEF CopiesLead
  <2> QED BY <1>11, <1>b, <2>1 DEF Edit, CopiesLead, Reaches
<1>12. CASE LoseFiles \/ UNCHANGED vars
  BY <1>12, <1>c DEF LoseFiles, vars
<1>s. ASSUME NEW n \in Name, SwitchContext(n) PROVE CopiesLead(c)'
  BY <1>s, <1>a, <1>b DEF SwitchContext, CopiesLead, Reaches, Config
<1> QED BY <1>1, <1>2, <1>3, <1>4, <1>5, <1>6, <1>7, <1>8, <1>9, <1>10, <1>11, <1>12, <1>s, Steps

LEMMA ServesStep == Typed /\ Lonely /\ Serves /\ [Next]_vars => Serves'
<1> SUFFICES ASSUME Typed, Lonely, Serves, [Next]_vars, NEW c \in Conn, Serving(c)'
             PROVE  Served(c)'
  BY DEF Serves
<1>1. Before(c)
  BY ServingStep
<1>2. CASE Serving(c)
  <2>1. Served(c)
    BY <1>2 DEF Serves
  <2> QED BY <1>1, <1>2, <2>1, UnrivalledStep, SparedStep, TokenStep, LeadStep DEF Served
<1>3. CASE ~Serving(c)
  BY <1>1, <1>3, BeginsToServe DEF Before
<1> QED BY <1>2, <1>3

LEMMA ServesAlways == Spec => []Serves
<1>1. Init => Typed /\ Lonely /\ Serves
  <2>1. Init => Lonely /\ Serves
    BY DEF Init, Lonely, Busy, Serves, Serving, Running
  <2> QED BY <2>1, TypedInit
<1> QED BY <1>1, TypedStep, LonelyStep, ServesStep, PTL DEF Spec

\* A connect that has succeeded, and that nothing has overlapped, leaves a context
\* with which kubectl reaches its daemon while that runs and is recorded, whatever
\* any number of commands do later, in any overlap and interrupted anywhere, but
\* for a generate --force between its new token and its disconnects, and for what
\* follows if it is killed there.
THEOREM LiveReachable == Spec => []LiveDaemonsReachable
<1>1. Serves => LiveDaemonsReachable
  BY DEF Serves, Serving, Served, CopiesLead, Reaches, LiveDaemonsReachable, Settled,
         Running, Recorded
<1> QED BY <1>1, ServesAlways, PTL

\* Nor does `zli kube' send such a daemon a token it does not accept, with the same
\* exceptions.
THEOREM TokenAccepted == Spec => []KubeTokenAccepted
<1>1. Typed /\ Serves => KubeTokenAccepted
  <2> SUFFICES ASSUME Typed, Serves, NEW k \in Cmd, pc[k] = "kubectl",
                      Serving(match[k]), Settled
               PROVE  token[k] = token[match[k]]
    BY DEF KubeTokenAccepted, Serving, Settled
  <2>1. match[k] \in Conn /\ k \in Proc
    BY DEF Serving, Running, Recorded, Proc
  <2> QED BY <2>1 DEF Serves, Served, TokenOf
<1> QED BY <1>1, ServesAlways, TypedInit, TypedStep, PTL DEF Spec
=============================================================================

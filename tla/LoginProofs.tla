----------------------------- MODULE LoginProofs -----------------------------
(* Type correctness of Login, and that what the file has of an identity is  *)
(* of one login, for any number of logins, tabs and providers.              *)
EXTENDS Login, TLAPS

Past == {"discovery", "provider", "exchange", "saving"}
Visit == Busy \cup Past

\* A tab that is served was asked for a provider, and once it is past that
\* choice there is a client id.
TabType == \A t \in Tab : tab[t].at \in Visit =>
  /\ tab[t].login \in Login /\ tab[t].pick \in Provider
  /\ tab[t].at \in Past => config.client # None

IType == TypeOK /\ TabType

\* While logins do not overlap: one runs at a time; what it finds is nothing
\* or all of one identity; what it has done since it made its key is its own;
\* and nobody else is known as the subject once a tab is past its choice.
Keyed == {"listening", "signing", "proving", "registering", "totp", "defer", "me"}
Alone == \A l, m \in Login : Running(l) /\ Running(m) => l = m
Begun == \A l \in Login : pc[l] = "keys" =>
  config.tokens = None /\ config.proof = None /\ config.session = None
OwnKey == \A l \in Login : pc[l] \in Keyed \/ l \in open =>
  Running(l) /\ pc[l] # "keys" /\ config.key = l
OfKey ==
  /\ config.tokens # None => config.tokens.login = config.key
  /\ config.proof \in {config.key, None} /\ config.session \in {config.key, None}
  /\ config.tokens # None /\ config.tokens.from # Account => config.me \in {config.key, None}
Asked == \A l \in Login : pc[l] \in {"registering", "me"} => subject[l] = l
Served == \A t \in Tab : tab[t].at \in Visit =>
  /\ Running(tab[t].login) /\ pc[tab[t].login] # "keys" /\ config.key = tab[t].login
  /\ tab[t].at \in Past => config.me \in {config.key, None}

Orderly == "logins" \notin overlap =>
  Alone /\ Begun /\ OwnKey /\ OfKey /\ Asked /\ Served

-----------------------------------------------------------------------------
(* Type correctness *)

LEMMA TypeInit == Init => IType
BY LoginAssumption DEF Init, IType, TypeOK, TabType, NoTab, Visit, Past, Busy, Source, Setting, Tokens

\* What a login does, one case for each of its steps.
LEMMA TypeLogin ==
  ASSUME IType, NEW l \in Login, LoginStep(l)
  PROVE  IType'
<1> USE LoginAssumption DEF IType, TypeOK, TabType, Visit, Past, Busy, Goto
<1> DEFINE Config == [idp : Setting, client : Setting, url : Setting,
                      tokens : Tokens \cup {None}, key : Source, proof : Source,
                      session : Source, me : Source]
<1>1. Holder \in Source
  BY DEF Holder, Tokens, Source
<1>2. CASE \E k \in {"user", "service"} : Begin(l, k)
  <2>1. PICK k \in {"user", "service"} : Begin(l, k)
    BY <1>2
  <2>2. config' \in Config /\ config'.client = config.client
    BY <2>1 DEF Begin, Source
  <2> QED BY <2>1, <2>2 DEF Begin
<1>3. CASE GenerateKeys(l)
  <2>1. config' \in Config /\ config'.client = config.client
    BY <1>3 DEF GenerateKeys, Source
  <2> QED BY <1>1, <1>3, <2>1 DEF GenerateKeys, AskSession
<1>4. CASE SignTokens(l)
  <2>1. config' \in Config /\ config'.client = config.client
    BY <1>4 DEF SignTokens, Source, Tokens
  <2> QED BY <1>4, <2>1 DEF SignTokens
<1>13. CASE SignProof(l)
  <2>1. config' \in Config /\ config'.client = config.client
    BY <1>1, <1>13 DEF SignProof
  <2> QED BY <1>1, <1>13, <2>1 DEF SignProof, AskSession
<1>5. CASE CannotBegin(l)
  BY <1>5 DEF CannotBegin
<1>12. CASE GiveUp(l)
  BY <1>12 DEF GiveUp
<1>11. CASE Timeout(l)
  BY <1>11 DEF Timeout, Reject
<1>9. CASE SecondFactor(l)
  BY <1>9 DEF SecondFactor
<1>10. CASE LogoutAnswer(l)
  BY <1>1, <1>10 DEF LogoutAnswer, AskSession, MarkRequest
<1>6. CASE Registered(l)
  <2>1. config' \in Config /\ config'.client = config.client
    BY <1>6 DEF Registered
  <2> QED BY <1>6, <2>1 DEF Registered
<1>7. CASE SaveMe(l)
  <2>1. config' \in Config /\ config'.client = config.client
    BY <1>7 DEF SaveMe
  <2> QED BY <1>7, <2>1 DEF SaveMe
<1>8. CASE Exit(l)
  BY <1>8 DEF Exit, Over, NoTab, Source, Setting
<1> QED BY <1>2, <1>3, <1>4, <1>5, <1>6, <1>7, <1>8, <1>9, <1>10, <1>11, <1>12, <1>13
    DEF LoginStep

\* What the listener does for a tab.
LEMMA TypeTab ==
  ASSUME IType, NEW t \in Tab, TabStep(t)
  PROVE  IType'
<1> USE LoginAssumption DEF IType, TypeOK, TabType, Visit, Past, Busy, TabGoes, Over, NoTab,
     MarkRequest, Reject
<1> DEFINE Config == [idp : Setting, client : Setting, url : Setting,
                      tokens : Tokens \cup {None}, key : Source, proof : Source,
                      session : Source, me : Source]
<1>1. Holder \in Source
  BY DEF Holder, Tokens, Source
<1>2. CASE \E l \in Login : CannotChoose(t, l)
  <2>1. PICK l \in Login : CannotChoose(t, l)
    BY <1>2
  <2>2. config' \in Config /\ config'.client = config.client
    BY <2>1 DEF CannotChoose, Setting
  <2> QED BY <2>1, <2>2 DEF CannotChoose, Setting
<1>3. CASE \E l \in Login : StrayAnswer(t, l)
  BY <1>3 DEF StrayAnswer, Setting
<1>4. CASE \E l \in Login : \E i \in Provider : Choose(t, l, i)
  <2>1. PICK l \in Login, i \in Provider : Choose(t, l, i)
    BY <1>4
  <2>2. config' \in Config /\ config'.client = config.client
    BY <2>1 DEF Choose, Setting
  <2> QED BY <2>1, <2>2 DEF Choose, Setting
<1>5. CASE StoreSettings(t)
  <2>1. config' \in Config /\ config'.client # None
    BY <1>5 DEF StoreSettings, Setting, Source
  <2> QED BY <1>5, <2>1 DEF StoreSettings, Setting
<1>6. CASE Redirect(t)
  <2>1. [issuer |-> tab[t].pick, client |-> config.client, tab |-> t] \in Client
    BY <1>6 DEF Redirect, Setting, Client
  <2> QED BY <1>6, <2>1 DEF Redirect, Setting
<1>7. CASE SetupFails(t) \/ Answer(t) \/ Declined(t) \/ ExchangeFails(t) \/ CannotSave(t)
  BY <1>7 DEF SetupFails, Answer, Declined, ExchangeFails, CannotSave, Setting
<1>8. CASE SaveTokens(t)
  <2>1. config' \in Config /\ config'.client = config.client
    BY <1>8 DEF SaveTokens, Tokens
  <2> QED BY <1>8, <2>1 DEF SaveTokens, Setting
<1>9. CASE SaveProof(t)
  <2>1. config' \in Config /\ config'.client = config.client
    BY <1>1, <1>9 DEF SaveProof
  <2> QED BY <1>1, <1>9, <2>1 DEF SaveProof, AskSession, Goto, Setting
<1> QED BY <1>2, <1>3, <1>4, <1>5, <1>6, <1>7, <1>8, <1>9 DEF TabStep

LEMMA TypeStep == IType /\ [Next]_vars => IType'
<1> SUFFICES ASSUME IType, [Next]_vars PROVE IType'
  OBVIOUS
<1>1. CASE UNCHANGED vars
  BY <1>1 DEF vars, IType, TypeOK, TabType
<1> QED BY <1>1, TypeLogin, TypeTab DEF Next

\* Every variable keeps its type, whatever logins and tabs there are.
THEOREM TypeCorrect == Spec => []TypeOK
<1>1. IType => TypeOK
  BY DEF IType
<1> QED BY TypeInit, TypeStep, <1>1, PTL DEF Spec

-----------------------------------------------------------------------------
(* One identity *)

IInv == IType /\ Orderly

LEMMA OrderlyInit == Init => Orderly
BY LoginAssumption DEF Init, Orderly, Alone, Begun, OwnKey, OfKey, Asked, Served, Running,
   Keyed, NoTab, Visit, Past, Busy

\* Whoever holds tokens that a login in progress finds is that login.
LEMMA HolderIsOwn ==
  ASSUME IInv, "logins" \notin overlap, NEW l \in Login, config.key = l
  PROVE  Holder \in {l, None}
BY DEF IInv, Orderly, OfKey, Holder

\* While they do not overlap, a step of a login finds its own alone.
LEMMA OrderlyLogin ==
  ASSUME IInv, NEW l \in Login, LoginStep(l)
  PROVE  Orderly'
<1> SUFFICES ASSUME "logins" \notin overlap'
             PROVE  (Alone /\ Begun /\ OwnKey /\ OfKey /\ Asked /\ Served)'
  BY DEF Orderly
<1>0. "logins" \notin overlap /\ Alone /\ Begun /\ OwnKey /\ OfKey /\ Asked /\ Served
  BY DEF IInv, Orderly, LoginStep, Begin, GenerateKeys, SignTokens, SignProof, CannotBegin,
     Timeout, LogoutAnswer, MarkRequest, Registered, SecondFactor, SaveMe, GiveUp, Exit
<1>1. TypeOK /\ TabType
  BY DEF IInv, IType
<1> USE <1>0, <1>1, LoginAssumption DEF TypeOK, TabType, Alone, Begun, OwnKey, OfKey, Asked,
     Served, Running, Keyed, Visit, Past, Busy, Goto
<1>2. CASE \E k \in {"user", "service"} : Begin(l, k)
  BY <1>2 DEF Begin
<1>3. CASE GenerateKeys(l)
  BY <1>3 DEF GenerateKeys, AskSession
<1>4. CASE SignTokens(l)
  BY <1>4 DEF SignTokens, Tokens
<1>11. CASE SignProof(l)
  <2>1. Holder \in {l, None}
    BY <1>11, HolderIsOwn DEF SignProof
  <2> QED BY <1>11, <2>1 DEF SignProof, AskSession
<1>5. CASE CannotBegin(l) \/ Timeout(l) \/ GiveUp(l)
  BY <1>5 DEF CannotBegin, Timeout, GiveUp, Reject
<1>6. CASE LogoutAnswer(l)
  <2>1. Holder \in {l, None}
    BY <1>6, HolderIsOwn DEF LogoutAnswer
  <2> QED BY <1>6, <2>1 DEF LogoutAnswer, AskSession, MarkRequest
<1>7. CASE Registered(l)
  BY <1>7 DEF Registered
<1>8. CASE SecondFactor(l)
  BY <1>8 DEF SecondFactor
<1>9. CASE SaveMe(l)
  BY <1>9 DEF SaveMe
<1>10. CASE Exit(l)
  BY <1>10 DEF Exit, Over, NoTab
<1> QED BY <1>2, <1>3, <1>4, <1>5, <1>6, <1>7, <1>8, <1>9, <1>10, <1>11
    DEF LoginStep

\* Nor does a request to its listener bring in another's.
LEMMA OrderlyTab ==
  ASSUME IInv, NEW t \in Tab, TabStep(t)
  PROVE  Orderly'
<1> SUFFICES ASSUME "logins" \notin overlap'
             PROVE  (Alone /\ Begun /\ OwnKey /\ OfKey /\ Asked /\ Served)'
  BY DEF Orderly
<1>0. "logins" \notin overlap /\ Alone /\ Begun /\ OwnKey /\ OfKey /\ Asked /\ Served
  BY DEF IInv, Orderly, TabStep, CannotChoose, StrayAnswer, Choose, StoreSettings, Redirect,
     SetupFails, Answer, Declined, ExchangeFails, SaveTokens, SaveProof, CannotSave, MarkRequest
<1>1. TypeOK /\ TabType
  BY DEF IInv, IType
<1> USE <1>0, <1>1, LoginAssumption DEF TypeOK, TabType, Alone, Begun, OwnKey, OfKey, Asked,
     Served, Running, Keyed, Visit, Past, Busy, TabGoes, Over, NoTab, MarkRequest, Reject
<1>2. CASE \E l \in Login : CannotChoose(t, l)
  BY <1>2 DEF CannotChoose
<1>3. CASE \E l \in Login : StrayAnswer(t, l)
  BY <1>3, SMTT(20) DEF StrayAnswer
<1>4. CASE \E l \in Login : \E i \in Provider : Choose(t, l, i)
  BY <1>4 DEF Choose
<1>5. CASE StoreSettings(t)
  BY <1>5 DEF StoreSettings
<1>6. CASE Redirect(t)
  BY <1>6 DEF Redirect
<1>7. CASE SetupFails(t) \/ ExchangeFails(t)
  BY <1>7 DEF SetupFails, ExchangeFails
<1>10. CASE Answer(t)
  BY <1>10 DEF Answer
<1>11. CASE Declined(t)
  BY <1>11 DEF Declined
<1>12. CASE CannotSave(t)
  BY <1>12 DEF CannotSave
<1>8. CASE SaveTokens(t)
  <2>1. /\ config.key = tab[t].login /\ config.me \in {config.key, None}
        /\ tab[t].login \in Login
    BY <1>8 DEF SaveTokens
  <2>2. /\ config'.tokens = [login |-> tab[t].login, from |-> tab[t].pick]
        /\ config'.key = config.key /\ config'.proof = config.proof
        /\ config'.session = config.session /\ config'.me = config.me
    BY <1>8 DEF SaveTokens
  <2>3. OfKey'
    BY <2>1, <2>2
  <2>4. Begun'
    BY <1>8 DEF SaveTokens
  <2> QED BY <1>8, <2>2, <2>3, <2>4 DEF SaveTokens
<1>9. CASE SaveProof(t)
  <2>1. Holder \in {tab[t].login, None}
    <3>1. tab[t].login \in Login /\ config.key = tab[t].login
      BY <1>9 DEF SaveProof
    <3> QED BY <3>1, HolderIsOwn
  <2>2. tab[t].login \in Login /\ config.key = tab[t].login
    BY <1>9 DEF SaveProof
  <2>3. /\ config'.tokens = config.tokens /\ config'.key = config.key
        /\ config'.proof = Holder /\ config'.session = config.session
        /\ config'.me = config.me
    BY <1>9 DEF SaveProof
  <2>4. OfKey'
    BY <2>1, <2>2, <2>3
  <2>5. Begun' /\ Alone'
    BY <1>9, <2>1, <2>2, <2>3 DEF SaveProof, AskSession, Goto
  <2>7. OwnKey'
    BY <1>9, <2>1, <2>2, <2>3 DEF SaveProof, AskSession, Goto
  <2>8. Asked'
    BY <1>9, <2>1, <2>2, <2>3 DEF SaveProof, AskSession, Goto
  <2>6. Served'
    BY <1>9, <2>3 DEF SaveProof, AskSession, Goto
  <2> QED BY <2>4, <2>5, <2>6, <2>7, <2>8
<1> QED BY <1>2, <1>3, <1>4, <1>5, <1>6, <1>7, <1>8, <1>9, <1>10, <1>11, <1>12
    DEF TabStep

LEMMA OrderlyStep == IInv /\ [Next]_vars => Orderly'
<1> SUFFICES ASSUME IInv, [Next]_vars PROVE Orderly'
  OBVIOUS
<1>1. CASE UNCHANGED vars
  BY <1>1 DEF vars, IInv, Orderly, Alone, Begun, OwnKey, OfKey, Asked, Served, Running
<1> QED BY <1>1, OrderlyLogin, OrderlyTab DEF Next

\* However logins fail and tabs answer, what the file has of an identity is of
\* one login, as long as the next begins when the last has ended.
THEOREM OneIdentityAlways == Spec => []OneIdentity
<1>1. Init => IInv
  BY TypeInit, OrderlyInit DEF IInv
<1>2. IInv /\ [Next]_vars => IInv'
  BY TypeStep, OrderlyStep DEF IInv
<1>3. IInv => OneIdentity
  BY DEF IInv, Orderly, OfKey, OneIdentity, Holder
<1> QED BY <1>1, <1>2, <1>3, PTL DEF Spec

-----------------------------------------------------------------------------
(* Requests handled one at a time *)

\* A listener takes requests from when the login waits for it until the login
\* is resolved, or its process exits; a tab is served by such a login.
After == {"proving", "registering", "totp", "defer", "me", "done"}
Listens == \A l \in Login :
  /\ l \in open => pc[l] \in {"listening", "failing"}
  /\ pc[l] = "listening" => l \in open
Waits == \A t \in Tab :
  tab[t].at \in Visit => pc[tab[t].login] \notin {"idle", "keys", "signing", "proving", "ended"}

\* Where no login and no request overtakes another: one request is handled at
\* a time; what it works with are the settings of the provider it asked for;
\* only the latest tab is answered, and the settings are still its own.
Quiet == \A t \in Tab : tab[t].at \notin Busy
SettingsOf(i) == config.client = i /\ config.url = i
Single == \A t, u \in Tab : tab[t].at \in Busy /\ tab[u].at \in Busy => t = u
Settled == \A t \in Tab :
  /\ tab[t].at \in {"discovery", "exchange", "saving"} => SettingsOf(tab[t].pick)
  /\ tab[t].at = "exchange" => oidc[tab[t].login].tab = t
Latest == \A t \in Tab :
  /\ tab[t].at = "provider" /\ oidc[tab[t].login].tab = t
  /\ pc[tab[t].login] = "listening" /\ Quiet
  => SettingsOf(tab[t].pick)

\* Tokens are the last thing a listener gets: once they are there, nothing but
\* the saving of their proof is left for it to do.
Kept == config.tokens # None /\ config.tokens.from # Account =>
  SettingsOf(config.tokens.from)
Spent == config.tokens # None =>
  /\ \A t \in Tab : tab[t].at \in Busy => tab[t].at = "saving"
  /\ open # {} => ~Quiet
Held == \A t \in Tab : tab[t].at = "saving" => config.tokens # None

\* What a login has behind it is in the file.
Complete == \A l \in Login : pc[l] \in After =>
  /\ Quiet /\ config.tokens # None
  /\ config.tokens.login = l /\ config.key = l
  /\ pc[l] # "proving" => config.proof = l
  /\ pc[l] \notin {"proving", "registering"} => config.session = l
  /\ pc[l] = "done" => config.me = l

InTurn == Single /\ Settled /\ Latest /\ Kept /\ Spent /\ Held /\ Complete
TurnInv == IInv /\ Listens /\ Waits /\ (overlap = {} => InTurn)

LEMMA InTurnInit == Init => Listens /\ Waits /\ InTurn
BY LoginAssumption DEF Init, Listens, Waits, InTurn, Single, Settled, Latest, Kept, Spent, Held,
   Complete, SettingsOf, After, NoTab, Visit, Past, Busy, Tokens

LEMMA ListensStep == IType /\ Listens /\ Waits /\ [Next]_vars => Listens' /\ Waits'
<1> SUFFICES ASSUME IType, Listens, Waits, [Next]_vars PROVE Listens' /\ Waits'
  OBVIOUS
<1> USE LoginAssumption DEF IType, TypeOK, TabType, Listens, Waits, Visit, Past, Busy, Goto,
    Reject, AskSession, TabGoes, Over, NoTab
<1>1. CASE UNCHANGED vars
  BY <1>1 DEF vars
<1>2. ASSUME NEW l \in Login, \E k \in {"user", "service"} : Begin(l, k)
      PROVE  Listens' /\ Waits'
  BY <1>2 DEF Begin
<1>3. ASSUME NEW l \in Login, GenerateKeys(l) PROVE Listens' /\ Waits'
  BY <1>3 DEF GenerateKeys
<1>4. ASSUME NEW l \in Login, SignTokens(l) \/ SignProof(l) \/ CannotBegin(l) \/ Timeout(l)
                              \/ LogoutAnswer(l)
      PROVE  Listens' /\ Waits'
  BY <1>4 DEF SignTokens, SignProof, CannotBegin, Timeout, LogoutAnswer
<1>5. ASSUME NEW l \in Login, Registered(l) \/ SecondFactor(l) \/ SaveMe(l) \/ GiveUp(l)
      PROVE  Listens' /\ Waits'
  BY <1>5 DEF Registered, SecondFactor, SaveMe, GiveUp
<1>6. ASSUME NEW l \in Login, Exit(l) PROVE Listens' /\ Waits'
  BY <1>6 DEF Exit
<1>7. ASSUME NEW t \in Tab, NEW l \in Login, CannotChoose(t, l) \/ StrayAnswer(t, l)
      PROVE  Listens' /\ Waits'
  BY <1>7 DEF CannotChoose, StrayAnswer
<1>8. ASSUME NEW t \in Tab, NEW l \in Login, \E i \in Provider : Choose(t, l, i)
      PROVE  Listens' /\ Waits'
  BY <1>8 DEF Choose
<1>9. ASSUME NEW t \in Tab, StoreSettings(t) \/ Redirect(t) \/ SetupFails(t) \/ ExchangeFails(t)
      PROVE  Listens' /\ Waits'
  BY <1>9 DEF StoreSettings, Redirect, SetupFails, ExchangeFails
<1>10. ASSUME NEW t \in Tab, Answer(t) \/ Declined(t) PROVE Listens' /\ Waits'
  BY <1>10 DEF Answer, Declined
<1>11. ASSUME NEW t \in Tab, SaveTokens(t) \/ SaveProof(t) \/ CannotSave(t)
       PROVE  Listens' /\ Waits'
  BY <1>11 DEF SaveTokens, SaveProof, CannotSave
<1> QED BY <1>1, <1>2, <1>3, <1>4, <1>5, <1>6, <1>7, <1>8, <1>9, <1>10, <1>11
    DEF Next, LoginStep, TabStep

\* A request that overtakes no other finds the listener quiet.
LEMMA MarkQuiet ==
  ASSUME TurnInv, NEW l \in open, MarkRequest(l), overlap' = {}
  PROVE  overlap = {} /\ Quiet /\ pc[l] = "listening" /\ config.tokens = None
<1>1. overlap = {} /\ Quiet /\ pc[l] # "failing"
  BY DEF MarkRequest, Quiet
<1>2. l \in Login /\ pc[l] = "listening"
  BY <1>1 DEF TurnInv, IInv, IType, TypeOK, Listens
<1>3. config.tokens = None
  BY <1>1 DEF TurnInv, InTurn, Spent
<1> QED BY <1>1, <1>2, <1>3

\* A login that begins or ends finds no tab but its own.
LEMMA InTurnLogin ==
  ASSUME TurnInv, NEW l \in Login, LoginStep(l), overlap' = {}
  PROVE  InTurn'
<1>0. overlap = {} /\ InTurn /\ Alone /\ Begun /\ OwnKey /\ OfKey /\ Asked /\ Served
  BY DEF TurnInv, IInv, Orderly, LoginStep, Begin, GenerateKeys, SignTokens, SignProof, CannotBegin,
     Timeout, LogoutAnswer, MarkRequest, Registered, SecondFactor, SaveMe, GiveUp, Exit
<1>1. TypeOK /\ TabType /\ Listens /\ Waits
  BY DEF TurnInv, IInv, IType
<1> USE <1>0, <1>1, LoginAssumption DEF TypeOK, TabType, Listens, Waits, Running, Visit, Past,
    Busy, Goto, After, SettingsOf, InTurn
<1>2. CASE \E k \in {"user", "service"} : Begin(l, k)
  <2>1. \A m \in Login : ~Running(m)
    BY <1>2 DEF Begin
  <2>2. /\ \A t \in Tab : tab[t].at \notin Visit
        /\ config'.tokens = None /\ tab' = tab /\ pc' = [pc EXCEPT ![l] = "keys"]
    BY <1>2, <2>1 DEF Begin
  <2> QED BY <2>1, <2>2 DEF Single, Settled, Latest, Kept, Spent, Held, Complete, Quiet
<1>3. CASE GenerateKeys(l)
  <2>1. /\ config.tokens = None /\ config'.tokens = None /\ tab' = tab /\ oidc' = oidc
        /\ config'.client = config.client /\ config'.url = config.url
        /\ pc' = [pc EXCEPT ![l] = IF kind[l] = "user" THEN "listening" ELSE "signing"]
        /\ pc[l] = "keys"
    BY <1>3 DEF GenerateKeys, Begun
  <2>2. \A t \in Tab : tab[t].at \in Visit => tab[t].login # l
    BY <2>1
  <2>3. \A m \in Login : pc[m] \notin After
    BY <2>1 DEF Alone
  <2> QED BY <2>1, <2>2, <2>3 DEF Single, Settled, Latest, Kept, Spent, Held, Complete, Quiet
<1>4. CASE SignTokens(l)
  <2>1. \A t \in Tab : tab[t].at \notin Visit
    BY <1>4 DEF SignTokens, Alone
  <2>2. open = {} /\ \A m \in Login : pc[m] \in After => FALSE
    BY <1>4 DEF SignTokens, Alone, OwnKey
  <2>3. /\ config'.tokens = [login |-> l, from |-> Account]
        /\ config'.key = l /\ tab' = tab /\ open' = {}
        /\ pc' = [pc EXCEPT ![l] = "proving"]
    BY <1>4, <2>2 DEF SignTokens, OwnKey, Keyed
  <2>4. config'.tokens # None
    BY <2>3, TokensAssumption DEF Tokens
  <2> QED BY <2>1, <2>2, <2>3, <2>4
        DEF Single, Settled, Latest, Kept, Spent, Held, Complete, Quiet
<1>11. CASE SignProof(l)
  <2>1. /\ Quiet /\ config.tokens # None /\ config.tokens.login = l /\ pc[l] = "proving"
    BY <1>11 DEF SignProof, Complete
  <2>2. /\ config'.tokens = config.tokens /\ config'.key = config.key /\ config'.proof = l
        /\ config'.client = config.client /\ config'.url = config.url
        /\ tab' = tab /\ oidc' = oidc /\ open' = open
        /\ pc' = [pc EXCEPT ![l] = "registering"]
    BY <1>11, <2>1 DEF SignProof, AskSession, Holder
  <2>3. \A m \in Login : pc'[m] \in After => m = l
    BY <2>1, <2>2 DEF Alone
  <2> QED BY <2>1, <2>2, <2>3 DEF Single, Settled, Latest, Kept, Spent, Held, Complete, Quiet
<1>5. CASE CannotBegin(l) \/ Timeout(l) \/ GiveUp(l)
  <2>1. /\ config' = config /\ tab' = tab /\ oidc' = oidc /\ open' = open
        /\ pc' = [pc EXCEPT ![l] = "failing"]
    BY <1>5 DEF CannotBegin, Timeout, GiveUp, Reject
  <2> QED BY <2>1 DEF Single, Settled, Latest, Kept, Spent, Held, Complete, Quiet
<1>6. CASE LogoutAnswer(l)
  <2>1. Quiet /\ pc[l] = "listening" /\ config.tokens = None
    BY <1>6, MarkQuiet DEF LogoutAnswer
  <2>2. /\ config' = config /\ tab' = tab /\ oidc' = oidc
        /\ pc' = [pc EXCEPT ![l] = "failing"]
    BY <1>6, <2>1 DEF LogoutAnswer, AskSession, Holder
  <2> QED BY <2>1, <2>2 DEF Single, Settled, Latest, Kept, Spent, Held, Complete, Quiet
<1>7. CASE Registered(l)
  <2>1. /\ config' = [config EXCEPT !.session = l] /\ pc[l] = "registering"
        /\ tab' = tab /\ oidc' = oidc /\ open' = open
    BY <1>7 DEF Registered, Asked
  <2>2. /\ config'.tokens = config.tokens /\ config'.key = config.key
        /\ config'.proof = config.proof /\ config'.session = l
        /\ config'.client = config.client /\ config'.url = config.url
    BY <2>1
  <2>3. \A m \in Login : pc'[m] \in After => m = l
    BY <1>7, <2>1 DEF Registered, Alone
  <2>4. PICK next \in {"me", "totp", "defer"} : pc' = [pc EXCEPT ![l] = next]
    BY <1>7 DEF Registered
  <2> QED BY <2>1, <2>2, <2>3, <2>4 DEF Single, Settled, Latest, Kept, Spent, Held, Complete, Quiet
<1>8. CASE SecondFactor(l)
  <2>1. /\ config' = config /\ tab' = tab /\ oidc' = oidc /\ open' = open
        /\ pc[l] \in {"totp", "defer"}
        /\ pc' = [pc EXCEPT ![l] = IF config.session = None THEN "failing" ELSE "me"]
    BY <1>8 DEF SecondFactor
  <2> QED BY <2>1 DEF Single, Settled, Latest, Kept, Spent, Held, Complete, Quiet
<1>9. CASE SaveMe(l)
  <2>1. /\ config' = [config EXCEPT !.me = l] /\ pc[l] = "me"
        /\ tab' = tab /\ oidc' = oidc /\ open' = open
        /\ pc' = [pc EXCEPT ![l] = "done"]
    BY <1>9 DEF SaveMe, Asked
  <2>2. /\ config'.tokens = config.tokens /\ config'.key = config.key
        /\ config'.proof = config.proof /\ config'.session = config.session
        /\ config'.client = config.client /\ config'.url = config.url /\ config'.me = l
    BY <2>1
  <2>3. \A m \in Login : pc'[m] \in After => m = l
    BY <2>1 DEF Alone
  <2> QED BY <2>1, <2>2, <2>3 DEF Single, Settled, Latest, Kept, Spent, Held, Complete, Quiet
<1>10. CASE Exit(l)
  <2>1. /\ config' = config /\ open' = open \ {l} /\ pc' = [pc EXCEPT ![l] = "ended"]
        /\ \A t \in Tab : tab'[t] = IF tab[t].login = l THEN Over ELSE tab[t]
        /\ \A t \in Tab : tab'[t].at \in Visit => tab'[t] = tab[t] /\ tab[t].login # l
        /\ oidc' = [oidc EXCEPT ![l] = None] /\ Running(l)
    BY <1>10 DEF Exit, Over, NoTab
  <2>2. \A m \in Login : Running(m) => m = l
    BY <2>1 DEF Alone
  <2>3. open' = {} /\ \A t \in Tab : tab'[t].at \notin Visit
    BY <2>1, <2>2 DEF OwnKey
  <2>4. \A m \in Login : pc'[m] \notin After
    BY <2>1, <2>2
  <2> QED BY <2>1, <2>3, <2>4 DEF Single, Settled, Latest, Kept, Spent, Held, Complete, Quiet
<1> QED BY <1>2, <1>3, <1>4, <1>5, <1>6, <1>7, <1>8, <1>9, <1>10, <1>11
    DEF LoginStep

\* Nor does a request that is handled find another's settings or tokens.
LEMMA InTurnTab ==
  ASSUME TurnInv, NEW t \in Tab, TabStep(t), overlap' = {}
  PROVE  InTurn'
<1>0. overlap = {} /\ InTurn /\ Alone /\ OwnKey /\ OfKey /\ Served
  BY DEF TurnInv, IInv, Orderly, TabStep, CannotChoose, StrayAnswer, Choose, StoreSettings, Redirect,
     SetupFails, Answer, Declined, ExchangeFails, SaveTokens, SaveProof, CannotSave, MarkRequest
<1>1. TypeOK /\ TabType /\ Listens /\ Waits
  BY DEF TurnInv, IInv, IType
<1> USE <1>0, <1>1, LoginAssumption DEF TypeOK, TabType, Listens, Waits, Running, Visit, Past,
    Busy, TabGoes, Over, NoTab, Goto, Reject, After, SettingsOf, InTurn
<1>2. CASE \E l \in Login : CannotChoose(t, l)
  <2>1. PICK l \in Login : CannotChoose(t, l)
    BY <1>2
  <2>2. Quiet /\ pc[l] = "listening" /\ config.tokens = None
    BY <2>1, MarkQuiet DEF CannotChoose
  <2>3. /\ config'.tokens = None /\ tab' = [tab EXCEPT ![t] = Over]
        /\ pc' = [pc EXCEPT ![l] = "failing"] /\ oidc' = oidc
        /\ config'.client = config.client /\ config'.url = config.url
    BY <2>1, <2>2 DEF CannotChoose
  <2>4. \A m \in Login : pc[m] \notin After
    BY <2>2 DEF Alone
  <2> QED BY <2>2, <2>3, <2>4 DEF Single, Settled, Latest, Kept, Spent, Held, Complete, Quiet
<1>3. CASE \E l \in Login : StrayAnswer(t, l)
  <2>1. PICK l \in Login : StrayAnswer(t, l)
    BY <1>3
  <2>2. Quiet /\ pc[l] = "listening" /\ config.tokens = None
    BY <2>1, MarkQuiet DEF StrayAnswer
  <2>3. /\ config' = config /\ tab' = [tab EXCEPT ![t] = Over] /\ oidc' = oidc
        /\ pc' = pc \/ pc' = [pc EXCEPT ![l] = "failing"]
    BY <2>1, <2>2 DEF StrayAnswer
  <2> QED BY <2>2, <2>3 DEF Single, Settled, Latest, Kept, Spent, Held, Complete, Quiet
<1>4. CASE \E l \in Login : \E i \in Provider : Choose(t, l, i)
  <2>1. PICK l \in Login, i \in Provider : Choose(t, l, i)
    BY <1>4
  <2>2. Quiet /\ pc[l] = "listening" /\ config.tokens = None
    BY <2>1, MarkQuiet DEF Choose
  <2>3. /\ config'.tokens = None /\ pc' = pc /\ oidc' = oidc
        /\ tab' = [tab EXCEPT ![t] = [at |-> "setup", login |-> l, pick |-> i]]
    BY <2>1, <2>2 DEF Choose
  <2>4. \A m \in Login : pc[m] \notin After
    BY <2>2 DEF Alone
  <2>5. \A u \in Tab : u # t => tab'[u] = tab[u] /\ tab'[u].at \notin Busy
    BY <2>2, <2>3 DEF Quiet
  <2>6. tab'[t].at = "setup"
    BY <2>3
  <2> QED BY <2>3, <2>4, <2>5, <2>6
        DEF Single, Settled, Latest, Kept, Spent, Held, Complete, Quiet
<1>5. CASE StoreSettings(t)
  <2>1. /\ tab[t].at = "setup" /\ tab' = [tab EXCEPT ![t].at = "discovery"]
        /\ pc' = pc /\ oidc' = oidc
        /\ config'.client = tab[t].pick /\ config'.url = tab[t].pick
        /\ config'.tokens = config.tokens
    BY <1>5 DEF StoreSettings
  <2>2. config.tokens = None
    BY <2>1 DEF Spent
  <2>3. \A m \in Login : pc[m] \notin After
    BY <2>1 DEF Complete, Quiet
  <2>4. \A u \in Tab : u # t => tab'[u] = tab[u] /\ tab'[u].at \notin Busy
    BY <2>1 DEF Single
  <2>5. tab'[t].at = "discovery" /\ tab'[t].pick = tab[t].pick
    BY <2>1
  <2> QED BY <2>1, <2>2, <2>3, <2>4, <2>5
        DEF Single, Settled, Latest, Kept, Spent, Held, Complete, Quiet
<1>6. CASE Redirect(t)
  <2> DEFINE l == tab[t].login
  <2>1. /\ tab[t].at = "discovery" /\ l \in Login /\ SettingsOf(tab[t].pick)
        /\ tab' = [tab EXCEPT ![t].at = "provider"]
        /\ pc' = pc /\ config' = config
    BY <1>6 DEF Redirect, Settled
  <2>2. oidc'[l].tab = t
    BY <1>6, <2>1 DEF Redirect
  <2>3. \A u \in Tab : u # t => tab'[u] = tab[u] /\ tab'[u].at \notin Busy
    BY <2>1 DEF Single
  <2>4. /\ tab'[t].at = "provider" /\ tab'[t].pick = tab[t].pick
        /\ tab'[t].login = l
    BY <2>1
  <2>5. config.tokens = None /\ \A m \in Login : pc[m] \notin After
    BY <2>1 DEF Spent, Complete, Quiet
  <2>6. Latest'
    <3> SUFFICES ASSUME NEW u \in Tab, tab'[u].at = "provider", oidc'[tab'[u].login].tab = u
                 PROVE  config'.client = tab'[u].pick /\ config'.url = tab'[u].pick
      BY DEF Latest
    <3>1. CASE u = t
      BY <3>1, <2>1, <2>4
    <3>2. CASE u # t
      <4>1. tab'[u].login = l
        BY <3>2, <2>1, <2>3 DEF Alone, Served
      <4> QED BY <4>1, <3>2, <2>2
    <3> QED BY <3>1, <3>2
  <2> QED BY <2>1, <2>3, <2>4, <2>5, <2>6
        DEF Single, Settled, Kept, Spent, Held, Complete, Quiet
<1>7. CASE SetupFails(t)
  <2>1. /\ tab[t].at \in Busy /\ tab' = [tab EXCEPT ![t] = Over] /\ tab[t].login \in Login
        /\ config' = config /\ oidc' = oidc /\ open' = open
    BY <1>7 DEF SetupFails
  <2>2. \A m \in Login : pc'[m] \in After => pc[m] \in After
    BY <1>7 DEF SetupFails
  <2>3. \A m \in Login : pc[m] \notin After
    BY <2>1 DEF Complete, Quiet
  <2>4. \A m \in Login : pc'[m] # "listening"
    BY <1>7, <2>1 DEF SetupFails, Alone, Served
  <2>5. config.tokens = None
    BY <1>7 DEF SetupFails, Spent
  <2>6. \A u \in Tab : u # t => tab'[u] = tab[u]
    BY <2>1
  <2>7. tab'[t].at = "over"
    BY <2>1
  <2>8. Latest'
    <3>1. \A u \in Tab : tab'[u].at = "provider" => tab'[u].login \in Login
      BY <2>6, <2>7
    <3> QED BY <2>4, <3>1 DEF Latest
  <2> QED BY <2>1, <2>2, <2>3, <2>5, <2>6, <2>7, <2>8
        DEF Single, Settled, Kept, Spent, Held, Complete, Quiet
<1>8. CASE Answer(t)
  <2> DEFINE l == tab[t].login
  <2>1. Quiet /\ pc[l] = "listening" /\ config.tokens = None
    BY <1>8, MarkQuiet DEF Answer
  <2>2. /\ tab[t].at = "provider" /\ config' = config /\ pc' = pc /\ oidc' = oidc
        /\ tab' = [tab EXCEPT ![t] = IF oidc[l].tab = t THEN [@ EXCEPT !.at = "exchange"] ELSE Over]
    BY <1>8 DEF Answer
  <2>3. \A u \in Tab : u # t => tab'[u] = tab[u] /\ tab'[u].at \notin Busy
    BY <2>1, <2>2 DEF Quiet
  <2>4. \A m \in Login : pc[m] \notin After
    BY <2>1, <2>2 DEF Alone
  <2>5. CASE oidc[l].tab = t
    <3>1. /\ tab'[t].at = "exchange" /\ tab'[t].pick = tab[t].pick /\ tab'[t].login = l
          /\ SettingsOf(tab[t].pick)
      BY <2>1, <2>2, <2>5 DEF Latest
    <3> QED BY <2>1, <2>2, <2>3, <2>4, <2>5, <3>1
          DEF Single, Settled, Latest, Kept, Spent, Held, Complete, Quiet
  <2>6. CASE oidc[l].tab # t
    <3>1. tab'[t].at = "over"
      BY <2>2, <2>6
    <3> QED BY <2>1, <2>2, <2>3, <2>4, <3>1
          DEF Single, Settled, Latest, Kept, Spent, Held, Complete, Quiet
  <2> QED BY <2>5, <2>6
<1>9. CASE Declined(t)
  <2> DEFINE l == tab[t].login
  <2>1. Quiet /\ pc[l] = "listening" /\ config.tokens = None
    BY <1>9, MarkQuiet DEF Declined
  <2>2. /\ config' = config /\ pc' = [pc EXCEPT ![l] = "failing"] /\ oidc' = oidc
        /\ tab' = [tab EXCEPT ![t] = Over]
    BY <1>9, <2>1 DEF Declined
  <2> QED BY <2>1, <2>2 DEF Single, Settled, Latest, Kept, Spent, Held, Complete, Quiet
<1>10. CASE ExchangeFails(t)
  <2>1. /\ tab[t].at = "exchange" /\ tab' = [tab EXCEPT ![t] = Over]
        /\ config' = config /\ pc' = pc /\ oidc' = oidc /\ open' = open
    BY <1>10 DEF ExchangeFails
  <2>2. config.tokens = None /\ \A m \in Login : pc[m] \notin After
    BY <2>1 DEF Spent, Complete, Quiet
  <2>3. \A u \in Tab : u # t => tab'[u] = tab[u] /\ tab'[u].at \notin Busy
    BY <2>1 DEF Single
  <2>4. tab'[t].at = "over"
    BY <2>1
  <2>5. \A u \in Tab : u # t /\ tab[u].at = "provider" => oidc[tab[u].login].tab # u
    BY <2>1 DEF Settled, Alone, Served
  <2> QED BY <2>1, <2>2, <2>3, <2>4, <2>5
        DEF Single, Settled, Latest, Kept, Spent, Held, Complete, Quiet
<1>11. CASE SaveTokens(t)
  <2>1. /\ tab[t].at = "exchange" /\ tab' = [tab EXCEPT ![t].at = "saving"]
        /\ config'.client = config.client /\ config'.url = config.url
        /\ config'.tokens = [login |-> tab[t].login, from |-> tab[t].pick]
        /\ pc' = pc /\ oidc' = oidc /\ open' = open
        /\ SettingsOf(tab[t].pick)
    BY <1>11 DEF SaveTokens, Settled
  <2>2. config'.tokens # None
    BY <2>1, TokensAssumption DEF Tokens
  <2>3. \A m \in Login : pc[m] \notin After
    BY <2>1 DEF Complete, Quiet
  <2>4. \A u \in Tab : u # t => tab'[u] = tab[u] /\ tab'[u].at \notin Busy
    BY <2>1 DEF Single
  <2>5. tab'[t].at = "saving" /\ tab'[t].pick = tab[t].pick
    BY <2>1
  <2> QED BY <2>1, <2>2, <2>3, <2>4, <2>5
        DEF Single, Settled, Latest, Kept, Spent, Held, Complete, Quiet
<1>12. CASE SaveProof(t)
  <2> DEFINE l == tab[t].login
  <2>1. /\ tab[t].at = "saving" /\ l \in Login /\ config.key = l
        /\ config.tokens # None /\ config.tokens.login = l
    BY <1>12 DEF SaveProof, Served, Held, OfKey
  <2>2. /\ config'.tokens = config.tokens /\ config'.key = l /\ config'.proof = l
        /\ config'.client = config.client /\ config'.url = config.url
        /\ tab' = [tab EXCEPT ![t] = Over] /\ oidc' = oidc /\ open' = open \ {l}
        /\ pc' = [pc EXCEPT ![l] = IF @ = "listening" THEN "registering" ELSE @]
    BY <1>12, <2>1 DEF SaveProof, AskSession, Holder, Source
  <2>3. \A m \in Login : pc[m] \notin After
    BY <2>1 DEF Complete, Quiet
  <2>4. \A u \in Tab : u # t => tab'[u] = tab[u] /\ tab'[u].at \notin Busy
    BY <2>1, <2>2 DEF Single
  <2>5. tab'[t].at = "over" /\ open' = {}
    BY <2>1, <2>2 DEF Alone, OwnKey, Served
  <2>6. \A m \in Login : pc'[m] # "listening"
    BY <2>1, <2>2, <2>5
  <2>7. \A m \in Login : pc'[m] \in After => m = l /\ pc'[m] = "registering"
    BY <2>1, <2>2, <2>3
  <2>8. Latest'
    <3>1. \A u \in Tab : tab'[u].at = "provider" => tab'[u].login \in Login
      BY <2>4, <2>5
    <3> QED BY <2>6, <3>1 DEF Latest
  <2> QED BY <2>1, <2>2, <2>3, <2>4, <2>5, <2>7, <2>8
        DEF Single, Settled, Kept, Spent, Held, Complete, Quiet
<1>13. CASE CannotSave(t)
  <2> DEFINE l == tab[t].login
  <2>1. /\ tab[t].at = "saving" /\ l \in Login /\ config' = config
        /\ tab' = [tab EXCEPT ![t] = Over] /\ oidc' = oidc /\ open' = open \ {l}
        /\ pc' = [pc EXCEPT ![l] = IF @ = "listening" THEN "failing" ELSE @]
    BY <1>13 DEF CannotSave
  <2>3. \A m \in Login : pc[m] \notin After
    BY <2>1 DEF Complete, Quiet
  <2>4. \A u \in Tab : u # t => tab'[u] = tab[u] /\ tab'[u].at \notin Busy
    BY <2>1 DEF Single
  <2>5. tab'[t].at = "over" /\ open' = {}
    BY <2>1 DEF Alone, OwnKey, Served
  <2>6. \A m \in Login : pc'[m] # "listening" /\ pc'[m] \notin After
    BY <2>1, <2>3, <2>5
  <2>8. Latest'
    <3>1. \A u \in Tab : tab'[u].at = "provider" => tab'[u].login \in Login
      BY <2>4, <2>5
    <3> QED BY <2>6, <3>1 DEF Latest
  <2> QED BY <2>1, <2>4, <2>5, <2>6, <2>8
        DEF Single, Settled, Kept, Spent, Held, Complete, Quiet
<1> QED BY <1>2, <1>3, <1>4, <1>5, <1>6, <1>7, <1>8, <1>9, <1>10, <1>11, <1>12, <1>13
    DEF TabStep

LEMMA InTurnAlways == Spec => []TurnInv
<1>1. Init => TurnInv
  BY TypeInit, OrderlyInit, InTurnInit DEF TurnInv, IInv
<1>2. TurnInv /\ [Next]_vars => TurnInv'
  <2> SUFFICES ASSUME TurnInv, [Next]_vars, overlap' = {} PROVE InTurn'
    BY TypeStep, OrderlyStep, ListensStep DEF TurnInv, IInv
  <2>1. CASE UNCHANGED vars
    BY <2>1 DEF vars, TurnInv, InTurn, Single, Settled, Latest, Kept, Spent, Held, Complete,
         SettingsOf, Quiet
  <2> QED BY <2>1, InTurnLogin, InTurnTab DEF Next
<1> QED BY <1>1, <1>2, PTL DEF Spec

\* As long as no login overlaps another, and no request comes while another is
\* handled or a failed login is about to exit, the tokens in the file are kept with
\* the client id and the address of the provider they are from, however many tabs
\* were sent to however many providers.
THEOREM SettingsOfTokensAlways == Spec => []SettingsOfTokens
<1>1. TurnInv => SettingsOfTokens
  BY DEF TurnInv, InTurn, Kept, SettingsOf, SettingsOfTokens
<1> QED BY <1>1, InTurnAlways, PTL

\* A login that tells success has its own tokens, key, proof, session and
\* subject in the file, whatever failed before, with the same exceptions.
THEOREM SuccessIsCompleteAlways == Spec => []SuccessIsComplete
<1>1. TurnInv => SuccessIsComplete
  BY DEF TurnInv, InTurn, Complete, After, SuccessIsComplete, Holder
<1> QED BY <1>1, InTurnAlways, PTL
=============================================================================

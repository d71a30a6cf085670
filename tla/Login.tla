-------------------------------- MODULE Login --------------------------------
(***************************************************************************)
(* `zli login': a listener on a local port that the user's browser is sent *)
(* to, first with the provider chosen on the web page and then with the    *)
(* provider's answer.  In between it looks up and stores the settings of   *)
(* the provider, and at the end it stores the tokens, registers a session  *)
(* and asks who the subject is.  Service accounts log in without one.      *)
(*                                                                         *)
(* The listener serves requests at once: an await in the handling of one   *)
(* lets another go on.  Settings, tokens, keys and session are in a file   *)
(* that all zli processes share.  Tokens, keys, sessions and subjects are  *)
(* named by the login they come from.  When tokens expire is TokenRefresh's*)
(* subject: here those of a login are valid throughout.                    *)
(***************************************************************************)
EXTENDS Naturals, FiniteSets

CONSTANTS
  Login,      \* runs of `zli login' or `zli service-account login'
  Tab,        \* visits of a browser to the login page
  Provider,   \* identity providers
  NeedsEmail, \* those whose settings are looked up by the user's email
  Account,    \* in place of a provider: the tokens of a service account
  Before,     \* in place of a login: the one before the first of these
  None

ASSUME LoginAssumption ==
  /\ NeedsEmail \subseteq Provider /\ Account \notin Provider
  /\ None \notin Login \cup Tab \cup Provider \cup {Account, Before}
  /\ Before \notin Login

VARIABLES
  config,   \* the configuration file
  pc, kind, \* where each login is, and of which kind
  subject,  \* whose tokens or session a request of it was sent with
  open,     \* the logins whose listener takes new requests
  oidc,     \* its client, and the tab whose verifier and state it keeps
  tab,      \* where each tab is, at which login, and what it asks for
  overlap   \* history: logins have overlapped, or requests to listeners

vars == <<config, pc, kind, subject, open, oidc, tab, overlap>>

Source == Login \cup {Before, None}
Setting == Provider \cup {None}
Tokens == [login : Login \cup {Before}, from : Provider \cup {Account}]
ASSUME TokensAssumption == None \notin Tokens
Client == [issuer : Provider, client : Provider, tab : Tab]

\* The handling of a request is under way.
Busy == {"setup", "discovery", "exchange", "saving"}
Running(l) == pc[l] \notin {"idle", "ended"}

TypeOK ==
  /\ config \in [idp : Setting, client : Setting, url : Setting,
                 tokens : Tokens \cup {None}, key : Source, proof : Source,
                 session : Source, me : Source]
  /\ pc \in [Login -> {"idle", "keys", "listening", "signing", "proving", "registering",
                       "totp", "defer", "me", "done", "failing", "ended"}]
  /\ kind \in [Login -> {"user", "service"}]
  /\ subject \in [Login -> Source] /\ open \subseteq Login
  /\ oidc \in [Login -> Client \cup {None}]
  /\ tab \in [Tab -> [at : Busy \cup {"choosing", "provider", "over"},
                      login : Login \cup {None}, pick : Setting]]
  /\ overlap \subseteq {"logins", "requests"}

NoTab == [at |-> "choosing", login |-> None, pick |-> None]
Over == [NoTab EXCEPT !.at = "over"]

\* Nobody is logged in, or somebody from before.
Init ==
  /\ config \in {[idp |-> i, client |-> i, url |-> i,
                  tokens |-> IF i = None THEN None ELSE [login |-> Before, from |-> i],
                  key |-> s, proof |-> s, session |-> s, me |-> s] :
                   i \in Setting, s \in {Before, None}}
  /\ config.idp = None <=> config.me = None
  /\ pc = [l \in Login |-> "idle"] /\ kind = [l \in Login |-> "user"]
  /\ subject = [l \in Login |-> None] /\ oidc = [l \in Login |-> None] /\ open = {}
  /\ tab = [t \in Tab |-> NoTab]
  /\ overlap = {}

-----------------------------------------------------------------------------

Goto(l, at) == pc' = [pc EXCEPT ![l] = at]
TabGoes(t, at) == tab' = [tab EXCEPT ![t] = IF at = "over" THEN Over ELSE [@ EXCEPT !.at = at]]

\* A promise settles once: what comes after the first call does nothing.
Reject(l) == pc' = [pc EXCEPT ![l] = IF @ = "listening" THEN "failing" ELSE @]

\* Who the tokens in the configuration file belong to.
Holder == IF config.tokens = None THEN None ELSE config.tokens.login

\* The session is asked for with those, or the request cannot be made.
AskSession(l, holder) ==
  /\ Goto(l, IF holder = None THEN "failing" ELSE "registering")
  /\ subject' = [subject EXCEPT ![l] = holder]

\* A request comes while another is handled, or while a login that has failed
\* is about to exit.
MarkRequest(l) == overlap' = overlap \cup
  IF pc[l] = "failing" \/ \E t \in Tab : tab[t].at \in Busy THEN {"requests"} ELSE {}

-----------------------------------------------------------------------------
(* Slips that a change to the code could make, one per operator.             *)

\* the session of the login before is not cleared.
BeginKeepsSession(l, k) ==
  /\ pc[l] = "idle"
  /\ overlap' = overlap \cup IF \E m \in Login : Running(m) THEN {"logins"} ELSE {}
  /\ config' = [config EXCEPT !.tokens = None, !.key = None, !.proof = None]
  /\ Goto(l, "keys") /\ kind' = [kind EXCEPT ![l] = k]
  /\ UNCHANGED <<subject, open, oidc, tab>>

\* the client, verifier and state of the first tab are kept.
RedirectKeepsClient(t) ==
  LET l == tab[t].login
  IN /\ tab[t].at = "discovery"
     /\ oidc' = [oidc EXCEPT ![l] = IF @ # None THEN @ ELSE
          [issuer |-> tab[t].pick, client |-> config.client, tab |-> t]]
     /\ TabGoes(t, IF tab[t].pick = config.client THEN "provider" ELSE "over")
     /\ UNCHANGED <<config, pc, kind, subject, open, overlap>>

\* a second factor that was not given is passed over.
PassOver(l) ==
  /\ pc[l] \in {"totp", "defer"}
  /\ Goto(l, "done")
  /\ UNCHANGED <<config, kind, subject, open, oidc, tab, overlap>>

-----------------------------------------------------------------------------
(* loginUserHandler and loginServiceAccountHandler *)

\* configService.logout, which leaves the settings and the subject.
Begin(l, k) ==
  /\ pc[l] = "idle"
  /\ overlap' = overlap \cup IF \E m \in Login : Running(m) THEN {"logins"} ELSE {}
  /\ config' = [config EXCEPT !.tokens = None, !.key = None, !.proof = None,
                              !.session = None]
  /\ Goto(l, "keys") /\ kind' = [kind EXCEPT ![l] = k]
  /\ UNCHANGED <<subject, open, oidc, tab>>

\* generateMrtapLoginData, then isAuthenticated.
GenerateKeys(l) ==
  /\ pc[l] = "keys"
  /\ config' = [config EXCEPT !.key = l, !.proof = None]
  /\ IF config.tokens # None
     THEN AskSession(l, Holder) /\ UNCHANGED open
     ELSE /\ Goto(l, IF kind[l] = "user" THEN "listening" ELSE "signing")
          /\ open' = IF kind[l] = "user" THEN open \cup {l} ELSE open
          /\ UNCHANGED subject
  /\ UNCHANGED <<kind, oidc, tab, overlap>>

\* The tokens are signed with the account's own key, and answer the nonce ...
SignTokens(l) ==
  /\ pc[l] = "signing" /\ Goto(l, "proving")
  /\ config' = [config EXCEPT !.tokens = [login |-> l, from |-> Account]]
  /\ UNCHANGED <<kind, subject, open, oidc, tab, overlap>>

\* ... setInitialIdToken takes what is in the file by then.
SignProof(l) ==
  /\ pc[l] = "proving"
  /\ config' = [config EXCEPT !.proof = Holder]
  /\ AskSession(l, Holder)
  /\ UNCHANGED <<kind, open, oidc, tab, overlap>>

\* Keys cannot be made, all ports are taken, a credentials file cannot be read
\* or has no second factor in it, or the process is interrupted.
CannotBegin(l) ==
  /\ pc[l] \in {"keys", "signing", "proving"}
  /\ Goto(l, "failing")
  /\ UNCHANGED <<config, kind, subject, open, oidc, tab, overlap>>

\* The minute that a login may take in the browser is over.
Timeout(l) ==
  /\ pc[l] = "listening"
  /\ Reject(l)
  /\ UNCHANGED <<config, kind, subject, open, oidc, tab, overlap>>

\* Register, LoginServiceAccount: the session in the cookies of the answer.
\* Only a user may have to give a second factor here.
Registered(l) ==
  /\ pc[l] = "registering"
  /\ config' = [config EXCEPT !.session = subject[l]]
  /\ \E next \in IF kind[l] = "user" THEN {"me", "totp", "defer"} ELSE {"me"} :
       Goto(l, next)
  /\ UNCHANGED <<kind, subject, open, oidc, tab, overlap>>

\* A second factor that may be set up later is also passed over.
SecondFactor(l) ==
  /\ pc[l] \in {"totp", "defer"}
  /\ Goto(l, IF config.session = None THEN "failing" ELSE "me")
  /\ subject' = [subject EXCEPT ![l] = config.session]
  /\ UNCHANGED <<config, kind, open, oidc, tab, overlap>>

SaveMe(l) ==
  /\ pc[l] = "me"
  /\ config' = [config EXCEPT !.me = subject[l]]
  /\ Goto(l, "done")
  /\ UNCHANGED <<kind, subject, open, oidc, tab, overlap>>

\* A request fails, the code is wrong or not given, or the account disabled.
\* What was saved stays.
GiveUp(l) ==
  /\ pc[l] \in {"registering", "totp", "defer", "me"}
  /\ Goto(l, "failing")
  /\ UNCHANGED <<config, kind, subject, open, oidc, tab, overlap>>

\* cleanExit, once the logs are flushed: what the process kept is gone.
Exit(l) ==
  /\ pc[l] \in {"done", "failing"}
  /\ Goto(l, "ended") /\ open' = open \ {l}
  /\ tab' = [t \in Tab |-> IF tab[t].login = l THEN Over ELSE tab[t]]
  /\ oidc' = [oidc EXCEPT ![l] = None] /\ subject' = [subject EXCEPT ![l] = None]
  /\ UNCHANGED <<config, kind, overlap>>

-----------------------------------------------------------------------------
(* The listener: /webapp-callback *)

\* loginSetup stores the provider before it asks for its settings.
Choose(t, l, i) ==
  /\ tab[t].at = "choosing" /\ l \in open
  /\ MarkRequest(l)
  /\ config' = [config EXCEPT !.idp = i]
  /\ tab' = [tab EXCEPT ![t] = [at |-> "setup", login |-> l, pick |-> i]]
  /\ UNCHANGED <<pc, kind, subject, open, oidc>>

\* A provider the zli does not know, or no email where it is needed.
CannotChoose(t, l) ==
  /\ tab[t].at = "choosing" /\ l \in open
  /\ \E i \in NeedsEmail \cup {None} :
       config' = [config EXCEPT !.idp = IF i = None THEN @ ELSE i]
  /\ MarkRequest(l)
  /\ TabGoes(t, "over")
  /\ Reject(l)
  /\ UNCHANGED <<kind, subject, open, oidc>>

\* The rest of loginSetup; setupClient then asks this issuer for its endpoints.
StoreSettings(t) ==
  /\ tab[t].at = "setup"
  /\ config' = [config EXCEPT !.client = tab[t].pick, !.url = tab[t].pick, !.me = None]
  /\ TabGoes(t, "discovery")
  /\ UNCHANGED <<pc, kind, subject, open, oidc, overlap>>

\* The client id is read after the issuer has answered: it may be another's,
\* which the provider refuses.
Redirect(t) ==
  LET l == tab[t].login
  IN /\ tab[t].at = "discovery"
     /\ oidc' = [oidc EXCEPT ![l] =
          [issuer |-> tab[t].pick, client |-> config.client, tab |-> t]]
     /\ TabGoes(t, IF tab[t].pick = config.client THEN "provider" ELSE "over")
     /\ UNCHANGED <<config, pc, kind, subject, open, overlap>>

\* The provider or the organization is not found, or a request fails.
SetupFails(t) ==
  /\ tab[t].at \in {"setup", "discovery"}
  /\ TabGoes(t, "over")
  /\ Reject(tab[t].login)
  /\ UNCHANGED <<config, kind, subject, open, oidc, overlap>>

-----------------------------------------------------------------------------
(* The listener: /login-callback *)

\* The answer is exchanged for tokens if it has the state of the latest tab.
\* Else the error is thrown in the listener, where nobody catches it.
Answer(t) ==
  /\ tab[t].at = "provider" /\ tab[t].login \in open
  /\ MarkRequest(tab[t].login)
  /\ TabGoes(t, IF oidc[tab[t].login].tab = t THEN "exchange" ELSE "over")
  /\ UNCHANGED <<config, pc, kind, subject, open, oidc>>

\* An answer meant for an earlier login on this port.
StrayAnswer(t, l) ==
  /\ tab[t].at = "choosing" /\ l \in open
  /\ MarkRequest(l)
  /\ TabGoes(t, "over")
  /\ IF oidc[l] = None THEN Reject(l) ELSE UNCHANGED pc
  /\ UNCHANGED <<config, kind, subject, open, oidc>>

\* /logout-callback resolves the login, with whatever tokens there are.
LogoutAnswer(l) ==
  /\ l \in open
  /\ MarkRequest(l)
  /\ open' = open \ {l}
  /\ IF pc[l] = "listening" THEN AskSession(l, Holder) ELSE UNCHANGED <<pc, subject>>
  /\ UNCHANGED <<config, kind, oidc, tab>>

\* The user does not consent: the error rejects before it is thrown as well.
Declined(t) ==
  /\ tab[t].at = "provider" /\ tab[t].login \in open
  /\ MarkRequest(tab[t].login)
  /\ TabGoes(t, "over")
  /\ Reject(tab[t].login)
  /\ UNCHANGED <<config, kind, subject, open, oidc>>

\* The code is refused, or the tokens do not answer verifier and nonce.
ExchangeFails(t) ==
  /\ tab[t].at = "exchange"
  /\ TabGoes(t, "over")
  /\ UNCHANGED <<config, pc, kind, subject, open, oidc, overlap>>

SaveTokens(t) ==
  /\ tab[t].at = "exchange"
  /\ config' = [config EXCEPT !.tokens =
                  [login |-> tab[t].login, from |-> tab[t].pick]]
  /\ TabGoes(t, "saving")
  /\ UNCHANGED <<pc, kind, subject, open, oidc, overlap>>

\* setInitialIdToken with what is in the file by now.  The server is closed
\* and success is told, also if the login has been rejected meanwhile.
SaveProof(t) ==
  LET l == tab[t].login
  IN /\ tab[t].at = "saving"
     /\ config' = [config EXCEPT !.proof = Holder]
     /\ open' = open \ {l}
     /\ TabGoes(t, "over")
     /\ IF pc[l] = "listening" THEN AskSession(l, Holder) ELSE UNCHANGED <<pc, subject>>
     /\ UNCHANGED <<kind, oidc, overlap>>

CannotSave(t) ==
  /\ tab[t].at = "saving"
  /\ open' = open \ {tab[t].login}
  /\ TabGoes(t, "over")
  /\ Reject(tab[t].login)
  /\ UNCHANGED <<config, kind, subject, oidc, overlap>>

-----------------------------------------------------------------------------

LoginStep(l) ==
  \/ \E k \in {"user", "service"} : Begin(l, k)
  \/ GenerateKeys(l) \/ SignTokens(l) \/ SignProof(l) \/ CannotBegin(l)
  \/ Timeout(l) \/ LogoutAnswer(l) \/ Registered(l) \/ SecondFactor(l) \/ SaveMe(l) \/ GiveUp(l) \/ Exit(l)

TabStep(t) ==
  \/ \E l \in Login : CannotChoose(t, l) \/ StrayAnswer(t, l)
                       \/ \E i \in Provider : Choose(t, l, i)
  \/ StoreSettings(t) \/ Redirect(t) \/ SetupFails(t)
  \/ Answer(t) \/ Declined(t) \/ ExchangeFails(t)
  \/ SaveTokens(t) \/ SaveProof(t) \/ CannotSave(t)

Next == (\E l \in Login : LoginStep(l)) \/ (\E t \in Tab : TabStep(t))

Spec == Init /\ [][Next]_vars

-----------------------------------------------------------------------------
(* Properties *)

\* Unless logins have overlapped, what the file has of an identity is of one
\* login: the key, the proof of it, the session and a user's subject are those of
\* the tokens, whatever fails on the way and however many tabs answer.
OneIdentity ==
  "logins" \notin overlap /\ config.tokens # None =>
    /\ config.key = Holder
    /\ config.proof \in {Holder, None} /\ config.session \in {Holder, None}
    /\ config.tokens.from # Account => config.me \in {Holder, None}

\* Tokens are kept with the client id and the address of the provider they are
\* from, with which they will be refreshed, and a tab left for another provider's
\* cannot complete the login.  It takes no account of histories in which logins
\* have overlapped, or a request has come while another was handled or while a
\* login that had failed was about to exit: the code stores other settings then.
SettingsOfTokens ==
  overlap = {} /\ config.tokens # None /\ config.tokens.from # Account =>
    config.client = config.tokens.from /\ config.url = config.tokens.from

\* When success is told by the exit status, all that a later command needs is
\* there, and is of this login, with the same exceptions: logins or requests that
\* have overlapped.
SuccessIsComplete == \A l \in Login : overlap = {} /\ pc[l] = "done" =>
  /\ Holder = l /\ config.key = l /\ config.proof = l
  /\ config.session = l /\ config.me = l
=============================================================================

---------------------------- MODULE TokenRefresh ----------------------------
(***************************************************************************)
(* The OAuth tokens in the zli's configuration file, the commands that     *)
(* refresh them once they expire, and the logins and logouts of the user.  *)
(* Every daemon runs `zli refresh' when it needs tokens, so many commands  *)
(* refresh at the same time.  A lock file makes them take turns, because   *)
(* an identity provider may accept a refresh token only once.              *)
(*                                                                         *)
(* A token set is named by the login it descends from and by how often it  *)
(* was refreshed since.                                                    *)
(***************************************************************************)
EXTENDS Naturals

CONSTANTS
  Cmd,       \* zli processes that need the tokens
  MaxEpoch,  \* bound on the times the user logs in or out
  MaxGen,    \* bound on the refreshes after one login
  None       \* no tokens

Token == [epoch : 0 .. MaxEpoch, gen : 0 .. MaxGen]

ASSUME TokenAssumption ==
  /\ Cmd \cap {"free", "stale"} = {}
  /\ MaxEpoch \in Nat /\ MaxGen \in Nat
  /\ None \notin Token

VARIABLES
  tokens,   \* tokenSet in the configuration file
  valid,    \* whether its id token has five minutes to live
  me,       \* the type of the subject in the configuration file
  lock,     \* who holds the lock; stale when its holder was killed
  pc,       \* where each command is
  held,     \* the tokens a command presents, or was given
  epoch,    \* how often the user has logged in or out
  issued,   \* the latest refresh the provider did for each login
  user,     \* where the login or logout of the user is
  mishaps   \* history: what has happened that the commands cannot help

vars == <<tokens, valid, me, lock, pc, held, epoch, issued, user, mishaps>>
provider == <<epoch, issued, user>>

\* A request failed or a process was killed; the lock stayed taken for longer
\* than a command waits; the user logged in or out.
Mishap == {"failure", "timeout", "login"}

\* getTokenSet from the lock on, whether the command got it or not.
Section == {"locked", "discovering", "asking", "saving", "registering", "me"}

TypeOK ==
  /\ tokens \in Token \cup {None}
  /\ valid \in BOOLEAN
  /\ me \in {"user", "service"}
  /\ lock \in Cmd \cup {"free", "stale"}
  /\ pc \in [Cmd -> Section \cup {"idle", "locking", "clearing", "leaving"}]
  /\ held \in [Cmd -> Token \cup {None}]
  /\ \A p \in Cmd : pc[p] \in {"asking", "saving"} => held[p] # None
  /\ epoch \in 0 .. MaxEpoch
  /\ issued \in [0 .. MaxEpoch -> 0 .. MaxGen]
  /\ user \in {"idle", "browser", "registering", "me"}
  /\ mishaps \subseteq Mishap

Init ==
  /\ tokens \in {None, [epoch |-> 0, gen |-> 0]}
  /\ valid \in BOOLEAN
  /\ me \in {"user", "service"}
  /\ lock = "free"
  /\ pc = [p \in Cmd |-> "idle"]
  /\ held = [p \in Cmd |-> None]
  /\ epoch = 0
  /\ issued = [e \in 0 .. MaxEpoch |-> 0]
  /\ user = "idle"
  /\ mishaps = {}

LoggedIn == tokens # None
Authenticated == LoggedIn /\ valid
Newer(t, s) == t.epoch > s.epoch \/ (t.epoch = s.epoch /\ t.gen > s.gen)

Drop(p) == held' = [held EXCEPT ![p] = None]
Goto(p, l) == pc' = [pc EXCEPT ![p] = l]
Mark(kind) == mishaps' = mishaps \cup {kind}
Unlock(p) == lock' = IF lock = p THEN "free" ELSE lock

\* A provider may refuse a refresh token that was used before, or accept it
\* again, always or for a while.
UsedBefore(p) == held[p].gen # issued[held[p].epoch]
NextToken(e) == [epoch |-> e, gen |-> issued[e] + 1]

-----------------------------------------------------------------------------
(* Slips that a change to the code could make, one per operator.             *)

\* the lock is released before the new tokens are saved.
GrantUnlocked(p) ==
  /\ pc[p] = "asking"
  /\ issued[held[p].epoch] < MaxGen
  /\ issued' = [issued EXCEPT ![held[p].epoch] = @ + 1]
  /\ held' = [held EXCEPT ![p] = NextToken(held[p].epoch)]
  /\ Unlock(p)
  /\ Goto(p, "saving")
  /\ UNCHANGED <<tokens, valid, me, epoch, user, mishaps>>

\* the tokens are not looked at again under the lock.
RefreshAnyway(p) ==
  /\ pc[p] = "locked"
  /\ Goto(p, "discovering")
  /\ UNCHANGED <<tokens, valid, me, lock, held, provider, mishaps>>

\* any lock is taken for stale.
TakeAnyLock(p) ==
  /\ pc[p] = "locking"
  /\ lock' = p
  /\ Goto(p, "locked")
  /\ UNCHANGED <<tokens, valid, me, held, provider, mishaps>>

\* a refresh that failed is tried again.
RetryRefused(p) ==
  /\ pc[p] = "asking"
  /\ IF UsedBefore(p) THEN UNCHANGED mishaps ELSE Mark("failure")
  /\ Goto(p, "discovering")
  /\ UNCHANGED <<tokens, valid, me, lock, held, provider>>

-----------------------------------------------------------------------------
(* getIdTokenAndExitOnError and getTokenSet, up to the lock *)

\* A command that finds no tokens, or tokens that are valid, ends at once and
\* changes nothing, also when there is no session to go with them.

\* Service accounts cannot refresh: the error logs them out.
ServiceAccountExpired(p) ==
  /\ pc[p] = "idle" /\ LoggedIn /\ ~valid
  /\ me = "service"
  /\ Goto(p, "clearing")
  /\ UNCHANGED <<tokens, valid, me, lock, held, provider, mishaps>>

NeedsRefresh(p) ==
  /\ pc[p] = "idle" /\ LoggedIn /\ ~valid
  /\ me # "service"
  /\ Goto(p, "locking")
  /\ UNCHANGED <<tokens, valid, me, lock, held, provider, mishaps>>

AcquireLock(p) ==
  /\ pc[p] = "locking"
  /\ lock \in {"free", "stale"}
  /\ lock' = p
  /\ Goto(p, "locked")
  /\ UNCHANGED <<tokens, valid, me, held, provider, mishaps>>

\* cleanExit is called and not awaited: the command goes on without the lock
\* for as long as the logs are flushed and the error is reported.
LockTimeout(p) ==
  /\ pc[p] = "locking"
  /\ lock # "free"
  /\ Mark("timeout")
  /\ Goto(p, "locked")
  /\ UNCHANGED <<tokens, valid, me, lock, held, provider>>

\* The exit that LockTimeout began.
ExitUnlocked(p) ==
  /\ pc[p] \in Section /\ lock # p
  /\ Drop(p)
  /\ Goto(p, "idle")
  /\ UNCHANGED <<tokens, valid, me, lock, provider, mishaps>>

-----------------------------------------------------------------------------
(* getTokenSet, from the lock on *)

\* Without a lock there is no release to call: the TypeError logs out.
RefreshedMeanwhile(p) ==
  /\ pc[p] = "locked" /\ Authenticated
  /\ Unlock(p)
  /\ Goto(p, IF lock = p THEN "idle" ELSE "clearing")
  /\ UNCHANGED <<tokens, valid, me, held, provider, mishaps>>

\* setupClient asks the provider for its endpoints.
StillExpired(p) ==
  /\ pc[p] = "locked" /\ ~Authenticated
  /\ Goto(p, "discovering")
  /\ UNCHANGED <<tokens, valid, me, lock, held, provider, mishaps>>

ReadForRefresh(p) ==
  /\ pc[p] = "discovering" /\ LoggedIn
  /\ held' = [held EXCEPT ![p] = tokens]
  /\ Goto(p, "asking")
  /\ UNCHANGED <<tokens, valid, me, lock, provider, mishaps>>

\* Discovery fails, or the tokens are gone: the lock is released, and then
\* the error logs out.
CannotRefresh(p) ==
  /\ pc[p] = "discovering"
  /\ IF LoggedIn THEN Mark("failure") ELSE UNCHANGED mishaps
  /\ Unlock(p)
  /\ Goto(p, "clearing")
  /\ UNCHANGED <<tokens, valid, me, held, provider>>

IdpGrants(p) ==
  /\ pc[p] = "asking"
  /\ issued[held[p].epoch] < MaxGen
  /\ issued' = [issued EXCEPT ![held[p].epoch] = @ + 1]
  /\ held' = [held EXCEPT ![p] = NextToken(held[p].epoch)]
  /\ Goto(p, "saving")
  /\ UNCHANGED <<tokens, valid, me, lock, epoch, user, mishaps>>

IdpRefuses(p) ==
  /\ pc[p] = "asking"
  /\ IF UsedBefore(p) THEN UNCHANGED mishaps ELSE Mark("failure")
  /\ Unlock(p)
  /\ Drop(p)
  /\ Goto(p, "clearing")
  /\ UNCHANGED <<tokens, valid, me, provider>>

SaveTokens(p) ==
  /\ pc[p] = "saving"
  /\ tokens' = held[p] /\ valid' = TRUE
  /\ Drop(p)
  /\ Goto(p, "registering")
  /\ UNCHANGED <<me, lock, provider, mishaps>>

Register(p) ==
  /\ pc[p] = "registering" /\ LoggedIn
  /\ Goto(p, "me")
  /\ UNCHANGED <<tokens, valid, me, lock, held, provider, mishaps>>

\* Register or Me throws: the lock stays taken, and the error logs out.
RegisterFails(p) ==
  /\ pc[p] \in {"registering", "me"}
  /\ IF LoggedIn THEN Mark("failure") ELSE UNCHANGED mishaps
  /\ Goto(p, "clearing")
  /\ UNCHANGED <<tokens, valid, me, lock, held, provider>>

SaveMe(p) ==
  /\ pc[p] = "me" /\ LoggedIn
  /\ me' = "user"
  /\ Unlock(p)
  /\ Goto(p, IF lock = p THEN "idle" ELSE "clearing")
  /\ UNCHANGED <<tokens, valid, held, provider, mishaps>>

\* configService.logout ...
ClearTokens(p) ==
  /\ pc[p] = "clearing"
  /\ tokens' = None
  /\ Goto(p, "leaving")
  /\ UNCHANGED <<valid, me, lock, held, provider, mishaps>>

\* ... and the exit, at which the lock file of the process is removed.
ExitLoggedOut(p) ==
  /\ pc[p] = "leaving"
  /\ Unlock(p)
  /\ Goto(p, "idle")
  /\ UNCHANGED <<tokens, valid, me, held, provider, mishaps>>

\* No exit handler runs: the lock file stays until it is found stale.
Kill(p) ==
  /\ pc[p] # "idle"
  /\ lock' = IF lock = p THEN "stale" ELSE lock
  /\ Mark("failure")
  /\ Drop(p)
  /\ Goto(p, "idle")
  /\ UNCHANGED <<tokens, valid, me, provider>>

-----------------------------------------------------------------------------
(* The user, and the passing of time *)

Expire ==
  /\ Authenticated /\ tokens.gen < MaxGen
  /\ valid' = FALSE
  /\ UNCHANGED <<tokens, me, lock, pc, held, provider, mishaps>>

\* logoutHandler and loginUserHandler both begin with configService.logout.
LogOut(next) ==
  /\ user = "idle" /\ epoch < MaxEpoch
  /\ Mark("login")
  /\ tokens' = None
  /\ epoch' = epoch + 1
  /\ user' = next
  /\ UNCHANGED <<valid, me, lock, pc, held, issued>>

\* isAuthenticated: the browser is opened only when it is needed.
SkipBrowser ==
  /\ user = "browser" /\ Authenticated
  /\ user' = "registering"
  /\ UNCHANGED <<tokens, valid, me, lock, pc, held, epoch, issued,
                 mishaps>>

LoginCallback ==
  /\ user = "browser"
  /\ tokens' = [epoch |-> epoch, gen |-> 0] /\ valid' = TRUE
  /\ user' = "registering"
  /\ UNCHANGED <<me, lock, pc, held, epoch, issued,
                 mishaps>>

LoginRegister ==
  /\ user = "registering" /\ LoggedIn
  /\ user' = "me"
  /\ UNCHANGED <<tokens, valid, me, lock, pc, held, epoch, issued,
                 mishaps>>

LoginDone ==
  /\ user = "me"
  /\ me' \in {"user", "service"}
  /\ user' = "idle"
  /\ UNCHANGED <<tokens, valid, lock, pc, held, epoch, issued,
                 mishaps>>

\* The minute for the browser is over, a request failed, or the second factor
\* is missing: what was saved by then stays.
LoginFails ==
  /\ user \in {"browser", "registering", "me"}
  /\ user' = "idle"
  /\ UNCHANGED <<tokens, valid, me, lock, pc, held, epoch, issued,
                 mishaps>>

-----------------------------------------------------------------------------

Step(p) ==
  \/ ServiceAccountExpired(p) \/ NeedsRefresh(p)
  \/ AcquireLock(p) \/ LockTimeout(p) \/ ExitUnlocked(p)
  \/ RefreshedMeanwhile(p) \/ StillExpired(p) \/ ReadForRefresh(p)
  \/ CannotRefresh(p) \/ IdpGrants(p) \/ IdpRefuses(p) \/ SaveTokens(p)
  \/ Register(p) \/ RegisterFails(p) \/ SaveMe(p)
  \/ ClearTokens(p) \/ ExitLoggedOut(p)

UserStep ==
  \/ \E next \in {"idle", "browser"} : LogOut(next)
  \/ SkipBrowser \/ LoginCallback \/ LoginRegister
  \/ LoginDone \/ LoginFails

Next ==
  \/ \E p \in Cmd : Step(p) \/ Kill(p)
  \/ Expire
  \/ UserStep

Spec == Init /\ [][Next]_vars

\* A command that runs is scheduled; requests and the wait for the lock have
\* time limits.
FairSpec == Spec /\ \A p \in Cmd : WF_vars(pc[p] # "idle" /\ Step(p))
-----------------------------------------------------------------------------
(* Properties *)

\* As long as the lock can be had, two commands are never between taking and
\* releasing it, whoever is killed in there.
OneRefresher == "timeout" \notin mishaps =>
  \A p, q \in Cmd : pc[p] \in Section /\ pc[q] \in Section => p = q

Undisturbed == mishaps \subseteq {"failure"}

\* Until a lock times out or the user logs in or out, the provider is asked to
\* refresh only tokens that have expired and that no other command has
\* replaced: one refresh for each expiry, whatever fails.
AsksOnlyForExpired == Undisturbed => \A p \in Cmd : pc[p] = "asking" =>
  tokens = None \/ (tokens = held[p] /\ ~valid)

\* Nor does a command overwrite tokens with older ones.
TokensNeverGoBack ==
  [][Undisturbed /\ LoggedIn /\ tokens' \notin {tokens, None}
       => Newer(tokens', tokens)]_vars

\* Commands that overlap never log a user out while provider and service
\* answer: in particular none presents a refresh token a second time.
StaysLoggedIn ==
  [][mishaps' = {} /\ me = "user" /\ LoggedIn => LoggedIn']_vars

\* Every command comes to an end, whoever is killed with the lock.
CommandTerminates == \A p \in Cmd : pc[p] # "idle" ~> pc[p] = "idle"
=============================================================================

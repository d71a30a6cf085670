------------------------- MODULE TokenRefreshProofs -------------------------
(* Theorems about TokenRefresh, for any number of commands, logins and       *)
(* refreshes, whichever of them fail or are killed.                          *)
EXTENDS TokenRefresh, TLAPS

USE TokenAssumption

-----------------------------------------------------------------------------
(* Types *)

LEMMA TypeStep == TypeOK /\ [Next]_vars => TypeOK'
<1> SUFFICES ASSUME TypeOK, [Next]_vars PROVE TypeOK'
  OBVIOUS
<1> USE DEF TypeOK, Token, Section, Mishap
<1>1. ASSUME NEW p \in Cmd, ServiceAccountExpired(p) PROVE TypeOK'
  BY <1>1 DEF ServiceAccountExpired, Goto, provider
<1>2. ASSUME NEW p \in Cmd, NeedsRefresh(p) PROVE TypeOK'
  BY <1>2 DEF NeedsRefresh, Goto, provider
<1>3. ASSUME NEW p \in Cmd, AcquireLock(p) PROVE TypeOK'
  BY <1>3 DEF AcquireLock, Goto, provider
<1>4. ASSUME NEW p \in Cmd, LockTimeout(p) PROVE TypeOK'
  BY <1>4 DEF LockTimeout, Mark, Goto, provider
<1>5. ASSUME NEW p \in Cmd, ExitUnlocked(p) PROVE TypeOK'
  BY <1>5 DEF ExitUnlocked, Drop, Goto, provider
<1>6. ASSUME NEW p \in Cmd, RefreshedMeanwhile(p) PROVE TypeOK'
  BY <1>6 DEF RefreshedMeanwhile, Goto, Unlock, provider
<1>7. ASSUME NEW p \in Cmd, StillExpired(p) PROVE TypeOK'
  BY <1>7 DEF StillExpired, Goto, provider
<1>8. ASSUME NEW p \in Cmd, ReadForRefresh(p) PROVE TypeOK'
  BY <1>8 DEF ReadForRefresh, Goto, provider, LoggedIn
<1>9. ASSUME NEW p \in Cmd, CannotRefresh(p) PROVE TypeOK'
  BY <1>9 DEF CannotRefresh, Mark, Goto, Unlock, provider
<1>10. ASSUME NEW p \in Cmd, IdpGrants(p) PROVE TypeOK'
  BY <1>10 DEF IdpGrants, Goto, NextToken
<1>11. ASSUME NEW p \in Cmd, IdpRefuses(p) PROVE TypeOK'
  BY <1>11 DEF IdpRefuses, Drop, Mark, Goto, Unlock, provider
<1>12. ASSUME NEW p \in Cmd, SaveTokens(p) PROVE TypeOK'
  BY <1>12 DEF SaveTokens, Drop, Goto, provider
<1>13. ASSUME NEW p \in Cmd, Register(p) PROVE TypeOK'
  BY <1>13 DEF Register, Goto, provider
<1>14. ASSUME NEW p \in Cmd, RegisterFails(p) PROVE TypeOK'
  BY <1>14 DEF RegisterFails, Mark, Goto, provider
<1>15. ASSUME NEW p \in Cmd, SaveMe(p) PROVE TypeOK'
  BY <1>15 DEF SaveMe, Goto, Unlock, provider
<1>16. ASSUME NEW p \in Cmd, ClearTokens(p) PROVE TypeOK'
  BY <1>16 DEF ClearTokens, Goto, provider
<1>17. ASSUME NEW p \in Cmd, ExitLoggedOut(p) PROVE TypeOK'
  BY <1>17 DEF ExitLoggedOut, Goto, Unlock, provider
<1>18. ASSUME NEW p \in Cmd, Kill(p) PROVE TypeOK'
  BY <1>18 DEF Kill, Drop, Mark, Goto, provider
<1>19. ASSUME Expire PROVE TypeOK'
  BY <1>19 DEF Expire, provider, Authenticated, LoggedIn
<1>20. ASSUME NEW next \in {"idle", "browser"}, LogOut(next) PROVE TypeOK'
  BY <1>20 DEF LogOut, Mark
<1>21. ASSUME SkipBrowser PROVE TypeOK'
  BY <1>21 DEF SkipBrowser
<1>22. ASSUME LoginCallback PROVE TypeOK'
  BY <1>22 DEF LoginCallback
<1>23. ASSUME LoginRegister PROVE TypeOK'
  BY <1>23 DEF LoginRegister
<1>24. ASSUME LoginDone PROVE TypeOK'
  BY <1>24 DEF LoginDone
<1>25. ASSUME LoginFails PROVE TypeOK'
  BY <1>25 DEF LoginFails
<1>26. CASE UNCHANGED vars
  BY <1>26 DEF vars
<1>27. QED
  BY <1>1, <1>2, <1>3, <1>4, <1>5, <1>6, <1>7, <1>8, <1>9, <1>10, <1>11, <1>12,
      <1>13, <1>14, <1>15, <1>16, <1>17, <1>18, <1>19, <1>20, <1>21, <1>22,
      <1>23, <1>24, <1>25, <1>26 DEF Next, Step, UserStep

\* Every variable stays in its type: tokens that are presented or stored are
\* tokens some login or refresh has returned, or none.
THEOREM TypeCorrect == Spec => []TypeOK
<1>1. Init => TypeOK
  BY DEF Init, TypeOK, Token
<1>2. QED
  BY <1>1, TypeStep, PTL DEF Spec

-----------------------------------------------------------------------------
(* The lock *)

\* Whoever is in the section got there by the lock, and still has it.
Holder == "timeout" \notin mishaps =>
  \A p \in Cmd : pc[p] \in Section => lock = p

LEMMA HolderStep == TypeOK /\ Holder /\ [Next]_vars => Holder'
<1> SUFFICES ASSUME TypeOK, Holder, [Next]_vars PROVE Holder'
  OBVIOUS
<1> USE DEF TypeOK, Section, Holder
<1>1. ASSUME NEW p \in Cmd, ServiceAccountExpired(p) PROVE Holder'
  BY <1>1 DEF ServiceAccountExpired, Goto, provider
<1>2. ASSUME NEW p \in Cmd, NeedsRefresh(p) PROVE Holder'
  BY <1>2 DEF NeedsRefresh, Goto, provider
<1>3. ASSUME NEW p \in Cmd, AcquireLock(p) PROVE Holder'
  BY <1>3 DEF AcquireLock, Goto, provider
<1>4. ASSUME NEW p \in Cmd, LockTimeout(p) PROVE Holder'
  BY <1>4 DEF LockTimeout, Mark, Goto, provider
<1>5. ASSUME NEW p \in Cmd, ExitUnlocked(p) PROVE Holder'
  BY <1>5 DEF ExitUnlocked, Drop, Goto, provider
<1>6. ASSUME NEW p \in Cmd, RefreshedMeanwhile(p) PROVE Holder'
  BY <1>6 DEF RefreshedMeanwhile, Goto, Unlock, provider
<1>7. ASSUME NEW p \in Cmd, StillExpired(p) PROVE Holder'
  BY <1>7 DEF StillExpired, Goto, provider
<1>8. ASSUME NEW p \in Cmd, ReadForRefresh(p) PROVE Holder'
  BY <1>8 DEF ReadForRefresh, Goto, provider
<1>9. ASSUME NEW p \in Cmd, CannotRefresh(p) PROVE Holder'
  BY <1>9 DEF CannotRefresh, Mark, Goto, Unlock, provider
<1>10. ASSUME NEW p \in Cmd, IdpGrants(p) PROVE Holder'
  BY <1>10 DEF IdpGrants, Goto
<1>11. ASSUME NEW p \in Cmd, IdpRefuses(p) PROVE Holder'
  BY <1>11 DEF IdpRefuses, Drop, Mark, Goto, Unlock, provider
<1>12. ASSUME NEW p \in Cmd, SaveTokens(p) PROVE Holder'
  BY <1>12 DEF SaveTokens, Drop, Goto, provider
<1>13. ASSUME NEW p \in Cmd, Register(p) PROVE Holder'
  BY <1>13 DEF Register, Goto, provider
<1>14. ASSUME NEW p \in Cmd, RegisterFails(p) PROVE Holder'
  BY <1>14 DEF RegisterFails, Mark, Goto, provider
<1>15. ASSUME NEW p \in Cmd, SaveMe(p) PROVE Holder'
  BY <1>15 DEF SaveMe, Goto, Unlock, provider
<1>16. ASSUME NEW p \in Cmd, ClearTokens(p) PROVE Holder'
  BY <1>16 DEF ClearTokens, Goto, provider
<1>17. ASSUME NEW p \in Cmd, ExitLoggedOut(p) PROVE Holder'
  BY <1>17 DEF ExitLoggedOut, Goto, Unlock, provider
<1>18. ASSUME NEW p \in Cmd, Kill(p) PROVE Holder'
  BY <1>18 DEF Kill, Drop, Mark, Goto, provider
<1>19. ASSUME Expire PROVE Holder'
  BY <1>19 DEF Expire, provider
<1>20. ASSUME NEW next \in {"idle", "browser"}, LogOut(next) PROVE Holder'
  BY <1>20 DEF LogOut, Mark
<1>21. ASSUME SkipBrowser PROVE Holder'
  BY <1>21 DEF SkipBrowser
<1>22. ASSUME LoginCallback PROVE Holder'
  BY <1>22 DEF LoginCallback
<1>23. ASSUME LoginRegister PROVE Holder'
  BY <1>23 DEF LoginRegister
<1>24. ASSUME LoginDone PROVE Holder'
  BY <1>24 DEF LoginDone
<1>25. ASSUME LoginFails PROVE Holder'
  BY <1>25 DEF LoginFails
<1>26. CASE UNCHANGED vars
  BY <1>26 DEF vars
<1>27. QED
  BY <1>1, <1>2, <1>3, <1>4, <1>5, <1>6, <1>7, <1>8, <1>9, <1>10, <1>11, <1>12,
      <1>13, <1>14, <1>15, <1>16, <1>17, <1>18, <1>19, <1>20, <1>21, <1>22,
      <1>23, <1>24, <1>25, <1>26 DEF Next, Step, UserStep

LEMMA HolderAlways == Spec => []Holder
<1>1. Init => Holder
  BY DEF Init, Holder, Section
<1>2. TypeOK /\ Holder /\ [Next]_vars => Holder'
  BY HolderStep
<1>3. QED
  BY <1>1, <1>2, TypeCorrect, PTL DEF Spec

\* Until a command gives up waiting, at most one is between taking the lock
\* and releasing it, although locks of killed commands are taken over.
THEOREM OneRefresherAlways == Spec => []OneRefresher
<1>1. Holder => OneRefresher
  BY DEF Holder, OneRefresher
<1>2. QED
  BY <1>1, HolderAlways, PTL

-----------------------------------------------------------------------------
(* What is asked of the provider, until a lock times out or the user acts *)

\* Who has not logged in or out is not doing so.
AtRest == "login" \notin mishaps => user = "idle"

\* From the second look at the tokens to the answer of the provider they stay
\* as they are, or another command that failed removes them.
Expired == Undisturbed => \A p \in Cmd :
  /\ pc[p] = "discovering" => tokens = None \/ ~valid
  /\ pc[p] = "asking" => tokens = None \/ (tokens = held[p] /\ ~valid)

LEMMA ExpiredStep ==
  AtRest /\ TypeOK /\ Holder /\ Expired /\ [Next]_vars => Expired'
<1> SUFFICES ASSUME AtRest, TypeOK, Holder, Expired, [Next]_vars
             PROVE  Expired'
  OBVIOUS
<1> USE DEF TypeOK, Section, Mishap, AtRest, Holder, Expired, Undisturbed,
    LoggedIn, Authenticated
<1>1. ASSUME NEW p \in Cmd, ServiceAccountExpired(p) PROVE Expired'
  BY <1>1 DEF ServiceAccountExpired, Goto, provider
<1>2. ASSUME NEW p \in Cmd, NeedsRefresh(p) PROVE Expired'
  BY <1>2 DEF NeedsRefresh, Goto, provider
<1>3. ASSUME NEW p \in Cmd, AcquireLock(p) PROVE Expired'
  BY <1>3 DEF AcquireLock, Goto, provider
<1>4. ASSUME NEW p \in Cmd, LockTimeout(p) PROVE Expired'
  BY <1>4 DEF LockTimeout, Mark, Goto, provider
<1>5. ASSUME NEW p \in Cmd, ExitUnlocked(p) PROVE Expired'
  BY <1>5 DEF ExitUnlocked, Drop, Goto, provider
<1>6. ASSUME NEW p \in Cmd, RefreshedMeanwhile(p) PROVE Expired'
  BY <1>6 DEF RefreshedMeanwhile, Goto, Unlock, provider
<1>7. ASSUME NEW p \in Cmd, StillExpired(p) PROVE Expired'
  BY <1>7 DEF StillExpired, Goto, provider
<1>8. ASSUME NEW p \in Cmd, ReadForRefresh(p) PROVE Expired'
  BY <1>8 DEF ReadForRefresh, Goto, provider
<1>9. ASSUME NEW p \in Cmd, CannotRefresh(p) PROVE Expired'
  BY <1>9 DEF CannotRefresh, Mark, Goto, Unlock, provider
<1>10. ASSUME NEW p \in Cmd, IdpGrants(p) PROVE Expired'
  BY <1>10 DEF IdpGrants, Goto
<1>11. ASSUME NEW p \in Cmd, IdpRefuses(p) PROVE Expired'
  BY <1>11 DEF IdpRefuses, Drop, Mark, Goto, Unlock, provider
<1>12. ASSUME NEW p \in Cmd, SaveTokens(p) PROVE Expired'
  BY <1>12 DEF SaveTokens, Drop, Goto, provider
<1>13. ASSUME NEW p \in Cmd, Register(p) PROVE Expired'
  BY <1>13 DEF Register, Goto, provider
<1>14. ASSUME NEW p \in Cmd, RegisterFails(p) PROVE Expired'
  BY <1>14 DEF RegisterFails, Mark, Goto, provider
<1>15. ASSUME NEW p \in Cmd, SaveMe(p) PROVE Expired'
  BY <1>15 DEF SaveMe, Goto, Unlock, provider
<1>16. ASSUME NEW p \in Cmd, ClearTokens(p) PROVE Expired'
  BY <1>16 DEF ClearTokens, Goto, provider
<1>17. ASSUME NEW p \in Cmd, ExitLoggedOut(p) PROVE Expired'
  BY <1>17 DEF ExitLoggedOut, Goto, Unlock, provider
<1>18. ASSUME NEW p \in Cmd, Kill(p) PROVE Expired'
  BY <1>18 DEF Kill, Drop, Mark, Goto, provider
<1>19. ASSUME Expire PROVE Expired'
  BY <1>19 DEF Expire, provider
<1>20. ASSUME NEW next \in {"idle", "browser"}, LogOut(next) PROVE Expired'
  BY <1>20 DEF LogOut, Mark
<1>21. ASSUME SkipBrowser PROVE Expired'
  BY <1>21 DEF SkipBrowser
<1>22. ASSUME LoginCallback PROVE Expired'
  BY <1>22 DEF LoginCallback
<1>23. ASSUME LoginRegister PROVE Expired'
  BY <1>23 DEF LoginRegister
<1>24. ASSUME LoginDone PROVE Expired'
  BY <1>24 DEF LoginDone
<1>25. ASSUME LoginFails PROVE Expired'
  BY <1>25 DEF LoginFails
<1>26. CASE UNCHANGED vars
  BY <1>26 DEF vars
<1>27. QED
  BY <1>1, <1>2, <1>3, <1>4, <1>5, <1>6, <1>7, <1>8, <1>9, <1>10, <1>11, <1>12,
      <1>13, <1>14, <1>15, <1>16, <1>17, <1>18, <1>19, <1>20, <1>21, <1>22,
      <1>23, <1>24, <1>25, <1>26 DEF Next, Step, UserStep

LEMMA AtRestAlways == Spec => []AtRest
<1>1. Init => AtRest
  BY DEF Init, AtRest
<1>2. AtRest /\ [Next]_vars => AtRest'
  <2>1. ASSUME NEW next \in {"idle", "browser"}, LogOut(next) PROVE AtRest'
    BY <2>1 DEF LogOut, Mark, AtRest
  <2>2. CASE UserStep
    BY <2>1, <2>2 DEF UserStep, AtRest, SkipBrowser, LoginCallback,
       LoginRegister, LoginDone, LoginFails
  <2>3. ASSUME AtRest, NEW p \in Cmd, Step(p) \/ Kill(p) PROVE AtRest'
    BY <2>3 DEF AtRest, Mark, Step, ServiceAccountExpired, NeedsRefresh,
       AcquireLock, LockTimeout, ExitUnlocked, RefreshedMeanwhile,
       StillExpired, ReadForRefresh, CannotRefresh, IdpGrants, IdpRefuses,
       SaveTokens, Register, RegisterFails, SaveMe, ClearTokens,
       ExitLoggedOut, Kill, provider
  <2>4. CASE Expire \/ UNCHANGED vars
    BY <2>4 DEF AtRest, Expire, vars, provider
  <2>5. QED
    BY <2>2, <2>3, <2>4 DEF Next
<1>3. QED
  BY <1>1, <1>2, PTL DEF Spec

LEMMA ExpiredAlways == Spec => []Expired
<1>1. Init => Expired
  BY DEF Init, Expired
<1>2. QED
  BY <1>1, ExpiredStep, TypeCorrect, HolderAlways, AtRestAlways, PTL DEF Spec

\* Until a command gives up waiting or the user logs in or out, the provider
\* is asked once for each expiry.
THEOREM ExpiredOnly == Spec => []AsksOnlyForExpired
<1>1. Expired => AsksOnlyForExpired
  BY DEF Expired, AsksOnlyForExpired
<1>2. QED
  BY <1>1, ExpiredAlways, PTL

-----------------------------------------------------------------------------
(* The order in which tokens are stored *)

\* The provider has issued whatever is stored or presented, and tokens about
\* to be stored are newer than the stored ones.
Issued ==
  /\ tokens # None => tokens.gen <= issued[tokens.epoch]
  /\ \A p \in Cmd : held[p] # None => held[p].gen <= issued[held[p].epoch]
  /\ \A p \in Cmd : pc[p] = "saving" /\ tokens # None =>
       Newer(held[p], tokens)

LEMMA IssuedStep == AtRest /\ TypeOK /\ Holder /\ Expired /\
    (Undisturbed => Issued) /\ [Next]_vars => (Undisturbed => Issued)'
<1> SUFFICES ASSUME AtRest, TypeOK, Holder, Expired, Undisturbed => Issued,
                    [Next]_vars
             PROVE  (Undisturbed => Issued)'
  OBVIOUS
<1> USE DEF TypeOK, Token, Section, Mishap, AtRest, Holder, Expired,
    Issued, Undisturbed, LoggedIn, Authenticated
<1>1. ASSUME NEW p \in Cmd, ServiceAccountExpired(p)
      PROVE  (Undisturbed => Issued)'
  BY <1>1 DEF ServiceAccountExpired, Goto, provider
<1>2. ASSUME NEW p \in Cmd, NeedsRefresh(p)
      PROVE  (Undisturbed => Issued)'
  BY <1>2 DEF NeedsRefresh, Goto, provider
<1>3. ASSUME NEW p \in Cmd, AcquireLock(p)
      PROVE  (Undisturbed => Issued)'
  BY <1>3 DEF AcquireLock, Goto, provider
<1>4. ASSUME NEW p \in Cmd, LockTimeout(p)
      PROVE  (Undisturbed => Issued)'
  BY <1>4 DEF LockTimeout, Mark, Goto, provider
<1>5. ASSUME NEW p \in Cmd, ExitUnlocked(p)
      PROVE  (Undisturbed => Issued)'
  BY <1>5 DEF ExitUnlocked, Drop, Goto, provider
<1>6. ASSUME NEW p \in Cmd, RefreshedMeanwhile(p)
      PROVE  (Undisturbed => Issued)'
  BY <1>6 DEF RefreshedMeanwhile, Goto, Unlock, provider
<1>7. ASSUME NEW p \in Cmd, StillExpired(p)
      PROVE  (Undisturbed => Issued)'
  BY <1>7 DEF StillExpired, Goto, provider
<1>8. ASSUME NEW p \in Cmd, ReadForRefresh(p)
      PROVE  (Undisturbed => Issued)'
  BY <1>8 DEF ReadForRefresh, Goto, provider
<1>9. ASSUME NEW p \in Cmd, CannotRefresh(p)
      PROVE  (Undisturbed => Issued)'
  BY <1>9 DEF CannotRefresh, Mark, Goto, Unlock, provider
<1>10. ASSUME NEW p \in Cmd, IdpGrants(p)
      PROVE  (Undisturbed => Issued)'
  BY <1>10 DEF IdpGrants, Goto, NextToken, Newer
<1>11. ASSUME NEW p \in Cmd, IdpRefuses(p)
      PROVE  (Undisturbed => Issued)'
  BY <1>11 DEF IdpRefuses, Drop, Mark, Goto, Unlock, provider
<1>12. ASSUME NEW p \in Cmd, SaveTokens(p)
      PROVE  (Undisturbed => Issued)'
  BY <1>12 DEF SaveTokens, Drop, Goto, provider
<1>13. ASSUME NEW p \in Cmd, Register(p)
      PROVE  (Undisturbed => Issued)'
  BY <1>13 DEF Register, Goto, provider
<1>14. ASSUME NEW p \in Cmd, RegisterFails(p)
      PROVE  (Undisturbed => Issued)'
  BY <1>14 DEF RegisterFails, Mark, Goto, provider
<1>15. ASSUME NEW p \in Cmd, SaveMe(p)
      PROVE  (Undisturbed => Issued)'
  BY <1>15 DEF SaveMe, Goto, Unlock, provider
<1>16. ASSUME NEW p \in Cmd, ClearTokens(p)
      PROVE  (Undisturbed => Issued)'
  BY <1>16 DEF ClearTokens, Goto, provider
<1>17. ASSUME NEW p \in Cmd, ExitLoggedOut(p)
      PROVE  (Undisturbed => Issued)'
  BY <1>17 DEF ExitLoggedOut, Goto, Unlock, provider
<1>18. ASSUME NEW p \in Cmd, Kill(p)
      PROVE  (Undisturbed => Issued)'
  BY <1>18 DEF Kill, Drop, Mark, Goto, provider
<1>19. ASSUME Expire
      PROVE  (Undisturbed => Issued)'
  BY <1>19 DEF Expire, provider
<1>20. ASSUME NEW next \in {"idle", "browser"}, LogOut(next)
      PROVE  (Undisturbed => Issued)'
  BY <1>20 DEF LogOut, Mark
<1>21. ASSUME SkipBrowser
      PROVE  (Undisturbed => Issued)'
  BY <1>21 DEF SkipBrowser
<1>22. ASSUME LoginCallback
      PROVE  (Undisturbed => Issued)'
  BY <1>22 DEF LoginCallback
<1>23. ASSUME LoginRegister
      PROVE  (Undisturbed => Issued)'
  BY <1>23 DEF LoginRegister
<1>24. ASSUME LoginDone
      PROVE  (Undisturbed => Issued)'
  BY <1>24 DEF LoginDone
<1>25. ASSUME LoginFails
      PROVE  (Undisturbed => Issued)'
  BY <1>25 DEF LoginFails
<1>26. CASE UNCHANGED vars
  BY <1>26 DEF vars
<1>27. QED
  BY <1>1, <1>2, <1>3, <1>4, <1>5, <1>6, <1>7, <1>8, <1>9, <1>10, <1>11, <1>12,
      <1>13, <1>14, <1>15, <1>16, <1>17, <1>18, <1>19, <1>20, <1>21, <1>22,
      <1>23, <1>24, <1>25, <1>26 DEF Next, Step, UserStep

\* Under the same conditions no command overwrites tokens with older ones.
THEOREM NeverGoBack == Spec => TokensNeverGoBack
<1>1. Init => (Undisturbed => Issued)
  BY DEF Init, Issued
<1>2. Spec => [](Undisturbed => Issued)
  BY <1>1, IssuedStep, TypeCorrect, HolderAlways, AtRestAlways, ExpiredAlways,
     PTL DEF Spec
<1>3. ASSUME AtRest, Undisturbed => Issued, [Next]_vars, Undisturbed, LoggedIn,
             tokens' \notin {tokens, None}
      PROVE  Newer(tokens', tokens)
  <2>1. ASSUME NEW p \in Cmd, SaveTokens(p) PROVE Newer(tokens', tokens)
    BY <1>3, <2>1 DEF SaveTokens, Issued, LoggedIn, Newer
  <2>2. \E p \in Cmd : SaveTokens(p)
    BY <1>3 DEF Next, vars, Step, UserStep, ServiceAccountExpired,
       NeedsRefresh, AcquireLock, LockTimeout, ExitUnlocked,
       RefreshedMeanwhile, StillExpired, ReadForRefresh, CannotRefresh,
       IdpGrants, IdpRefuses, Register, RegisterFails, SaveMe, ClearTokens,
       ExitLoggedOut, Kill, Expire, LogOut, SkipBrowser, LoginCallback,
       LoginRegister, LoginDone, LoginFails, AtRest, Undisturbed
  <2>3. QED
    BY <2>1, <2>2
<1>4. QED
  BY <1>2, <1>3, AtRestAlways, PTL DEF Spec, TokensNeverGoBack

-----------------------------------------------------------------------------
(* Who stays logged in                                                       *)

\* As long as nothing fails, no lock times out and the user does nothing, only
\* an account that cannot refresh is on its way to a logout, and whoever asks
\* presents, as whoever saves has, the latest tokens of the provider.
Smooth == mishaps = {} =>
  /\ \A p \in Cmd :
       /\ me = "service" => pc[p] \in {"idle", "clearing", "leaving"}
       /\ me = "user" => pc[p] \notin {"clearing", "leaving"}
       /\ pc[p] \in Section \cup {"locking"} => LoggedIn
       /\ pc[p] \in {"asking", "saving"} => ~UsedBefore(p)
  /\ LoggedIn /\ (\A p \in Cmd : pc[p] # "saving") => tokens.gen = issued[tokens.epoch]

LEMMA SmoothStep == TypeOK /\ AtRest /\ Holder /\ Smooth /\ [Next]_vars => Smooth'
<1> SUFFICES ASSUME TypeOK, AtRest, Holder, Smooth, [Next]_vars, mishaps' = {} PROVE Smooth'
  BY DEF Smooth
<1> USE DEF TypeOK, Section, Goto, Smooth, LoggedIn, UsedBefore, provider
<1>a. mishaps = {}
  BY DEF Next, vars, Step, UserStep, ServiceAccountExpired, NeedsRefresh, AcquireLock, LockTimeout,
         ExitUnlocked, RefreshedMeanwhile, StillExpired, ReadForRefresh, CannotRefresh, IdpGrants,
         IdpRefuses, SaveTokens, Register, RegisterFails, SaveMe, ClearTokens, ExitLoggedOut, Kill,
         Expire, LogOut, SkipBrowser, LoginCallback, LoginRegister, LoginDone, LoginFails, Mark
<1>b. user = "idle" /\ \A p \in Cmd : pc[p] \in Section => lock = p
  BY <1>a DEF AtRest, Holder
<1>c. \A p \in Cmd : p \notin {"free", "stale"}
  OBVIOUS
<1>1. ASSUME NEW p \in Cmd, ServiceAccountExpired(p) \/ NeedsRefresh(p) PROVE Smooth'
  BY <1>1, <1>a, SMTT(20) DEF ServiceAccountExpired, NeedsRefresh
<1>2. ASSUME NEW p \in Cmd, AcquireLock(p) PROVE Smooth'
  BY <1>2, <1>a DEF AcquireLock
<1>3. ASSUME NEW p \in Cmd, ExitUnlocked(p) PROVE Smooth'
  BY <1>3, <1>a, <1>b DEF ExitUnlocked
<1>4. ASSUME NEW p \in Cmd, RefreshedMeanwhile(p) \/ StillExpired(p) PROVE Smooth'
  BY <1>4, <1>a, <1>b DEF RefreshedMeanwhile, StillExpired
<1>5. ASSUME NEW p \in Cmd, ReadForRefresh(p) PROVE Smooth'
  BY <1>5, <1>a, <1>b DEF ReadForRefresh
<1>6. ASSUME NEW p \in Cmd, IdpGrants(p) PROVE Smooth'
  BY <1>6, <1>a, <1>b DEF IdpGrants, NextToken, Token
<1>7. ASSUME NEW p \in Cmd, SaveTokens(p) PROVE Smooth'
  BY <1>7, <1>a, <1>b DEF SaveTokens, Drop
<1>8. ASSUME NEW p \in Cmd, Register(p) \/ SaveMe(p) PROVE Smooth'
  BY <1>8, <1>a, <1>b DEF Register, SaveMe
<1>9. ASSUME NEW p \in Cmd, ClearTokens(p) \/ ExitLoggedOut(p) PROVE Smooth'
  BY <1>9, <1>a, SMTT(20) DEF ClearTokens, ExitLoggedOut
<1>10. ASSUME NEW p \in Cmd,
              LockTimeout(p) \/ CannotRefresh(p) \/ IdpRefuses(p) \/ RegisterFails(p) \/ Kill(p)
       PROVE  FALSE
  BY <1>10, <1>a DEF LockTimeout, CannotRefresh, IdpRefuses, RegisterFails, Kill, Mark
<1>11. CASE Expire \/ UNCHANGED vars
  BY <1>11, <1>a DEF Expire, vars
<1>12. ~UserStep
  BY <1>b DEF UserStep, LogOut, SkipBrowser, LoginCallback, LoginRegister, LoginDone, LoginFails, Mark
<1> QED
  BY <1>1, <1>2, <1>3, <1>4, <1>5, <1>6, <1>7, <1>8, <1>9, <1>10, <1>11, <1>12 DEF Next, Step

\* While provider and service answer, no process is killed, no lock times out
\* and the user stays away, no command logs a user out, however many refresh.
THEOREM StaysLoggedInAlways == Spec => StaysLoggedIn
<1>1. Init => Smooth
  BY DEF Init, Smooth, Section, LoggedIn
<1>2. ASSUME TypeOK, AtRest, Smooth, [Next]_vars, mishaps' = {}, me = "user", LoggedIn PROVE LoggedIn'
  <2>1. mishaps = {}
    BY <1>2 DEF Next, vars, Step, UserStep, ServiceAccountExpired, NeedsRefresh, AcquireLock, LockTimeout,
       ExitUnlocked, RefreshedMeanwhile, StillExpired, ReadForRefresh, CannotRefresh, IdpGrants,
       IdpRefuses, SaveTokens, Register, RegisterFails, SaveMe, ClearTokens, ExitLoggedOut, Kill,
       Expire, LogOut, SkipBrowser, LoginCallback, LoginRegister, LoginDone, LoginFails, Mark, provider
  <2>2. ASSUME NEW p \in Cmd PROVE ~ClearTokens(p)
    BY <1>2, <2>1 DEF ClearTokens, Smooth
  <2>3. ~UserStep
    BY <1>2, <2>1 DEF UserStep, AtRest, LogOut, SkipBrowser, LoginCallback, LoginRegister, LoginDone,
       LoginFails, Mark
  <2>4. ASSUME NEW p \in Cmd, SaveTokens(p) PROVE tokens' = held[p] /\ held[p] # None
    BY <1>2, <2>4 DEF SaveTokens, TypeOK
  <2>5. tokens' # None \/ tokens' = tokens
    BY <1>2, <2>2, <2>3, <2>4 DEF Next, vars, Step, ServiceAccountExpired, NeedsRefresh, AcquireLock,
       LockTimeout, ExitUnlocked, RefreshedMeanwhile, StillExpired, ReadForRefresh, CannotRefresh,
       IdpGrants, IdpRefuses, Register, RegisterFails, SaveMe, ExitLoggedOut, Kill, Expire
  <2> QED
    BY <1>2, <2>5 DEF LoggedIn
<1>3. Spec => []Smooth
  BY <1>1, SmoothStep, TypeCorrect, HolderAlways, AtRestAlways, PTL DEF Spec
<1> QED BY <1>2, <1>3, TypeCorrect, AtRestAlways, PTL DEF Spec, StaysLoggedIn
=============================================================================

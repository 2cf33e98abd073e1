--------------------------- MODULE SessionsProofs ---------------------------
(***************************************************************************)
(* Proofs about Sessions.  Two arguments about time, each an invariant of  *)
(* the instants that callers, the cached token and the key set carry: how  *)
(* far a token that is presented may be from its renewal, and how far a    *)
(* task that found no key is from its own last fetch.                      *)
(***************************************************************************)
EXTENDS Sessions, Integers, TLAPS

Times  == Nat \cup {Never}
Stages == {"idle", "asking", "verifying", "issued", "sent", "missed", "fetching",
           "fetched", "landed"}
\* From when a token is chosen to when its request is answered.
Presented == {"sent", "missed", "fetching", "fetched", "landed"}

Call == [at: Stages, key: Nat, exp: Nat, since: Nat, got: SUBSET Nat]

\* What the two arguments need of types.
SessionsTypeOK ==
  /\ now \in Nat
  /\ signer \in Nat /\ published \in SUBSET Nat
  /\ cache \in [keys: SUBSET Nat, fetched: Times, attempted: Times]
  /\ token \in [key: Nat, exp: Nat, refreshAt: Nat]
  /\ call \in [Callers -> Call]
  /\ lastTry \in [Callers -> Times]

\* The hypothesis of RenewedInTime: what renewal leaves of a token's lifetime
\* covers the exchange that fetched it and the one that presents it.
RenewalLeavesTime == 2 * Patience + RefreshIn(TTL) <= TTL + Leeway + 1

\* No exchange is older than its timeout,
Timely ==
  \A c \in Callers : call[c].at # "idle" =>
    call[c].since <= now /\ now <= call[c].since + Patience

\* a token that was just issued has all its lifetime,
FullLife ==
  \A c \in Callers : call[c].at = "issued" => call[c].since + TTL <= call[c].exp

\* one that is presented outlives its exchange,
Outlives ==
  \A c \in Callers : call[c].at \in Presented =>
    call[c].since + Patience <= call[c].exp + Leeway

\* and the cached one does until it is renewed.
CachedOutlives ==
  token # NoToken => token.refreshAt + Patience <= token.exp + Leeway + 1

RenewalInv == SessionsTypeOK /\ Timely /\ FullLife /\ Outlives /\ CachedOutlives

\* A task's last fetch is no later than the VTN's,
TriesAreRecorded ==
  /\ cache.attempted # Never => cache.attempted <= now
  /\ \A c \in Callers : lastTry[c] # Never =>
       cache.attempted # Never /\ lastTry[c] <= cache.attempted

\* and is past when the task is about to fetch again.
MissesAreDue ==
  \A c \in Callers : call[c].at = "missed" => ~ Within(lastTry[c], MinRefresh, now)

SpacingInv == SessionsTypeOK /\ TriesAreRecorded /\ MissesAreDue

\* The hypothesis of RotationIsFollowed: an exchange is shorter than either
\* window of the key set, and the rate limit is no longer than the set is fresh.
WindowsAreWide ==
  Patience < MinRefresh /\ Patience < RefreshAfter /\ MinRefresh <= RefreshAfter

\* Keys are published once, in their order, and withdrawn once.
KeysComeAndGo ==
  /\ signer \in Keys /\ published \subseteq 1 .. signer
  /\ withdrawnAt \in [Keys -> Times] /\ publishedAt \in [Keys -> Times]
  /\ \A k \in Keys : withdrawnAt[k] # Never => withdrawnAt[k] <= now /\ k <= signer
  /\ \A k \in published : /\ withdrawnAt[k] = Never
                          /\ publishedAt[k] # Never /\ publishedAt[k] <= now

\* What a set of keys may say of those withdrawn and published since an instant.
AsOf(keys, since) ==
  \A k \in Keys :
    /\ k \in keys /\ withdrawnAt[k] # Never => since <= withdrawnAt[k]
    /\ k \in published /\ k \notin keys => since <= publishedAt[k]

\* A set is as of some instant of the exchange that fetched it,
SetsAreRecent ==
  \A c \in Callers :
    /\ call[c].got \subseteq Keys
    /\ call[c].at = "fetched" => AsOf(call[c].got, call[c].since)

\* the one that is held too, and a task that landed found its own or a later;
HeldIsRecent ==
  /\ cache.keys \subseteq Keys
  /\ cache.keys # {} => cache.fetched # Never
  /\ cache.fetched # Never => cache.fetched <= now /\ AsOf(cache.keys, cache.fetched - Patience)
  /\ \A c \in Callers :
       call[c].at = "landed" => cache.fetched # Never /\ call[c].since <= cache.fetched

\* and unless a fetch is unsettled, it is no older than the last attempt.
AttemptsSettle ==
  /\ cache.attempted # Never => cache.attempted <= now
  /\ ~ unsettled /\ cache.attempted # Never =>
       cache.fetched # Never /\ cache.attempted <= cache.fetched

RotationInv ==
  SessionsTypeOK /\ Timely /\ KeysComeAndGo /\ SetsAreRecent /\ HeldIsRecent /\ AttemptsSettle
-----------------------------------------------------------------------------
(***************************************************************************)
(* Types.                                                                  *)
(***************************************************************************)
LEMMA RefreshIsLater == RefreshIn(TTL) \in Nat /\ RefreshIn(TTL) >= 1
<1>1. TTL \in Nat /\ (TTL * 9) \div 10 \in Int BY SessionsAssumption
<1>2. QED BY <1>1 DEF RefreshIn

LEMMA IdleIsACall == Idle \in Call /\ Idle.at = "idle"
BY DEF Idle, Call, Stages

LEMMA TypesAtFirst == Init => SessionsTypeOK
<1> SUFFICES ASSUME Init PROVE SessionsTypeOK OBVIOUS
<1>1. call \in [Callers -> Call] BY IdleIsACall DEF Init
<1>2. cache \in [keys: SUBSET Nat, fetched: Times, attempted: Times]
  BY DEF Init, EmptyCache, Times
<1>3. lastTry \in [Callers -> Times] BY DEF Init, Times
<1>4. QED BY <1>1, <1>2, <1>3 DEF Init, SessionsTypeOK, NoToken

LEMMA CallsChangeToCalls ==
  ASSUME SessionsTypeOK, NEW c \in Callers
  PROVE  /\ \A stage \in Stages : Moved(c, stage) \in [Callers -> Call]
         /\ Issued(c) \in [Callers -> Call]
         /\ Answered(c) \in [Callers -> Call]
<1> USE SessionsAssumption DEF SessionsTypeOK
<1>1. call[c] \in Call OBVIOUS
<1>2. ASSUME NEW stage \in Stages PROVE [call[c] EXCEPT !.at = stage] \in Call
  BY <1>1 DEF Call
<1>3. ASSUME NEW stage \in Stages PROVE Moved(c, stage) \in [Callers -> Call]
  BY <1>2 DEF Moved
<1>4. "issued" \in Stages /\ now + TTL \in Nat BY DEF Stages
<1>5. [[[call[c] EXCEPT !.at = "issued"] EXCEPT !.key = signer] EXCEPT !.exp = now + TTL] \in Call
  BY <1>1, <1>4 DEF Call
<1>6. Issued(c) \in [Callers -> Call] BY <1>5 DEF Issued
<1>7. Answered(c) \in [Callers -> Call] BY IdleIsACall DEF Answered
<1>8. QED BY <1>3, <1>6, <1>7

LEMMA TypesStay == SessionsTypeOK /\ [Next]_vars => SessionsTypeOK'
<1> SUFFICES ASSUME SessionsTypeOK, [Next]_vars PROVE SessionsTypeOK' OBVIOUS
<1> USE SessionsAssumption, KeyCacheAssumption, RefreshIsLater, IdleIsACall DEF SessionsTypeOK
<1>1. ASSUME NEW c \in Callers, Start(c) PROVE SessionsTypeOK'
  BY <1>1 DEF Start, server, client, history, Call, Stages, Idle
<1>2. ASSUME NEW c \in Callers, MintElsewhere(c) PROVE SessionsTypeOK'
  BY <1>2, CallsChangeToCalls DEF MintElsewhere, server, client, history
<1>3. ASSUME NEW c \in Callers, Admit(c) PROVE SessionsTypeOK'
  BY <1>3, CallsChangeToCalls DEF Admit, server, client, history, Stages
<1>4. ASSUME NEW c \in Callers, Verified(c) PROVE SessionsTypeOK'
  BY <1>4, CallsChangeToCalls DEF Verified, server, client, history
<1>5. ASSUME NEW c \in Callers, Keep(c) PROVE SessionsTypeOK'
  <2>1. call[c] \in Call /\ now + RefreshIn(TTL) \in Nat /\ "sent" \in Stages BY DEF Stages
  <2>2. token' \in [key: Nat, exp: Nat, refreshAt: Nat] BY <1>5, <2>1 DEF Keep, Call
  <2>3. [[call[c] EXCEPT !.at = "sent"] EXCEPT !.since = now] \in Call BY <2>1 DEF Call
  <2>4. call' \in [Callers -> Call] BY <1>5, <2>3 DEF Keep
  <2>5. QED BY <1>5, <2>2, <2>4 DEF Keep, server, history
<1>6. ASSUME NEW c \in Callers, Arrive(c) PROVE SessionsTypeOK'
  BY <1>6, CallsChangeToCalls DEF Arrive, server, client, history, Stages
<1>7. ASSUME NEW c \in Callers, Refresh(c) PROVE SessionsTypeOK'
  BY <1>7 DEF Refresh, Attempted, Moved, server, client, Call, Stages, Times
<1>8. ASSUME NEW c \in Callers, Fetch(c) PROVE SessionsTypeOK'
  BY <1>8 DEF Fetch, Answered, server, client, history, Call, Stages
<1>9. ASSUME NEW c \in Callers, Land(c) PROVE SessionsTypeOK'
  BY ZenonT(60), <1>9 DEF Land, Refreshed, server, client, Call, Stages, Times
<1>10. ASSUME NEW c \in Callers, GiveUp(c) PROVE SessionsTypeOK'
  BY <1>10 DEF GiveUp, server, client, history
<1>11. CASE OrphanEnds BY <1>11 DEF OrphanEnds, server, client, history
<1>12. CASE Restart
  BY <1>12 DEF Restart, client, EmptyCache, Times
<1>13. CASE Rotate BY <1>13 DEF Rotate, client
<1>14. CASE Outage BY <1>14 DEF Outage, client, history
<1>15. CASE Recover BY <1>15 DEF Recover, client, history
<1>16. CASE Tick BY <1>16 DEF Tick, client, server, Times
<1>17. ASSUME NEW k \in Keys, Withdraw(k) PROVE SessionsTypeOK'
  BY <1>17 DEF Withdraw, client
<1>18. CASE UNCHANGED vars BY <1>18 DEF vars
<1>19. QED
  BY <1>1, <1>2, <1>3, <1>4, <1>5, <1>6, <1>7, <1>8, <1>9, <1>10, <1>11, <1>12, <1>13,
     <1>14, <1>15, <1>16, <1>17, <1>18 DEF Next

LEMMA TypesHold == Spec => []SessionsTypeOK
<1>1. Init => SessionsTypeOK BY TypesAtFirst
<1>2. SessionsTypeOK /\ [Next]_vars => SessionsTypeOK' BY TypesStay
<1>3. QED BY <1>1, <1>2, PTL DEF Spec
-----------------------------------------------------------------------------
(***************************************************************************)
(* Fetches of the key set.                                                 *)
(***************************************************************************)

\* A step that has nothing to do with the spacing of fetches.
Quiet ==
  /\ now' = now /\ cache'.attempted = cache.attempted /\ lastTry' = lastTry
  /\ \A c \in Callers : call'[c].at = "missed" => call[c].at = "missed"

LEMMA QuietKeepsSpacing ==
  TriesAreRecorded /\ MissesAreDue /\ Quiet => TriesAreRecorded' /\ MissesAreDue'
BY DEF Quiet, TriesAreRecorded, MissesAreDue

LEMMA MostAreQuiet ==
  ASSUME SessionsTypeOK, NEW c \in Callers,
         \/ Start(c) \/ MintElsewhere(c) \/ Admit(c) \/ Verified(c) \/ Keep(c)
         \/ Fetch(c) \/ Land(c) \/ GiveUp(c)
  PROVE  Quiet
<1> USE DEF SessionsTypeOK
<1>1. CASE Start(c) BY <1>1 DEF Start, Quiet, Idle, history
<1>2. CASE MintElsewhere(c)
  BY <1>2 DEF MintElsewhere, Issued, Answered, Quiet, Idle, history
<1>3. CASE Admit(c) BY <1>3 DEF Admit, Moved, Quiet, history
<1>4. CASE Verified(c) BY <1>4 DEF Verified, Issued, Quiet, history
<1>5. CASE Keep(c) BY <1>5 DEF Keep, Quiet, history
<1>6. CASE Fetch(c) BY <1>6 DEF Fetch, Answered, Quiet, Idle, history
<1>7. CASE Land(c) BY <1>7 DEF Land, Refreshed, Quiet
<1>8. CASE GiveUp(c) BY <1>8 DEF GiveUp, Quiet, Idle, history
<1>9. QED BY <1>1, <1>2, <1>3, <1>4, <1>5, <1>6, <1>7, <1>8

\* key_for sends a task to fetch only when the VTN's last fetch is long past.
LEMMA OnlyTheDueFetch ==
  ASSUME SpacingInv, NEW c \in Callers, Verdict(c) = "fetch"
  PROVE  ~ Within(lastTry[c], MinRefresh, now)
<1>1. ~ TooSoon(cache, now) BY DEF Verdict, Lookup, Decoded
<1>2. CASE lastTry[c] = Never BY <1>2 DEF Within
<1>3. CASE lastTry[c] # Never
  <2>1. cache.attempted # Never /\ lastTry[c] <= cache.attempted
    BY <1>3 DEF SpacingInv, TriesAreRecorded
  <2>2. now \in Nat /\ cache.attempted \in Nat /\ lastTry[c] \in Nat /\ MinRefresh \in Nat
    BY <1>3, <2>1, KeyCacheAssumption DEF SpacingInv, SessionsTypeOK, Times
  <2>3. ~ (now < cache.attempted + MinRefresh) BY <1>1, <2>1 DEF TooSoon, Within
  <2>4. QED BY <2>1, <2>2, <2>3 DEF Within
<1>4. QED BY <1>2, <1>3

LEMMA SpacingStays == SpacingInv /\ [Next]_vars => SpacingInv'
<1> SUFFICES ASSUME SpacingInv, [Next]_vars PROVE SpacingInv' OBVIOUS
<1>t. SessionsTypeOK' BY TypesStay DEF SpacingInv
<1> SUFFICES TriesAreRecorded' /\ MissesAreDue' BY <1>t DEF SpacingInv
<1> USE DEF SpacingInv
<1>1. CASE Quiet BY <1>1, QuietKeepsSpacing
<1>2. ASSUME NEW c \in Callers, Arrive(c) PROVE TriesAreRecorded' /\ MissesAreDue'
  <2>1. TriesAreRecorded' BY <1>2 DEF Arrive, TriesAreRecorded, history
  <2>2. ASSUME NEW d \in Callers, call'[d].at = "missed"
        PROVE  ~ Within(lastTry[d], MinRefresh, now)
    <3>1. CASE call[d].at = "missed" BY <3>1 DEF MissesAreDue
    <3>2. CASE call[d].at # "missed"
      <4>1. d = c /\ Verdict(c) = "fetch"
        BY <1>2, <2>2, <3>2 DEF Arrive, Moved, Answered, Idle, SessionsTypeOK
      <4>2. QED BY <4>1, OnlyTheDueFetch
    <3>3. QED BY <3>1, <3>2
  <2>3. QED BY <1>2, <2>1, <2>2 DEF Arrive, MissesAreDue, history
<1>3. ASSUME NEW c \in Callers, Refresh(c) PROVE TriesAreRecorded' /\ MissesAreDue'
  <2>1. now' = now /\ now \in Nat /\ now # Never
    BY <1>3, KeyCacheAssumption DEF Refresh, SessionsTypeOK
  <2>2. cache'.attempted = now BY <1>3 DEF Refresh, Attempted, SessionsTypeOK
  <2>3. \A d \in Callers : lastTry'[d] = IF d = c THEN now ELSE lastTry[d]
    BY <1>3 DEF Refresh, SessionsTypeOK
  <2>4. \A d \in Callers : call'[d].at = "missed" => d # c /\ call[d].at = "missed"
    BY <1>3 DEF Refresh, Moved, SessionsTypeOK
  <2>5. ASSUME NEW d \in Callers, lastTry[d] # Never PROVE lastTry[d] <= now
    <3>1. lastTry[d] \in Nat /\ cache.attempted \in Nat
      BY <2>5 DEF SessionsTypeOK, TriesAreRecorded, Times
    <3>2. lastTry[d] <= cache.attempted /\ cache.attempted <= now
      BY <2>5 DEF TriesAreRecorded
    <3>3. QED BY <2>1, <3>1, <3>2
  <2>6. TriesAreRecorded' BY <2>1, <2>2, <2>3, <2>5 DEF TriesAreRecorded
  <2>7. MissesAreDue' BY <2>1, <2>3, <2>4 DEF MissesAreDue
  <2>8. QED BY <2>6, <2>7
<1>4. CASE Restart
  <2>1. cache'.attempted = Never /\ \A d \in Callers : lastTry'[d] = Never
    BY <1>4 DEF Restart, EmptyCache
  <2>2. QED BY <2>1 DEF TriesAreRecorded, MissesAreDue, Within
<1>5. CASE Tick
  <2>1. now' = now + 1 /\ cache' = cache /\ call' = call /\ now \in Nat /\ MinRefresh \in Nat
    BY <1>5, KeyCacheAssumption DEF Tick, SessionsTypeOK
  <2>2. \A d \in Callers : lastTry'[d] \in {lastTry[d], Never} BY <1>5 DEF Tick
  <2>3. cache.attempted # Never => cache.attempted \in Nat BY DEF SessionsTypeOK, Times
  <2>4. TriesAreRecorded' BY <2>1, <2>2, <2>3 DEF TriesAreRecorded
  <2>5. ASSUME NEW d \in Callers, call[d].at = "missed", lastTry[d] # Never
        PROVE  ~ (now + 1 < lastTry[d] + MinRefresh)
    <3>1. lastTry[d] \in Nat BY <2>5 DEF SessionsTypeOK, Times
    <3>2. ~ (now < lastTry[d] + MinRefresh) BY <2>5 DEF MissesAreDue, Within
    <3>3. QED BY <2>1, <3>1, <3>2
  <2>6. MissesAreDue' BY <2>1, <2>2, <2>5 DEF MissesAreDue, Within
  <2>7. QED BY <2>4, <2>6
<1>6. CASE OrphanEnds BY <1>6, <1>1 DEF OrphanEnds, Quiet, history
<1>7. CASE Rotate BY <1>7, <1>1 DEF Rotate, Quiet
<1>8. CASE Outage BY <1>8, <1>1 DEF Outage, Quiet, history
<1>9. CASE Recover BY <1>9, <1>1 DEF Recover, Quiet, history
<1>10. ASSUME NEW k \in Keys, Withdraw(k) PROVE Quiet BY <1>10 DEF Withdraw, Quiet
<1>11. CASE UNCHANGED vars BY <1>11, <1>1 DEF vars, Quiet
<1>12. ASSUME NEW c \in Callers,
              \/ Start(c) \/ MintElsewhere(c) \/ Admit(c) \/ Verified(c) \/ Keep(c)
              \/ Fetch(c) \/ Land(c) \/ GiveUp(c)
       PROVE  Quiet
  BY <1>12, MostAreQuiet
<1>13. QED
  BY <1>1, <1>2, <1>3, <1>4, <1>5, <1>6, <1>7, <1>8, <1>9, <1>10, <1>11, <1>12 DEF Next

\* A fetch begins at a task that found no key, whose last one is long past.
LEMMA FetchesBeginDue ==
  ASSUME SpacingInv, [Next]_vars, NEW c \in Callers,
         lastTry'[c] # lastTry[c], lastTry'[c] # Never
  PROVE  ~ Within(lastTry[c], MinRefresh, now)
<1> USE DEF SpacingInv
<1>1. \E d \in Callers : Refresh(d)
  <2>1. ASSUME NEW d \in Callers,
               \/ Start(d) \/ MintElsewhere(d) \/ Admit(d) \/ Verified(d) \/ Keep(d)
               \/ Fetch(d) \/ Land(d) \/ GiveUp(d)
        PROVE  lastTry' = lastTry
    BY <2>1, MostAreQuiet DEF Quiet
  <2>2. ASSUME NEW d \in Callers, Arrive(d) PROVE lastTry' = lastTry
    BY <2>2 DEF Arrive, history
  <2>3. (OrphanEnds \/ Rotate \/ Outage \/ Recover \/ UNCHANGED vars) => lastTry' = lastTry
    BY DEF OrphanEnds, Rotate, Outage, Recover, vars, history
  <2>4. ASSUME NEW k \in Keys, Withdraw(k) PROVE lastTry' = lastTry BY <2>4 DEF Withdraw
  <2>5. Restart => lastTry'[c] = Never BY DEF Restart
  <2>6. Tick => lastTry'[c] \in {lastTry[c], Never} BY DEF Tick
  <2>7. QED BY <2>1, <2>2, <2>3, <2>4, <2>5, <2>6 DEF Next
<1>2. PICK d \in Callers : Refresh(d) BY <1>1
<1>3. d = c BY <1>2 DEF Refresh, SessionsTypeOK
<1>4. QED BY <1>2, <1>3 DEF Refresh, MissesAreDue

\* No task of the VTN asks the authorization server for its keys twice within
\* min_refresh_interval, whatever tokens arrive and whether or not the server
\* answers: the attempt is recorded before the request goes out (jwt.rs).
THEOREM FetchesStaySpaced == Spec => FetchesAreSpaced
<1>1. Init => SpacingInv
  <2> SUFFICES ASSUME Init PROVE SpacingInv OBVIOUS
  <2>1. SessionsTypeOK BY TypesAtFirst
  <2>2. TriesAreRecorded BY DEF Init, EmptyCache, TriesAreRecorded
  <2>3. MissesAreDue BY DEF Init, Idle, MissesAreDue
  <2>4. QED BY <2>1, <2>2, <2>3 DEF SpacingInv
<1>2. SpacingInv /\ [Next]_vars => SpacingInv' BY SpacingStays
<1>3. SpacingInv /\ [Next]_vars =>
        [\A c \in Callers : lastTry'[c] # lastTry[c] /\ lastTry'[c] # Never
           => ~ Within(lastTry[c], MinRefresh, now)]_vars
  BY FetchesBeginDue
<1>4. QED BY <1>1, <1>2, <1>3, PTL DEF Spec, FetchesAreSpaced
-----------------------------------------------------------------------------
(***************************************************************************)
(* Renewal of the token.                                                   *)
(***************************************************************************)
Clocks == /\ now \in Nat /\ TTL \in Nat /\ Leeway \in Nat /\ Patience \in Nat
          /\ RefreshIn(TTL) \in Nat /\ RefreshIn(TTL) >= 1

\* What the invariant says of one caller.
CallInTime(c) ==
  /\ call[c].at # "idle" => call[c].since <= now /\ now <= call[c].since + Patience
  /\ call[c].at = "issued" => call[c].since + TTL <= call[c].exp
  /\ call[c].at \in Presented => call[c].since + Patience <= call[c].exp + Leeway

LEMMA CallsInTime ==
  Timely /\ FullLife /\ Outlives <=> \A c \in Callers : CallInTime(c)
BY DEF Timely, FullLife, Outlives, CallInTime

\* A step that takes no time, leaves the token alone and takes each caller no
\* further than to idle or to another stage of what it is at.
Unhurried ==
  /\ now' = now /\ token' = token
  /\ \A c \in Callers :
       \/ call'[c].at \in {"idle"}
       \/ call'[c] = call[c]
       \/ /\ call[c].at # "idle" /\ call'[c].at = "verifying"
          /\ call'[c].since = call[c].since
       \/ /\ call[c].at \in Presented /\ call'[c].at \in Presented
          /\ call'[c].since = call[c].since /\ call'[c].exp = call[c].exp

LEMMA UnhurriedKeepsTime ==
  Unhurried /\ CachedOutlives /\ (\A c \in Callers : CallInTime(c))
    => CachedOutlives' /\ (\A c \in Callers : CallInTime(c)')
<1> SUFFICES ASSUME Unhurried, CachedOutlives, \A c \in Callers : CallInTime(c)
             PROVE  CachedOutlives' /\ (\A c \in Callers : CallInTime(c)')
  OBVIOUS
<1>1. CachedOutlives' BY DEF Unhurried, CachedOutlives, NoToken
<1>2. ASSUME NEW c \in Callers PROVE CallInTime(c)'
  BY <1>2 DEF Unhurried, CallInTime, Presented
<1>3. QED BY <1>1, <1>2

LEMMA MostAreUnhurried ==
  ASSUME SessionsTypeOK, NEW c \in Callers,
         \/ Admit(c) \/ Arrive(c) \/ Refresh(c) \/ Fetch(c) \/ Land(c) \/ GiveUp(c)
  PROVE  Unhurried
<1> USE DEF SessionsTypeOK
<1>1. CASE Admit(c) BY <1>1 DEF Admit, Moved, Unhurried, client
<1>2. CASE Arrive(c)
  <2>1. call[c].at \in {"sent", "landed"} BY <1>2 DEF Arrive, Verdict
  <2>2. QED BY <1>2, <2>1 DEF Arrive, Moved, Answered, Idle, Unhurried, Presented, client
<1>3. CASE Refresh(c) BY <1>3 DEF Refresh, Moved, Unhurried, Presented, client
<1>4. CASE Fetch(c) BY <1>4 DEF Fetch, Answered, Idle, Unhurried, Presented, client
<1>5. CASE Land(c) BY <1>5 DEF Land, Unhurried, Presented, client
<1>6. CASE GiveUp(c) BY <1>6 DEF GiveUp, Idle, Unhurried, client
<1>7. QED BY <1>1, <1>2, <1>3, <1>4, <1>5, <1>6

\* Asking: an exchange begins; or it is with the cached token, not yet due.
LEMMA StartsInTime ==
  ASSUME Clocks, SessionsTypeOK, CachedOutlives, \A d \in Callers : CallInTime(d),
         NEW c \in Callers, Start(c)
  PROVE  CachedOutlives' /\ (\A d \in Callers : CallInTime(d)')
<1> USE DEF SessionsTypeOK
<1>1. now' = now /\ token' = token BY DEF Start, client
<1>2. CachedOutlives' BY <1>1 DEF CachedOutlives, NoToken
<1>3. ASSUME NEW d \in Callers, d # c PROVE CallInTime(d)'
  <2>1. call'[d] = call[d] BY <1>3 DEF Start
  <2>2. QED BY <1>1, <2>1 DEF CallInTime
<1>4. CallInTime(c)'
  <2>1. CASE token # NoToken /\ now < token.refreshAt
    <3>1. call'[c].at = "sent" /\ call'[c].since = now /\ call'[c].exp = token.exp
      BY <2>1 DEF Start, Idle
    <3>2. token.refreshAt \in Nat /\ token.exp \in Nat
          /\ token.refreshAt + Patience <= token.exp + Leeway + 1
      BY <2>1 DEF CachedOutlives
    <3>3. now + Patience <= token.exp + Leeway BY <2>1, <3>2 DEF Clocks
    <3>4. QED BY <1>1, <3>1, <3>3 DEF CallInTime, Presented, Clocks
  <2>2. CASE ~ (token # NoToken /\ now < token.refreshAt)
    <3>1. call'[c].at = "asking" /\ call'[c].since = now BY <2>2 DEF Start, Idle
    <3>2. QED BY <1>1, <3>1 DEF CallInTime, Presented, Clocks
  <2>3. QED BY <2>1, <2>2
<1>5. QED BY <1>2, <1>3, <1>4

\* Issuing: the token expires TTL from now, which is no earlier than since.
LEMMA IssuedInTime ==
  ASSUME Clocks, SessionsTypeOK, CachedOutlives, \A d \in Callers : CallInTime(d),
         NEW c \in Callers, call[c].at # "idle",
         call' = Issued(c), now' = now, token' = token
  PROVE  CachedOutlives' /\ (\A d \in Callers : CallInTime(d)')
<1> USE DEF SessionsTypeOK
<1>1. CachedOutlives' BY DEF CachedOutlives, NoToken
<1>2. ASSUME NEW d \in Callers, d # c PROVE CallInTime(d)'
  <2>1. call'[d] = call[d] BY <1>2 DEF Issued
  <2>2. QED BY <2>1 DEF CallInTime
<1>3. CallInTime(c)'
  <2>1. call'[c].at = "issued" /\ call'[c].since = call[c].since /\ call'[c].exp = now + TTL
    BY DEF Issued
  <2>2. call[c].since \in Nat BY DEF Call
  <2>3. call[c].since <= now /\ now <= call[c].since + Patience BY DEF CallInTime
  <2>4. call[c].since + TTL <= now + TTL BY <2>2, <2>3 DEF Clocks
  <2>5. QED BY <2>1, <2>3, <2>4 DEF CallInTime, Presented
<1>4. QED BY <1>1, <1>2, <1>3

\* Keeping: what renewal leaves of the lifetime covers both exchanges.
LEMMA KeptInTime ==
  ASSUME RenewalLeavesTime, Clocks, SessionsTypeOK, \A d \in Callers : CallInTime(d),
         NEW c \in Callers, Keep(c)
  PROVE  CachedOutlives' /\ (\A d \in Callers : CallInTime(d)')
<1> USE DEF SessionsTypeOK
<1>1. now' = now BY DEF Keep
<1>2. call[c].since \in Nat /\ call[c].exp \in Nat BY DEF Call
<1>3. /\ now <= call[c].since + Patience /\ call[c].since + TTL <= call[c].exp
  BY DEF Keep, CallInTime
<1>4. now + RefreshIn(TTL) + Patience <= call[c].exp + Leeway + 1
  BY <1>2, <1>3 DEF Clocks, RenewalLeavesTime
<1>5. token'.refreshAt = now + RefreshIn(TTL) /\ token'.exp = call[c].exp BY DEF Keep
<1>6. CachedOutlives' BY <1>4, <1>5 DEF CachedOutlives
<1>7. ASSUME NEW d \in Callers, d # c PROVE CallInTime(d)'
  <2>1. call'[d] = call[d] BY <1>7 DEF Keep
  <2>2. QED BY <1>1, <2>1 DEF CallInTime
<1>8. CallInTime(c)'
  <2>1. call'[c].at = "sent" /\ call'[c].since = now /\ call'[c].exp = call[c].exp BY DEF Keep
  <2>2. now + Patience <= call[c].exp + Leeway BY <1>2, <1>4 DEF Clocks
  <2>3. QED BY <1>1, <2>1, <2>2 DEF CallInTime, Presented, Clocks
<1>9. QED BY <1>6, <1>7, <1>8

LEMMA RenewalStays == ASSUME RenewalLeavesTime PROVE RenewalInv /\ [Next]_vars => RenewalInv'
<1> SUFFICES ASSUME RenewalInv, [Next]_vars PROVE RenewalInv' OBVIOUS
<1>a. SessionsTypeOK' BY TypesStay DEF RenewalInv
<1>b. \A c \in Callers : CallInTime(c) BY CallsInTime DEF RenewalInv
<1>c. Clocks BY SessionsAssumption, RefreshIsLater DEF Clocks, RenewalInv, SessionsTypeOK
<1>d. (Timely /\ FullLife /\ Outlives)' <=> \A c \in Callers : CallInTime(c)'
  BY DEF Timely, FullLife, Outlives, CallInTime
<1> SUFFICES CachedOutlives' /\ (\A c \in Callers : CallInTime(c)')
  BY <1>a, <1>d DEF RenewalInv
<1> USE DEF RenewalInv
<1>1. CASE Unhurried BY <1>1, <1>b, UnhurriedKeepsTime
<1>2. ASSUME NEW c \in Callers,
             \/ Admit(c) \/ Arrive(c) \/ Refresh(c) \/ Fetch(c) \/ Land(c) \/ GiveUp(c)
      PROVE  Unhurried
  BY <1>2, MostAreUnhurried
<1>3. ASSUME NEW c \in Callers, Start(c)
      PROVE  CachedOutlives' /\ (\A d \in Callers : CallInTime(d)')
  BY <1>3, <1>b, <1>c, StartsInTime
<1>4. ASSUME NEW c \in Callers, MintElsewhere(c)
      PROVE  CachedOutlives' /\ (\A d \in Callers : CallInTime(d)')
  <2>1. call[c].at # "idle" /\ now' = now /\ token' = token
    BY <1>4 DEF MintElsewhere, client
  <2>2. CASE up BY <1>4, <1>b, <1>c, <2>1, <2>2, IssuedInTime DEF MintElsewhere
  <2>3. CASE ~ up
    <3>1. Unhurried
      BY <1>4, <2>1, <2>3 DEF MintElsewhere, Answered, Idle, Unhurried, SessionsTypeOK
    <3>2. QED BY <3>1, <1>1
  <2>4. QED BY <2>2, <2>3
<1>5. ASSUME NEW c \in Callers, Verified(c)
      PROVE  CachedOutlives' /\ (\A d \in Callers : CallInTime(d)')
  <2>1. call[c].at # "idle" /\ call' = Issued(c) /\ now' = now /\ token' = token
    BY <1>5 DEF Verified, client
  <2>2. QED BY <1>b, <1>c, <2>1, IssuedInTime
<1>6. ASSUME NEW c \in Callers, Keep(c)
      PROVE  CachedOutlives' /\ (\A d \in Callers : CallInTime(d)')
  BY <1>6, <1>b, <1>c, KeptInTime
<1>7. CASE OrphanEnds BY <1>7, <1>1 DEF OrphanEnds, Unhurried, client
<1>8. CASE Restart
  <2>1. Unhurried BY <1>8 DEF Restart, Unhurried, Idle, client
  <2>2. QED BY <2>1, <1>1
<1>9. CASE Rotate BY <1>9, <1>1 DEF Rotate, Unhurried, client
<1>10. CASE Outage BY <1>10, <1>1 DEF Outage, Unhurried, client
<1>11. CASE Recover BY <1>11, <1>1 DEF Recover, Unhurried, client
<1>12. ASSUME NEW k \in Keys, Withdraw(k) PROVE Unhurried
  BY <1>12 DEF Withdraw, Unhurried, client
<1>13. CASE UNCHANGED vars BY <1>13, <1>1 DEF vars, Unhurried
<1>14. CASE Tick
  <2>1. now' = now + 1 /\ call' = call /\ token' = token BY <1>14 DEF Tick, client
  <2>2. CachedOutlives' BY <2>1 DEF CachedOutlives, NoToken
  <2>3. ASSUME NEW c \in Callers PROVE CallInTime(c)'
    <3>1. call[c].at = "idle" \/ now < call[c].since + Patience BY <1>14 DEF Tick
    <3>2. call[c].since \in Nat BY DEF SessionsTypeOK, Call
    <3>3. CallInTime(c) BY <1>b
    <3>4. call[c].at # "idle" => call[c].since <= now + 1 /\ now + 1 <= call[c].since + Patience
      BY <3>1, <3>2, <3>3, <1>c DEF CallInTime, Clocks
    <3>5. QED BY <2>1, <3>3, <3>4 DEF CallInTime
  <2>4. QED BY <2>2, <2>3
<1>15. QED
  BY <1>1, <1>2, <1>3, <1>4, <1>5, <1>6, <1>7, <1>8, <1>9, <1>10, <1>11, <1>12, <1>13, <1>14
     DEF Next

\* When renewal leaves of a token's lifetime at least two exchanges, no token
\* the client chose to present has expired when it is checked (client.rs), even
\* with tasks that replace each other's tokens and a VTN that starts again.
THEOREM RenewedInTime == ASSUME RenewalLeavesTime PROVE Spec => []NoneExpires
<1>1. Init => RenewalInv
  BY TypesAtFirst DEF Init, RenewalInv, Timely, FullLife, Outlives, CachedOutlives, Idle,
     Presented
<1>2. RenewalInv /\ [Next]_vars => RenewalInv' BY RenewalStays
<1>3. RenewalInv => NoneExpires
  <2> SUFFICES ASSUME RenewalInv, NEW c \in Callers PROVE Verdict(c) # "expired"
    BY DEF NoneExpires
  <2>1. CASE call[c].at \in {"sent", "landed"}
    <3>1. call[c].since \in Nat /\ call[c].exp \in Nat /\ now \in Nat
      BY DEF RenewalInv, SessionsTypeOK, Call
    <3>2. now <= call[c].since + Patience /\ call[c].since + Patience <= call[c].exp + Leeway
      BY <2>1 DEF RenewalInv, Timely, Outlives, Presented
    <3>3. ~ Expired(c) BY <3>1, <3>2, SessionsAssumption DEF Expired
    <3>4. QED BY <3>3 DEF Verdict, Decoded, Lookup
  <2>2. CASE call[c].at \notin {"sent", "landed"} BY <2>2 DEF Verdict
  <2>3. QED BY <2>1, <2>2
<1>4. QED BY <1>1, <1>2, <1>3, PTL DEF Spec
-----------------------------------------------------------------------------
(***************************************************************************)
(* Rotation of keys.                                                       *)
(***************************************************************************)

\* A step that takes no time and goes on with exchanges, ends or begins some.
GoesOn ==
  /\ now' = now
  /\ \A c \in Callers : \/ call'[c].at = "idle" \/ call'[c].since = now
                        \/ call[c].at # "idle" /\ call'[c].since = call[c].since

LEMMA GoingOnIsTimely ==
  ASSUME SessionsTypeOK, Timely, GoesOn
  PROVE  Timely'
<1> SUFFICES ASSUME NEW c \in Callers, call'[c].at # "idle"
             PROVE  call'[c].since <= now' /\ now' <= call'[c].since + Patience
  BY DEF Timely
<1>1. now \in Nat /\ Patience \in Nat /\ now' = now
  BY SessionsAssumption DEF SessionsTypeOK, GoesOn
<1>2. CASE call'[c].since = now BY <1>1, <1>2
<1>3. CASE call[c].at # "idle" /\ call'[c].since = call[c].since BY <1>1, <1>3 DEF Timely
<1>4. QED BY <1>2, <1>3 DEF GoesOn

\* A step that leaves the keys and the set alone, and no caller with a new set.
Aside ==
  /\ UNCHANGED <<now, signer, published, withdrawnAt, publishedAt, cache, unsettled>>
  /\ \A c \in Callers : /\ call'[c].got \in {call[c].got, {}}
                        /\ \/ call'[c].at \notin {"fetched", "landed"}
                           \/ call'[c] = call[c]

\* What RotationInv says of keys and sets.
KeysInv == KeysComeAndGo /\ SetsAreRecent /\ HeldIsRecent /\ AttemptsSettle

LEMMA AsideKeepsKeys == KeysInv /\ Aside => KeysInv'
<1> SUFFICES ASSUME KeysInv, Aside PROVE KeysInv' OBVIOUS
<1> USE DEF KeysInv, Aside
<1>1. KeysComeAndGo' BY DEF KeysComeAndGo
<1>2. \A keys, since : AsOf(keys, since) <=> AsOf(keys, since)' BY DEF AsOf
<1>3. SetsAreRecent'
  <2> SUFFICES ASSUME NEW c \in Callers
               PROVE  /\ call'[c].got \subseteq Keys
                      /\ call'[c].at = "fetched" => AsOf(call[c].got, call[c].since)'
    BY DEF SetsAreRecent
  <2>1. call'[c].got \subseteq Keys BY DEF SetsAreRecent
  <2>2. call'[c].at = "fetched" => AsOf(call'[c].got, call'[c].since)
    BY DEF SetsAreRecent
  <2>3. QED BY <2>1, <2>2 DEF AsOf
<1>4. HeldIsRecent'
  <2>1. cache.fetched # Never => AsOf(cache.keys, cache.fetched - Patience)'
    BY DEF HeldIsRecent, AsOf
  <2>2. QED BY <2>1 DEF HeldIsRecent
<1>5. AttemptsSettle' BY DEF AttemptsSettle
<1>6. QED BY <1>1, <1>3, <1>4, <1>5

LEMMA MostGoOn ==
  ASSUME SessionsTypeOK, NEW c \in Callers,
         \/ Start(c) \/ MintElsewhere(c) \/ Admit(c) \/ Verified(c) \/ Keep(c)
         \/ Arrive(c) \/ Refresh(c) \/ Fetch(c) \/ Land(c) \/ GiveUp(c)
  PROVE  GoesOn
<1> USE DEF SessionsTypeOK, GoesOn
<1>1. CASE Start(c) BY <1>1 DEF Start, Idle
<1>2. CASE MintElsewhere(c) BY <1>2 DEF MintElsewhere, Issued, Answered, Idle
<1>3. CASE Admit(c) BY <1>3 DEF Admit, Moved
<1>4. CASE Verified(c) BY <1>4 DEF Verified, Issued
<1>5. CASE Keep(c) BY <1>5 DEF Keep
<1>6. CASE Arrive(c)
  <2>1. call[c].at \in {"sent", "landed"} BY <1>6 DEF Arrive, Verdict
  <2>2. QED BY <1>6, <2>1 DEF Arrive, Moved, Answered, Idle
<1>7. CASE Refresh(c) BY <1>7 DEF Refresh, Moved
<1>8. CASE Fetch(c) BY <1>8 DEF Fetch, Answered, Idle
<1>9. CASE Land(c) BY <1>9 DEF Land
<1>10. CASE GiveUp(c) BY <1>10 DEF GiveUp, Idle
<1>11. QED BY <1>1, <1>2, <1>3, <1>4, <1>5, <1>6, <1>7, <1>8, <1>9, <1>10

LEMMA ManyAreAside ==
  ASSUME SessionsTypeOK, NEW c \in Callers,
         \/ Start(c) \/ MintElsewhere(c) \/ Admit(c) \/ Verified(c) \/ Keep(c)
         \/ Arrive(c) \/ GiveUp(c)
  PROVE  Aside
<1> USE DEF SessionsTypeOK, Aside, server, history
<1>1. CASE Start(c) BY <1>1 DEF Start, Idle
<1>2. CASE MintElsewhere(c) BY <1>2 DEF MintElsewhere, Issued, Answered, Idle
<1>3. CASE Admit(c) BY <1>3 DEF Admit, Moved
<1>4. CASE Verified(c) BY <1>4 DEF Verified, Issued
<1>5. CASE Keep(c) BY <1>5 DEF Keep
<1>6. CASE Arrive(c) BY <1>6 DEF Arrive, Moved, Answered, Idle
<1>7. CASE GiveUp(c) BY <1>7 DEF GiveUp, Idle
<1>8. QED BY <1>1, <1>2, <1>3, <1>4, <1>5, <1>6, <1>7

\* The attempt is of now, and unsettled.
LEMMA RefreshKeepsKeys ==
  ASSUME SessionsTypeOK, KeysInv, NEW c \in Callers, Refresh(c)
  PROVE  KeysInv'
<1> USE DEF KeysInv
<1>1. UNCHANGED <<now, signer, published, withdrawnAt, publishedAt>> /\ unsettled'
  BY DEF Refresh, server
<1>2. cache'.keys = cache.keys /\ cache'.fetched = cache.fetched /\ cache'.attempted = now
  BY DEF Refresh, Attempted, SessionsTypeOK
<1>3. \A d \in Callers : /\ call'[d].got = call[d].got
                         /\ call'[d].at \in {"fetched", "landed"} => call'[d] = call[d]
  BY DEF Refresh, Moved, SessionsTypeOK
<1>4. KeysComeAndGo' BY <1>1 DEF KeysComeAndGo
<1>5. SetsAreRecent' BY <1>1, <1>3 DEF SetsAreRecent, AsOf
<1>6. HeldIsRecent' BY <1>1, <1>2, <1>3 DEF HeldIsRecent, AsOf
<1>7. AttemptsSettle' BY <1>1, <1>2 DEF AttemptsSettle, SessionsTypeOK
<1>8. QED BY <1>4, <1>5, <1>6, <1>7

\* The set that comes is as published now: nothing in it is withdrawn yet.
LEMMA FetchKeepsKeys ==
  ASSUME SessionsTypeOK, KeysInv, NEW c \in Callers, Fetch(c)
  PROVE  KeysInv'
<1> USE DEF KeysInv
<1>1. UNCHANGED <<now, signer, published, withdrawnAt, publishedAt, cache, unsettled>>
  BY DEF Fetch, server, history
<1>2. CASE ~ up
  <2>1. Aside BY <1>1, <1>2 DEF Fetch, Answered, Idle, Aside, SessionsTypeOK
  <2>2. QED BY <2>1, AsideKeepsKeys
<1>3. CASE up
  <2>1. call'[c].at = "fetched" /\ call'[c].got = published
    BY <1>3 DEF Fetch, SessionsTypeOK
  <2>2. \A d \in Callers : d # c => call'[d] = call[d] BY <1>3 DEF Fetch, SessionsTypeOK
  <2>3. published \subseteq Keys BY SessionsAssumption DEF KeysComeAndGo, Keys
  <2>4. AsOf(published, call'[c].since) BY DEF KeysComeAndGo, AsOf
  <2>5. KeysComeAndGo' BY <1>1 DEF KeysComeAndGo
  <2>6. SetsAreRecent'
    <3> SUFFICES ASSUME NEW d \in Callers
                 PROVE  /\ call'[d].got \subseteq Keys
                        /\ call'[d].at = "fetched" => AsOf(call[d].got, call[d].since)'
      BY DEF SetsAreRecent
    <3>1. CASE d = c BY <1>1, <2>1, <2>3, <2>4, <3>1 DEF AsOf
    <3>2. CASE d # c BY <1>1, <2>2, <3>2 DEF SetsAreRecent, AsOf
    <3>3. QED BY <3>1, <3>2
  <2>7. HeldIsRecent' BY <1>1, <2>1, <2>2 DEF HeldIsRecent, AsOf
  <2>8. AttemptsSettle' BY <1>1 DEF AttemptsSettle
  <2>9. QED BY <2>5, <2>6, <2>7, <2>8
<1>4. QED BY <1>2, <1>3

\* The set is at most an exchange old, and the attempts before it are settled.
LEMMA LandKeepsKeys ==
  ASSUME SessionsTypeOK, Timely, KeysInv, NEW c \in Callers, Land(c)
  PROVE  KeysInv'
<1> USE DEF KeysInv
<1>1. UNCHANGED <<now, signer, published, withdrawnAt, publishedAt>> /\ ~ unsettled'
  BY DEF Land, server
<1>2. /\ cache'.keys = call[c].got /\ cache'.fetched = now
      /\ cache'.attempted = cache.attempted
  BY DEF Land, Refreshed, SessionsTypeOK
<1>3. now \in Nat /\ Patience \in Nat /\ call[c].since \in Nat /\ now # Never
  BY SessionsAssumption, KeyCacheAssumption DEF SessionsTypeOK, Call
<1>4. call[c].since <= now /\ now - Patience <= call[c].since
  BY <1>3 DEF Land, Timely
<1>5. AsOf(call[c].got, call[c].since) /\ call[c].got \subseteq Keys BY DEF Land, SetsAreRecent
<1>6. AsOf(call[c].got, now - Patience)
  <2> SUFFICES ASSUME NEW k \in Keys
               PROVE  /\ k \in call[c].got /\ withdrawnAt[k] # Never
                           => now - Patience <= withdrawnAt[k]
                      /\ k \in published /\ k \notin call[c].got
                           => now - Patience <= publishedAt[k]
    BY DEF AsOf
  <2>1. withdrawnAt[k] # Never => withdrawnAt[k] \in Nat BY DEF KeysComeAndGo, Times
  <2>2. k \in published => publishedAt[k] \in Nat BY DEF KeysComeAndGo, Times
  <2>3. QED BY <1>3, <1>4, <1>5, <2>1, <2>2 DEF AsOf
<1>7. /\ call'[c].got = {} /\ call'[c].at = "landed" /\ call'[c].since = call[c].since
      /\ \A d \in Callers : d # c => call'[d] = call[d]
  BY DEF Land, SessionsTypeOK
<1>8. KeysComeAndGo' BY <1>1 DEF KeysComeAndGo
<1>9. SetsAreRecent' BY <1>1, <1>7 DEF SetsAreRecent, AsOf
<1>10. HeldIsRecent'
  <2>1. AsOf(cache.keys, cache.fetched - Patience)' BY <1>1, <1>2, <1>6 DEF AsOf
  <2>2. ASSUME NEW d \in Callers, call'[d].at = "landed" PROVE call'[d].since <= now
    <3>1. CASE d = c BY <1>4, <1>7, <3>1
    <3>2. CASE d # c BY <1>7, <2>2, <3>2 DEF Timely
    <3>3. QED BY <3>1, <3>2
  <2>3. QED BY <1>1, <1>2, <1>3, <1>5, <2>1, <2>2 DEF HeldIsRecent
<1>11. AttemptsSettle' BY <1>1, <1>2, <1>3 DEF AttemptsSettle
<1>12. QED BY <1>8, <1>9, <1>10, <1>11

\* Publishing a key, or withdrawing one, happens now: no earlier than what any
\* set is as of.
LEMMA RotationKeepsKeys ==
  ASSUME SessionsTypeOK, Timely, KeysInv, Rotate \/ \E k \in Keys : Withdraw(k)
  PROVE  KeysInv'
<1> USE DEF KeysInv
<1>1. UNCHANGED <<now, cache, call, unsettled>> BY DEF Rotate, Withdraw
<1>2. now \in Nat /\ now # Never /\ Patience \in Nat /\ MaxKeys \in Nat
  BY SessionsAssumption, KeyCacheAssumption DEF SessionsTypeOK
<1>3. \A k \in Keys : /\ withdrawnAt'[k] \in {withdrawnAt[k], now}
                      /\ publishedAt'[k] \in {publishedAt[k], now}
                      /\ k \in published' => k \in published \/ publishedAt'[k] = now
  BY DEF Rotate, Withdraw, KeysComeAndGo
<1>4. ASSUME NEW keys, NEW since \in Int, since <= now, AsOf(keys, since)
      PROVE  AsOf(keys, since)'
  <2> SUFFICES ASSUME NEW k \in Keys
               PROVE  /\ k \in keys /\ withdrawnAt'[k] # Never => since <= withdrawnAt'[k]
                      /\ k \in published' /\ k \notin keys => since <= publishedAt'[k]
    BY DEF AsOf
  <2>1. k \in keys /\ withdrawnAt'[k] # Never => since <= withdrawnAt'[k]
    BY <1>3, <1>4 DEF AsOf
  <2>2. k \in published' /\ k \notin keys => since <= publishedAt'[k]
    BY <1>3, <1>4 DEF AsOf
  <2>3. QED BY <2>1, <2>2
<1>5. KeysComeAndGo'
  <2>1. CASE Rotate
    <3>1. /\ signer' = signer + 1 /\ signer + 1 \in Keys
          /\ published' = published \cup {signer + 1}
          /\ publishedAt' = [publishedAt EXCEPT ![signer + 1] = now]
          /\ withdrawnAt' = withdrawnAt
      BY <1>2, <2>1 DEF Rotate, KeysComeAndGo, Keys
    <3>2. signer \in Nat /\ published \subseteq 1 .. signer BY DEF KeysComeAndGo, Keys
    <3>3. published' \subseteq 1 .. signer' BY <3>1, <3>2
    <3>4. withdrawnAt[signer + 1] = Never BY <3>1, <3>2 DEF KeysComeAndGo
    <3>5. publishedAt' \in [Keys -> Times] BY <1>2, <3>1 DEF KeysComeAndGo, Times
    <3>6. \A k \in Keys : withdrawnAt'[k] # Never => withdrawnAt'[k] <= now /\ k <= signer'
      BY <3>1, <3>2 DEF KeysComeAndGo, Keys
    <3>7. ASSUME NEW k \in published'
          PROVE  withdrawnAt'[k] = Never /\ publishedAt'[k] # Never /\ publishedAt'[k] <= now
      <4>1. CASE k = signer + 1 BY <1>2, <3>1, <3>4, <4>1 DEF KeysComeAndGo
      <4>2. CASE k # signer + 1 BY <3>1, <3>7, <4>2 DEF KeysComeAndGo
      <4>3. QED BY <4>1, <4>2
    <3>8. QED BY <1>1, <3>1, <3>3, <3>5, <3>6, <3>7 DEF KeysComeAndGo
  <2>2. ASSUME NEW k \in Keys, Withdraw(k) PROVE KeysComeAndGo'
    <3>1. /\ signer' = signer /\ publishedAt' = publishedAt
          /\ published' = published \ {k} /\ k \in published
          /\ withdrawnAt' = [withdrawnAt EXCEPT ![k] = now]
      BY <2>2 DEF Withdraw
    <3>2. withdrawnAt' \in [Keys -> Times] BY <1>2, <3>1 DEF KeysComeAndGo, Times
    <3>3. \A j \in Keys : withdrawnAt'[j] # Never => withdrawnAt'[j] <= now /\ j <= signer'
      BY <1>2, <3>1 DEF KeysComeAndGo
    <3>4. \A j \in published' :
            withdrawnAt'[j] = Never /\ publishedAt'[j] # Never /\ publishedAt'[j] <= now
      BY <3>1 DEF KeysComeAndGo
    <3>5. QED BY <1>1, <3>1, <3>2, <3>3, <3>4 DEF KeysComeAndGo
  <2>3. QED BY <2>1, <2>2
<1>6. SetsAreRecent'
  <2> SUFFICES ASSUME NEW c \in Callers, call[c].at = "fetched"
               PROVE  AsOf(call[c].got, call[c].since)'
    BY <1>1 DEF SetsAreRecent
  <2>1. call[c].since \in Int /\ call[c].since <= now BY DEF SessionsTypeOK, Call, Timely
  <2>2. AsOf(call[c].got, call[c].since) BY DEF SetsAreRecent
  <2>3. QED BY <1>1, <1>4, <2>1, <2>2
<1>7. HeldIsRecent'
  <2>1. ASSUME cache.fetched # Never PROVE AsOf(cache.keys, cache.fetched - Patience)'
    <3>1. cache.fetched \in Nat BY <2>1 DEF SessionsTypeOK, Times
    <3>2. cache.fetched <= now /\ AsOf(cache.keys, cache.fetched - Patience)
      BY <2>1 DEF HeldIsRecent
    <3>3. cache.fetched - Patience \in Int /\ cache.fetched - Patience <= now
      BY <1>2, <3>1, <3>2
    <3>4. QED BY <1>1, <1>4, <3>2, <3>3
  <2>2. QED BY <1>1, <2>1 DEF HeldIsRecent, AsOf
<1>8. AttemptsSettle' BY <1>1 DEF AttemptsSettle
<1>9. QED BY <1>5, <1>6, <1>7, <1>8

\* Nothing is held, nor being fetched.
LEMMA RestartKeepsKeys ==
  ASSUME SessionsTypeOK, KeysInv, Restart
  PROVE  KeysInv'
<1> USE DEF KeysInv
<1>1. /\ UNCHANGED <<now, published, withdrawnAt, publishedAt>>
      /\ cache'.keys = {} /\ cache'.fetched = Never /\ cache'.attempted = Never
  BY DEF Restart, EmptyCache
<1>2. signer' \in Keys /\ (signer' = signer \/ signer' = signer + 1)
  BY SessionsAssumption DEF Restart, KeysComeAndGo, Keys
<1>3. \A c \in Callers : /\ call'[c].got \in {call[c].got, {}}
                         /\ call'[c].at \notin {"fetched", "landed"}
  BY DEF Restart, Idle
<1>4. KeysComeAndGo'
  <2>1. signer \in Nat BY DEF KeysComeAndGo, Keys
  <2>2. published' \subseteq 1 .. signer' BY <1>1, <1>2, <2>1 DEF KeysComeAndGo
  <2>3. \A k \in Keys : withdrawnAt'[k] # Never => withdrawnAt'[k] <= now' /\ k <= signer'
    BY <1>1, <1>2, <2>1 DEF KeysComeAndGo, Keys
  <2>4. QED BY <1>1, <1>2, <2>2, <2>3 DEF KeysComeAndGo
<1>5. SetsAreRecent' BY <1>3 DEF SetsAreRecent
<1>6. HeldIsRecent' BY <1>1, <1>3 DEF HeldIsRecent
<1>7. AttemptsSettle' BY <1>1 DEF AttemptsSettle
<1>8. QED BY <1>4, <1>5, <1>6, <1>7

\* What is past stays past.
LEMMA TickKeepsKeys ==
  ASSUME SessionsTypeOK, KeysInv, Tick
  PROVE  KeysInv'
<1> USE DEF KeysInv
<1>1. /\ UNCHANGED <<signer, published, withdrawnAt, publishedAt, cache, call, unsettled>>
      /\ now' = now + 1 /\ now \in Nat
  BY DEF Tick, server, SessionsTypeOK
<1>2. \A t \in Times : t # Never => t \in Nat BY DEF Times
<1>3. KeysComeAndGo'
  <2>1. \A k \in Keys : withdrawnAt[k] # Never => withdrawnAt[k] <= now + 1
    BY <1>1, <1>2 DEF KeysComeAndGo
  <2>2. published \subseteq Keys BY SessionsAssumption DEF KeysComeAndGo, Keys
  <2>3. \A k \in published : publishedAt[k] <= now + 1 BY <1>1, <1>2, <2>2 DEF KeysComeAndGo
  <2>4. QED BY <1>1, <2>1, <2>3 DEF KeysComeAndGo
<1>4. SetsAreRecent' BY <1>1 DEF SetsAreRecent, AsOf
<1>5. HeldIsRecent'
  <2>1. cache.fetched # Never => cache.fetched <= now + 1
    BY <1>1, <1>2 DEF HeldIsRecent, SessionsTypeOK
  <2>2. QED BY <1>1, <2>1 DEF HeldIsRecent, AsOf
<1>6. AttemptsSettle'
  <2>1. cache.attempted # Never => cache.attempted <= now + 1
    BY <1>1, <1>2 DEF AttemptsSettle, SessionsTypeOK
  <2>2. QED BY <1>1, <2>1 DEF AttemptsSettle
<1>7. QED BY <1>3, <1>4, <1>5, <1>6

LEMMA RotationStays == RotationInv /\ [Next]_vars => RotationInv'
<1> SUFFICES ASSUME RotationInv, [Next]_vars PROVE RotationInv' OBVIOUS
<1>a. SessionsTypeOK' BY TypesStay DEF RotationInv
<1>b. SessionsTypeOK /\ Timely /\ KeysInv BY DEF RotationInv, KeysInv
<1> SUFFICES Timely' /\ KeysInv' BY <1>a DEF RotationInv, KeysInv
<1>1. CASE GoesOn /\ Aside BY <1>1, <1>b, GoingOnIsTimely, AsideKeepsKeys
<1>2. ASSUME NEW c \in Callers,
             \/ Start(c) \/ MintElsewhere(c) \/ Admit(c) \/ Verified(c) \/ Keep(c)
             \/ Arrive(c) \/ GiveUp(c)
      PROVE  GoesOn /\ Aside
  BY <1>2, <1>b, MostGoOn, ManyAreAside
<1>3. ASSUME NEW c \in Callers, Refresh(c) \/ Fetch(c) \/ Land(c)
      PROVE  Timely' /\ KeysInv'
  <2>1. Timely' BY <1>3, <1>b, MostGoOn, GoingOnIsTimely
  <2>2. KeysInv' BY <1>3, <1>b, RefreshKeepsKeys, FetchKeepsKeys, LandKeepsKeys
  <2>3. QED BY <2>1, <2>2
<1>4. CASE OrphanEnds
  <2>1. GoesOn /\ Aside
    BY <1>4, <1>b DEF OrphanEnds, GoesOn, Aside, server, history
  <2>2. QED BY <2>1, <1>1
<1>5. CASE Outage
  <2>1. GoesOn /\ Aside BY <1>5, <1>b DEF Outage, GoesOn, Aside, history
  <2>2. QED BY <2>1, <1>1
<1>6. CASE Recover
  <2>1. GoesOn /\ Aside BY <1>6, <1>b DEF Recover, GoesOn, Aside, history
  <2>2. QED BY <2>1, <1>1
<1>7. CASE UNCHANGED vars
  <2>1. GoesOn /\ Aside BY <1>7, <1>b DEF vars, GoesOn, Aside
  <2>2. QED BY <2>1, <1>1
<1>8. CASE Restart
  <2>1. GoesOn BY <1>8 DEF Restart, GoesOn, Idle
  <2>2. QED BY <1>8, <1>b, <2>1, GoingOnIsTimely, RestartKeepsKeys
<1>9. CASE Rotate \/ \E k \in Keys : Withdraw(k)
  <2>1. GoesOn BY <1>9 DEF Rotate, Withdraw, GoesOn
  <2>2. QED BY <1>9, <1>b, <2>1, GoingOnIsTimely, RotationKeepsKeys
<1>10. CASE Tick
  <2>1. Timely'
    <3> SUFFICES ASSUME NEW c \in Callers, call[c].at # "idle"
                 PROVE  call[c].since <= now + 1 /\ now + 1 <= call[c].since + Patience
      BY <1>10 DEF Tick, Timely
    <3>1. now \in Nat /\ call[c].since \in Nat /\ Patience \in Nat
      BY <1>b, SessionsAssumption DEF SessionsTypeOK, Call
    <3>2. call[c].since <= now /\ now < call[c].since + Patience
      BY <1>10, <1>b DEF Tick, Timely
    <3>3. QED BY <3>1, <3>2
  <2>2. QED BY <1>10, <1>b, <2>1, TickKeepsKeys
<1>11. QED
  BY <1>1, <1>2, <1>3, <1>4, <1>5, <1>6, <1>7, <1>8, <1>9, <1>10 DEF Next

\* What RotationInv says of a token that is being checked.
LEMMA WindowsHold ==
  ASSUME WindowsAreWide, RotationInv, NEW c \in Callers, ~ Internal, ~ unsettled
  PROVE  /\ Verdict(c) = "accepted" /\ withdrawnAt[call[c].key] # Never
              => now < withdrawnAt[call[c].key] + Patience + RefreshAfter
         /\ Verdict(c) = "invalid" /\ call[c].key \in published
              => now < publishedAt[call[c].key] + MinRefresh + Patience
<1> DEFINE key == call[c].key
<1> USE DEF RotationInv
<1>1. /\ now \in Nat /\ Patience \in Nat /\ MinRefresh \in Nat /\ RefreshAfter \in Nat
      /\ call[c].since \in Nat
  BY SessionsAssumption, KeyCacheAssumption DEF SessionsTypeOK, Call
<1>2. published \subseteq Keys BY SessionsAssumption DEF KeysComeAndGo, Keys
<1>3. /\ cache.fetched # Never => cache.fetched \in Nat
      /\ cache.attempted # Never => cache.attempted \in Nat
  BY DEF SessionsTypeOK, Times
\* Either verdict says that there is a set, and that it is recent.
<1>4. ASSUME \/ Verdict(c) = "accepted" /\ key \in cache.keys
             \/ Verdict(c) = "invalid"
      PROVE  /\ cache.fetched # Never
             /\ \/ now < cache.fetched + RefreshAfter /\ Verdict(c) = "accepted"
                \/ now < cache.fetched + MinRefresh
  <2>1. CASE call[c].at = "landed"
    <3>1. cache.fetched # Never /\ call[c].since <= cache.fetched BY <2>1 DEF HeldIsRecent
    <3>2. now <= call[c].since + Patience BY <2>1 DEF Timely
    <3>3. QED BY <1>1, <1>3, <3>1, <3>2 DEF WindowsAreWide
  <2>2. CASE call[c].at = "sent" /\ Verdict(c) = "accepted" /\ key \in cache.keys
    <3>1. cache.fetched # Never BY <2>2 DEF HeldIsRecent
    <3>2. Lookup(cache, key, now) = "held" BY <2>2 DEF Verdict, Lookup
    <3>3. IsFresh(cache, now) \/ TooSoon(cache, now) BY <3>2 DEF Lookup
    <3>4. TooSoon(cache, now) => now < cache.fetched + MinRefresh
      BY <1>1, <1>3 DEF TooSoon, Within, AttemptsSettle
    <3>5. QED BY <2>2, <3>1, <3>3, <3>4 DEF IsFresh, Within
  <2>3. CASE call[c].at = "sent" /\ Verdict(c) = "invalid"
    <3>1. Lookup(cache, key, now) = "invalid" BY <2>3 DEF Verdict, Decoded
    <3>2. IsFresh(cache, now) /\ TooSoon(cache, now) BY <3>1 DEF Lookup
    <3>3. QED BY <1>1, <1>3, <3>2 DEF IsFresh, TooSoon, Within, AttemptsSettle
  <2>4. QED BY <1>4, <2>1, <2>2, <2>3 DEF Verdict
<1>5. ASSUME Verdict(c) = "accepted", withdrawnAt[key] # Never
      PROVE  now < withdrawnAt[key] + Patience + RefreshAfter
  <2>1. key \in cache.keys /\ key \in Keys
    BY <1>5 DEF Verdict, Lookup, HeldIsRecent, Internal
  <2>2. cache.fetched # Never /\ now < cache.fetched + RefreshAfter
    BY <1>1, <1>3, <1>4, <1>5, <2>1 DEF WindowsAreWide
  <2>3. cache.fetched - Patience <= withdrawnAt[key] /\ withdrawnAt[key] \in Nat
    BY <1>5, <2>1, <2>2 DEF HeldIsRecent, AsOf, KeysComeAndGo, Times
  <2>4. QED BY <1>1, <1>3, <2>2, <2>3
<1>6. ASSUME Verdict(c) = "invalid", key \in published
      PROVE  now < publishedAt[key] + MinRefresh + Patience
  <2>1. cache.fetched # Never /\ now < cache.fetched + MinRefresh BY <1>4, <1>6
  <2>2. key \notin cache.keys
    <3>1. CASE call[c].at = "landed" BY <1>6, <3>1 DEF Verdict, Decoded
    <3>2. CASE call[c].at = "sent"
      <4>1. Lookup(cache, key, now) = "invalid" BY <1>6, <3>2 DEF Verdict, Decoded
      <4>2. QED BY <4>1 DEF Lookup
    <3>3. QED BY <1>6, <3>1, <3>2 DEF Verdict
  <2>3. cache.fetched - Patience <= publishedAt[key] /\ publishedAt[key] \in Nat
    BY <1>2, <1>6, <2>1, <2>2 DEF HeldIsRecent, AsOf, KeysComeAndGo, Times
  <2>4. QED BY <1>1, <1>3, <2>1, <2>3
<1>7. QED BY <1>5, <1>6

\* If an exchange is shorter than the windows of the key set, a withdrawn key is
\* honoured for refresh_after and an exchange at most, and a published one is
\* refused for min_refresh_interval and an exchange at most (jwt.rs), however
\* many tasks fetch and land in whatever order.
THEOREM RotationIsFollowed == ASSUME WindowsAreWide PROVE Spec => []KeysFollowRotation
<1>1. Init => RotationInv
  <2> SUFFICES ASSUME Init PROVE RotationInv OBVIOUS
  <2>1. SessionsTypeOK /\ Timely BY TypesAtFirst DEF Init, Timely, Idle
  <2>2. signer \in Keys /\ published \subseteq 1 .. signer
    BY SessionsAssumption DEF Init, Keys
  <2>3. \A k \in published : publishedAt[k] = 0 /\ withdrawnAt[k] = Never
    BY SessionsAssumption DEF Init, Keys
  <2>4. KeysComeAndGo
    BY <2>1, <2>2, <2>3, KeyCacheAssumption DEF Init, KeysComeAndGo, Times
  <2>5. SetsAreRecent /\ HeldIsRecent /\ AttemptsSettle
    BY DEF Init, Idle, EmptyCache, SetsAreRecent, HeldIsRecent, AttemptsSettle
  <2>6. QED BY <2>1, <2>4, <2>5 DEF RotationInv
<1>2. RotationInv /\ [Next]_vars => RotationInv' BY RotationStays
<1>3. RotationInv => KeysFollowRotation BY WindowsHold DEF KeysFollowRotation
<1>4. QED BY <1>1, <1>2, <1>3, PTL DEF Spec
=============================================================================

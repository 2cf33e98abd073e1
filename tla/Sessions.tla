------------------------------ MODULE Sessions ------------------------------
(***************************************************************************)
(* The life of an access token: a client process whose tasks share one     *)
(* cached token (client.rs), a VTN that checks tokens, and whoever issues  *)
(* them: the VTN itself, with a signing key it was given or one it made up *)
(* when it started (vtn/auth/internal.rs), or an external authorization    *)
(* server whose key set the VTN caches (vtn/auth/jwt.rs).  Keys rotate and *)
(* are withdrawn, the authorization server fails, the VTN restarts and     *)
(* tasks are cut off; what is not modelled is cryptography.                *)
(*                                                                         *)
(* Every exchange has a timeout, Patience, on whichever side is shorter    *)
(* (ClientBuilder::timeout, VtnConfig.request_timeout, JwtConfig.timeout): *)
(* time does not pass an exchange that is due to be cut off.               *)
(***************************************************************************)
EXTENDS KeyCache, FiniteSets

CONSTANTS
  Callers,    \* tasks of the client process
  TTL,        \* the lifetime of a token
  Leeway,     \* how long after its expiry a token is still accepted
  Patience,   \* how long an exchange may take
  Permits,    \* InternalAuthBuilder::max_concurrent_verifications
  MaxKeys,    \* bound: signing keys there are in all
  MaxFaults,  \* bound: callers cut off, outages and restarts
  MaxTime     \* bound on the clock

ASSUME SessionsAssumption ==
  /\ TTL \in Nat \ {0} /\ Leeway \in Nat /\ Patience \in Nat
  /\ {Permits, MaxKeys} \subseteq Nat \ {0}
  /\ {MaxFaults, MaxTime} \subseteq Nat

Keys == 1 .. MaxKeys
NoToken == [key |-> 0, exp |-> 0, refreshAt |-> 0]
\* What issues tokens: the VTN, with a key of either origin, or another server.
Deployments == {"generated", "given", "external"}

VARIABLES
  now,
  deployment,  \* which of Deployments this is
  signer,      \* the key that signs new tokens
  published,   \* the keys the authorization server publishes
  up,          \* whether it answers
  cache,       \* the VTN's copy of those keys: JwtAuthenticator.cache
  token,       \* the client's CachedToken, or NoToken
  call,        \* what each caller is at
  orphans,     \* secret verifications still running for callers cut off
  faults,
  withdrawnAt, \* history: when each key was withdrawn, or Never
  publishedAt, \* history: when each key was first published, or Never
  lastTry,     \* history: when each caller last made this VTN process fetch
  unsettled    \* history: a fetch began since the last set landed

vars == <<now, deployment, signer, published, up, cache, token, call, orphans,
          faults, withdrawnAt, publishedAt, lastTry, unsettled>>
client == <<token>>
server == <<deployment, signer, published, up>>
history == <<withdrawnAt, publishedAt, lastTry, unsettled>>

Idle == [at |-> "idle", key |-> 0, exp |-> 0, since |-> 0, got |-> {}]
Moved(c, stage) == [call EXCEPT ![c].at = stage]
At(stage) == {c \in Callers : call[c].at = stage}
Answered(c) == [call EXCEPT ![c] = Idle]

Internal == deployment # "external"

(***************************************************************************)
(* The client.                                                             *)
(***************************************************************************)

\* Slip: a token is used for as long as it is said to live.
RefreshIn_Lifetime(lifetime) == lifetime
\* Nine tenths of the lifetime, and at least one second.
RefreshIn(lifetime) == LET tenths == (lifetime * 9) \div 10
                       IN IF tenths > 1 THEN tenths ELSE 1

\* access_token: the cached token while it is not due for renewal, or a
\* request for another; the lock is not held while that is out.
Start(c) ==
  /\ call[c].at = "idle"
  /\ call' = [call EXCEPT ![c] =
       IF token # NoToken /\ now < token.refreshAt
       THEN [Idle EXCEPT !.at = "sent", !.since = now, !.key = token.key, !.exp = token.exp]
       ELSE [Idle EXCEPT !.at = "asking", !.since = now]]
  /\ UNCHANGED <<now, client, server, cache, orphans, faults, history>>

\* The response is in: it replaces whatever the cache holds, and is presented.
Keep(c) ==
  /\ call[c].at = "issued"
  /\ token' = [key |-> call[c].key, exp |-> call[c].exp, refreshAt |-> now + RefreshIn(TTL)]
  /\ call' = [call EXCEPT ![c].at = "sent", ![c].since = now]
  /\ UNCHANGED <<now, server, cache, orphans, faults, history>>

(***************************************************************************)
(* Issuing a token.                                                        *)
(***************************************************************************)
Issued(c) == [call EXCEPT ![c].at = "issued", ![c].key = signer, ![c].exp = now + TTL]

\* The external server signs, or is not there.
MintElsewhere(c) ==
  /\ ~ Internal /\ call[c].at = "asking"
  /\ call' = IF up THEN Issued(c) ELSE Answered(c)
  /\ UNCHANGED <<now, client, server, cache, orphans, faults, history>>

\* The permit moved into the verification, which runs to its end off the runtime.
FreePermits == Permits - (Cardinality(At("verifying")) + orphans)

\* issue_token: wait for a permit, and verify the secret;
Admit(c) ==
  /\ Internal /\ call[c].at = "asking" /\ FreePermits > 0
  /\ call' = Moved(c, "verifying")
  /\ UNCHANGED <<now, client, server, cache, orphans, faults, history>>

\* the secret is verified, and a token minted.
Verified(c) ==
  /\ call[c].at = "verifying"
  /\ call' = Issued(c)
  /\ UNCHANGED <<now, client, server, cache, orphans, faults, history>>

OrphanEnds ==
  /\ orphans > 0
  /\ orphans' = orphans - 1
  /\ UNCHANGED <<now, client, server, cache, call, faults, history>>

(***************************************************************************)
(* Checking a token.                                                       *)
(***************************************************************************)
Expired(c) == now > call[c].exp + Leeway

\* The signature is good: is it in time?
Decoded(c) == IF Expired(c) THEN "expired" ELSE "accepted"

\* What authenticate makes of the token a caller has sent, or sent before the
\* key set was fetched: InternalAuth wants this process's own key, and
\* JwtAuthenticator what key_for finds.
Verdict(c) ==
  CASE call[c].at = "sent" /\ Internal ->
         IF call[c].key = signer THEN Decoded(c) ELSE "invalid"
    [] call[c].at = "sent" /\ ~ Internal ->
         LET found == Lookup(cache, call[c].key, now)
         IN IF found = "held" THEN Decoded(c) ELSE found
    [] call[c].at = "landed" ->
         IF call[c].key \in cache.keys THEN Decoded(c) ELSE "invalid"
    [] OTHER -> "none"

\* The request is answered as its token deserves: nothing the answer says
\* changes the token the client caches.  Or the key set is to be fetched.
Arrive(c) ==
  /\ Verdict(c) # "none"
  /\ call' = IF Verdict(c) = "fetch" THEN Moved(c, "missed") ELSE Answered(c)
  /\ UNCHANGED <<now, client, server, cache, orphans, faults, history>>

\* The lookup's lock is released before refresh takes its own.
Refresh(c) ==
  /\ call[c].at = "missed"
  /\ cache' = Attempted(cache, now)
  /\ call' = Moved(c, "fetching")
  /\ lastTry' = [lastTry EXCEPT ![c] = now]
  /\ unsettled' = TRUE
  /\ UNCHANGED <<now, client, server, orphans, faults, withdrawnAt, publishedAt>>

\* The set as published when the server answers; or no answer, and the
\* request that fetched is told the VTN cannot tell.
Fetch(c) ==
  /\ call[c].at = "fetching"
  /\ call' = IF up THEN [call EXCEPT ![c].at = "fetched", ![c].got = published]
             ELSE Answered(c)
  /\ UNCHANGED <<now, client, server, cache, orphans, faults, history>>

\* The set is replaced, and then read again: by then perhaps another's.
Land(c) ==
  /\ call[c].at = "fetched"
  /\ cache' = Refreshed(cache, call[c].got, now)
  /\ call' = [call EXCEPT ![c].at = "landed", ![c].got = {}]
  /\ unsettled' = FALSE
  /\ UNCHANGED <<now, client, server, orphans, faults, withdrawnAt, publishedAt, lastTry>>

(***************************************************************************)
(* What goes wrong, and what the authorization server does.                *)
(***************************************************************************)
Fault == faults < MaxFaults /\ faults' = faults + 1

\* A timeout or a closed connection drops the exchange at one of its awaits,
\* on both sides; only a verification that has begun goes on.
GiveUp(c) ==
  /\ call[c].at \in {"asking", "verifying", "issued", "sent", "fetching", "fetched"} /\ Fault
  /\ call' = [call EXCEPT ![c] = Idle]
  /\ orphans' = IF call[c].at = "verifying" THEN orphans + 1 ELSE orphans
  /\ UNCHANGED <<now, client, server, cache, history>>

\* The VTN process starts again: what it was handling is gone, and so is a
\* signing key it had made up, and the key set it had fetched.
Restart ==
  /\ Fault
  /\ IF deployment = "generated" THEN signer < MaxKeys /\ signer' = signer + 1
     ELSE UNCHANGED signer
  /\ cache' = EmptyCache
  /\ orphans' = 0
  /\ call' = [c \in Callers |->
       IF call[c].at \in {"idle", "issued"} \/ (~ Internal /\ call[c].at = "asking")
       THEN call[c] ELSE Idle]
  /\ lastTry' = [c \in Callers |-> Never]
  /\ unsettled' = FALSE
  /\ UNCHANGED <<now, deployment, published, up, client, withdrawnAt, publishedAt>>

\* A new key is published and signs from now on.
Rotate ==
  /\ ~ Internal /\ signer < MaxKeys
  /\ signer' = signer + 1
  /\ published' = published \cup {signer + 1}
  /\ publishedAt' = [publishedAt EXCEPT ![signer + 1] = now]
  /\ UNCHANGED <<now, deployment, up, client, cache, call, orphans, faults, withdrawnAt,
                 lastTry, unsettled>>

\* A key that no longer signs is no longer published.
Withdraw(k) ==
  /\ ~ Internal /\ k \in published \ {signer}
  /\ published' = published \ {k}
  /\ withdrawnAt' = [withdrawnAt EXCEPT ![k] = now]
  /\ UNCHANGED <<now, deployment, signer, up, client, cache, call, orphans, faults,
                 publishedAt, lastTry, unsettled>>

Outage ==
  /\ ~ Internal /\ up /\ Fault
  /\ up' = FALSE
  /\ UNCHANGED <<now, deployment, signer, published, client, cache, call, orphans, history>>

Recover ==
  /\ ~ up
  /\ up' = TRUE
  /\ UNCHANGED <<now, deployment, signer, published, client, cache, call, orphans, faults,
                 history>>

\* No exchange outlives its timeout.  Fetches that no longer count against
\* the rate limit are forgotten.
Tick ==
  /\ now < MaxTime
  /\ \A c \in Callers : call[c].at = "idle" \/ now < call[c].since + Patience
  /\ now' = now + 1
  /\ lastTry' = [c \in Callers |-> IF Within(lastTry[c], MinRefresh, now') THEN lastTry[c] ELSE Never]
  /\ UNCHANGED <<client, server, cache, call, orphans, faults, withdrawnAt, publishedAt,
                 unsettled>>

Init ==
  /\ now = 0
  /\ deployment \in Deployments
  /\ signer = 1 /\ published = {1} /\ up = TRUE
  /\ cache = EmptyCache
  /\ token = NoToken
  /\ call = [c \in Callers |-> Idle]
  /\ orphans = 0 /\ faults = 0
  /\ withdrawnAt = [k \in Keys |-> Never]
  /\ publishedAt = [k \in Keys |-> IF k = 1 THEN 0 ELSE Never]
  /\ lastTry = [c \in Callers |-> Never]
  /\ unsettled = FALSE

Next ==
  \/ \E c \in Callers :
       \/ Start(c) \/ MintElsewhere(c) \/ Admit(c) \/ Verified(c) \/ Keep(c)
       \/ Arrive(c) \/ Refresh(c) \/ Fetch(c) \/ Land(c)
       \/ GiveUp(c)
  \/ OrphanEnds \/ Restart \/ Rotate \/ Outage \/ Recover \/ Tick
  \/ \E k \in Keys : Withdraw(k)

Spec == Init /\ [][Next]_vars

(***************************************************************************)
(* Properties.                                                             *)
(***************************************************************************)

\* A token the client chose to present has not expired when it is checked,
\* even on a VTN that allows no leeway, with every exchange as slow as it may
\* be and tasks overwriting each other's tokens: "refreshed early so a
\* request never races the expiry" (client.rs:131).
NoneExpires == \A c \in Callers : Verdict(c) # "expired"

\* However many tokens name unknown keys, and whether or not the
\* authorization server answers, no task makes the VTN ask it twice within
\* min_refresh_interval (D-137): concurrent misses are all there is to add.
FetchesAreSpaced ==
  [][\A c \in Callers : lastTry'[c] # lastTry[c] /\ lastTry'[c] # Never
                          => ~ Within(lastTry[c], MinRefresh, now)]_vars

\* Keys follow the authorization server's rotation.  A withdrawn key is accepted
\* for refresh_after past the last set that had it, and what the fetch of that
\* took; and while a key is published, its tokens are called invalid only shortly
\* after it was first published, as long as the rate limit keeps the VTN from
\* asking.  (Unless a later fetch is unsettled.)
KeysFollowRotation ==
  \A c \in Callers : ~ Internal /\ ~ unsettled =>
    /\ Verdict(c) = "accepted" /\ withdrawnAt[call[c].key] # Never
         => now < withdrawnAt[call[c].key] + Patience + RefreshAfter
    /\ Verdict(c) = "invalid" /\ call[c].key \in published
         => now < publishedAt[call[c].key] + MinRefresh + Patience

=============================================================================

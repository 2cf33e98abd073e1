------------------------------ MODULE KeyCache ------------------------------
(***************************************************************************)
(* The key set a VTN holds of an external authorization server             *)
(* (vtn/auth/jwt.rs), as a value: which keys, when they came back, and     *)
(* when they were last asked for.  The two times are separate on purpose:  *)
(* one bounds how long a withdrawn key is honoured, the other how often    *)
(* the server is asked.                                                    *)
(***************************************************************************)
EXTENDS Naturals

CONSTANTS
  Never,         \* not a time: `None'
  RefreshAfter,  \* JwtConfig.refresh_after
  MinRefresh     \* JwtConfig.min_refresh_interval

ASSUME KeyCacheAssumption ==
  /\ RefreshAfter \in Nat /\ MinRefresh \in Nat
  /\ Never \notin Nat

EmptyCache == [keys |-> {}, fetched |-> Never, attempted |-> Never]

\* Instant::elapsed() < window, for a time that may be unset.
Within(time, window, now) == time # Never /\ now < time + window

\* Slip: the set is never too old to use.
IsFresh_Forever(cache, now) == cache.fetched # Never
IsFresh(cache, now) == Within(cache.fetched, RefreshAfter, now)

\* Slip: only a fetch that succeeded counts against the next.
TooSoon_SinceSuccess(cache, now) == Within(cache.fetched, MinRefresh, now)
TooSoon(cache, now) == Within(cache.attempted, MinRefresh, now)

\* What key_for makes of the cache it reads: the key, a fetch, or a refusal,
\* which is the token's fault only if the set is current.
Lookup(cache, kid, now) ==
  LET held == kid \in cache.keys /\ (IsFresh(cache, now) \/ TooSoon(cache, now))
  IN  CASE held -> "held"
        [] ~ held /\ ~ TooSoon(cache, now) -> "fetch"
        [] ~ held /\ TooSoon(cache, now) /\ IsFresh(cache, now) -> "invalid"
        [] OTHER -> "unavailable"

\* refresh: the attempt is recorded before the request goes out,
Attempted(cache, now) == [cache EXCEPT !.attempted = now]

\* and the set that comes back replaces the one that was held.
Refreshed(cache, keys, now) == [cache EXCEPT !.keys = keys, !.fetched = now]
=============================================================================

------------------------------ MODULE Callbacks ------------------------------
(***************************************************************************)
(* Where a VTN may call, how it proves who answers there, and how a        *)
(* receiver knows that a call is the VTN's: the callback policy            *)
(* (vtn/notify/callback.rs), the webhook transport (vtn/notify/webhook.rs) *)
(* and the receiver's half of it (webhook.rs).                             *)
(*                                                                         *)
(* An address is [ip, parts], four octets or eight segments. A URL is      *)
(* [scheme, host, echo]: its host is [is, at], an address or a name, and   *)
(* echo the values of the echo parameters written in it. HMAC is taken to  *)
(* be perfect: a digest is what it was computed from.                      *)
(***************************************************************************)
EXTENDS Integers, Sequences, FiniteSets

CONSTANT EchoBodyLimit      \* ECHO_BODY_LIMIT

V4(octets) == [ip |-> 4, parts |-> octets]
V6(segments) == [ip |-> 6, parts |-> segments]
PartsOf(n, limit) == {s \in [1 .. n -> Nat] : \A i \in 1 .. n : s[i] < limit}
IsAddress(a) == a.parts \in IF a.ip = 4 THEN PartsOf(4, 256) ELSE PartsOf(8, 65536)

------------------------------------------------------------------------------
\* is_private: what is not reachable from the public internet.
IsPrivateV4(o) ==
    \/ o[1] = 10
    \/ o[1] = 172 /\ o[2] \in 16 .. 31
    \/ o[1] = 192 /\ o[2] = 168
    \/ o[1] = 127
    \/ o[1] = 169 /\ o[2] = 254
    \/ <<o[1], o[2], o[3]>> \in {<<192, 0, 2>>, <<198, 51, 100>>, <<203, 0, 113>>}
    \/ o = <<0, 0, 0, 0>>
    \/ o[1] \in 224 .. 239
    \/ o[1] = 100 /\ o[2] \in 64 .. 127
    \/ o[1] = 192 /\ o[2] = 0 /\ o[3] = 0
    \/ o[1] = 198 /\ o[2] \in 18 .. 19
    \/ o[1] >= 240

\* The IPv4 address in the last two segments of an IPv6 one.
Embedded(s) == <<s[7] \div 256, s[7] % 256, s[8] \div 256, s[8] % 256>>

Zeros(s, n) == \A i \in 1 .. n : s[i] = 0
IsMapped(s) == Zeros(s, 5) /\ s[6] = 65535
IsCompatible(s) == Zeros(s, 6)
IsNat64(s) == s[1] = 100 /\ s[2] = 65435

IsPrivateV6(s) ==
    \/ Zeros(s, 7) /\ s[8] \in {0, 1}
    \/ s[1] >= 65280                        \* multicast, ff00::/8
    \/ s[1] \in 64512 .. 65023              \* unique local, fc00::/7
    \/ s[1] \in 65152 .. 65215              \* link-local, fe80::/10
    \/ s[1] = 8193 /\ s[2] = 3512           \* documentation, 2001:db8::/32
    \/ (IsNat64(s) \/ IsMapped(s) \/ IsCompatible(s)) /\ IsPrivateV4(Embedded(s))

IsPrivate(address) ==
    IF address.ip = 4 THEN IsPrivateV4(address.parts) ELSE IsPrivateV6(address.parts)

------------------------------------------------------------------------------
\* CallbackPolicy: what it demands is its two fields.
Default == [requireHttps |-> TRUE, allowPrivate |-> FALSE]
Permissive == [requireHttps |-> FALSE, allowPrivate |-> TRUE]

IsLocal(host) ==
    \/ host.is = "domain" /\ host.at = "localhost"
    \/ host.is = "address" /\ IsPrivate(host.at)

\* check_literal, without touching DNS: why a URL is refused, or nothing.
CheckLiteral(policy, url) ==
    IF url.scheme = "malformed" THEN {"Malformed"}
    ELSE IF policy.requireHttps /\ url.scheme # "https" THEN {"NotHttps"}
    ELSE IF url.host.is = "none" THEN {"NoHost"}
    ELSE IF ~policy.allowPrivate /\ IsLocal(url.host) THEN {"PrivateAddress"}
    ELSE {}

\* The slip of taking the first of several answers for all of them.
GuardedResolve_TheFirst(policy, answers) ==
    [err |-> IF answers = <<>> THEN {"Unresolvable"}
             ELSE IF ~policy.allowPrivate /\ IsPrivate(answers[1]) THEN {"PrivateAddress"} ELSE {},
     addresses |-> {answers[i] : i \in DOMAIN answers}]

\* GuardedResolver: one private answer poisons the set.
GuardedResolve(policy, answers) ==
    [err |-> IF answers = <<>> THEN {"Unresolvable"}
             ELSE IF ~policy.allowPrivate /\ \E i \in DOMAIN answers : IsPrivate(answers[i])
             THEN {"PrivateAddress"} ELSE {},
     addresses |-> {answers[i] : i \in DOMAIN answers}]

\* What a connection to a URL leads to: an address written in it is not looked up.
Connect(policy, url, dns) ==
    IF url.host.is = "address" THEN [err |-> {}, addresses |-> {url.host.at}]
    ELSE LET found == GuardedResolve(policy, dns[url.host.at])
         IN  IF found.err = {} THEN found ELSE [found EXCEPT !.addresses = {}]

------------------------------------------------------------------------------
\* The challenge, a GET with a random value which the endpoint must return, appended
\* to whatever the URL says already. An endpoint built with echo_challenge of
\* webhook.rs returns the first value it is asked for.
Challenged(url, token) == Append(url.echo, token)
HelperReturns(values) == values[1]

\* What an endpoint says to a challenge: a status, and a body of some size.
EchoError(token, reply) ==
    IF reply.status \notin 200 .. 299 THEN {"Status"}
    ELSE IF reply.size > EchoBodyLimit \/ reply.body # token THEN {"EchoFailed"}
    ELSE {}

------------------------------------------------------------------------------
\* Signatures: the version, the instant and the body are covered.
Version == "v1"

Mac(key, at, body) == [key |-> key, covers |-> <<Version, at, body>>]

\* The headers a signed delivery carries: both, or neither of them.
SignedHeaders(keys, at, body) ==
    {[version |-> Version, digest |-> Mac(key, at, body), at |-> at] : key \in keys}

AbsOf(n) == IF n < 0 THEN -n ELSE n

\* Signature::parse and verify, against the receiver's clock.
VerifyErrors(headers, key, body, now, tolerance) ==
    IF headers.version # Version THEN {"UnknownVersion"}
    ELSE IF headers.digest # Mac(key, headers.at, body) THEN {"Mismatch"}
    ELSE IF AbsOf(now - headers.at) > tolerance THEN {"Stale"}
    ELSE {}
=============================================================================

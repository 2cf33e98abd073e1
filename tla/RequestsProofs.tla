--------------------------- MODULE RequestsProofs ---------------------------
(***************************************************************************)
(* Proofs about Requests, for any documents, tokens, calls, settings and   *)
(* names.                                                                  *)
(*                                                                         *)
(* CallInv: a check that is no longer ahead of the call has been passed,   *)
(* and the settings it was passed under have not changed. So whoever comes *)
(* to a write has passed them all, which makes StoreInv inductive, and     *)
(* whoever comes to the challenge of a callback has had the body read,     *)
(* which PostsStayPublic needs. CourseInv: what there is of an answer - in *)
(* the handler, in the layers, with the client - explains itself and is    *)
(* true of what the call changed and could see.                            *)
(***************************************************************************)
EXTENDS Requests, SequenceTheorems, WellFoundedInduction, TLAPS

\* A set of numbers has a least one.
LEMMA LeastIs ==
  ASSUME NEW S \in SUBSET Nat, S # {}
  PROVE  Min(S) \in S /\ \A n \in S : Min(S) <= n
<1> DEFINE R == OpToRel(<, Nat)
<1>1. \A m, n \in Nat : m < n => <<m, n>> \in R
  BY DEF OpToRel
<1>2. IsWellFoundedOn(R, Nat)
  BY NatLessThanWellFounded, Zenon
<1> HIDE DEF R
<1>3. \E m \in S : \A n \in S : <<n, m>> \notin R
  BY <1>2, WFMin
<1>4. \A m, n \in Nat : <<n, m>> \notin R => m <= n
  BY <1>1
<1>5. \E m \in S : \A n \in S : m <= n
  BY <1>3, <1>4
<1>6. QED
  BY <1>5 DEF Min

-----------------------------------------------------------------------------
(***************************************************************************)
(* What is not private is in none of the reserved blocks, or is missed.    *)
(***************************************************************************)

\* Every reserved block of IPv4 is private, but for what is missed of the first.
LEMMA ReservedOctets ==
  ASSUME NEW o \in PartsOf(4, 256), NEW b \in Reserved4, InBlock(o, b, 8), ~ Missed4(o)
  PROVE  IsPrivateV4(o)
<1>0. o \in [1 .. 4 -> Nat]
  BY DEF PartsOf
<1>1. \A i \in DOMAIN b.at :
        LET free == IF i * 8 <= b.bits THEN 0 ELSE i * 8 - b.bits
        IN  o[i] \div Power[free + 1] = b.at[i] \div Power[free + 1]
  BY DEF InBlock
<1>2. CASE b = Block(<<10>>, 8)
  <2>1. o[1] = 10
    BY <1>0, <1>1, <1>2 DEF Block, Power
  <2>2. QED BY <1>0, <2>1 DEF IsPrivateV4
<1>3. CASE b = Block(<<172, 16>>, 12)
  <2>1. o[1] = 172 /\ o[2] \div 16 = 16 \div 16
    BY <1>0, <1>1, <1>3 DEF Block, Power
  <2>2. o[2] \div 16 = 1
    BY <2>1
  <2>3. QED BY <1>0, <2>1, <2>2 DEF IsPrivateV4
<1>4. CASE b = Block(<<192, 168>>, 16)
  <2>1. o[1] = 192 /\ o[2] = 168
    BY <1>0, <1>1, <1>4 DEF Block, Power
  <2>2. QED BY <1>0, <2>1 DEF IsPrivateV4
<1>5. CASE b = Block(<<127>>, 8)
  <2>1. o[1] = 127
    BY <1>0, <1>1, <1>5 DEF Block, Power
  <2>2. QED BY <1>0, <2>1 DEF IsPrivateV4
<1>6. CASE b = Block(<<169, 254>>, 16)
  <2>1. o[1] = 169 /\ o[2] = 254
    BY <1>0, <1>1, <1>6 DEF Block, Power
  <2>2. QED BY <1>0, <2>1 DEF IsPrivateV4
<1>7. CASE b = Block(<<192, 0, 2>>, 24)
  <2>1. o[1] = 192 /\ o[2] = 0 /\ o[3] = 2
    BY <1>0, <1>1, <1>7 DEF Block, Power
  <2>2. QED BY <1>0, <2>1 DEF IsPrivateV4
<1>8. CASE b = Block(<<198, 51, 100>>, 24)
  <2>1. o[1] = 198 /\ o[2] = 51 /\ o[3] = 100
    BY <1>0, <1>1, <1>8 DEF Block, Power
  <2>2. QED BY <1>0, <2>1 DEF IsPrivateV4
<1>9. CASE b = Block(<<203, 0, 113>>, 24)
  <2>1. o[1] = 203 /\ o[2] = 0 /\ o[3] = 113
    BY <1>0, <1>1, <1>9 DEF Block, Power
  <2>2. QED BY <1>0, <2>1 DEF IsPrivateV4
<1>10. CASE b = ThisNetwork
  <2>1. o = <<0, 0, 0, 0>>
    BY <1>10 DEF Missed4
  <2>2. QED BY <2>1 DEF IsPrivateV4
<1>11. CASE b = Block(<<224>>, 4)
  <2>1. o[1] \div 16 = 224 \div 16
    BY <1>0, <1>1, <1>11 DEF Block, Power
  <2>2. o[1] \div 16 = 14
    BY <2>1
  <2>3. QED BY <1>0, <2>1, <2>2 DEF IsPrivateV4
<1>12. CASE b = Block(<<100, 64>>, 10)
  <2>1. o[1] = 100 /\ o[2] \div 64 = 64 \div 64
    BY <1>0, <1>1, <1>12 DEF Block, Power
  <2>2. o[2] \div 64 = 1
    BY <2>1
  <2>3. QED BY <1>0, <2>1, <2>2 DEF IsPrivateV4
<1>13. CASE b = Block(<<192, 0, 0>>, 24)
  <2>1. o[1] = 192 /\ o[2] = 0 /\ o[3] = 0
    BY <1>0, <1>1, <1>13 DEF Block, Power
  <2>2. QED BY <1>0, <2>1 DEF IsPrivateV4
<1>14. CASE b = Block(<<198, 18>>, 15)
  <2>1. o[1] = 198 /\ o[2] \div 2 = 18 \div 2
    BY <1>0, <1>1, <1>14 DEF Block, Power
  <2>2. o[2] \div 2 = 9
    BY <2>1
  <2>3. QED BY <1>0, <2>1, <2>2 DEF IsPrivateV4
<1>15. CASE b = Block(<<240>>, 4)
  <2>1. o[1] \div 16 = 240 \div 16
    BY <1>0, <1>1, <1>15 DEF Block, Power
  <2>2. o[1] \div 16 = 15
    BY <2>1
  <2>3. QED BY <1>0, <2>1, <2>2 DEF IsPrivateV4
<1>16. QED
  BY <1>2, <1>3, <1>4, <1>5, <1>6, <1>7, <1>8, <1>9, <1>10, <1>11, <1>12, <1>13, <1>14, <1>15
     DEF Reserved4

\* And every one of IPv6 that is not missed.
LEMMA ReservedSegments ==
  ASSUME NEW s \in PartsOf(8, 65536), NEW b \in Reserved6 \ Missed6, InBlock(s, b, 16)
  PROVE  IsPrivateV6(s)
<1>0. s \in [1 .. 8 -> Nat]
  BY DEF PartsOf
<1>1. \A i \in DOMAIN b.at :
        LET free == IF i * 16 <= b.bits THEN 0 ELSE i * 16 - b.bits
        IN  s[i] \div Power[free + 1] = b.at[i] \div Power[free + 1]
  BY DEF InBlock
<1>2. CASE b = Block(<<0, 0, 0, 0, 0, 0, 0, 0>>, 128)
  <2>1. /\ s[1] = 0 /\ s[2] = 0 /\ s[3] = 0 /\ s[4] = 0
       /\ s[5] = 0 /\ s[6] = 0 /\ s[7] = 0 /\ s[8] = 0
    BY <1>0, <1>1, <1>2 DEF Block, Power
  <2>2. QED BY <1>0, <2>1 DEF IsPrivateV6, Zeros
<1>3. CASE b = Block(<<0, 0, 0, 0, 0, 0, 0, 1>>, 128)
  <2>1. /\ s[1] = 0 /\ s[2] = 0 /\ s[3] = 0 /\ s[4] = 0
       /\ s[5] = 0 /\ s[6] = 0 /\ s[7] = 0 /\ s[8] = 1
    BY <1>0, <1>1, <1>3 DEF Block, Power
  <2>2. QED BY <1>0, <2>1 DEF IsPrivateV6, Zeros
<1>4. CASE b = Block(<<64512>>, 7)
  <2>1. s[1] \div 512 = 64512 \div 512
    BY <1>0, <1>1, <1>4 DEF Block, Power
  <2>2. s[1] \div 512 = 126
    BY <2>1
  <2>3. QED BY <1>0, <2>1, <2>2 DEF IsPrivateV6, Zeros
<1>5. CASE b = Block(<<65152>>, 10)
  <2>1. s[1] \div 64 = 65152 \div 64
    BY <1>0, <1>1, <1>5 DEF Block, Power
  <2>2. s[1] \div 64 = 1018
    BY <2>1
  <2>3. QED BY <1>0, <2>1, <2>2 DEF IsPrivateV6, Zeros
<1>6. CASE b = Block(<<8193, 3512>>, 32)
  <2>1. s[1] = 8193 /\ s[2] = 3512
    BY <1>0, <1>1, <1>6 DEF Block, Power
  <2>2. QED BY <1>0, <2>1 DEF IsPrivateV6, Zeros
<1>7. CASE b = Block(<<65280>>, 8)
  <2>1. s[1] \div 256 = 65280 \div 256
    BY <1>0, <1>1, <1>7 DEF Block, Power
  <2>2. s[1] \div 256 = 255
    BY <2>1
  <2>3. QED BY <1>0, <2>1, <2>2 DEF IsPrivateV6, Zeros
<1>8. QED
  BY <1>2, <1>3, <1>4, <1>5, <1>6, <1>7 DEF Reserved6

\* What is inside a reserved block, itself or by the IPv4 address in it, is private or missed.
LEMMA ReservedIsPrivate ==
  ASSUME NEW a, IsAddress(a), Inside(a), ~ Missed(a)
  PROVE  IsPrivate(a)
<1>1. CASE a.ip = 4
  BY <1>1, ReservedOctets DEF IsAddress, Inside, Missed, IsReserved4, IsPrivate
<1>2. CASE a.ip # 4 /\ \E b \in Reserved6 : InBlock(a.parts, b, 16)
  <2>1. \E b \in Reserved6 \ Missed6 : InBlock(a.parts, b, 16)
    BY <1>2 DEF Missed
  <2>2. QED BY <1>2, <2>1, ReservedSegments DEF IsAddress, IsPrivate
<1>3. CASE a.ip # 4 /\ ~\E b \in Reserved6 : InBlock(a.parts, b, 16)
  <2> PICK s : s = a.parts
    OBVIOUS
  <2>1. s \in PartsOf(8, 65536)
    BY <1>3 DEF IsAddress
  <2>2. /\ SubSeq(s, 1, 6) \in Wrappers /\ IsReserved4(Embedded(s))
        /\ Missed4(Embedded(s)) => Zeros(s, 7) /\ s[8] = 1
    BY <1>3 DEF Inside, Missed, IsWrapped
  <2>3. Embedded(s) \in PartsOf(4, 256)
    <3>1. s[7] \in Nat /\ s[8] \in Nat /\ s[7] < 65536 /\ s[8] < 65536
      BY <2>1 DEF PartsOf
    <3>2. \A n \in Nat : n < 65536 => n \div 256 \in Nat /\ n \div 256 < 256
                                      /\ n % 256 \in Nat /\ n % 256 < 256
      OBVIOUS
    <3>3. \A i \in 1 .. 4 : Embedded(s)[i] \in Nat /\ Embedded(s)[i] < 256
      BY <3>1, <3>2 DEF Embedded
    <3>4. QED BY <3>3 DEF PartsOf, Embedded
  <2> SUFFICES ASSUME ~ Missed4(Embedded(s)) PROVE IsPrivateV6(s)
    BY <1>3, <2>2 DEF IsPrivate, IsPrivateV6
  <2>4. IsPrivateV4(Embedded(s))
    BY <2>2, <2>3, ReservedOctets DEF IsReserved4
  <2> DEFINE t == SubSeq(s, 1, 6)
  <2>5. /\ t[1] = s[1] /\ t[2] = s[2] /\ t[3] = s[3]
        /\ t[4] = s[4] /\ t[5] = s[5] /\ t[6] = s[6]
    <3>1. \A i \in 1 .. 6 : s[i] \in Nat
      BY <2>1 DEF PartsOf
    <3>2. \A i \in 1 .. 6 - 1 + 1 : t[i] = s[1 + i - 1]
      BY <3>1, SubSeqProperties
    <3> HIDE DEF t
    <3>3. \A i \in 1 .. 6 : t[i] = s[i]
      BY <3>2
    <3>4. QED BY <3>3
  <2> HIDE DEF t
  <2>6. IsNat64(s) \/ IsMapped(s) \/ IsCompatible(s)
    <3>1. CASE t = <<100, 65435, 0, 0, 0, 0>>
      BY <2>5, <3>1 DEF IsNat64
    <3>2. CASE t = <<0, 0, 0, 0, 0, 65535>>
      BY <2>5, <3>2 DEF IsMapped, Zeros
    <3>3. CASE t = <<0, 0, 0, 0, 0, 0>>
      BY <2>5, <3>3 DEF IsCompatible, Zeros
    <3>4. QED BY <2>2, <3>1, <3>2, <3>3 DEF Wrappers, t
  <2>7. QED
    BY <2>4, <2>6 DEF IsPrivateV6
<1>4. QED BY <1>1, <1>2, <1>3

\* The settings never change, and so a check that refuses nothing goes on to.
LEMMA RefusalsStay ==
  ASSUME UNCHANGED config, NEW gate, NEW c
  PROVE  Refusals(gate, c)' = Refusals(gate, c)
<1>1. Unauthenticated(c)' = Unauthenticated(c)
  BY DEF Unauthenticated
<1>2. Unread(c)' = Unread(c)
  BY DEF Unread, MayRead
<1>3. CheckPayloads(c)' = CheckPayloads(c)
  BY DEF CheckPayloads
<1>4. CheckOperations(c)' = CheckOperations(c)
  BY DEF CheckOperations
<1>5. Unchecked(c)' = Unchecked(c)
  BY <1>3, <1>4 DEF Unchecked
<1>6. Undeliverable(c)' = Undeliverable(c)
  BY DEF Undeliverable
<1>7. NotGranted(c)' = NotGranted(c)
  BY DEF NotGranted
<1>8. QED
  BY <1>1, <1>2, <1>5, <1>6, <1>7 DEF Refusals

-----------------------------------------------------------------------------
(***************************************************************************)
(* What each call has to pass.                                             *)
(***************************************************************************)
Gates ==
  {"length", "route", "method", "authenticated", "media", "read", "bytes", "scope", "reader",
   "id", "query", "body", "checked", "vens", "identified", "deliverable", "granted", "owned",
   "challenged"} \cup Effects

\* Nothing comes after an effect, and nothing that looks at the body after the challenge of
\* the callbacks in it.
Ordered(s) ==
  /\ s \in Seq(Gates)
  /\ \A i \in DOMAIN s : s[i] \in Effects => i = Len(s)
  /\ \A i, j \in DOMAIN s : s[i] = "challenged" /\ i < j => s[j] \notin {"body", "checked"}
Lists(s, checks) == Ordered(s) /\ ToSet(s) = checks
EndsInEffect(s) == s # <<>> /\ s[Len(s)] \in Effects

\* One list of checks after another.
LEMMA Joined ==
  ASSUME NEW s, NEW t, NEW A, NEW B, Lists(s, A), Lists(t, B), A \cap Effects = {},
         "challenged" \in A => B \cap {"body", "checked"} = {}
  PROVE  /\ Lists(s \o t, A \cup B)
         /\ EndsInEffect(t) => EndsInEffect(s \o t)
<1> USE DEF Lists
<1> PICK r : r = s \o t
  OBVIOUS
<1>1. /\ s \in Seq(Gates) /\ t \in Seq(Gates) /\ r \in Seq(Gates)
      /\ Len(s) \in Nat /\ Len(t) \in Nat /\ Len(r) = Len(s) + Len(t)
      /\ DOMAIN s = 1 .. Len(s) /\ DOMAIN t = 1 .. Len(t) /\ DOMAIN r = 1 .. Len(r)
  BY ConcatProperties, LenProperties DEF Ordered
<1>2. \A i \in 1 .. Len(s) + Len(t) : r[i] = IF i <= Len(s) THEN s[i] ELSE t[i - Len(s)]
  BY <1>1, ConcatProperties
<1>3. /\ \A i \in DOMAIN s : i \in DOMAIN r /\ r[i] = s[i]
      /\ \A j \in DOMAIN t : j + Len(s) \in DOMAIN r /\ r[j + Len(s)] = t[j]
      /\ \A k \in DOMAIN r : k \notin DOMAIN s => k - Len(s) \in DOMAIN t /\ r[k] = t[k - Len(s)]
  BY <1>1, <1>2
<1>4. ToSet(r) = ToSet(s) \cup ToSet(t)
  <2>1. \A x : x \in ToSet(r) => x \in ToSet(s) \cup ToSet(t)
    BY <1>3 DEF ToSet
  <2>2. ASSUME NEW i \in DOMAIN s PROVE s[i] \in ToSet(r)
    BY <1>3 DEF ToSet
  <2>3. ASSUME NEW j \in DOMAIN t PROVE t[j] \in ToSet(r)
    <3>1. j + Len(s) \in DOMAIN r /\ r[j + Len(s)] = t[j]
      BY <1>3
    <3>2. QED BY <3>1 DEF ToSet
  <2>4. \A x : x \in ToSet(s) \cup ToSet(t) => x \in ToSet(r)
    BY <2>2, <2>3 DEF ToSet
  <2>5. QED BY <2>1, <2>4
<1>5. /\ \A i \in DOMAIN s : s[i] \in ToSet(s)
      /\ \A j \in DOMAIN t : t[j] \in ToSet(t)
  BY DEF ToSet
<1>6. \A i \in DOMAIN r : r[i] \in Effects => i = Len(r)
  <2> SUFFICES ASSUME NEW i \in DOMAIN r, r[i] \in Effects PROVE i = Len(r)
    OBVIOUS
  <2>1. i \notin DOMAIN s
    BY <1>3, <1>5
  <2>2. i - Len(s) = Len(t)
    BY <1>3, <2>1 DEF Ordered
  <2>3. QED BY <1>1, <2>2
<1>7. \A i, j \in DOMAIN r : r[i] = "challenged" /\ i < j => r[j] \notin {"body", "checked"}
  <2> SUFFICES ASSUME NEW i \in DOMAIN r, NEW j \in DOMAIN r, r[i] = "challenged", i < j
               PROVE  r[j] \notin {"body", "checked"}
    OBVIOUS
  <2>1. CASE j \in DOMAIN s
    <3>1. i \in DOMAIN s
      BY <1>1, <2>1
    <3>2. QED BY <1>3, <2>1, <3>1 DEF Ordered
  <2>2. CASE j \notin DOMAIN s /\ i \in DOMAIN s
    BY <1>3, <1>5, <2>2
  <2>3. CASE j \notin DOMAIN s /\ i \notin DOMAIN s
    <3>1. /\ i - Len(s) \in DOMAIN t /\ t[i - Len(s)] = "challenged"
          /\ j - Len(s) \in DOMAIN t /\ t[j - Len(s)] = r[j] /\ i - Len(s) < j - Len(s)
      BY <1>1, <1>3, <2>3
    <3>2. QED BY <3>1 DEF Ordered
  <2>4. QED BY <2>1, <2>2, <2>3
<1>8. ASSUME EndsInEffect(t) PROVE EndsInEffect(r)
  <2>1. Len(t) \in DOMAIN t /\ t[Len(t)] \in Effects
    BY <1>1, <1>8 DEF EndsInEffect
  <2>2. r[Len(r)] \in Effects /\ Len(r) # 0
    BY <1>1, <1>3, <2>1
  <2>3. QED BY <1>1, <2>2 DEF EndsInEffect
<1>9. Ordered(r)
  BY <1>1, <1>6, <1>7 DEF Ordered
<1>10. QED BY <1>4, <1>8, <1>9

\* Who may come to what, and past which checks.
Guarded(c, checks) ==
  /\ "create" \in checks => /\ c.method = "POST" /\ c.kind \in Kinds
                            /\ {"body", "checked"} \subseteq checks
                            /\ c.kind = "subscription" => "challenged" \in checks
  /\ "update" \in checks => /\ c.method = "PUT" /\ c.kind \in Kinds
                            /\ {"body", "checked"} \subseteq checks
                            /\ c.kind = "subscription" => "challenged" \in checks
  /\ "delete" \in checks => c.method = "DELETE" /\ c.kind \in Kinds
  /\ "fetch" \in checks => c.method \in {"GET", "LIST"} /\ c.kind \in Kinds
  /\ {"grant", "granted"} \cap checks # {} => c.kind = "token"
  /\ "healthy" \in checks => c.kind = "health"
  /\ "challenged" \in checks => "body" \in checks
  /\ "owned" \in checks => c.method \in Writes
Reaches(c, s, checks) == Lists(s, checks) /\ Guarded(c, checks) /\ EndsInEffect(s)

\* What the handlers of the objects begin and end with.
LEMMA HandlerParts ==
  /\ Lists(Extractors, {"authenticated", "media", "read"})
  /\ Lists(<<"authenticated">>, {"authenticated"})
  /\ Lists(<<"create">>, {"create"}) /\ EndsInEffect(<<"create">>)
  /\ Lists(<<"update">>, {"update"}) /\ EndsInEffect(<<"update">>)
  /\ Lists(<<"delete">>, {"delete"}) /\ EndsInEffect(<<"delete">>)
BY DEF Lists, Ordered, ToSet, Gates, Effects, Extractors, EndsInEffect

\* What the reads, the token endpoint and health have to pass.
LEMMA Lookups ==
  /\ Lists(<<"healthy">>, {"healthy"}) /\ EndsInEffect(<<"healthy">>)
  /\ Lists(<<"bytes", "granted", "grant">>, {"bytes", "granted", "grant"})
  /\ EndsInEffect(<<"bytes", "granted", "grant">>)
  /\ Lists(<<"authenticated", "reader", "id", "fetch">>, {"authenticated", "reader", "id", "fetch"})
  /\ EndsInEffect(<<"authenticated", "reader", "id", "fetch">>)
  /\ Lists(<<"authenticated", "reader", "query", "fetch">>,
           {"authenticated", "reader", "query", "fetch"})
  /\ EndsInEffect(<<"authenticated", "reader", "query", "fetch">>)
BY DEF Lists, Ordered, ToSet, Gates, Effects, EndsInEffect

\* What a POST has to pass.
LEMMA Creations ==
  ASSUME NEW c, c.method = "POST", c.kind \in Kinds
  PROVE  \E checks : Reaches(c, Extractors \o CreateOf(c.kind) \o <<"create">>, checks)
<1>1. CASE c.kind \in {"program", "event"}
  <2>1. Lists(CreateOf(c.kind), {"scope", "body", "checked"})
    <3>1. CreateOf(c.kind) = <<"scope", "body", "checked">>
      BY <1>1 DEF CreateOf
    <3>2. Lists(<<"scope", "body", "checked">>, {"scope", "body", "checked"})
      BY DEF Lists, Ordered, ToSet, Gates, Effects
    <3>3. QED BY <3>1, <3>2
  <2> DEFINE A == {"authenticated", "media", "read"}
              B == {"scope", "body", "checked"}
  <2>2. Lists(Extractors \o CreateOf(c.kind), A \cup B)
    BY <2>1, HandlerParts, Joined, A \cap Effects = {} DEF Effects
  <2>3. (A \cup B) \cap Effects = {}
    BY DEF Effects
  <2>4. Reaches(c, Extractors \o CreateOf(c.kind) \o <<"create">>, A \cup B \cup {"create"})
    <3>1. Guarded(c, A \cup B \cup {"create"})
      BY <1>1 DEF Guarded, Writes
    <3> HIDE DEF A, B
    <3>2. QED BY <2>2, <2>3, <3>1, HandlerParts, Joined DEF Reaches
  <2>5. QED BY <2>4
<1>2. CASE c.kind = "report"
  <2>1. Lists(CreateOf(c.kind), {"scope", "vens", "body", "checked", "identified"})
    BY <1>2 DEF Lists, Ordered, ToSet, Gates, Effects, CreateOf
  <2> DEFINE A == {"authenticated", "media", "read"}
              B == {"scope", "vens", "body", "checked", "identified"}
  <2>2. Lists(Extractors \o CreateOf(c.kind), A \cup B)
    BY <2>1, HandlerParts, Joined, A \cap Effects = {} DEF Effects
  <2>3. (A \cup B) \cap Effects = {}
    BY DEF Effects
  <2>4. Reaches(c, Extractors \o CreateOf(c.kind) \o <<"create">>, A \cup B \cup {"create"})
    <3>1. Guarded(c, A \cup B \cup {"create"})
      BY <1>2 DEF Guarded, Writes
    <3> HIDE DEF A, B
    <3>2. QED BY <2>2, <2>3, <3>1, HandlerParts, Joined DEF Reaches
  <2>5. QED BY <2>4
<1>3. CASE c.kind = "subscription"
  <2>1. Lists(CreateOf(c.kind),
              {"scope", "deliverable", "body", "checked", "challenged", "identified"})
    BY <1>3 DEF Lists, Ordered, ToSet, Gates, Effects, CreateOf
  <2> DEFINE A == {"authenticated", "media", "read"}
              B == {"scope", "deliverable", "body", "checked", "challenged", "identified"}
  <2>2. Lists(Extractors \o CreateOf(c.kind), A \cup B)
    BY <2>1, HandlerParts, Joined, A \cap Effects = {} DEF Effects
  <2>3. (A \cup B) \cap Effects = {}
    BY DEF Effects
  <2>4. Reaches(c, Extractors \o CreateOf(c.kind) \o <<"create">>, A \cup B \cup {"create"})
    <3>1. Guarded(c, A \cup B \cup {"create"})
      BY <1>3 DEF Guarded, Writes
    <3> HIDE DEF A, B
    <3>2. QED BY <2>2, <2>3, <3>1, HandlerParts, Joined DEF Reaches
  <2>5. QED BY <2>4
<1>4. QED BY <1>1, <1>2, <1>3 DEF Kinds, RefersTo

\* What a PUT has to pass.
LEMMA Updates ==
  ASSUME NEW c, c.method = "PUT", c.kind \in Kinds
  PROVE  \E checks : Reaches(c, Extractors \o UpdateOf(c.kind) \o <<"update">>, checks)
<1>1. CASE c.kind \in {"program", "event"}
  <2>1. Lists(UpdateOf(c.kind), {"scope", "id", "body", "checked"})
    <3>1. UpdateOf(c.kind) = <<"scope", "id", "body", "checked">>
      BY <1>1 DEF UpdateOf
    <3>2. Lists(<<"scope", "id", "body", "checked">>, {"scope", "id", "body", "checked"})
      BY DEF Lists, Ordered, ToSet, Gates, Effects
    <3>3. QED BY <3>1, <3>2
  <2> DEFINE A == {"authenticated", "media", "read"}
              B == {"scope", "id", "body", "checked"}
  <2>2. Lists(Extractors \o UpdateOf(c.kind), A \cup B)
    BY <2>1, HandlerParts, Joined, A \cap Effects = {} DEF Effects
  <2>3. (A \cup B) \cap Effects = {}
    BY DEF Effects
  <2>4. Reaches(c, Extractors \o UpdateOf(c.kind) \o <<"update">>, A \cup B \cup {"update"})
    <3>1. Guarded(c, A \cup B \cup {"update"})
      BY <1>1 DEF Guarded, Writes
    <3> HIDE DEF A, B
    <3>2. QED BY <2>2, <2>3, <3>1, HandlerParts, Joined DEF Reaches
  <2>5. QED BY <2>4
<1>2. CASE c.kind = "report"
  <2>1. Lists(UpdateOf(c.kind), {"scope", "id", "owned", "vens", "body", "checked"})
    BY <1>2 DEF Lists, Ordered, ToSet, Gates, Effects, UpdateOf
  <2> DEFINE A == {"authenticated", "media", "read"}
              B == {"scope", "id", "owned", "vens", "body", "checked"}
  <2>2. Lists(Extractors \o UpdateOf(c.kind), A \cup B)
    BY <2>1, HandlerParts, Joined, A \cap Effects = {} DEF Effects
  <2>3. (A \cup B) \cap Effects = {}
    BY DEF Effects
  <2>4. Reaches(c, Extractors \o UpdateOf(c.kind) \o <<"update">>, A \cup B \cup {"update"})
    <3>1. Guarded(c, A \cup B \cup {"update"})
      BY <1>2 DEF Guarded, Writes
    <3> HIDE DEF A, B
    <3>2. QED BY <2>2, <2>3, <3>1, HandlerParts, Joined DEF Reaches
  <2>5. QED BY <2>4
<1>3. CASE c.kind = "subscription"
  <2>1. Lists(UpdateOf(c.kind),
              {"scope", "id", "owned", "deliverable", "body", "checked", "challenged"})
    BY <1>3 DEF Lists, Ordered, ToSet, Gates, Effects, UpdateOf
  <2> DEFINE A == {"authenticated", "media", "read"}
              B == {"scope", "id", "owned", "deliverable", "body", "checked", "challenged"}
  <2>2. Lists(Extractors \o UpdateOf(c.kind), A \cup B)
    BY <2>1, HandlerParts, Joined, A \cap Effects = {} DEF Effects
  <2>3. (A \cup B) \cap Effects = {}
    BY DEF Effects
  <2>4. Reaches(c, Extractors \o UpdateOf(c.kind) \o <<"update">>, A \cup B \cup {"update"})
    <3>1. Guarded(c, A \cup B \cup {"update"})
      BY <1>3 DEF Guarded, Writes
    <3> HIDE DEF A, B
    <3>2. QED BY <2>2, <2>3, <3>1, HandlerParts, Joined DEF Reaches
  <2>5. QED BY <2>4
<1>4. QED BY <1>1, <1>2, <1>3 DEF Kinds, RefersTo

\* What a DELETE has to pass.
LEMMA Deletions ==
  ASSUME NEW c, c.method = "DELETE", c.kind \in Kinds
  PROVE  \E checks : Reaches(c, <<"authenticated">> \o DeleteOf(c.kind) \o <<"delete">>, checks)
<1>1. /\ Lists(<<"scope", "id">>, {"scope", "id"}) /\ Lists(<<"owned">>, {"owned"})
      /\ Lists(<<>>, {})
  BY DEF Lists, Ordered, ToSet, Gates, Effects
<1>2. /\ {"scope", "id"} \cap Effects = {} /\ {"authenticated"} \cap Effects = {}
      /\ {"authenticated", "scope", "id", "owned"} \cap Effects = {}
  BY DEF Effects
<1>3. PICK end : end = IF c.kind \in Owned THEN <<"owned">> ELSE <<>>
  OBVIOUS
<1>4. PICK B : Lists(end, B) /\ B \subseteq {"owned"}
  BY <1>1, <1>3
<1>5. Lists(DeleteOf(c.kind), {"scope", "id"} \cup B)
  BY <1>1, <1>2, <1>3, <1>4, Joined DEF DeleteOf
<1>6. PICK A : Lists(<<"authenticated">> \o DeleteOf(c.kind), A)
                 /\ A \subseteq {"authenticated", "scope", "id", "owned"}
  <2>1. Lists(<<"authenticated">> \o DeleteOf(c.kind),
              {"authenticated"} \cup ({"scope", "id"} \cup B))
    BY <1>2, <1>5, HandlerParts, Joined
  <2>2. QED BY <1>4, <2>1
<1>7. A \cap Effects = {} /\ "challenged" \notin A
  BY <1>2, <1>6
<1>8. /\ Lists(<<"authenticated">> \o DeleteOf(c.kind) \o <<"delete">>, A \cup {"delete"})
      /\ EndsInEffect(<<"authenticated">> \o DeleteOf(c.kind) \o <<"delete">>)
  BY <1>6, <1>7, HandlerParts, Joined
<1>9. Guarded(c, A \cup {"delete"})
  BY <1>6 DEF Guarded, Writes
<1>10. QED BY <1>8, <1>9 DEF Reaches

\* Every call either comes to what it asks for, past its checks, or is refused on the way.
LEMMA Paths ==
  ASSUME NEW c \in Calls
  PROVE  \E checks :
           /\ Lists(Path(c), {"length", "route", "method"} \cup checks)
           /\ Guarded(c, {"length", "route", "method"} \cup checks)
           /\ EndsInEffect(Path(c)) \/ c.kind = "nowhere" \/ c.method = "PATCH"
<1>1. \/ \E checks : Reaches(c, Handler(c), checks)
      \/ Handler(c) = <<>> /\ (c.kind = "nowhere" \/ c.method = "PATCH")
  <2>1. CASE c.kind = "token"
    <3>1. Guarded(c, {"bytes", "granted", "grant"})
      BY <2>1 DEF Guarded
    <3>2. Handler(c) = <<"bytes", "granted", "grant">>
      BY <2>1 DEF Handler
    <3>3. QED BY <3>1, <3>2, Lookups DEF Reaches
  <2>2. CASE c.kind = "health"
    <3>1. Guarded(c, {"healthy"})
      BY <2>2 DEF Guarded
    <3>2. Handler(c) = <<"healthy">>
      BY <2>2 DEF Handler
    <3>3. QED BY <3>1, <3>2, Lookups DEF Reaches
  <2>3. CASE c.kind = "nowhere"
    <3>1. Handler(c) = <<>>
      BY <2>3 DEF Handler
    <3>2. QED BY <2>3, <3>1
  <2>4. CASE c.kind \in Kinds
    <3>0. c.kind # "token" /\ c.kind # "health" /\ c.kind # "nowhere"
      BY <2>4 DEF Kinds, RefersTo
    <3>1. CASE c.method = "GET"
      <4>1. Guarded(c, {"authenticated", "reader", "id", "fetch"})
        BY <2>4, <3>1 DEF Guarded
      <4>2. QED BY <3>0, <3>1, <4>1, Lookups DEF Handler, ByMethod, Reaches
    <3>2. CASE c.method = "LIST"
      <4>1. Guarded(c, {"authenticated", "reader", "query", "fetch"})
        BY <2>4, <3>2 DEF Guarded
      <4>2. QED BY <3>0, <3>2, <4>1, Lookups DEF Handler, ByMethod, Reaches
    <3>3. CASE c.method = "POST"
      <4>1. Handler(c) = Extractors \o CreateOf(c.kind) \o <<"create">>
        BY <3>0, <3>3 DEF Handler, ByMethod
      <4>2. QED BY <2>4, <3>3, <4>1, Creations
    <3>4. CASE c.method = "PUT"
      <4>1. Handler(c) = Extractors \o UpdateOf(c.kind) \o <<"update">>
        BY <3>0, <3>4 DEF Handler, ByMethod
      <4>2. QED BY <2>4, <3>4, <4>1, Updates
    <3>5. CASE c.method = "DELETE"
      <4>1. Handler(c) = <<"authenticated">> \o DeleteOf(c.kind) \o <<"delete">>
        BY <3>0, <3>5 DEF Handler, ByMethod
      <4>2. QED BY <2>4, <3>5, <4>1, Deletions
    <3>6. CASE c.method = "PATCH"
      BY <3>0, <3>6 DEF Handler, ByMethod
    <3>7. c.method \in Methods
      BY CallsAssumption
    <3>8. QED
      BY <3>1, <3>2, <3>3, <3>4, <3>5, <3>6, <3>7 DEF Methods
  <2>5. QED BY <2>1, <2>2, <2>3, <2>4, CallsAssumption
<1>2. /\ Lists(Layers, {"length", "route", "method"}) /\ Lists(<<>>, {})
      /\ {"length", "route", "method"} \cap Effects = {}
  BY DEF Lists, Ordered, ToSet, Gates, Effects, Layers
<1>3. ASSUME NEW checks, Reaches(c, Handler(c), checks)
      PROVE  /\ Lists(Path(c), {"length", "route", "method"} \cup checks)
             /\ Guarded(c, {"length", "route", "method"} \cup checks)
             /\ EndsInEffect(Path(c))
  <2>1. Lists(Path(c), {"length", "route", "method"} \cup checks) /\ EndsInEffect(Path(c))
    BY <1>2, <1>3, Joined DEF Reaches, Path
  <2>2. Guarded(c, {"length", "route", "method"} \cup checks)
    BY <1>3 DEF Reaches, Guarded
  <2>3. QED BY <2>1, <2>2
<1>4. ASSUME Handler(c) = <<>>
      PROVE  /\ Lists(Path(c), {"length", "route", "method"} \cup {})
             /\ Guarded(c, {"length", "route", "method"} \cup {})
  <2>1. Lists(Path(c), {"length", "route", "method"} \cup {})
    BY <1>2, <1>4, Joined DEF Path
  <2>2. Guarded(c, {"length", "route", "method"} \cup {})
    BY DEF Guarded
  <2>3. QED BY <2>1, <2>2
<1>5. QED BY <1>1, <1>3, <1>4

\* What is left of a list of checks.
LEMMA Rest ==
  ASSUME NEW s, Ordered(s), NEW k \in 1 .. Len(s)
  PROVE  /\ SubSeq(s, k, Len(s)) # <<>> /\ Ordered(SubSeq(s, k, Len(s)))
         /\ ToSet(SubSeq(s, k, Len(s))) \subseteq ToSet(s)
         /\ Head(SubSeq(s, k, Len(s))) = s[k]
         /\ \A x \in ToSet(s) \ ToSet(SubSeq(s, k, Len(s))) : \E i \in DOMAIN s : i < k /\ x = s[i]
         /\ EndsInEffect(s) => EndsInEffect(SubSeq(s, k, Len(s)))
<1> PICK r : r = SubSeq(s, k, Len(s))
  OBVIOUS
<1>1. /\ s \in Seq(Gates) /\ Len(s) \in Nat /\ DOMAIN s = 1 .. Len(s)
      /\ \A i \in DOMAIN s : s[i] \in Gates
  BY LenProperties, ElementOfSeq DEF Ordered
<1>2. /\ r \in Seq(Gates) /\ Len(r) = Len(s) - k + 1 /\ DOMAIN r = 1 .. Len(r)
      /\ \A i \in 1 .. Len(s) - k + 1 : r[i] = s[k + i - 1]
  <2>1. \A i \in k .. Len(s) : s[i] \in Gates
    BY <1>1
  <2>2. /\ r \in Seq(Gates) /\ Len(r) = IF k <= Len(s) THEN Len(s) - k + 1 ELSE 0
        /\ \A i \in 1 .. Len(s) - k + 1 : r[i] = s[k + i - 1]
    BY <1>1, <2>1, SubSeqProperties
  <2>3. QED BY <1>1, <2>2, LenProperties
<1>3. /\ \A i \in DOMAIN r : k + i - 1 \in DOMAIN s /\ r[i] = s[k + i - 1]
      /\ \A i \in DOMAIN s : i >= k => i - k + 1 \in DOMAIN r /\ r[i - k + 1] = s[i]
  <2>1. ASSUME NEW i \in DOMAIN r PROVE k + i - 1 \in DOMAIN s /\ r[i] = s[k + i - 1]
    BY <1>1, <1>2
  <2>2. ASSUME NEW i \in DOMAIN s, i >= k PROVE i - k + 1 \in DOMAIN r /\ r[i - k + 1] = s[i]
    <3>1. i - k + 1 \in 1 .. Len(s) - k + 1 /\ k + (i - k + 1) - 1 = i
      BY <1>1, <2>2
    <3>2. QED BY <1>2, <3>1
  <2>3. QED BY <2>1, <2>2
<1>4. r # <<>> /\ Head(r) = s[k]
  <2>1. 1 \in DOMAIN r /\ r[1] = s[k]
    BY <1>1, <1>2
  <2>2. r # <<>>
    <3>1. Len(r) # 0
      BY <1>1, <1>2
    <3>2. QED BY <3>1
  <2>3. Head(r) = r[1]
    BY <1>2, <2>2
  <2>4. QED BY <2>1, <2>2, <2>3
<1>5. \A i \in DOMAIN r : r[i] \in Effects => i = Len(r)
  <2> SUFFICES ASSUME NEW i \in DOMAIN r, r[i] \in Effects PROVE i = Len(r)
    OBVIOUS
  <2>1. k + i - 1 = Len(s)
    BY <1>3 DEF Ordered
  <2>2. QED BY <1>1, <1>2, <2>1
<1>6. \A i, j \in DOMAIN r : r[i] = "challenged" /\ i < j => r[j] \notin {"body", "checked"}
  <2> SUFFICES ASSUME NEW i \in DOMAIN r, NEW j \in DOMAIN r, r[i] = "challenged", i < j
               PROVE  r[j] \notin {"body", "checked"}
    OBVIOUS
  <2>1. /\ k + i - 1 \in DOMAIN s /\ s[k + i - 1] = "challenged"
        /\ k + j - 1 \in DOMAIN s /\ s[k + j - 1] = r[j] /\ k + i - 1 < k + j - 1
    BY <1>1, <1>2, <1>3
  <2>2. QED BY <2>1 DEF Ordered
<1>7. Ordered(r)
  BY <1>2, <1>5, <1>6 DEF Ordered
<1>8. ToSet(r) \subseteq ToSet(s)
  BY <1>3 DEF ToSet
<1>9. \A x \in ToSet(s) \ ToSet(r) : \E i \in DOMAIN s : i < k /\ x = s[i]
  <2> SUFFICES ASSUME NEW x \in ToSet(s) \ ToSet(r) PROVE \E i \in DOMAIN s : i < k /\ x = s[i]
    OBVIOUS
  <2>1. PICK i \in DOMAIN s : x = s[i]
    BY DEF ToSet
  <2>2. i < k
    <3> SUFFICES ASSUME ~ (i < k) PROVE FALSE
      OBVIOUS
    <3>1. i - k + 1 \in DOMAIN r /\ r[i - k + 1] = s[i]
      BY <1>1, <1>3
    <3>2. s[i] \in ToSet(r)
      BY <3>1 DEF ToSet
    <3>3. QED BY <2>1, <3>2
  <2>3. QED BY <2>1, <2>2
<1>10. ASSUME EndsInEffect(s) PROVE EndsInEffect(r)
  <2>1. r[Len(r)] = s[Len(s)]
    BY <1>1, <1>2, <1>3
  <2>2. QED BY <1>4, <1>10, <2>1 DEF EndsInEffect
<1>11. QED BY <1>4, <1>7, <1>8, <1>9, <1>10

\* The first of them done with.
LEMMA Onward ==
  ASSUME NEW s, Ordered(s), s # <<>>, Tail(s) # <<>>
  PROVE  /\ Ordered(Tail(s)) /\ ToSet(Tail(s)) \subseteq ToSet(s)
         /\ \A x \in ToSet(s) \ ToSet(Tail(s)) : x = Head(s)
         /\ EndsInEffect(s) => EndsInEffect(Tail(s))
<1>1. /\ s \in Seq(Gates) /\ Len(s) \in Nat /\ DOMAIN s = 1 .. Len(s)
      /\ Tail(s) = SubSeq(s, 2, Len(s))
      /\ Head(s) = s[1]
  BY LenProperties DEF Ordered
<1>2. 2 \in 1 .. Len(s)
  BY <1>1, HeadTailProperties
<1>3. \A i \in DOMAIN s : i < 2 => i = 1
  BY <1>1
<1>4. PICK t : t = SubSeq(s, 2, Len(s))
  OBVIOUS
<1>5. /\ Ordered(t) /\ ToSet(t) \subseteq ToSet(s)
      /\ \A x \in ToSet(s) \ ToSet(t) : \E i \in DOMAIN s : i < 2 /\ x = s[i]
      /\ EndsInEffect(s) => EndsInEffect(t)
  BY <1>2, <1>4, Rest
<1>6. QED BY <1>1, <1>3, <1>4, <1>5

-----------------------------------------------------------------------------
(***************************************************************************)
(* What a call has passed by now.                                          *)
(***************************************************************************)
CheckedSoFar(c) == \A gate \in ToSet(Path(c)) \ ToSet(gates) :
  /\ gate \notin Waits => Refusals(gate, c) = {}
  /\ gate = "challenged" => ToSet(Urls(Docs[c.doc])) \subseteq proved

Passing(c) ==
  /\ Ordered(gates) /\ ToSet(gates) \subseteq ToSet(Path(c))
  /\ EndsInEffect(gates) \/ c.kind = "nowhere" \/ c.method = "PATCH"
  /\ CheckedSoFar(c)

\* One call at a time, past every check that is no longer ahead of it.
CallInv ==
  /\ config \in Configs
  /\ DOMAIN dns = DOMAIN Names
  /\ \A name \in DOMAIN Names : \E i \in DOMAIN Names[name] : dns[name] = Names[name][i]
  /\ counts \in [calls : Nat, others : Nat]
  /\ proved \subseteq echoed
  /\ call = {} \/ \E c \in Calls : call = {c}
  /\ gates # <<>> => \A c \in call : Passing(c)

\* Nothing is done yet when a call sets out.
LEMMA SettingOut ==
  ASSUME NEW c \in Calls, gates' = Path(c)
  PROVE  Passing(c)'
BY Paths DEF Passing, CheckedSoFar, Lists

\* There is always a check to stop at.
LEMMA SomethingStops ==
  ASSUME NEW c \in Calls, gates # <<>>, Passing(c)
  PROVE  /\ Stops(c) \in SUBSET (1 .. Len(gates)) /\ Stops(c) # {}
         /\ Min(Stops(c)) \in Stops(c)
         /\ \A i \in DOMAIN gates : i < Min(Stops(c)) => i \notin Stops(c)
<1>1. gates \in Seq(Gates) /\ Len(gates) \in Nat /\ DOMAIN gates = 1 .. Len(gates)
  BY LenProperties DEF Passing, Ordered
<1>2. Stops(c) \in SUBSET (1 .. Len(gates))
  BY <1>1 DEF Stops
<1>3. Stops(c) # {}
  <2>1. CASE EndsInEffect(gates)
    <3>1. Len(gates) \in DOMAIN gates /\ gates[Len(gates)] \in Waits
      BY <1>1, <2>1 DEF EndsInEffect, Waits
    <3>2. QED BY <3>1 DEF Stops
  <2>2. ASSUME NEW gate \in {"route", "method"}, Refusals(gate, c) # {}
        PROVE  Stops(c) # {}
    <3>1. gate \in ToSet(Path(c))
      BY Paths DEF Lists
    <3>2. gate \in ToSet(gates)
      BY <2>2, <3>1 DEF Passing, CheckedSoFar, Waits, Effects
    <3>3. PICK i \in DOMAIN gates : gates[i] = gate
      BY <3>2 DEF ToSet
    <3>4. QED BY <2>2, <3>3 DEF Stops
  <2>3. CASE c.kind = "nowhere"
    BY <2>2, <2>3 DEF Refusals, Unrouted, Refuse
  <2>4. CASE c.method = "PATCH"
    BY <2>2, <2>4 DEF Refusals, Undefined
  <2>5. QED BY <2>1, <2>3, <2>4 DEF Passing
<1>4. Stops(c) \in SUBSET Nat
  BY <1>1, <1>2
<1> PICK S : S = Stops(c)
  OBVIOUS
<1>5. Min(S) \in S /\ \A n \in S : Min(S) <= n
  BY <1>3, <1>4, LeastIs
<1>6. \A i \in DOMAIN gates : i < Min(S) => i \notin S
  BY <1>1, <1>4, <1>5
<1>7. QED BY <1>2, <1>3, <1>5, <1>6

\* What a call has passed it need not pass again.
LEMMA StillPassed ==
  ASSUME NEW c, Passing(c), UNCHANGED <<config, gates>>, proved \subseteq proved'
  PROVE  Passing(c)'
<1>1. \A gate : Refusals(gate, c)' = Refusals(gate, c)
  BY RefusalsStay
<1>2. CheckedSoFar(c)'
  BY <1>1 DEF Passing, CheckedSoFar
<1>3. QED BY <1>2 DEF Passing

\* From one check to the next that waits, or past one.
LEMMA CheckPasses ==
  ASSUME NEW c \in Calls, Passing(c), gates # <<>>, UNCHANGED <<config, proved>>,
         NEW stop, stop = Min(Stops(c)), gates' = SubSeq(gates, stop, Len(gates))
  PROVE  Passing(c)'
<1>1. /\ stop \in 1 .. Len(gates)
      /\ \A i \in DOMAIN gates : i < stop => gates[i] \notin Waits /\ Refusals(gates[i], c) = {}
  BY SomethingStops DEF Stops
<1>2. /\ Ordered(gates') /\ ToSet(gates') \subseteq ToSet(gates)
      /\ \A x \in ToSet(gates) \ ToSet(gates') : \E i \in DOMAIN gates : i < stop /\ x = gates[i]
      /\ EndsInEffect(gates) => EndsInEffect(gates')
  BY <1>1, Rest DEF Passing
<1>3. \A gate : Refusals(gate, c)' = Refusals(gate, c)
  BY RefusalsStay
<1>4. CheckedSoFar(c)'
  <2> SUFFICES ASSUME NEW gate \in ToSet(Path(c)) \ ToSet(gates')
               PROVE  /\ gate \notin Waits => Refusals(gate, c) = {}
                      /\ gate = "challenged" => ToSet(Urls(Docs[c.doc])) \subseteq proved
    BY <1>3 DEF CheckedSoFar
  <2>1. CASE gate \in ToSet(gates)
    <3>1. gate \notin Waits /\ Refusals(gate, c) = {}
      BY <1>1, <1>2, <2>1
    <3>2. QED BY <3>1 DEF Waits
  <2>2. CASE gate \notin ToSet(gates)
    BY <2>2 DEF Passing, CheckedSoFar
  <2>3. QED BY <2>1, <2>2
<1>5. QED BY <1>2, <1>4 DEF Passing

\* Past a check that waits.
LEMMA WaitPasses ==
  ASSUME NEW c \in Calls, Passing(c), gates # <<>>, UNCHANGED config, proved' = proved,
         Head(gates) \in Waits,
         Head(gates) = "challenged" => ToSet(Urls(Docs[c.doc])) \subseteq proved,
         gates' = Tail(gates), gates' # <<>>
  PROVE  Passing(c)'
<1>1. /\ Ordered(gates') /\ ToSet(gates') \subseteq ToSet(gates)
      /\ \A x \in ToSet(gates) \ ToSet(gates') : x = Head(gates)
      /\ EndsInEffect(gates) => EndsInEffect(gates')
  BY Onward DEF Passing
<1>2. \A gate : Refusals(gate, c)' = Refusals(gate, c)
  BY RefusalsStay
<1>3. CheckedSoFar(c)'
  <2> SUFFICES ASSUME NEW gate \in ToSet(Path(c)) \ ToSet(gates')
               PROVE  /\ gate \notin Waits => Refusals(gate, c) = {}
                      /\ gate = "challenged" => ToSet(Urls(Docs[c.doc])) \subseteq proved
    BY <1>2 DEF CheckedSoFar
  <2>1. CASE gate \in ToSet(gates)
    BY <1>1, <2>1
  <2>2. CASE gate \notin ToSet(gates)
    BY <2>2 DEF Passing, CheckedSoFar
  <2>3. QED BY <2>1, <2>2
<1>4. QED BY <1>1, <1>3 DEF Passing

\* The challenge of a callback.
LEMMA ChallengePasses ==
  ASSUME CallInv, NEW c \in call, Challenge(c)
  PROVE  proved' \subseteq echoed' /\ (gates' # <<>> => Passing(c)')
<1> DEFINE urls == Urls(Docs[c.doc])
           left == {i \in DOMAIN urls : urls[i] \notin proved}
<1>1. c \in Calls /\ call = {c} /\ Passing(c) /\ gates # <<>> /\ Head(gates) = "challenged"
  BY DEF CallInv, Challenge, Serving, At
<1>2. CASE left = {}
  <2>1. gates' = Tail(gates) /\ UNCHANGED <<proved, echoed, config>>
    BY <1>2 DEF Challenge, server
  <2>2. ToSet(urls) \subseteq proved
    BY <1>2 DEF ToSet
  <2>3. QED BY <1>1, <2>1, <2>2, WaitPasses DEF CallInv, Waits
<1>3. CASE left # {}
  <2>1. \/ gates' = <<>> /\ UNCHANGED <<proved, echoed>>
        \/ /\ gates' = gates
           /\ \E url : proved' = proved \cup {url} /\ echoed' = echoed \cup {url}
    BY <1>3 DEF Challenge, Says
  <2>2. config' = config
    BY DEF Challenge, server
  <2>3. QED BY <1>1, <2>1, <2>2, StillPassed DEF CallInv
<1>4. QED BY <1>2, <1>3

\* Nobody's call, or this one's, as it is.
LEMMA CallInvNext == CallInv /\ [Next]_vars => CallInv'
<1> SUFFICES ASSUME CallInv, [Next]_vars PROVE CallInv'
  OBVIOUS
<1> USE DEF CallInv
<1>1. ASSUME NEW c \in Calls, Send(c) PROVE CallInv'
  <2>1. Passing(c)'
    BY <1>1, SettingOut DEF Send
  <2>2. QED BY <1>1, <2>1 DEF Send, server
<1>2. ASSUME NEW c \in call, Check(c) PROVE CallInv'
  <2>1. c \in Calls /\ call = {c} /\ gates # <<>> /\ Passing(c)
    BY <1>2 DEF Check
  <2>2. gates' = <<>> \/ gates' = SubSeq(gates, Min(Stops(c)), Len(gates))
    BY <1>2 DEF Check, Says
  <2>3. gates' # <<>> => Passing(c)'
    BY <1>2, <2>1, <2>2, CheckPasses DEF Check, server
  <2>4. QED BY <1>2, <2>1, <2>3 DEF Check, server, client, history
<1>3. ASSUME NEW c \in call, Own(c) PROVE CallInv'
  <2>1. c \in Calls /\ call = {c} /\ gates # <<>> /\ Passing(c) /\ Head(gates) = "owned"
    BY <1>3 DEF Own, At
  <2>2. gates' = <<>> \/ gates' = Tail(gates)
    BY <1>3 DEF Own, Says
  <2>3. gates' # <<>> => Passing(c)'
    BY <1>3, <2>1, <2>2, WaitPasses DEF Own, server, Waits
  <2>4. QED BY <1>3, <2>1, <2>3 DEF Own, server, client, history
<1>4. ASSUME NEW c \in call, Challenge(c) PROVE CallInv'
  <2>1. proved' \subseteq echoed' /\ (gates' # <<>> => Passing(c)')
    BY <1>4, ChallengePasses
  <2>2. call = {c} /\ UNCHANGED <<config, dns, call, counts>>
    BY <1>4 DEF Challenge, server, client
  <2>3. QED BY <2>1, <2>2
<1>5. ASSUME NEW c \in call, Create(c) \/ Update(c) \/ Delete(c) PROVE CallInv'
  <2>1. gates' = <<>> /\ UNCHANGED <<config, dns, call, proved, echoed, counts>>
    BY <1>5 DEF Create, Update, Delete, Commits, Says, client
  <2>2. QED BY <2>1
<1>6. ASSUME NEW c \in call, Fetch(c) \/ Grant(c) \/ Healthy(c) PROVE CallInv'
  <2>1. gates' = <<>> /\ UNCHANGED <<config, dns, call, proved, echoed, counts>>
    BY <1>6 DEF Fetch, Grant, Healthy, Says, client, server, history
  <2>2. QED BY <2>1
<1>7. CASE TimeOut \/ Lose \/ Finish
  <2>1. /\ gates' = <<>> /\ UNCHANGED <<config, dns, echoed, counts>>
        /\ proved' \in {proved, {}} /\ call' \in {call, {}}
    BY <1>7 DEF TimeOut, Lose, Finish, client, server, history, None
  <2>2. QED BY <2>1
<1>8. CASE Respond \/ Receive
  <2>1. UNCHANGED <<config, dns, call, gates, proved, echoed, counts>>
    BY <1>8 DEF Respond, Receive, client, server, progress, history
  <2>2. QED BY <2>1, StillPassed
<1>9. ASSUME NEW id \in DOMAIN objects, NEW doc, Touch(id, doc) PROVE CallInv'
  <2>1. /\ UNCHANGED <<config, dns, call, gates, proved, echoed>>
        /\ counts' = [counts EXCEPT !.others = @ + 1]
    BY <1>9 DEF Touch, client, progress
  <2>2. QED BY <2>1, StillPassed
<1>10. ASSUME NEW name \in DOMAIN Names, NEW answers \in ToSet(Names[name]), Rebind(name, answers)
       PROVE  CallInv'
  <2>1. /\ UNCHANGED <<config, call, gates, proved, echoed>>
        /\ counts' = [counts EXCEPT !.others = @ + 1]
        /\ dns' = [dns EXCEPT ![name] = answers]
    BY <1>10 DEF Rebind, client, progress, history
  <2>2. \E i \in DOMAIN Names[name] : answers = Names[name][i]
    BY DEF ToSet
  <2>3. QED BY <2>1, <2>2, StillPassed
<1>11. CASE Posts
  <2>1. /\ UNCHANGED <<config, dns, call, gates, proved, echoed>>
        /\ counts' = [counts EXCEPT !.others = @ + 1]
    BY <1>11 DEF Posts, Post, client, progress, server
  <2>2. QED BY <2>1, StillPassed
<1>12. CASE UNCHANGED vars
  <2>1. UNCHANGED <<config, dns, call, gates, proved, echoed, counts>>
    BY <1>12 DEF vars, client, progress, server, history
  <2>2. QED BY <2>1, StillPassed
<1>13. QED
  BY <1>1, <1>2, <1>3, <1>4, <1>5, <1>6, <1>7, <1>8, <1>9, <1>10, <1>11, <1>12 DEF Next

\* There is no call at first, and each name resolves to its first answer.
LEMMA CallInvInit == Init => CallInv
BY AddressesAssumption DEF Init, CallInv, None

-----------------------------------------------------------------------------
(***************************************************************************)
(* What a reader gets back of a value that matched the table matches it.   *)
(***************************************************************************)
\* A decimal is read as it was written.
LEMMA DecimalsReturn ==
  ASSUME NEW d
  PROVE  /\ DecimalFromJson(DecimalToJson(d)) = {d}
         /\ DecimalToJson(d).of = d
         /\ DecimalToJson(d).json \in {"int", "float"}
         /\ DecimalToJson(d).json = "int" => FitsI64(d)
<1>1. /\ DecimalToJson(d).of = d /\ DecimalToJson(d).json \in {"int", "float"}
      /\ DecimalToJson(d).json = "int" => FitsI64(d)
  BY DEF DecimalToJson
<1>2. QED BY <1>1 DEF DecimalFromJson

\* A value is read back as it was, but for a number without a fraction: that is an integer.
LEMMA ValuesReturn ==
  ASSUME NEW j, NEW v \in FromJson(j)
  PROVE  Returned(v) = v \/ (v.is = "number" /\ Returned(v) = [is |-> "integer", of |-> v.of])
<1>0. ASSUME NEW w, FromJson(ToJson(v)) = {w}
      PROVE  Returned(v) = w
  BY <1>0 DEF Returned
<1>1. CASE j.json = "int"
  <2>1. v = [is |-> "integer", of |-> j.of] /\ FitsI64(j.of)
    BY <1>1 DEF FromJson
  <2>2. ToJson(v) = [json |-> "int", of |-> j.of]
    BY <2>1 DEF ToJson
  <2>3. FromJson(ToJson(v)) = {v}
    BY <2>1, <2>2 DEF FromJson
  <2>4. QED BY <1>0, <2>3
<1>2. CASE j.json = "float"
  <2>1. v = [is |-> "number", of |-> j.of]
    BY <1>2 DEF FromJson
  <2>2. ToJson(v) = DecimalToJson(j.of)
    BY <2>1 DEF ToJson
  <2> DEFINE t == DecimalToJson(j.of)
  <2>3. t.of = j.of /\ t.json \in {"int", "float"} /\ (t.json = "int" => FitsI64(j.of))
    BY DecimalsReturn
  <2> HIDE DEF t
  <2>4. CASE t.json = "int"
    <3>1. FromJson(t) = {[is |-> "integer", of |-> j.of]}
      BY <2>3, <2>4 DEF FromJson
    <3>2. QED BY <1>0, <2>1, <2>2, <3>1 DEF t
  <2>5. CASE t.json = "float"
    <3>1. FromJson(t) = {v}
      BY <2>1, <2>3, <2>5 DEF FromJson
    <3>2. QED BY <1>0, <2>2, <3>1 DEF t
  <2>6. QED BY <2>3, <2>4, <2>5
<1>3. CASE j.json = "bool"
  <2>1. v = [is |-> "boolean", of |-> j.of]
    BY <1>3 DEF FromJson
  <2>2. ToJson(v) = [json |-> "bool", of |-> j.of]
    BY <2>1 DEF ToJson
  <2>3. FromJson(ToJson(v)) = {v}
    BY <2>1, <2>2 DEF FromJson
  <2>4. QED BY <1>0, <2>3
<1>4. CASE j.json = "string"
  <2>1. v = [is |-> "string", of |-> j.of]
    BY <1>4 DEF FromJson
  <2>2. ToJson(v) = [json |-> "string", of |-> j.of]
    BY <2>1 DEF ToJson
  <2>3. FromJson(ToJson(v)) = {v}
    BY <2>1, <2>2 DEF FromJson
  <2>4. QED BY <1>0, <2>3
<1>5. CASE j.json = "object"
  <2>1. PICK x, y : v = [is |-> "point", of |-> [x |-> x, y |-> y]]
    BY <1>5 DEF FromJson
  <2> PICK t : t = [x |-> {DecimalToJson(x)}, y |-> {DecimalToJson(y)}]
    OBVIOUS
  <2>2. ToJson(v) = [json |-> "object", of |-> t]
    BY <2>1 DEF ToJson
  <2>3. /\ UNION {DecimalFromJson(c) : c \in t.x} = {x}
        /\ UNION {DecimalFromJson(c) : c \in t.y} = {y}
    BY DecimalsReturn
  <2>4. FromJson(ToJson(v)) = {v}
    BY <2>1, <2>2, <2>3 DEF FromJson
  <2>5. QED BY <1>0, <2>4
<1>6. QED BY <1>1, <1>2, <1>3, <1>4, <1>5 DEF FromJson

\* And an integer matches whatever a number does.
LEMMA MatchesStill ==
  ASSUME NEW spec, NEW i, NEW v, NEW w, ValueViolations(spec, i, v) = {},
         w = v \/ (v.is = "number" /\ w = [is |-> "integer", of |-> v.of])
  PROVE  ValueViolations(spec, i, w) = {}
<1>1. CASE w = v
  BY <1>1
<1>2. CASE v.is = "number" /\ w = [is |-> "integer", of |-> v.of]
  <2>1. Accepts(spec.kinds, v)
    BY DEF ValueViolations
  <2>2. Accepts(spec.kinds, w)
    BY <1>2, <2>1 DEF Accepts
  <2>3. AsDecimal(w) = AsDecimal(v) /\ AsText(w) = {}
    BY <1>2 DEF AsDecimal, AsText
  <2>4. {d \in AsDecimal(v) : Outside(d, spec.range)} = {}
    BY <2>1 DEF ValueViolations
  <2>5. QED BY <2>2, <2>3, <2>4 DEF ValueViolations
<1>3. QED BY <1>1, <1>2

\* So a payload without violations is valid as it is read back.
LEMMA ValidStays ==
  ASSUME NEW map, Len(map.json) \in Nat, DOMAIN map.json = 1 .. Len(map.json),
         \A i \in DOMAIN map.json : FromJson(map.json[i]) # {},
         NEW group, Validity(Parsed(map), group).violations = {}
  PROVE  Valid(Parsed(map), group)
<1> PICK m : m = Parsed(map)
  OBVIOUS
<1> PICK back : back = ReturnedMap(m)
  OBVIOUS
<1> PICK n \in Nat : n = Len(map.json)
  OBVIOUS
<1>1. /\ m = [type |-> m.type, values |-> m.values] /\ DOMAIN m.values = 1 .. n
      /\ m.values = [i \in 1 .. n |-> m.values[i]]
      /\ \A i \in 1 .. n : m.values[i] \in FromJson(map.json[i])
  BY DEF Parsed
<1>2. /\ back.type = m.type /\ DOMAIN back.values = 1 .. n
      /\ back.values = [i \in 1 .. n |-> Returned(m.values[i])]
  BY <1>1 DEF ReturnedMap
<1>3. Len(m.values) = n /\ Len(back.values) = n
  BY <1>1, <1>2
<1>4. ASSUME NEW spec, Violations(spec, m, group) = {}
      PROVE  Violations(spec, back, group) = {}
  <2>0. spec.group = group
    BY <1>4 DEF Violations
  <2>1. /\ Divides(spec, m) \/ ~ Outside(Len(m.values), spec.items)
        /\ \A i \in 1 .. n : ValueViolations(spec, i, m.values[i]) = {}
    <3>1. UNION {ValueViolations(spec, i, m.values[i]) : i \in DOMAIN m.values} = {}
      BY <1>4, <2>0 DEF Violations
    <3>2. ASSUME NEW i \in 1 .. n PROVE ValueViolations(spec, i, m.values[i]) = {}
      <4>1. i \in DOMAIN m.values
        BY <1>1
      <4>2. \A y \in ValueViolations(spec, i, m.values[i]) :
              y \in UNION {ValueViolations(spec, k, m.values[k]) : k \in DOMAIN m.values}
        BY <4>1
      <4>3. QED BY <3>1, <4>2
    <3>3. QED BY <1>4, <2>0, <3>2 DEF Violations
  <2>2. ASSUME NEW i \in 1 .. n PROVE ValueViolations(spec, i, back.values[i]) = {}
    <3>1. /\ ValueViolations(spec, i, m.values[i]) = {} /\ m.values[i] \in FromJson(map.json[i])
          /\ back.values[i] = Returned(m.values[i])
      BY <1>1, <1>2, <2>1
    <3>2. QED BY <3>1, ValuesReturn, MatchesStill
  <2>3. Divides(spec, back) <=> Divides(spec, m)
    BY <1>3 DEF Divides
  <2>4. UNION {ValueViolations(spec, i, back.values[i]) : i \in DOMAIN back.values} = {}
    <3>1. \A i \in DOMAIN back.values : ValueViolations(spec, i, back.values[i]) = {}
      BY <1>2, <2>2
    <3>2. ASSUME NEW y \in UNION {ValueViolations(spec, i, back.values[i]) :
                                    i \in DOMAIN back.values}
          PROVE  FALSE
      <4>1. PICK i \in DOMAIN back.values : y \in ValueViolations(spec, i, back.values[i])
        BY <3>2
      <4>2. QED BY <3>1, <4>1
    <3>3. QED BY <3>2
  <2>5. QED BY <1>3, <2>0, <2>1, <2>3, <2>4 DEF Violations
<1>5. CASE Lookup(m.type) = {}
  BY <1>2, <1>5 DEF Valid, Validity
<1>6. CASE Lookup(m.type) # {}
  <2>1. \A spec \in Lookup(m.type) : Violations(spec, m, group) = {}
    BY <1>6 DEF Validity
  <2>2. UNION {Violations(spec, back, group) : spec \in Lookup(m.type)} = {}
    BY <1>4, <2>1
  <2>3. Validity(back, group).is = "valid"
    BY <1>2, <1>6, <2>2 DEF Validity
  <2>4. QED BY <2>3 DEF Valid
<1>7. QED BY <1>5, <1>6

-----------------------------------------------------------------------------
(***************************************************************************)
(* What is stored.                                                         *)
(***************************************************************************)
WellKinded(id, store) ==
  /\ id = <<id[1], id[2]>> /\ id[1] \in Kinds
  /\ store[id] \in Object /\ FitsKind(Docs[store[id].doc], id[1])

\* What is stored has a place in the model, and has passed its checks.
StoreInv ==
  /\ \A id \in DOMAIN objects : WellKinded(id, objects)
  /\ NothingUncheckedIsStored

\* A document that may be stored under a kind's ids.
Admissible(doc, kind) ==
  /\ doc \in DOMAIN Docs /\ kind \in Kinds /\ FitsKind(Docs[doc], kind)
  /\ \A t \in Docs[doc].texts : Legible(t.rule, t.text)
  /\ kind = "event" => Docs[doc].times = "resolvable"
  /\ \A url \in ToSet(Urls(Docs[doc])) : CheckLiteral(config.callbacks, url) = {} /\ url \in echoed
  /\ config.policy = "strict" =>
        \A i \in DOMAIN Docs[doc].intervals :
            LET maps == Payloads(Docs[doc].intervals[i])
            IN  \A n \in DOMAIN maps : Valid(maps[n], GroupOf[kind])

\* Without its callbacks a document has no addresses.
LEMMA NoUrls ==
  ASSUME NEW doc, doc.operations = <<>>
  PROVE  ToSet(Urls(doc)) = {}
BY DEF ToSet, Urls

\* A strict VTN finds every payload valid, as it will be read, or refuses the call.
LEMMA StrictlyValid ==
  ASSUME NEW c, c.doc \in DOMAIN Docs, ParseBody(c) = {}, CheckPayloads(c) = {},
         config.policy = "strict",
         NEW i \in DOMAIN Docs[c.doc].intervals,
         NEW n \in DOMAIN Payloads(Docs[c.doc].intervals[i])
  PROVE  Valid(Payloads(Docs[c.doc].intervals[i])[n], GroupOf[c.kind])
<1> PICK intervals : intervals = Docs[c.doc].intervals
  OBVIOUS
<1> PICK maps : maps = intervals[i]
  OBVIOUS
<1>1. /\ n \in DOMAIN maps /\ Payloads(maps)[n] = Parsed(maps[n])
      /\ DOMAIN Payloads(maps) = DOMAIN maps
  BY DEF Payloads
<1>2. /\ Len(maps[n].json) \in Nat /\ DOMAIN maps[n].json = 1 .. Len(maps[n].json)
  BY <1>1, DocsAssumption
<1>3. \A k \in DOMAIN maps[n].json : FromJson(maps[n].json[k]) # {}
  <2>1. Decodes(Docs[c.doc])
    BY DEF ParseBody, Refuse
  <2>2. QED BY <1>1, <2>1 DEF Decodes
<1>4. ValidateAll(Payloads(maps), GroupOf[c.kind]) = {}
  BY DEF CheckPayloads
<1>5. Validity(Parsed(maps[n]), GroupOf[c.kind]).violations = {}
  <2> SUFFICES ASSUME NEW y \in Validity(Payloads(maps)[n], GroupOf[c.kind]).violations PROVE FALSE
    BY <1>1
  <2>1. <<n, y>> \in ValidateAll(Payloads(maps), GroupOf[c.kind])
    BY <1>1 DEF ValidateAll
  <2>2. QED BY <1>4, <2>1
<1>6. QED BY <1>1, <1>2, <1>3, <1>5, ValidStays

\* Who comes to write has passed every check of the document.
LEMMA Admitted ==
  ASSUME CallInv, NEW c \in call, gates # <<>>, Head(gates) \in {"create", "update"}
  PROVE  Admissible(c.doc, c.kind)
<1>1. c \in Calls /\ Passing(c)
  BY DEF CallInv
<1>2. PICK checks : /\ Lists(Path(c), {"length", "route", "method"} \cup checks)
                    /\ Guarded(c, {"length", "route", "method"} \cup checks)
  BY <1>1, Paths
<1>3. ToSet(gates) = {Head(gates)}
  <2>1. /\ gates \in Seq(Gates) /\ Len(gates) \in Nat /\ DOMAIN gates = 1 .. Len(gates)
        /\ Len(gates) # 0 /\ Head(gates) = gates[1] /\ 1 \in DOMAIN gates
    BY <1>1, LenProperties DEF Passing, Ordered
  <2>2. Len(gates) = 1
    BY <1>1, <2>1 DEF Passing, Ordered, Effects
  <2>3. QED BY <2>1, <2>2 DEF ToSet
<1>4. Head(gates) \in ToSet(Path(c))
  BY <1>1, <1>3 DEF Passing
<1>5. /\ c.kind \in Kinds /\ "body" \in ToSet(Path(c)) /\ "checked" \in ToSet(Path(c))
      /\ c.kind = "subscription" => "challenged" \in ToSet(Path(c))
  BY <1>2, <1>4 DEF Lists, Guarded
<1>6. /\ Refusals("body", c) = {} /\ Refusals("checked", c) = {}
      /\ c.kind = "subscription" => ToSet(Urls(Docs[c.doc])) \subseteq proved
  BY <1>1, <1>3, <1>5 DEF Passing, CheckedSoFar, Waits, Effects
<1>7. ParseBody(c) = {} /\ Unchecked(c) = {}
  BY <1>6 DEF Refusals
<1>8. /\ c.doc \in DOMAIN Docs /\ \A t \in Docs[c.doc].texts : Legible(t.rule, t.text)
  BY <1>7 DEF ParseBody, Refuse
<1>9. FitsKind(Docs[c.doc], c.kind)
  BY <1>1, <1>5, <1>8, CallsAssumption
<1>10. c.kind = "event" => Docs[c.doc].times = "resolvable"
  BY <1>7 DEF Unchecked, CheckTimes, Refuse
<1>11. ASSUME NEW url \in ToSet(Urls(Docs[c.doc]))
       PROVE  CheckLiteral(config.callbacks, url) = {} /\ url \in echoed
  <2>1. c.kind = "subscription"
    BY <1>9, <1>11, NoUrls DEF FitsKind
  <2>2. PICK i \in DOMAIN Docs[c.doc].operations : url = Docs[c.doc].operations[i].url
    BY DEF ToSet, Urls
  <2>3. CheckOperations(c) = {}
    BY <1>7, <2>1 DEF Unchecked
  <2>4. CheckLiteral(config.callbacks, url) = {}
    BY <2>2, <2>3 DEF CheckOperations, Refuse
  <2>5. QED BY <1>6, <2>1, <2>4 DEF CallInv
<1>12. ASSUME config.policy = "strict", NEW i \in DOMAIN Docs[c.doc].intervals,
              NEW n \in DOMAIN Payloads(Docs[c.doc].intervals[i])
       PROVE  Valid(Payloads(Docs[c.doc].intervals[i])[n], GroupOf[c.kind])
  <2>1. c.kind # "subscription"
    BY <1>9 DEF FitsKind
  <2>2. CheckPayloads(c) = {}
    BY <1>7, <2>1 DEF Unchecked
  <2>3. QED BY <1>7, <1>8, <1>12, <2>2, StrictlyValid
<1>13. QED BY <1>5, <1>8, <1>9, <1>10, <1>11, <1>12 DEF Admissible

\* What is stored stays so with more callbacks proved, more objects beside it, and no other
\* content.
LEMMA StaysStored ==
  ASSUME StoreInv, config' = config, echoed \subseteq echoed', NEW id \in DOMAIN objects,
         id \in DOMAIN objects', objects'[id].doc = objects[id].doc,
         Docs[objects[id].doc].parents \subseteq DOMAIN objects'
  PROVE  /\ Checked(id, objects', config')
         /\ ToSet(Urls(Docs[objects'[id].doc])) \subseteq echoed'
<1>1. /\ Checked(id, objects, config)
      /\ ToSet(Urls(Docs[objects[id].doc])) \subseteq echoed
  BY DEF StoreInv, NothingUncheckedIsStored
<1>2. QED BY <1>1 DEF Checked

\* Nothing happens to what is stored by a further callback being proved.
LEMMA NothingNew ==
  ASSUME StoreInv, UNCHANGED <<config, objects>>, echoed \subseteq echoed'
  PROVE  StoreInv'
<1>1. ASSUME NEW id \in DOMAIN objects
      PROVE  /\ WellKinded(id, objects) /\ Checked(id, objects, config)
             /\ ToSet(Urls(Docs[objects[id].doc])) \subseteq echoed'
  BY DEF StoreInv, NothingUncheckedIsStored
<1>2. QED BY <1>1 DEF StoreInv, NothingUncheckedIsStored

\* What goes with an object is all that refers to it: the rest refers to what stays.
LEMMA NoOrphans ==
  ASSUME StoreInv, NEW id \in DOMAIN objects, NEW rest, rest = Without(id, objects)
  PROVE  /\ DOMAIN rest \subseteq DOMAIN objects /\ \A i \in DOMAIN rest : rest[i] = objects[i]
         /\ \A i \in DOMAIN rest : Docs[objects[i].doc].parents \subseteq DOMAIN rest
<1> PICK below : below = Below({id}, objects)
  OBVIOUS
<1> PICK deeper : deeper = Below(below, objects)
  OBVIOUS
<1>1. rest = [i \in DOMAIN objects \ ({id} \cup below \cup deeper) |-> objects[i]]
  BY DEF Without, Restrict
<1>2. \A i \in DOMAIN objects :
        /\ i \in below <=> id \in Docs[objects[i].doc].parents
        /\ i \in deeper <=> \E j \in below : j \in Docs[objects[i].doc].parents
  BY DEF Below
<1>3. ASSUME NEW i \in DOMAIN objects, NEW j \in Docs[objects[i].doc].parents
      PROVE  j \in DOMAIN objects /\ j[1] \in RefersTo[i[1]] /\ i[1] \in Kinds /\ j[1] \in Kinds
  <2>1. j \in DOMAIN objects
    BY DEF StoreInv, NothingUncheckedIsStored, Checked
  <2>2. j[1] \in {p[1] : p \in Docs[objects[i].doc].parents}
    OBVIOUS
  <2>3. QED BY <2>1, <2>2 DEF StoreInv, WellKinded, FitsKind
<1>4. ASSUME NEW i \in DOMAIN rest, NEW j \in Docs[objects[i].doc].parents
      PROVE  j \in DOMAIN rest
  <2>1. i \in DOMAIN objects /\ i \notin below /\ i \notin deeper
    BY <1>1
  <2>2. j \in DOMAIN objects /\ j # id /\ j \notin below
    BY <1>2, <1>3, <2>1
  <2>3. j \notin deeper
    <3> SUFFICES ASSUME j \in deeper PROVE FALSE
      OBVIOUS
    <3>1. PICK k \in below : k \in Docs[objects[j].doc].parents
      BY <1>2, <2>2
    <3>2. k \in DOMAIN objects /\ id \in Docs[objects[k].doc].parents
      BY <1>2, <1>3, <2>2, <3>1
    <3>3. /\ j[1] \in RefersTo[i[1]] /\ k[1] \in RefersTo[j[1]] /\ id[1] \in RefersTo[k[1]]
          /\ i[1] \in Kinds /\ j[1] \in Kinds /\ k[1] \in Kinds
      BY <1>3, <2>1, <2>2, <3>1, <3>2
    <3>4. QED BY <3>3 DEF RefersTo, Kinds
  <2>4. QED BY <1>1, <2>2, <2>3
<1>5. QED BY <1>1, <1>4

\* What passed its checks may be stored.
LEMMA MayBeStored ==
  ASSUME NEW id, NEW doc, Admissible(doc, id[1]), config' = config, echoed' = echoed,
         Docs[doc].parents \subseteq DOMAIN objects', objects'[id].doc = doc
  PROVE  /\ Checked(id, objects', config')
         /\ ToSet(Urls(Docs[objects'[id].doc])) \subseteq echoed'
BY DEF Admissible, Checked

\* The clients are those that the tokens stand for.
LEMMA ClientsAreKnown ==
  ASSUME NEW token
  PROVE  Principal(token).client \subseteq Clients
BY DEF Principal, Known, Anonymous, Clients

\* A creation stores what has passed its checks, and leaves the rest.
LEMMA CreateStores ==
  ASSUME CallInv, StoreInv, NEW c \in call, Create(c)
  PROVE  StoreInv'
<1> PICK id : id = <<c.kind, 1 + counts.calls>>
  OBVIOUS
<1> PICK new : new = [doc |-> c.doc, version |-> 1, owner |-> Principal(c.token).client]
  OBVIOUS
<1>1. /\ UNCHANGED <<config, echoed>>
      /\ \/ objects' = objects
         \/ /\ Docs[c.doc].parents \subseteq DOMAIN objects
            /\ objects' = [i \in DOMAIN objects \cup {id} |-> IF i = id THEN new ELSE objects[i]]
  <2>1. UNCHANGED <<config, echoed>>
    BY DEF Create
  <2>2. CASE StoreErrors(id, c.doc, FALSE) # {}
    BY <2>2 DEF Create
  <2>3. CASE StoreErrors(id, c.doc, FALSE) = {}
    <3>1. Docs[c.doc].parents \subseteq DOMAIN objects
      BY <2>3 DEF StoreErrors, Dangles, Refuse
    <3>2. QED BY <2>1, <2>3, <3>1 DEF Create, Commits
  <2>4. QED BY <2>2, <2>3
<1>2. Admissible(c.doc, c.kind)
  BY Admitted DEF Create, At
<1>3. CASE objects' = objects
  BY <1>1, <1>3, NothingNew
<1>4. CASE objects' = [i \in DOMAIN objects \cup {id} |-> IF i = id THEN new ELSE objects[i]]
           /\ Docs[c.doc].parents \subseteq DOMAIN objects
  <2>1. id = <<id[1], id[2]>> /\ id[1] = c.kind /\ DOMAIN objects' = DOMAIN objects \cup {id}
        /\ objects'[id] = new /\ \A i \in DOMAIN objects : i # id => objects'[i] = objects[i]
    BY <1>4
  <2>2. WellKinded(id, objects')
    <3>1. new \in Object
      BY <1>2, ClientsAreKnown DEF Admissible, Object
    <3>2. QED BY <1>2, <2>1, <3>1 DEF Admissible, WellKinded
  <2>3. Checked(id, objects', config') /\ ToSet(Urls(Docs[objects'[id].doc])) \subseteq echoed'
    <3>1. Admissible(c.doc, id[1]) /\ Docs[c.doc].parents \subseteq DOMAIN objects'
      BY <1>2, <1>4, <2>1
    <3>2. objects'[id].doc = c.doc
      BY <2>1
    <3>3. QED BY <1>1, <3>1, <3>2, MayBeStored
  <2>4. ASSUME NEW i \in DOMAIN objects, i # id
        PROVE  /\ WellKinded(i, objects') /\ Checked(i, objects', config')
               /\ ToSet(Urls(Docs[objects'[i].doc])) \subseteq echoed'
    <3>1. objects'[i] = objects[i] /\ Docs[objects[i].doc].parents \subseteq DOMAIN objects'
      BY <2>1, <2>4 DEF StoreInv, NothingUncheckedIsStored, Checked
    <3>2. QED BY <1>1, <2>1, <3>1, StaysStored DEF StoreInv, WellKinded
  <2>5. QED BY <2>1, <2>2, <2>3, <2>4 DEF StoreInv, NothingUncheckedIsStored
<1>5. QED BY <1>1, <1>3, <1>4

\* So does an update; one that changes nothing stores what was there.
LEMMA UpdateStores ==
  ASSUME CallInv, StoreInv, NEW c \in call, Update(c)
  PROVE  StoreInv'
<1> PICK id : id = <<c.kind, c.id>>
  OBVIOUS
<1> PICK new : new = [objects EXCEPT ![id].doc = c.doc, ![id].version = @ + 1]
  OBVIOUS
<1>1. /\ UNCHANGED <<config, echoed>>
      /\ \/ objects' = objects
         \/ /\ Docs[c.doc].parents \subseteq DOMAIN objects /\ id \in DOMAIN objects
            /\ objects' = new
  <2>1. UNCHANGED <<config, echoed>>
    BY DEF Update
  <2>2. CASE StoreErrors(id, c.doc, TRUE) # {}
    BY <2>2 DEF Update
  <2>3. CASE StoreErrors(id, c.doc, TRUE) = {}
    <3>1. Docs[c.doc].parents \subseteq DOMAIN objects /\ id \in DOMAIN objects
      BY <2>3 DEF StoreErrors, Dangles, Refuse
    <3>2. objects' = objects \/ objects' = new
      BY <2>3 DEF Update, Commits, Rewritten
    <3>3. QED BY <2>1, <3>1, <3>2
  <2>4. QED BY <2>2, <2>3
<1>2. Admissible(c.doc, c.kind)
  BY Admitted DEF Update, At
<1>3. CASE objects' = objects
  BY <1>1, <1>3, NothingNew
<1>4. CASE objects' = new /\ id \in DOMAIN objects /\ Docs[c.doc].parents \subseteq DOMAIN objects
  <2>1. objects[id] \in Object
    BY <1>4 DEF StoreInv, WellKinded
  <2>2. /\ id = <<id[1], id[2]>> /\ id[1] = c.kind /\ DOMAIN objects' = DOMAIN objects
        /\ objects'[id] = [doc |-> c.doc, version |-> objects[id].version + 1,
                           owner |-> objects[id].owner]
        /\ \A i \in DOMAIN objects : i # id => objects'[i] = objects[i]
    BY <1>4, <2>1 DEF Object
  <2>3. WellKinded(id, objects')
    <3>1. objects'[id] \in Object
      BY <1>2, <2>1, <2>2 DEF Admissible, Object
    <3>2. QED BY <1>2, <2>2, <3>1 DEF Admissible, WellKinded
  <2>4. Checked(id, objects', config') /\ ToSet(Urls(Docs[objects'[id].doc])) \subseteq echoed'
    <3>1. Admissible(c.doc, id[1]) /\ Docs[c.doc].parents \subseteq DOMAIN objects'
      BY <1>2, <1>4, <2>2
    <3>2. objects'[id].doc = c.doc
      BY <2>2
    <3>3. QED BY <1>1, <3>1, <3>2, MayBeStored
  <2>5. ASSUME NEW i \in DOMAIN objects, i # id
        PROVE  /\ WellKinded(i, objects') /\ Checked(i, objects', config')
               /\ ToSet(Urls(Docs[objects'[i].doc])) \subseteq echoed'
    <3>1. objects'[i] = objects[i] /\ Docs[objects[i].doc].parents \subseteq DOMAIN objects'
      BY <2>2, <2>5 DEF StoreInv, NothingUncheckedIsStored, Checked
    <3>2. QED BY <1>1, <2>2, <3>1, StaysStored DEF StoreInv, WellKinded
  <2>6. QED BY <2>2, <2>3, <2>4, <2>5 DEF StoreInv, NothingUncheckedIsStored
<1>5. QED BY <1>1, <1>3, <1>4

\* A deletion, by this call or by another.
LEMMA WithoutStores ==
  ASSUME StoreInv, NEW id \in DOMAIN objects, objects' = Without(id, objects),
         UNCHANGED <<config, echoed>>
  PROVE  StoreInv'
<1>1. /\ DOMAIN objects' \subseteq DOMAIN objects
      /\ \A i \in DOMAIN objects' : objects'[i] = objects[i]
      /\ \A i \in DOMAIN objects' : Docs[objects[i].doc].parents \subseteq DOMAIN objects'
  BY NoOrphans
<1>2. ASSUME NEW i \in DOMAIN objects'
      PROVE  /\ WellKinded(i, objects') /\ Checked(i, objects', config')
             /\ ToSet(Urls(Docs[objects'[i].doc])) \subseteq echoed'
  <2>1. i \in DOMAIN objects /\ objects'[i] = objects[i]
    BY <1>1
  <2>2. WellKinded(i, objects')
    BY <2>1 DEF StoreInv, WellKinded
  <2>3. QED BY <1>1, <2>1, <2>2, StaysStored
<1>3. QED BY <1>2 DEF StoreInv, NothingUncheckedIsStored

\* What another request does to an object: it goes, or is written again.
LEMMA TouchStores ==
  ASSUME StoreInv, NEW id \in DOMAIN objects, NEW doc, Touch(id, doc)
  PROVE  StoreInv'
<1>1. UNCHANGED <<config, echoed>>
  BY DEF Touch
<1>2. CASE doc = None
  BY <1>1, <1>2, WithoutStores DEF Touch
<1>3. CASE doc # None
  <2>1. objects' = [objects EXCEPT ![id].version = @ + 1]
    BY <1>3 DEF Touch
  <2>2. objects[id] \in Object
    BY DEF StoreInv, WellKinded
  <2>3. /\ DOMAIN objects' = DOMAIN objects
        /\ objects'[id] = [doc |-> objects[id].doc, version |-> objects[id].version + 1,
                           owner |-> objects[id].owner]
        /\ \A i \in DOMAIN objects : i # id => objects'[i] = objects[i]
    BY <2>1, <2>2 DEF Object
  <2>4. objects'[id] \in Object
    BY <2>2, <2>3 DEF Object
  <2>5. ASSUME NEW i \in DOMAIN objects
        PROVE  /\ WellKinded(i, objects') /\ Checked(i, objects', config')
               /\ ToSet(Urls(Docs[objects'[i].doc])) \subseteq echoed'
    <3>1. objects'[i].doc = objects[i].doc /\ objects'[i] \in Object
      BY <2>3, <2>4 DEF StoreInv, WellKinded
    <3>2. WellKinded(i, objects')
      BY <3>1 DEF StoreInv, WellKinded
    <3>3. Docs[objects[i].doc].parents \subseteq DOMAIN objects'
      BY <2>3 DEF StoreInv, NothingUncheckedIsStored, Checked
    <3>4. QED BY <1>1, <2>3, <3>1, <3>2, <3>3, StaysStored
  <2>6. QED BY <2>3, <2>5 DEF StoreInv, NothingUncheckedIsStored
<1>4. QED BY <1>2, <1>3

\* Every step leaves what is stored checked.
LEMMA StoreInvNext == CallInv /\ StoreInv /\ [Next]_vars => StoreInv'
<1> SUFFICES ASSUME CallInv, StoreInv, [Next]_vars PROVE StoreInv'
  OBVIOUS
<1>1. ASSUME NEW c \in call, Delete(c) PROVE StoreInv'
  <2>1. /\ UNCHANGED <<config, echoed>>
        /\ \/ objects' = objects
           \/ <<c.kind, c.id>> \in DOMAIN objects /\ objects' = Without(<<c.kind, c.id>>, objects)
    BY <1>1 DEF Delete, Commits
  <2>2. QED BY <2>1, NothingNew, WithoutStores
<1>2. ASSUME NEW c \in call, Challenge(c) PROVE StoreInv'
  <2>1. UNCHANGED <<config, objects>> /\ echoed \subseteq echoed'
    BY <1>2 DEF Challenge, server
  <2>2. QED BY <2>1, NothingNew
<1>3. ASSUME NEW c \in call, Check(c) \/ Own(c) \/ Fetch(c) \/ Grant(c) \/ Healthy(c)
      PROVE  StoreInv'
  <2>1. UNCHANGED <<config, objects, echoed>>
    BY <1>3 DEF Check, Own, Fetch, Grant, Healthy, server, history
  <2>2. QED BY <2>1, NothingNew
<1>4. CASE \/ \E c \in Calls : Send(c)
           \/ Respond \/ TimeOut \/ Lose \/ Receive \/ Finish \/ Posts
           \/ \E name \in DOMAIN Names : \E answers \in ToSet(Names[name]) : Rebind(name, answers)
           \/ UNCHANGED vars
  <2>1. UNCHANGED <<config, objects, echoed>>
    BY <1>4
    DEF Send, Respond, TimeOut, Lose, Receive, Finish, Posts, Post, Rebind, vars, server, history
  <2>2. QED BY <2>1, NothingNew
<1>5. ASSUME NEW id \in DOMAIN objects, NEW doc, Touch(id, doc) PROVE StoreInv'
  BY <1>5, TouchStores
<1>6. ASSUME NEW c \in call, Create(c) \/ Update(c) PROVE StoreInv'
  BY <1>6, CreateStores, UpdateStores
<1>7. QED BY <1>1, <1>2, <1>3, <1>4, <1>5, <1>6 DEF Next

\* What the VTN starts with is.
LEMMA StoreInvInit == Init => StoreInv
<1> SUFFICES ASSUME Init PROVE StoreInv
  OBVIOUS
<1>1. ASSUME NEW id \in DOMAIN objects
      PROVE  /\ WellKinded(id, objects) /\ Checked(id, objects, config)
             /\ ToSet(Urls(Docs[objects[id].doc])) \subseteq echoed
  <2>1. objects \in Beginnings /\ config \in Configs
    BY DEF Init
  <2>2. WellKinded(id, objects) /\ Checked(id, objects, config)
    BY <2>1, BeginningsAssumption DEF WellKinded
  <2>3. ToSet(Urls(Docs[objects[id].doc])) \subseteq echoed
    BY DEF Init
  <2>4. QED BY <2>2, <2>3
<1>2. QED BY <1>1 DEF StoreInv, NothingUncheckedIsStored

-----------------------------------------------------------------------------
(***************************************************************************)
(* What a handler answers.                                                 *)
(***************************************************************************)
IsResponse(r) ==
  r = [status |-> r.status, type |-> r.type, slug |-> r.slug, instance |-> r.instance,
       tag |-> r.tag, body |-> r.body, size |-> r.size]

IsProblem(r) ==
  r.type = "problem" /\ r.slug \in PublishedFor(r.status) /\ r.status \in Nat /\ r.status >= 400
IsBare(r) == r.type = "none" /\ r.status \in {405, 413}
IsOAuth(r) == r.type = "json" /\ r.slug = "oauth" /\ r.status = 400
IsGood(r) == r.type = "json" /\ r.status \in {200, 201, 304}

Explains(c, r) ==
  IsResponse(r) /\ (IsProblem(r) \/ IsBare(r) \/ IsGood(r) \/ (IsOAuth(r) /\ c.kind = "token"))

\* What is true of a call that is answered so.
Truthful(c, r) ==
  /\ c.method \in Writes =>
        /\ r.status < 400 /\ c.kind # "token" => did = <<[op |-> c.method, shown |-> r.body]>>
        /\ r.status >= 400 /\ r.status < 500 => did = <<>>
  /\ c.method \notin Writes =>
        /\ r.status \in {200, 201} /\ c.kind # "health" => r.body \in seen
        /\ r.status = 304 => held \cap seen # {}
        /\ r.status = 404 => {} \in seen

\* A response is its fields.
LEMMA FieldsOf ==
  ASSUME NEW status, NEW type, NEW slug, NEW instance, NEW tag, NEW body, NEW size, NEW r,
         r = [status |-> status, type |-> type, slug |-> slug, instance |-> instance, tag |-> tag,
              body |-> body, size |-> size]
  PROVE  /\ r.status = status /\ r.type = type /\ r.slug = slug /\ r.instance = instance
         /\ r.body = body /\ r.size = size /\ IsResponse(r)
<1>1. /\ r.status = status /\ r.type = type /\ r.slug = slug /\ r.instance = instance
      /\ r.tag = tag /\ r.body = body /\ r.size = size
  OBVIOUS
<1>2. QED BY <1>1 DEF IsResponse

\* An error is a problem of a published type, and one of the caller's is known from its status.
LEMMA ErrorsAreProblems ==
  ASSUME NEW why \in DOMAIN ErrorTable, NEW size, NEW r, r = Rendered([why |-> why, size |-> size])
  PROVE  /\ IsResponse(r) /\ IsProblem(r) /\ r.status = ErrorTable[why].status
         /\ r.status = 404 => why \in {"NotFound", "NoSuchRoute"}
         /\ why \notin {"StorageUnavailable", "NotImplemented", "Unavailable"} => r.status < 500
<1> PICK status : status = ErrorTable[why].status
  OBVIOUS
<1> PICK slug : slug = ErrorTable[why].slug
  OBVIOUS
<1>1. /\ slug \in PublishedFor(status) /\ status \in Nat /\ status >= 400
      /\ status = 404 => why \in {"NotFound", "NoSuchRoute"}
      /\ why \notin {"StorageUnavailable", "NotImplemented", "Unavailable"} => status < 500
  BY DEF ErrorTable, PublishedFor
<1>2. r = [status |-> status, type |-> "problem", slug |-> slug, instance |-> None, tag |-> None,
           body |-> None, size |-> size]
  BY DEF Rendered, Response
<1>3. r.status = status /\ r.type = "problem" /\ r.slug = slug /\ IsResponse(r)
  BY <1>2, FieldsOf
<1>4. QED BY <1>1, <1>3 DEF IsProblem

\* So is what refuses a call.
LEMMA RefuseExplains ==
  ASSUME NEW c, NEW why \in DOMAIN ErrorTable, NEW when, NEW r \in Refuse(why, when)
  PROVE  /\ when /\ Explains(c, r) /\ r.status = ErrorTable[why].status /\ r.status >= 400
         /\ r.status = 404 => why \in {"NotFound", "NoSuchRoute"}
         /\ why \notin {"StorageUnavailable", "NotImplemented", "Unavailable"} => r.status < 500
<1>1. when /\ r = Rendered([why |-> why, size |-> 0])
  BY DEF Refuse, Error
<1>2. /\ IsResponse(r) /\ IsProblem(r) /\ r.status = ErrorTable[why].status
      /\ r.status = 404 => why \in {"NotFound", "NoSuchRoute"}
      /\ why \notin {"StorageUnavailable", "NotImplemented", "Unavailable"} => r.status < 500
  BY <1>1, ErrorsAreProblems
<1>3. Explains(c, r) /\ r.status >= 400
  BY <1>2 DEF Explains, IsProblem
<1>4. QED BY <1>1, <1>2, <1>3

\* A refusal's status is one of the refusals.
LEMMA Refused ==
  ASSUME NEW c, NEW why \in DOMAIN ErrorTable, NEW r \in Refuse(why, TRUE)
  PROVE  Explains(c, r) /\ r.status \in Nat /\ r.status >= 400
<1>1. r = Rendered([why |-> why, size |-> 0])
  BY DEF Refuse, Error
<1>2. IsResponse(r) /\ IsProblem(r)
  BY <1>1, ErrorsAreProblems
<1>3. QED BY <1>2 DEF Explains, IsProblem

\* A layer's own answer has a status, and no body.
LEMMA BareFields ==
  ASSUME NEW status, NEW r, r = Bare(status)
  PROVE  IsResponse(r) /\ r.status = status /\ r.type = "none"
<1>1. r = [status |-> status, type |-> "none", slug |-> "none", instance |-> None, tag |-> None,
           body |-> None, size |-> 0]
  BY DEF Bare, Response
<1>2. QED BY <1>1, FieldsOf

\* It is one of two statuses before the deadline.
LEMMA BareExplains ==
  ASSUME NEW c, NEW status \in {405, 413}, NEW r, r = Bare(status)
  PROVE  Explains(c, r) /\ r.status = status
BY BareFields DEF Explains, IsBare

\* The storage's own failure is a problem, of the server's.
LEMMA UnreachableExplains ==
  ASSUME NEW c, NEW r \in Unreachable
  PROVE  Explains(c, r) /\ r.status = 500
<1>1. "StorageUnavailable" \in DOMAIN ErrorTable /\ ErrorTable["StorageUnavailable"].status = 500
  BY DEF ErrorTable
<1>2. r = Rendered([why |-> "StorageUnavailable", size |-> 0])
  BY DEF Unreachable, Error
<1>3. IsResponse(r) /\ IsProblem(r) /\ r.status = 500
  BY <1>1, <1>2, ErrorsAreProblems
<1>4. QED BY <1>3 DEF Explains

\* An answer with an object, written out.
LEMMA ShowsRecord ==
  ASSUME NEW status, NEW shown
  PROVE  Shows(status, shown) =
           [status |-> status, type |-> "json", slug |-> "none", instance |-> None, tag |-> None,
            body |-> shown, size |-> 0]
BY DEF Shows, Response

\* An answer with an object has a status, and shows it.
LEMMA ShowsFields ==
  ASSUME NEW status, NEW shown, NEW r, r = Shows(status, shown)
  PROVE  IsResponse(r) /\ r.status = status /\ r.type = "json" /\ r.body = shown
BY ShowsRecord, FieldsOf

\* It explains itself.
LEMMA ShowsExplains ==
  ASSUME NEW c, NEW status \in {200, 201, 304}, NEW shown, NEW r, r = Shows(status, shown)
  PROVE  Explains(c, r) /\ r.status = status /\ r.body = shown
BY ShowsFields DEF Explains, IsGood

\* The token endpoint's own errors are in OAuth2's form.
LEMMA OAuthExplains ==
  ASSUME NEW c, c.kind = "token", NEW r, r = OAuthError
  PROVE  Explains(c, r) /\ r.status = 400
<1>1. r = [status |-> 400, type |-> "json", slug |-> "oauth", instance |-> None, tag |-> None,
           body |-> None, size |-> 0]
  BY DEF OAuthError, Response
<1>2. r.status = 400 /\ r.type = "json" /\ r.slug = "oauth" /\ IsResponse(r)
  BY <1>1, FieldsOf
<1>3. QED BY <1>2 DEF Explains, IsOAuth

\* What a check refuses with; only a path that leads nowhere is not found.
LEMMA RefusalsExplain ==
  ASSUME NEW c, NEW gate \in Gates, gate = "granted" => c.kind = "token",
         NEW r \in Refusals(gate, c)
  PROVE  /\ Explains(c, r) /\ r.status >= 400
         /\ r.status = 404 => c.kind = "nowhere"
<1>0. ASSUME NEW why \in {"BadRequest", "UnsupportedMediaType", "PayloadTooLarge", "InvalidPayload",
                          "Unauthorized", "MissingScope", "Forbidden", "NotImplemented"}
      PROVE  why \in DOMAIN ErrorTable /\ why \notin {"NotFound", "NoSuchRoute"}
  BY DEF ErrorTable
<1>1. ASSUME NEW why \in {"BadRequest", "UnsupportedMediaType", "PayloadTooLarge", "InvalidPayload",
                          "Unauthorized", "MissingScope", "Forbidden", "NotImplemented"},
             NEW when, r \in Refuse(why, when)
      PROVE  Explains(c, r) /\ r.status >= 400 /\ r.status # 404
  BY <1>0, <1>1, RefuseExplains
<1>2. CASE gate \in {"length", "method", "bytes"}
  <2>1. r = Bare(413) \/ r = Bare(405)
    BY <1>2 DEF Refusals, OverLength, Undefined
  <2>2. QED BY <2>1, BareExplains
<1>3. CASE gate = "route"
  <2>1. "NoSuchRoute" \in DOMAIN ErrorTable
    BY DEF ErrorTable
  <2>2. r \in Refuse("NoSuchRoute", c.kind = "nowhere")
    BY <1>3 DEF Refusals, Unrouted
  <2>3. c.kind = "nowhere"
    BY <2>2 DEF Refuse
  <2>4. Explains(c, r) /\ r.status >= 400
    BY <2>1, <2>2, RefuseExplains
  <2>5. QED BY <2>3, <2>4
<1>4. CASE gate \in {"authenticated", "media", "read", "scope", "reader", "id", "query", "vens",
                     "identified", "deliverable", "body"}
  <2>1. \E why \in {"BadRequest", "UnsupportedMediaType", "PayloadTooLarge", "Unauthorized",
                    "MissingScope", "Forbidden", "NotImplemented"} :
          \E when : r \in Refuse(why, when)
    <3>1. CASE gate \in {"authenticated", "media", "read"}
      BY <3>1 DEF Refusals, WrongMedia, OverRead
    <3>2. CASE gate \in {"scope", "reader", "id", "query"}
      BY <3>2 DEF Refusals, OutOfScope, Unread, BadId, BadQuery
    <3>3. CASE gate \in {"vens", "identified", "deliverable", "body"}
      BY <3>3 DEF Refusals, VensOnly, Unidentified, Undeliverable, ParseBody
    <3>4. QED BY <1>4, <3>1, <3>2, <3>3
  <2>2. QED BY <1>1, <2>1
<1>5. CASE gate = "checked"
  <2>1. r \in Unchecked(c)
    BY <1>5 DEF Refusals
  <2>2. CASE r \in CheckPayloads(c)
    <3>1. PICK size : r = Rendered([why |-> "InvalidPayload", size |-> size])
      BY <2>2 DEF CheckPayloads
    <3>2. IsResponse(r) /\ IsProblem(r) /\ r.status # 404
      BY <1>0, <3>1, ErrorsAreProblems
    <3>3. QED BY <3>2 DEF Explains, IsProblem
  <2>3. CASE r \in CheckTimes(c)
    BY <1>1, <2>3 DEF CheckTimes
  <2>4. CASE r \in CheckOperations(c)
    BY <1>1, <2>4 DEF CheckOperations
  <2>5. QED BY <2>1, <2>2, <2>3, <2>4 DEF Unchecked
<1>6. CASE gate = "granted"
  <2>1. r \in NotGranted(c)
    BY <1>6 DEF Refusals
  <2>2. CASE r = Rendered(Error("NotImplemented"))
    <3>1. r \in Refuse("NotImplemented", TRUE)
      BY <2>2 DEF Refuse
    <3>2. QED BY <1>1, <3>1
  <2>3. CASE r \in WrongTokenMedia(c)
    BY <1>1, <2>3 DEF WrongTokenMedia
  <2>4. CASE r = OAuthError
    BY <1>6, <2>4, OAuthExplains
  <2>5. QED BY <2>1, <2>2, <2>3, <2>4 DEF NotGranted
<1>7. CASE gate \in Effects \cup {"owned", "challenged"}
  BY <1>7 DEF Refusals, Effects
<1>8. QED
  BY <1>2, <1>3, <1>4, <1>5, <1>6, <1>7 DEF Gates

-----------------------------------------------------------------------------
(***************************************************************************)
(* What the layers and the client make of it.                              *)
(***************************************************************************)
\* What is answered to a call.
Explained(a) ==
  \/ a.status \in {200, 201, 304}
  \/ a.status = 500 /\ TooLong
  \/ IsProblem(a) /\ a.instance = {counts.calls}
  \/ IsOAuth(a) /\ IsTokenRequest

\* A layer's own answer becomes a problem.
LEMMA LayersExplain ==
  ASSUME NEW r, NEW id, r.status >= 400, r.type \notin {"problem", "json"},
         NEW a, a = ProblemResponses(r, id)
  PROVE  /\ a.status = r.status /\ a.type = "problem"
         /\ a.slug = LayerSlug(r.status) /\ a.instance = {id}
<1>1. a = [status |-> r.status, type |-> "problem", slug |-> LayerSlug(r.status), instance |-> {id},
           tag |-> None, body |-> None, size |-> 0]
  BY DEF ProblemResponses, Response
<1>2. QED BY <1>1, FieldsOf

\* The layers leave an answer that explains itself, or lose one that is too long; and what
\* was true of the answer still is.
LEMMA StampExplains ==
  ASSUME NEW c, call = {c}, NEW r \in reply, Explains(c, r), Truthful(c, r),
         NEW a, a = ProblemResponses(r, counts.calls)
  PROVE  Explained(a) /\ Truthful(c, a)
<1> PICK id : id = counts.calls
  OBVIOUS
<1>0. r = [status |-> r.status, type |-> r.type, slug |-> r.slug, instance |-> r.instance,
           tag |-> r.tag, body |-> r.body, size |-> r.size]
  BY DEF Explains, IsResponse
<1>1. CASE IsGood(r)
  <2>1. a = r
    BY <1>1 DEF IsGood, ProblemResponses
  <2>2. QED BY <1>1, <2>1 DEF Explained, IsGood
<1>2. CASE IsOAuth(r) /\ c.kind = "token"
  <2>1. a = r
    BY <1>2 DEF IsOAuth, ProblemResponses
  <2>2. QED BY <1>2, <2>1 DEF Explained, IsTokenRequest
<1>3. CASE IsBare(r)
  <2>1. r.status >= 400 /\ r.type \notin {"problem", "json"} /\ r.status \in {405, 413}
    BY <1>3 DEF IsBare
  <2>3. /\ a.status = r.status /\ a.type = "problem" /\ a.slug = LayerSlug(r.status)
        /\ a.instance = {id}
    BY <2>1, LayersExplain
  <2>4. LayerSlug(r.status) \in PublishedFor(r.status)
    BY <2>1 DEF LayerSlug, PublishedFor
  <2>5. IsProblem(a)
    BY <2>1, <2>3, <2>4 DEF IsProblem
  <2>6. Truthful(c, a)
    BY <2>1, <2>3 DEF Truthful
  <2>7. QED BY <2>3, <2>5, <2>6 DEF Explained
<1>4. CASE IsProblem(r) /\ r.size > ReadBackLimit
  <2>1. a = Bare(500)
    BY <1>4 DEF IsProblem, ProblemResponses
  <2>2. a.status = 500
    BY <2>1, BareFields
  <2>3. TooLong
    BY <1>4 DEF TooLong
  <2>4. QED BY <2>2, <2>3 DEF Explained, Truthful
<1>5. CASE IsProblem(r) /\ ~ (r.size > ReadBackLimit)
  <2>1. a = [r EXCEPT !.instance = {id}]
    BY <1>5 DEF IsProblem, ProblemResponses
  <2>2. a.status = r.status /\ a.type = r.type /\ a.slug = r.slug /\ a.instance = {id}
        /\ a.body = r.body
    BY <1>0, <2>1
  <2>3. IsProblem(a)
    BY <1>5, <2>2 DEF IsProblem
  <2>4. Truthful(c, a)
    BY <2>2 DEF Truthful
  <2>5. QED BY <2>2, <2>3, <2>4 DEF Explained
<1>6. QED BY <1>1, <1>2, <1>3, <1>4, <1>5 DEF Explains

\* So is what the deadline makes of a call.
LEMMA TimeOutExplains ==
  ASSUME NEW c, NEW a, a = ProblemResponses(Bare(504), counts.calls)
  PROVE  Explained(a) /\ Truthful(c, a)
<1> PICK id : id = counts.calls
  OBVIOUS
<1> PICK b : b = Bare(504)
  OBVIOUS
<1>1. b.status = 504 /\ b.status >= 400 /\ b.type \notin {"problem", "json"}
  BY BareFields
<1>2. /\ a.status = b.status /\ a.type = "problem" /\ a.slug = LayerSlug(b.status)
      /\ a.instance = {id}
  BY <1>1, LayersExplain
<1>3. a.status = 504 /\ a.type = "problem" /\ a.slug = "timeout" /\ a.instance = {id}
  BY <1>1, <1>2 DEF LayerSlug
<1>4. IsProblem(a)
  BY <1>3 DEF IsProblem, PublishedFor
<1>5. QED BY <1>3, <1>4 DEF Explained, Truthful

\* What the client is told.
ToldTruly(c, r) ==
  /\ c.method \in Writes =>
        /\ r.is = "value" /\ c.kind # "token" => did = <<[op |-> c.method, shown |-> r.shown]>>
        /\ r.is = "error" /\ r.status < 500 => did = <<>>
  /\ c.method \notin Writes =>
        /\ r.is = "value" /\ c.kind # "health" => r.shown \in seen
        /\ r.is = "absent" => {} \in seen
        /\ r.is = "unchanged" => held \cap seen # {}
  /\ r.is = "error" /\ r.slug = "unexpected" => TooLong \/ IsTokenRequest

\* What is true of the answer is true of what the client makes of it.
LEMMA ReceiveTells ==
  ASSUME NEW c, call = {c}, NEW a, Explained(a), Truthful(c, a),
         NEW out, out = SendRaw(a), NEW r, r \in {out, TryGet(out)}
  PROVE  ToldTruly(c, r)
<1>1. \/ a.status \in {200, 201, 304}
      \/ /\ a.status \in Nat /\ a.status >= 400
         /\ a.type = "problem" => a.slug # "unexpected" \/ TooLong
         /\ a.type = "problem" \/ TooLong \/ IsTokenRequest
  <2>1. \A status \in Nat : "unexpected" \notin PublishedFor(status)
    BY DEF PublishedFor
  <2>2. QED BY <2>1 DEF Explained, IsProblem, IsOAuth
<1>2. CASE a.status = 304
  <2>1. out.is = "unchanged" /\ r = out
    BY <1>2 DEF SendRaw, TryGet
  <2>2. QED BY <1>2, <2>1 DEF ToldTruly, Truthful
<1>3. CASE a.status \in {200, 201}
  <2>1. out = [is |-> "value", shown |-> a.body]
    BY <1>3 DEF SendRaw
  <2>2. r.is = "value" /\ r.shown = a.body
    BY <2>1 DEF TryGet
  <2>3. QED BY <1>3, <2>2 DEF ToldTruly, Truthful
<1>4. CASE a.status \in Nat /\ a.status >= 400
  <2>1. /\ out.is = "error" /\ out.status = a.status
        /\ out.slug = IF a.type = "problem" THEN a.slug ELSE "unexpected"
    BY <1>4 DEF SendRaw
  <2>2. \/ r = out
        \/ r.is = "absent" /\ a.status = 404
    BY <2>1 DEF TryGet
  <2>3. CASE r = out
    <3>1. r.slug = "unexpected" => TooLong \/ IsTokenRequest
      BY <1>1, <1>4, <2>1, <2>3
    <3>2. QED BY <1>4, <2>1, <2>3, <3>1 DEF ToldTruly, Truthful
  <2>4. CASE r.is = "absent" /\ a.status = 404
    BY <2>4 DEF ToldTruly, Truthful
  <2>5. QED BY <2>2, <2>3, <2>4
<1>5. QED BY <1>1, <1>2, <1>3, <1>4

-----------------------------------------------------------------------------
(***************************************************************************)
(* The course of a call.                                                   *)
(***************************************************************************)
\* What there is of an answer is explained and true, and nothing was changed twice.
CourseOK(c) ==
  /\ did = <<>> \/ (c.method \in Writes /\ \E change : did = <<change>>)
  /\ result = {} /\ answer = {} => Readable(c, objects) \in seen
  /\ \A r \in reply : Explains(c, r) /\ Truthful(c, r)
  /\ \A a \in answer : Explained(a) /\ Truthful(c, a)
  /\ \A r \in result : ToldTruly(c, r)

\* Nothing is left of a call that is over, and nothing was done before it was answered for.
CourseInv ==
  /\ call = {} => reply = {} /\ answer = {} /\ result = {} /\ did = <<>>
  /\ reply = {} /\ result = {} => did = <<>>
  /\ \A c \in call : CourseOK(c)

\* Whatever a call can see at a place that no kind of object has, it is nothing.
LEMMA NothingThere ==
  ASSUME StoreInv, NEW c, c.kind \notin Kinds
  PROVE  Readable(c, objects) = {}
BY DEF Readable, StoreInv, WellKinded

\* A handler may say what explains itself and is true, and be done.
LEMMA Said ==
  ASSUME CourseInv, NEW c, call = {c}, Waiting, answer = {},
         UNCHANGED <<call, answer, result, held>>,
         NEW r, reply' = {r}, Explains(c, r), Truthful(c, r)',
         seen \subseteq seen', Readable(c, objects') \in seen',
         did' = <<>> \/ (c.method \in Writes /\ \E change : did' = <<change>>)
  PROVE  CourseInv'
<1>1. CourseOK(c)'
  BY DEF CourseOK, Waiting, None
<1>2. QED BY <1>1 DEF CourseInv

\* What refuses a call is true of it, if nothing is there when nothing is found.
LEMMA RefusedTruly ==
  ASSUME CourseInv, StoreInv, NEW c, call = {c}, Waiting, reply = {}, answer = {},
         UNCHANGED <<call, answer, result, held, objects, seen, did>>,
         NEW r, reply' = {r}, Explains(c, r), r.status >= 400, r.status \in Nat,
         r.status = 404 => c.method \in Writes \/ c.kind = "nowhere"
  PROVE  CourseInv'
<1>1. did = <<>> /\ Readable(c, objects) \in seen
  BY DEF CourseInv, CourseOK, Waiting, None
<1>2. c.kind = "nowhere" => {} \in seen
  BY <1>1, NothingThere DEF Kinds, RefersTo
<1>3. Truthful(c, r)'
  BY <1>1, <1>2 DEF Truthful
<1>4. QED BY <1>1, <1>3, Said

\* What was true stays so while no more than time passes.
LEMMA StaysTrue ==
  ASSUME NEW c, UNCHANGED <<did, held>>, seen \subseteq seen'
  PROVE  \A r : Truthful(c, r) => Truthful(c, r)'
BY DEF Truthful

\* Who is at which check.
LEMMA Placed ==
  ASSUME CallInv, NEW c \in call, NEW gate \in ToSet(gates)
  PROVE  /\ c \in Calls /\ call = {c} /\ Passing(c) /\ gates # <<>> /\ gate \in Gates
         /\ gate \in {"create", "update"} =>
                c.kind \in Kinds /\ {"body", "checked"} \subseteq ToSet(Path(c))
         /\ gate = "create" => c.method = "POST"
         /\ gate = "update" => c.method = "PUT"
         /\ gate = "delete" => c.method = "DELETE" /\ c.kind \in Kinds
         /\ gate = "fetch" => c.method \in {"GET", "LIST"} /\ c.kind \in Kinds
         /\ gate \in {"grant", "granted"} => c.kind = "token" /\ c.method = "POST"
         /\ gate = "healthy" => c.kind = "health" /\ c.method = "GET"
         /\ gate = "challenged" => "body" \in ToSet(Path(c))
         /\ gate = "owned" => c.method \in Writes
<1>1. gates # <<>>
  BY DEF ToSet
<1>2. c \in Calls /\ call = {c} /\ Passing(c)
  BY <1>1 DEF CallInv
<1>3. gate \in Gates /\ gate \in ToSet(Path(c))
  <2>1. gates \in Seq(Gates) /\ ToSet(gates) \subseteq ToSet(Path(c))
    BY <1>2 DEF Passing, Ordered
  <2>2. QED BY <2>1, ElementOfSeq, LenProperties DEF ToSet
<1>4. PICK checks : /\ Lists(Path(c), {"length", "route", "method"} \cup checks)
                    /\ Guarded(c, {"length", "route", "method"} \cup checks)
  BY <1>2, Paths
<1>5. gate \in {"length", "route", "method"} \cup checks
      /\ ToSet(Path(c)) = {"length", "route", "method"} \cup checks
  BY <1>3, <1>4 DEF Lists
<1>6. /\ c.kind = "token" => c.method = "POST"
      /\ c.kind = "health" => c.method = "GET"
  BY <1>2, CallsAssumption
<1>7. QED BY <1>1, <1>2, <1>3, <1>4, <1>5, <1>6 DEF Guarded

\* The first of the checks is one of them.
LEMMA First ==
  ASSUME CallInv, call # {}, gates # <<>>
  PROVE  Head(gates) \in ToSet(gates)
<1>1. gates \in Seq(Gates)
  BY DEF CallInv, Passing, Ordered
<1>2. Head(gates) = gates[1] /\ 1 \in DOMAIN gates
  BY <1>1, LenProperties
<1>3. QED BY <1>2 DEF ToSet

\* What the client sees of a call stays as it is when nothing it depends on changes.
LEMMA CourseStays ==
  ASSUME CourseInv, UNCHANGED <<call, reply, answer, result, held, objects, seen, did>>,
         counts'.calls = counts.calls
  PROVE  CourseInv'
<1>1. \A c : Readable(c, objects)' = Readable(c, objects)
  BY DEF Readable, MaySee, Owns, Principal, Known, Anonymous, IsBusinessLogic, Shown
<1>2. TooLong' = TooLong /\ IsTokenRequest' = IsTokenRequest
  BY DEF TooLong, IsTokenRequest
<1>3. \A c, r : Truthful(c, r)' = Truthful(c, r) /\ ToldTruly(c, r)' = ToldTruly(c, r)
  BY <1>2 DEF Truthful, ToldTruly
<1>4. \A a : Explained(a)' = Explained(a)
  BY <1>2 DEF Explained
<1>5. ASSUME NEW c \in call PROVE CourseOK(c)'
  <2>1. CourseOK(c)
    BY DEF CourseInv
  <2>2. QED BY <1>1, <1>3, <1>4, <2>1 DEF CourseOK
<1>6. QED BY <1>5 DEF CourseInv

\* A call that sets out has no answer, and can see what is there.
LEMMA SendCourse ==
  ASSUME CourseInv, NEW c \in Calls, Send(c)
  PROVE  CourseInv'
<1>1. reply' = {} /\ answer' = {} /\ result' = {} /\ did' = <<>> /\ call' = {c}
      /\ objects' = objects /\ seen' = {Readable(c, objects)}
  BY DEF Send, CourseInv, server, None
<1>2. Readable(c, objects') = Readable(c, objects)
  BY <1>1
<1>3. CourseOK(c)'
  BY <1>1, <1>2 DEF CourseOK
<1>4. QED BY <1>1, <1>3 DEF CourseInv

\* A check that does not wait passes, or refuses the call.
LEMMA CheckCourse ==
  ASSUME CallInv, StoreInv, CourseInv, NEW c \in call, Check(c)
  PROVE  CourseInv'
<1>1. /\ c \in Calls /\ call = {c} /\ gates # <<>> /\ Passing(c)
      /\ Waiting /\ reply = {} /\ answer = {}
      /\ UNCHANGED <<config, call, answer, result, held, objects, seen, did, counts>>
  BY DEF CallInv, Check, Serving, server, client, history, None
<1> PICK stop : stop = Min(Stops(c))
  OBVIOUS
<1>2. /\ stop \in DOMAIN gates
      /\ \/ UNCHANGED reply
         \/ gates[stop] \notin Waits /\ \E r \in Refusals(gates[stop], c) : reply' = {r}
  <2>1. stop \in DOMAIN gates
    BY <1>1, SomethingStops DEF Stops
  <2>2. QED BY <2>1 DEF Check, Says
<1>3. CASE UNCHANGED reply
  BY <1>1, <1>3, CourseStays
<1>4. ASSUME NEW r \in Refusals(gates[stop], c), reply' = {r} PROVE CourseInv'
  <2>1. gates[stop] \in ToSet(gates)
    BY <1>2 DEF ToSet
  <2>2. gates[stop] \in Gates /\ (gates[stop] = "granted" => c.kind = "token")
    BY <2>1, Placed
  <2>3. Explains(c, r) /\ r.status >= 400 /\ (r.status = 404 => c.kind = "nowhere")
    BY <2>2, RefusalsExplain
  <2>4. r.status \in Nat
    BY <2>3 DEF Explains, IsProblem, IsBare, IsGood, IsOAuth
  <2>5. QED BY <1>1, <1>4, <2>3, <2>4, RefusedTruly
<1>5. QED BY <1>2, <1>3, <1>4

\* So does the check of the owner.
LEMMA OwnCourse ==
  ASSUME CallInv, StoreInv, CourseInv, NEW c \in call, Own(c)
  PROVE  CourseInv'
<1>1. /\ call = {c} /\ gates # <<>> /\ Head(gates) = "owned" /\ Waiting /\ reply = {} /\ answer = {}
      /\ UNCHANGED <<config, call, answer, result, held, objects, seen, did, counts>>
  BY DEF CallInv, Own, Serving, At, server, client, history, None
<1>2. c.method \in Writes
  BY <1>1, First, Placed
<1>3. CASE UNCHANGED reply
  BY <1>1, <1>3, CourseStays
<1>4. ASSUME NEW r \in NotOwned(c) \cup Unreachable, reply' = {r} PROVE CourseInv'
  <2>1. "NotFound" \in DOMAIN ErrorTable
    BY DEF ErrorTable
  <2>2. Explains(c, r) /\ r.status >= 400
    BY <2>1, RefuseExplains, UnreachableExplains DEF NotOwned
  <2>3. r.status \in Nat
    BY <2>2 DEF Explains, IsProblem, IsBare, IsGood, IsOAuth
  <2>4. QED BY <1>1, <1>2, <1>4, <2>2, <2>3, RefusedTruly
<1>5. QED BY <1>3, <1>4 DEF Own, Says

\* A challenge refused, or passed.
LEMMA ChallengeCourse ==
  ASSUME CallInv, StoreInv, CourseInv, NEW c \in call, Challenge(c)
  PROVE  CourseInv'
<1>1. /\ call = {c} /\ Waiting /\ reply = {} /\ answer = {}
      /\ UNCHANGED <<config, call, answer, result, held, objects, seen, did, counts>>
  BY DEF CallInv, Challenge, Serving, server, client, None
<1>2. \/ UNCHANGED reply
      \/ \E r \in Refuse("BadRequest", TRUE) : reply' = {r}
  BY DEF Challenge, Says
<1>3. CASE UNCHANGED reply
  BY <1>1, <1>3, CourseStays
<1>4. ASSUME NEW r \in Refuse("BadRequest", TRUE), reply' = {r} PROVE CourseInv'
  <2>1. "BadRequest" \in DOMAIN ErrorTable /\ ErrorTable["BadRequest"].status = 400
    BY DEF ErrorTable
  <2>2. r = Rendered([why |-> "BadRequest", size |-> 0])
    BY DEF Refuse, Error
  <2>3. IsResponse(r) /\ IsProblem(r) /\ r.status = 400
    BY <2>1, <2>2, ErrorsAreProblems
  <2>4. Explains(c, r) /\ r.status >= 400 /\ r.status \in Nat /\ r.status # 404
    BY <2>3 DEF Explains
  <2>5. QED BY <1>1, <1>4, <2>4, RefusedTruly
<1>5. QED BY <1>2, <1>3, <1>4

\* What the store refuses with.
LEMMA StoreErrorsExplain ==
  ASSUME NEW c, NEW id, NEW doc, NEW mustExist \in BOOLEAN,
         NEW r \in StoreErrors(id, doc, mustExist)
  PROVE  Explains(c, r) /\ r.status \in Nat /\ r.status >= 400
<1>1. PICK why \in {"DanglingReference", "Conflict", "NotFound"} : \E when : r \in Refuse(why, when)
  BY DEF StoreErrors
<1>2. why \in DOMAIN ErrorTable
  BY DEF ErrorTable
<1>3. Explains(c, r) /\ r.status >= 400
  BY <1>1, <1>2, RefuseExplains
<1>4. r.status \in Nat
  BY <1>3 DEF Explains, IsProblem, IsBare, IsGood, IsOAuth
<1>5. QED BY <1>3, <1>4

\* A write that is made and answered for is answered with what it made; the storage's own
\* failure says nothing of it.
LEMMA CommitsCourse ==
  ASSUME CallInv, CourseInv, NEW c, call = {c}, Waiting, reply = {}, answer = {},
         UNCHANGED <<call, answer, result, held>>, c.method \in Writes, c.kind \in Kinds,
         NEW store, NEW shown, NEW status \in {200, 201}, Commits(c.method, store, shown, status),
         seen' = seen \cup {Readable(c, objects')}
  PROVE  CourseInv'
<1> DEFINE change == [op |-> c.method, shown |-> shown]
<1> HIDE DEF change
<1>1. did = <<>> /\ c.kind # "token"
  BY DEF CourseInv, CourseOK, Waiting, None, Kinds, RefersTo
<1>2. did' = <<>> \/ did' = <<change>>
  BY <1>1 DEF Commits, change
<1>3. /\ seen \subseteq seen' /\ Readable(c, objects') \in seen'
      /\ did' = <<>> \/ (c.method \in Writes /\ \E x : did' = <<x>>)
  BY <1>2
<1>4. \/ \E r \in Unreachable : reply' = {r}
      \/ did' = <<change>> /\ reply' = {Shows(status, shown)}
  BY <1>1 DEF Commits, Says, change
<1>5. ASSUME NEW r \in Unreachable, reply' = {r} PROVE CourseInv'
  <2>1. Explains(c, r) /\ r.status = 500
    BY UnreachableExplains
  <2>2. Truthful(c, r)'
    BY <2>1 DEF Truthful
  <2>3. QED BY <1>3, <1>5, <2>1, <2>2, Said
<1>6. ASSUME did' = <<change>>, NEW r, r = Shows(status, shown), reply' = {r} PROVE CourseInv'
  <2>1. Explains(c, r) /\ r.status = status /\ r.body = shown
    BY <1>6, ShowsExplains
  <2>2. Truthful(c, r)'
    BY <1>6, <2>1 DEF Truthful, change
  <2>3. QED BY <1>3, <1>6, <2>1, <2>2, Said
<1>7. QED BY <1>4, <1>5, <1>6

\* A write that is refused is not made.
LEMMA RefusedCourse ==
  ASSUME CourseInv, NEW c, call = {c}, Waiting, reply = {}, answer = {},
         UNCHANGED <<call, answer, result, held, objects, did>>, c.method \in Writes,
         seen' = seen \cup {Readable(c, objects')},
         NEW r, reply' = {r}, Explains(c, r), r.status \in Nat, r.status >= 400
  PROVE  CourseInv'
<1>1. did' = <<>>
  BY DEF CourseInv, CourseOK, Waiting, None
<1>2. Truthful(c, r)'
  BY <1>1 DEF Truthful
<1>3. seen \subseteq seen' /\ Readable(c, objects') \in seen'
  OBVIOUS
<1>4. QED BY <1>1, <1>2, <1>3, Said

\* A creation, an update and a deletion each commit, or are refused.
LEMMA WriteCourse ==
  ASSUME CallInv, CourseInv, NEW c \in call, Create(c) \/ Update(c) \/ Delete(c)
  PROVE  CourseInv'
<1>1. /\ call = {c} /\ Waiting /\ reply = {} /\ answer = {} /\ gates # <<>>
      /\ UNCHANGED <<call, answer, result, held>> /\ seen' = seen \cup {Readable(c, objects')}
  BY DEF CallInv, Create, Update, Delete, Serving, At, client, None
<1>2. CASE Create(c)
  <2> PICK id : id = <<c.kind, 1 + counts.calls>>
    OBVIOUS
  <2> PICK errors : errors = StoreErrors(id, c.doc, FALSE)
    OBVIOUS
  <2>1. c.method = "POST" /\ c.kind \in Kinds /\ c.method \in Writes
    BY <1>1, <1>2, First, Placed DEF Create, At, Writes
  <2> PICK new : new = [doc |-> c.doc, version |-> 1, owner |-> Principal(c.token).client]
    OBVIOUS
  <2> PICK store : store = [i \in DOMAIN objects \cup {id} |-> IF i = id THEN new ELSE objects[i]]
    OBVIOUS
  <2> PICK shown : shown = {Shown(id, store)}
    OBVIOUS
  <2>2. \/ /\ \E r \in errors : reply' = {r}
           /\ UNCHANGED <<objects, did>>
        \/ Commits(c.method, store, shown, 201)
    BY <1>2, <2>1 DEF Create, Says
  <2>3. ASSUME NEW r \in errors, reply' = {r}, UNCHANGED <<objects, did>> PROVE CourseInv'
    <3>1. Explains(c, r) /\ r.status \in Nat /\ r.status >= 400
      BY StoreErrorsExplain
    <3>2. QED BY <1>1, <2>1, <2>3, <3>1, RefusedCourse
  <2>4. ASSUME NEW status \in {200, 201}, Commits(c.method, store, shown, status) PROVE CourseInv'
    BY <1>1, <2>1, <2>4, CommitsCourse
  <2>5. QED BY <2>2, <2>3, <2>4
<1>3. CASE Update(c)
  <2> PICK id : id = <<c.kind, c.id>>
    OBVIOUS
  <2> PICK errors : errors = StoreErrors(id, c.doc, TRUE)
    OBVIOUS
  <2>1. c.method = "PUT" /\ c.kind \in Kinds /\ c.method \in Writes
    BY <1>1, <1>3, First, Placed DEF Update, At, Writes
  <2> PICK store : store = Rewritten(id, c.doc, objects)
    OBVIOUS
  <2> PICK shown : shown = {Shown(id, store)}
    OBVIOUS
  <2>2. \/ /\ \E r \in errors : reply' = {r}
           /\ UNCHANGED <<objects, did>>
        \/ Commits(c.method, store, shown, 200)
    BY <1>3, <2>1 DEF Update, Says
  <2>3. ASSUME NEW r \in errors, reply' = {r}, UNCHANGED <<objects, did>> PROVE CourseInv'
    <3>1. Explains(c, r) /\ r.status \in Nat /\ r.status >= 400
      BY StoreErrorsExplain
    <3>2. QED BY <1>1, <2>1, <2>3, <3>1, RefusedCourse
  <2>4. ASSUME NEW status \in {200, 201}, Commits(c.method, store, shown, status) PROVE CourseInv'
    BY <1>1, <2>1, <2>4, CommitsCourse
  <2>5. QED BY <2>2, <2>3, <2>4
<1>4. CASE Delete(c)
  <2>1. c.method = "DELETE" /\ c.kind \in Kinds /\ c.method \in Writes
    BY <1>1, <1>4, First, Placed DEF Delete, At, Writes
  <2>2. \/ /\ \E r \in Refuse("NotFound", TRUE) : reply' = {r}
           /\ UNCHANGED <<objects, did>>
        \/ \E store, shown : Commits(c.method, store, shown, 200)
    BY <1>4, <2>1 DEF Delete, Says
  <2>3. ASSUME NEW r \in Refuse("NotFound", TRUE)
        PROVE  Explains(c, r) /\ r.status \in Nat /\ r.status >= 400
    <3>1. "NotFound" \in DOMAIN ErrorTable
      BY DEF ErrorTable
    <3>2. QED BY <3>1, Refused
  <2>4. QED BY <1>1, <2>1, <2>2, <2>3, RefusedCourse, CommitsCourse
<1>5. QED BY <1>2, <1>3, <1>4

\* The answer to a read that may be conditional.
LEMMA CachedExplains ==
  ASSUME NEW c, NEW shown, NEW since, NEW r, r = Cached(shown, since)
  PROVE  /\ Explains(c, r) /\ r.status \in {200, 304}
         /\ r.status = 200 => r.body = shown
         /\ r.status = 304 => since = {shown}
<1>1. CASE ~ config.caching
  <2>1. r = Shows(200, shown)
    BY <1>1 DEF Cached
  <2>2. QED BY <2>1, ShowsExplains
<1>2. CASE config.caching
  <2> PICK status : status = IF since = {shown} THEN 304 ELSE 200
    OBVIOUS
  <2> PICK body : body = IF since = {shown} THEN {} ELSE shown
    OBVIOUS
  <2> PICK tag : tag = {shown}
    OBVIOUS
  <2> PICK base : base = [status |-> status, type |-> "json", slug |-> "none", instance |-> {},
                         tag |-> {}, body |-> body, size |-> 0]
    OBVIOUS
  <2>1. r = [base EXCEPT !.tag = tag]
    <3>1. Shows(status, body) = base
      BY ShowsRecord DEF None
    <3>2. QED BY <1>2, <3>1 DEF Cached, None
  <2>2. r = [status |-> status, type |-> "json", slug |-> "none", instance |-> {}, tag |-> tag,
             body |-> body, size |-> 0]
    BY <2>1
  <2>3. r.status = status /\ r.type = "json" /\ r.body = body /\ IsResponse(r)
    BY <2>2, FieldsOf
  <2>4. QED BY <2>3 DEF Explains, IsGood
<1>3. QED BY <1>1, <1>2

\* What a read answers.
LEMMA FetchCourse ==
  ASSUME CallInv, CourseInv, NEW c \in call, Fetch(c)
  PROVE  CourseInv'
<1>1. /\ call = {c} /\ Waiting /\ reply = {} /\ answer = {} /\ gates # <<>>
      /\ UNCHANGED <<call, answer, result, held, objects, seen, did>>
  BY DEF CallInv, Fetch, Serving, At, client, server, history, None
<1> PICK shown : shown = Readable(c, objects)
  OBVIOUS
<1>2. c.method \notin Writes
  BY <1>1, First, Placed DEF Fetch, At, Writes
<1>3. did = <<>> /\ shown \in seen
  BY <1>1 DEF CourseInv, CourseOK, Waiting, None
<1>4. Readable(c, objects') \in seen'
  BY <1>1, <1>3
<1>5. \/ \E r \in Unreachable : reply' = {r}
      \/ shown = {} /\ \E r \in Refuse("NotFound", TRUE) : reply' = {r}
      \/ reply' = {Cached(shown, held)}
  BY DEF Fetch, Says
<1>6. ASSUME NEW r \in Unreachable, reply' = {r} PROVE CourseInv'
  <2>1. Explains(c, r) /\ r.status = 500
    BY UnreachableExplains
  <2>2. Truthful(c, r)'
    BY <2>1 DEF Truthful
  <2>3. QED BY <1>1, <1>3, <1>4, <1>6, <2>1, <2>2, Said
<1>7. ASSUME shown = {}, NEW r \in Refuse("NotFound", TRUE), reply' = {r} PROVE CourseInv'
  <2>1. "NotFound" \in DOMAIN ErrorTable
    BY DEF ErrorTable
  <2>2. Explains(c, r) /\ r.status >= 400 /\ r.status \in Nat
    BY <2>1, Refused
  <2>3. Truthful(c, r)'
    BY <1>1, <1>2, <1>3, <1>7, <2>2 DEF Truthful
  <2>4. QED BY <1>1, <1>3, <1>4, <1>7, <2>2, <2>3, Said
<1>8. ASSUME NEW r, r = Cached(shown, held), reply' = {r} PROVE CourseInv'
  <2>1. /\ Explains(c, r) /\ r.status \in {200, 304}
        /\ r.status = 200 => r.body = shown
        /\ r.status = 304 => held = {shown}
    BY <1>8, CachedExplains
  <2>2. Truthful(c, r)'
    BY <1>1, <1>2, <1>3, <2>1 DEF Truthful
  <2>3. QED BY <1>1, <1>3, <1>4, <1>8, <2>1, <2>2, Said
<1>9. QED BY <1>5, <1>6, <1>7, <1>8

\* What is said of a token, and of the VTN's health, shows nothing of the store.
LEMMA AsideCourse ==
  ASSUME CallInv, CourseInv, NEW c \in call, Grant(c) \/ Healthy(c)
  PROVE  CourseInv'
<1>1. /\ call = {c} /\ Waiting /\ reply = {} /\ answer = {} /\ gates # <<>>
      /\ UNCHANGED <<call, answer, result, held, objects, seen, did>>
  BY DEF CallInv, Grant, Healthy, Serving, At, client, server, history, None
<1>2. \/ c.kind = "token" /\ c.method = "POST" /\ c.method \in Writes
      \/ c.kind = "health" /\ c.method = "GET" /\ c.method \notin Writes
  BY <1>1, First, Placed DEF Grant, Healthy, At, Writes
<1>3. did = <<>> /\ Readable(c, objects') \in seen'
  <2>1. Readable(c, objects) \in seen
    BY <1>1 DEF CourseInv, CourseOK, Waiting, None
  <2>2. did = <<>>
    BY <1>1 DEF CourseInv, Waiting, None
  <2>3. QED BY <1>1, <2>1, <2>2
<1>4. \/ reply' = {Shows(200, {})}
      \/ \E r \in Unreachable : reply' = {r}
      \/ c.kind = "token" /\ reply' = {OAuthError}
      \/ c.kind = "token" /\ \E r \in Refuse("Unavailable", TRUE) : reply' = {r}
  <2>1. CASE Grant(c)
    <3>1. c.kind = "token"
      BY <1>1, <2>1, First, Placed DEF Grant, At
    <3>2. QED BY <2>1, <3>1 DEF Grant, Says
  <2>2. CASE Healthy(c)
    BY <2>2 DEF Healthy, Says
  <2>3. QED BY <2>1, <2>2
<1>5. ASSUME NEW r, reply' = {r}, Explains(c, r),
             r.status = 200 \/ (r.status \in Nat /\ r.status >= 400),
             r.status >= 400 => c.kind = "token" \/ r.status # 404
      PROVE  CourseInv'
  <2>1. Truthful(c, r)'
    BY <1>1, <1>2, <1>3, <1>5 DEF Truthful
  <2>2. QED BY <1>1, <1>3, <1>5, <2>1, Said
<1>6. ASSUME NEW r, r = Shows(200, {}), reply' = {r} PROVE CourseInv'
  <2>1. Explains(c, r) /\ r.status = 200
    BY <1>6, ShowsExplains
  <2>2. QED BY <1>5, <1>6, <2>1
<1>7. ASSUME NEW r \in Unreachable, reply' = {r} PROVE CourseInv'
  <2>1. Explains(c, r) /\ r.status = 500
    BY UnreachableExplains
  <2>2. QED BY <1>5, <1>7, <2>1
<1>8. ASSUME c.kind = "token", NEW r, r = OAuthError, reply' = {r} PROVE CourseInv'
  <2>1. Explains(c, r) /\ r.status = 400
    BY <1>8, OAuthExplains
  <2>2. QED BY <1>5, <1>8, <2>1
<1>9. ASSUME c.kind = "token", NEW r \in Refuse("Unavailable", TRUE), reply' = {r} PROVE CourseInv'
  <2>1. "Unavailable" \in DOMAIN ErrorTable
    BY DEF ErrorTable
  <2>2. Explains(c, r) /\ r.status >= 400 /\ r.status \in Nat
    BY <2>1, Refused
  <2>3. QED BY <1>5, <1>9, <2>2
<1>10. QED BY <1>4, <1>6, <1>7, <1>8, <1>9

-----------------------------------------------------------------------------
\* An answer that explains itself and is true may be given to the call it is about.
LEMMA AnswerCourse ==
  ASSUME CourseInv, NEW c, call = {c}, NEW a, answer' = {a}, Explained(a), Truthful(c, a),
         UNCHANGED <<call, reply, result, held, objects, seen, did, counts>>
  PROVE  CourseInv'
<1>1. CourseOK(c)
  BY DEF CourseInv
<1>2. TooLong' = TooLong /\ IsTokenRequest' = IsTokenRequest
  BY DEF TooLong, IsTokenRequest
<1>3. \A r : Truthful(c, r)' = Truthful(c, r) /\ ToldTruly(c, r)' = ToldTruly(c, r)
  BY <1>2 DEF Truthful, ToldTruly
<1>4. Explained(a)'
  BY <1>2 DEF Explained
<1>5. CourseOK(c)'
  BY <1>1, <1>3, <1>4 DEF CourseOK
<1>6. QED BY <1>5 DEF CourseInv

\* The layers pass a handler's answer on.
LEMMA RespondCourse ==
  ASSUME CallInv, CourseInv, Respond
  PROVE  CourseInv'
<1>1. /\ UNCHANGED <<call, reply, result, held, objects, seen, did, counts>> /\ call # {}
      /\ \E r \in reply : answer' = {ProblemResponses(r, counts.calls)}
  BY DEF Respond, Answers, Waiting, server, client, history, None
<1>2. PICK c : call = {c} /\ CourseOK(c)
  BY <1>1 DEF CallInv, CourseInv
<1>3. PICK r \in reply : answer' = {ProblemResponses(r, counts.calls)}
  BY <1>1
<1> PICK a : a = ProblemResponses(r, counts.calls)
  OBVIOUS
<1>4. Explained(a) /\ Truthful(c, a)
  BY <1>2, StampExplains DEF CourseOK
<1>5. QED BY <1>1, <1>2, <1>3, <1>4, AnswerCourse

\* The deadline makes an answer of its own.
LEMMA TimeOutCourse ==
  ASSUME CallInv, CourseInv, TimeOut
  PROVE  CourseInv'
<1>1. /\ UNCHANGED <<call, reply, result, held, objects, seen, did, counts>> /\ call # {}
      /\ answer' = {ProblemResponses(Bare(504), counts.calls)}
  BY DEF TimeOut, Answers, Waiting, server, client, history, None
<1>2. PICK c : call = {c}
  BY <1>1 DEF CallInv
<1> PICK a : a = ProblemResponses(Bare(504), counts.calls)
  OBVIOUS
<1>3. Explained(a) /\ Truthful(c, a)
  BY TimeOutExplains
<1>4. QED BY <1>1, <1>2, <1>3, AnswerCourse

\* Of a call that is lost the client is told nothing.
LEMMA LoseCourse ==
  ASSUME CallInv, CourseInv, Lose
  PROVE  CourseInv'
<1> PICK out : out = [is |-> "transport"]
  OBVIOUS
<1>1. /\ UNCHANGED <<call, held, objects, seen, did, counts>> /\ call # {}
      /\ result' = {out} /\ reply' = {} /\ answer' = {} /\ out.is = "transport"
  BY DEF Lose, Waiting, server, history, None
<1>2. PICK c : call = {c} /\ CourseOK(c)
  BY <1>1 DEF CallInv, CourseInv
<1>3. ToldTruly(c, out)'
  BY <1>1 DEF ToldTruly
<1>4. CourseOK(c)'
  BY <1>1, <1>2, <1>3 DEF CourseOK
<1>5. QED BY <1>1, <1>2, <1>4 DEF CourseInv

\* The client gets what the layers made of it.
LEMMA ReceiveCourse ==
  ASSUME CallInv, CourseInv, Receive
  PROVE  CourseInv'
<1>1. /\ UNCHANGED <<call, reply, answer, held, objects, seen, did, counts>>
      /\ \E c \in call, a \in answer :
            result' = {IF c.via = "try_get" THEN TryGet(SendRaw(a)) ELSE SendRaw(a)}
  BY DEF Receive, progress, server, history
<1>2. PICK c \in call, a \in answer : result' \in {{SendRaw(a)}, {TryGet(SendRaw(a))}}
  BY <1>1
<1>3. call = {c} /\ CourseOK(c)
  BY <1>2 DEF CallInv, CourseInv
<1> PICK out : out = SendRaw(a)
  OBVIOUS
<1>4. PICK r \in {out, TryGet(out)} : result' = {r}
  BY <1>2
<1>5. ToldTruly(c, r)
  BY <1>2, <1>3, <1>4, ReceiveTells DEF CourseOK
<1>6. TooLong' = TooLong /\ IsTokenRequest' = IsTokenRequest
  BY <1>1 DEF TooLong, IsTokenRequest
<1>7. ToldTruly(c, r)'
  BY <1>1, <1>5, <1>6 DEF ToldTruly
<1>8. \A b : Truthful(c, b)' = Truthful(c, b) /\ Explained(b)' = Explained(b)
  BY <1>1, <1>6 DEF Truthful, Explained
<1>9. CourseOK(c)'
  BY <1>1, <1>2, <1>3, <1>4, <1>7, <1>8 DEF CourseOK
<1>10. QED BY <1>1, <1>2, <1>3, <1>4, <1>9 DEF CourseInv

\* Meanwhile, what the call could see is what it might be told.
LEMMA TouchCourse ==
  ASSUME CallInv, CourseInv, NEW id \in DOMAIN objects, NEW doc, Touch(id, doc)
  PROVE  CourseInv'
<1>1. /\ UNCHANGED <<call, reply, answer, result, held, did>>
      /\ call # {} /\ answer = {} /\ result = {}
      /\ seen' = seen \cup UNION {{Readable(c, objects')} : c \in call}
      /\ counts' = [counts EXCEPT !.others = @ + 1]
  BY DEF Touch, Waiting, client, progress, None
<1>2. PICK c : call = {c} /\ CourseOK(c)
  BY <1>1 DEF CallInv, CourseInv
<1>3. seen \subseteq seen' /\ Readable(c, objects') \in seen'
  <2>1. seen' = seen \cup UNION {{Readable(c, objects')}}
    BY <1>1, <1>2
  <2>2. QED BY <2>1
<1>4. \A r : Truthful(c, r) => Truthful(c, r)'
  BY <1>1, <1>3, StaysTrue
<1>5. CourseOK(c)'
  BY <1>1, <1>2, <1>3, <1>4 DEF CourseOK
<1>6. QED BY <1>1, <1>2, <1>5 DEF CourseInv

\* What is answered and told stays explained and true.
LEMMA CourseInvNext == CallInv /\ StoreInv /\ CourseInv /\ [Next]_vars => CourseInv'
<1> SUFFICES ASSUME CallInv, StoreInv, CourseInv, [Next]_vars PROVE CourseInv'
  OBVIOUS
<1>1. CASE Finish
  BY <1>1 DEF Finish, CourseInv, None
<1>2. ASSUME NEW name \in DOMAIN Names, NEW answers \in ToSet(Names[name]), Rebind(name, answers)
      PROVE  CourseInv'
  <2>1. /\ UNCHANGED <<call, reply, answer, result, held, objects, seen, did>>
        /\ counts' = [counts EXCEPT !.others = @ + 1]
    BY <1>2 DEF Rebind, client, progress, history
  <2>2. counts'.calls = counts.calls
    BY <2>1 DEF CallInv
  <2>3. QED BY <2>1, <2>2, CourseStays
<1>3. CASE Posts
  <2>1. /\ UNCHANGED <<call, reply, answer, result, held, objects, seen, did>>
        /\ counts' = [counts EXCEPT !.others = @ + 1]
    BY <1>3 DEF Posts, Post, client, progress, server
  <2>2. counts'.calls = counts.calls
    BY <2>1 DEF CallInv
  <2>3. QED BY <2>1, <2>2, CourseStays
<1>4. CASE UNCHANGED vars
  <2>1. UNCHANGED <<call, reply, answer, result, held, objects, seen, did, counts>>
    BY <1>4 DEF vars, client, progress, server, history
  <2>2. QED BY <2>1, CourseStays
<1>5. ASSUME NEW c \in call, Check(c) \/ Own(c) \/ Challenge(c) PROVE CourseInv'
  BY <1>5, CheckCourse, OwnCourse, ChallengeCourse
<1>6. ASSUME NEW c \in call, \/ Create(c) \/ Update(c) \/ Delete(c)
                             \/ Fetch(c) \/ Grant(c) \/ Healthy(c)
      PROVE  CourseInv'
  BY <1>6, WriteCourse, FetchCourse, AsideCourse
<1>7. CASE Respond \/ TimeOut \/ Lose \/ Receive
  BY <1>7, RespondCourse, TimeOutCourse, LoseCourse, ReceiveCourse
<1>8. QED
  BY <1>1, <1>2, <1>3, <1>4, <1>5, <1>6, <1>7, SendCourse, TouchCourse DEF Next

\* There is no answer at first.
LEMMA CourseInvInit == Init => CourseInv
BY DEF Init, CourseInv, None

\* What explains itself to the layers does so to the client.
LEMMA CourseExplains == CallInv /\ CourseInv => ErrorsExplainThemselves
<1> SUFFICES ASSUME CallInv, CourseInv PROVE ErrorsExplainThemselves
  OBVIOUS
<1>1. ASSUME NEW a \in answer
      PROVE  \/ a.status < 400 \/ TooLong
             \/ /\ a.type = "problem" /\ a.slug \in PublishedFor(a.status)
                /\ a.instance = {counts.calls}
             \/ a.type = "json" /\ a.slug = "oauth" /\ a.status = 400 /\ IsTokenRequest
  <2>1. Explained(a)
    BY DEF CourseInv, CourseOK
  <2>2. QED BY <2>1 DEF Explained, IsProblem, IsOAuth
<1>2. ASSUME NEW r \in result, r.is = "error", r.slug = "unexpected"
      PROVE  TooLong \/ IsTokenRequest
  BY <1>2 DEF CourseInv, CourseOK, ToldTruly
<1>3. QED BY <1>1, <1>2 DEF ErrorsExplainThemselves

\* What is told truly is the truth.
LEMMA CourseTells == CallInv /\ CourseInv => AnswersTellTheTruth
<1> SUFFICES ASSUME CallInv, CourseInv, NEW c \in call, NEW r \in result
             PROVE  IF c.method \in Writes
                    THEN CASE r.is = "value" /\ c.kind # "token" ->
                                  did = <<[op |-> c.method, shown |-> r.shown]>>
                           [] r.is = "error" /\ r.status < 500 -> did = <<>>
                           [] OTHER -> Len(did) <= 1
                    ELSE /\ did = <<>>
                         /\ r.is = "value" /\ c.kind # "health" => r.shown \in seen
                         /\ r.is = "absent" => {} \in seen
                         /\ r.is = "unchanged" => held \cap seen # {}
  BY DEF AnswersTellTheTruth
<1>1. CourseOK(c) /\ ToldTruly(c, r)
  BY DEF CourseInv, CourseOK
<1>2. /\ did = <<>> \/ \E change : did = <<change>>
      /\ c.method \notin Writes => did = <<>>
  BY <1>1 DEF CourseOK
<1>3. Len(did) <= 1
  <2>1. CASE did = <<>>
    BY <2>1
  <2>2. ASSUME NEW change, did = <<change>> PROVE Len(did) <= 1
    <3>1. Len(did) = 1
      BY <2>2
    <3>2. QED BY <3>1
  <2>3. QED BY <1>2, <2>1, <2>2
<1>4. QED BY <1>1, <1>2, <1>3 DEF ToldTruly

-----------------------------------------------------------------------------
(***************************************************************************)
(* Where the VTN calls, and what a receiver makes of it.                   *)
(***************************************************************************)
\* A connection that is not refused leads to no address that is reserved and not missed.
LEMMA ConnectIsPublic ==
  ASSUME CallInv, NEW policy, ~ policy.allowPrivate,
         NEW d \in DOMAIN Docs, NEW i \in DOMAIN Docs[d].operations,
         NEW url, url = Docs[d].operations[i].url, CheckLiteral(policy, url) = {},
         NEW found, found = Connect(policy, url, dns), found.err = {}, NEW a \in found.addresses
  PROVE  Inside(a) => Missed(a)
<1> PICK host : host = url.host
  OBVIOUS
<1>1. host.is # "none" /\ ~ IsLocal(host)
  BY DEF CheckLiteral
<1>2. /\ host.is \in {"address", "domain", "none"}
      /\ host.is = "address" => IsAddress(host.at)
      /\ host.is = "domain" => host.at \in DOMAIN Names \cup {"localhost"}
  BY AddressesAssumption
<1>3. CASE host.is = "address"
  <2>1. a = host.at
    BY <1>3 DEF Connect
  <2>2. IsAddress(a) /\ ~ IsPrivate(a)
    BY <1>1, <1>2, <1>3, <2>1 DEF IsLocal
  <2>3. QED BY <2>2, ReservedIsPrivate
<1>4. CASE host.is = "domain"
  <2>1. host.at \in DOMAIN Names
    BY <1>1, <1>2, <1>4 DEF IsLocal
  <2>2. PICK n \in DOMAIN Names[host.at] : dns[host.at] = Names[host.at][n]
    BY <2>1 DEF CallInv
  <2> PICK answers : answers = Names[host.at][n]
    OBVIOUS
  <2> PICK all : all = GuardedResolve(policy, answers)
    OBVIOUS
  <2>3. \A j \in DOMAIN answers : IsAddress(answers[j])
    BY <2>1, <2>2, AddressesAssumption
  <2>4. all.err = {} => (a \in all.addresses /\ \A j \in DOMAIN answers : ~ IsPrivate(answers[j]))
    BY <1>4, <2>2 DEF Connect, GuardedResolve
  <2>5. all.err = {}
    BY <1>4, <2>2 DEF Connect, GuardedResolve
  <2>6. PICK j \in DOMAIN answers : a = answers[j]
    BY <2>4, <2>5 DEF GuardedResolve
  <2>7. QED BY <2>3, <2>4, <2>5, <2>6, ReservedIsPrivate
<1>5. QED BY <1>1, <1>2, <1>3, <1>4

\* The challenge of a callback opens sockets as a delivery does.
LEMMA ChallengePublic ==
  ASSUME CallInv, NEW c \in call, Challenge(c), ~ config.transport.allowPrivate,
         \A a \in contacted : Inside(a) => Missed(a)
  PROVE  \A a \in contacted' : Inside(a) => Missed(a)
<1> PICK urls : urls = Urls(Docs[c.doc])
  OBVIOUS
<1> PICK left : left = {i \in DOMAIN urls : urls[i] \notin proved}
  OBVIOUS
<1> PICK url : url = urls[Min(left)]
  OBVIOUS
<1> PICK found : found = Connect(config.transport, url, dns)
  OBVIOUS
<1>1. \/ contacted' = contacted
      \/ /\ left # {} /\ contacted' = found.addresses /\ found.err = {}
         /\ CheckLiteral(config.transport, url) = {}
  BY DEF Challenge
<1>2. c.doc \in DOMAIN Docs
  <2>1. /\ Passing(c) /\ gates # <<>> /\ Head(gates) = "challenged" /\ call # {}
    BY DEF CallInv, Challenge, At
  <2>2. "challenged" \in ToSet(gates) /\ "body" \in ToSet(Path(c))
    BY <2>1, First, Placed
  <2>3. "body" \notin ToSet(gates)
    <3>1. /\ gates \in Seq(Gates) /\ Head(gates) = gates[1] /\ Len(gates) \in Nat
          /\ DOMAIN gates = 1 .. Len(gates) /\ 1 \in DOMAIN gates
      BY <2>1, LenProperties DEF Passing, Ordered
    <3> SUFFICES ASSUME NEW j \in DOMAIN gates, gates[j] = "body" PROVE FALSE
      BY DEF ToSet
    <3>2. 1 < j
      BY <2>1, <3>1
    <3>3. QED BY <2>1, <3>1, <3>2 DEF Passing, Ordered
  <2>4. ParseBody(c) = {}
    <3>1. Refusals("body", c) = {}
      BY <2>1, <2>2, <2>3 DEF Passing, CheckedSoFar, Waits, Effects
    <3>2. QED BY <3>1 DEF Refusals
  <2>5. QED BY <2>4 DEF ParseBody, Refuse
<1>3. ASSUME left # {}, found.err = {}, CheckLiteral(config.transport, url) = {},
             NEW a \in found.addresses
      PROVE  Inside(a) => Missed(a)
  <2>1. DOMAIN urls = DOMAIN Docs[c.doc].operations /\ DOMAIN urls \subseteq Nat
    BY <1>2, AddressesAssumption DEF Urls
  <2>2. left \in SUBSET Nat
    BY <2>1
  <2>3. Min(left) \in left
    BY <1>3, <2>2, LeastIs
  <2> PICK i : i = Min(left)
    OBVIOUS
  <2>4. i \in DOMAIN Docs[c.doc].operations /\ url = Docs[c.doc].operations[i].url
    BY <2>1, <2>3 DEF Urls
  <2> PICK policy : policy = config.transport
    OBVIOUS
  <2>5. QED BY <1>2, <1>3, <2>4, ConnectIsPublic
<1>4. QED BY <1>1, <1>3

\* What is accepted is what was signed, as it was sent, in time.
TakenRightly(p) ==
  p.accepted <=> /\ p.sent /\ config.signing = {"key"}
                 /\ AbsOf(p.drift) <= Tolerance
                 /\ p.how = "no" \/ (p.how = "at" /\ p.drift = 0)

\* A delivery is accepted if it was signed with the receiver's key and came as it was sent, in
\* time.
LEMMA SignedAndInTime ==
  ASSUME CallInv, NEW drift \in Int, NEW how \in {"no", "body", "at", "version"},
         NEW accepted, accepted = \E h \in SignedHeaders(config.signing, 0, "body") :
                              VerifyErrors(Altered(h, how, drift), "key",
                                           IF how = "body" THEN "other" ELSE "body",
                                           drift, Tolerance) = {}
  PROVE  accepted <=> /\ config.signing = {"key"} /\ AbsOf(drift) <= Tolerance
                      /\ how = "no" \/ (how = "at" /\ drift = 0)
<1> PICK keys : keys = config.signing
  OBVIOUS
<1>1. \A key, other \in keys : key = other
  BY ConfigsAssumption DEF CallInv
<1>2. ASSUME NEW key, NEW h, h = [version |-> Version, digest |-> Mac(key, 0, "body"), at |-> 0]
      PROVE  VerifyErrors(Altered(h, how, drift), "key", IF how = "body" THEN "other" ELSE "body",
                          drift, Tolerance) = {}
             <=> /\ key = "key" /\ AbsOf(drift) <= Tolerance
                 /\ how = "no" \/ (how = "at" /\ drift = 0)
  <2>0. /\ h.version = "v1" /\ h.digest = Mac(key, 0, "body") /\ h.at = 0
        /\ AbsOf(0) = 0 /\ Tolerance \in Nat
    BY <1>2, CallsAssumption DEF Version, AbsOf
  <2>1. CASE how = "no"
    <3>1. Mac(key, 0, "body") = Mac("key", 0, "body") <=> key = "key"
      BY DEF Mac
    <3> PICK g : g = Altered(h, how, drift)
      OBVIOUS
    <3>2. g.version = "v1" /\ g.digest = Mac(key, 0, "body") /\ g.at = 0
      BY <2>0, <2>1 DEF Altered, Version
    <3>3. drift - 0 = drift /\ AbsOf(drift) \in Int
      BY DEF AbsOf
    <3>4. QED BY <2>0, <2>1, <3>1, <3>2, <3>3 DEF VerifyErrors, Version
  <2>2. CASE how = "body"
    <3>1. Mac(key, 0, "body") # Mac("key", 0, "other")
      BY DEF Mac
    <3>2. QED BY <2>0, <2>2, <3>1 DEF VerifyErrors, Altered, Version
  <2>3. CASE how = "at"
    <3>1. Mac(key, 0, "body") = Mac("key", drift, "body") <=> key = "key" /\ drift = 0
      BY DEF Mac
    <3> PICK g : g = Altered(h, how, drift)
      OBVIOUS
    <3>2. g.version = "v1" /\ g.digest = Mac(key, 0, "body") /\ g.at = drift
      BY <1>2, <2>3 DEF Altered, Version
    <3>3. QED BY <2>0, <2>3, <3>1, <3>2 DEF VerifyErrors, Version, AbsOf
  <2>4. CASE how = "version"
    <3> PICK g : g = Altered(h, how, drift)
      OBVIOUS
    <3>1. g.version = "v0"
      BY <1>2, <2>4 DEF Altered, Version
    <3>2. QED BY <2>4, <3>1 DEF VerifyErrors, Version
  <2>5. QED BY <2>1, <2>2, <2>3, <2>4
<1> DEFINE fine == AbsOf(drift) <= Tolerance /\ (how = "no" \/ (how = "at" /\ drift = 0))
<1>3. accepted <=> \E key \in keys : key = "key" /\ fine
  BY <1>2 DEF SignedHeaders
<1>4. (\E key \in keys : key = "key") <=> keys = {"key"}
  BY <1>1
<1>5. QED BY <1>3, <1>4

\* A delivery to a stored callback.
LEMMA PostIsPublic ==
  ASSUME CallInv, StoreInv, PostsStayPublic, NEW id \in DOMAIN objects,
         NEW url \in ToSet(Urls(Docs[objects[id].doc])),
         NEW drift \in Int, NEW how \in {"no", "body", "at", "version"}, Post(url, drift, how)
  PROVE  PostsStayPublic'
<1> PICK found : found = Connect(config.transport, url, dns)
  OBVIOUS
<1> PICK sent : sent = (CheckLiteral(config.transport, url) \cup found.err = {})
  OBVIOUS
<1> PICK accepted : accepted = \E h \in SignedHeaders(config.signing, 0, "body") :
                              VerifyErrors(Altered(h, how, drift), "key",
                                           IF how = "body" THEN "other" ELSE "body",
                                           drift, Tolerance) = {}
  OBVIOUS
<1>1. /\ contacted' = IF sent THEN found.addresses ELSE {}
      /\ posted' = {[sent |-> sent, drift |-> drift, how |-> how, accepted |-> sent /\ accepted]}
      /\ config' = config
  BY DEF Post, server
<1>2. \A p \in posted' : TakenRightly(p)
  <2>1. accepted <=> /\ config.signing = {"key"} /\ AbsOf(drift) <= Tolerance
                     /\ how = "no" \/ (how = "at" /\ drift = 0)
    BY SignedAndInTime
  <2>2. ASSUME NEW p \in posted' PROVE TakenRightly(p)
    <3> PICK both : both = (sent /\ accepted)
      OBVIOUS
    <3>1. p = [sent |-> sent, drift |-> drift, how |-> how, accepted |-> both]
      BY <1>1
    <3>2. p.sent = sent /\ p.drift = drift /\ p.how = how /\ p.accepted = both
      BY <3>1
    <3>3. QED BY <2>1, <3>2 DEF TakenRightly
  <2>3. QED BY <2>2
<1>3. ASSUME ~ config.transport.allowPrivate, NEW a \in contacted' PROVE Inside(a) => Missed(a)
  <2> PICK d : d = objects[id].doc
    OBVIOUS
  <2>1. d \in DOMAIN Docs
    BY DEF StoreInv, WellKinded, Object
  <2>2. PICK i \in DOMAIN Docs[d].operations : url = Docs[d].operations[i].url
    BY DEF ToSet, Urls
  <2>3. CheckLiteral(config.transport, url) = {} /\ found.err = {} /\ a \in found.addresses
    BY <1>1, <1>3
  <2> PICK policy : policy = config.transport
    OBVIOUS
  <2>4. QED BY <1>3, <2>1, <2>2, <2>3, ConnectIsPublic
<1>4. QED BY <1>1, <1>2, <1>3 DEF PostsStayPublic, TakenRightly

\* What is known to be public stays so.
LEMMA PublicNext == CallInv /\ StoreInv /\ PostsStayPublic /\ [Next]_vars => PostsStayPublic'
<1> SUFFICES ASSUME CallInv, StoreInv, PostsStayPublic, [Next]_vars PROVE PostsStayPublic'
  OBVIOUS
<1>1. ASSUME NEW c \in Calls, Send(c) PROVE PostsStayPublic'
  BY <1>1 DEF Send, server, PostsStayPublic, None
<1>2. ASSUME NEW c \in call, Challenge(c) PROVE PostsStayPublic'
  <2>1. UNCHANGED <<config, posted>>
    BY <1>2 DEF Challenge, server
  <2>2. ~ config.transport.allowPrivate => \A a \in contacted' : Inside(a) => Missed(a)
    BY <1>2, ChallengePublic DEF PostsStayPublic
  <2>3. QED BY <2>1, <2>2 DEF PostsStayPublic
<1>3. CASE Posts
  <2>1. /\ Tolerance \in Int /\ Tolerance + 1 \in Int /\ -Tolerance - 1 \in Int /\ 0 \in Int
        /\ {"no", "at"} \cup {"body", "at", "version"} = {"no", "body", "at", "version"}
    BY CallsAssumption
  <2>2. \E id \in DOMAIN objects : \E url \in ToSet(Urls(Docs[objects[id].doc])) :
          \E drift \in Int, how \in {"no", "body", "at", "version"} : Post(url, drift, how)
    BY <1>3, <2>1 DEF Posts
  <2>3. QED BY <2>2, PostIsPublic
<1>4. CASE Finish
  BY <1>4 DEF Finish, server, PostsStayPublic
<1>5. ASSUME UNCHANGED <<config, contacted, posted>> PROVE PostsStayPublic'
  BY <1>5 DEF PostsStayPublic
<1>6. ASSUME NEW c \in call, Check(c) \/ Own(c) \/ Create(c) \/ Update(c) \/ Delete(c)
      PROVE  PostsStayPublic'
  <2>1. UNCHANGED <<config, contacted, posted>>
    BY <1>6 DEF Check, Own, Create, Update, Delete, server, history
  <2>2. QED BY <1>5, <2>1
<1>7. ASSUME NEW c \in call, Fetch(c) \/ Grant(c) \/ Healthy(c) PROVE PostsStayPublic'
  <2>1. UNCHANGED <<config, contacted, posted>>
    BY <1>7 DEF Fetch, Grant, Healthy, server, history
  <2>2. QED BY <1>5, <2>1
<1>8. ASSUME Respond \/ TimeOut \/ Lose \/ Receive \/ UNCHANGED vars PROVE PostsStayPublic'
  <2>1. UNCHANGED <<config, contacted, posted>>
    BY <1>8 DEF Respond, TimeOut, Lose, Receive, vars, server, history
  <2>2. QED BY <1>5, <2>1
<1>9. ASSUME NEW id \in DOMAIN objects, NEW doc, Touch(id, doc) PROVE PostsStayPublic'
  BY <1>5, <1>9 DEF Touch
<1>10. ASSUME NEW name \in DOMAIN Names, NEW answers, Rebind(name, answers) PROVE PostsStayPublic'
  BY <1>5, <1>10 DEF Rebind, history
<1>11. QED
  BY <1>1, <1>2, <1>3, <1>4, <1>6, <1>7, <1>8, <1>9, <1>10 DEF Next

\* Nobody is called before there is a call.
LEMMA PublicInit == Init => PostsStayPublic
BY DEF Init, PostsStayPublic, None

-----------------------------------------------------------------------------
(***************************************************************************)
(* What holds of every request.                                            *)
(***************************************************************************)
\* Whatever the handlers of vtn/api store, however it got there and whatever replaced it, has
\* passed the checks, and the endpoints of its callbacks returned a challenge.
THEOREM NothingStoredUnchecked == Spec => []NothingUncheckedIsStored
<1>1. CallInv /\ StoreInv /\ [Next]_vars => (CallInv /\ StoreInv)'
  BY CallInvNext, StoreInvNext
<1>2. StoreInv => NothingUncheckedIsStored
  BY DEF StoreInv
<1>3. QED BY <1>1, <1>2, CallInvInit, StoreInvInit, PTL DEF Spec

\* Whatever refuses a request - ApiError, the layers of vtn/mod.rs, the store, the deadline -
\* problem_responses makes its answer a published problem with this request's id, unless it
\* is too long to be read back or the token endpoint's own.
THEOREM ErrorsExplained == Spec => []ErrorsExplainThemselves
<1>1. CallInv /\ StoreInv /\ CourseInv /\ [Next]_vars => (CallInv /\ StoreInv /\ CourseInv)'
  BY CallInvNext, StoreInvNext, CourseInvNext
<1>2. Init => CallInv /\ StoreInv /\ CourseInv
  BY CallInvInit, StoreInvInit, CourseInvInit
<1>3. QED BY <1>1, <1>2, CourseExplains, PTL DEF Spec

\* What client.rs reports of a write is what the store did, once at most, and what it reports
\* of a read was true at some moment since it asked, whatever others wrote meanwhile.
THEOREM ClientsToldTheTruth == Spec => []AnswersTellTheTruth
<1>1. CallInv /\ StoreInv /\ CourseInv /\ [Next]_vars => (CallInv /\ StoreInv /\ CourseInv)'
  BY CallInvNext, StoreInvNext, CourseInvNext
<1>2. Init => CallInv /\ StoreInv /\ CourseInv
  BY CallInvInit, StoreInvInit, CourseInvInit
<1>3. QED BY <1>1, <1>2, CourseTells, PTL DEF Spec

\* Unless it may, the VTN opens no socket to a reserved address, in a challenge or in a delivery
\* (GuardedResolver), whatever DNS says by then; and Signature::verify accepts a delivery if
\* and only if it was signed with the receiver's key and arrived as it was sent, in time.
THEOREM CallbacksArePublic == Spec => []PostsStayPublic
<1>1. CallInv /\ StoreInv /\ PostsStayPublic /\ [Next]_vars
        => (CallInv /\ StoreInv /\ PostsStayPublic)'
  BY CallInvNext, StoreInvNext, PublicNext
<1>2. Init => CallInv /\ StoreInv /\ PostsStayPublic
  BY CallInvInit, StoreInvInit, PublicInit
<1>3. QED BY <1>1, <1>2, PTL DEF Spec
=============================================================================

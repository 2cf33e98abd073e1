-------------------------- MODULE VenRuntimeProofs --------------------------
(***************************************************************************)
(* Proofs about Schedules and VenRuntime, for any events, pages, intervals *)
(* and clocks.                                                             *)
(*                                                                         *)
(* Of Schedules: a pass over intervals lists one part of each at a time    *)
(* (IsPass), what an event repeats is Sound, a window Shows what overlaps  *)
(* it, and a timeline Resolves every instant of its window: the first      *)
(* claim of an instant has it.                                             *)
(*                                                                         *)
(* Of VenRuntime: ReadInv: a version of an event never says two things,    *)
(* what was read of a list that did not change meanwhile is its beginning, *)
(* and the VEN's tag is that of a page that was the whole list. ReportInv: *)
(* one copy of every report is remembered, by the process or on disk, and  *)
(* for every other there was a reason. SleepInv: the process is to wake    *)
(* before the next boundary of any timeline. ScheduleInv: its timelines    *)
(* are those of what it holds as they were built at some instant, which    *)
(* tell the same (TellAlike) of any instant as those built later.          *)
(***************************************************************************)
EXTENDS VenRuntime, Schedules, FiniteSetTheorems, SequenceTheorems, WellFoundedInduction, TLAPS

-----------------------------------------------------------------------------
(***************************************************************************)
(* Sequences, and what is defined from one number to the next.             *)
(***************************************************************************)

\* Of some later instants one is the first.
LEMMA FirstLater ==
  ASSUME NEW after \in Int, NEW S \in SUBSET Int, S # {}, \A t \in S : t > after
  PROVE  \E m \in S : \A t \in S : m <= t
<1> DEFINE R == OpToRel(<, Nat)
           T == {t - after : t \in S}
<1>1. \A m, n \in Nat : <<n, m>> \notin R => m <= n
  BY DEF OpToRel
<1>2. IsWellFoundedOn(R, Nat)
  BY NatLessThanWellFounded, Zenon
<1> HIDE DEF R
<1>3. T \subseteq Nat /\ T # {}
  <2>1. \A t \in S : t - after \in Nat
    OBVIOUS
  <2>2. T \subseteq Nat
    BY <2>1
  <2>3. PICK t : t \in S
    OBVIOUS
  <2>4. t - after \in T
    BY <2>3
  <2>5. QED BY <2>2, <2>4
<1>4. \E m \in T : \A n \in T : <<n, m>> \notin R
  <2> HIDE DEF T
  <2>1. QED BY <1>2, <1>3, WFMin
<1>5. PICK m \in T : \A n \in T : <<n, m>> \notin R
  BY <1>4
<1>6. \A n \in T : m <= n
  <2> HIDE DEF T
  <2> SUFFICES ASSUME NEW n \in T PROVE m <= n
    OBVIOUS
  <2>1. n \in Nat /\ m \in Nat /\ <<n, m>> \notin R
    BY <1>3, <1>5
  <2>2. QED BY <1>1, <2>1
<1>7. PICK t \in S : m = t - after
  OBVIOUS
<1>8. ASSUME NEW u \in S PROVE t <= u
  <2>1. u - after \in T
    OBVIOUS
  <2> HIDE DEF T
  <2>2. t - after <= u - after /\ t \in Int /\ u \in Int
    BY <1>6, <1>7, <2>1
  <2>3. QED BY <2>2
<1>9. QED BY <1>8

\* What holds of 0 and of each number after one it holds of, holds up to n.
LEMMA UpTo ==
  ASSUME NEW n \in Nat, NEW T, 0 \in T, \A k \in 1 .. n : k - 1 \in T => k \in T
  PROVE  \A k \in 0 .. n : k \in T
<1> DEFINE wrong == {k \in 0 .. n : k \notin T}
<1> SUFFICES ASSUME wrong # {} PROVE FALSE
  OBVIOUS
<1>1. PICK m \in wrong : \A k \in wrong : m <= k
  <2>1. PICK a : a = -1
    OBVIOUS
  <2>2. a \in Int /\ wrong \in SUBSET Int /\ \A k \in wrong : k > a
    BY <2>1
  <2> HIDE DEF wrong
  <2>3. QED BY <2>2, FirstLater
<1>2. m \in 1 .. n /\ m - 1 \in 0 .. n /\ m - 1 \notin wrong
  BY <1>1
<1>3. QED BY <1>2

\* Each value of f is made by a step from the one before it.
Follows(f, n, base, step) == f[0] = base /\ \A k \in 1 .. n : f[k] = step[k][f[k - 1]]
Steps(f, n, S, base, step) == f \in [0 .. n -> S] /\ Follows(f, n, base, step)

\* A function may be defined from each number to the next.
LEMMA StepByStep ==
  ASSUME NEW n, n \in Nat, NEW S, NEW base, base \in S, NEW step, step \in [1 .. n -> [S -> S]]
  PROVE  \E f : Steps(f, n, S, base, step)
<1> DEFINE Reached(k) == \E f : f \in [0 .. k -> S] /\ Follows(f, k, base, step)
           T == {k \in 0 .. n : Reached(k)}
<1>1. 0 \in T
  <2>1. PICK f : f = [j \in 0 .. 0 |-> base]
    OBVIOUS
  <2>2. f \in [0 .. 0 -> S] /\ f[0] = base /\ 1 .. 0 = {}
    BY <2>1
  <2>3. Reached(0)
    BY <2>2 DEF Follows
  <2> HIDE DEF Reached
  <2>4. QED BY <2>3
<1>2. ASSUME NEW k \in 1 .. n, k - 1 \in T PROVE k \in T
  <2>1. PICK f : f \in [0 .. k - 1 -> S] /\ Follows(f, k - 1, base, step)
    BY <1>2
  <2>2. PICK g : g = [j \in 0 .. k |-> IF j = k THEN step[k][f[k - 1]] ELSE f[j]]
    OBVIOUS
  <2>3. g \in [0 .. k -> S]
    <3>1. step[k] \in [S -> S] /\ f[k - 1] \in S
      BY <2>1
    <3>2. step[k][f[k - 1]] \in S
      BY <3>1
    <3>3. \A j \in 0 .. k : j # k => f[j] \in S
      BY <2>1
    <3>4. QED BY <2>2, <3>2, <3>3
  <2>4. \A j \in 0 .. k - 1 : g[j] = f[j]
    BY <2>2
  <2>5. g[k] = step[k][g[k - 1]]
    BY <2>2, <2>4
  <2>6. Follows(g, k, base, step)
    BY <2>1, <2>4, <2>5 DEF Follows
  <2>7. Reached(k)
    BY <2>3, <2>6
  <2> HIDE DEF Reached
  <2>8. QED BY <2>7
<1>3. n \in T
  <2> HIDE DEF T
  <2>1. \A k \in 0 .. n : k \in T
    BY <1>1, <1>2, UpTo
  <2>2. QED BY <2>1
<1>4. Reached(n)
  BY <1>3
<1>5. QED BY <1>4 DEF Steps

-----------------------------------------------------------------------------
\* F has, in order, what the first k of some sequences have.
Flat(F, ss, k) ==
    \E row, col \in [DOMAIN F -> Nat] :
        /\ \A n \in DOMAIN F : /\ row[n] \in 1 .. k /\ col[n] \in DOMAIN ss[row[n]]
                                /\ F[n] = ss[row[n]][col[n]]
        /\ \A i \in 1 .. k : \A j \in DOMAIN ss[i] : \E n \in DOMAIN F : row[n] = i /\ col[n] = j
        /\ \A m, n \in DOMAIN F : m < n => \/ row[m] < row[n]
                                           \/ row[m] = row[n] /\ col[m] < col[n]

\* One sequence more, after the others.
LEMMA FlatNext ==
  ASSUME NEW S, NEW ss \in Seq(Seq(S)), NEW k \in 1 .. Len(ss), NEW F \in Seq(S),
         Flat(F, ss, k - 1)
  PROVE  F \o ss[k] \in Seq(S) /\ Flat(F \o ss[k], ss, k)
<1> PICK s : s = ss[k]
  OBVIOUS
<1> PICK G : G = F \o s
  OBVIOUS
<1>1. s \in Seq(S) /\ k \in DOMAIN ss
  OBVIOUS
<1>2. /\ G \in Seq(S) /\ Len(G) = Len(F) + Len(s) /\ Len(F) \in Nat /\ Len(s) \in Nat
      /\ DOMAIN F = 1 .. Len(F) /\ DOMAIN s = 1 .. Len(s) /\ DOMAIN G = 1 .. Len(G)
      /\ \A n \in DOMAIN G : G[n] = IF n <= Len(F) THEN F[n] ELSE s[n - Len(F)]
  BY <1>1, ConcatProperties, LenProperties
<1>3. PICK row, col \in [DOMAIN F -> Nat] :
        /\ \A n \in DOMAIN F : /\ row[n] \in 1 .. k - 1 /\ col[n] \in DOMAIN ss[row[n]]
                                /\ F[n] = ss[row[n]][col[n]]
        /\ \A i \in 1 .. k - 1 : \A j \in DOMAIN ss[i] :
              \E n \in DOMAIN F : row[n] = i /\ col[n] = j
        /\ \A m, n \in DOMAIN F : m < n => \/ row[m] < row[n]
                                           \/ row[m] = row[n] /\ col[m] < col[n]
  BY DEF Flat
<1>4. PICK row2 : row2 = [n \in DOMAIN G |-> IF n <= Len(F) THEN row[n] ELSE k]
  OBVIOUS
<1>5. PICK col2 : col2 = [n \in DOMAIN G |-> IF n <= Len(F) THEN col[n] ELSE n - Len(F)]
  OBVIOUS
<1>6. row2 \in [DOMAIN G -> Nat] /\ col2 \in [DOMAIN G -> Nat]
  BY <1>2, <1>4, <1>5
<1>7. \A n \in DOMAIN G : /\ row2[n] \in 1 .. k /\ col2[n] \in DOMAIN ss[row2[n]]
                          /\ G[n] = ss[row2[n]][col2[n]]
  <2> SUFFICES ASSUME NEW n \in DOMAIN G
               PROVE  /\ row2[n] \in 1 .. k /\ col2[n] \in DOMAIN ss[row2[n]]
                      /\ G[n] = ss[row2[n]][col2[n]]
    OBVIOUS
  <2>1. CASE n <= Len(F)
    <3>1. n \in DOMAIN F /\ row2[n] = row[n] /\ col2[n] = col[n] /\ G[n] = F[n]
      BY <1>2, <1>4, <1>5, <2>1
    <3>2. row[n] \in 1 .. k - 1 /\ col[n] \in DOMAIN ss[row[n]] /\ F[n] = ss[row[n]][col[n]]
      BY <1>3, <3>1
    <3>3. QED BY <3>1, <3>2
  <2>2. CASE n > Len(F)
    <3>1. row2[n] = k /\ col2[n] = n - Len(F) /\ G[n] = s[n - Len(F)]
      BY <1>2, <1>4, <1>5, <2>2
    <3>2. n - Len(F) \in DOMAIN s
      BY <1>2, <2>2
    <3>3. QED BY <3>1, <3>2
  <2>3. QED BY <1>2, <2>1, <2>2
<1>8. \A i \in 1 .. k : \A j \in DOMAIN ss[i] : \E n \in DOMAIN G : row2[n] = i /\ col2[n] = j
  <2> SUFFICES ASSUME NEW i \in 1 .. k, NEW j \in DOMAIN ss[i]
               PROVE  \E n \in DOMAIN G : row2[n] = i /\ col2[n] = j
    OBVIOUS
  <2>1. CASE i = k
    <3>1. j \in 1 .. Len(s) /\ j + Len(F) \in DOMAIN G /\ j + Len(F) > Len(F)
      BY <1>2, <2>1
    <3>2. row2[j + Len(F)] = k /\ col2[j + Len(F)] = j
      BY <1>2, <1>4, <1>5, <3>1
    <3>3. QED BY <2>1, <3>1, <3>2
  <2>2. CASE i # k
    <3>1. i \in 1 .. k - 1
      BY <2>2
    <3>2. PICK n \in DOMAIN F : row[n] = i /\ col[n] = j
      BY <1>3, <3>1
    <3>3. n \in DOMAIN G /\ row2[n] = row[n] /\ col2[n] = col[n]
      BY <1>2, <1>4, <1>5
    <3>4. QED BY <3>2, <3>3
  <2>3. QED BY <2>1, <2>2
<1>9. \A m, n \in DOMAIN G : m < n => \/ row2[m] < row2[n]
                                     \/ (row2[m] = row2[n] /\ col2[m] < col2[n])
  <2> SUFFICES ASSUME NEW m \in DOMAIN G, NEW n \in DOMAIN G, m < n
               PROVE  row2[m] < row2[n] \/ (row2[m] = row2[n] /\ col2[m] < col2[n])
    OBVIOUS
  <2>1. CASE n <= Len(F)
    <3>1. m \in DOMAIN F /\ n \in DOMAIN F
      BY <1>2, <2>1
    <3>2. row2[m] = row[m] /\ col2[m] = col[m] /\ row2[n] = row[n] /\ col2[n] = col[n]
      BY <1>2, <1>4, <1>5, <2>1, <3>1
    <3>3. QED BY <1>3, <3>1, <3>2
  <2>2. CASE n > Len(F) /\ m <= Len(F)
    <3>1. m \in DOMAIN F /\ row2[m] = row[m] /\ row2[n] = k
      BY <1>2, <1>4, <2>2
    <3>2. row[m] \in 1 .. k - 1
      BY <1>3, <3>1
    <3>3. QED BY <3>1, <3>2
  <2>3. CASE m > Len(F)
    BY <1>2, <1>4, <1>5, <2>3
  <2>4. QED BY <1>2, <2>1, <2>2, <2>3
<1>10. Flat(G, ss, k)
  <2> USE <1>6
  <2>1. \E r, c \in [DOMAIN G -> Nat] :
          /\ \A n \in DOMAIN G :
                r[n] \in 1 .. k /\ c[n] \in DOMAIN ss[r[n]] /\ G[n] = ss[r[n]][c[n]]
          /\ \A i \in 1 .. k : \A j \in DOMAIN ss[i] : \E n \in DOMAIN G : r[n] = i /\ c[n] = j
          /\ \A m, n \in DOMAIN G : m < n => r[m] < r[n] \/ (r[m] = r[n] /\ c[m] < c[n])
    <3> WITNESS row2 \in [DOMAIN G -> Nat], col2 \in [DOMAIN G -> Nat]
    <3>1. QED BY <1>7, <1>8, <1>9, Zenon
  <2>2. QED BY <2>1 DEF Flat
<1>11. QED BY <1>2, <1>10

\* FlattenSeq puts sequences after each other.
LEMMA Flattened ==
  ASSUME NEW S, NEW ss \in Seq(Seq(S))
  PROVE  FlattenSeq(ss) \in Seq(S) /\ Flat(FlattenSeq(ss), ss, Len(ss))
<1>0. Len(ss) \in Nat /\ DOMAIN ss = 1 .. Len(ss)
  OBVIOUS
<1>1. Flat(<<>>, ss, 0)
  <2>1. DOMAIN <<>> = {} /\ \A i \in 1 .. 0 : FALSE
    OBVIOUS
  <2>2. <<>> \in [DOMAIN <<>> -> Nat]
    OBVIOUS
  <2>3. QED BY <2>1, <2>2 DEF Flat
<1>2. CASE Len(ss) = 0
  <2>1. FlattenSeq(ss) = ss /\ ss = <<>>
    BY <1>2 DEF FlattenSeq
  <2>2. QED BY <1>1, <1>2, <2>1
<1>3. CASE Len(ss) > 0
  <2> DEFINE n == Len(ss)
             Eq(f) == f = [i \in 1 .. n |-> IF i = 1 THEN ss[i] ELSE f[i - 1] \o ss[i]]
             flatten == CHOOSE f : Eq(f)
  <2>1. FlattenSeq(ss) = flatten[n]
    <3>1. Len(ss) # 0
      BY <1>3
    <3>2. QED BY <3>1, Zenon DEF FlattenSeq
  <2>2. \E f : Eq(f)
    <3>1. PICK step : step = [k \in 1 .. n |-> [x \in Seq(S) |-> x \o ss[k]]]
      OBVIOUS
    <3>2. step \in [1 .. n -> [Seq(S) -> Seq(S)]]
      <4>1. \A k \in 1 .. n : ss[k] \in Seq(S)
        BY <1>0
      <4>2. \A k \in 1 .. n : [x \in Seq(S) |-> x \o ss[k]] \in [Seq(S) -> Seq(S)]
        BY <4>1, ConcatProperties
      <4>3. QED BY <3>1, <4>2
    <3>3. <<>> \in Seq(S)
      OBVIOUS
    <3>4. PICK f : /\ f \in [0 .. n -> Seq(S)] /\ f[0] = <<>>
                   /\ \A k \in 1 .. n : f[k] = step[k][f[k - 1]]
      <4> HIDE DEF n
      <4>1. n \in Nat
        BY <1>0 DEF n
      <4>2. \E f : Steps(f, n, Seq(S), <<>>, step)
        BY <3>2, <3>3, <4>1, StepByStep
      <4>3. QED BY <4>2 DEF Steps, Follows
    <3>5. PICK g : g = [i \in 1 .. n |-> f[i]]
      OBVIOUS
    <3>6. \A i \in 1 .. n : f[i] = f[i - 1] \o ss[i]
      <4> SUFFICES ASSUME NEW i \in 1 .. n PROVE f[i] = f[i - 1] \o ss[i]
        OBVIOUS
      <4>1. f[i] = step[i][f[i - 1]]
        BY <3>4
      <4>4. f[i - 1] \in Seq(S)
        <5>1. i - 1 \in 0 .. n
          BY <1>0
        <5> HIDE DEF n
        <5>2. QED BY <3>4, <5>1
      <4>2. step[i][f[i - 1]] = f[i - 1] \o ss[i]
        BY <3>1, <4>4
      <4>3. QED BY <4>1, <4>2
    <3>7. g[1] = ss[1]
      <4>1. 1 \in 1 .. n /\ ss[1] \in Seq(S)
        BY <1>0, <1>3
      <4>2. g[1] = f[1] /\ f[1] = f[0] \o ss[1]
        <5>1. g[1] = f[1]
          BY <3>5, <4>1
        <5>2. f[1] = f[1 - 1] \o ss[1]
          BY <3>6, <4>1
        <5>3. 1 - 1 = 0
          OBVIOUS
        <5>4. f[1] = f[0] \o ss[1]
          BY <5>2, <5>3
        <5>5. QED BY <5>1, <5>4
      <4>3. f[0] = <<>>
        BY <3>4
      <4>4. <<>> \o ss[1] = ss[1]
        BY <4>1
      <4>5. QED BY <4>2, <4>3, <4>4
    <3>8. \A i \in 1 .. n : i # 1 => g[i] = g[i - 1] \o ss[i]
      BY <1>0, <3>5, <3>6
    <3>9. Eq(g)
      BY <3>5, <3>7, <3>8
    <3>10. QED BY <3>9
  <2>3. Eq(flatten)
    BY <2>2
  <2> HIDE DEF flatten
  <2> DEFINE T == {k \in 0 .. n : k = 0 \/ (flatten[k] \in Seq(S) /\ Flat(flatten[k], ss, k))}
  <2>4. 0 \in T
    BY <1>0
  <2>5. ASSUME NEW k \in 1 .. n, k - 1 \in T PROVE k \in T
    <3>1. CASE k = 1
      <4>1. flatten[k] = <<>> \o ss[k]
        BY <1>0, <2>3, <3>1
      <4>2. <<>> \o ss[k] \in Seq(S) /\ Flat(<<>> \o ss[k], ss, k)
        <5>1. <<>> \in Seq(S) /\ k \in 1 .. Len(ss) /\ Flat(<<>>, ss, k - 1)
          BY <1>1, <3>1
        <5>2. QED BY <5>1, FlatNext
      <4>3. QED BY <4>1, <4>2
    <3>2. CASE k # 1
      <4>1. flatten[k] = flatten[k - 1] \o ss[k]
        BY <1>0, <2>3, <3>2
      <4>2. flatten[k - 1] \in Seq(S) /\ Flat(flatten[k - 1], ss, k - 1)
        BY <2>5, <3>2
      <4>3. /\ flatten[k - 1] \o ss[k] \in Seq(S)
            /\ Flat(flatten[k - 1] \o ss[k], ss, k)
        BY <4>2, FlatNext
      <4>4. flatten[k] \in Seq(S) /\ Flat(flatten[k], ss, k)
        BY <4>1, <4>3
      <4> HIDE DEF Flat
      <4>5. QED BY <1>0, <4>4
    <3>3. QED BY <3>1, <3>2
  <2>6. n \in T
    <3> HIDE DEF T
    <3>1. \A k \in 0 .. n : k \in T
      BY <1>0, <2>4, <2>5, UpTo
    <3>2. QED BY <1>0, <3>1
  <2>7. QED BY <1>3, <2>1, <2>6
<1>4. QED BY <1>0, <1>2, <1>3

\* FlattenSeq has what the sequences have and nothing else.
LEMMA FlatHas ==
  ASSUME NEW S, NEW ss \in Seq(Seq(S))
  PROVE  /\ \A n \in DOMAIN FlattenSeq(ss) : \E i \in DOMAIN ss : \E j \in DOMAIN ss[i] :
              FlattenSeq(ss)[n] = ss[i][j]
         /\ \A i \in DOMAIN ss : \A j \in DOMAIN ss[i] : \E n \in DOMAIN FlattenSeq(ss) :
              FlattenSeq(ss)[n] = ss[i][j]
<1> PICK F : F = FlattenSeq(ss)
  OBVIOUS
<1>1. F \in Seq(S) /\ Flat(F, ss, Len(ss)) /\ DOMAIN ss = 1 .. Len(ss)
  BY Flattened
<1>2. PICK row, col \in [DOMAIN F -> Nat] :
        /\ \A n \in DOMAIN F : /\ row[n] \in 1 .. Len(ss) /\ col[n] \in DOMAIN ss[row[n]]
                                /\ F[n] = ss[row[n]][col[n]]
        /\ \A i \in 1 .. Len(ss) : \A j \in DOMAIN ss[i] :
             \E n \in DOMAIN F : row[n] = i /\ col[n] = j
        /\ \A m, n \in DOMAIN F : m < n => \/ row[m] < row[n]
                                           \/ row[m] = row[n] /\ col[m] < col[n]
  BY <1>1 DEF Flat
<1>3. \A n \in DOMAIN F : \E i \in DOMAIN ss : \E j \in DOMAIN ss[i] : F[n] = ss[i][j]
  BY <1>2
<1>4. ASSUME NEW i \in DOMAIN ss, NEW j \in DOMAIN ss[i]
      PROVE  \E n \in DOMAIN F : F[n] = ss[i][j]
  <2>1. PICK n \in DOMAIN F : row[n] = i /\ col[n] = j
    <3>1. i \in 1 .. Len(ss)
      BY <1>1
    <3>2. QED BY <1>2, <3>1
  <2>2. F[n] = ss[i][j]
    BY <1>2, <2>1
  <2>3. QED BY <2>2
<1>5. QED BY <1>3, <1>4

\* A sequence has at most one of a set.
Once(s, P) == \A m, n \in DOMAIN s : s[m] \in P /\ s[n] \in P => m = n

\* What no two places of some sequences have, their flattening has once.
LEMMA FlatOnce ==
  ASSUME NEW S, NEW ss \in Seq(Seq(S)), NEW P,
         \A i1, i2 \in DOMAIN ss : \A j1 \in DOMAIN ss[i1], j2 \in DOMAIN ss[i2] :
            ss[i1][j1] \in P /\ ss[i2][j2] \in P => i1 = i2 /\ j1 = j2
  PROVE  Once(FlattenSeq(ss), P)
<1> PICK F : F = FlattenSeq(ss)
  OBVIOUS
<1>1. F \in Seq(S) /\ Flat(F, ss, Len(ss)) /\ DOMAIN ss = 1 .. Len(ss)
  BY Flattened
<1>2. PICK row, col \in [DOMAIN F -> Nat] :
        /\ \A n \in DOMAIN F : /\ row[n] \in 1 .. Len(ss) /\ col[n] \in DOMAIN ss[row[n]]
                                /\ F[n] = ss[row[n]][col[n]]
        /\ \A i \in 1 .. Len(ss) : \A j \in DOMAIN ss[i] :
             \E n \in DOMAIN F : row[n] = i /\ col[n] = j
        /\ \A m, n \in DOMAIN F : m < n => \/ row[m] < row[n]
                                           \/ row[m] = row[n] /\ col[m] < col[n]
  BY <1>1 DEF Flat
<1>3. ASSUME NEW m \in DOMAIN F, NEW n \in DOMAIN F, F[m] \in P, F[n] \in P PROVE m = n
  <2>1. row[m] = row[n] /\ col[m] = col[n]
    <3>1. /\ row[m] \in DOMAIN ss /\ col[m] \in DOMAIN ss[row[m]] /\ ss[row[m]][col[m]] \in P
          /\ row[n] \in DOMAIN ss /\ col[n] \in DOMAIN ss[row[n]] /\ ss[row[n]][col[n]] \in P
      BY <1>2, <1>3
    <3>2. QED BY <3>1, Zenon
  <2>2. row[m] \in Nat /\ col[m] \in Nat /\ m \in Nat /\ n \in Nat
    BY <1>1, <1>2
  <2>3. ~(m < n) /\ ~(n < m)
    BY <1>2, <2>1, <2>2
  <2>4. QED BY <2>2, <2>3
<1>4. Once(F, P)
  BY <1>3 DEF Once
<1>5. QED BY <1>4

\* An element of some sequences before which, in their order, there is none of a set.
FirstIn(ss, P, x) ==
    \E i \in DOMAIN ss : \E j \in DOMAIN ss[i] :
        /\ x = ss[i][j]
        /\ \A k \in DOMAIN ss : k < i => \A l \in DOMAIN ss[k] : ss[k][l] \notin P
        /\ \A l \in DOMAIN ss[i] : l < j => ss[i][l] \notin P

\* The first of a flattening that is in a set is in the first sequence that has one.
LEMMA FlatFirst ==
  ASSUME NEW S, NEW ss \in Seq(Seq(S)), NEW P, NEW n \in DOMAIN FlattenSeq(ss),
         FlattenSeq(ss)[n] \in P, \A m \in DOMAIN FlattenSeq(ss) :
                                      FlattenSeq(ss)[m] \in P => n <= m
  PROVE  FirstIn(ss, P, FlattenSeq(ss)[n])
<1> PICK F : F = FlattenSeq(ss)
  OBVIOUS
<1>1. F \in Seq(S) /\ Flat(F, ss, Len(ss)) /\ DOMAIN ss = 1 .. Len(ss)
  BY Flattened
<1>2. PICK row, col \in [DOMAIN F -> Nat] :
        /\ \A m \in DOMAIN F : /\ row[m] \in 1 .. Len(ss) /\ col[m] \in DOMAIN ss[row[m]]
                                /\ F[m] = ss[row[m]][col[m]]
        /\ \A i \in 1 .. Len(ss) : \A j \in DOMAIN ss[i] :
             \E m \in DOMAIN F : row[m] = i /\ col[m] = j
        /\ \A l, m \in DOMAIN F : l < m => \/ row[l] < row[m]
                                           \/ row[l] = row[m] /\ col[l] < col[m]
  BY <1>1 DEF Flat
<1>3. row[n] \in DOMAIN ss /\ col[n] \in DOMAIN ss[row[n]] /\ F[n] = ss[row[n]][col[n]]
  BY <1>1, <1>2
<1>4. ASSUME NEW k \in DOMAIN ss, NEW j \in DOMAIN ss[k], ss[k][j] \in P,
             k < row[n] \/ (k = row[n] /\ j < col[n])
      PROVE  FALSE
  <2>1. PICK m \in DOMAIN F : row[m] = k /\ col[m] = j
    <3>1. k \in 1 .. Len(ss)
      BY <1>1
    <3>2. QED BY <1>2, <3>1
  <2>2. F[m] \in P
    BY <1>1, <1>2, <1>4, <2>1
  <2>3. n <= m /\ m \in Nat /\ n \in Nat /\ row[n] \in Nat /\ row[m] \in Nat
        /\ col[n] \in Nat /\ col[m] \in Nat
    <3>1. n <= m
      BY <2>2
    <3>2. DOMAIN F \subseteq Nat
      BY ONLY <1>1, SMT
    <3>3. m \in DOMAIN F /\ n \in DOMAIN F
      BY ONLY <2>1, F = FlattenSeq(ss), n \in DOMAIN FlattenSeq(ss), Zenon
    <3>4. row[n] \in Nat /\ row[m] \in Nat /\ col[n] \in Nat /\ col[m] \in Nat
      BY ONLY <1>2, <3>3, Zenon
    <3>5. QED BY ONLY <3>1, <3>2, <3>3, <3>4, Zenon
  <2>4. n < m => row[n] < row[m] \/ (row[n] = row[m] /\ col[n] < col[m])
    BY <1>2
  <2>5. n # m
    BY <1>4, <2>1, <2>3
  <2>6. QED BY <1>4, <2>1, <2>3, <2>4, <2>5
<1>5. QED BY <1>3, <1>4 DEF FirstIn

-----------------------------------------------------------------------------
(***************************************************************************)
(* Timelines: a claim takes its own time of what is left, and the first    *)
(* claim of an instant has it.                                             *)
(***************************************************************************)

\* The element of an option that is not none.
LEMMA TheOnlyElement ==
  ASSUME NEW S, NEW option \in OptionOf(S), option # {}
  PROVE  TheElement(option) \in S /\ option = {TheElement(option)}
<1>1. option \subseteq S /\ \A x, y \in option : x = y
  BY DEF OptionOf
<1>2. TheElement(option) \in option
  BY DEF TheElement
<1>3. QED BY <1>1, <1>2

\* When a window ends, and that it tells the same as its option of every instant a
\* timestamp can be.
LEMMA EndOfAnOption ==
  ASSUME NEW end \in OptionOf(Nat)
  PROVE  /\ EndOf(end) \in Nat
         /\ \A t \in Nat : t < MaxTime => ((\A e \in end : t < e) <=> t < EndOf(end))
<1>1. MaxTime \in Nat
  BY IntervalsAssumption
<1>2. CASE end = {}
  BY <1>1, <1>2 DEF EndOf
<1>3. CASE end # {}
  <2>1. TheElement(end) \in Nat /\ end = {TheElement(end)} /\ EndOf(end) = TheElement(end)
    BY <1>3, TheOnlyElement DEF EndOf
  <2> HIDE DEF TheElement
  <2>2. QED BY <2>1
<1>4. QED BY <1>2, <1>3

\* Pieces of time, and those an instant lies in.
Pieces == [start : Nat, end : Nat]
Holding(t) == {p \in Pieces : p.start <= t /\ t < p.end}

\* What is claimed of a timeline, and what of it lies in time.
Claimed == [start : Nat, end : OptionOf(Nat), event : Int, priority : OptionOf(Int),
            interval : Int, payloads : Payloads]
Taken == {s \in Claimed : s.start < EndOf(s.end)}
Covering(t) == {s \in Claimed : s.start <= t /\ t < EndOf(s.end)}

\* A sequence has one of a set, and no more, exactly when something holds.
Exactly(s, P, holds) == Once(s, P) /\ ((\E n \in DOMAIN s : s[n] \in P) <=> holds)

\* A segment takes its own time out of a piece, and the two pieces that can be left
\* have no instant in common.
LEMMA AroundAPiece ==
  ASSUME NEW piece \in Pieces, NEW seg \in Taken
  PROVE  /\ Around(piece, seg) \in Seq(Pieces)
         /\ \A t \in Nat : Exactly(Around(piece, seg), Holding(t),
                                   piece \in Holding(t) /\ seg \notin Covering(t))
<1> PICK se : se = EndOf(seg.end)
  OBVIOUS
<1> PICK ss : ss = seg.start
  OBVIOUS
<1> PICK ps : ps = piece.start
  OBVIOUS
<1> PICK pe : pe = piece.end
  OBVIOUS
<1>1. /\ se \in Nat /\ ss \in Nat /\ ps \in Nat /\ pe \in Nat /\ ss < se /\ seg \in Claimed
      /\ piece = [start |-> ps, end |-> pe]
  BY EndOfAnOption DEF Taken, Claimed, Pieces
<1>2. \A t \in Nat : (seg \in Covering(t) <=> ss <= t /\ t < se)
                     /\ (piece \in Holding(t) <=> ps <= t /\ t < pe)
  BY <1>1 DEF Covering, Holding
<1>3. CASE se <= ps \/ ss >= pe
  <2>1. Around(piece, seg) = <<piece>>
    BY <1>3 DEF Around
  <2>2. \A t \in Nat : piece \in Holding(t) => seg \notin Covering(t)
    BY <1>1, <1>2, <1>3
  <2>3. QED BY <2>1, <2>2 DEF Exactly, Once
<1>4. CASE ~(se <= ps \/ ss >= pe)
  <2> PICK left : left = [start |-> ps, end |-> ss]
    OBVIOUS
  <2> PICK right : right = [start |-> se, end |-> pe]
    OBVIOUS
  <2>1. /\ left \in Pieces /\ right \in Pieces
        /\ \A t \in Nat : /\ left \in Holding(t) <=> (ps <= t /\ t < ss)
                          /\ right \in Holding(t) <=> (se <= t /\ t < pe)
    BY <1>1 DEF Pieces, Holding
  <2>2. Around(piece, seg) = (IF ss > ps THEN <<left>> ELSE <<>>)
                             \o (IF se < pe THEN <<right>> ELSE <<>>)
    BY <1>4 DEF Around
  <2>3. CASE ss > ps /\ se < pe
    <3> PICK a : a = <<left>>
      OBVIOUS
    <3> PICK b : b = <<right>>
      OBVIOUS
    <3> PICK G : G = Around(piece, seg)
      OBVIOUS
    <3>1. G = a \o b
      BY <2>2, <2>3
    <3>5. /\ a \in Seq(Pieces) /\ Len(a) = 1 /\ a[1] = left
          /\ b \in Seq(Pieces) /\ Len(b) = 1 /\ b[1] = right
      BY <2>1
    <3>6. G \in Seq(Pieces) /\ Len(G) = 2 /\ G[1] = left /\ G[2] = right
      BY <3>1, <3>5, ConcatProperties
    <3>2. \A t \in Nat : /\ ~(left \in Holding(t) /\ right \in Holding(t))
                         /\ (left \in Holding(t) \/ right \in Holding(t))
                              <=> (piece \in Holding(t) /\ seg \notin Covering(t))
      BY <1>1, <1>2, <1>4, <2>1, <2>3
    <3>3. DOMAIN G = {1, 2}
      BY <3>6
    <3>4. QED BY <3>2, <3>3, <3>6 DEF Exactly, Once
  <2>4. CASE ss > ps /\ ~(se < pe)
    <3>1. Around(piece, seg) = <<left>>
      BY <2>2, <2>4
    <3>2. \A t \in Nat : left \in Holding(t) <=> (piece \in Holding(t) /\ seg \notin Covering(t))
      BY <1>1, <1>2, <1>4, <2>1, <2>4
    <3>3. QED BY <2>1, <3>1, <3>2 DEF Exactly, Once
  <2>5. CASE ~(ss > ps) /\ se < pe
    <3>1. Around(piece, seg) = <<right>>
      BY <2>2, <2>5
    <3>2. \A t \in Nat : right \in Holding(t) <=> (piece \in Holding(t) /\ seg \notin Covering(t))
      BY <1>1, <1>2, <1>4, <2>1, <2>5
    <3>3. QED BY <2>1, <3>1, <3>2 DEF Exactly, Once
  <2>6. CASE ~(ss > ps) /\ ~(se < pe)
    <3>1. Around(piece, seg) = <<>>
      BY <2>2, <2>6
    <3>2. \A t \in Nat : ~(piece \in Holding(t) /\ seg \notin Covering(t))
      BY <1>1, <1>2, <1>4, <2>6
    <3>3. QED BY <3>1, <3>2 DEF Exactly, Once
  <2>7. QED BY <2>3, <2>4, <2>5, <2>6
<1>5. QED BY <1>3, <1>4

\* What each of some sequences has exactly when it is one of a few, no two of which
\* there are, their flattening has exactly when there is one.
LEMMA FlatExactly ==
  ASSUME NEW S, NEW ss \in Seq(Seq(S)), NEW P, NEW few,
         \A i \in DOMAIN ss : Exactly(ss[i], P, i \in few),
         \A i1, i2 \in DOMAIN ss : i1 \in few /\ i2 \in few => i1 = i2
  PROVE  Exactly(FlattenSeq(ss), P, \E i \in DOMAIN ss : i \in few)
<1>1. Once(FlattenSeq(ss), P)
  <2>1. ASSUME NEW i1 \in DOMAIN ss, NEW i2 \in DOMAIN ss, NEW j1 \in DOMAIN ss[i1],
               NEW j2 \in DOMAIN ss[i2], ss[i1][j1] \in P, ss[i2][j2] \in P
        PROVE  i1 = i2 /\ j1 = j2
    <3>1. i1 \in few /\ i2 \in few
      BY <2>1 DEF Exactly
    <3>2. i1 = i2
      BY <3>1
    <3>3. QED BY <2>1, <3>2 DEF Exactly, Once
  <2>2. QED BY <2>1, FlatOnce
<1> PICK F : F = FlattenSeq(ss)
  OBVIOUS
<1>2. (\E n \in DOMAIN F : F[n] \in P) => \E i \in DOMAIN ss : i \in few
  <2> SUFFICES ASSUME NEW n \in DOMAIN F, F[n] \in P PROVE \E i \in DOMAIN ss : i \in few
    OBVIOUS
  <2>1. PICK i \in DOMAIN ss : \E j \in DOMAIN ss[i] : F[n] = ss[i][j]
    BY FlatHas
  <2>2. i \in few
    BY <2>1 DEF Exactly
  <2>3. QED BY <2>2
<1>3. (\E i \in DOMAIN ss : i \in few) => \E n \in DOMAIN F : F[n] \in P
  <2> SUFFICES ASSUME NEW i \in DOMAIN ss, i \in few PROVE \E n \in DOMAIN F : F[n] \in P
    OBVIOUS
  <2>1. PICK j \in DOMAIN ss[i] : ss[i][j] \in P
    BY DEF Exactly
  <2>2. PICK n \in DOMAIN F : F[n] = ss[i][j]
    BY FlatHas
  <2>3. QED BY <2>1, <2>2
<1>4. QED BY <1>1, <1>2, <1>3 DEF Exactly

\* A segment takes its own time out of every piece.
LEMMA AroundPieces ==
  ASSUME NEW pieces \in Seq(Pieces), NEW seg \in Taken
  PROVE  /\ AroundAll(pieces, seg) \in Seq(Pieces)
         /\ \A t \in Nat : Once(pieces, Holding(t)) =>
               Exactly(AroundAll(pieces, seg), Holding(t),
                       (\E p \in DOMAIN pieces : pieces[p] \in Holding(t))
                       /\ seg \notin Covering(t))
<1> PICK ss : ss = [p \in DOMAIN pieces |-> Around(pieces[p], seg)]
  OBVIOUS
<1>1. /\ DOMAIN ss = DOMAIN pieces /\ AroundAll(pieces, seg) = FlattenSeq(ss)
      /\ \A p \in DOMAIN pieces : ss[p] = Around(pieces[p], seg)
  BY DEF AroundAll
<1>2. \A p \in DOMAIN pieces : pieces[p] \in Pieces
  OBVIOUS
<1>3. ss \in Seq(Seq(Pieces))
  <2>1. \A p \in DOMAIN pieces : Around(pieces[p], seg) \in Seq(Pieces)
    BY <1>2, AroundAPiece
  <2>2. DOMAIN pieces = 1 .. Len(pieces) /\ Len(pieces) \in Nat
    OBVIOUS
  <2>3. ss \in [1 .. Len(pieces) -> Seq(Pieces)]
    BY <1>1, <2>1, <2>2
  <2>4. QED BY <2>2, <2>3
<1>4. ASSUME NEW t \in Nat, Once(pieces, Holding(t))
      PROVE  Exactly(FlattenSeq(ss), Holding(t),
                     (\E p \in DOMAIN pieces : pieces[p] \in Holding(t)) /\ seg \notin Covering(t))
  <2> PICK few : few = {p \in DOMAIN ss : pieces[p] \in Holding(t) /\ seg \notin Covering(t)}
    OBVIOUS
  <2>1. \A p \in DOMAIN ss : Exactly(ss[p], Holding(t), p \in few)
    <3> SUFFICES ASSUME NEW p \in DOMAIN ss PROVE Exactly(ss[p], Holding(t), p \in few)
      OBVIOUS
    <3>1. Exactly(ss[p], Holding(t), pieces[p] \in Holding(t) /\ seg \notin Covering(t))
      BY <1>1, <1>2, AroundAPiece
    <3>2. QED BY <3>1 DEF Exactly
  <2>2. \A i1, i2 \in DOMAIN ss : i1 \in few /\ i2 \in few => i1 = i2
    BY <1>1, <1>4 DEF Once
  <2>3. Exactly(FlattenSeq(ss), Holding(t), \E p \in DOMAIN ss : p \in few)
    BY <1>3, <2>1, <2>2, FlatExactly
  <2>4. (\E p \in DOMAIN ss : p \in few)
          <=> (\E p \in DOMAIN pieces : pieces[p] \in Holding(t)) /\ seg \notin Covering(t)
    BY <1>1
  <2> HIDE DEF FlattenSeq
  <2>5. QED BY <2>3, <2>4 DEF Exactly
<1>5. FlattenSeq(ss) \in Seq(Pieces)
  BY <1>3, Flattened
<1>6. QED BY <1>1, <1>4, <1>5

\* What is left of a window, and what of that an instant lies in.
Spans == {w \in [start : Nat, end : OptionOf(Nat)] : w.start < EndOf(w.end)}
Spanning(t) == {w \in Spans : w.start <= t /\ t < EndOf(w.end)}

\* A piece is kept as the window of the same instants.
LEMMA KeptPiece ==
  ASSUME NEW piece \in Pieces
  PROVE  /\ Kept(piece) \in Seq(Spans)
         /\ \A t \in Nat : Exactly(Kept(piece), Spanning(t), piece \in Holding(t))
<1>1. piece.start \in Nat /\ piece.end \in Nat /\ piece \in Pieces
  BY DEF Pieces
<1>2. CASE piece.start >= piece.end
  <2>1. Kept(piece) = <<>>
    BY <1>2 DEF Kept
  <2>2. \A t \in Nat : piece \notin Holding(t)
    BY <1>1, <1>2 DEF Holding
  <2>3. QED BY <2>1, <2>2 DEF Exactly, Once
<1>3. CASE ~(piece.start >= piece.end)
  <2> PICK end : end = IF piece.end = MaxTime THEN {} ELSE {piece.end}
    OBVIOUS
  <2> PICK w : w = [start |-> piece.start, end |-> end]
    OBVIOUS
  <2>1. Kept(piece) = <<w>>
    BY <1>3 DEF Kept
  <2>2. end \in OptionOf(Nat)
    BY <1>1 DEF OptionOf
  <2>3. EndOf(end) = piece.end
    <3>1. CASE piece.end = MaxTime
      BY <3>1 DEF EndOf
    <3>2. CASE piece.end # MaxTime
      BY <3>2 DEF EndOf, TheElement
    <3>3. QED BY <3>1, <3>2
  <2>4. w \in Spans /\ \A t \in Nat : w \in Spanning(t) <=> piece \in Holding(t)
    BY <1>1, <1>3, <2>2, <2>3 DEF Spans, Spanning, Holding
  <2>5. QED BY <2>1, <2>4 DEF Exactly, Once
<1>4. QED BY <1>2, <1>3

\* What is left of a window is, without a gap and without an overlap, what no taken
\* segment covers.
LEMMA SubtractedIsTheRest ==
  ASSUME NEW start \in Nat, NEW end \in OptionOf(Nat), NEW taken \in Seq(Taken)
  PROVE  /\ SubtractCovered(start, end, taken) \in Seq(Spans)
         /\ \A t \in Nat : Exactly(SubtractCovered(start, end, taken), Spanning(t),
                              /\ start <= t /\ t < EndOf(end)
                              /\ \A k \in DOMAIN taken : taken[k] \notin Covering(t))
<1> PICK n : n = Len(taken)
  OBVIOUS
<1> PICK first : first = [start |-> start, end |-> EndOf(end)]
  OBVIOUS
<1>1. n \in Nat /\ DOMAIN taken = 1 .. n /\ \A k \in 1 .. n : taken[k] \in Taken
  OBVIOUS
<1>2. first \in Pieces /\ \A t \in Nat : first \in Holding(t) <=> (start <= t /\ t < EndOf(end))
  BY EndOfAnOption DEF Pieces, Holding
<1> DEFINE Eq(f) == f = [k \in 0 .. Len(taken) |->
                           IF k = 0 THEN <<first>> ELSE AroundAll(f[k - 1], taken[k])]
           pieces == CHOOSE f : Eq(f)
           left == pieces[Len(taken)]
           kept == [p \in DOMAIN left |-> Kept(left[p])]
<1>3. SubtractCovered(start, end, taken) = FlattenSeq(kept)
  BY DEF SubtractCovered
<1>4. Eq(pieces)
  <2>1. PICK step : step = [k \in 1 .. n |-> [x \in Seq(Pieces) |-> AroundAll(x, taken[k])]]
    OBVIOUS
  <2>2. step \in [1 .. n -> [Seq(Pieces) -> Seq(Pieces)]]
    BY <1>1, <2>1, AroundPieces
  <2>3. <<first>> \in Seq(Pieces)
    BY <1>2
  <2>4. PICK f : f \in [0 .. n -> Seq(Pieces)] /\ f[0] = <<first>>
                 /\ \A k \in 1 .. n : f[k] = step[k][f[k - 1]]
    <3>1. \E f : Steps(f, n, Seq(Pieces), <<first>>, step)
      BY <1>1, <2>2, <2>3, StepByStep
    <3>2. QED BY <3>1 DEF Steps, Follows
  <2>5. \A k \in 1 .. n : f[k] = AroundAll(f[k - 1], taken[k])
    <3> SUFFICES ASSUME NEW k \in 1 .. n PROVE f[k] = AroundAll(f[k - 1], taken[k])
      OBVIOUS
    <3>1. k - 1 \in 0 .. n
      BY <1>1
    <3>2. f[k - 1] \in Seq(Pieces)
      BY <2>4, <3>1
    <3>3. QED BY <2>1, <2>4, <3>2
  <2>6. Eq(f)
    <3>1. \A k \in 0 .. n : f[k] = IF k = 0 THEN <<first>> ELSE AroundAll(f[k - 1], taken[k])
      <4> SUFFICES ASSUME NEW k \in 0 .. n
                   PROVE  f[k] = IF k = 0 THEN <<first>> ELSE AroundAll(f[k - 1], taken[k])
        OBVIOUS
      <4>1. CASE k = 0
        BY <2>4, <4>1
      <4>2. CASE k # 0
        <5>1. k \in 1 .. n
          BY <1>1, <4>2
        <5>2. QED BY <2>5, <4>2, <5>1
      <4>3. QED BY <4>1, <4>2
    <3>2. QED BY <2>4, <3>1
  <2> HIDE DEF Eq
  <2>7. QED BY <2>6
<1> HIDE DEF pieces
<1> DEFINE Rest(k, t) == first \in Holding(t) /\ \A j \in 1 .. k : taken[j] \notin Covering(t)
           T == {k \in 0 .. n : /\ pieces[k] \in Seq(Pieces)
                                /\ \A t \in Nat : Exactly(pieces[k], Holding(t), Rest(k, t))}
<1>5. 0 \in T
  <2>1. pieces[0] = <<first>> /\ 0 \in 0 .. n
    BY <1>1, <1>4
  <2>2. \A t \in Nat : Rest(0, t) <=> first \in Holding(t)
    OBVIOUS
  <2> HIDE DEF Rest
  <2>3. \A t \in Nat : Exactly(<<first>>, Holding(t), Rest(0, t))
    <3>1. DOMAIN <<first>> = {1} /\ <<first>>[1] = first
      OBVIOUS
    <3>2. QED BY <2>2, <3>1 DEF Exactly, Once
  <2>4. <<first>> \in Seq(Pieces)
    BY <1>2
  <2>5. QED BY <2>1, <2>3, <2>4
<1>6. ASSUME NEW k \in 1 .. n, k - 1 \in T PROVE k \in T
  <2>1. pieces[k] = AroundAll(pieces[k - 1], taken[k]) /\ taken[k] \in Taken /\ k \in 0 .. n
    <3>1. k \in 0 .. n /\ k # 0
      BY <1>1
    <3>2. pieces[k] = AroundAll(pieces[k - 1], taken[k])
      BY <1>4, <3>1
    <3>3. QED BY <1>1, <3>1, <3>2
  <2>2. pieces[k - 1] \in Seq(Pieces)
        /\ \A t \in Nat : Exactly(pieces[k - 1], Holding(t), Rest(k - 1, t))
    BY <1>6
  <2>3. \A t \in Nat : Rest(k, t) <=> Rest(k - 1, t) /\ taken[k] \notin Covering(t)
    BY <1>1
  <2> HIDE DEF Rest
  <2> PICK before : before = pieces[k - 1]
    OBVIOUS
  <2>4. AroundAll(before, taken[k]) \in Seq(Pieces)
        /\ \A t \in Nat : Once(before, Holding(t)) =>
               Exactly(AroundAll(before, taken[k]), Holding(t),
                       (\E p \in DOMAIN before : before[p] \in Holding(t))
                       /\ taken[k] \notin Covering(t))
    BY <2>1, <2>2, AroundPieces
  <2>5. ASSUME NEW t \in Nat PROVE Exactly(pieces[k], Holding(t), Rest(k, t))
    <3>1. Exactly(before, Holding(t), Rest(k - 1, t))
      BY <2>2
    <3>2. Once(before, Holding(t))
          /\ ((\E p \in DOMAIN before : before[p] \in Holding(t)) <=> Rest(k - 1, t))
      BY <3>1 DEF Exactly
    <3>3. Exactly(pieces[k], Holding(t),
                       (\E p \in DOMAIN before : before[p] \in Holding(t))
                       /\ taken[k] \notin Covering(t))
      BY <2>1, <2>4, <3>2
    <3>4. QED BY <2>3, <3>2, <3>3 DEF Exactly
  <2>6. QED BY <2>1, <2>4, <2>5
<1>7. n \in T
  <2> HIDE DEF T
  <2>1. \A k \in 0 .. n : k \in T
    BY <1>1, <1>5, <1>6, UpTo
  <2>2. QED BY <1>1, <2>1
<1>8. left \in Seq(Pieces) /\ \A t \in Nat : Exactly(left, Holding(t), Rest(n, t))
  BY <1>7
<1> HIDE DEF left
<1>9. kept \in Seq(Seq(Spans))
  <2>1. \A p \in DOMAIN left : Kept(left[p]) \in Seq(Spans)
    BY <1>8, KeptPiece
  <2>2. DOMAIN left = 1 .. Len(left) /\ Len(left) \in Nat
    BY <1>8
  <2>3. kept \in [1 .. Len(left) -> Seq(Spans)]
    BY <2>1, <2>2
  <2>4. QED BY <2>2, <2>3
<1>10. ASSUME NEW t \in Nat
       PROVE  Exactly(FlattenSeq(kept), Spanning(t),
                              /\ start <= t /\ t < EndOf(end)
                              /\ \A k \in DOMAIN taken : taken[k] \notin Covering(t))
  <2> PICK few : few = {p \in DOMAIN kept : left[p] \in Holding(t)}
    OBVIOUS
  <2>1. \A p \in DOMAIN kept : Exactly(kept[p], Spanning(t), p \in few)
    <3> SUFFICES ASSUME NEW p \in DOMAIN kept PROVE Exactly(kept[p], Spanning(t), p \in few)
      OBVIOUS
    <3>1. p \in DOMAIN left /\ left[p] \in Pieces /\ kept[p] = Kept(left[p])
      BY <1>8
    <3>2. Exactly(Kept(left[p]), Spanning(t), left[p] \in Holding(t))
      BY <3>1, KeptPiece
    <3>3. p \in few <=> left[p] \in Holding(t)
      OBVIOUS
    <3> HIDE DEF kept
    <3>4. QED BY <3>1, <3>2, <3>3 DEF Exactly
  <2>2. \A i1, i2 \in DOMAIN kept : i1 \in few /\ i2 \in few => i1 = i2
    BY <1>8 DEF Exactly, Once
  <2>4. (\E p \in DOMAIN kept : p \in few)
          <=> (/\ start <= t /\ t < EndOf(end)
               /\ \A k \in DOMAIN taken : taken[k] \notin Covering(t))
    <3>1. (\E p \in DOMAIN left : left[p] \in Holding(t)) <=> Rest(n, t)
      BY <1>8 DEF Exactly
    <3>2. DOMAIN kept = DOMAIN left
      OBVIOUS
    <3> HIDE DEF kept
    <3>3. QED BY <1>1, <1>2, <3>1, <3>2
  <2> HIDE DEF kept
  <2>3. Exactly(FlattenSeq(kept), Spanning(t), \E p \in DOMAIN kept : p \in few)
    BY <1>9, <2>1, <2>2, FlatExactly
  <2>5. QED BY <2>3, <2>4 DEF Exactly
<1> HIDE DEF kept
<1>11. FlattenSeq(kept) \in Seq(Spans)
  BY <1>9, Flattened
<1>12. QED BY <1>3, <1>10, <1>11

\* A segment says what a claim says, whenever that is.
Tells(s, c) == /\ s.event = c.event /\ s.priority = c.priority
               /\ s.interval = c.interval /\ s.payloads = c.payloads

\* A claim takes, of its own time, all that was not taken yet.
LEMMA LaidDownOnce ==
  ASSUME NEW segments \in Seq(Taken), NEW claim \in Claimed
  PROVE  /\ LayDown(segments, claim) \in Seq(Taken)
         /\ \A t \in Nat : Once(segments, Covering(t)) =>
              Exactly(LayDown(segments, claim), Covering(t),
                      (\E n \in DOMAIN segments : segments[n] \in Covering(t))
                      \/ claim \in Covering(t))
         /\ \A n \in DOMAIN LayDown(segments, claim) :
              \/ n \in DOMAIN segments /\ LayDown(segments, claim)[n] = segments[n]
              \/ n \notin DOMAIN segments /\ Tells(LayDown(segments, claim)[n], claim)
         /\ DOMAIN segments \subseteq DOMAIN LayDown(segments, claim)
<1> PICK pieces : pieces = SubtractCovered(claim.start, claim.end, segments)
  OBVIOUS
<1>1. claim.start \in Nat /\ claim.end \in OptionOf(Nat)
  BY DEF Claimed
<1>2. pieces \in Seq(Spans)
      /\ \A t \in Nat : Exactly(pieces, Spanning(t),
                              /\ claim.start <= t /\ t < EndOf(claim.end)
                              /\ \A k \in DOMAIN segments : segments[k] \notin Covering(t))
  BY <1>1, SubtractedIsTheRest
<1>3. Len(pieces) \in Nat /\ DOMAIN pieces = 1 .. Len(pieces)
      /\ \A p \in 1 .. Len(pieces) : pieces[p] \in Spans
  BY <1>2
<1> DEFINE made(p) == [claim EXCEPT !.start = pieces[p].start, !.end = pieces[p].end]
<1> PICK new : new = [p \in DOMAIN pieces |-> made(p)]
  OBVIOUS
<1> PICK all : all = LayDown(segments, claim)
  OBVIOUS
<1>4. all = segments \o new
  BY DEF LayDown
<1>5. ASSUME NEW p \in 1 .. Len(pieces)
      PROVE  /\ new[p] = made(p) /\ new[p] \in Taken /\ Tells(new[p], claim)
             /\ \A t \in Nat : new[p] \in Covering(t) <=> pieces[p] \in Spanning(t)
  <2>1. new[p] = made(p)
    BY <1>3
  <2>2. /\ pieces[p].start \in Nat /\ pieces[p].end \in OptionOf(Nat)
        /\ pieces[p].start < EndOf(pieces[p].end) /\ pieces[p] \in Spans
    BY <1>3 DEF Spans
  <2>3. /\ made(p) \in Claimed /\ made(p).start = pieces[p].start /\ made(p).end = pieces[p].end
        /\ Tells(made(p), claim)
    BY <2>2 DEF Claimed, Tells
  <2> HIDE DEF made
  <2>4. QED BY <2>1, <2>2, <2>3 DEF Taken, Covering, Spanning
<1> HIDE DEF made
<1>6. new \in Seq(Taken) /\ Len(new) = Len(pieces) /\ DOMAIN new = 1 .. Len(pieces)
  <2>1. new \in [1 .. Len(pieces) -> Taken]
    BY <1>3, <1>5
  <2>2. QED BY <1>3, <2>1
<1>7. /\ all \in Seq(Taken) /\ Len(all) = Len(segments) + Len(new)
      /\ \A n \in 1 .. Len(segments) + Len(new) :
            all[n] = IF n <= Len(segments) THEN segments[n] ELSE new[n - Len(segments)]
  BY <1>4, <1>6, ConcatProperties
<1>8. /\ DOMAIN all = 1 .. (Len(segments) + Len(pieces)) /\ Len(segments) \in Nat
      /\ DOMAIN segments = 1 .. Len(segments)
  BY <1>3, <1>6, <1>7
<1>14. PICK L : L = Len(segments)
  OBVIOUS
<1>15. PICK M : M = Len(pieces)
  OBVIOUS
<1>13. L \in Nat /\ M \in Nat /\ DOMAIN all = 1 .. (L + M) /\ DOMAIN segments = 1 .. L
  BY <1>3, <1>8, <1>14, <1>15
<1>9. ASSUME NEW n \in DOMAIN all
      PROVE  \/ n \in DOMAIN segments /\ all[n] = segments[n]
             \/ n \notin DOMAIN segments /\ Tells(all[n], claim)
  <2>1. CASE n <= Len(segments)
    BY <1>6, <1>7, <1>8, <2>1
  <2>2. CASE ~(n <= Len(segments))
    <3>1. n - Len(segments) \in 1 .. Len(pieces) /\ n \notin DOMAIN segments
      BY <1>3, <1>8, <2>2
    <3>2. all[n] = new[n - Len(segments)]
      BY <1>6, <1>7, <1>8, <2>2
    <3>3. QED BY <1>5, <3>1, <3>2
  <2>3. QED BY <2>1, <2>2
<1>10. ASSUME NEW t \in Nat, Once(segments, Covering(t))
       PROVE  Exactly(all, Covering(t), (\E n \in DOMAIN segments : segments[n] \in Covering(t))
                                        \/ claim \in Covering(t))
  <2> PICK C : C = Covering(t)
    OBVIOUS
  <2> PICK W : W = Spanning(t)
    OBVIOUS
  <2>1. claim \in C <=> claim.start <= t /\ t < EndOf(claim.end)
    BY DEF Covering
  <2>2. /\ \A p, q \in 1 .. Len(pieces) : pieces[p] \in W /\ pieces[q] \in W => p = q
        /\ (\E p \in 1 .. Len(pieces) : pieces[p] \in W) <=>
              (claim \in C /\ \A k \in DOMAIN segments : segments[k] \notin C)
    BY <1>2, <1>3, <2>1 DEF Exactly, Once
  <2>3. \A n \in DOMAIN all : IF n <= L THEN n \in DOMAIN segments /\ all[n] = segments[n]
                              ELSE /\ n - L \in 1 .. Len(pieces)
                                   /\ all[n] \in C <=> pieces[n - L] \in W
    <3> SUFFICES ASSUME NEW n \in DOMAIN all, ~(n <= L)
                 PROVE  n - L \in 1 .. Len(pieces) /\ (all[n] \in C <=> pieces[n - L] \in W)
      BY <1>6, <1>7, <1>8, <1>14
    <3>1. n - L \in 1 .. Len(pieces)
      BY <1>3, <1>8, <1>14
    <3>2. all[n] = new[n - L]
      BY <1>6, <1>7, <1>8, <1>14
    <3>3. QED BY <1>5, <3>1, <3>2
  <2>4. Once(all, C)
    <3> SUFFICES ASSUME NEW m \in DOMAIN all, NEW n \in DOMAIN all, all[m] \in C, all[n] \in C
                 PROVE  m = n
      BY DEF Once
    <3>1. CASE m <= L /\ n <= L
      BY <1>10, <2>3, <3>1 DEF Once
    <3>2. CASE m > L /\ n > L
      <4>1. m \in Nat /\ n \in Nat /\ ~(m <= L) /\ ~(n <= L)
        BY <1>13, <3>2
      <4>2. /\ m - L \in 1 .. Len(pieces) /\ pieces[m - L] \in W
            /\ n - L \in 1 .. Len(pieces) /\ pieces[n - L] \in W
        BY <2>3, <4>1
      <4>3. m - L = n - L
        BY <2>2, <4>2
      <4>4. QED BY <1>13, <4>1, <4>3
    <3>3. CASE m <= L /\ n > L
      <4>1. n \in Nat /\ ~(n <= L)
        BY <1>13, <3>3
      <4>2. n - L \in 1 .. Len(pieces) /\ pieces[n - L] \in W
        BY <2>3, <4>1
      <4>3. m \in DOMAIN segments /\ segments[m] \in C
        BY <2>3, <3>3
      <4>4. QED BY <2>2, <4>2, <4>3
    <3>4. CASE m > L /\ n <= L
      <4>1. m \in Nat /\ ~(m <= L)
        BY <1>13, <3>4
      <4>2. m - L \in 1 .. Len(pieces) /\ pieces[m - L] \in W
        BY <2>3, <4>1
      <4>3. n \in DOMAIN segments /\ segments[n] \in C
        BY <2>3, <3>4
      <4>4. QED BY <2>2, <4>2, <4>3
    <3>5. m \in Nat /\ n \in Nat
      BY <1>13
    <3>6. QED BY <1>13, <3>1, <3>2, <3>3, <3>4, <3>5
  <2>5. (\E n \in DOMAIN all : all[n] \in C)
          => (\E n \in DOMAIN segments : segments[n] \in C) \/ claim \in C
    BY <2>2, <2>3
  <2>6. ASSUME NEW k \in DOMAIN segments, segments[k] \in C PROVE \E n \in DOMAIN all : all[n] \in C
    <3>1. k \in DOMAIN all /\ k <= L
      BY <1>13
    <3>2. QED BY <2>3, <2>6, <3>1
  <2>7. ASSUME claim \in C, \A k \in DOMAIN segments : segments[k] \notin C
        PROVE  \E n \in DOMAIN all : all[n] \in C
    <3>1. PICK p \in 1 .. Len(pieces) : pieces[p] \in W
      BY <2>2, <2>7
    <3>2. PICK q : q = p + L
      OBVIOUS
    <3>3. p \in 1 .. M
      BY <1>15
    <3>4. q \in DOMAIN all /\ ~(q <= L) /\ q - L = p
      BY <1>13, <3>2, <3>3
    <3>5. all[q] \in C
      BY <2>3, <3>1, <3>4
    <3>6. QED BY <3>4, <3>5
  <2>8. QED BY <2>4, <2>5, <2>6, <2>7 DEF Exactly
<1>11. DOMAIN segments \subseteq DOMAIN all
  BY <1>13
<1>12. QED BY <1>7, <1>9, <1>10, <1>11

\* Of some claims, s says what the first of those says that cover an instant.
First(claims, k, t, s) ==
    \E j \in 1 .. k : /\ claims[j] \in Covering(t) /\ Tells(s, claims[j])
                      /\ \A i \in 1 .. j - 1 : claims[i] \notin Covering(t)

\* Laid down one after the other, the first claim of an instant has it: at most one
\* segment covers an instant, one does when it is claimed, and it says what the first
\* of its claims says.
LEMMA FirstClaimHasIt ==
  ASSUME NEW claims \in Seq(Claimed)
  PROVE  /\ LaidDown(claims) \in Seq(Taken)
         /\ \A t \in Nat :
              /\ Exactly(LaidDown(claims), Covering(t),
                         \E j \in 1 .. Len(claims) : claims[j] \in Covering(t))
              /\ \A n \in DOMAIN LaidDown(claims) : LaidDown(claims)[n] \in Covering(t) =>
                    First(claims, Len(claims), t, LaidDown(claims)[n])
<1> PICK n : n = Len(claims)
  OBVIOUS
<1>1. n \in Nat /\ \A k \in 1 .. n : claims[k] \in Claimed
  OBVIOUS
<1> DEFINE Eq(f) == f = [k \in 0 .. Len(claims) |->
                           IF k = 0 THEN <<>> ELSE LayDown(f[k - 1], claims[k])]
           laid == CHOOSE f : Eq(f)
<1>3. LaidDown(claims) = laid[n]
  BY DEF LaidDown
<1>4. Eq(laid)
  <2>1. PICK step : step = [k \in 1 .. n |-> [x \in Seq(Taken) |-> LayDown(x, claims[k])]]
    OBVIOUS
  <2>2. step \in [1 .. n -> [Seq(Taken) -> Seq(Taken)]]
    BY <1>1, <2>1, LaidDownOnce
  <2>3. <<>> \in Seq(Taken)
    OBVIOUS
  <2>4. PICK f : f \in [0 .. n -> Seq(Taken)] /\ f[0] = <<>>
                 /\ \A k \in 1 .. n : f[k] = step[k][f[k - 1]]
    <3>1. \E f : Steps(f, n, Seq(Taken), <<>>, step)
      BY <1>1, <2>2, <2>3, StepByStep
    <3>2. QED BY <3>1 DEF Steps, Follows
  <2>5. ASSUME NEW k \in 1 .. n PROVE f[k] = LayDown(f[k - 1], claims[k])
    <3>1. k - 1 \in 0 .. n
      BY <1>1
    <3>2. f[k - 1] \in Seq(Taken)
      BY <2>4, <3>1
    <3>3. QED BY <2>1, <2>4, <3>2
  <2>6. Eq(f)
    <3>1. ASSUME NEW k \in 0 .. n
          PROVE  f[k] = IF k = 0 THEN <<>> ELSE LayDown(f[k - 1], claims[k])
      <4>1. CASE k = 0
        BY <2>4, <4>1
      <4>2. CASE k # 0
        <5>1. k \in 1 .. n
          BY <1>1, <4>2
        <5>2. QED BY <2>5, <4>2, <5>1
      <4>3. QED BY <4>1, <4>2
    <3>2. QED BY <2>4, <3>1
  <2> HIDE DEF Eq
  <2>7. QED BY <2>6
<1>5. laid[0] = <<>> /\ \A k \in 1 .. n : laid[k] = LayDown(laid[k - 1], claims[k])
  <2>1. laid[0] = <<>>
    <3>1. 0 \in 0 .. Len(claims)
      BY <1>1
    <3>2. QED BY <1>4, <3>1
  <2>2. ASSUME NEW k \in 1 .. n PROVE laid[k] = LayDown(laid[k - 1], claims[k])
    <3>1. k \in 0 .. n /\ k # 0
      BY <1>1
    <3>2. QED BY <1>4, <3>1
  <2>3. QED BY <2>1, <2>2
<1> HIDE DEF laid
<1> DEFINE SaidBy(k, t) == \E j \in 1 .. k : claims[j] \in Covering(t)
           Good(k, t) == /\ Exactly(laid[k], Covering(t), SaidBy(k, t))
                         /\ \A m \in DOMAIN laid[k] : laid[k][m] \in Covering(t) =>
                              First(claims, k, t, laid[k][m])
           T == {k \in 0 .. n : laid[k] \in Seq(Taken) /\ \A t \in Nat : Good(k, t)}
<1>6. 0 \in T
  <2>1. DOMAIN laid[0] = {} /\ laid[0] \in Seq(Taken) /\ 0 \in 0 .. n
    BY <1>1, <1>5
  <2>2. \A t \in Nat : ~SaidBy(0, t)
    OBVIOUS
  <2> HIDE DEF SaidBy
  <2>3. QED BY <2>1, <2>2 DEF Exactly, Once
<1>7. ASSUME NEW k \in 1 .. n, k - 1 \in T PROVE k \in T
  <2> PICK before : before = laid[k - 1]
    OBVIOUS
  <2> PICK after : after = laid[k]
    OBVIOUS
  <2> PICK claim : claim = claims[k]
    OBVIOUS
  <2>1. after = LayDown(before, claim) /\ claim \in Claimed /\ k \in 0 .. n
        /\ before \in Seq(Taken) /\ \A t \in Nat : Good(k - 1, t)
    <3>1. after = LayDown(before, claim) /\ claim \in Claimed /\ k \in 0 .. n
      BY <1>1, <1>5
    <3> HIDE DEF Good
    <3>2. before \in Seq(Taken) /\ \A t \in Nat : Good(k - 1, t)
      BY <1>7
    <3>3. QED BY <3>1, <3>2
  <2>2. /\ after \in Seq(Taken)
        /\ \A t \in Nat : Once(before, Covering(t)) =>
              Exactly(after, Covering(t),
                      (\E m \in DOMAIN before : before[m] \in Covering(t))
                      \/ claim \in Covering(t))
        /\ \A m \in DOMAIN after :
              \/ m \in DOMAIN before /\ after[m] = before[m]
              \/ m \notin DOMAIN before /\ Tells(after[m], claim)
        /\ DOMAIN before \subseteq DOMAIN after
    <3> HIDE DEF Good
    <3>1. LayDown(before, claim) = after
      BY <2>1
    <3>2. before \in Seq(Taken) /\ claim \in Claimed
      BY <2>1
    <3>3. QED BY ONLY <3>1, <3>2, LaidDownOnce
  <2>3. ASSUME NEW t \in Nat PROVE Good(k, t)
    <3>1. Exactly(before, Covering(t), SaidBy(k - 1, t))
      BY <2>1
    <3>2. Once(before, Covering(t))
          /\ ((\E m \in DOMAIN before : before[m] \in Covering(t)) <=> SaidBy(k - 1, t))
      BY <3>1 DEF Exactly
    <3>3. SaidBy(k, t) <=> SaidBy(k - 1, t) \/ claim \in Covering(t)
      <4>1. \A j \in 1 .. k : j \in 1 .. k - 1 \/ j = k
        OBVIOUS
      <4>2. \A j \in 1 .. k - 1 : j \in 1 .. k
        OBVIOUS
      <4>3. k \in 1 .. k
        OBVIOUS
      <4>4. QED BY <4>1, <4>2, <4>3
    <3>4. Exactly(after, Covering(t), SaidBy(k, t))
      <4> HIDE DEF SaidBy
      <4>1. Exactly(after, Covering(t),
                      (\E m \in DOMAIN before : before[m] \in Covering(t))
                      \/ claim \in Covering(t))
        BY <2>2, <3>2
      <4>2. QED BY <3>2, <3>3, <4>1 DEF Exactly
    <3>5. ASSUME NEW m \in DOMAIN after, after[m] \in Covering(t)
          PROVE  First(claims, k, t, after[m])
      <4>1. CASE m \in DOMAIN before /\ after[m] = before[m]
        <5>1. First(claims, k - 1, t, before[m])
          BY <2>1, <3>5, <4>1
        <5>2. PICK j \in 1 .. k - 1 :
                 /\ claims[j] \in Covering(t) /\ Tells(before[m], claims[j])
                 /\ \A i \in 1 .. j - 1 : claims[i] \notin Covering(t)
          BY <5>1 DEF First
        <5>3. j \in 1 .. k
          OBVIOUS
        <5>4. QED BY <4>1, <5>2, <5>3 DEF First
      <4>2. CASE m \notin DOMAIN before /\ Tells(after[m], claim)
        <5>1. ~SaidBy(k - 1, t)
          <6>1. ASSUME NEW b \in DOMAIN before, before[b] \in Covering(t) PROVE FALSE
            <7>2. b \in DOMAIN after /\ after[b] = before[b]
              BY <2>2, <6>1
            <7>3. b = m
              BY <3>4, <3>5, <6>1, <7>2 DEF Exactly, Once
            <7>4. QED BY <4>2, <6>1, <7>3
          <6>2. QED BY <3>2, <6>1
        <5>2. claim \in Covering(t)
          BY <3>3, <3>4, <3>5, <5>1 DEF Exactly
        <5>3. k \in 1 .. k /\ \A i \in 1 .. k - 1 : claims[i] \notin Covering(t)
          BY <5>1
        <5>4. QED BY <4>2, <5>2, <5>3 DEF First
      <4>3. QED BY <2>2, <4>1, <4>2
    <3> HIDE DEF SaidBy
    <3>6. QED BY <3>4, <3>5
  <2> HIDE DEF Good
  <2>4. QED BY <2>1, <2>2, <2>3
<1>8. n \in T
  <2> HIDE DEF T
  <2>1. \A k \in 0 .. n : k \in T
    BY <1>1, <1>6, <1>7, UpTo
  <2>2. QED BY <1>1, <2>1
<1>9. QED BY <1>3, <1>8

-----------------------------------------------------------------------------
(***************************************************************************)
(* Intervals: a pass places them one after the other and divides each.     *)
(***************************************************************************)

\* Of finitely many numbers one is the greatest and one the least.
LEMMA Greatest ==
  ASSUME NEW n \in Nat \ {0}, NEW f, \A k \in 1 .. n : f[k] \in Int
  PROVE  \E m \in 1 .. n : \A k \in 1 .. n : f[k] <= f[m]
<1> DEFINE Of(k) == \E m \in 1 .. k : \A j \in 1 .. k : f[j] <= f[m]
           T == {k \in 0 .. n : k = 0 \/ Of(k)}
<1>1. 0 \in T
  OBVIOUS
<1>2. ASSUME NEW k \in 1 .. n, k - 1 \in T PROVE k \in T
  <2>1. \A j \in 1 .. k : j \in 1 .. k - 1 \/ j = k
    OBVIOUS
  <2>2. CASE k = 1
    BY <2>1, <2>2
  <2>3. CASE k # 1
    <3>1. PICK m \in 1 .. k - 1 : \A j \in 1 .. k - 1 : f[j] <= f[m]
      BY <1>2, <2>3
    <3>2. f[m] \in Int /\ f[k] \in Int /\ \A j \in 1 .. k : f[j] \in Int
      OBVIOUS
    <3>3. CASE f[m] <= f[k]
      <4>1. \A j \in 1 .. k : f[j] <= f[k]
        BY <2>1, <3>1, <3>2, <3>3
      <4>2. QED BY <4>1
    <3>4. CASE f[k] < f[m]
      <4>1. m \in 1 .. k /\ \A j \in 1 .. k : f[j] <= f[m]
        BY <2>1, <3>1, <3>2, <3>4
      <4>2. QED BY <4>1
    <3>5. QED BY <3>2, <3>3, <3>4
  <2>4. QED BY <2>2, <2>3
<1>3. n \in T
  <2> HIDE DEF T
  <2>1. \A k \in 0 .. n : k \in T
    BY <1>1, <1>2, UpTo
  <2>2. QED BY <2>1
<1>4. QED BY <1>3

\* Of finitely many numbers one is the least.
LEMMA Least ==
  ASSUME NEW n \in Nat \ {0}, NEW f, \A k \in 1 .. n : f[k] \in Int
  PROVE  \E m \in 1 .. n : \A k \in 1 .. n : f[m] <= f[k]
<1> PICK g : g = [k \in 1 .. n |-> -f[k]]
  OBVIOUS
<1>1. \A k \in 1 .. n : g[k] = -f[k] /\ g[k] \in Int
  OBVIOUS
<1>2. PICK m \in 1 .. n : \A k \in 1 .. n : g[k] <= g[m]
  BY <1>1, Greatest
<1>3. \A k \in 1 .. n : f[m] <= f[k]
  BY <1>1, <1>2
<1>4. QED BY <1>3

\* What an interval is divided into.
Payload == [scalar : BOOLEAN, values : Seq(STRING)]

\* The payloads of an interval divide it into one part at least.
LEMMA SubintervalsOfPayloads ==
  ASSUME NEW payloads \in Payloads
  PROVE  /\ Subintervals(payloads) \in Nat \ {0}
         /\ \A p \in DOMAIN payloads : /\ SubintervalCount(payloads[p]) \in Nat \ {0}
                                        /\ SubintervalCount(payloads[p]) <= Subintervals(payloads)
<1>1. payloads \in Seq(Payload)
  BY DEF Payloads, Payload
<1> PICK n : n = Len(payloads)
  OBVIOUS
<1>2. n \in Nat /\ DOMAIN payloads = 1 .. n /\ \A p \in 1 .. n : payloads[p] \in Payload
  BY <1>1
<1>3. \A p \in DOMAIN payloads : SubintervalCount(payloads[p]) \in Nat \ {0}
  <2> SUFFICES ASSUME NEW p \in DOMAIN payloads
               PROVE  SubintervalCount(payloads[p]) \in Nat \ {0}
    OBVIOUS
  <2>1. payloads[p].values \in Seq(STRING)
    BY <1>2 DEF Payload
  <2>2. Len(payloads[p].values) \in Nat
    BY <2>1
  <2>3. QED BY <2>2 DEF SubintervalCount
<1> DEFINE counts == {1} \cup {SubintervalCount(payloads[p]) : p \in DOMAIN payloads}
           Best(m) == m \in counts /\ \A p \in DOMAIN payloads : SubintervalCount(payloads[p]) <= m
<1>4. \E m : Best(m)
  <2>1. CASE n = 0
    <3>1. Best(1)
      BY <1>2, <2>1
    <3>2. QED BY <3>1
  <2>2. CASE n # 0
    <3> PICK f : f = [p \in 1 .. n |-> SubintervalCount(payloads[p])]
      OBVIOUS
    <3>1. \A p \in 1 .. n : f[p] = SubintervalCount(payloads[p]) /\ f[p] \in Int
      BY <1>2, <1>3
    <3>2. PICK m \in 1 .. n : \A p \in 1 .. n : f[p] <= f[m]
      <4>1. n \in Nat \ {0}
        BY <1>2, <2>2
      <4> HIDE DEF Best
      <4>2. QED BY <3>1, <4>1, Greatest
    <3>3. f[m] \in counts
      BY <1>2, <3>1
    <3>4. Best(f[m])
      BY <1>2, <3>1, <3>2, <3>3
    <3>5. QED BY <3>4
  <2>3. QED BY <2>1, <2>2
<1>5. Best(Subintervals(payloads))
  <2>1. Subintervals(payloads) = CHOOSE m \in counts :
           \A p \in DOMAIN payloads : SubintervalCount(payloads[p]) <= m
    BY DEF Subintervals
  <2> HIDE DEF counts
  <2>2. QED BY <1>4, <2>1
<1>6. QED BY <1>3, <1>5

\* The part of a whole number that k of n make, rounded down.
LEMMA PartOfAWhole ==
  ASSUME NEW total \in Int, NEW n \in Nat \ {0}, NEW k \in 0 .. n
  PROVE  /\ (total * k) \div n \in Int
         /\ total >= 0 => 0 <= (total * k) \div n /\ (total * k) \div n <= total
         /\ total <= 0 => total <= (total * k) \div n /\ (total * k) \div n <= 0
         /\ k = 0 => (total * k) \div n = 0
         /\ k = n => (total * k) \div n = total
<1> PICK a : a = total * k
  OBVIOUS
<1> PICK q : q = a \div n
  OBVIOUS
<1>1. a \in Int /\ q \in Int /\ n * q <= a /\ a < n * q + n
  OBVIOUS
<1>2. (total >= 0 => 0 <= a /\ a <= total * n) /\ (total <= 0 => total * n <= a /\ a <= 0)
  OBVIOUS
<1>3. total >= 0 => 0 <= q /\ q <= total
  BY <1>1, <1>2
<1>4. total <= 0 => total <= q /\ q <= 0
  BY <1>1, <1>2
<1>5. k = 0 => q = 0
  BY <1>1
<1>6. k = n => q = total
  OBVIOUS
<1>7. QED BY <1>1, <1>3, <1>4, <1>5, <1>6

\* More of it is at least as much, when it is positive, and at most as much otherwise.
LEMMA MoreOfAWhole ==
  ASSUME NEW total \in Int, NEW n \in Nat \ {0}, NEW k \in 0 .. n, NEW m \in 0 .. n, k <= m
  PROVE  /\ total >= 0 => (total * k) \div n <= (total * m) \div n
         /\ total <= 0 => (total * m) \div n <= (total * k) \div n
<1> PICK a : a = total * k
  OBVIOUS
<1> PICK b : b = total * m
  OBVIOUS
<1>1. a \in Int /\ b \in Int /\ (total >= 0 => a <= b) /\ (total <= 0 => b <= a)
  OBVIOUS
<1>2. \A x, y \in Int : x <= y => x \div n <= y \div n
  <2> SUFFICES ASSUME NEW x \in Int, NEW y \in Int, x <= y PROVE x \div n <= y \div n
    OBVIOUS
  <2>1. /\ x \div n \in Int /\ n * (x \div n) <= x /\ x < n * (x \div n) + n
        /\ y \div n \in Int /\ n * (y \div n) <= y /\ y < n * (y \div n) + n
    OBVIOUS
  <2>2. QED BY <2>1
<1>3. QED BY <1>1, <1>2

\* An interval of a sequence, and those that an instant lies in.
Interval == [id : Int, index : Nat, occurrence : Nat, subinterval : Nat, start : Nat,
             end : OptionOf(Nat), payloads : Payloads]
During(t) == {i \in Interval : i.start <= t /\ \A e \in i.end : t < e}

\* The parts of an interval: they are told apart by their subinterval, and are in force,
\* one at a time, exactly while the interval would be.
Divides(parts, position, start, end) ==
    /\ parts \in Seq(Interval) /\ Len(parts) > 0
    /\ \A k \in DOMAIN parts : parts[k].index = position /\ parts[k].subinterval = k - 1
    /\ \A t \in Nat : Exactly(parts, During(t), start <= t /\ \A e \in end : t < e)

\* The parts of an interval divide it.
LEMMA SplitCovers ==
  ASSUME NEW interval \in Declared, NEW position \in Nat, NEW start \in Nat,
         NEW end \in OptionOf(Nat)
  PROVE  /\ Divides(Split(interval, position, start, end), position, start, end)
         /\ interval.payloads = <<>> =>
               Split(interval, position, start, end) = <<Whole(interval, position, start, end)>>
<1> PICK n : n = Subintervals(interval.payloads)
  OBVIOUS
<1> PICK parts : parts = Split(interval, position, start, end)
  OBVIOUS
<1>1. /\ interval.id \in Int /\ interval.payloads \in Payloads /\ n \in Nat \ {0}
      /\ \A p \in DOMAIN interval.payloads :
            /\ SubintervalCount(interval.payloads[p]) \in Nat \ {0}
            /\ SubintervalCount(interval.payloads[p]) <= n
  BY SubintervalsOfPayloads DEF Declared
<1>2. interval.payloads = <<>> => n = 1
  BY DEF Subintervals
<1>3. CASE n = 1 \/ end = {}
  <2> PICK whole : whole = Whole(interval, position, start, end)
    OBVIOUS
  <2>1. parts = <<whole>>
    BY <1>3 DEF Split
  <2>2. whole \in Interval /\ whole.index = position /\ whole.subinterval = 0
        /\ whole.start = start /\ whole.end = end
    BY <1>1 DEF Whole, Interval
  <2>3. \A t \in Nat : whole \in During(t) <=> start <= t /\ \A e \in end : t < e
    BY <2>2 DEF During
  <2>4. /\ parts \in Seq(Interval) /\ Len(parts) = 1 /\ DOMAIN parts = {1} /\ parts[1] = whole
    BY <2>1, <2>2
  <2>5. \A t \in Nat : Exactly(parts, During(t), start <= t /\ \A e \in end : t < e)
    BY <2>3, <2>4 DEF Exactly, Once
  <2>6. \A k \in DOMAIN parts : parts[k].index = position /\ parts[k].subinterval = k - 1
    BY <2>2, <2>4
  <2>7. QED BY <2>1, <2>4, <2>5, <2>6 DEF Divides
<1>4. CASE ~(n = 1 \/ end = {})
  <2> PICK last : last = TheElement(end)
    OBVIOUS
  <2> PICK total : total = last - start
    OBVIOUS
  <2>1. last \in Nat /\ end = {last} /\ total \in Int /\ n > 1
    BY <1>1, <1>4, TheOnlyElement
  <2>2. parts = [k \in 1 .. n |-> Piece(interval, position, start, last, k - 1, n)]
    BY <1>4 DEF Split
  <2> DEFINE bound(k) == start + (total * k) \div n
  <2>3. ASSUME NEW k \in 0 .. n
        PROVE  bound(k) \in Nat /\ bound(0) = start /\ bound(n) = last
    <3>1. 0 \in 0 .. n /\ n \in 0 .. n
      BY <1>1
    <3>2. /\ (total * k) \div n \in Int
          /\ total >= 0 => 0 <= (total * k) \div n
          /\ total <= 0 => total <= (total * k) \div n
      BY <1>1, <2>1, PartOfAWhole
    <3>3. (total * 0) \div n = 0 /\ (total * n) \div n = total
      BY <1>1, <2>1, <3>1, PartOfAWhole
    <3>4. QED BY <2>1, <3>2, <3>3
  <2>4. ASSUME NEW k \in 0 .. n, NEW m \in 0 .. n, k <= m
        PROVE  (total >= 0 => bound(k) <= bound(m)) /\ (total <= 0 => bound(m) <= bound(k))
    <3>1. (total * k) \div n \in Int /\ (total * m) \div n \in Int
      BY <1>1, <2>1, PartOfAWhole
    <3>2. /\ total >= 0 => (total * k) \div n <= (total * m) \div n
          /\ total <= 0 => (total * m) \div n <= (total * k) \div n
      BY <1>1, <2>1, <2>4, MoreOfAWhole
    <3>3. QED BY <3>1, <3>2
  <2>5. ASSUME NEW k \in 1 .. n
        PROVE  /\ parts[k] \in Interval /\ parts[k].index = position
               /\ parts[k].subinterval = k - 1
               /\ parts[k].start = bound(k - 1) /\ parts[k].end = {bound(k)}
    <3> PICK j : j = k - 1
      OBVIOUS
    <3> PICK part : part = Piece(interval, position, start, last, j, n)
      OBVIOUS
    <3>1. parts[k] = part /\ j \in 0 .. n /\ k \in 0 .. n /\ j + 1 = k /\ j \in Nat
      BY <1>1, <2>2
    <3>2. bound(j) \in Nat /\ bound(k) \in Nat
      BY <2>3, <3>1
    <3>3. /\ part.id = interval.id /\ part.index = position /\ part.occurrence = 0
          /\ part.subinterval = j /\ part.start = bound(j)
          /\ part.end = {start + (total * (j + 1)) \div n}
          /\ part = [id |-> part.id, index |-> part.index, occurrence |-> part.occurrence,
                     subinterval |-> part.subinterval, start |-> part.start,
                     end |-> part.end, payloads |-> part.payloads]
      BY DEF Piece
    <3>4. part.end = {bound(k)}
      BY <3>1, <3>3
    <3>5. part.payloads \in Payloads
      <4> DEFINE Share(payload) == IF SubintervalCount(payload) = n
                                   THEN [payload EXCEPT !.values = <<payload.values[j + 1]>>]
                                   ELSE payload
      <4>1. part.payloads = [p \in DOMAIN interval.payloads |-> Share(interval.payloads[p])]
        BY DEF Piece
      <4>2. interval.payloads \in Seq(Payload)
        BY <1>1 DEF Payloads, Payload
      <4>3. ASSUME NEW p \in DOMAIN interval.payloads PROVE Share(interval.payloads[p]) \in Payload
        <5> PICK payload : payload = interval.payloads[p]
          OBVIOUS
        <5>1. payload \in Payload
          BY <4>2
        <5>2. CASE SubintervalCount(payload) = n
          <6>1. Len(payload.values) = n /\ payload.values \in Seq(STRING)
            BY <2>1, <5>1, <5>2 DEF SubintervalCount, Payload
          <6>2. payload.values[j + 1] \in STRING
            BY <3>1, <6>1
          <6>3. <<payload.values[j + 1]>> \in Seq(STRING)
            BY <6>2
          <6>4. [payload EXCEPT !.values = <<payload.values[j + 1]>>] \in Payload
            BY <5>1, <6>3 DEF Payload
          <6>5. QED BY <5>2, <6>4
        <5>3. CASE SubintervalCount(payload) # n
          BY <5>1, <5>3
        <5>4. QED BY <5>2, <5>3
      <4>4. DOMAIN interval.payloads = 1 .. Len(interval.payloads)
            /\ Len(interval.payloads) \in Nat
        BY <4>2
      <4> HIDE DEF Share
      <4>5. part.payloads \in [1 .. Len(interval.payloads) -> Payload]
        BY <4>1, <4>3, <4>4
      <4>6. part.payloads \in Seq(Payload)
        BY <4>4, <4>5
      <4>7. QED BY <4>6 DEF Payloads, Payload
    <3>6. {bound(k)} \in OptionOf(Nat)
      BY <3>2 DEF OptionOf
    <3> HIDE DEF bound
    <3>7. part \in Interval
      BY <1>1, <3>1, <3>2, <3>3, <3>4, <3>5, <3>6 DEF Interval
    <3>8. QED BY <3>1, <3>3, <3>4, <3>7
  <2> HIDE DEF bound
  <2>6. /\ parts \in Seq(Interval) /\ Len(parts) = n /\ DOMAIN parts = 1 .. n
    <3>1. parts \in [1 .. n -> Interval]
      BY <2>2, <2>5
    <3>2. QED BY <1>1, <3>1
  <2>7. ASSUME NEW t \in Nat PROVE Exactly(parts, During(t), start <= t /\ \A e \in end : t < e)
    <3>1. \A k \in 1 .. n : parts[k] \in During(t) <=> bound(k - 1) <= t /\ t < bound(k)
      BY <2>5 DEF During
    <3>2. \A k \in 0 .. n : bound(k) \in Nat
      BY <2>3
    <3>3. bound(0) = start /\ bound(n) = last
      <4>1. 0 \in 0 .. n
        BY <1>1
      <4>2. QED BY <2>3, <4>1
    <3>4. (\A e \in end : t < e) <=> t < last
      BY <2>1
    <3>5. CASE total <= 0
      <4>1. \A k \in 1 .. n : bound(k) <= bound(k - 1)
        <5> SUFFICES ASSUME NEW k \in 1 .. n PROVE bound(k) <= bound(k - 1)
          OBVIOUS
        <5>1. k - 1 \in 0 .. n /\ k \in 0 .. n /\ k - 1 <= k
          BY <1>1
        <5>2. QED BY <2>4, <3>5, <5>1
      <4>2. \A k \in 1 .. n : parts[k] \notin During(t)
        <5> SUFFICES ASSUME NEW k \in 1 .. n PROVE parts[k] \notin During(t)
          OBVIOUS
        <5>1. k - 1 \in 0 .. n /\ k \in 0 .. n
          BY <1>1
        <5>2. bound(k) \in Nat /\ bound(k - 1) \in Nat
          BY <3>2, <5>1
        <5>3. QED BY <3>1, <4>1, <5>2
      <4>3. ~(start <= t /\ t < last)
        BY <2>1, <3>5
      <4>4. QED BY <2>6, <3>4, <4>2, <4>3 DEF Exactly, Once
    <3>6. CASE total > 0
      <4>1. ASSUME NEW k \in 1 .. n, NEW m \in 1 .. n, k < m, parts[k] \in During(t),
                   parts[m] \in During(t)
            PROVE  FALSE
        <5>1. k \in 0 .. n /\ m - 1 \in 0 .. n /\ k <= m - 1
          BY <1>1, <4>1
        <5>2. bound(k) <= bound(m - 1)
          BY <2>1, <2>4, <3>6, <5>1
        <5>3. bound(k) \in Nat /\ bound(m - 1) \in Nat
          BY <3>2, <5>1
        <5>4. QED BY <3>1, <4>1, <5>2, <5>3
      <4>2. Once(parts, During(t))
        <5> SUFFICES ASSUME NEW k \in 1 .. n, NEW m \in 1 .. n, parts[k] \in During(t),
                            parts[m] \in During(t)
                     PROVE  k = m
          BY <2>6 DEF Once
        <5>1. ~(k < m) /\ ~(m < k)
          BY <4>1
        <5>2. QED BY <1>1, <5>1
      <4>3. ASSUME NEW k \in 1 .. n, parts[k] \in During(t) PROVE start <= t /\ t < last
        <5>1. k - 1 \in 0 .. n /\ k \in 0 .. n /\ 0 \in 0 .. n /\ n \in 0 .. n
              /\ 0 <= k - 1 /\ k <= n
          BY <1>1
        <5>2. bound(0) <= bound(k - 1) /\ bound(k) <= bound(n)
          BY <2>1, <2>4, <3>6, <5>1
        <5>3. bound(k) \in Nat /\ bound(k - 1) \in Nat
          BY <3>2, <5>1
        <5>4. bound(k - 1) <= t /\ t < bound(k)
          BY <3>1, <4>3
        <5>5. start <= bound(k - 1) /\ bound(k) <= last
          BY <3>3, <5>2
        <5>6. QED BY <2>1, <5>3, <5>4, <5>5
      <4>4. ASSUME start <= t, t < last PROVE \E k \in 1 .. n : parts[k] \in During(t)
        <5> DEFINE later == {k \in 0 .. n : t < bound(k)}
        <5>1. PICK a : a = -1
          OBVIOUS
        <5>2. a \in Int /\ later \in SUBSET Int /\ later # {} /\ \A k \in later : k > a
          <6>1. n \in later
            BY <1>1, <3>3, <4>4
          <6>2. QED BY <5>1, <6>1
        <5>3. PICK k \in later : \A j \in later : k <= j
          <6> HIDE DEF later
          <6>1. QED BY <5>2, FirstLater
        <5>4. k \in 0 .. n /\ t < bound(k) /\ k # 0
          BY <3>2, <3>3, <4>4
        <5>5. k - 1 \in 0 .. n /\ k \in 1 .. n /\ k - 1 \notin later
          <6>1. k - 1 \in 0 .. n /\ k \in 1 .. n
            BY <1>1, <5>4
          <6>2. k - 1 \notin later
            <7> SUFFICES ASSUME k - 1 \in later PROVE FALSE
              OBVIOUS
            <7>1. k <= k - 1
              BY <5>3
            <7>2. QED BY <5>4, <7>1
          <6>3. QED BY <6>1, <6>2
        <5>6. bound(k - 1) <= t
          <6>1. ~(t < bound(k - 1))
            BY <5>5
          <6>2. bound(k - 1) \in Nat
            BY <3>2, <5>5
          <6>3. QED BY <6>1, <6>2
        <5>7. QED BY <3>1, <5>4, <5>5, <5>6
      <4>5. QED BY <2>6, <3>4, <4>2, <4>3, <4>4 DEF Exactly
    <3>7. QED BY <2>1, <3>5, <3>6
  <2>8. interval.payloads # <<>>
    BY <1>2, <1>4
  <2>9. \A k \in DOMAIN parts : parts[k].index = position /\ parts[k].subinterval = k - 1
    BY <2>5, <2>6
  <2>10. Len(parts) > 0
    BY <1>1, <2>6
  <2>11. QED BY <2>6, <2>7, <2>8, <2>9, <2>10 DEF Divides
<1>5. QED BY <1>3, <1>4

\* A pass, or a window, that was not refused.
Fine(pass) == pass.err = ""

\* A pass over the intervals of an event that has gone well, or has been refused.
Ok == [err : {""}, list : Seq(Interval), cursor : OptionOf(Nat)]
PassStates == Ok \cup {Refused(why) : why \in {"NoStart", "OutOfRange", "NoDuration",
                                                "TooManyIntervals"}}

\* A pass has gone well or was refused, and lists nothing when it was.
LEMMA PassRefused ==
  ASSUME NEW done \in PassStates
  PROVE  /\ done.err = "" => done \in Ok
         /\ done.err # "" => done.list = <<>>
<1>1. \A d \in Ok : d.err = ""
  BY DEF Ok
<1>2. \A why : Refused(why).err = why /\ Refused(why).list = <<>>
  BY DEF Refused
<1>3. CASE done \in Ok
  BY <1>1, <1>3
<1>4. CASE done \notin Ok
  <2>1. PICK why \in {"NoStart", "OutOfRange", "NoDuration", "TooManyIntervals"} :
           done = Refused(why)
    BY <1>4 DEF PassStates
  <2>2. why # ""
    OBVIOUS
  <2>3. QED BY <1>2, <2>1, <2>2
<1>5. QED BY <1>3, <1>4

\* None, and one element, are options.
LEMMA NoneOrOne ==
  ASSUME NEW S
  PROVE  {} \in OptionOf(S) /\ \A x \in S : {x} \in OptionOf(S)
BY DEF OptionOf

\* A start that is given is an instant, be it now.
LEMMA Resolved ==
  ASSUME NEW now \in Nat, NEW starts \in StartTimes
  PROVE  {Resolve(s, now) : s \in starts} \in OptionOf(Nat)
<1>1. \A s \in Nat \cup {Now} : Resolve(s, now) \in Nat
  BY DEF Resolve, Now
<1>2. starts \subseteq Nat \cup {Now} /\ \A x, y \in starts : x = y
  BY DEF StartTimes, OptionOf
<1>3. QED BY <1>1, <1>2 DEF OptionOf

\* One step of a pass that goes well: it has gone well until then, and the interval is
\* divided between where it starts and where it ends.
Stepped(event, now, before, after, i) ==
    /\ after \in Ok /\ before \in Ok /\ Fine(before)
    /\ \E start \in Nat : \E end \in OptionOf(Nat) :
         /\ StartIn(event, now, before.cursor, i) = {start}
         /\ end = EndIn(event, now, start, i)
         /\ after.cursor = end
         /\ after.list = before.list \o Split(event.intervals[i], i, start, end)

\* One interval after the others: where it starts and when it ends.
LEMMA ExpandedNext ==
  ASSUME NEW event, IsTimed(event), NEW now \in Nat, NEW i \in 1 .. Len(event.intervals),
         NEW done \in Ok
  PROVE  /\ Expanded(event, now, done, i) \in PassStates
         /\ Expanded(event, now, done, i).err = "" =>
              Stepped(event, now, done, Expanded(event, now, done, i), i)
<1> PICK interval : interval = event.intervals[i]
  OBVIOUS
<1> PICK starts : starts = StartIn(event, now, done.cursor, i)
  OBVIOUS
<1> PICK start : start = TheElement(starts)
  OBVIOUS
<1> PICK end : end = EndIn(event, now, start, i)
  OBVIOUS
<1> PICK list : list = done.list \o Split(interval, i, start, end)
  OBVIOUS
<1> PICK result : result = Expanded(event, now, done, i)
  OBVIOUS
<1>1. /\ event.intervals \in Seq(Declared) /\ i \in Nat
      /\ interval \in Declared /\ event.tick \in Durations
      /\ \A j \in 1 .. Len(event.intervals) : event.intervals[j] \in Declared
  BY DEF IsTimed
<1>2. \A j \in 1 .. Len(event.intervals) : OwnStart(event, now, j) \in OptionOf(Nat)
  BY <1>1, Resolved DEF OwnStart, Declared
<1>3. starts \in OptionOf(Nat)
  BY <1>2 DEF StartIn, OrElse, Ok
<1>4. ASSUME starts # {} PROVE /\ start \in Nat /\ starts = {start} /\ end \in OptionOf(Nat)
                               /\ list \in Seq(Interval)
  <2>1. start \in Nat /\ starts = {start}
    BY <1>3, <1>4, TheOnlyElement
  <2>2. end \in OptionOf(Nat)
    <3> PICK duration : duration = DurationIn(event, i)
      OBVIOUS
    <3>1. duration \in Durations
      BY <1>1 DEF DurationIn, OrElse, Declared
    <3>2. CASE duration # {}
      <4> PICK d : d = TheElement(duration)
        OBVIOUS
      <4>1. d \in Nat \cup {Forever} /\ end = AddTo(d, start)
        BY <3>1, <3>2, TheOnlyElement DEF EndIn, Durations
      <4>2. d \in Nat => d + start \in Nat /\ start + d \in Nat
        BY <2>1
      <4>3. CASE d = Forever
        BY <4>1, <4>3, NoneOrOne DEF AddTo
      <4>4. CASE d # Forever
        <5>1. d \in Nat /\ end = {start + d}
          BY <4>1, <4>4 DEF AddTo
        <5>2. QED BY <4>2, <5>1, NoneOrOne
      <4>5. QED BY <4>3, <4>4
    <3>3. CASE duration = {}
      <4>1. CASE i = Len(event.intervals)
        <5>1. end = {}
          BY <3>3, <4>1 DEF EndIn
        <5>2. QED BY <5>1 DEF OptionOf
      <4>2. CASE i # Len(event.intervals)
        <5>1. end = OwnStart(event, now, i + 1)
          BY <3>3, <4>2 DEF EndIn
        <5>2. i + 1 \in 1 .. Len(event.intervals)
          BY <1>1, <4>2
        <5>3. QED BY <1>2, <5>1, <5>2
      <4>3. QED BY <4>1, <4>2
    <3>4. QED BY <3>2, <3>3
  <2>3. Split(interval, i, start, end) \in Seq(Interval)
    BY <1>1, <2>1, <2>2, SplitCovers DEF Divides
  <2>4. done.list \in Seq(Interval)
    BY DEF Ok
  <2>5. QED BY <2>1, <2>2, <2>3, <2>4, ConcatProperties
<1>5. \/ result = Refused("NoStart") \/ result = Refused("OutOfRange")
      \/ result = Refused("NoDuration") \/ result = Refused("TooManyIntervals")
      \/ starts # {} /\ result = [err |-> "", list |-> list, cursor |-> end]
  BY DEF Expanded
<1>6. \A why \in {"NoStart", "OutOfRange", "NoDuration", "TooManyIntervals"} :
         Refused(why) \in PassStates /\ Refused(why).err # ""
  BY DEF PassStates, Refused
<1>7. CASE starts # {} /\ result = [err |-> "", list |-> list, cursor |-> end]
  <2>1. result \in Ok /\ result.cursor = end /\ result.list = list
    <3>1. end \in OptionOf(Nat) /\ list \in Seq(Interval)
      BY <1>4, <1>7
    <3>2. result = [err |-> "", list |-> list, cursor |-> end]
      BY <1>7
    <3> HIDE DEF OptionOf
    <3>3. QED BY ONLY <3>1, <3>2 DEF Ok
  <2>2. Fine(done) /\ done \in Ok
    BY DEF Ok, Fine
  <2>3. Stepped(event, now, done, result, i)
    BY <1>4, <1>7, <2>1, <2>2 DEF Stepped
  <2>4. QED BY <2>1, <2>3 DEF PassStates
<1>8. CASE result \in {Refused(why) : why \in {"NoStart", "OutOfRange", "NoDuration",
                                               "TooManyIntervals"}}
  BY <1>6, <1>8
<1>9. QED BY <1>5, <1>7, <1>8

\* The pass, interval by interval.
IsPass(f, event, now) ==
    /\ f \in [0 .. Len(event.intervals) -> PassStates]
    /\ f[0] = Begin(event, now)
    /\ \A i \in 1 .. Len(event.intervals) :
          f[i] = IF f[i - 1].err # "" THEN f[i - 1] ELSE Expanded(event, now, f[i - 1], i)
    /\ ExpandPass(event, now) = f[Len(event.intervals)]

\* There is the pass ExpandPass returns the last of.
LEMMA PassExists ==
  ASSUME NEW event, IsTimed(event), NEW now \in Nat
  PROVE  \E f : IsPass(f, event, now)
<1> PICK n : n = Len(event.intervals)
  OBVIOUS
<1>1. n \in Nat /\ event.start \in StartTimes
  BY DEF IsTimed
<1>2. Begin(event, now) \in PassStates
  <2> PICK cursor : cursor = {Resolve(s, now) : s \in event.start}
    OBVIOUS
  <2>1. cursor \in OptionOf(Nat)
    BY <1>1, Resolved
  <2> PICK none : none = <<>>
    OBVIOUS
  <2>2. Begin(event, now) = [err |-> "", list |-> none, cursor |-> cursor]
    BY DEF Begin
  <2>3. none \in Seq(Interval)
    OBVIOUS
  <2>4. [err |-> "", list |-> none, cursor |-> cursor] \in Ok
    BY ONLY <2>1, <2>3 DEF Ok
  <2>5. QED BY <2>2, <2>4 DEF PassStates
<1> DEFINE OneOn(x, i) == IF x.err # "" THEN x ELSE Expanded(event, now, x, i)
           Eq(f) == f = [i \in 0 .. Len(event.intervals) |->
                           IF i = 0 THEN Begin(event, now)
                           ELSE IF f[i - 1].err # "" THEN f[i - 1]
                           ELSE Expanded(event, now, f[i - 1], i)]
           pass == CHOOSE f : Eq(f)
<1>3. ExpandPass(event, now) = pass[n]
  BY DEF ExpandPass
<1>4. \A i \in 1 .. n, x \in PassStates : OneOn(x, i) \in PassStates
  BY PassRefused, ExpandedNext
<1>5. PICK f : f \in [0 .. n -> PassStates] /\ f[0] = Begin(event, now)
               /\ \A i \in 1 .. n : f[i] = OneOn(f[i - 1], i)
  <2> HIDE DEF OneOn
  <2>1. PICK step : step = [i \in 1 .. n |-> [x \in PassStates |-> OneOn(x, i)]]
    OBVIOUS
  <2>2. step \in [1 .. n -> [PassStates -> PassStates]]
    BY <1>4, <2>1
  <2>3. PICK f : f \in [0 .. n -> PassStates] /\ f[0] = Begin(event, now)
                 /\ \A i \in 1 .. n : f[i] = step[i][f[i - 1]]
    <3>1. \E f : Steps(f, n, PassStates, Begin(event, now), step)
      BY <1>1, <1>2, <2>2, StepByStep
    <3>2. QED BY <3>1 DEF Steps, Follows
  <2>4. ASSUME NEW i \in 1 .. n PROVE f[i] = OneOn(f[i - 1], i)
    <3>1. i - 1 \in 0 .. n
      BY <1>1
    <3>2. f[i - 1] \in PassStates
      BY <2>3, <3>1
    <3>3. QED BY <2>1, <2>3, <3>2
  <2>5. QED BY <2>3, <2>4
<1>6. \E g : Eq(g)
  <2>1. ASSUME NEW i \in 0 .. n
        PROVE  f[i] = IF i = 0 THEN Begin(event, now) ELSE OneOn(f[i - 1], i)
    <3> HIDE DEF OneOn
    <3>1. CASE i = 0
      BY <1>5, <3>1
    <3>2. CASE i # 0
      <4>1. i \in 1 .. n
        BY <1>1, <3>2
      <4>2. QED BY <1>5, <3>2, <4>1
    <3>3. QED BY <3>1, <3>2
  <2>2. Eq(f)
    BY <1>5, <2>1
  <2> HIDE DEF Eq
  <2>3. QED BY <2>2
<1>7. Eq(pass)
  <2> HIDE DEF Eq
  <2>1. QED BY <1>6
<1> HIDE DEF pass
<1> DEFINE T == {i \in 0 .. n : pass[i] \in PassStates}
<1>8. pass[0] = Begin(event, now) /\ 0 \in 0 .. n
  <2>1. 0 \in 0 .. Len(event.intervals)
    BY <1>1
  <2>2. QED BY <1>7, <2>1
<1>9. ASSUME NEW i \in 1 .. n PROVE pass[i] = OneOn(pass[i - 1], i) /\ i \in 0 .. n
  <2>1. i \in 0 .. n /\ i # 0
    BY <1>1
  <2>2. QED BY <1>7, <2>1
<1> HIDE DEF OneOn
<1>10. \A i \in 0 .. n : i \in T
  <2>1. 0 \in T
    BY <1>2, <1>8
  <2>2. \A i \in 1 .. n : i - 1 \in T => i \in T
    BY <1>4, <1>9
  <2> HIDE DEF T
  <2>3. QED BY <1>1, <2>1, <2>2, UpTo
<1>11. pass \in [0 .. n -> PassStates]
  <2>1. \A i \in 0 .. n : pass[i] \in PassStates
    BY <1>10
  <2>2. pass = [i \in 0 .. n |-> pass[i]]
    BY <1>7
  <2>3. QED BY <2>1, <2>2
<1>12. IsPass(pass, event, now)
  <2> USE DEF OneOn
  <2>1. QED BY <1>3, <1>8, <1>9, <1>11 DEF IsPass
<1>13. QED BY <1>12

\* What one sequence or the other has, never both, they have one after the other.
LEMMA AppendExactly ==
  ASSUME NEW S, NEW a \in Seq(S), NEW b \in Seq(S), NEW P, NEW A, NEW B,
         Exactly(a, P, A), Exactly(b, P, B), ~(A /\ B)
  PROVE  Exactly(a \o b, P, A \/ B)
<1> PICK c : c = a \o b
  OBVIOUS
<1> PICK L : L = Len(a)
  OBVIOUS
<1>1. /\ L \in Nat /\ Len(b) \in Nat /\ DOMAIN a = 1 .. L /\ DOMAIN b = 1 .. Len(b)
      /\ DOMAIN c = 1 .. (L + Len(b))
      /\ \A n \in 1 .. (L + Len(b)) : c[n] = IF n <= L THEN a[n] ELSE b[n - L]
  BY ConcatProperties, LenProperties
<1>2. /\ \A m, n \in DOMAIN a : a[m] \in P /\ a[n] \in P => m = n
      /\ \A m, n \in DOMAIN b : b[m] \in P /\ b[n] \in P => m = n
      /\ (\E n \in DOMAIN a : a[n] \in P) <=> A
      /\ (\E n \in DOMAIN b : b[n] \in P) <=> B
  BY DEF Exactly, Once
<1>3. ASSUME NEW n \in DOMAIN c, c[n] \in P
      PROVE  \/ n \in DOMAIN a /\ a[n] \in P /\ A
             \/ n - L \in DOMAIN b /\ b[n - L] \in P /\ B
  <2>1. CASE n <= L
    <3>1. n \in DOMAIN a /\ a[n] \in P
      BY <1>1, <1>3, <2>1
    <3>2. QED BY <1>2, <3>1
  <2>2. CASE ~(n <= L)
    <3>1. n - L \in DOMAIN b /\ b[n - L] \in P
      BY <1>1, <1>3, <2>2
    <3>2. QED BY <1>2, <3>1
  <2>3. QED BY <2>1, <2>2
<1>4. ASSUME NEW m \in DOMAIN c, NEW n \in DOMAIN c, c[m] \in P, c[n] \in P PROVE m = n
  <2>1. m \in Nat /\ n \in Nat
    BY <1>1
  <2>2. CASE A
    <3>1. m \in DOMAIN a /\ a[m] \in P /\ n \in DOMAIN a /\ a[n] \in P
      BY <1>3, <1>4, <2>2
    <3>2. QED BY <1>2, <3>1
  <2>3. CASE ~A
    <3>1. m - L \in DOMAIN b /\ b[m - L] \in P /\ n - L \in DOMAIN b /\ b[n - L] \in P
      BY <1>3, <1>4, <2>3
    <3>2. m - L = n - L
      BY <1>2, <3>1
    <3>3. QED BY <1>1, <2>1, <3>2
  <2>4. QED BY <2>2, <2>3
<1>5. ASSUME A PROVE \E n \in DOMAIN c : c[n] \in P
  <2>1. PICK n \in DOMAIN a : a[n] \in P
    BY <1>2, <1>5
  <2>2. n \in DOMAIN c /\ c[n] = a[n]
    BY <1>1
  <2>3. QED BY <2>1, <2>2
<1>6. ASSUME B PROVE \E n \in DOMAIN c : c[n] \in P
  <2>1. PICK n \in DOMAIN b : b[n] \in P
    BY <1>2, <1>6
  <2>2. PICK k : k = n + L
    OBVIOUS
  <2>3. k \in DOMAIN c /\ ~(k <= L) /\ k - L = n
    BY <1>1, <2>2
  <2>4. c[k] = b[n]
    BY <1>1, <2>3
  <2>5. QED BY <2>1, <2>3, <2>4
<1>7. QED BY <1>3, <1>4, <1>5, <1>6 DEF Exactly, Once

\* The part k of interval j, and the parts of interval j that are in force at an instant.
Cell(j, k) == {x \in Interval : x.index = j /\ x.subinterval = k}
At(j, t) == {x \in During(t) : x.index = j}

\* The intervals of a list are of the first few, each of its parts once.
Distinct(list) == \A j, k \in Nat : Once(list, Cell(j, k))
UpToIndex(list, i) == \A m \in DOMAIN list : list[m].index \in 1 .. i

\* The parts of interval i after those of the ones before it.
Continues(new, list, i, start, end) ==
    /\ new \in Seq(Interval) /\ UpToIndex(new, i)
    /\ Distinct(list) => Distinct(new)
    /\ \A t \in Nat : /\ Exactly(new, At(i, t), start <= t /\ \A e \in end : t < e)
                      /\ \A j \in 1 .. i - 1 : Once(list, At(j, t)) =>
                           Exactly(new, At(j, t), \E m \in DOMAIN list : list[m] \in At(j, t))

\* The parts of an interval, put after those of the ones before it, continue them.
LEMMA ThenSplit ==
  ASSUME NEW i \in Nat \ {0}, NEW interval \in Declared, NEW start \in Nat,
         NEW end \in OptionOf(Nat), NEW list \in Seq(Interval), UpToIndex(list, i - 1),
         NEW new, new = list \o Split(interval, i, start, end)
  PROVE  Continues(new, list, i, start, end)
<1> PICK parts : parts = Split(interval, i, start, end)
  OBVIOUS
<1>1. /\ parts \in Seq(Interval)
      /\ \A k \in DOMAIN parts : parts[k].index = i /\ parts[k].subinterval = k - 1
      /\ \A t \in Nat : Exactly(parts, During(t), start <= t /\ \A e \in end : t < e)
  <2>1. i \in Nat
    OBVIOUS
  <2>2. Divides(parts, i, start, end)
    BY <2>1, SplitCovers
  <2>3. QED BY <2>2 DEF Divides
<1>2. new = list \o parts
  OBVIOUS
<1>3. /\ new \in Seq(Interval) /\ DOMAIN parts = 1 .. Len(parts) /\ Len(parts) \in Nat
      /\ DOMAIN list = 1 .. Len(list) /\ Len(list) \in Nat
      /\ DOMAIN new = 1 .. (Len(list) + Len(parts))
      /\ \A n \in 1 .. (Len(list) + Len(parts)) :
            new[n] = IF n <= Len(list) THEN list[n] ELSE parts[n - Len(list)]
  BY <1>1, <1>2, ConcatProperties, LenProperties
<1>4. UpToIndex(new, i)
  <2> SUFFICES ASSUME NEW n \in DOMAIN new PROVE new[n].index \in 1 .. i
    BY DEF UpToIndex
  <2>1. CASE n <= Len(list)
    <3>1. n \in DOMAIN list /\ new[n] = list[n]
      BY <1>3, <2>1
    <3>2. QED BY <3>1 DEF UpToIndex
  <2>2. CASE ~(n <= Len(list))
    <3>1. n - Len(list) \in DOMAIN parts /\ new[n] = parts[n - Len(list)]
      BY <1>3, <2>2
    <3>2. QED BY <1>1, <3>1
  <2>3. QED BY <2>1, <2>2
<1>5. ASSUME NEW j, NEW P, j # i, \A x \in P : x.index = j PROVE Exactly(parts, P, FALSE)
  <2>1. \A k \in DOMAIN parts : parts[k].index = i
    BY <1>1
  <2>2. \A k \in DOMAIN parts : parts[k] \notin P
    BY <1>5, <2>1
  <2>3. QED BY <2>2 DEF Exactly, Once
<1>6. ASSUME NEW P, \A x \in P : x.index = i PROVE Exactly(list, P, FALSE)
  <2>1. \A m \in DOMAIN list : list[m].index # i
    BY DEF UpToIndex
  <2>2. QED BY <1>6, <2>1 DEF Exactly, Once
<1>7. ASSUME Distinct(list) PROVE Distinct(new)
  <2> SUFFICES ASSUME NEW j \in Nat, NEW k \in Nat PROVE Once(new, Cell(j, k))
    BY DEF Distinct
  <2>1. \A x \in Cell(j, k) : x.index = j
    BY DEF Cell
  <2>2. CASE j = i
    <3>1. Exactly(list, Cell(j, k), FALSE)
      BY <1>6, <2>1, <2>2
    <3>2. Exactly(parts, Cell(j, k), \E n \in DOMAIN parts : parts[n] \in Cell(j, k))
      <4>1. Once(parts, Cell(j, k))
        <5> SUFFICES ASSUME NEW m \in DOMAIN parts, NEW n \in DOMAIN parts,
                            parts[m] \in Cell(j, k), parts[n] \in Cell(j, k)
                     PROVE  m = n
          BY DEF Once
        <5>1. m - 1 = n - 1
          BY <1>1 DEF Cell
        <5>2. QED BY <1>3, <5>1
      <4>2. QED BY <4>1 DEF Exactly
    <3>3. Exactly(new, Cell(j, k), FALSE \/ \E n \in DOMAIN parts : parts[n] \in Cell(j, k))
      BY <1>1, <1>2, <3>1, <3>2, AppendExactly
    <3>4. QED BY <3>3 DEF Exactly
  <2>3. CASE j # i
    <3>1. Exactly(parts, Cell(j, k), FALSE)
      BY <1>5, <2>1, <2>3
    <3>2. Exactly(list, Cell(j, k), \E n \in DOMAIN list : list[n] \in Cell(j, k))
      BY <1>7 DEF Exactly, Distinct
    <3>3. Exactly(new, Cell(j, k), (\E n \in DOMAIN list : list[n] \in Cell(j, k)) \/ FALSE)
      BY <1>1, <1>2, <3>1, <3>2, AppendExactly
    <3>4. QED BY <3>3 DEF Exactly
  <2>4. QED BY <2>2, <2>3
<1>8. ASSUME NEW t \in Nat
      PROVE  Exactly(new, At(i, t), start <= t /\ \A e \in end : t < e)
  <2> PICK holds : holds = (start <= t /\ \A e \in end : t < e)
    OBVIOUS
  <2>1. \A x \in At(i, t) : x.index = i
    BY DEF At
  <2>2. Exactly(list, At(i, t), FALSE)
    BY <1>6, <2>1
  <2>3. Exactly(parts, At(i, t), holds)
    <3>1. \A n \in DOMAIN parts : parts[n] \in At(i, t) <=> parts[n] \in During(t)
      BY <1>1 DEF At
    <3>2. Exactly(parts, During(t), holds)
      BY <1>1
    <3>3. QED BY <3>1, <3>2 DEF Exactly, Once
  <2>4. Exactly(new, At(i, t), FALSE \/ holds)
    BY <1>1, <1>2, <2>2, <2>3, AppendExactly
  <2>5. QED BY <2>4 DEF Exactly
<1>9. ASSUME NEW t \in Nat, NEW j \in 1 .. i - 1, Once(list, At(j, t))
      PROVE  Exactly(new, At(j, t), \E m \in DOMAIN list : list[m] \in At(j, t))
  <2>1. \A x \in At(j, t) : x.index = j
    BY DEF At
  <2>2. j # i
    OBVIOUS
  <2>3. Exactly(parts, At(j, t), FALSE)
    BY <1>5, <2>1, <2>2
  <2>4. Exactly(list, At(j, t), \E m \in DOMAIN list : list[m] \in At(j, t))
    BY <1>9 DEF Exactly
  <2>5. Exactly(new, At(j, t), (\E m \in DOMAIN list : list[m] \in At(j, t)) \/ FALSE)
    BY <1>1, <1>2, <2>3, <2>4, AppendExactly
  <2>6. QED BY <2>5 DEF Exactly
<1>10. QED BY <1>3, <1>4, <1>7, <1>8, <1>9 DEF Continues

\* The intervals of an event and their numbers.
LEMMA TimedLength ==
  ASSUME NEW event, IsTimed(event)
  PROVE  /\ Len(event.intervals) \in Nat /\ DOMAIN event.intervals = 1 .. Len(event.intervals)
         /\ \A i \in 1 .. Len(event.intervals) :
               /\ event.intervals[i] \in Declared /\ i \in Nat \ {0}
               /\ i \in 0 .. Len(event.intervals) /\ i - 1 \in 0 .. Len(event.intervals)
<1> PICK s : s = event.intervals
  OBVIOUS
<1>1. s \in Seq(Declared)
  BY DEF IsTimed
<1>2. Len(s) \in Nat /\ DOMAIN s = 1 .. Len(s) /\ \A i \in 1 .. Len(s) : s[i] \in Declared
  BY <1>1
<1>3. \A i \in 1 .. Len(s) : i \in Nat \ {0} /\ i \in 0 .. Len(s) /\ i - 1 \in 0 .. Len(s)
  BY <1>2
<1>4. QED BY <1>2, <1>3

\* Each step of a pass that goes well is one.
LEMMA PassStep ==
  ASSUME NEW event, IsTimed(event), NEW now \in Nat, NEW f, IsPass(f, event, now),
         NEW i \in 1 .. Len(event.intervals), Fine(f[i])
  PROVE  Stepped(event, now, f[i - 1], f[i], i)
<1>1. i - 1 \in 0 .. Len(event.intervals) /\ i \in 0 .. Len(event.intervals)
  BY TimedLength
<1>2. f[i - 1] \in PassStates /\ f[i] \in PassStates
  BY <1>1 DEF IsPass
<1>3. f[i] = IF f[i - 1].err # "" THEN f[i - 1] ELSE Expanded(event, now, f[i - 1], i)
  BY DEF IsPass
<1>4. Fine(f[i - 1]) /\ f[i] = Expanded(event, now, f[i - 1], i)
  BY <1>3 DEF Fine
<1>5. f[i - 1] \in Ok /\ f[i] \in Ok
  BY <1>2, <1>4, PassRefused DEF Fine
<1>6. QED BY <1>4, <1>5, ExpandedNext DEF Fine

\* As long as a pass goes well, it lists the parts of the intervals it has come by, each
\* once.
LEMMA PassKeeps ==
  ASSUME NEW event, IsTimed(event), NEW now \in Nat, NEW f, IsPass(f, event, now)
  PROVE  \A i \in 0 .. Len(event.intervals) : Fine(f[i]) =>
            f[i] \in Ok /\ UpToIndex(f[i].list, i) /\ Distinct(f[i].list)
<1> PICK n : n = Len(event.intervals)
  OBVIOUS
<1>1. n \in Nat /\ \A i \in 1 .. n : event.intervals[i] \in Declared /\ i \in Nat \ {0}
  BY TimedLength
<1> DEFINE T == {i \in 0 .. n : Fine(f[i]) =>
                     f[i] \in Ok /\ UpToIndex(f[i].list, i) /\ Distinct(f[i].list)}
<1>2. 0 \in T
  <2>1. f[0] = Begin(event, now) /\ 0 \in 0 .. n
    <3>1. f[0] = Begin(event, now)
      BY DEF IsPass
    <3>2. QED BY <1>1, <3>1
  <2>2. f[0].list = <<>> /\ f[0] \in PassStates
    <3>1. Begin(event, now).list = <<>>
      BY DEF Begin
    <3>2. f[0] \in PassStates
      BY <2>1 DEF IsPass
    <3>3. QED BY <2>1, <3>1, <3>2
  <2>3. DOMAIN f[0].list = {}
    BY <2>2
  <2>4. UpToIndex(f[0].list, 0) /\ Distinct(f[0].list)
    BY <2>3 DEF UpToIndex, Distinct, Once
  <2>5. Fine(f[0]) => f[0] \in Ok
    BY <2>2, PassRefused DEF Fine
  <2>6. 0 \in 0 .. n
    BY <2>1
  <2>7. QED BY <2>4, <2>5, <2>6, Zenon
<1>3. ASSUME NEW i \in 1 .. n, i - 1 \in T PROVE i \in T
  <2> SUFFICES ASSUME Fine(f[i])
               PROVE  f[i] \in Ok /\ UpToIndex(f[i].list, i) /\ Distinct(f[i].list)
    <3>1. i \in 0 .. n
      BY TimedLength
    <3>2. QED BY <3>1, Zenon
  <2>1. Stepped(event, now, f[i - 1], f[i], i)
    BY PassStep
  <2>2. PICK start \in Nat, end \in OptionOf(Nat) :
           f[i].list = f[i - 1].list \o Split(event.intervals[i], i, start, end)
    BY <2>1 DEF Stepped
  <2> PICK list : list = f[i - 1].list
    OBVIOUS
  <2> PICK new : new = f[i].list
    OBVIOUS
  <2> PICK interval : interval = event.intervals[i]
    OBVIOUS
  <2>3. list \in Seq(Interval) /\ UpToIndex(list, i - 1) /\ Distinct(list)
    BY <1>3, <2>1 DEF Ok, Stepped
  <2>4. interval \in Declared /\ i \in Nat \ {0}
    BY <1>1
  <2>5. new = list \o Split(interval, i, start, end)
    BY <2>2
  <2>6. UpToIndex(new, i) /\ (Distinct(list) => Distinct(new))
    <3>1. Continues(new, list, i, start, end)
      BY <2>3, <2>4, <2>5, ThenSplit
    <3>2. QED BY <3>1, Zenon DEF Continues
  <2>7. QED BY <2>1, <2>3, <2>6 DEF Stepped
<1>4. QED
  <2> HIDE DEF T
  <2>1. \A i \in 0 .. n : i \in T
    BY <1>1, <1>2, <1>3, UpTo
  <2> USE DEF T
  <2>2. QED BY <2>1

\* What a pass lists.
LEMMA PassIsSound ==
  ASSUME NEW event, IsTimed(event), NEW now \in Nat
  PROVE  /\ ExpandPass(event, now).list \in Seq(Interval)
         /\ Distinct(ExpandPass(event, now).list)
         /\ ~Fine(ExpandPass(event, now)) => ExpandPass(event, now).list = <<>>
<1>1. PICK f : IsPass(f, event, now)
  BY PassExists
<1> PICK n : n = Len(event.intervals)
  OBVIOUS
<1>2. n \in Nat /\ n \in 0 .. n
  BY TimedLength
<1> PICK pass : pass = ExpandPass(event, now)
  OBVIOUS
<1>3. pass = f[n] /\ pass \in PassStates
  BY <1>1, <1>2 DEF IsPass
<1>4. CASE Fine(pass)
  <2>1. pass \in Ok /\ Distinct(pass.list)
    BY <1>1, <1>2, <1>3, <1>4, PassKeeps
  <2>2. QED BY <1>4, <2>1 DEF Ok
<1>5. CASE ~Fine(pass)
  <2>1. pass.list = <<>>
    BY <1>3, <1>5, PassRefused DEF Fine
  <2>2. DOMAIN pass.list = {} /\ pass.list \in Seq(Interval)
    BY <2>1
  <2>3. QED BY <2>1, <2>2 DEF Distinct, Once
<1>6. QED BY <1>4, <1>5

\* An event undivided has the same intervals, of no payloads.
LEMMA UndividedIsTimed ==
  ASSUME NEW event, IsTimed(event)
  PROVE  /\ IsTimed(Undivided(event))
         /\ Len(Undivided(event).intervals) = Len(event.intervals)
         /\ \A i \in 1 .. Len(event.intervals) :
              /\ Undivided(event).intervals[i].payloads = <<>>
              /\ \A now : OwnStart(Undivided(event), now, i) = OwnStart(event, now, i)
              /\ DurationIn(Undivided(event), i) = DurationIn(event, i)
         /\ \A now : Begin(Undivided(event), now) = Begin(event, now)
<1> PICK n : n = Len(event.intervals)
  OBVIOUS
<1>1. /\ event.start \in StartTimes /\ event.tick \in Durations /\ event.lasts \in Durations
      /\ event.intervals \in Seq(Declared)
  BY DEF IsTimed
<1>2. n \in Nat /\ DOMAIN event.intervals = 1 .. n
      /\ \A i \in 1 .. n : event.intervals[i] \in Declared
  BY <1>1
<1> DEFINE bare(i) == [event.intervals[i] EXCEPT !.payloads = <<>>]
<1> PICK intervals : intervals = [i \in 1 .. n |-> bare(i)]
  OBVIOUS
<1> PICK u : u = Undivided(event)
  OBVIOUS
<1>3. u = [event EXCEPT !.intervals = intervals]
  BY <1>2 DEF Undivided
<1>4. ASSUME NEW i \in 1 .. n
      PROVE  /\ bare(i) \in Declared /\ bare(i).payloads = <<>>
             /\ bare(i).start = event.intervals[i].start
             /\ bare(i).tick = event.intervals[i].tick
  <2>1. <<>> \in Payloads
    BY DEF Payloads
  <2>2. event.intervals[i] \in Declared
    BY <1>2
  <2>3. QED BY <2>1, <2>2 DEF Declared
<1> HIDE DEF bare
<1>5. intervals \in Seq(Declared) /\ Len(intervals) = n /\ \A i \in 1 .. n : intervals[i] = bare(i)
  <2>1. intervals \in [1 .. n -> Declared]
    BY <1>4
  <2>2. QED BY <1>2, <2>1
<1>6. /\ u.intervals = intervals
      /\ u.start = event.start /\ u.tick = event.tick /\ u.lasts = event.lasts
  BY <1>3
<1>7. IsTimed(u)
  BY <1>1, <1>5, <1>6 DEF IsTimed
<1>8. ASSUME NEW i \in 1 .. n
      PROVE  /\ u.intervals[i].payloads = <<>>
             /\ \A now : OwnStart(u, now, i) = OwnStart(event, now, i)
             /\ DurationIn(u, i) = DurationIn(event, i)
  BY <1>4, <1>5, <1>6 DEF OwnStart, DurationIn
<1>9. \A now : Begin(u, now) = Begin(event, now)
  BY <1>6 DEF Begin
<1>10. QED BY <1>5, <1>6, <1>7, <1>8, <1>9

\* A pass over the intervals undivided comes to the same places: what one of them would be
\* in force, its parts are in force, one at a time.
Alike(x, y, i) ==
    /\ x.cursor = y.cursor /\ y.list \in Seq(Interval) /\ Len(y.list) = i
    /\ \A m \in 1 .. i : y.list[m].index = m
    /\ \A t \in Nat, j \in 1 .. i : Exactly(x.list, At(j, t), y.list[j] \in During(t))

\* Two passes that came to the same places come to the same places after one more interval.
LEMMA AlikeNext ==
  ASSUME NEW event, IsTimed(event), NEW now \in Nat, NEW i \in 1 .. Len(event.intervals),
         NEW d1, NEW d2, NEW u1, NEW u2,
         Stepped(event, now, d1, d2, i), Stepped(Undivided(event), now, u1, u2, i),
         UpToIndex(d1.list, i - 1), Alike(d1, u1, i - 1)
  PROVE  Alike(d2, u2, i)
<1> PICK plain : plain = Undivided(event)
  OBVIOUS
<1>1. /\ i \in Nat \ {0} /\ Len(event.intervals) \in Nat /\ i - 1 \in Nat
      /\ event.intervals[i] \in Declared
      /\ \A j \in 1 .. Len(event.intervals) : OwnStart(plain, now, j) = OwnStart(event, now, j)
      /\ DurationIn(plain, i) = DurationIn(event, i)
      /\ Len(plain.intervals) = Len(event.intervals)
      /\ plain.intervals[i] \in Declared /\ plain.intervals[i].payloads = <<>>
  <2>1. IsTimed(plain) /\ Len(plain.intervals) = Len(event.intervals)
    BY UndividedIsTimed
  <2>2. plain.intervals[i] \in Declared
    BY <2>1, TimedLength
  <2>3. /\ \A j \in 1 .. Len(event.intervals) : OwnStart(plain, now, j) = OwnStart(event, now, j)
        /\ DurationIn(plain, i) = DurationIn(event, i)
        /\ plain.intervals[i].payloads = <<>>
    BY UndividedIsTimed
  <2>4. i \in Nat \ {0} /\ Len(event.intervals) \in Nat /\ event.intervals[i] \in Declared
    BY TimedLength
  <2>5. QED BY <2>1, <2>2, <2>3, <2>4
<1>2. PICK start \in Nat, end \in OptionOf(Nat) :
         /\ StartIn(event, now, d1.cursor, i) = {start}
         /\ end = EndIn(event, now, start, i)
         /\ d2.cursor = end
         /\ d2.list = d1.list \o Split(event.intervals[i], i, start, end)
  BY DEF Stepped
<1>3. PICK start2 \in Nat, end2 \in OptionOf(Nat) :
         /\ StartIn(plain, now, u1.cursor, i) = {start2}
         /\ end2 = EndIn(plain, now, start2, i)
         /\ u2.cursor = end2
         /\ u2.list = u1.list \o Split(plain.intervals[i], i, start2, end2)
  BY DEF Stepped
<1>4. start2 = start
  <2>1. StartIn(plain, now, u1.cursor, i) = StartIn(event, now, d1.cursor, i)
    BY <1>1 DEF StartIn, Alike
  <2>2. QED BY <1>2, <1>3, <2>1
<1>5. end2 = end
  <2>1. CASE DurationIn(event, i) # {}
    BY <1>1, <1>2, <1>3, <1>4, <2>1 DEF EndIn
  <2>2. CASE DurationIn(event, i) = {} /\ i = Len(event.intervals)
    BY <1>1, <1>2, <1>3, <1>4, <2>2 DEF EndIn
  <2>3. CASE DurationIn(event, i) = {} /\ i # Len(event.intervals)
    <3>1. end = OwnStart(event, now, i + 1) /\ end2 = OwnStart(plain, now, i + 1)
      BY <1>1, <1>2, <1>3, <2>3 DEF EndIn
    <3>2. i + 1 \in 1 .. Len(event.intervals)
      BY <1>1, <2>3
    <3>3. QED BY <1>1, <3>1, <3>2
  <2>4. QED BY <2>1, <2>2, <2>3
<1> PICK whole : whole = Whole(plain.intervals[i], i, start, end)
  OBVIOUS
<1> PICK before : before = u1.list
  OBVIOUS
<1>6. /\ before \in Seq(Interval) /\ Len(before) = i - 1
      /\ \A m \in 1 .. i - 1 : before[m].index = m
      /\ d1.cursor = u1.cursor
  BY DEF Alike
<1>7. /\ whole \in Interval /\ whole.index = i
      /\ \A t \in Nat : whole \in During(t) <=> start <= t /\ \A e \in end : t < e
  <2>1. plain.intervals[i].id \in Int /\ plain.intervals[i].payloads \in Payloads
    BY <1>1 DEF Declared
  <2>2. whole \in Interval /\ whole.index = i /\ whole.start = start /\ whole.end = end
    BY <1>1, <2>1 DEF Whole, Interval
  <2>3. QED BY <2>2 DEF During
<1> PICK after : after = u2.list
  OBVIOUS
<1>8. after = before \o <<whole>>
  <2>1. Split(plain.intervals[i], i, start, end) = <<whole>>
    BY <1>1, SplitCovers
  <2>2. QED BY <1>3, <1>4, <1>5, <2>1
<1>9. /\ after \in Seq(Interval) /\ Len(after) = i /\ after[i] = whole
      /\ \A m \in 1 .. i - 1 : after[m] = before[m]
  <2> PICK one : one = <<whole>>
    OBVIOUS
  <2>1. one \in Seq(Interval) /\ Len(one) = 1 /\ one[1] = whole
    BY <1>7
  <2>2. after = before \o one
    BY <1>8
  <2>3. /\ after \in Seq(Interval) /\ Len(after) = i - 1 + 1
        /\ \A m \in 1 .. i - 1 + 1 : after[m] = IF m <= i - 1 THEN before[m] ELSE one[m - (i - 1)]
    BY <1>6, <2>1, <2>2, ConcatProperties
  <2>4. QED BY <1>1, <2>1, <2>3
<1>10. ASSUME NEW m \in 1 .. i PROVE after[m].index = m
  <2>1. CASE m = i
    BY <1>7, <1>9, <2>1
  <2>2. CASE m # i
    <3>1. m \in 1 .. i - 1
      BY <1>1, <2>2
    <3>2. QED BY <1>6, <1>9, <3>1
  <2>3. QED BY <2>1, <2>2
<1> PICK list : list = d1.list
  OBVIOUS
<1> PICK new : new = d2.list
  OBVIOUS
<1>11. Continues(new, list, i, start, end)
  <2>1. list \in Seq(Interval)
    BY DEF Stepped, Ok
  <2>2. new = list \o Split(event.intervals[i], i, start, end)
    BY <1>2
  <2>3. UpToIndex(list, i - 1)
    OBVIOUS
  <2>4. QED BY <1>1, <2>1, <2>2, <2>3, ThenSplit
<1>12. ASSUME NEW t \in Nat, NEW j \in 1 .. i PROVE Exactly(new, At(j, t), after[j] \in During(t))
  <2>1. CASE j = i
    <3>1. Exactly(new, At(i, t), start <= t /\ \A e \in end : t < e)
      BY <1>11, Zenon DEF Continues
    <3>2. after[j] \in During(t) <=> start <= t /\ \A e \in end : t < e
      BY <1>7, <1>9, <2>1
    <3>3. QED BY <2>1, <3>1, <3>2 DEF Exactly
  <2>2. CASE j # i
    <3>1. j \in 1 .. i - 1
      BY <1>1, <2>2
    <3>2. Exactly(list, At(j, t), before[j] \in During(t))
      BY <3>1 DEF Alike
    <3>3. Once(list, At(j, t))
          /\ ((\E m \in DOMAIN list : list[m] \in At(j, t)) <=> before[j] \in During(t))
      BY <3>2 DEF Exactly
    <3>4. Exactly(new, At(j, t), \E m \in DOMAIN list : list[m] \in At(j, t))
      BY <1>11, <3>1, <3>3, Zenon DEF Continues
    <3>5. after[j] = before[j]
      BY <1>9, <3>1
    <3>6. QED BY <3>3, <3>4, <3>5 DEF Exactly
  <2>3. QED BY <2>1, <2>2
<1>13. d2.cursor = u2.cursor
  BY <1>2, <1>3, <1>5
<1>14. QED BY <1>9, <1>10, <1>12, <1>13 DEF Alike

\* Two passes over the same intervals, divided and not, come to the same places.
LEMMA PassesAlike ==
  ASSUME NEW event, IsTimed(event), NEW now \in Nat,
         Fine(ExpandPass(event, now)), Fine(ExpandPass(Undivided(event), now))
  PROVE  Alike(ExpandPass(event, now), ExpandPass(Undivided(event), now), Len(event.intervals))
<1> PICK n : n = Len(event.intervals)
  OBVIOUS
<1> PICK plain : plain = Undivided(event)
  OBVIOUS
<1>1. /\ n \in Nat /\ IsTimed(plain) /\ Len(plain.intervals) = n
      /\ Begin(plain, now) = Begin(event, now)
      /\ \A i \in 1 .. n : i \in 0 .. n /\ i - 1 \in 0 .. n
  BY UndividedIsTimed, TimedLength
<1>0. n \in Nat /\ 0 \in 0 .. n /\ n \in 0 .. n
  <2>1. n \in Nat
    BY <1>1
  <2>2. QED BY <2>1
<1>2. PICK d : IsPass(d, event, now)
  BY PassExists
<1>3. PICK u : IsPass(u, plain, now)
  BY <1>1, PassExists
<1>4. /\ ExpandPass(event, now) = d[n] /\ ExpandPass(plain, now) = u[n]
      /\ d[0] = Begin(event, now) /\ u[0] = Begin(event, now)
  BY <1>1, <1>2, <1>3 DEF IsPass
<1> DEFINE Well(i) == Fine(d[i]) /\ Fine(u[i])
           T == {i \in 0 .. n : Well(i) => Alike(d[i], u[i], i)}
<1>5. 0 \in T
  <2> PICK none : none = Begin(event, now)
    OBVIOUS
  <2> PICK list : list = none.list
    OBVIOUS
  <2>1. list = <<>>
    BY DEF Begin
  <2>2. Len(list) = 0 /\ list \in Seq(Interval)
    BY <2>1
  <2>3. Alike(none, none, 0)
    <3>1. \A m \in 1 .. 0 : FALSE
      OBVIOUS
    <3>2. QED BY <2>2, <3>1 DEF Alike
  <2>4. QED BY <1>0, <1>4, <2>3
<1>6. ASSUME NEW i \in 1 .. n, i - 1 \in T PROVE i \in T
  <2> SUFFICES ASSUME Well(i) PROVE Alike(d[i], u[i], i)
    BY <1>1
  <2>1. Stepped(event, now, d[i - 1], d[i], i) /\ Stepped(plain, now, u[i - 1], u[i], i)
    BY <1>1, <1>2, <1>3, PassStep
  <2>2. Well(i - 1)
    BY <2>1 DEF Stepped
  <2>3. Alike(d[i - 1], u[i - 1], i - 1)
    BY <1>6, <2>2
  <2>4. UpToIndex(d[i - 1].list, i - 1)
    BY <1>1, <1>2, <2>2, PassKeeps
  <2>5. QED BY <2>1, <2>3, <2>4, AlikeNext
<1>7. n \in T
  <2> HIDE DEF T
  <2>1. \A i \in 0 .. n : i \in T
    BY <1>0, <1>5, <1>6, UpTo
  <2>2. QED BY <1>0, <2>1
<1>8. QED BY <1>4, <1>7

-----------------------------------------------------------------------------
(***************************************************************************)
(* Sequences: what an event repeats, and by what.                          *)
(***************************************************************************)

\* A sequence whose intervals lie after its start, and within a period of it when it
\* repeats.
Sound(s) ==
    /\ s.base \in Seq(Interval) /\ Distinct(s.base)
    /\ s.start \in Nat /\ s.lifespan \in OptionOf(Nat) /\ s.period \in OptionOf(Nat \ {0})
    /\ \A i \in DOMAIN s.base :
         /\ s.start <= s.base[i].start
         /\ \A p \in s.period : /\ s.base[i].end # {}
                                /\ \A e \in s.base[i].end : e <= s.start + p

\* An event lasts until an instant, or for ever.
LEMMA Lifespan ==
  ASSUME NEW event, IsTimed(event), NEW start \in Nat
  PROVE  LifespanEnd(event, start) \in OptionOf(Nat)
<1> PICK lasts : lasts = event.lasts
  OBVIOUS
<1>1. lasts \in OptionOf(Nat \cup {Forever})
  BY DEF IsTimed, Durations
<1>2. CASE lasts = {}
  <2>1. LifespanEnd(event, start) = {}
    BY <1>2 DEF LifespanEnd
  <2>2. QED BY <2>1, NoneOrOne
<1>3. CASE lasts # {}
  <2> PICK d : d = TheElement(lasts)
    OBVIOUS
  <2>1. d \in Nat \cup {Forever} /\ lasts = {d}
    BY <1>1, <1>3, TheOnlyElement
  <2>2. LifespanEnd(event, start) = AddTo(d, start)
    BY <2>1 DEF LifespanEnd
  <2>3. CASE d = Forever
    BY <2>2, <2>3, NoneOrOne DEF AddTo
  <2>4. CASE d # Forever
    <3>1. d \in Nat /\ AddTo(d, start) = {start + d}
      BY <2>1, <2>4 DEF AddTo
    <3>2. start + d \in Nat
      BY <3>1
    <3>3. QED BY <2>2, <3>1, <3>2, NoneOrOne
  <2>5. QED BY <2>3, <2>4
<1>4. QED BY <1>2, <1>3

\* A refused sequence has no intervals.
LEMMA NoSequenceIsSound ==
  ASSUME NEW why PROVE Sound(NoSequence(why))
<1> PICK none : none = NoSequence(why).base
  OBVIOUS
<1>1. none = <<>>
  BY DEF NoSequence
<1>2. none \in Seq(Interval) /\ DOMAIN none = {}
  BY <1>1
<1>3. NoSequence(why).start = 0 /\ NoSequence(why).lifespan = {} /\ NoSequence(why).period = {}
  BY DEF NoSequence
<1>4. QED BY <1>2, <1>3, NoneOrOne DEF Sound, Distinct, Once

\* An interval alone, repeated for as long as it lasts.
LEMMA OneIntervalIsSound ==
  ASSUME NEW s, NEW start \in Nat, NEW e \in Nat, e > start, NEW only \in Interval,
         only.start = start, only.end = {e}, s.base = <<only>>, s.start = start,
         s.period = {e - start}, s.lifespan \in OptionOf(Nat)
  PROVE  Sound(s)
<1> PICK base : base = s.base
  OBVIOUS
<1>1. base \in Seq(Interval) /\ DOMAIN base = {1} /\ base[1] = only
  OBVIOUS
<1>2. e - start \in Nat \ {0} /\ start + (e - start) = e
  OBVIOUS
<1>3. s.period \in OptionOf(Nat \ {0})
  BY <1>2, NoneOrOne
<1>4. Distinct(base)
  BY <1>1 DEF Distinct, Once
<1>5. \A i \in DOMAIN base : /\ s.start <= base[i].start
         /\ \A p \in s.period : base[i].end # {} /\ \A x \in base[i].end : x <= s.start + p
  BY <1>1, <1>2
<1>6. QED BY <1>1, <1>3, <1>4, <1>5 DEF Sound

\* The one interval an event without a list implies.
OnlyInterval(start, end) ==
    [id |-> 0, index |-> 1, occurrence |-> 0, subinterval |-> 0,
     start |-> start, end |-> end, payloads |-> <<>>]

\* What an event without a list leads to: nothing, or that interval and what it repeats by.
LEMMA ImpliedParts ==
  ASSUME NEW event, NEW now, NEW s, s = ImpliedSequence(event, now),
         NEW start, start = Resolve(TheElement(event.start), now),
         NEW end, end = AddTo(TheElement(event.tick), start)
  PROVE  \/ \E why : s = NoSequence(why)
         \/ /\ event.start # {} /\ event.tick # {} /\ end # {} /\ ~(\E e \in end : e <= start)
            /\ s.base = <<OnlyInterval(start, end)>> /\ s.start = start
            /\ s.period = {e - start : e \in end} /\ s.lifespan = LifespanEnd(event, start)
<1> PICK made : made = [err |-> "", base |-> <<OnlyInterval(start, end)>>,
              period |-> {e - start : e \in end}, start |-> start,
              lifespan |-> LifespanEnd(event, start), implied |-> TRUE]
  OBVIOUS
<1>1. \/ \E why : s = NoSequence(why)
      \/ /\ event.start # {} /\ event.tick # {} /\ end # {} /\ ~(\E e \in end : e <= start)
         /\ s = made
  BY Zenon DEF ImpliedSequence, OnlyInterval
<1>2. /\ made.base = <<OnlyInterval(start, end)>> /\ made.start = start
      /\ made.period = {e - start : e \in end} /\ made.lifespan = LifespanEnd(event, start)
  BY Zenon
<1>3. QED BY <1>1, <1>2, Zenon

\* An interval an event without a list implies, if any, is alone in its repetition.
LEMMA ImpliedIsSound ==
  ASSUME NEW event, IsTimed(event), NEW now \in Nat
  PROVE  Sound(ImpliedSequence(event, now))
<1> PICK start : start = Resolve(TheElement(event.start), now)
  OBVIOUS
<1> PICK end : end = AddTo(TheElement(event.tick), start)
  OBVIOUS
<1> PICK only : only = OnlyInterval(start, end)
  OBVIOUS
<1> PICK s : s = ImpliedSequence(event, now)
  OBVIOUS
<1> DEFINE Starts == event.start # {} /\ event.tick # {} /\ end # {} /\ ~(\E e \in end : e <= start)
           Repeated == /\ s.base = <<only>> /\ s.start = start
                       /\ s.period = {x - start : x \in end}
                       /\ s.lifespan = LifespanEnd(event, start)
<1>1. (\E why : s = NoSequence(why)) \/ (Starts /\ Repeated)
  BY ImpliedParts
<1>2. CASE Starts /\ Repeated
  <2>1. event.start \in OptionOf(Nat \cup {Now}) /\ event.tick \in OptionOf(Nat \cup {Forever})
    BY DEF IsTimed, StartTimes, Durations
  <2> PICK own : own = TheElement(event.start)
    OBVIOUS
  <2> PICK d : d = TheElement(event.tick)
    OBVIOUS
  <2>2. own \in Nat \cup {Now} /\ d \in Nat \cup {Forever}
    BY <1>2, <2>1, TheOnlyElement
  <2>3. start \in Nat
    BY <2>2 DEF Resolve, Now
  <2>4. d \in Nat /\ end = {start + d}
    <3>1. end = AddTo(d, start)
      OBVIOUS
    <3>2. d # Forever
      BY <1>2, <3>1 DEF AddTo
    <3>3. QED BY <2>2, <3>1, <3>2 DEF AddTo
  <2> PICK e : e = start + d
    OBVIOUS
  <2>5. e \in Nat /\ end = {e} /\ e > start
    <3>1. e \in Nat /\ end = {e}
      BY <2>3, <2>4
    <3>2. ~(e <= start)
      BY <1>2, <3>1
    <3>3. QED BY <2>3, <3>1, <3>2
  <2>6. only \in Interval /\ only.start = start /\ only.end = {e}
    <3> PICK none : none = <<>>
      OBVIOUS
    <3>1. none \in Payloads
      BY DEF Payloads
    <3>2. end \in OptionOf(Nat)
      BY <2>5, NoneOrOne
    <3>3. only = [id |-> 0, index |-> 1, occurrence |-> 0, subinterval |-> 0,
                        start |-> start, end |-> end, payloads |-> none]
      BY DEF OnlyInterval
    <3>4. QED BY ONLY <2>3, <2>5, <3>1, <3>2, <3>3 DEF Interval
  <2>7. s.base = <<only>> /\ s.start = start /\ s.period = {x - start : x \in end}
        /\ s.lifespan = LifespanEnd(event, start)
    BY <1>2
  <2>8. s.period = {e - start}
    BY <2>5, <2>7
  <2>9. s.lifespan \in OptionOf(Nat)
    BY <2>3, <2>7, Lifespan
  <2>10. QED BY <2>3, <2>5, <2>6, <2>7, <2>8, <2>9, OneIntervalIsSound
<1>3. QED BY <1>1, <1>2, NoSequenceIsSound

\* When a list begins and when it has ended.
FirstStart(base) == CHOOSE t \in {base[i].start : i \in DOMAIN base} :
                        \A i \in DOMAIN base : t <= base[i].start
EndsOf(base) == UNION {base[i].end : i \in DOMAIN base}
LastEnd(base) == CHOOSE e \in EndsOf(base) : \A f \in EndsOf(base) : f <= e
Endless(base) == \E i \in DOMAIN base : base[i].end = {}

\* What the list of an event leads to: nothing, or that list and what it repeats by.
LEMMA DeclaredParts ==
  ASSUME NEW event, NEW base, NEW s, s = DeclaredSequence(event, base)
  PROVE  \/ \E why : s = NoSequence(why)
         \/ /\ s.base = base /\ s.start = FirstStart(base)
            /\ s.lifespan = LifespanEnd(event, FirstStart(base))
            /\ \A p \in s.period : ~Endless(base) /\ p = LastEnd(base) - FirstStart(base) /\ p > 0
<1> PICK start : start = FirstStart(base)
  OBVIOUS
<1> DEFINE Outlasts(d, span) == d = Forever \/ (start + d <= MaxTime /\ d > span)
           Every == {p \in {LastEnd(base) - start} : p > 0 /\ \E d \in event.lasts : Outlasts(d, p)}
<1> PICK period : period = IF Endless(base) THEN {} ELSE Every
  OBVIOUS
<1>1. \A p \in period : ~Endless(base) /\ p = LastEnd(base) - start /\ p > 0
  BY Zenon
<1> HIDE DEF Outlasts, Every
<1> PICK made : made = [err |-> "", base |-> base, period |-> period, start |-> start,
              lifespan |-> LifespanEnd(event, start), implied |-> FALSE]
  OBVIOUS
<1>2. s = NoSequence("OutOfRange") \/ s = made
  BY Zenon DEF DeclaredSequence, FirstStart, LastEnd, EndsOf, Endless, Every, Outlasts
<1>3. made.base = base /\ made.start = start /\ made.lifespan = LifespanEnd(event, start)
      /\ made.period = period
  BY Zenon
<1>4. QED BY <1>1, <1>2, <1>3, Zenon

\* A list begins when the first of its intervals does.
LEMMA FirstStartIs ==
  ASSUME NEW base \in Seq(Interval), Len(base) > 0
  PROVE  FirstStart(base) \in Nat /\ \A i \in DOMAIN base : FirstStart(base) <= base[i].start
<1> PICK n : n = Len(base)
  OBVIOUS
<1>1. n \in Nat \ {0} /\ DOMAIN base = 1 .. n /\ \A i \in 1 .. n : base[i] \in Interval
  OBVIOUS
<1>2. \A i \in 1 .. n : base[i].start \in Nat
  BY <1>1 DEF Interval
<1> PICK f : f = [i \in 1 .. n |-> base[i].start]
  OBVIOUS
<1>3. \A i \in 1 .. n : f[i] = base[i].start /\ f[i] \in Int
  BY <1>2
<1>4. PICK m \in 1 .. n : \A k \in 1 .. n : f[m] <= f[k]
  BY <1>1, <1>3, Least
<1>5. \E t \in {base[i].start : i \in DOMAIN base} : \A i \in DOMAIN base : t <= base[i].start
  BY <1>1, <1>3, <1>4
<1>6. /\ FirstStart(base) \in {base[i].start : i \in DOMAIN base}
      /\ \A i \in DOMAIN base : FirstStart(base) <= base[i].start
  BY <1>5, Zenon DEF FirstStart
<1>7. QED BY <1>1, <1>2, <1>6

\* A list has ended when the last of its intervals has.
LEMMA LastEndIs ==
  ASSUME NEW base \in Seq(Interval), Len(base) > 0, ~Endless(base)
  PROVE  LastEnd(base) \in Nat /\ \A i \in DOMAIN base : \A e \in base[i].end : e <= LastEnd(base)
<1> PICK n : n = Len(base)
  OBVIOUS
<1>1. n \in Nat \ {0} /\ DOMAIN base = 1 .. n /\ \A i \in 1 .. n : base[i] \in Interval
  OBVIOUS
<1>2. \A i \in 1 .. n : base[i].end \in OptionOf(Nat) /\ base[i].end # {}
  BY <1>1 DEF Interval, Endless
<1> PICK f : f = [i \in 1 .. n |-> TheElement(base[i].end)]
  OBVIOUS
<1>3. \A i \in 1 .. n : f[i] \in Nat /\ base[i].end = {f[i]}
  BY <1>2, TheOnlyElement
<1>4. PICK m \in 1 .. n : \A k \in 1 .. n : f[k] <= f[m]
  <2>1. \A k \in 1 .. n : f[k] \in Int
    BY <1>3
  <2>2. QED BY <1>1, <2>1, Greatest
<1>5. EndsOf(base) = {f[i] : i \in 1 .. n}
  BY <1>1, <1>3 DEF EndsOf
<1>6. \E e \in EndsOf(base) : \A x \in EndsOf(base) : x <= e
  <2>1. f[m] \in EndsOf(base)
    BY <1>5
  <2>2. \A x \in EndsOf(base) : x <= f[m]
    BY <1>4, <1>5
  <2>3. QED BY <2>1, <2>2
<1>7. LastEnd(base) \in EndsOf(base) /\ \A x \in EndsOf(base) : x <= LastEnd(base)
  BY <1>6, Zenon DEF LastEnd
<1>8. QED BY <1>1, <1>3, <1>5, <1>7

\* The list an event declares lies after its start, and within the period it repeats by.
LEMMA DeclaredIsSound ==
  ASSUME NEW event, IsTimed(event), NEW base \in Seq(Interval), Len(base) > 0, Distinct(base)
  PROVE  Sound(DeclaredSequence(event, base))
<1> PICK s : s = DeclaredSequence(event, base)
  OBVIOUS
<1> PICK start : start = FirstStart(base)
  OBVIOUS
<1> PICK last : last = LastEnd(base)
  OBVIOUS
<1> DEFINE Made == /\ s.base = base /\ s.start = start
                   /\ s.lifespan = LifespanEnd(event, start)
                   /\ \A p \in s.period : ~Endless(base) /\ p = last - start /\ p > 0
<1>1. (\E why : s = NoSequence(why)) \/ Made
  BY DeclaredParts
<1>2. start \in Nat /\ \A i \in DOMAIN base : start <= base[i].start
  BY FirstStartIs
<1>3. ~Endless(base) => last \in Nat /\ \A i \in DOMAIN base : \A e \in base[i].end : e <= last
  BY LastEndIs
<1>4. CASE Made
  <2>1. \A p \in s.period : p \in Nat \ {0}
    BY <1>2, <1>3, <1>4
  <2>2. s.period \in OptionOf(Nat \ {0})
    BY <2>1, <1>4 DEF OptionOf
  <2>3. s.lifespan \in OptionOf(Nat)
    BY <1>2, <1>4, Lifespan
  <2>4. \A i \in DOMAIN base : \A p \in s.period : /\ base[i].end # {}
                                /\ \A e \in base[i].end : e <= s.start + p
    BY <1>2, <1>3, <1>4 DEF Endless
  <2>5. QED BY <1>2, <1>4, <2>2, <2>3, <2>4 DEF Sound
<1>5. QED BY <1>1, <1>4, NoSequenceIsSound

\* Whatever an event declares, its sequence is sound.
LEMMA SequenceIsSound ==
  ASSUME NEW event, IsTimed(event), NEW now \in Nat
  PROVE  Sound(SequenceOf(event, now))
<1> PICK pass : pass = ExpandPass(event, now)
  OBVIOUS
<1>1. pass.list \in Seq(Interval) /\ Distinct(pass.list)
  BY PassIsSound
<1>2. \/ SequenceOf(event, now) = NoSequence(pass.err)
      \/ SequenceOf(event, now) = ImpliedSequence(event, now)
      \/ pass.list # <<>> /\ SequenceOf(event, now) = DeclaredSequence(event, pass.list)
  BY Zenon DEF SequenceOf, SequenceAfter
<1>3. pass.list # <<>> => Len(pass.list) > 0
  BY <1>1
<1>4. QED BY <1>1, <1>2, <1>3, NoSequenceIsSound, ImpliedIsSound, DeclaredIsSound

-----------------------------------------------------------------------------
(***************************************************************************)
(* Windows: what overlaps a window is at the indices it looks at.          *)
(***************************************************************************)

\* A number is its quotient times the divisor, and the rest.
LEMMA DivMod ==
  ASSUME NEW n \in Nat, NEW len \in Nat \ {0}
  PROVE  /\ n \div len \in Nat /\ n % len \in 0 .. len - 1
         /\ n = (len * (n \div len)) + (n % len)
OBVIOUS

\* A multiple of more is more.
LEMMA Monotone ==
  ASSUME NEW p \in Nat \ {0}, NEW a \in Int, NEW b \in Int
  PROVE  /\ p * a \in Int /\ p * b \in Int
         /\ p * a < p * b <=> a < b
OBVIOUS

\* An interval of a repetition of the sequence, which starts with it and ends no later.
Drawn(s, n, i) ==
    \E k \in 1 .. Len(s.base) : \E o \in Nat : \E d \in Nat :
        /\ s.period = {} => o = 0 /\ d = 0 /\ n = k - 1
        /\ \A p \in s.period : d = p * o /\ n = Len(s.base) * o + (k - 1)
        /\ i \in Interval /\ s.base[k] \in Interval
        /\ i.index = s.base[k].index /\ i.subinterval = s.base[k].subinterval
        /\ i.occurrence = o /\ i.start = s.base[k].start + d /\ i.payloads = s.base[k].payloads
        /\ \A e \in s.base[k].end : \E f \in i.end : f <= e + d
        /\ \A l \in s.lifespan : i.start < l

\* Interval k of a sequence in repetition o, which comes d later, cut off where the event
\* ends.
EndAt(s, k, d) == {e + d : e \in s.base[k].end}
CutOffAt(s, end) == IF \E l \in s.lifespan : \A e \in end : e > l THEN s.lifespan ELSE end
IntervalAt(s, k, o, d) ==
    [s.base[k] EXCEPT !.occurrence = o, !.start = s.base[k].start + d,
                      !.end = CutOffAt(s, EndAt(s, k, d))]
EndsFirst(s, k, d) == \E l \in s.lifespan : s.base[k].start + d >= l

\* An interval cut off where the event ends is still one of its repetition.
LEMMA CutOffIsDrawn ==
  ASSUME NEW s, Sound(s), NEW n \in Nat, NEW k \in 1 .. Len(s.base), NEW o \in Nat, NEW d \in Nat,
         s.period = {} => o = 0 /\ d = 0 /\ n = k - 1,
         \A p \in s.period : d = p * o /\ n = Len(s.base) * o + (k - 1),
         ~EndsFirst(s, k, d)
  PROVE  Drawn(s, n, IntervalAt(s, k, o, d))
<1> PICK start : start = s.base[k].start + d
  OBVIOUS
<1> PICK end : end = {e + d : e \in s.base[k].end}
  OBVIOUS
<1> PICK cut : cut = IF \E l \in s.lifespan : \A e \in end : e > l THEN s.lifespan ELSE end
  OBVIOUS
<1> PICK i : i = IntervalAt(s, k, o, d)
  OBVIOUS
<1>0. i = [s.base[k] EXCEPT !.occurrence = o, !.start = start, !.end = cut]
      /\ ~(\E l \in s.lifespan : start >= l)
  BY DEF IntervalAt, CutOffAt, EndAt, EndsFirst
<1> PICK x : x = s.base[k]
  OBVIOUS
<1>1. x \in Interval
  BY DEF Sound
<1>2. /\ x.id \in Int /\ x.index \in Nat /\ x.subinterval \in Nat /\ x.start \in Nat
      /\ x.end \in OptionOf(Nat) /\ x.payloads \in Payloads
      /\ x = [id |-> x.id, index |-> x.index, occurrence |-> x.occurrence,
              subinterval |-> x.subinterval, start |-> x.start, end |-> x.end,
              payloads |-> x.payloads]
  BY ONLY <1>1 DEF Interval
<1>3. start \in Nat /\ start = x.start + d
  BY <1>2
<1>4. end \in OptionOf(Nat) /\ end = {e + d : e \in x.end}
  <2>1. x.end \subseteq Nat /\ \A a, b \in x.end : a = b
    BY <1>2 DEF OptionOf
  <2>2. end = {e + d : e \in x.end}
    OBVIOUS
  <2>3. \A e \in x.end : e + d \in Nat
    BY <2>1
  <2>4. end \subseteq Nat /\ \A a, b \in end : a = b
    BY ONLY <2>1, <2>2, <2>3
  <2>5. QED BY <2>2, <2>4 DEF OptionOf
<1>5. s.lifespan \in OptionOf(Nat)
  BY DEF Sound
<1>6. cut \in OptionOf(Nat)
  BY <1>4, <1>5
<1>7. i = [id |-> x.id, index |-> x.index, occurrence |-> o,
           subinterval |-> x.subinterval, start |-> start, end |-> cut, payloads |-> x.payloads]
  BY <1>0, <1>2
<1>8. i \in Interval
  BY ONLY <1>2, <1>3, <1>6, <1>7, o \in Nat DEF Interval
<1>9. /\ i.index = x.index /\ i.subinterval = x.subinterval /\ i.occurrence = o
      /\ i.start = start /\ i.end = cut /\ i.payloads = x.payloads
  BY ONLY <1>7
<1>10. \A e \in x.end : \E f \in cut : f <= e + d
  <2> TAKE e \in x.end
  <2>1. e \in Nat /\ e + d \in end /\ \A y \in x.end : y = e
    BY <1>2, <1>4 DEF OptionOf
  <2>2. \A y \in end : y = e + d
    BY <1>4, <2>1
  <2>3. CASE \E l \in s.lifespan : \A y \in end : y > l
    <3>1. PICK l \in s.lifespan : \A y \in end : y > l
      BY <2>3
    <3>2. l \in Nat /\ l < e + d /\ cut = s.lifespan
      BY <1>5, <2>1, <2>3, <3>1 DEF OptionOf
    <3>3. QED BY <2>1, <3>2
  <2>4. CASE ~(\E l \in s.lifespan : \A y \in end : y > l)
    <3>1. cut = end
      BY <2>4
    <3>2. e + d \in cut /\ e + d \in Nat
      BY <2>1, <3>1
    <3>3. e + d <= e + d
      BY <3>2
    <3>4. QED BY <3>2, <3>3, Zenon
  <2>5. QED BY <2>3, <2>4
<1>11. \A l \in s.lifespan : i.start < l
  BY <1>0, <1>3, <1>5, <1>9 DEF OptionOf
<1>12. i.start = s.base[k].start + d
  BY <1>3, <1>9
<1>13. \A e \in s.base[k].end : \E f \in i.end : f <= e + d
  BY <1>9, <1>10
<1>14. QED BY <1>1, <1>8, <1>9, <1>11, <1>12, <1>13 DEF Drawn

\* At an index there is one interval of the sequence, or none.
LEMMA GetIs ==
  ASSUME NEW s, Sound(s), NEW n \in Nat
  PROVE  Get(s, n) = {} \/ \E i : Get(s, n) = {i} /\ Drawn(s, n, i)
<1> DEFINE len == Len(s.base)
           o == IF Repeats(s) THEN n \div len ELSE 0
           m == IF Repeats(s) THEN n % len ELSE n
           d == IF Repeats(s) THEN TheElement(s.period) * o ELSE 0
<1>1. \/ Get(s, n) = {}
      \/ /\ len # 0 /\ ~(~Repeats(s) /\ n >= len) /\ ~EndsFirst(s, m + 1, d)
         /\ Get(s, n) = {IntervalAt(s, m + 1, o, d)}
  BY Zenon DEF Get, EndsFirst, IntervalAt, EndAt, CutOffAt
<1>2. len \in Nat /\ len = Len(s.base)
  BY DEF Sound
<1>3. Repeats(s) => o = n \div len /\ m = n % len /\ d = TheElement(s.period) * o
  OBVIOUS
<1>4. ~Repeats(s) => o = 0 /\ m = n /\ d = 0
  OBVIOUS
<1> HIDE DEF len, o, m, d
<1> PICK k : k = m + 1
  OBVIOUS
<1>5. ASSUME len # 0, ~(~Repeats(s) /\ n >= len), ~EndsFirst(s, k, d)
      PROVE  Drawn(s, n, IntervalAt(s, k, o, d))
  <2>1. s.period \in OptionOf(Nat \ {0})
    BY DEF Sound
  <2>2. CASE Repeats(s)
    <3>1. PICK p : p = TheElement(s.period)
      OBVIOUS
    <3>2. p \in Nat \ {0} /\ s.period = {p}
      BY <2>1, <2>2, <3>1, TheOnlyElement DEF Repeats
    <3>3. o = n \div len /\ m = n % len /\ d = p * o
      BY <1>3, <2>2, <3>1
    <3>4. o \in Nat /\ m \in 0 .. len - 1 /\ n = (len * o) + m
      BY <1>2, <1>5, <3>3, DivMod
    <3>5. k \in 1 .. len /\ k - 1 = m
      BY <1>2, <3>4
    <3>6. d \in Nat
      BY <3>2, <3>3, <3>4
    <3>7. \A q \in s.period : d = q * o /\ n = len * o + (k - 1)
      BY <3>2, <3>3, <3>4, <3>5
    <3>8. s.period # {}
      BY <3>2
    <3>9. QED BY <1>2, <1>5, <3>4, <3>5, <3>6, <3>7, <3>8, CutOffIsDrawn
  <2>3. CASE ~Repeats(s)
    <3>1. o = 0 /\ m = n /\ d = 0 /\ s.period = {}
      BY <1>4, <2>3 DEF Repeats
    <3>2. k \in 1 .. len /\ d \in Nat /\ o \in Nat /\ n = k - 1
      BY <1>2, <1>5, <2>3, <3>1
    <3>3. QED BY <1>2, <1>5, <3>1, <3>2, CutOffIsDrawn
  <2>4. QED BY <2>2, <2>3
<1>6. QED BY <1>1, <1>5

\* A repetition that starts within a span is one of those it takes to fill the span.
LEMMA LastRepetition ==
  ASSUME NEW p \in Nat \ {0}, NEW o \in Nat, NEW span \in Nat, p * o < span
  PROVE  /\ span \div p + (IF span % p # 0 THEN 1 ELSE 0) \in Nat
         /\ o < span \div p + (IF span % p # 0 THEN 1 ELSE 0)
<1> PICK q : q = span \div p
  OBVIOUS
<1> PICK r : r = span % p
  OBVIOUS
<1>1. q \in Nat /\ r \in 0 .. p - 1 /\ span = p * q + r
  BY DivMod
<1>2. CASE r = 0
  <2>1. p * o < p * q
    BY <1>1, <1>2
  <2>2. o < q
    BY <1>1, <2>1, Monotone
  <2>3. QED BY <1>1, <1>2, <2>2
<1>3. CASE r # 0
  <2>1. p * (q + 1) = p * q + p
    BY <1>1
  <2>2. p * q \in Nat /\ p * o \in Nat /\ q + 1 \in Nat
    BY <1>1
  <2>3. p * o < p * (q + 1)
    BY <1>1, <2>1, <2>2
  <2>4. o < q + 1
    BY <2>2, <2>3, Monotone
  <2>5. QED BY <1>1, <1>3, <2>4
<1>4. QED BY <1>2, <1>3

\* A repetition that ends after an instant is not among those that end by it.
LEMMA FirstRepetition ==
  ASSUME NEW p \in Nat \ {0}, NEW o \in Nat, NEW since \in Nat, since < p * o
  PROVE  since \div p + 1 \in Nat /\ since \div p + 1 <= o
<1> PICK q : q = since \div p
  OBVIOUS
<1>1. q \in Nat /\ p * q <= since /\ p * q \in Nat /\ p * o \in Nat
  BY DivMod
<1>2. p * q < p * o
  BY <1>1
<1>3. q < o
  BY <1>1, <1>2, Monotone
<1>4. QED BY <1>1, <1>3

\* The indices of a repetition lie between those of an earlier one and a later one.
LEMMA RepetitionsBetween ==
  ASSUME NEW len \in Nat, NEW first \in Nat, NEW o \in Nat, NEW last \in Nat,
         first <= o, o < last
  PROVE  /\ first * len <= len * o /\ len * o + len <= last * len
         /\ first * len \in Int /\ last * len \in Int /\ len * o \in Int
<1>1. len * (o + 1) = len * o + len /\ len * (o + 1) <= len * last
  OBVIOUS
<1>2. len * first <= len * o
  OBVIOUS
<1>3. first * len = len * first /\ last * len = len * last
  OBVIOUS
<1>4. len * first \in Int /\ len * last \in Int /\ len * o \in Int
  OBVIOUS
<1>5. QED BY <1>1, <1>2, <1>3, <1>4

\* The repetitions left out of a range of indices do not overlap the window.
LEMMA RangeCovers ==
  ASSUME NEW s, Sound(s), NEW from \in Int, NEW to \in Int, NEW n \in Nat, NEW i,
         Drawn(s, n, i), Overlaps(i, from, to), NEW range,
         range = IndicesOverlapping(s, from, to)
  PROVE  range.first <= n /\ n < range.past
<1> PICK len : len = Len(s.base)
  OBVIOUS
<1>1. PICK k \in 1 .. len, o \in Nat, d \in Nat :
        /\ s.period = {} => o = 0 /\ d = 0 /\ n = k - 1
        /\ \A p \in s.period : d = p * o /\ n = len * o + (k - 1)
        /\ i \in Interval /\ s.base[k] \in Interval
        /\ i.start = s.base[k].start + d
        /\ \A e \in s.base[k].end : \E f \in i.end : f <= e + d
        /\ \A l \in s.lifespan : i.start < l
  BY DEF Drawn
<1>2. len \in Nat /\ k \in DOMAIN s.base /\ k \in Nat
  BY DEF Sound
<1>3. i.start < to /\ (\A e \in i.end : e > from) /\ i.start \in Nat /\ i.end \in OptionOf(Nat)
      /\ s.base[k].end \in OptionOf(Nat) /\ s.base[k].start \in Nat
  BY <1>1 DEF Overlaps, Interval
<1>4. s.start \in Nat /\ s.lifespan \in OptionOf(Nat) /\ s.period \in OptionOf(Nat \ {0})
      /\ s.start <= s.base[k].start
  BY <1>2 DEF Sound
<1>5. CASE ~Repeats(s)
  <2>1. range = [first |-> 0, past |-> len]
    BY <1>5, Zenon DEF IndicesOverlapping
  <2>2. range.first = 0 /\ range.past = len
    BY <2>1
  <2>3. QED BY <1>1, <1>2, <1>5, <2>2 DEF Repeats
<1>6. CASE Repeats(s)
  <2>1. PICK p : p = TheElement(s.period)
    OBVIOUS
  <2>2. p \in Nat \ {0} /\ s.period = {p}
    BY <1>4, <1>6, <2>1, TheOnlyElement DEF Repeats
  <2>3. d = p * o /\ n = len * o + (k - 1)
    BY <1>1, <2>2
  <2>4. PICK stop : stop = IF \E l \in s.lifespan : l < to THEN TheElement(s.lifespan) ELSE to
    OBVIOUS
  <2>5. stop \in Int /\ i.start < stop
    <3>1. CASE \E l \in s.lifespan : l < to
      <4>1. s.lifespan # {}
        BY <3>1
      <4>2. stop \in Nat /\ stop \in s.lifespan
        BY <1>4, <2>4, <3>1, <4>1, TheOnlyElement
      <4>3. QED BY <1>1, <4>2
    <3>2. QED BY <1>3, <2>4, <3>1
  <2>6. PICK firstEnd : firstEnd = s.start + p
    OBVIOUS
  <2>7. PICK first : first = IF firstEnd > from THEN 0 ELSE (from - firstEnd) \div p + 1
    OBVIOUS
  <2>8. PICK span : span = stop - s.start
    OBVIOUS
  <2>9. PICK last : last = span \div p + (IF span % p # 0 THEN 1 ELSE 0)
    OBVIOUS
  <2>10. range = CASE ~Repeats(s) -> [first |-> 0, past |-> len]
                   [] Repeats(s) /\ (stop <= s.start \/ first >= last) -> [first |-> 0, past |-> 0]
                   [] OTHER -> [first |-> first * len, past |-> last * len]
    BY <2>1, <2>4, <2>6, <2>7, <2>8, <2>9, Zenon DEF IndicesOverlapping
  <2>11. firstEnd \in Nat /\ from < firstEnd + d
    <3>1. s.base[k].end # {} /\ \A e \in s.base[k].end : e <= s.start + p
      BY <1>2, <2>2 DEF Sound
    <3>2. PICK e \in s.base[k].end : TRUE
      BY <3>1
    <3>3. PICK f \in i.end : f <= e + d
      BY <1>1
    <3>4. e \in Nat /\ f \in Nat /\ e <= firstEnd /\ f > from
      BY <1>3, <2>6, <3>1, <3>2 DEF OptionOf
    <3>5. firstEnd \in Nat
      BY <1>4, <2>2, <2>6
    <3>6. QED BY <3>3, <3>4, <3>5
  <2>12. first \in Nat /\ first <= o
    <3>1. CASE firstEnd > from
      BY <2>7, <3>1
    <3>2. CASE ~(firstEnd > from)
      <4>1. from - firstEnd \in Nat /\ from - firstEnd < p * o
        <5>1. from - firstEnd < d
          BY <2>11, <3>2
        <5>2. QED BY <2>3, <2>11, <3>2, <5>1
      <4>2. (from - firstEnd) \div p + 1 \in Nat /\ (from - firstEnd) \div p + 1 <= o
        BY <2>2, <4>1, FirstRepetition
      <4>3. QED BY <2>7, <3>2, <4>2
    <3>3. QED BY <3>1, <3>2
  <2>13. s.start < stop
    BY <1>1, <1>3, <1>4, <2>5
  <2>14. last \in Nat /\ o < last
    <3>1. span \in Nat /\ d < span
      <4>1. s.start + d <= i.start
        BY <1>1, <1>3, <1>4
      <4>2. d \in Nat /\ span \in Int /\ span = stop - s.start
        BY <1>1, <1>4, <2>5, <2>8
      <4>3. QED BY ONLY <1>3, <1>4, <2>5, <4>1, <4>2
    <3>2. p * o < span
      BY <2>3, <3>1
    <3>3. QED BY <2>2, <2>9, <3>1, <3>2, LastRepetition
  <2>15. ~(stop <= s.start \/ first >= last)
    BY <1>4, <2>5, <2>12, <2>13, <2>14
  <2>16. range = [first |-> first * len, past |-> last * len]
    BY <1>6, <2>10, <2>15, Zenon
  <2>17. /\ first * len <= len * o /\ len * o + len <= last * len
         /\ first * len \in Int /\ last * len \in Int /\ len * o \in Int
    BY ONLY <1>1, <1>2, <2>12, <2>14, RepetitionsBetween
  <2>18. range.first = first * len /\ range.past = last * len
    BY <2>16
  <2>19. k \in 1 .. len /\ n = len * o + (k - 1)
    BY <1>1, <2>3
  <2>20. QED BY ONLY <1>2, <2>17, <2>18, <2>19, n \in Nat
<1>7. QED BY <1>5, <1>6

\* An interval that starts by an instant is at an index a walk up to it reaches.
LEMMA IndexReached ==
  ASSUME NEW s, Sound(s), NEW n \in Nat, NEW i, Drawn(s, n, i), NEW at \in Nat, i.start <= at
  PROVE  n \in 0 .. Len(s.base) * (at + 2)
<1>1. PICK len : len = Len(s.base)
  OBVIOUS
<1>2. PICK k \in 1 .. len, o \in Nat, d \in Nat :
        /\ s.period = {} => o = 0 /\ d = 0 /\ n = k - 1
        /\ \A p \in s.period : d = p * o /\ n = len * o + (k - 1)
        /\ s.base[k] \in Interval /\ i.start = s.base[k].start + d
  BY <1>1 DEF Drawn
<1>3. len \in Nat /\ k \in Nat /\ s.base[k].start \in Nat
  <2>1. len \in Nat
    BY <1>1 DEF Sound
  <2>2. s.base[k].start \in Nat
    BY <1>2 DEF Interval
  <2>3. QED BY <2>1, <2>2
<1>4. s.period \in OptionOf(Nat \ {0})
  BY DEF Sound
<1>5. o <= at
  <2>1. CASE s.period = {}
    BY <1>2, <2>1
  <2>2. CASE s.period # {}
    <3>1. PICK p : p \in Nat \ {0} /\ p \in s.period
      BY <1>4, <2>2, TheOnlyElement
    <3>2. d = p * o /\ o <= p * o
      BY <1>2, <3>1
    <3>3. d <= i.start
      BY <1>2, <1>3
    <3>4. QED BY <1>2, <1>3, <3>2, <3>3
  <2>3. QED BY <2>1, <2>2
<1>6. n < (len * o) + len
  <2>1. CASE s.period = {}
    BY <1>2, <1>3, <2>1
  <2>2. CASE s.period # {}
    <3>1. n = (len * o) + (k - 1)
      BY <1>2, <2>2
    <3>2. len * o \in Nat
      BY <1>3
    <3>3. k \in 1 .. len
      OBVIOUS
    <3>4. QED BY <1>3, <3>1, <3>2, <3>3
  <2>3. QED BY <2>1, <2>2
<1>7. (len * o) + len <= len * (at + 2) /\ len * (at + 2) \in Nat /\ len * o \in Nat
  <2>1. o \in Nat /\ at + 2 \in Nat /\ o < at + 2
    BY <1>5
  <2>2. len * (at + 2) = (at + 2) * len /\ len * (at + 2) \in Nat /\ len * o \in Nat
    BY <1>3, <2>1
  <2>3. QED BY <1>3, <2>1, <2>2, RepetitionsBetween
<1>8. n \in 0 .. len * (at + 2)
  <2>1. PICK last : last = len * (at + 2)
    OBVIOUS
  <2>2. PICK own : own = len * o
    OBVIOUS
  <2>3. n < own + len /\ own + len <= last /\ last \in Nat /\ own \in Nat
    BY ONLY <1>6, <1>7, <2>1, <2>2
  <2>4. n \in 0 .. last
    BY ONLY <1>3, <2>3, n \in Nat
  <2>5. QED BY <2>1, <2>4
<1>9. QED BY <1>1, <1>8

\* No interval is at two indices.
LEMMA DrawnOnce ==
  ASSUME NEW s, Sound(s), NEW i, NEW m \in Nat, Drawn(s, m, i), NEW n \in Nat, Drawn(s, n, i)
  PROVE  m = n
<1>1. PICK len : len = Len(s.base)
  OBVIOUS
<1>2. PICK j \in 1 .. len, o \in Nat, d \in Nat :
        /\ s.period = {} => o = 0 /\ d = 0 /\ m = j - 1
        /\ \A p \in s.period : d = p * o /\ m = len * o + (j - 1)
        /\ i \in Interval /\ s.base[j] \in Interval
        /\ i.index = s.base[j].index /\ i.subinterval = s.base[j].subinterval /\ i.occurrence = o
  BY <1>1 DEF Drawn
<1>3. PICK k \in 1 .. len, q \in Nat, c \in Nat :
        /\ s.period = {} => q = 0 /\ c = 0 /\ n = k - 1
        /\ \A p \in s.period : c = p * q /\ n = len * q + (k - 1)
        /\ s.base[k] \in Interval
        /\ i.index = s.base[k].index /\ i.subinterval = s.base[k].subinterval /\ i.occurrence = q
  BY <1>1 DEF Drawn
<1>4. j \in DOMAIN s.base /\ k \in DOMAIN s.base
  BY <1>1 DEF Sound
<1>5. Once(s.base, Cell(i.index, i.subinterval))
  BY <1>2 DEF Sound, Distinct, Interval
<1>6. j = k
  BY <1>2, <1>3, <1>4, <1>5 DEF Once, Cell
<1>7. o = q
  BY <1>2, <1>3
<1>8. CASE s.period = {}
  BY <1>2, <1>3, <1>6, <1>8
<1>9. CASE s.period # {}
  <2>1. PICK p \in s.period : TRUE
    BY <1>9
  <2>2. m = len * o + (j - 1) /\ n = len * q + (k - 1)
    BY <1>2, <1>3
  <2>3. QED BY <1>6, <1>7, <2>2
<1>10. QED BY <1>8, <1>9

\* The range of indices of a window is one.
LEMMA RangeIs ==
  ASSUME NEW s, Sound(s), NEW from \in Int, NEW to \in Int, NEW range,
         range = IndicesOverlapping(s, from, to)
  PROVE  range.first \in Nat /\ range.past \in Nat /\ range.first <= range.past
<1>1. PICK len : len = Len(s.base)
  OBVIOUS
<1>2. len \in Nat
  BY <1>1 DEF Sound
<1>3. CASE ~Repeats(s)
  <2>1. range = [first |-> 0, past |-> len]
    BY <1>1, <1>3, Zenon DEF IndicesOverlapping
  <2>2. range.first = 0 /\ range.past = len
    BY <2>1
  <2>3. QED BY <1>2, <2>2
<1>4. CASE Repeats(s)
  <2>1. PICK p : p = TheElement(s.period)
    OBVIOUS
  <2>2. p \in Nat \ {0} /\ s.start \in Nat /\ s.lifespan \in OptionOf(Nat)
    BY <1>4, <2>1, TheOnlyElement DEF Repeats, Sound
  <2>4. PICK stop : stop = IF \E l \in s.lifespan : l < to THEN TheElement(s.lifespan) ELSE to
    OBVIOUS
  <2>5. stop \in Int
    BY <2>2, <2>4, TheOnlyElement
  <2>6. PICK firstEnd : firstEnd = s.start + p
    OBVIOUS
  <2>7. PICK first : first = IF firstEnd > from THEN 0 ELSE (from - firstEnd) \div p + 1
    OBVIOUS
  <2>8. PICK span : span = stop - s.start
    OBVIOUS
  <2>9. PICK last : last = span \div p + (IF span % p # 0 THEN 1 ELSE 0)
    OBVIOUS
  <2>10. range = CASE ~Repeats(s) -> [first |-> 0, past |-> len]
                   [] Repeats(s) /\ (stop <= s.start \/ first >= last) -> [first |-> 0, past |-> 0]
                   [] OTHER -> [first |-> first * len, past |-> last * len]
    BY <1>1, <2>1, <2>4, <2>6, <2>7, <2>8, <2>9, Zenon DEF IndicesOverlapping
  <2>11. CASE stop <= s.start \/ first >= last
    <3>1. range = [first |-> 0, past |-> 0]
      BY <1>4, <2>10, <2>11, Zenon
    <3>2. QED BY <3>1
  <2>12. CASE ~(stop <= s.start \/ first >= last)
    <3>1. range = [first |-> first * len, past |-> last * len]
      BY <1>4, <2>10, <2>12, Zenon
    <3>2. range.first = first * len /\ range.past = last * len
      BY <3>1
    <3>3. first \in Nat
      <4>1. CASE firstEnd > from
        BY <2>7, <4>1
      <4>2. CASE ~(firstEnd > from)
        <5>1. from - firstEnd \in Nat
          BY <2>2, <2>6, <4>2
        <5>2. (from - firstEnd) \div p \in Nat
          BY <2>2, <5>1, DivMod
        <5>3. QED BY <2>7, <4>2, <5>2
      <4>3. QED BY <4>1, <4>2
    <3>4. last \in Nat
      <4>1. span \in Nat
        BY <2>2, <2>5, <2>8, <2>12
      <4>2. span \div p \in Nat
        BY <2>2, <4>1, DivMod
      <4>3. QED BY <2>9, <4>2
    <3>5. first <= last
      BY <2>12, <3>3, <3>4
    <3>6. len * first <= len * last /\ len * first \in Nat /\ len * last \in Nat
      BY <1>2, <3>3, <3>4, <3>5
    <3>7. first * len = len * first /\ last * len = len * last
      BY <1>2, <3>3, <3>4
    <3>8. QED BY <3>2, <3>6, <3>7
  <2>13. QED BY <2>11, <2>12
<1>5. QED BY <1>3, <1>4

\* What a window returns for each index of its range.
FoundIn(at, from, to) ==
    IF \E i \in at : Overlaps(i, from, to) THEN <<TheElement(at)>> ELSE <<>>
FoundAll(s, range, from, to) ==
    [k \in 1 .. range.past - range.first |-> FoundIn(Get(s, range.first + k - 1), from, to)]

\* A window that is accepted.
Accepted(list) == [err |-> "", list |-> list]

\* A refused window returns nothing.
LEMMA RejectedIs ==
  ASSUME NEW why, why # ""
  PROVE  ~Fine(Refused(why)) /\ Refused(why).list = <<>>
BY Zenon DEF Fine, Refused

\* An accepted one returns its list.
LEMMA AcceptedIs ==
  ASSUME NEW list
  PROVE  Fine(Accepted(list)) /\ Accepted(list).list = list
BY Zenon DEF Fine, Accepted

\* A window is refused, or is of an event without intervals, or returns what is found at
\* each index of its range.
LEMMA WindowParts ==
  ASSUME NEW s, NEW range, NEW from, NEW to, NEW window, window = Overlapping(s, range, from, to)
  PROVE  \/ ~Fine(window) /\ window.list = <<>>
         \/ Fine(s) /\ Fine(window) /\ Empty(s) /\ window.list = <<>>
         \/ Fine(s) /\ Fine(window) /\ window.list = FlattenSeq(FoundAll(s, range, from, to))
<1> PICK list : list = FlattenSeq(FoundAll(s, range, from, to))
  OBVIOUS
<1>1. \/ s.err # "" /\ window = Refused(s.err)
      \/ s.err = "" /\ Empty(s) /\ window = Accepted(<<>>)
      \/ window = Refused("TooManyIntervals")
      \/ window = Refused("OutOfRange")
      \/ s.err = "" /\ window = Accepted(list)
  BY Zenon DEF Overlapping, FoundAll, FoundIn, Accepted
<1>2. "TooManyIntervals" # "" /\ "OutOfRange" # ""
  BY Zenon
<1>3. CASE s.err # "" /\ window = Refused(s.err)
  <2>1. ~Fine(Refused(s.err)) /\ Refused(s.err).list = <<>>
    BY <1>3, RejectedIs, Zenon
  <2>2. QED BY <1>3, <2>1, Zenon
<1>4. CASE s.err = "" /\ Empty(s) /\ window = Accepted(<<>>)
  BY <1>4, AcceptedIs, Zenon DEF Fine
<1>5. CASE window = Refused("TooManyIntervals")
  BY <1>2, <1>5, RejectedIs
<1>6. CASE window = Refused("OutOfRange")
  BY <1>2, <1>6, RejectedIs
<1>7. CASE s.err = "" /\ window = Accepted(list)
  BY <1>7, AcceptedIs, Zenon DEF Fine
<1>8. QED BY <1>1, <1>3, <1>4, <1>5, <1>6, <1>7, Zenon

\* The first place of a sequence with an element of a set.
Leads(list, m, P) ==
    m \in DOMAIN list /\ list[m] \in P /\ \A l \in DOMAIN list : list[l] \in P => m <= l

\* The first index of a set whose interval overlaps a window.
Opens(s, n, from, to, P) ==
    \A l \in Nat : l < n => \A i \in Get(s, l) : Overlaps(i, from, to) => i \notin P

\* What a window returns is every interval that overlaps it and no other, each once, in
\* their order.
Shows(list, s, from, to) ==
    /\ list \in Seq(Interval)
    /\ \A m \in DOMAIN list : Overlaps(list[m], from, to) /\ \E n \in Nat : list[m] \in Get(s, n)
    /\ \A n \in Nat : \A i \in Get(s, n) : Overlaps(i, from, to) =>
          \E m \in DOMAIN list : list[m] = i
    /\ \A x : Once(list, {x})
    /\ \A P, m : Leads(list, m, P) =>
          \E n \in Nat : list[m] \in Get(s, n) /\ Opens(s, n, from, to, P)

\* What is found at an index.
OneFound(s, n, from, to, f) ==
    /\ f \in Seq(Interval)
    /\ \A j \in DOMAIN f :
          j = 1 /\ f[j] \in Get(s, n) /\ Drawn(s, n, f[j]) /\ Overlaps(f[j], from, to)
    /\ \A i \in Get(s, n) : Drawn(s, n, i)
    /\ \A i \in Get(s, n) : Overlaps(i, from, to) => \E j \in DOMAIN f : f[j] = i

\* At an index a window finds the interval that is there, when the two overlap.
LEMMA FoundOne ==
  ASSUME NEW s, Sound(s), NEW n \in Nat, NEW from \in Int, NEW to \in Int
  PROVE  OneFound(s, n, from, to, FoundIn(Get(s, n), from, to))
<1>1. PICK at : at = Get(s, n)
  OBVIOUS
<1>2. PICK f : f = FoundIn(at, from, to)
  OBVIOUS
<1>3. at = {} \/ \E i : at = {i} /\ Drawn(s, n, i)
  BY <1>1, GetIs
<1>4. CASE \E i \in at : Overlaps(i, from, to)
  <2>1. PICK i \in at : Overlaps(i, from, to)
    BY <1>4
  <2>2. at = {i} /\ Drawn(s, n, i)
    BY <1>3, <2>1
  <2>3. TheElement(at) = i
    BY <2>2 DEF TheElement
  <2>4. f = <<i>>
    BY <1>2, <1>4, <2>3 DEF FoundIn
  <2>5. i \in Interval
    BY <2>2 DEF Drawn
  <2>6. f \in Seq(Interval) /\ DOMAIN f = {1} /\ f[1] = i
    BY <2>4, <2>5
  <2>7. QED BY <1>1, <1>2, <2>1, <2>2, <2>6 DEF OneFound
<1>5. CASE ~(\E i \in at : Overlaps(i, from, to))
  <2>1. f = <<>>
    BY <1>2, <1>5 DEF FoundIn
  <2>2. f \in Seq(Interval) /\ DOMAIN f = {}
    BY <2>1
  <2>3. QED BY <1>1, <1>2, <1>3, <1>5, <2>2 DEF OneFound
<1>6. QED BY <1>4, <1>5

\* A window that is not refused shows the intervals that overlap it.
LEMMA WindowIs ==
  ASSUME NEW s, Sound(s), NEW from \in Int, NEW to \in Int, Fine(OverlappingIn(s, from, to))
  PROVE  Fine(s) /\ Shows(OverlappingIn(s, from, to).list, s, from, to)
<1>1. PICK range : range = IndicesOverlapping(s, from, to)
  OBVIOUS
<1>2. PICK window : window = Overlapping(s, range, from, to)
  OBVIOUS
<1>3. PICK ff : ff = FoundAll(s, range, from, to)
  OBVIOUS
<1>4. PICK list : list = window.list
  OBVIOUS
<1>5. window = OverlappingIn(s, from, to)
  BY <1>1, <1>2 DEF OverlappingIn
<1>6. \/ Fine(s) /\ Empty(s) /\ list = <<>>
      \/ Fine(s) /\ list = FlattenSeq(ff)
  BY <1>2, <1>3, <1>4, <1>5, WindowParts, Zenon
<1>7. range.first \in Nat /\ range.past \in Nat /\ range.first <= range.past
  BY <1>1, RangeIs
<1>8. PICK count : count = range.past - range.first
  OBVIOUS
<1>9. PICK first : first = range.first
  OBVIOUS
<1>10. count \in Nat /\ first \in Nat /\ first + count = range.past
  BY <1>7, <1>8, <1>9
<1>11. ff = [k \in 1 .. count |-> FoundIn(Get(s, first + k - 1), from, to)]
  BY <1>3, <1>8, <1>9 DEF FoundAll
<1>12. CASE Fine(s) /\ Empty(s) /\ list = <<>>
  <2>1. \A n \in Nat : Get(s, n) = {}
    <3> TAKE n \in Nat
    <3>1. Len(s.base) = 0
      BY <1>12 DEF Empty
    <3>2. \A i : ~Drawn(s, n, i)
      BY <3>1 DEF Drawn
    <3>3. QED BY <3>2, GetIs
  <2>2. list \in Seq(Interval) /\ DOMAIN list = {}
    BY <1>12
  <2>3. QED BY <1>4, <1>5, <1>12, <2>1, <2>2 DEF Shows, Once, Leads
<1>13. CASE Fine(s) /\ list = FlattenSeq(ff)
  <2>1. \A k \in 1 .. count : first + k - 1 \in Nat
    BY <1>10
  <2>0. \A k \in 1 .. count : OneFound(s, first + k - 1, from, to, ff[k])
    <3> TAKE k \in 1 .. count
    <3>1. ff[k] = FoundIn(Get(s, first + k - 1), from, to)
      BY <1>11
    <3>2. QED BY <2>1, <3>1, FoundOne
  <2>2. ff \in Seq(Seq(Interval)) /\ DOMAIN ff = 1 .. count
    <3>1. \A k \in 1 .. count : ff[k] \in Seq(Interval)
      BY <2>0 DEF OneFound
    <3>2. QED BY <1>10, <1>11, <3>1
  <2>3. \A k \in 1 .. count : \A j \in DOMAIN ff[k] :
           /\ j = 1 /\ ff[k][j] \in Get(s, first + k - 1)
           /\ Drawn(s, first + k - 1, ff[k][j])
           /\ Overlaps(ff[k][j], from, to)
    BY <2>0 DEF OneFound
  <2>4. list \in Seq(Interval)
    BY <1>13, <2>2, Flattened
  <2>5. \A m \in DOMAIN list : Overlaps(list[m], from, to) /\ \E n \in Nat : list[m] \in Get(s, n)
    <3> TAKE m \in DOMAIN list
    <3>1. PICK k \in DOMAIN ff : \E j \in DOMAIN ff[k] : list[m] = ff[k][j]
      BY <1>13, <2>2, FlatHas
    <3>2. QED BY <2>1, <2>2, <2>3, <3>1
  <2>6. \A n \in Nat : \A i \in Get(s, n) : Overlaps(i, from, to) =>
          \E m \in DOMAIN list : list[m] = i
    <3> SUFFICES ASSUME NEW n \in Nat, NEW i \in Get(s, n), Overlaps(i, from, to)
                 PROVE  \E m \in DOMAIN list : list[m] = i
      OBVIOUS
    <3>1. Drawn(s, n, i)
      <4>1. OneFound(s, n, from, to, FoundIn(Get(s, n), from, to))
        BY FoundOne
      <4>2. QED BY <4>1, Zenon DEF OneFound
    <3>2. first <= n /\ n < first + count
      BY <1>1, <1>9, <1>10, <3>1, RangeCovers
    <3>3. PICK k : k = n - first + 1
      OBVIOUS
    <3>4. k \in 1 .. count /\ first + k - 1 = n
      BY <1>10, <3>2, <3>3
    <3>5. PICK j \in DOMAIN ff[k] : ff[k][j] = i
      <4>1. OneFound(s, first + k - 1, from, to, ff[k])
        BY <2>0, <3>4
      <4>2. OneFound(s, n, from, to, ff[k])
        BY <3>4, <4>1
      <4>3. QED BY <4>2, Zenon DEF OneFound
    <3>6. PICK m \in DOMAIN FlattenSeq(ff) : FlattenSeq(ff)[m] = ff[k][j]
      <4>1. k \in DOMAIN ff
        BY <2>2, <3>4
      <4>2. QED BY <2>2, <4>1, FlatHas
    <3>7. QED BY <1>13, <3>5, <3>6
  <2>7. \A x : Once(list, {x})
    <3> TAKE x
    <3>1. \A k1, k2 \in DOMAIN ff : \A j1 \in DOMAIN ff[k1], j2 \in DOMAIN ff[k2] :
             ff[k1][j1] \in {x} /\ ff[k2][j2] \in {x} => k1 = k2 /\ j1 = j2
      <4> SUFFICES ASSUME NEW k1 \in 1 .. count, NEW k2 \in 1 .. count,
                          NEW j1 \in DOMAIN ff[k1], NEW j2 \in DOMAIN ff[k2],
                          ff[k1][j1] = x, ff[k2][j2] = x
                   PROVE  k1 = k2 /\ j1 = j2
        BY <2>2
      <4>1. Drawn(s, first + k1 - 1, x) /\ Drawn(s, first + k2 - 1, x) /\ j1 = 1 /\ j2 = 1
        BY <2>3
      <4>2. first + k1 - 1 = first + k2 - 1
        BY <2>1, <4>1, DrawnOnce
      <4>3. QED BY <1>10, <4>1, <4>2
    <3>2. QED BY <1>13, <2>2, <3>1, FlatOnce
  <2>8. ASSUME NEW P, NEW m, Leads(list, m, P)
        PROVE  \E n \in Nat : list[m] \in Get(s, n) /\ Opens(s, n, from, to, P)
    <3>1. FirstIn(ff, P, list[m])
      BY <1>13, <2>2, <2>8, FlatFirst DEF Leads
    <3>2. PICK k \in DOMAIN ff : \E j \in DOMAIN ff[k] :
             /\ list[m] = ff[k][j]
             /\ \A q \in DOMAIN ff : q < k => \A l \in DOMAIN ff[q] : ff[q][l] \notin P
      BY <3>1 DEF FirstIn
    <3>3. k \in 1 .. count /\ first + k - 1 \in Nat
      BY <2>1, <2>2
    <3>4. list[m] \in Get(s, first + k - 1)
      BY <2>3, <3>2, <3>3
    <3>5. ASSUME NEW l \in Nat, l < first + k - 1, NEW i \in Get(s, l), Overlaps(i, from, to)
          PROVE  i \notin P
      <4>1. Drawn(s, l, i)
        <5>1. OneFound(s, l, from, to, FoundIn(Get(s, l), from, to))
          BY FoundOne
        <5>2. QED BY <5>1, Zenon DEF OneFound
      <4>2. first <= l /\ l < first + count
        BY <1>1, <1>9, <1>10, <3>5, <4>1, RangeCovers
      <4>3. PICK q : q = l - first + 1
        OBVIOUS
      <4>4. q \in 1 .. count /\ first + q - 1 = l /\ q < k
        BY <1>10, <3>3, <3>5, <4>2, <4>3
      <4>5. PICK j \in DOMAIN ff[q] : ff[q][j] = i
        <5>1. OneFound(s, first + q - 1, from, to, ff[q])
          BY <2>0, <4>4
        <5>2. OneFound(s, l, from, to, ff[q])
          BY <4>4, <5>1
        <5>3. QED BY <3>5, <5>2, Zenon DEF OneFound
      <4>6. q \in DOMAIN ff
        BY <2>2, <4>4
      <4>7. QED BY <3>2, <4>4, <4>5, <4>6
    <3>6. QED BY <3>3, <3>4, <3>5 DEF Opens
  <2>9. QED BY <1>4, <1>5, <1>13, <2>4, <2>5, <2>6, <2>7, <2>8 DEF Shows
<1>14. QED BY <1>6, <1>12, <1>13

\* What a reading is made of.
Chosen ==
    /\ instant \in 0 .. LastInstant
    /\ \E input \in Inputs : events = input.events

\* The events of a reading stay those of an input while the instant passes.
LEMMA ReadingChosen == Reading => []Chosen
<1>1. Read => Chosen
  BY InputsAssumption DEF Read, Chosen
<1>2. Chosen /\ [Passes]_<<inputs, instant>> => Chosen'
  <2> SUFFICES ASSUME Chosen, [Passes]_<<inputs, instant>> PROVE Chosen'
    OBVIOUS
  <2>1. CASE Passes
    <3>1. events' = events
      BY <2>1 DEF Passes, inputs
    <3>2. instant' \in 0 .. LastInstant
      BY <2>1, InputsAssumption DEF Passes, Chosen
    <3>3. QED BY <3>1, <3>2 DEF Chosen
  <2>2. CASE UNCHANGED <<inputs, instant>>
    BY <2>2 DEF Chosen, inputs
  <2>3. QED BY <2>1, <2>2
<1>3. QED BY <1>1, <1>2, PTL DEF Reading

\* What the inputs say of the events of a reading, and where its window lies.
LEMMA ChosenIs ==
  ASSUME Chosen
  PROVE  /\ IsFiniteSet(events)
         /\ \A e \in events : /\ IsTimed(e) /\ e.id \in Int /\ e.anchor \in Nat
                              /\ e.priority \in OptionOf(Int)
                              /\ Sound(Sequenced(e))
         /\ \A e, f \in events : e.id = f.id => e = f
         /\ instant \in Nat /\ From \in Int /\ To \in Nat
         /\ From < instant /\ instant < To /\ To <= MaxTime
<1>1. /\ IsFiniteSet(events)
      /\ \A e \in events : /\ IsTimed(e) /\ e.id \in Int /\ e.anchor \in Nat
                           /\ e.priority \in OptionOf(Int)
      /\ \A e, f \in events : e.id = f.id => e = f
  BY InputsAssumption, Zenon DEF Chosen
<1>2. \A e \in events : Sound(Sequenced(e))
  BY <1>1, SequenceIsSound DEF Sequenced
<1>3. /\ LastInstant \in Nat /\ Ahead \in Nat \ {0} /\ MaxTime \in Nat
      /\ LastInstant + Ahead <= MaxTime
  BY InputsAssumption, IntervalsAssumption
<1>4. instant \in Nat /\ instant <= LastInstant
  BY <1>3 DEF Chosen
<1>5. /\ From \in Int /\ To \in Nat /\ From < instant /\ instant < To /\ To <= MaxTime
  BY <1>3, <1>4 DEF From, To
<1>6. QED BY <1>1, <1>2, <1>4, <1>5

\* Of some indices, those of the intervals that overlap a window are walked.
LEMMA WalkReaches ==
  ASSUME NEW e, Sound(Sequenced(e)), NEW at \in Nat, NEW n \in Nat,
         NEW i \in Get(Sequenced(e), n), i.start <= at
  PROVE  i \in Placed(e, at)
<1>1. Drawn(Sequenced(e), n, i)
  BY GetIs
<1>2. n \in Indices(e, at)
  BY <1>1, IndexReached DEF Indices
<1>3. QED BY <1>2 DEF Placed

\* The indices a walk reaches are numbers.
LEMMA IndicesAreNat ==
  ASSUME NEW e, NEW at, NEW n \in Indices(e, at)
  PROVE  n \in Nat
BY DEF Indices

\* The window of an event of a reading is the intervals placed that overlap it.
LEMMA WindowIsThat ==
  ASSUME Chosen, NEW e \in events,
         Fine(ExpandWindow(e, e.anchor, From, To))
  PROVE  LET list == ExpandWindow(e, e.anchor, From, To).list
         IN  /\ ToSet(list) = {i \in Placed(e, To) : Overlaps(i, From, To)}
             /\ IsInjective(list)
<1>1. PICK s : s = Sequenced(e)
  OBVIOUS
<1>2. PICK list : list = ExpandWindow(e, e.anchor, From, To).list
  OBVIOUS
<1>3. Sound(s) /\ From \in Int /\ To \in Nat
  BY <1>1, ChosenIs
<1>4. ExpandWindow(e, e.anchor, From, To) = OverlappingIn(s, From, To)
  BY <1>1 DEF ExpandWindow, Sequenced
<1>5. Shows(list, s, From, To)
  BY <1>2, <1>3, <1>4, WindowIs
<1>6. \A n \in Nat : \A i \in Get(s, n) : i \in Interval
  BY <1>3, GetIs DEF Drawn
<1>7. ASSUME NEW m \in DOMAIN list
      PROVE  list[m] \in Placed(e, To) /\ Overlaps(list[m], From, To)
  <2>1. PICK n \in Nat : list[m] \in Get(s, n)
    BY <1>5 DEF Shows
  <2>2. Overlaps(list[m], From, To) /\ list[m] \in Interval
    BY <1>5, <1>6, <2>1 DEF Shows
  <2>3. list[m].start <= To
    BY <1>3, <2>2 DEF Overlaps, Interval
  <2>4. QED BY <1>1, <1>3, <2>1, <2>2, <2>3, WalkReaches
<1>8. ASSUME NEW i \in Placed(e, To), Overlaps(i, From, To)
      PROVE  \E m \in DOMAIN list : list[m] = i
  <2>1. PICK n \in Nat : i \in Get(s, n)
    BY <1>1, IndicesAreNat DEF Placed
  <2>2. QED BY <1>5, <1>8, <2>1 DEF Shows
<1>9. ToSet(list) = {i \in Placed(e, To) : Overlaps(i, From, To)}
  BY <1>7, <1>8 DEF ToSet
<1>10. IsInjective(list)
  <2> SUFFICES ASSUME NEW a \in DOMAIN list, NEW b \in DOMAIN list, list[a] = list[b]
               PROVE  a = b
    BY DEF IsInjective
  <2>1. Once(list, {list[a]})
    BY <1>5 DEF Shows
  <2>2. QED BY <2>1 DEF Once
<1>11. QED BY <1>2, <1>9, <1>10

\* What a list has once when an interval is in force, and not otherwise, counts as one or
\* none.
LEMMA PiecesInForce ==
  ASSUME NEW list \in Seq(Interval), NEW j, NEW t \in Nat, NEW w,
         Exactly(list, At(j, t), w \in During(t))
  PROVE  Cardinality({p \in ToSet(list) : p.index = j /\ Within(p, t)}) =
            IF w \in During(t) THEN 1 ELSE 0
<1>1. PICK those : those = {p \in ToSet(list) : p.index = j /\ Within(p, t)}
  OBVIOUS
<1>2. \A n \in DOMAIN list : list[n] \in Interval /\ list[n].start \in Nat
  <2>1. \A n \in DOMAIN list : list[n] \in Interval
    OBVIOUS
  <2>2. QED BY <2>1 DEF Interval
<1>3. those = {list[n] : n \in {m \in DOMAIN list : list[m] \in At(j, t)}}
  <2>1. \A n \in DOMAIN list : (list[n].index = j /\ Within(list[n], t)) <=> list[n] \in At(j, t)
    BY <1>2 DEF Within, At, During
  <2>2. QED BY <1>1, <2>1 DEF ToSet
<1>4. CASE w \in During(t)
  <2>1. PICK n \in DOMAIN list : list[n] \in At(j, t)
    BY <1>4 DEF Exactly
  <2>2. \A m \in DOMAIN list : list[m] \in At(j, t) => m = n
    BY <2>1 DEF Exactly, Once
  <2>3. those = {list[n]}
    BY <1>3, <2>1, <2>2
  <2>4. QED BY <1>1, <1>4, <2>3, FS_Singleton
<1>5. CASE ~(w \in During(t))
  <2>1. those = {}
    BY <1>3, <1>5 DEF Exactly
  <2>2. QED BY <1>1, <1>5, <2>1, FS_EmptySet
<1>6. QED BY <1>4, <1>5

\* The pieces of an interval are in force, one at a time, exactly while it is.
LEMMA PiecesCover ==
  ASSUME Chosen, NEW e \in events,
         NEW pieces, pieces = ToSet(ExpandPass(e, e.anchor).list), pieces # {},
         NEW w \in ToSet(ExpandPass(Undivided(e), e.anchor).list), NEW t \in 0 .. To
  PROVE  Cardinality({p \in pieces : p.index = w.index /\ Within(p, t)})
            = IF Within(w, t) THEN 1 ELSE 0
<1>1. IsTimed(e) /\ e.anchor \in Nat
  BY ChosenIs
<1>2. PICK x : x = ExpandPass(e, e.anchor)
  OBVIOUS
<1>3. PICK y : y = ExpandPass(Undivided(e), e.anchor)
  OBVIOUS
<1>4. x.list \in Seq(Interval) /\ (~Fine(x) => x.list = <<>>)
  BY <1>1, <1>2, PassIsSound
<1>5. y.list \in Seq(Interval) /\ (~Fine(y) => y.list = <<>>)
  BY <1>1, <1>3, UndividedIsTimed, PassIsSound
<1>6. Fine(x) /\ Fine(y)
  <2>1. x.list # <<>>
    BY <1>2 DEF ToSet
  <2>2. y.list # <<>>
    BY <1>3 DEF ToSet
  <2>3. QED BY <1>4, <1>5, <2>1, <2>2
<1>7. Alike(x, y, Len(e.intervals))
  BY <1>1, <1>2, <1>3, <1>6, PassesAlike
<1>8. PICK m \in 1 .. Len(e.intervals) : w = y.list[m]
  BY <1>3, <1>5, <1>7 DEF Alike, ToSet
<1>9. w.index = m /\ w \in Interval /\ t \in Nat
  BY <1>5, <1>7, <1>8, ChosenIs DEF Alike
<1>10. Exactly(x.list, At(m, t), w \in During(t))
  BY <1>7, <1>8, <1>9 DEF Alike
<1>11. w \in During(t) <=> Within(w, t)
  BY <1>9 DEF During, Within, Interval
<1>12. Cardinality({p \in ToSet(x.list) : p.index = m /\ Within(p, t)})
          = IF w \in During(t) THEN 1 ELSE 0
  BY <1>4, <1>9, <1>10, PiecesInForce
<1>13. QED BY <1>2, <1>9, <1>11, <1>12

\* A window returns every interval of an event that overlaps it and no other, each once,
\* and the pieces of an interval cover it.
THEOREM WindowsAreExact == Reading => []WindowIsExact
<1>1. Chosen => WindowIsExact
  <2> SUFFICES ASSUME Chosen, NEW e \in events
               PROVE  LET window == ExpandWindow(e, e.anchor, From, To)
                          pieces == ToSet(ExpandPass(e, e.anchor).list)
                          wholes == ToSet(ExpandPass(Undivided(e), e.anchor).list)
                      IN  /\ Sequenced(e).err = "" /\ window.err = "" =>
                               /\ ToSet(window.list) = {i \in Placed(e, To) : Overlaps(i, From, To)}
                               /\ IsInjective(window.list)
                          /\ pieces # {} =>
                               \A w \in wholes, t \in 0 .. To :
                                   Cardinality({p \in pieces : p.index = w.index /\ Within(p, t)})
                                       = IF Within(w, t) THEN 1 ELSE 0
    BY Zenon DEF WindowIsExact
  <2> DEFINE window == ExpandWindow(e, e.anchor, From, To)
             pieces == ToSet(ExpandPass(e, e.anchor).list)
             wholes == ToSet(ExpandPass(Undivided(e), e.anchor).list)
  <2>1. ASSUME window.err = ""
        PROVE  /\ ToSet(window.list) = {i \in Placed(e, To) : Overlaps(i, From, To)}
               /\ IsInjective(window.list)
    <3>1. Fine(window)
      BY <2>1, Zenon DEF Fine
    <3>2. QED BY <3>1, WindowIsThat, Zenon
  <2>2. ASSUME pieces # {}, NEW w \in wholes, NEW t \in 0 .. To
        PROVE  Cardinality({p \in pieces : p.index = w.index /\ Within(p, t)})
                  = IF Within(w, t) THEN 1 ELSE 0
    BY <2>2, PiecesCover
  <2>3. QED BY <2>1, <2>2, Zenon
<1>2. QED BY <1>1, ReadingChosen, PTL

-----------------------------------------------------------------------------
(***************************************************************************)
(* The reports of an event whose intervals are in time order are due one   *)
(* after the other, and so to begin near a window and to end at the first  *)
(* report after it leaves none out.                                        *)
(***************************************************************************)
\* The intervals of a sequence begin and end in the order they are declared in.
InTimeOrder(s) ==
    \A i, j \in DOMAIN s.base : i <= j =>
        /\ s.base[i].start <= s.base[j].start
        /\ \A f \in s.base[j].end :
             s.base[j].start <= f /\ \E e \in s.base[i].end : e <= f

\* Which interval an index stands for, in which repetition, and how much later that is.
PlacedAt(s, n, k, o, d) ==
    /\ k \in 1 .. Len(s.base) /\ o \in Nat /\ d \in Nat
    /\ s.period = {} => o = 0 /\ d = 0 /\ n = k - 1
    /\ \A p \in s.period : d = p * o /\ n = Len(s.base) * o + (k - 1)

\* It leaves the range of what can be represented.
Beyond(s, k, d) ==
    s.period # {} /\ \E t \in {s.base[k].start} \cup s.base[k].end : t + d > MaxTime

Gone(s, k, d) == Beyond(s, k, d) \/ EndsFirst(s, k, d)

\* What there is at an index.
LEMMA GetFinds ==
  ASSUME NEW s, Sound(s), NEW n \in Nat, s.base # <<>>, s.period # {} \/ n < Len(s.base)
  PROVE  \E k, o, d : /\ PlacedAt(s, n, k, o, d)
                      /\ Get(s, n) = IF Gone(s, k, d) THEN {} ELSE {IntervalAt(s, k, o, d)}
<1> DEFINE len == Len(s.base)
           o == IF Repeats(s) THEN n \div len ELSE 0
           m == IF Repeats(s) THEN n % len ELSE n
           d == IF Repeats(s) THEN TheElement(s.period) * o ELSE 0
<1>1. Get(s, n) = IF len = 0 \/ (~Repeats(s) /\ n >= len) \/ PastTheRange(s, n)
                     \/ EndsFirst(s, m + 1, d)
                  THEN {} ELSE {IntervalAt(s, m + 1, o, d)}
  BY Zenon DEF Get, EndsFirst, IntervalAt, EndAt, CutOffAt
<1>2. PastTheRange(s, n) <=>
         /\ len > 0 /\ Repeats(s)
         /\ \E t \in {s.base[(n % len) + 1].start} \cup s.base[(n % len) + 1].end :
               t + TheElement(s.period) * (n \div len) > MaxTime
  BY Zenon DEF PastTheRange
<1>3. len \in Nat /\ len # 0
  <2>1. s.base \in Seq(Interval)
    BY DEF Sound
  <2>2. QED BY <2>1, EmptySeq
<1>4. Repeats(s) <=> s.period # {}
  BY DEF Repeats
<1>5. Repeats(s) => o = n \div len /\ m = n % len /\ d = TheElement(s.period) * o
  OBVIOUS
<1>6. ~Repeats(s) => o = 0 /\ m = n /\ d = 0
  OBVIOUS
<1>7. len = Len(s.base)
  OBVIOUS
<1> HIDE DEF len, o, m, d
<1> PICK k : k = m + 1
  OBVIOUS
<1>8. PlacedAt(s, n, k, o, d)
  <2>1. CASE Repeats(s)
    <3>1. PICK p : p = TheElement(s.period)
      OBVIOUS
    <3>2. p \in Nat \ {0} /\ s.period = {p}
      BY <1>4, <2>1, <3>1, TheOnlyElement DEF Sound
    <3>3. o = n \div len /\ m = n % len /\ d = p * o
      BY <1>5, <2>1, <3>1
    <3>4. o \in Nat /\ m \in 0 .. len - 1 /\ n = (len * o) + m
      BY <1>3, <3>3, DivMod
    <3>5. k \in 1 .. len /\ k - 1 = m /\ d \in Nat
      BY <1>3, <3>2, <3>3, <3>4
    <3>6. \A q \in s.period : d = q * o /\ n = len * o + (k - 1)
      BY <3>2, <3>3, <3>4, <3>5
    <3>7. s.period # {}
      BY <3>2
    <3>8. QED BY <1>7, <3>4, <3>5, <3>6, <3>7 DEF PlacedAt
  <2>2. CASE ~Repeats(s)
    <3>1. o = 0 /\ m = n /\ d = 0 /\ s.period = {} /\ n < len
      BY <1>4, <1>6, <1>7, <2>2
    <3>2. k \in 1 .. len /\ d \in Nat /\ o \in Nat /\ n = k - 1
      BY <1>3, <3>1
    <3>3. QED BY <1>7, <3>1, <3>2 DEF PlacedAt
  <2>3. QED BY <2>1, <2>2
<1>9. PastTheRange(s, n) <=> Beyond(s, k, d)
  <2>1. CASE Repeats(s)
    <3>1. k = (n % len) + 1 /\ d = TheElement(s.period) * (n \div len) /\ len > 0
      BY <1>3, <1>5, <2>1
    <3>2. QED BY <1>2, <1>4, <2>1, <3>1 DEF Beyond
  <2>2. CASE ~Repeats(s)
    BY <1>2, <1>4, <2>2 DEF Beyond
  <2>3. QED BY <2>1, <2>2
<1>10. ~(~Repeats(s) /\ n >= len)
  BY <1>3, <1>4, <1>7
<1>11. Get(s, n) = IF Gone(s, k, d) THEN {} ELSE {IntervalAt(s, k, o, d)}
  BY <1>1, <1>3, <1>9, <1>10 DEF Gone
<1>12. QED BY <1>8, <1>11

\* Nothing is past the declared intervals of a sequence that does not repeat.
LEMMA GetEnds ==
  ASSUME NEW s, NEW n, s.base = <<>> \/ (s.period = {} /\ n >= Len(s.base))
  PROVE  Get(s, n) = {}
<1>1. Len(s.base) = 0 \/ (~Repeats(s) /\ n >= Len(s.base)) => Get(s, n) = {}
  BY Zenon DEF Get
<1>2. s.base = <<>> => Len(s.base) = 0
  BY EmptySeq
<1>3. QED BY <1>1, <1>2 DEF Repeats

\* A multiple of one more is one more.
LEMMA NextMultiple ==
  ASSUME NEW p \in Nat, NEW a \in Nat, NEW b \in Nat, a < b
  PROVE  p * a \in Nat /\ p * b \in Nat /\ p * a + p <= p * b
<1>1. p * (a + 1) = p * a + p /\ p * (a + 1) <= p * b
  OBVIOUS
<1>2. p * a \in Nat /\ p * b \in Nat
  OBVIOUS
<1>3. QED BY <1>1, <1>2

\* A later index stands for a later interval of a repetition or for a later repetition.
LEMMA LaterPlace ==
  ASSUME NEW s, Sound(s), NEW m \in Nat, NEW n \in Nat, m <= n,
         NEW j, NEW q, NEW c, PlacedAt(s, m, j, q, c), NEW k, NEW o, NEW d, PlacedAt(s, n, k, o, d)
  PROVE  \/ j <= k /\ c = d
         \/ \E p \in s.period : c + p <= d
<1>1. /\ j \in 1 .. Len(s.base) /\ k \in 1 .. Len(s.base) /\ Len(s.base) \in Nat
      /\ q \in Nat /\ o \in Nat /\ c \in Nat /\ d \in Nat
  BY DEF PlacedAt, Sound
<1>2. CASE s.period = {}
  BY <1>1, <1>2 DEF PlacedAt
<1>3. CASE s.period # {}
  <2>1. PICK p \in Nat \ {0} : p \in s.period
    BY <1>3, TheOnlyElement DEF Sound
  <2>2. PICK len \in Nat : len = Len(s.base)
    BY <1>1
  <2>3. /\ c = p * q /\ m = len * q + (j - 1)
        /\ d = p * o /\ n = len * o + (k - 1)
    BY <2>1, <2>2 DEF PlacedAt
  <2>4. CASE q = o
    <3>1. len * q \in Nat
      BY <1>1, <2>2
    <3>2. j <= k
      BY ONLY <1>1, <2>3, <2>4, <3>1, m <= n
    <3>3. QED BY <2>3, <2>4, <3>2
  <2>5. CASE q < o
    BY <1>1, <2>1, <2>3, <2>5, NextMultiple
  <2>6. CASE o < q
    <3>1. len * o \in Nat /\ len * q \in Nat /\ len * o + len <= len * q
      BY <1>1, <2>2, <2>6, NextMultiple
    <3>2. FALSE
      BY ONLY <1>1, <2>2, <2>3, <3>1, m <= n
    <3>3. QED BY <3>2
  <2>7. QED BY <1>1, <2>4, <2>5, <2>6
<1>4. QED BY <1>2, <1>3

\* It begins no earlier, and what is before it ends no later.
LEMMA LaterTimes ==
  ASSUME NEW s, Sound(s), InTimeOrder(s), NEW m \in Nat, NEW n \in Nat, m <= n,
         NEW j, NEW q, NEW c, PlacedAt(s, m, j, q, c), NEW k, NEW o, NEW d, PlacedAt(s, n, k, o, d)
  PROVE  /\ s.base[j].start + c <= s.base[k].start + d
         /\ \A f \in s.base[k].end : \E e \in s.base[j].end : e + c <= f + d
<1>1. /\ j \in DOMAIN s.base /\ k \in DOMAIN s.base
      /\ s.base[j] \in Interval /\ s.base[k] \in Interval /\ c \in Nat /\ d \in Nat
      /\ j \in Nat /\ k \in Nat
  BY DEF PlacedAt, Sound
<1>2. /\ s.base[j].start \in Nat /\ s.base[k].start \in Nat
      /\ s.base[j].end \in OptionOf(Nat) /\ s.base[k].end \in OptionOf(Nat)
  BY <1>1 DEF Interval
<1>3. s.base[j].end \subseteq Nat /\ s.base[k].end \subseteq Nat
  BY <1>2 DEF OptionOf
<1>4. CASE j <= k /\ c = d
  <2>1. s.base[j].start <= s.base[k].start
    BY <1>1, <1>4 DEF InTimeOrder
  <2>2. \A f \in s.base[k].end : \E e \in s.base[j].end : e <= f
    BY <1>1, <1>4 DEF InTimeOrder
  <2>3. QED BY <1>1, <1>2, <1>3, <1>4, <2>1, <2>2
<1>5. ASSUME NEW p \in s.period, c + p <= d
      PROVE  /\ s.base[j].start + c <= s.base[k].start + d
             /\ \A f \in s.base[k].end : \E e \in s.base[j].end : e + c <= f + d
  <2>1. p \in Nat /\ s.start \in Nat /\ s.start <= s.base[k].start
    BY <1>1 DEF Sound, OptionOf
  <2>2. PICK e \in s.base[j].end : e <= s.start + p
    BY <1>1 DEF Sound
  <2>3. e \in Nat /\ s.base[j].start <= e
    BY <1>1, <1>3, <2>2 DEF InTimeOrder
  <2>4. \A f \in s.base[k].end : s.base[k].start <= f
    BY <1>1 DEF InTimeOrder
  <2>5. s.base[j].start + c <= s.base[k].start + d
    BY <1>1, <1>2, <1>5, <2>1, <2>2, <2>3
  <2>6. \A f \in s.base[k].end : e + c <= f + d
    BY <1>1, <1>2, <1>3, <1>5, <2>1, <2>2, <2>3, <2>4
  <2>7. QED BY <2>5, <2>6
<1>6. QED BY <1>4, <1>5, LaterPlace

\* The interval at a place.
LEMMA IntervalAtIs ==
  ASSUME NEW s, Sound(s), NEW k \in DOMAIN s.base, NEW o, NEW d
  PROVE  /\ IntervalAt(s, k, o, d).start = s.base[k].start + d
         /\ IntervalAt(s, k, o, d).end = CutOffAt(s, EndAt(s, k, d))
<1> PICK x : x = s.base[k]
  OBVIOUS
<1> PICK end : end = CutOffAt(s, EndAt(s, k, d))
  OBVIOUS
<1>1. x \in Interval
  BY DEF Sound
<1>2. x = [id |-> x.id, index |-> x.index, occurrence |-> x.occurrence,
           subinterval |-> x.subinterval, start |-> x.start, end |-> x.end,
           payloads |-> x.payloads]
  BY ONLY <1>1 DEF Interval
<1>3. IntervalAt(s, k, o, d) = [x EXCEPT !.occurrence = o, !.start = x.start + d, !.end = end]
  BY DEF IntervalAt
<1>4. QED BY ONLY <1>2, <1>3, x = s.base[k], end = CutOffAt(s, EndAt(s, k, d))

\* Whatever is cut off ends where the event does, if that is earlier.
LEMMA CutOffIs ==
  ASSUME NEW s, Sound(s), NEW end \in OptionOf(Nat)
  PROVE  /\ CutOffAt(s, end) \in OptionOf(Nat)
         /\ \A f \in CutOffAt(s, end) : f \in end \/ f \in s.lifespan
         /\ \A e \in end : \E f \in CutOffAt(s, end) : f <= e
         /\ \A l \in s.lifespan : \E f \in CutOffAt(s, end) : f <= l
<1>1. s.lifespan \in OptionOf(Nat)
  BY DEF Sound
<1>2. /\ s.lifespan \subseteq Nat /\ (\A x, y \in s.lifespan : x = y)
      /\ end \subseteq Nat /\ \A x, y \in end : x = y
  BY <1>1 DEF OptionOf
<1>3. CASE \E l \in s.lifespan : \A e \in end : e > l
  <2>1. PICK l \in s.lifespan : \A e \in end : e > l
    BY <1>3
  <2>2. CutOffAt(s, end) = s.lifespan
    BY <1>3 DEF CutOffAt
  <2>3. l \in Nat /\ \A x \in s.lifespan : x = l
    BY <1>2
  <2>4. \A e \in end : l <= e
    BY <1>2, <2>1, <2>3
  <2>5. QED BY <1>1, <2>1, <2>2, <2>3, <2>4
<1>4. CASE ~\E l \in s.lifespan : \A e \in end : e > l
  <2>1. CutOffAt(s, end) = end
    BY <1>4 DEF CutOffAt
  <2>2. \A e \in end : e <= e
    BY <1>2
  <2>3. \A l \in s.lifespan : \E e \in end : e <= l
    BY <1>2, <1>4
  <2>4. QED BY <2>1, <2>2, <2>3
<1>5. QED BY <1>3, <1>4

\* Where an interval of a sequence lies in time.
LEMMA EndsAt ==
  ASSUME NEW s, Sound(s), NEW k \in DOMAIN s.base, NEW d \in Nat
  PROVE  /\ s.base[k].start \in Nat /\ s.base[k].end \subseteq Nat
         /\ EndAt(s, k, d) \in OptionOf(Nat)
         /\ \A e \in EndAt(s, k, d) : \E x \in s.base[k].end : e = x + d
         /\ \A x \in s.base[k].end : x + d \in EndAt(s, k, d)
<1>1. s.base[k] \in Interval
  BY DEF Sound
<1>2. s.base[k].start \in Nat /\ s.base[k].end \in OptionOf(Nat)
  BY <1>1 DEF Interval
<1>3. s.base[k].end \subseteq Nat /\ \A x, y \in s.base[k].end : x = y
  BY <1>2 DEF OptionOf
<1> PICK end : end = EndAt(s, k, d)
  OBVIOUS
<1>4. end = {e + d : e \in s.base[k].end}
  BY DEF EndAt
<1>5. end \subseteq Nat
  BY <1>3, <1>4
<1>6. \A x, y \in end : x = y
  BY <1>3, <1>4
<1>7. end \in OptionOf(Nat)
  BY <1>5, <1>6 DEF OptionOf
<1>8. QED BY <1>2, <1>3, <1>4, <1>7

\* An interval of a sequence in time order begins and ends no later than another.
NoLater(i, j) == i.start <= j.start /\ \A f \in j.end : \E e \in i.end : e <= f

Lasting(i) == i.start \in Nat /\ i.end \in OptionOf(Nat) /\ \A e \in i.end : i.start <= e

\* The interval that is found at a place.
LEMMA FoundAt ==
  ASSUME NEW s, Sound(s), InTimeOrder(s), NEW k \in DOMAIN s.base, NEW o, NEW d \in Nat,
         ~Gone(s, k, d), NEW i, i = IntervalAt(s, k, o, d)
  PROVE  Lasting(i)
<1>1. /\ s.base[k].start \in Nat /\ s.base[k].end \subseteq Nat
      /\ EndAt(s, k, d) \in OptionOf(Nat)
      /\ \A e \in EndAt(s, k, d) : \E x \in s.base[k].end : e = x + d
  BY EndsAt
<1>2. i.start = s.base[k].start + d /\ i.end = CutOffAt(s, EndAt(s, k, d))
  BY IntervalAtIs
<1>3. i.end \in OptionOf(Nat) /\ \A f \in i.end : f \in EndAt(s, k, d) \/ f \in s.lifespan
  BY <1>1, <1>2, CutOffIs
<1>4. s.lifespan \subseteq Nat /\ \A l \in s.lifespan : ~(i.start >= l)
  <2>1. s.lifespan \subseteq Nat
    BY DEF Sound, OptionOf
  <2>2. QED BY <1>2, <2>1 DEF Gone, EndsFirst
<1>5. i.start \in Nat
  BY <1>1, <1>2
<1>6. ASSUME NEW f \in i.end PROVE i.start <= f
  <2>1. CASE f \in s.lifespan
    BY <1>4, <1>5, <2>1
  <2>2. CASE f \in EndAt(s, k, d)
    <3>1. PICK x \in s.base[k].end : f = x + d
      BY <1>1, <2>2
    <3>2. s.base[k].start <= x
      BY DEF InTimeOrder, Sound
    <3>3. QED BY <1>1, <1>2, <3>1, <3>2
  <2>3. QED BY <1>3, <2>1, <2>2
<1>7. QED BY <1>3, <1>5, <1>6 DEF Lasting

\* The one at an index begins and ends no later than one that is found at another.
Before(s, m, n, y) ==
    /\ Get(s, n) = {y} /\ Lasting(y)
    /\ \E x : Get(s, m) = {x} /\ Lasting(x) /\ NoLater(x, y)

\* Where one is found there is one at every index before it, which begins and ends no later.
LEMMA BeforeIt ==
  ASSUME NEW s, Sound(s), InTimeOrder(s), NEW m \in Nat, NEW n \in Nat, m <= n,
         NEW y \in Get(s, n)
  PROVE  Before(s, m, n, y)
<1>1. s.base # <<>> /\ (s.period # {} \/ n < Len(s.base))
  <2>1. Len(s.base) \in Nat
    BY DEF Sound
  <2>2. QED BY <2>1, GetEnds
<1>2. s.period # {} \/ m < Len(s.base)
  <2>1. Len(s.base) \in Nat
    BY DEF Sound
  <2>2. QED BY <1>1, <2>1
<1>3. PICK j, q, c : /\ PlacedAt(s, m, j, q, c)
                     /\ Get(s, m) = IF Gone(s, j, c) THEN {} ELSE {IntervalAt(s, j, q, c)}
  BY <1>1, <1>2, GetFinds
<1>4. PICK k, o, d : /\ PlacedAt(s, n, k, o, d)
                     /\ Get(s, n) = IF Gone(s, k, d) THEN {} ELSE {IntervalAt(s, k, o, d)}
  BY <1>1, GetFinds
<1>5. ~Gone(s, k, d) /\ y = IntervalAt(s, k, o, d) /\ Get(s, n) = {y}
  BY <1>4
<1>6. /\ j \in DOMAIN s.base /\ k \in DOMAIN s.base /\ c \in Nat /\ d \in Nat
  BY <1>3, <1>4 DEF PlacedAt, Sound
<1>7. /\ s.base[j].start + c <= s.base[k].start + d
      /\ \A f \in s.base[k].end : \E e \in s.base[j].end : e + c <= f + d
  BY <1>3, <1>4, LaterTimes
<1>8. /\ s.base[j].start \in Nat /\ s.base[j].end \subseteq Nat
      /\ s.base[k].start \in Nat /\ s.base[k].end \subseteq Nat
  BY <1>6, EndsAt
<1>9. ~Gone(s, j, c)
  <2>1. ~EndsFirst(s, j, c)
    <3>1. s.lifespan \subseteq Nat
      BY DEF Sound, OptionOf
    <3>2. \A l \in s.lifespan : ~(s.base[k].start + d >= l)
      BY <1>5 DEF Gone, EndsFirst
    <3>3. QED BY <1>6, <1>7, <1>8, <3>1, <3>2 DEF EndsFirst
  <2>2. ~Beyond(s, j, c)
    <3> SUFFICES ASSUME s.period # {} PROVE ~Beyond(s, j, c)
      BY DEF Beyond
    <3>1. PICK p \in s.period : TRUE
      OBVIOUS
    <3>2. PICK f \in s.base[k].end : TRUE
      BY <1>6, <3>1 DEF Sound
    <3>3. PICK e \in s.base[j].end : e + c <= f + d
      BY <1>7
    <3>4. f + d <= MaxTime
      <4>1. ~(f + d > MaxTime)
        BY <1>5, <3>2 DEF Gone, Beyond
      <4>2. MaxTime \in Nat
        BY IntervalsAssumption
      <4>3. QED BY <1>6, <1>8, <4>1, <4>2
    <3>5. s.base[j].start <= e
      BY <1>6, <3>3 DEF InTimeOrder, Sound
    <3>6. \A x \in s.base[j].end : x = e
      <4>1. s.base[j] \in Interval
        BY <1>6 DEF Sound
      <4>2. s.base[j].end \in OptionOf(Nat)
        BY <4>1 DEF Interval
      <4>3. QED BY <4>2 DEF OptionOf
    <3>7. MaxTime \in Nat
      BY IntervalsAssumption
    <3>8. \A t \in {s.base[j].start} \cup s.base[j].end : ~(t + c > MaxTime)
      BY <1>6, <1>8, <3>3, <3>4, <3>5, <3>6, <3>7
    <3>9. QED BY <3>8 DEF Beyond
  <2>3. QED BY <2>1, <2>2 DEF Gone
<1>10. PICK x : x = IntervalAt(s, j, q, c)
  OBVIOUS
<1>11. Get(s, m) = {x}
  BY <1>3, <1>9, <1>10
<1>12. Lasting(x) /\ Lasting(y)
  BY <1>5, <1>6, <1>9, <1>10, FoundAt
<1>13. NoLater(x, y)
  <2>1. x.start = s.base[j].start + c /\ y.start = s.base[k].start + d
    BY <1>5, <1>6, <1>10, IntervalAtIs
  <2>2. x.end = CutOffAt(s, EndAt(s, j, c)) /\ y.end = CutOffAt(s, EndAt(s, k, d))
    BY <1>5, <1>6, <1>10, IntervalAtIs
  <2>3. EndAt(s, j, c) \in OptionOf(Nat) /\ EndAt(s, k, d) \in OptionOf(Nat)
    BY <1>6, EndsAt
  <2>4. ASSUME NEW f \in y.end PROVE \E e \in x.end : e <= f
    <3>1. CASE f \in s.lifespan
      BY <2>2, <2>3, <3>1, CutOffIs
    <3>2. CASE f \in EndAt(s, k, d)
      <4>1. PICK g \in s.base[k].end : f = g + d
        BY <1>6, <3>2, EndsAt
      <4>2. PICK e \in s.base[j].end : e + c <= f
        BY <1>7, <4>1
      <4>3. e + c \in EndAt(s, j, c)
        BY <1>6, EndsAt
      <4>4. PICK h \in x.end : h <= e + c
        BY <2>2, <2>3, <4>3, CutOffIs
      <4>5. h \in Nat /\ e + c \in Nat /\ f \in Nat
        <5>1. x.end \subseteq Nat
          BY <1>12 DEF Lasting, OptionOf
        <5>2. QED BY <1>6, <1>8, <4>1, <5>1
      <4>6. QED BY <4>2, <4>4, <4>5
    <3>3. f \in EndAt(s, k, d) \/ f \in s.lifespan
      BY <2>2, <2>3, CutOffIs
    <3>4. QED BY <3>1, <3>2, <3>3
  <2>5. QED BY <1>7, <2>1, <2>4 DEF NoLater
<1>14. QED BY <1>5, <1>11, <1>12, <1>13 DEF Before

\* Of some numbers up to a last one is the greatest.
LEMMA GreatestOf ==
  ASSUME NEW last \in Int, NEW S \in SUBSET Int, S # {}, \A n \in S : n <= last
  PROVE  \E m \in S : \A n \in S : n <= m
<1>0. PICK T : T = {last - n : n \in S}
  OBVIOUS
<1>1. T \in SUBSET Int /\ T # {} /\ \A t \in T : t > -1
  <2>1. \A n \in S : last - n \in Int /\ last - n > -1
    OBVIOUS
  <2>2. QED BY <1>0, <2>1
<1>2. PICK t \in T : \A u \in T : t <= u
  <2>1. PICK a : a = -1
    OBVIOUS
  <2>2. a \in Int /\ \A u \in T : u > a
    BY <1>1, <2>1
  <2>3. QED BY <1>1, <2>2, FirstLater
<1>3. PICK m \in S : t = last - m
  BY <1>0
<1>4. ASSUME NEW n \in S PROVE n <= m
  <2>1. last - m <= last - n
    BY <1>0, <1>2, <1>3
  <2>2. m \in Int /\ n \in Int
    OBVIOUS
  <2>3. QED BY <2>1, <2>2
<1>5. QED BY <1>4

\* The intervals a report covers, as far as they exist: up to n.
Covers(s, first, last, n, x, y) ==
    /\ n \in Nat /\ first <= n /\ n <= last
    /\ Get(s, first) = {x} /\ Get(s, n) = {y} /\ Lasting(x) /\ Lasting(y)
    /\ \A m \in Nat : m > n /\ m <= last => Get(s, m) = {}

CollectedAs(s, first, last, c) ==
    \E n, x, y : Covers(s, first, last, n, x, y) /\ c.from = x.start /\ c.to = y.end

Existing(s, first, last) == {n \in first .. last : \A m \in first .. n : Get(s, m) # {}}

\* What exists of a range of indices.
LEMMA ExistingIs ==
  ASSUME NEW s, Sound(s), InTimeOrder(s), NEW first \in Nat, NEW last \in Int,
         NEW n \in Nat, first <= n, n <= last
  PROVE  n \in Existing(s, first, last) <=> Get(s, n) # {}
<1>1. n \in first .. last /\ n \in first .. n
  OBVIOUS
<1>2. ASSUME Get(s, n) # {}, NEW m \in first .. n PROVE Get(s, m) # {}
  <2>1. m \in Nat /\ m <= n
    OBVIOUS
  <2>2. PICK y \in Get(s, n) : TRUE
    BY <1>2
  <2>3. Before(s, m, n, y)
    BY <2>1, <2>2, BeforeIt
  <2>4. QED BY ONLY <2>3 DEF Before
<1>3. QED BY <1>1, <1>2 DEF Existing

LastIs(s, first, last, end) ==
    \E x, y : /\ Covers(s, first, last, end, x, y)
              /\ TheElement(Get(s, first)) = x /\ TheElement(Get(s, end)) = y

\* The last of what exists.
LEMMA LastExisting ==
  ASSUME NEW s, Sound(s), InTimeOrder(s), NEW first \in Nat, NEW last \in Int,
         NEW S, S = Existing(s, first, last), S # {},
         NEW end, end = CHOOSE n \in S : \A m \in S : m <= n
  PROVE  LastIs(s, first, last, end)
<1>1. S \in SUBSET Int /\ \A n \in S : n \in Nat /\ first <= n /\ n <= last
  BY DEF Existing
<1>2. \E m \in S : \A n \in S : n <= m
  BY <1>1, GreatestOf
<1>3. end \in S /\ \A m \in S : m <= end
  BY <1>2
<1>4. end \in Nat /\ first <= end /\ end <= last
  BY <1>1, <1>3
<1>5. Get(s, end) # {}
  BY <1>3, <1>4, ExistingIs
<1>6. PICK y : y \in Get(s, end)
  BY <1>5
<1>7. PICK x : Get(s, first) = {x} /\ Lasting(x) /\ Get(s, end) = {y} /\ Lasting(y)
  <2>1. Before(s, first, end, y)
    BY <1>4, <1>6, BeforeIt
  <2>2. QED BY ONLY <2>1 DEF Before
<1>8. ASSUME NEW m \in Nat, m > end, m <= last PROVE Get(s, m) = {}
  <2>1. first <= m /\ ~(m <= end)
    BY <1>4, <1>8
  <2>2. m \notin S
    BY <1>3, <2>1
  <2>3. QED BY <1>8, <2>1, <2>2, ExistingIs
<1>9. TheElement(Get(s, first)) = x /\ TheElement(Get(s, end)) = y
  BY ONLY <1>7 DEF TheElement
<1>10. Covers(s, first, last, end, x, y)
  BY <1>4, <1>7, <1>8 DEF Covers
<1>11. QED BY <1>9, <1>10 DEF LastIs

\* What is collected of a range of indices.
LEMMA CollectIs ==
  ASSUME NEW s, Sound(s), InTimeOrder(s), NEW first \in Nat, NEW last \in Int
  PROVE  /\ Collect(s, first, last) = {} <=> last < first \/ Get(s, first) = {}
         /\ Collect(s, first, last) # {} =>
              \E c : Collect(s, first, last) = {c} /\ CollectedAs(s, first, last, c)
<1>0. PICK S : S = Existing(s, first, last)
  OBVIOUS
<1>1. PICK end : end = CHOOSE n \in S : \A m \in S : m <= n
  OBVIOUS
<1>2. PICK list : list = [k \in 1 .. end - first + 1 |-> TheElement(Get(s, first + k - 1)).id]
  OBVIOUS
<1>3. PICK c : c = [from |-> TheElement(Get(s, first)).start, to |-> TheElement(Get(s, end)).end,
                    ids |-> list]
  OBVIOUS
<1>4. Collect(s, first, last) = IF S = {} THEN {} ELSE {c}
  BY <1>0, <1>1, <1>2, <1>3, Zenon DEF Collect, Existing
<1>5. S = {} <=> last < first \/ Get(s, first) = {}
  <2>1. ASSUME first <= last, Get(s, first) # {} PROVE S # {}
    <3>1. first <= first
      OBVIOUS
    <3>2. first \in S
      BY <1>0, <2>1, <3>1, ExistingIs
    <3>3. QED BY ONLY <3>2
  <2>2. ASSUME NEW n \in S PROVE first <= last /\ Get(s, first) # {}
    <3>1. n \in first .. last /\ \A m \in first .. n : Get(s, m) # {}
      BY <1>0 DEF Existing
    <3>2. first <= last /\ first \in first .. n
      BY <3>1
    <3>3. QED BY <3>1, <3>2
  <2>3. first <= last <=> ~(last < first)
    OBVIOUS
  <2>4. QED BY <2>1, <2>2, <2>3
<1>6. ASSUME S # {} PROVE CollectedAs(s, first, last, c)
  <2>1. PICK x, y : /\ Covers(s, first, last, end, x, y)
                    /\ TheElement(Get(s, first)) = x /\ TheElement(Get(s, end)) = y
    <3>1. LastIs(s, first, last, end)
      BY <1>0, <1>1, <1>6, LastExisting
    <3>2. QED BY ONLY <3>1 DEF LastIs
  <2>2. c.from = x.start /\ c.to = y.end
    BY ONLY <1>3, <2>1
  <2>3. QED BY ONLY <2>1, <2>2 DEF CollectedAs
<1>7. QED BY <1>4, <1>5, <1>6

\* The first and the last index a report is to cover.
FirstOf(asks, s, k) == RangeOf(asks, s, k).first
LastOf(asks, s, k) == RangeOf(asks, s, k).last

\* Report k of a sequence, which is due when its anchor begins or ends.
Reports(asks, s, k, r) ==
    \E n, x, y : /\ Covers(s, FirstOf(asks, s, k), LastOf(asks, s, k), n, x, y)
                 /\ r.dueAt = IF BackFrom(asks) THEN y.end ELSE {x.start}

\* A report exists if what it is to cover begins.
LEMMA ReportIs ==
  ASSUME NEW s, Sound(s), InTimeOrder(s), NEW asks, NEW k,
         FirstOf(asks, s, k) \in Nat, LastOf(asks, s, k) \in Int
  PROVE  /\ ReportK(asks, s, k) = {} <=>
              LastOf(asks, s, k) < FirstOf(asks, s, k) \/ Get(s, FirstOf(asks, s, k)) = {}
         /\ \A r \in ReportK(asks, s, k) : ReportK(asks, s, k) = {r} /\ Reports(asks, s, k, r)
<1>1. PICK first \in Nat : first = FirstOf(asks, s, k)
  OBVIOUS
<1>2. PICK last \in Int : last = LastOf(asks, s, k)
  OBVIOUS
<1>3. PICK all : all = Collect(s, first, last)
  OBVIOUS
<1> DEFINE Due(c) == [sequence |-> k, from |-> c.from, to |-> c.to,
                      dueAt |-> IF BackFrom(asks) THEN c.to ELSE {c.from},
                      ids |-> IF asks.open \/ s.implied THEN <<>> ELSE c.ids]
<1>4. ReportK(asks, s, k) = {Due(c) : c \in all}
  <2>1. ReportK(asks, s, k)
           = {Due(c) : c \in Collect(s, RangeOf(asks, s, k).first, RangeOf(asks, s, k).last)}
    BY DEF ReportK
  <2> HIDE DEF Due
  <2>2. QED BY <1>1, <1>2, <1>3, <2>1 DEF FirstOf, LastOf
<1>5. \A c : Due(c).dueAt = IF BackFrom(asks) THEN c.to ELSE {c.from}
  OBVIOUS
<1> HIDE DEF Due
<1>6. /\ all = {} <=> last < first \/ Get(s, first) = {}
      /\ all # {} => \E c : all = {c} /\ CollectedAs(s, first, last, c)
  BY <1>3, CollectIs
<1>7. ASSUME NEW r \in ReportK(asks, s, k)
      PROVE  ReportK(asks, s, k) = {r} /\ Reports(asks, s, k, r)
  <2>1. PICK c : all = {c} /\ CollectedAs(s, first, last, c)
    BY <1>4, <1>6, <1>7
  <2>2. r = Due(c) /\ ReportK(asks, s, k) = {r}
    BY ONLY <1>4, <1>7, <2>1
  <2>3. PICK n, x, y : Covers(s, first, last, n, x, y) /\ c.from = x.start /\ c.to = y.end
    BY <2>1 DEF CollectedAs
  <2>4. r.dueAt = IF BackFrom(asks) THEN y.end ELSE {x.start}
    BY ONLY <1>5, <2>2, <2>3
  <2>5. Reports(asks, s, k, r)
    BY ONLY <1>1, <1>2, <2>3, <2>4 DEF Reports
  <2>6. QED BY <2>2, <2>5
<1>8. ReportK(asks, s, k) = {} <=> all = {}
  BY ONLY <1>4
<1>9. QED BY <1>1, <1>2, <1>6, <1>7, <1>8

\* How the reports of a sequence are placed.
PlacesReports(asks, s) ==
    /\ FirstAnchor(asks, s) \in Nat /\ StepOf(asks, s) \in Nat \ {0}
    /\ CoveredBy(asks, s) \in Nat \ {0}
    /\ CoveredBy(asks, s) <= IF Repeats(s) THEN MaxCovered ELSE Len(s.base)

\* The anchor asked for, which may be before the first interval.
AskedFrom(asks, s, len, num) ==
    LET desired == asks.startInterval
    IN  CASE desired < 0 /\ FirstCovered -> len - num
          [] desired < 0 /\ ~FirstCovered -> IF asks.historical THEN len - 1 ELSE 0
          [] desired >= 0 -> IF Repeats(s) THEN desired ELSE LesserOf(desired, len - 1)

\* The first anchor, the step and the number covered are numbers, and a report covers no more
\* than there is.
LEMMA PlacedReports ==
  ASSUME NEW s, Sound(s), s.base # <<>>, NEW asks, IsDescriptor(asks)
  PROVE  PlacesReports(asks, s)
<1>0. PICK len : len = Len(s.base)
  OBVIOUS
<1>1. len \in Nat \ {0}
  BY <1>0, EmptySeq DEF Sound
<1>2. PICK most \in Nat \ {0} : most = IF Repeats(s) THEN MaxCovered ELSE len
  BY <1>1, SchedulesAssumption
<1>3. PICK num : num = IF asks.numIntervals < 0 THEN len ELSE asks.numIntervals
  OBVIOUS
<1>4. num \in Nat
  BY <1>1, <1>3 DEF IsDescriptor
<1>5. CoveredBy(asks, s) = GreaterOf(1, LesserOf(num, most))
  BY <1>0, <1>2, <1>3, Zenon DEF CoveredBy
<1>6. CoveredBy(asks, s) \in Nat \ {0} /\ CoveredBy(asks, s) <= most
  <2>1. most \in Nat \ {0}
    OBVIOUS
  <2>2. QED BY ONLY <1>4, <1>5, <2>1 DEF GreaterOf, LesserOf
<1>7. PICK c \in Nat \ {0} : c = CoveredBy(asks, s)
  BY <1>6
<1>8. StepOf(asks, s) = GreaterOf(1, IF asks.frequency < 0 THEN c ELSE asks.frequency)
  BY <1>7 DEF StepOf
<1>9. StepOf(asks, s) \in Nat \ {0}
  BY <1>7, <1>8 DEF GreaterOf, IsDescriptor
<1>10. FirstAnchor(asks, s) = GreaterOf(0, AskedFrom(asks, s, len, c))
  BY <1>0, <1>7, Zenon DEF FirstAnchor, AskedFrom
<1>11. AskedFrom(asks, s, len, c) \in Int
  <2>1. asks.startInterval \in Int /\ len - c \in Int /\ len - 1 \in Int
    BY <1>1, <1>7 DEF IsDescriptor
  <2>2. PICK desired \in Int : desired = asks.startInterval
    BY <2>1
  <2>3. LesserOf(desired, len - 1) \in Int
    BY <2>1 DEF LesserOf
  <2>4. CASE desired < 0 /\ FirstCovered
    BY <2>1, <2>2, <2>4 DEF AskedFrom
  <2>5. CASE desired < 0 /\ ~FirstCovered
    BY <2>1, <2>2, <2>5 DEF AskedFrom
  <2>6. CASE desired >= 0
    BY <2>2, <2>3, <2>6 DEF AskedFrom
  <2>7. QED BY <2>4, <2>5, <2>6, SchedulesAssumption
<1>12. FirstAnchor(asks, s) \in Nat
  <2>1. PICK a \in Int : a = AskedFrom(asks, s, len, c)
    BY <1>11
  <2>2. QED BY <1>10, <2>1 DEF GreaterOf
<1>13. QED BY <1>0, <1>2, <1>6, <1>9, <1>12 DEF PlacesReports

\* The anchor of a report, and the indices it is to cover.
AnchorOf(asks, s, k) == FirstAnchor(asks, s) + k * StepOf(asks, s)
FirstFrom(asks, at, num) == GreaterOf(0, IF BackFrom(asks) THEN at - num + 1 ELSE at)
LastFrom(asks, s, at, num) ==
    LET last == IF BackFrom(asks) THEN at ELSE at + num - 1
    IN  IF Repeats(s) THEN last ELSE LesserOf(last, Len(s.base) - 1)

InRange(asks, s, k) ==
    /\ AnchorOf(asks, s, k) \in Nat
    /\ FirstOf(asks, s, k) = FirstFrom(asks, AnchorOf(asks, s, k), CoveredBy(asks, s))
    /\ LastOf(asks, s, k) = LastFrom(asks, s, AnchorOf(asks, s, k), CoveredBy(asks, s))
    /\ FirstOf(asks, s, k) \in Nat /\ FirstOf(asks, s, k) <= AnchorOf(asks, s, k)
    /\ LastOf(asks, s, k) \in Int

\* Which indices a report is to cover.
LEMMA ReportRange ==
  ASSUME NEW s, Sound(s), NEW asks, PlacesReports(asks, s), NEW k \in Nat
  PROVE  InRange(asks, s, k)
<1>1. PICK at \in Nat : at = AnchorOf(asks, s, k)
  BY DEF PlacesReports, AnchorOf
<1>2. PICK num \in Nat \ {0} : num = CoveredBy(asks, s)
  BY DEF PlacesReports
<1>3. PICK len \in Nat : len = Len(s.base)
  BY DEF Sound
<1>4. FirstOf(asks, s, k) = FirstFrom(asks, at, num)
  BY <1>1, <1>2, Zenon DEF FirstOf, RangeOf, AnchorOf, FirstFrom
<1>5. LastOf(asks, s, k) = LastFrom(asks, s, at, num)
  BY <1>1, <1>2, Zenon DEF LastOf, RangeOf, AnchorOf, LastFrom
<1>6. FirstFrom(asks, at, num) \in Nat /\ FirstFrom(asks, at, num) <= at
  BY DEF GreaterOf, FirstFrom
<1>7. LastFrom(asks, s, at, num) \in Int
  BY <1>3 DEF LesserOf, LastFrom
<1>8. QED BY <1>1, <1>2, <1>4, <1>5, <1>6, <1>7 DEF InRange

\* A later report is to cover later indices.
LEMMA LaterRange ==
  ASSUME NEW s, Sound(s), NEW asks, PlacesReports(asks, s), NEW j \in Nat, NEW k \in Nat, j <= k
  PROVE  /\ FirstOf(asks, s, j) \in Nat /\ FirstOf(asks, s, k) \in Nat
         /\ LastOf(asks, s, j) \in Int /\ LastOf(asks, s, k) \in Int
         /\ FirstOf(asks, s, j) <= FirstOf(asks, s, k)
         /\ LastOf(asks, s, j) <= LastOf(asks, s, k)
         /\ FirstOf(asks, s, k) <= LastOf(asks, s, k) => FirstOf(asks, s, j) <= LastOf(asks, s, j)
<1>1. PICK step \in Nat : step = StepOf(asks, s)
  BY DEF PlacesReports
<1>2. PICK num \in Nat \ {0} : num = CoveredBy(asks, s)
  BY DEF PlacesReports
<1>3. PICK b \in Nat : b = AnchorOf(asks, s, j)
  BY ReportRange DEF InRange
<1>4. PICK d \in Nat : d = AnchorOf(asks, s, k)
  BY ReportRange DEF InRange
<1>5. b <= d
  <2>1. PICK a \in Nat : a = FirstAnchor(asks, s)
    BY DEF PlacesReports
  <2>2. b = a + j * step /\ d = a + k * step
    BY <1>1, <1>3, <1>4, <2>1 DEF AnchorOf
  <2>3. CASE j < k
    <3>1. step * j \in Nat /\ step * k \in Nat /\ step * j + step <= step * k
      BY <2>3, NextMultiple
    <3>2. step * j = j * step /\ step * k = k * step
      OBVIOUS
    <3>3. QED BY <2>2, <3>1, <3>2
  <2>4. CASE j = k
    BY <2>2, <2>4
  <2>5. QED BY <2>3, <2>4
<1>6. /\ FirstOf(asks, s, j) = FirstFrom(asks, b, num) /\ FirstOf(asks, s, j) \in Nat
      /\ LastOf(asks, s, j) = LastFrom(asks, s, b, num) /\ LastOf(asks, s, j) \in Int
  BY <1>2, <1>3, ReportRange DEF InRange
<1>7. /\ FirstOf(asks, s, k) = FirstFrom(asks, d, num) /\ FirstOf(asks, s, k) \in Nat
      /\ LastOf(asks, s, k) = LastFrom(asks, s, d, num) /\ LastOf(asks, s, k) \in Int
  BY <1>2, <1>4, ReportRange DEF InRange
<1>8. FirstFrom(asks, b, num) <= FirstFrom(asks, d, num)
  BY <1>5 DEF GreaterOf, FirstFrom
<1>9. /\ LastFrom(asks, s, b, num) <= LastFrom(asks, s, d, num)
      /\ FirstFrom(asks, d, num) <= LastFrom(asks, s, d, num) =>
           FirstFrom(asks, b, num) <= LastFrom(asks, s, b, num)
  <2>1. PICK len \in Nat : len = Len(s.base)
    BY DEF Sound
  <2>2. QED BY <1>5, <2>1 DEF LesserOf, GreaterOf, FirstFrom, LastFrom
<1>10. QED BY <1>6, <1>7, <1>8, <1>9

\* A report is due no later than another, if that is due at all.
DueBefore(r, q) == \A f \in q.dueAt : \E e \in r.dueAt : e <= f

ReportedBefore(asks, s, k, q) ==
    \E r : ReportK(asks, s, k) = {r} /\ r.dueAt \in OptionOf(Nat) /\ DueBefore(r, q)

\* Before a report there is one for every earlier number, which is due no later.
LEMMA EarlierReport ==
  ASSUME NEW s, Sound(s), InTimeOrder(s), NEW asks, PlacesReports(asks, s),
         NEW j \in Nat, NEW k \in Nat, j <= k, NEW q \in ReportK(asks, s, k)
  PROVE  ReportedBefore(asks, s, j, q)
<1>1. PICK b \in Nat : b = FirstOf(asks, s, j)
  BY LaterRange
<1>2. PICK c \in Int : c = LastOf(asks, s, j)
  BY LaterRange
<1>3. PICK d \in Nat : d = FirstOf(asks, s, k)
  BY LaterRange
<1>4. PICK e \in Int : e = LastOf(asks, s, k)
  BY LaterRange
<1>5. b <= d /\ c <= e /\ (d <= e => b <= c)
  BY <1>1, <1>2, <1>3, <1>4, LaterRange
<1>6. Reports(asks, s, k, q)
  BY <1>3, <1>4, ReportIs
<1>7. PICK n, x, y : /\ Covers(s, d, e, n, x, y)
                     /\ q.dueAt = IF BackFrom(asks) THEN y.end ELSE {x.start}
  BY <1>3, <1>4, <1>6 DEF Reports
<1>8. /\ n \in Nat /\ d <= n /\ n <= e /\ Get(s, d) = {x} /\ Get(s, n) = {y}
      /\ \A m \in Nat : m > n /\ m <= e => Get(s, m) = {}
  BY <1>7 DEF Covers
<1>9. PICK u : Get(s, b) = {u} /\ NoLater(u, x)
  <2>1. Before(s, b, d, x)
    BY <1>5, <1>8, BeforeIt
  <2>2. QED BY ONLY <2>1 DEF Before
<1>10. b <= c
  BY <1>5, <1>8
<1>11. ReportK(asks, s, j) # {}
  <2>1. ~(c < b) /\ Get(s, b) # {}
    BY <1>9, <1>10
  <2>2. QED BY <1>1, <1>2, <2>1, ReportIs
<1>12. PICK r : r \in ReportK(asks, s, j)
  BY <1>11
<1>13. ReportK(asks, s, j) = {r} /\ Reports(asks, s, j, r)
  BY <1>1, <1>2, <1>12, ReportIs
<1>14. PICK m, v, w : /\ Covers(s, b, c, m, v, w)
                      /\ r.dueAt = IF BackFrom(asks) THEN w.end ELSE {v.start}
  BY <1>1, <1>2, <1>13 DEF Reports
<1>15. /\ m \in Nat /\ m <= c /\ Get(s, b) = {v} /\ Get(s, m) = {w}
       /\ Lasting(v) /\ Lasting(w)
  BY <1>14 DEF Covers
<1>16. r.dueAt \in OptionOf(Nat)
  <2>1. v.start \in Nat /\ w.end \in OptionOf(Nat)
    BY <1>15 DEF Lasting
  <2>2. {v.start} \in OptionOf(Nat)
    BY <2>1 DEF OptionOf
  <2>3. QED BY <1>14, <2>1, <2>2
<1>17. v = u
  BY ONLY <1>9, <1>15
<1>18. NoLater(w, y)
  <2>1. m <= n
    <3>1. m <= e /\ Get(s, m) # {}
      BY <1>5, <1>15
    <3>2. ~(m > n)
      BY <1>8, <1>15, <3>1
    <3>3. QED BY <1>8, <1>15, <3>2
  <2>2. Before(s, m, n, y)
    BY <1>8, <1>15, <2>1, BeforeIt
  <2>3. QED BY ONLY <1>15, <2>2 DEF Before
<1>19. DueBefore(r, q)
  BY ONLY <1>7, <1>9, <1>14, <1>17, <1>18 DEF DueBefore, NoLater
<1>20. QED BY <1>13, <1>16, <1>19 DEF ReportedBefore

\* What is in the first repetitions ends by the end of them.
LEMMA EndsWithin ==
  ASSUME NEW s, Sound(s), InTimeOrder(s), NEW p \in s.period, NEW o \in Nat,
         NEW m \in Nat, m < o * Len(s.base), NEW y \in Get(s, m)
  PROVE  \E f \in y.end : f <= s.start + p * o
<1>1. p \in Nat /\ s.start \in Nat
  BY DEF Sound, OptionOf
<1>2. s.base # <<>> /\ s.period # {}
  BY GetEnds
<1>3. PICK k, q, d : /\ PlacedAt(s, m, k, q, d)
                     /\ Get(s, m) = IF Gone(s, k, d) THEN {} ELSE {IntervalAt(s, k, q, d)}
  BY <1>2, GetFinds
<1>4. ~Gone(s, k, d) /\ y = IntervalAt(s, k, q, d)
  BY ONLY <1>3, y \in Get(s, m)
<1>5. /\ k \in DOMAIN s.base /\ q \in Nat /\ d \in Nat
      /\ d = p * q /\ m = Len(s.base) * q + (k - 1)
  BY <1>3 DEF PlacedAt, Sound
<1>6. PICK len \in Nat : len = Len(s.base)
  BY DEF Sound
<1>7. k \in Nat \ {0}
  BY <1>5 DEF Sound
<1>8. q < o
  <2>1. CASE o < q
    <3>1. len * o \in Nat /\ len * q \in Nat /\ len * o + len <= len * q
      BY <1>5, <2>1, NextMultiple
    <3>2. m < len * o /\ m = len * q + (k - 1)
      BY <1>5, <1>6
    <3>3. QED BY ONLY <1>6, <1>7, <3>1, <3>2
  <2>2. CASE o = q
    <3>1. m < len * q /\ m = len * q + (k - 1) /\ len * q \in Nat
      BY <1>5, <1>6, <2>2
    <3>2. QED BY ONLY <1>7, <3>1
  <2>3. QED BY <1>5, <2>1, <2>2
<1>9. d + p <= p * o
  BY <1>1, <1>5, <1>8, NextMultiple
<1>10. p * o \in Nat
  BY <1>1
<1>11. PICK e \in s.base[k].end : e <= s.start + p
  BY <1>5 DEF Sound
<1>12. e \in Nat
  BY <1>5, EndsAt
<1>13. e + d \in EndAt(s, k, d) /\ EndAt(s, k, d) \in OptionOf(Nat)
  BY <1>5, EndsAt
<1>14. y.end = CutOffAt(s, EndAt(s, k, d))
  BY <1>4, <1>5, IntervalAtIs
<1>15. PICK f \in y.end : f <= e + d
  BY <1>13, <1>14, CutOffIs
<1>16. f \in Nat
  <2>1. Lasting(y)
    BY <1>4, <1>5, FoundAt
  <2>2. QED BY <2>1 DEF Lasting, OptionOf
<1>17. f <= s.start + p * o
  <2>1. PICK c \in Nat : c = p * o
    BY <1>10
  <2>2. PICK b \in Nat : b = s.start
    BY <1>1
  <2>3. d \in Nat
    BY <1>5
  <2>4. d + p <= c /\ e <= b + p /\ f <= e + d
    BY <1>9, <1>11, <1>15, <2>1, <2>2
  <2>5. f <= b + c
    BY ONLY <1>1, <1>12, <1>16, <2>1, <2>2, <2>3, <2>4
  <2>6. QED BY <2>1, <2>2, <2>5
<1>18. QED BY <1>17

\* What comes after so many repetitions begins as many instants later at least.
LEMMA BeginsAfter ==
  ASSUME NEW s, Sound(s), InTimeOrder(s), s.period # {}, NEW o \in Nat,
         NEW m \in Nat, m >= o * Len(s.base), NEW y \in Get(s, m)
  PROVE  y.start \in Nat /\ y.start >= o /\ \A f \in y.end : f \in Nat /\ f >= o
<1>1. PICK p \in s.period : TRUE
  OBVIOUS
<1>2. p \in Nat \ {0}
  BY <1>1, TheOnlyElement DEF Sound
<1>3. s.base # <<>>
  BY GetEnds
<1>4. PICK k, q, d : /\ PlacedAt(s, m, k, q, d)
                     /\ Get(s, m) = IF Gone(s, k, d) THEN {} ELSE {IntervalAt(s, k, q, d)}
  BY <1>3, GetFinds
<1>5. ~Gone(s, k, d) /\ y = IntervalAt(s, k, q, d)
  BY ONLY <1>4, y \in Get(s, m)
<1>6. /\ k \in DOMAIN s.base /\ k \in 1 .. Len(s.base) /\ q \in Nat /\ d \in Nat
      /\ d = p * q /\ m = Len(s.base) * q + (k - 1)
  BY <1>4 DEF PlacedAt, Sound
<1>7. PICK len \in Nat : len = Len(s.base)
  BY DEF Sound
<1>8. o <= q
  <2>1. CASE q < o
    <3>1. len * q \in Nat /\ len * o \in Nat /\ len * q + len <= len * o
      BY <1>6, <2>1, NextMultiple
    <3>2. m >= len * o /\ m = len * q + (k - 1) /\ k \in 1 .. len
      BY <1>6, <1>7
    <3>3. QED BY ONLY <1>7, <3>1, <3>2
  <2>2. QED BY <1>6, <2>1
<1>9. q <= d
  <2>1. CASE q = 0
    BY <1>6, <2>1
  <2>2. CASE q > 0
    <3>1. q * p >= q
      BY <1>2, <1>6
    <3>2. QED BY <1>2, <1>6, <3>1
  <2>3. QED BY <1>6, <2>1, <2>2
<1>10. y.start = s.base[k].start + d /\ s.base[k].start \in Nat
  BY <1>5, <1>6, IntervalAtIs, EndsAt
<1>11. y.start \in Nat /\ y.start >= o
  BY <1>6, <1>8, <1>9, <1>10
<1>12. Lasting(y)
  BY <1>5, <1>6, FoundAt
<1>13. \A f \in y.end : f \in Nat /\ y.start <= f
  BY <1>12 DEF Lasting, OptionOf
<1>14. QED BY <1>11, <1>13

\* A number below a quotient rounded up, multiplied by the divisor, is below the dividend.
LEMMA BelowQuotient ==
  ASSUME NEW w \in Nat \ {0}, NEW a \in Nat, NEW k \in Nat, k < (a + w - 1) \div w
  PROVE  k * w < a
<1>1. PICK q \in Nat : q = (a + w - 1) \div w
  OBVIOUS
<1>2. w * q <= a + w - 1
  BY <1>1
<1>3. w * k \in Nat /\ w * q \in Nat /\ w * k + w <= w * q
  BY <1>1, NextMultiple
<1>4. k * w = w * k
  OBVIOUS
<1>5. QED BY <1>2, <1>3, <1>4

\* Where the walk begins.
StartOf(asks, s, from) == FirstReaching(s, FirstAnchor(asks, s), StepOf(asks, s), from)

DueSooner(q, from) == q.dueAt # {} /\ \A t \in q.dueAt : t < from

\* The reports before the one the walk begins with are due before the window.
LEMMA EarlyReports ==
  ASSUME NEW s, Sound(s), InTimeOrder(s), NEW asks, PlacesReports(asks, s), NEW from \in Int,
         NEW k \in Nat, k < StartOf(asks, s, from), NEW q \in ReportK(asks, s, k)
  PROVE  DueSooner(q, from)
<1>1. PICK a \in Nat : a = FirstAnchor(asks, s)
  BY DEF PlacesReports
<1>2. PICK w \in Nat \ {0} : w = StepOf(asks, s)
  BY DEF PlacesReports
<1>3. PICK len \in Nat : len = Len(s.base)
  BY DEF Sound
<1>4. PICK p : p = TheElement(s.period)
  OBVIOUS
<1>5. PICK o : o = GreaterOf(0, (from - s.start) \div p - 1)
  OBVIOUS
<1>6. StartOf(asks, s, from)
         = IF ~Repeats(s) \/ from - s.start <= 0 \/ o * len - a <= 0 THEN 0
           ELSE (o * len - a + w - 1) \div w
  BY <1>1, <1>2, <1>3, <1>4, <1>5, Zenon DEF StartOf, FirstReaching
<1>7. /\ Repeats(s) /\ ~(from - s.start <= 0) /\ ~(o * len - a <= 0)
      /\ k < (o * len - a + w - 1) \div w
  <2>1. ~(k < 0)
    OBVIOUS
  <2>2. QED BY <1>6, <2>1, k < StartOf(asks, s, from), Zenon
<1>8. p \in s.period /\ p \in Nat \ {0}
  BY <1>4, <1>7, TheOnlyElement DEF Sound, Repeats
<1>9. s.start \in Nat
  BY DEF Sound
<1>10. PICK delta \in Nat : delta = from - s.start
  BY <1>7, <1>9
<1>11. o \in Nat /\ (o # 0 => p * o + p <= delta)
  <2>1. /\ delta \div p \in Nat /\ delta % p \in 0 .. p - 1
        /\ delta = (p * (delta \div p)) + (delta % p)
    BY <1>8, DivMod
  <2>2. PICK d \in Nat : d = delta \div p
    BY <2>1
  <2>3. o = GreaterOf(0, d - 1)
    BY <1>5, <1>10, <2>2
  <2>4. CASE o = 0
    BY <2>4
  <2>5. CASE o # 0
    <3>1. o = d - 1 /\ o \in Nat
      BY <2>2, <2>3, <2>5 DEF GreaterOf
    <3>2. p * o + p = p * d
      BY <1>8, <2>2, <3>1
    <3>3. p * d <= delta
      <4>1. p * d \in Nat /\ delta % p \in Nat
        BY <1>8, <2>1, <2>2
      <4>2. delta = p * d + (delta % p)
        BY <2>1, <2>2
      <4>3. QED BY <4>1, <4>2
    <3>4. QED BY <3>1, <3>2, <3>3
  <2>6. QED BY <2>4, <2>5
<1>12. o # 0 /\ a + k * w < o * len
  <2>1. PICK ol \in Nat : ol = o * len
    BY <1>3, <1>11
  <2>2. PICK ahead \in Nat : ahead = ol - a
    BY <1>1, <1>7, <2>1
  <2>3. k < (ahead + w - 1) \div w
    BY <1>7, <2>1, <2>2
  <2>4. k * w < ahead /\ k * w \in Nat
    BY <1>2, <2>3, BelowQuotient
  <2>5. o # 0
    <3>1. ASSUME o = 0 PROVE FALSE
      <4>1. o * len = 0
        BY <1>3, <3>1
      <4>2. QED BY <1>1, <1>7, <4>1
    <3>2. QED BY <3>1
  <2>6. QED BY <1>1, <2>1, <2>2, <2>4, <2>5
<1>13. AnchorOf(asks, s, k) < o * len
  BY <1>1, <1>2, <1>12 DEF AnchorOf
<1>14. PICK at \in Nat : at = AnchorOf(asks, s, k)
  BY ReportRange DEF InRange
<1>15. PICK num \in Nat \ {0} : num = CoveredBy(asks, s)
  BY DEF PlacesReports
<1>16. PICK first \in Nat : first = FirstOf(asks, s, k)
  BY ReportRange DEF InRange
<1>17. PICK last \in Int : last = LastOf(asks, s, k)
  BY ReportRange DEF InRange
<1>18. first <= at /\ (BackFrom(asks) => last = at)
  <2>1. first <= at /\ last = LastFrom(asks, s, at, num)
    BY <1>14, <1>15, <1>16, <1>17, ReportRange DEF InRange
  <2>2. QED BY <1>7, <2>1 DEF LastFrom
<1>19. Reports(asks, s, k, q)
  BY <1>16, <1>17, ReportIs
<1>20. PICK n, x, y : /\ Covers(s, first, last, n, x, y)
                      /\ q.dueAt = IF BackFrom(asks) THEN y.end ELSE {x.start}
  BY <1>16, <1>17, <1>19 DEF Reports
<1>21. /\ n \in Nat /\ n <= last /\ x \in Get(s, first) /\ y \in Get(s, n)
       /\ Lasting(x) /\ Lasting(y)
  BY <1>20 DEF Covers
<1>22. \A i : Lasting(i) =>
         i.start \in Nat /\ i.end \subseteq Nat /\ (\A e, f \in i.end : e = f)
           /\ \A e \in i.end : i.start <= e
  BY DEF Lasting, OptionOf
<1>23. ASSUME NEW m \in Nat, m <= at, NEW i \in Get(s, m), Lasting(i)
       PROVE  i.end # {} /\ (\A f \in i.end : f < from) /\ i.start < from
  <2>1. m < o * Len(s.base)
    <3>1. o * len \in Nat
      BY <1>3, <1>11
    <3>2. QED BY <1>3, <1>13, <1>14, <1>23, <3>1
  <2>2. PICK f \in i.end : f <= s.start + p * o
    BY <1>8, <1>11, <1>23, <2>1, EndsWithin
  <2>3. s.start + p * o < from
    <3>1. PICK c \in Nat : c = p * o
      BY <1>8, <1>11
    <3>2. c + p <= delta
      BY <1>11, <1>12, <3>1
    <3>3. QED BY <1>8, <1>9, <1>10, <3>1, <3>2
  <2>4. f \in Nat /\ i.start \in Nat /\ i.start <= f /\ \A e \in i.end : e = f
    BY <1>22, <1>23
  <2>5. p * o \in Nat
    BY <1>8, <1>11
  <2>6. f < from
    BY <1>9, <2>2, <2>3, <2>4, <2>5
  <2>7. QED BY <2>4, <2>6
<1>24. CASE BackFrom(asks)
  <2>1. n <= at
    BY <1>18, <1>21, <1>24
  <2>2. y.end # {} /\ \A f \in y.end : f < from
    BY <1>21, <1>23, <2>1
  <2>3. QED BY ONLY <1>20, <1>24, <2>2 DEF DueSooner
<1>25. CASE ~BackFrom(asks)
  <2>1. x.start < from
    BY <1>18, <1>21, <1>23
  <2>2. QED BY ONLY <1>20, <1>25, <2>1 DEF DueSooner
<1>26. QED BY <1>24, <1>25

\* A report that is due, is due after the window.
DueLater(q, to) == \A t \in q.dueAt : t > to

\* The reports after the last the walk looks at are due after the window.
LEMMA LateReports ==
  ASSUME NEW s, Sound(s), InTimeOrder(s), NEW asks, PlacesReports(asks, s), NEW to \in Nat,
         s.base # <<>>, NEW k \in Nat, k >= MaxCovered + (to + 2) * Len(s.base),
         NEW q \in ReportK(asks, s, k)
  PROVE  DueLater(q, to)
<1>1. PICK len \in Nat \ {0} : len = Len(s.base)
  BY EmptySeq DEF Sound
<1>2. PICK num \in Nat \ {0} : num = CoveredBy(asks, s)
  BY DEF PlacesReports
<1>3. PICK at \in Nat : at = AnchorOf(asks, s, k)
  BY ReportRange DEF InRange
<1>4. at >= k
  <2>1. PICK a \in Nat : a = FirstAnchor(asks, s)
    BY DEF PlacesReports
  <2>2. PICK w \in Nat \ {0} : w = StepOf(asks, s)
    BY DEF PlacesReports
  <2>3. k * w \in Nat /\ k * w >= k
    OBVIOUS
  <2>4. at = a + k * w
    BY <1>3, <2>1, <2>2 DEF AnchorOf
  <2>5. QED BY <2>3, <2>4
<1>5. PICK first \in Nat : first = FirstOf(asks, s, k)
  BY ReportRange DEF InRange
<1>6. PICK last \in Int : last = LastOf(asks, s, k)
  BY ReportRange DEF InRange
<1>7. first >= k - num + 1
  <2>1. first = FirstFrom(asks, at, num)
    BY <1>2, <1>3, <1>5, ReportRange DEF InRange
  <2>2. QED BY <1>4, <2>1 DEF FirstFrom, GreaterOf
<1>8. num <= IF Repeats(s) THEN MaxCovered ELSE len
  BY <1>1, <1>2 DEF PlacesReports
<1>9. PICK c \in Nat : /\ c = (to + 1) * len /\ (to + 2) * Len(s.base) = c + len
                       /\ c >= len
  <2>1. (to + 2) * len = (to + 1) * len + len /\ (to + 1) * len \in Nat /\ (to + 1) * len >= len
    OBVIOUS
  <2>2. QED BY <1>1, <2>1
<1>10. first >= c + 1 \/ (~Repeats(s) /\ first >= len)
  <2>1. MaxCovered \in Nat
    BY SchedulesAssumption
  <2>2. k >= MaxCovered + (c + len)
    BY <1>9
  <2>3. QED BY <1>7, <1>8, <1>9, <2>1, <2>2
<1>11. Reports(asks, s, k, q)
  BY <1>5, <1>6, ReportIs
<1>12. PICK n, x, y : /\ Covers(s, first, last, n, x, y)
                      /\ q.dueAt = IF BackFrom(asks) THEN y.end ELSE {x.start}
  BY <1>5, <1>6, <1>11 DEF Reports
<1>13. n \in Nat /\ first <= n /\ x \in Get(s, first) /\ y \in Get(s, n)
  BY <1>12 DEF Covers
<1>14. s.period # {} /\ first >= c
  <2>1. ~(~Repeats(s) /\ first >= len)
    BY <1>1, <1>13, GetEnds DEF Repeats
  <2>2. Repeats(s) /\ first >= c + 1
    BY <1>9, <1>10, <2>1
  <2>3. QED BY <2>2 DEF Repeats
<1>15. PICK o \in Nat : o = to + 1
  OBVIOUS
<1>16. c = o * Len(s.base)
  BY <1>1, <1>9, <1>15
<1>17. x.start \in Nat /\ x.start >= o
  BY <1>13, <1>14, <1>16, BeginsAfter
<1>18. \A f \in y.end : f \in Nat /\ f >= o
  <2>1. n >= o * Len(s.base)
    <3>1. n >= c
      BY <1>13, <1>14
    <3>2. QED BY <1>16, <3>1
  <2>2. QED BY <1>13, <1>14, <2>1, BeginsAfter
<1>19. \A t \in q.dueAt : t \in Nat /\ t >= o
  BY ONLY <1>12, <1>17, <1>18
<1>20. QED BY <1>15, <1>19 DEF DueLater

\* One element more.
LEMMA AppendAdds ==
  ASSUME NEW S, NEW a \in Seq(S), NEW x \in S
  PROVE  /\ Append(a, x) \in Seq(S) /\ ToSet(Append(a, x)) = ToSet(a) \cup {x}
<1>1. PICK b : b = Append(a, x) /\ b \in Seq(S)
  <2>1. Append(a, x) \in Seq(S)
    OBVIOUS
  <2>2. QED BY <2>1
<1>2. /\ DOMAIN b = 1 .. Len(a) + 1 /\ DOMAIN a = 1 .. Len(a) /\ Len(a) \in Nat
      /\ b[Len(a) + 1] = x /\ \A i \in 1 .. Len(a) : b[i] = a[i]
  BY <1>1
<1>3. ToSet(b) = ToSet(a) \cup {x}
  <2>1. ASSUME NEW y \in ToSet(b) PROVE y \in ToSet(a) \cup {x}
    <3>1. PICK i \in DOMAIN b : y = b[i]
      BY DEF ToSet
    <3>2. CASE i = Len(a) + 1
      BY <1>2, <3>1, <3>2
    <3>3. CASE i # Len(a) + 1
      <4>1. i \in DOMAIN a /\ y = a[i]
        BY <1>2, <3>1, <3>3
      <4>2. QED BY <4>1 DEF ToSet
    <3>4. QED BY <3>2, <3>3
  <2>2. ASSUME NEW y \in ToSet(a) \cup {x} PROVE y \in ToSet(b)
    <3>1. CASE y = x
      <4>1. Len(a) + 1 \in DOMAIN b
        BY <1>2
      <4>2. QED BY <1>2, <3>1, <4>1 DEF ToSet
    <3>2. CASE y \in ToSet(a)
      <4>1. PICK i \in DOMAIN a : y = a[i]
        BY <3>2 DEF ToSet
      <4>2. i \in DOMAIN b /\ y = b[i]
        BY <1>2, <4>1
      <4>3. QED BY <4>2 DEF ToSet
    <3>3. QED BY <2>2, <3>1, <3>2
  <2>3. QED BY <2>1, <2>2
<1>4. QED BY <1>1, <1>3

\* The reports of a range of numbers that are not due before a window.
FoundUpTo(asks, s, from, lo, hi) ==
    UNION {{r \in ReportK(asks, s, k) : \A t \in r.dueAt : t >= from} : k \in lo .. hi}

AllReports(asks, s) == UNION {ReportK(asks, s, k) : k \in Nat}
WalkStates(asks, s) == [due : Seq(AllReports(asks, s)), over : BOOLEAN]

\* What the walk has when it has looked at j reports, in at least as many steps.
Walked(w, asks, s, from, to, start, j, n) ==
    /\ j \in 0 .. n
    /\ ToSet(w.due) = FoundUpTo(asks, s, from, start, start + j - 1)
    /\ \A k \in start .. start + j - 1 : ~EndsWalk(asks, s, to, k)
    /\ IF w.over THEN Len(w.due) = MaxReports \/ EndsWalk(asks, s, to, start + j) ELSE j = n

\* The report, if it is not due before a window.
InWindow(r, from) == {x \in {r} : \A t \in x.dueAt : t >= from}

Adds(v, w, asks, s, from, k) ==
    \E r : ReportK(asks, s, k) = {r} /\ ToSet(v.due) = ToSet(w.due) \cup InWindow(r, from)

\* One report more.
LEMMA FoundNext ==
  ASSUME NEW asks, NEW s, NEW from, NEW start \in Nat, NEW j \in Nat, NEW r,
         ReportK(asks, s, start + j) = {r}
  PROVE  FoundUpTo(asks, s, from, start, start + j)
           = FoundUpTo(asks, s, from, start, start + j - 1)
               \cup InWindow(r, from)
<1> DEFINE F(k) == {x \in ReportK(asks, s, k) : \A t \in x.dueAt : t >= from}
<1>1. start .. start + j = (start .. start + j - 1) \cup {start + j}
  OBVIOUS
<1>2. /\ FoundUpTo(asks, s, from, start, start + j) = UNION {F(k) : k \in start .. start + j}
      /\ FoundUpTo(asks, s, from, start, start + j - 1)
           = UNION {F(k) : k \in start .. start + j - 1}
  BY DEF FoundUpTo
<1>3. F(start + j) = InWindow(r, from)
  BY DEF InWindow
<1> HIDE DEF F
<1>4. UNION {F(k) : k \in start .. start + j}
        = (UNION {F(k) : k \in start .. start + j - 1}) \cup F(start + j)
  BY <1>1
<1>5. QED BY <1>2, <1>3, <1>4

\* A step of the walk.
LEMMA WalkNext ==
  ASSUME NEW s, Sound(s), InTimeOrder(s), NEW asks, PlacesReports(asks, s),
         NEW from \in Int, NEW to \in Nat, NEW k \in Nat, NEW w \in WalkStates(asks, s),
         NEW v, v = WalkedTo(w, asks, s, from, to, k)
  PROVE  /\ v \in WalkStates(asks, s)
         /\ w.over \/ Len(w.due) = MaxReports \/ EndsWalk(asks, s, to, k) =>
              v.over /\ v.due = w.due
         /\ ~(w.over \/ Len(w.due) = MaxReports \/ EndsWalk(asks, s, to, k)) =>
              ~v.over /\ Adds(v, w, asks, s, from, k)
<1>1. PICK all : all = AllReports(asks, s)
  OBVIOUS
<1>2. WalkStates(asks, s) = [due : Seq(all), over : BOOLEAN]
  BY <1>1 DEF WalkStates
<1>3. w = [due |-> w.due, over |-> w.over] /\ w.due \in Seq(all) /\ w.over \in BOOLEAN
  BY ONLY <1>2, w \in WalkStates(asks, s)
<1>4. PICK r : r = TheElement(ReportK(asks, s, k))
  OBVIOUS
<1>5. v = IF w.over \/ Len(w.due) = MaxReports \/ EndsWalk(asks, s, to, k)
          THEN [w EXCEPT !.over = TRUE]
          ELSE [w EXCEPT !.due = IF \A t \in r.dueAt : t >= from THEN Append(w.due, r) ELSE w.due]
  BY <1>4, Zenon DEF WalkedTo
<1>6. CASE w.over \/ Len(w.due) = MaxReports \/ EndsWalk(asks, s, to, k)
  <2>1. v = [due |-> w.due, over |-> TRUE]
    BY ONLY <1>3, <1>5, <1>6
  <2>2. v.due = w.due /\ v.over /\ v \in [due : Seq(all), over : BOOLEAN]
    BY ONLY <1>3, <2>1
  <2>3. QED BY <1>2, <1>6, <2>2
<1>7. CASE ~(w.over \/ Len(w.due) = MaxReports \/ EndsWalk(asks, s, to, k))
  <2>1. ReportK(asks, s, k) # {}
    BY <1>7 DEF EndsWalk
  <2>2. PICK q : q \in ReportK(asks, s, k)
    BY <2>1
  <2>3. FirstOf(asks, s, k) \in Nat /\ LastOf(asks, s, k) \in Int
    BY ReportRange DEF InRange
  <2>4. ReportK(asks, s, k) = {q}
    BY <2>2, <2>3, ReportIs
  <2>5. r = q
    BY ONLY <1>4, <2>4 DEF TheElement
  <2>6. r \in all
    BY <1>1, <2>2, <2>5 DEF AllReports
  <2>7. PICK list : list = IF \A t \in r.dueAt : t >= from THEN Append(w.due, r) ELSE w.due
    OBVIOUS
  <2>8. v = [due |-> list, over |-> FALSE]
    BY ONLY <1>3, <1>5, <1>7, <2>7
  <2>9. Append(w.due, r) \in Seq(all) /\ ToSet(Append(w.due, r)) = ToSet(w.due) \cup {r}
    BY <1>3, <2>6, AppendAdds
  <2>10. list \in Seq(all)
    BY ONLY <1>3, <2>7, <2>9
  <2>11. ToSet(list) = ToSet(w.due) \cup InWindow(r, from)
    <3>1. CASE \A t \in r.dueAt : t >= from
      <4>1. InWindow(r, from) = {r}
        BY ONLY <3>1 DEF InWindow
      <4>2. QED BY ONLY <2>7, <2>9, <3>1, <4>1
    <3>2. CASE ~\A t \in r.dueAt : t >= from
      <4>1. InWindow(r, from) = {}
        BY ONLY <3>2 DEF InWindow
      <4>2. QED BY ONLY <2>7, <3>2, <4>1
    <3>3. QED BY <3>1, <3>2
  <2>12. ~v.over /\ v.due = list /\ v \in [due : Seq(all), over : BOOLEAN]
    BY ONLY <2>8, <2>10
  <2>13. Adds(v, w, asks, s, from, k)
    BY ONLY <2>4, <2>5, <2>11, <2>12 DEF Adds
  <2>14. QED BY <1>2, <1>7, <2>12, <2>13
<1>8. QED BY <1>6, <1>7

StepsOfWalk(s, to) == MaxReports + MaxCovered + (to + 2) * Len(s.base)

\* What has been walked stays within what there is to walk.
WalkedTill(w, asks, s, from, to, start, n) ==
    w \in WalkStates(asks, s) /\ \E j \in Nat : Walked(w, asks, s, from, to, start, j, n)

\* A step of the walk keeps it to the reports it looked at.
LEMMA WalkKeeps ==
  ASSUME NEW s, Sound(s), InTimeOrder(s), NEW asks, PlacesReports(asks, s),
         NEW from \in Int, NEW to \in Nat, NEW start \in Nat, NEW n \in Nat \ {0},
         NEW w, WalkedTill(w, asks, s, from, to, start, n - 1),
         NEW v, v = WalkedTo(w, asks, s, from, to, start + n - 1)
  PROVE  WalkedTill(v, asks, s, from, to, start, n)
<1>1. PICK k \in Nat : k = start + n - 1
  OBVIOUS
<1>2. w \in WalkStates(asks, s)
  BY DEF WalkedTill
<1>3. PICK j \in Nat : Walked(w, asks, s, from, to, start, j, n - 1)
  BY DEF WalkedTill
<1>4. /\ j \in 0 .. n - 1
      /\ ToSet(w.due) = FoundUpTo(asks, s, from, start, start + j - 1)
      /\ \A i \in start .. start + j - 1 : ~EndsWalk(asks, s, to, i)
      /\ IF w.over THEN Len(w.due) = MaxReports \/ EndsWalk(asks, s, to, start + j) ELSE j = n - 1
  BY <1>3 DEF Walked
<1>5. /\ v \in WalkStates(asks, s)
      /\ w.over \/ Len(w.due) = MaxReports \/ EndsWalk(asks, s, to, k) => v.over /\ v.due = w.due
  BY <1>1, <1>2, WalkNext
<1>6. CASE w.over \/ Len(w.due) = MaxReports \/ EndsWalk(asks, s, to, k)
  <2>1. v.over /\ v.due = w.due
    BY <1>5, <1>6
  <2>2. Len(w.due) = MaxReports \/ EndsWalk(asks, s, to, start + j)
    <3>1. CASE w.over
      BY <1>4, <3>1
    <3>2. CASE ~w.over
      <4>1. start + j = k
        BY <1>1, <1>4, <3>2
      <4>2. QED BY <1>6, <3>2, <4>1
    <3>3. QED BY <3>1, <3>2
  <2>3. j \in 0 .. n
    BY <1>4
  <2>4. Walked(v, asks, s, from, to, start, j, n)
    BY ONLY <1>4, <2>1, <2>2, <2>3 DEF Walked
  <2>5. QED BY <1>5, <2>4 DEF WalkedTill
<1>7. CASE ~(w.over \/ Len(w.due) = MaxReports \/ EndsWalk(asks, s, to, k))
  <2>1. j = n - 1 /\ k = start + j
    BY <1>1, <1>4, <1>7
  <2>2. ~v.over /\ Adds(v, w, asks, s, from, k)
    BY <1>1, <1>2, <1>7, WalkNext
  <2>3. ToSet(v.due) = FoundUpTo(asks, s, from, start, start + j)
    <3>1. PICK r : /\ ReportK(asks, s, start + j) = {r}
                   /\ ToSet(v.due) = ToSet(w.due) \cup InWindow(r, from)
      BY ONLY <2>1, <2>2 DEF Adds
    <3>2. FoundUpTo(asks, s, from, start, start + j)
            = FoundUpTo(asks, s, from, start, start + j - 1) \cup InWindow(r, from)
      BY <3>1, FoundNext
    <3>3. QED BY ONLY <1>4, <3>1, <3>2
  <2>4. start + (j + 1) - 1 = start + j /\ j + 1 \in Nat /\ j + 1 = n /\ j + 1 \in 0 .. n
    BY <2>1
  <2>5. \A i \in start .. start + j : ~EndsWalk(asks, s, to, i)
    <3>1. \A i \in start .. start + j : i \in start .. start + j - 1 \/ i = k
      BY <2>1
    <3>2. QED BY <1>4, <1>7, <3>1
  <2>6. Walked(v, asks, s, from, to, start, j + 1, n)
    BY ONLY <2>2, <2>3, <2>4, <2>5 DEF Walked
  <2>7. QED BY <1>5, <2>4, <2>6 DEF WalkedTill
<1>8. QED BY <1>6, <1>7

WalkedOver(asks, s, from, to, list) ==
    \E w : WalkedTill(w, asks, s, from, to, StartOf(asks, s, from), StepsOfWalk(s, to))
             /\ w.due = list

\* Where the walk begins is a number of a report.
LEMMA WalkBegins ==
  ASSUME NEW s, Sound(s), NEW asks, PlacesReports(asks, s), NEW from \in Int
  PROVE  StartOf(asks, s, from) \in Nat
<1>1. PICK a \in Nat : a = FirstAnchor(asks, s)
  BY DEF PlacesReports
<1>2. PICK w \in Nat \ {0} : w = StepOf(asks, s)
  BY DEF PlacesReports
<1>3. PICK len \in Nat : len = Len(s.base)
  BY DEF Sound
<1>4. PICK p : p = TheElement(s.period)
  OBVIOUS
<1>5. PICK o : o = GreaterOf(0, (from - s.start) \div p - 1)
  OBVIOUS
<1>6. StartOf(asks, s, from)
         = IF ~Repeats(s) \/ from - s.start <= 0 \/ o * len - a <= 0 THEN 0
           ELSE (o * len - a + w - 1) \div w
  BY <1>1, <1>2, <1>3, <1>4, <1>5, Zenon DEF StartOf, FirstReaching
<1>7. CASE ~Repeats(s) \/ from - s.start <= 0 \/ o * len - a <= 0
  BY <1>6, <1>7
<1>8. CASE ~(~Repeats(s) \/ from - s.start <= 0 \/ o * len - a <= 0)
  <2>1. p \in Nat \ {0}
    BY <1>4, <1>8, TheOnlyElement DEF Sound, Repeats
  <2>2. s.start \in Nat
    BY DEF Sound
  <2>3. o \in Nat
    <3>1. PICK delta \in Nat : delta = from - s.start
      BY <1>8, <2>2
    <3>2. delta \div p \in Nat
      BY <2>1, <3>1
    <3>3. PICK d \in Nat : d = delta \div p
      BY <3>2
    <3>4. QED BY <1>5, <3>1, <3>3 DEF GreaterOf
  <2>4. PICK ol \in Nat : ol = o * len
    BY <1>3, <2>3
  <2>5. ol - a + w - 1 \in Nat
    BY <1>8, <2>4
  <2>6. (ol - a + w - 1) \div w \in Nat
    BY <2>5
  <2>7. QED BY <1>6, <1>8, <2>4, <2>6
<1>9. QED BY <1>7, <1>8

\* The walk looks at the reports one by one.
LEMMA WalkIs ==
  ASSUME NEW s, Sound(s), InTimeOrder(s), NEW asks, PlacesReports(asks, s),
         NEW from \in Int, NEW to \in Nat
  PROVE  WalkedOver(asks, s, from, to, Walk(asks, s, from, to))
<1>1. PICK start \in Nat : start = StartOf(asks, s, from)
  BY WalkBegins
<1>2. PICK n \in Nat : n = StepsOfWalk(s, to)
  <2>1. PICK len \in Nat : len = Len(s.base)
    BY DEF Sound
  <2>2. PICK c \in Nat : c = (to + 2) * len
    OBVIOUS
  <2>3. StepsOfWalk(s, to) = MaxReports + MaxCovered + c
    BY <2>1, <2>2 DEF StepsOfWalk
  <2>4. QED BY <2>3, SchedulesAssumption
<1>3. PICK none : none = [due |-> <<>>, over |-> FALSE]
  OBVIOUS
<1> DEFINE S == WalkStates(asks, s)
           OneOn(x, i) == WalkedTo(x, asks, s, from, to, start + i - 1)
           Eq(f) == f = [i \in 0 .. n |-> IF i = 0 THEN none ELSE OneOn(f[i - 1], i)]
           walk == CHOOSE f : Eq(f)
<1>4. Walk(asks, s, from, to) = walk[n].due
  BY <1>1, <1>2, <1>3, Zenon DEF Walk, StartOf, StepsOfWalk
<1>5. none \in S
  <2>1. PICK empty : empty = <<>>
    OBVIOUS
  <2>2. empty \in Seq(AllReports(asks, s))
    BY <2>1
  <2>3. none = [due |-> empty, over |-> FALSE]
    BY <1>3, <2>1
  <2>4. QED BY ONLY <2>2, <2>3 DEF WalkStates
<1>6. \A i \in 1 .. n, x \in S : OneOn(x, i) \in S
  <2>1. ASSUME NEW i \in 1 .. n, NEW x \in S PROVE OneOn(x, i) \in S
    <3>1. PICK k \in Nat : k = start + i - 1
      OBVIOUS
    <3>2. WalkedTo(x, asks, s, from, to, k) \in WalkStates(asks, s)
      BY WalkNext
    <3>3. QED BY <3>1, <3>2
  <2>2. QED BY <2>1
<1> HIDE DEF S, OneOn
<1>7. PICK f : f \in [0 .. n -> S] /\ f[0] = none /\ \A i \in 1 .. n : f[i] = OneOn(f[i - 1], i)
  <2>1. PICK step : step = [i \in 1 .. n |-> [x \in S |-> OneOn(x, i)]]
    OBVIOUS
  <2>2. step \in [1 .. n -> [S -> S]]
    BY <1>6, <2>1
  <2>3. PICK f : f \in [0 .. n -> S] /\ f[0] = none /\ \A i \in 1 .. n : f[i] = step[i][f[i - 1]]
    <3>1. \E f : Steps(f, n, S, none, step)
      BY <1>5, <2>2, StepByStep
    <3>2. QED BY <3>1 DEF Steps, Follows
  <2>4. ASSUME NEW i \in 1 .. n PROVE f[i] = OneOn(f[i - 1], i)
    <3>1. i - 1 \in 0 .. n
      OBVIOUS
    <3>2. f[i - 1] \in S
      BY <2>3, <3>1
    <3>3. QED BY <2>1, <2>3, <3>2
  <2>5. QED BY <2>3, <2>4
<1>8. Eq(walk)
  <2>1. ASSUME NEW i \in 0 .. n PROVE f[i] = IF i = 0 THEN none ELSE OneOn(f[i - 1], i)
    <3>1. CASE i = 0
      BY <1>7, <3>1
    <3>2. CASE i # 0
      <4>1. i \in 1 .. n
        BY <3>2
      <4>2. QED BY <1>7, <3>2, <4>1
    <3>3. QED BY <3>1, <3>2
  <2>2. Eq(f)
    BY <1>7, <2>1
  <2> HIDE DEF Eq
  <2>3. QED BY <2>2
<1>9. walk[0] = none /\ \A i \in 1 .. n : walk[i] = OneOn(walk[i - 1], i)
  <2>1. 0 \in 0 .. n /\ \A i \in 1 .. n : i \in 0 .. n /\ i # 0
    OBVIOUS
  <2> HIDE DEF walk
  <2>2. QED BY <1>8, <2>1
<1> HIDE DEF walk, Eq
<1> DEFINE T == {i \in 0 .. n : WalkedTill(walk[i], asks, s, from, to, start, i)}
<1>10. 0 \in T
  <2>1. none.due = <<>> /\ ~none.over
    BY <1>3
  <2>2. ToSet(none.due) = {}
    BY <2>1 DEF ToSet
  <2>3. start .. start + 0 - 1 = {}
    OBVIOUS
  <2>4. FoundUpTo(asks, s, from, start, start + 0 - 1) = {}
    BY <2>3 DEF FoundUpTo
  <2>5. 0 \in Nat /\ 0 \in 0 .. 0
    OBVIOUS
  <2>6. Walked(none, asks, s, from, to, start, 0, 0)
    BY ONLY <2>1, <2>2, <2>3, <2>4, <2>5 DEF Walked
  <2>7. WalkedTill(walk[0], asks, s, from, to, start, 0)
    BY <1>5, <1>9, <2>6 DEF WalkedTill, S
  <2>8. QED BY <2>7
<1>11. ASSUME NEW i \in 1 .. n, i - 1 \in T PROVE i \in T
  <2>1. i \in Nat \ {0} /\ i \in 0 .. n
    OBVIOUS
  <2>2. walk[i] = WalkedTo(walk[i - 1], asks, s, from, to, start + i - 1)
    BY <1>9 DEF OneOn
  <2>3. WalkedTill(walk[i - 1], asks, s, from, to, start, i - 1)
    BY <1>11
  <2>4. WalkedTill(walk[i], asks, s, from, to, start, i)
    BY <2>1, <2>2, <2>3, WalkKeeps
  <2>5. QED BY <2>1, <2>4
<1>12. n \in T
  <2> HIDE DEF T
  <2>1. \A k \in 0 .. n : k \in T
    BY <1>10, <1>11, UpTo
  <2>2. QED BY <2>1
<1>13. WalkedTill(walk[n], asks, s, from, to, start, n)
  BY <1>12
<1>14. QED BY <1>1, <1>2, <1>4, <1>13 DEF WalkedOver

\* The reports of the whole schedule that are due in a window.
DueIn(asks, s, from, to) ==
    {r \in UNION {ReportK(asks, s, k) : k \in {n \in Nat : Wanted(asks, n)}} :
        r.dueAt # {} /\ \A t \in r.dueAt : from <= t /\ t <= to}

\* What the walk found in the window is due in it.
LEMMA FoundIsDue ==
  ASSUME NEW s, Sound(s), InTimeOrder(s), NEW asks, PlacesReports(asks, s), NEW from \in Int,
         NEW to \in Nat, NEW start \in Nat, NEW hi \in Int,
         \A k \in start .. hi : ~EndsWalk(asks, s, to, k),
         NEW r \in FoundUpTo(asks, s, from, start, hi), r.dueAt # {}
  PROVE  r \in DueIn(asks, s, from, to)
<1>1. PICK k \in start .. hi : r \in ReportK(asks, s, k) /\ \A t \in r.dueAt : t >= from
  BY DEF FoundUpTo
<1>2. k \in Nat
  OBVIOUS
<1>3. Wanted(asks, k) /\ \A t \in r.dueAt : ~(t > to)
  BY <1>1 DEF EndsWalk
<1>4. ReportedBefore(asks, s, k, r)
  BY <1>1, <1>2, EarlierReport
<1>5. PICK q : ReportK(asks, s, k) = {q} /\ q.dueAt \in OptionOf(Nat)
  BY ONLY <1>4 DEF ReportedBefore
<1>6. r = q
  BY ONLY <1>1, <1>5
<1>7. \A t \in r.dueAt : t \in Nat
  BY ONLY <1>5, <1>6 DEF OptionOf
<1>8. \A t \in r.dueAt : from <= t /\ t <= to
  BY <1>1, <1>3, <1>7
<1>9. r \in UNION {ReportK(asks, s, n) : n \in {m \in Nat : Wanted(asks, m)}}
  BY ONLY <1>1, <1>2, <1>3
<1>10. QED BY ONLY <1>8, <1>9, r.dueAt # {} DEF DueIn

\* Once the walk ended no report is due in the window.
LEMMA NoneAfterTheEnd ==
  ASSUME NEW s, Sound(s), InTimeOrder(s), NEW asks, IsDescriptor(asks), PlacesReports(asks, s),
         NEW to \in Nat, NEW j \in Nat, EndsWalk(asks, s, to, j),
         NEW k \in Nat, j <= k, Wanted(asks, k), NEW r \in ReportK(asks, s, k), r.dueAt # {}
  PROVE  ~\A t \in r.dueAt : t <= to
<1>1. SUFFICES ASSUME \A t \in r.dueAt : t <= to PROVE FALSE
  OBVIOUS
<1>2. Wanted(asks, j)
  BY DEF Wanted, IsDescriptor
<1>3. ReportedBefore(asks, s, j, r)
  BY EarlierReport
<1>4. PICK q : /\ ReportK(asks, s, j) = {q} /\ q.dueAt \in OptionOf(Nat)
               /\ \A f \in r.dueAt : \E e \in q.dueAt : e <= f
  BY ONLY <1>3 DEF ReportedBefore, DueBefore
<1>5. PICK t : t \in q.dueAt /\ t > to
  BY <1>2, <1>4 DEF EndsWalk
<1>6. ReportedBefore(asks, s, k, r)
  BY EarlierReport
<1>7. r.dueAt \in OptionOf(Nat)
  <2>1. PICK p : ReportK(asks, s, k) = {p} /\ p.dueAt \in OptionOf(Nat)
    BY ONLY <1>6 DEF ReportedBefore
  <2>2. QED BY ONLY <2>1, r \in ReportK(asks, s, k)
<1>8. PICK f : f \in r.dueAt
  OBVIOUS
<1>9. f \in Nat /\ f <= to
  BY <1>1, <1>7, <1>8 DEF OptionOf
<1>10. PICK e : e \in q.dueAt /\ e <= f
  BY ONLY <1>4, <1>8
<1>11. e \in Nat /\ e = t
  BY ONLY <1>4, <1>5, <1>10 DEF OptionOf
<1>12. QED BY <1>5, <1>9, <1>10, <1>11

\* What is due in the window is found by the walk.
LEMMA DueIsFound ==
  ASSUME NEW s, Sound(s), InTimeOrder(s), NEW asks, IsDescriptor(asks), PlacesReports(asks, s),
         s.base # <<>>, NEW from \in Int, NEW to \in Nat, NEW j \in Nat,
         \/ EndsWalk(asks, s, to, StartOf(asks, s, from) + j)
         \/ j = StepsOfWalk(s, to),
         NEW r \in DueIn(asks, s, from, to)
  PROVE  r \in FoundUpTo(asks, s, from, StartOf(asks, s, from), StartOf(asks, s, from) + j - 1)
<1>1. PICK start \in Nat : start = StartOf(asks, s, from)
  BY WalkBegins
<1>2. /\ r \in UNION {ReportK(asks, s, n) : n \in {m \in Nat : Wanted(asks, m)}}
      /\ r.dueAt # {} /\ \A t \in r.dueAt : from <= t /\ t <= to
  BY DEF DueIn
<1>3. PICK k \in Nat : Wanted(asks, k) /\ r \in ReportK(asks, s, k)
  BY ONLY <1>2
<1>4. PICK t : t \in r.dueAt
  BY <1>2
<1>5. t \in Nat
  <2>1. ReportedBefore(asks, s, k, r)
    BY <1>3, EarlierReport
  <2>2. PICK q : ReportK(asks, s, k) = {q} /\ q.dueAt \in OptionOf(Nat)
    BY ONLY <2>1 DEF ReportedBefore
  <2>3. QED BY ONLY <1>3, <1>4, <2>2 DEF OptionOf
<1>6. start <= k
  <2>1. ASSUME k < start PROVE FALSE
    <3>1. DueSooner(r, from)
      BY <1>1, <1>3, <2>1, EarlyReports
    <3>2. t < from /\ from <= t
      BY <1>2, <1>4, <3>1 DEF DueSooner
    <3>3. QED BY <1>5, <3>2
  <2>2. QED BY <2>1
<1>7. k < start + j
  <2>1. ASSUME k >= start + j PROVE FALSE
    <3>1. CASE EndsWalk(asks, s, to, start + j)
      <4>1. PICK h \in Nat : h = start + j
        OBVIOUS
      <4>2. h <= k /\ EndsWalk(asks, s, to, h)
        BY <2>1, <3>1, <4>1
      <4>3. ~\A u \in r.dueAt : u <= to
        BY <1>2, <1>3, <4>2, NoneAfterTheEnd
      <4>4. QED BY <1>2, <4>3
    <3>2. CASE j = StepsOfWalk(s, to)
      <4>1. PICK len \in Nat : len = Len(s.base)
        BY DEF Sound
      <4>2. PICK c \in Nat : c = (to + 2) * len
        OBVIOUS
      <4>3. j = MaxReports + MaxCovered + c
        BY <3>2, <4>1, <4>2 DEF StepsOfWalk
      <4>4. k >= MaxCovered + c
        BY <2>1, <4>3, SchedulesAssumption
      <4>5. k >= MaxCovered + (to + 2) * Len(s.base)
        BY <4>1, <4>2, <4>4
      <4>6. DueLater(r, to)
        BY <1>3, <4>5, LateReports
      <4>7. t > to /\ t <= to
        BY <1>2, <1>4, <4>6 DEF DueLater
      <4>8. QED BY <1>5, <4>7
    <3>3. QED BY <1>1, <3>1, <3>2
  <2>2. QED BY <2>1
<1>8. k \in start .. start + j - 1
  BY <1>6, <1>7
<1>9. \A u \in r.dueAt : u >= from
  <2>1. ASSUME NEW u \in r.dueAt PROVE u >= from
    BY <1>2
  <2>2. QED BY <2>1
<1>10. r \in FoundUpTo(asks, s, from, start, start + j - 1)
  BY ONLY <1>3, <1>8, <1>9 DEF FoundUpTo
<1>11. QED BY <1>1, <1>10

\* A window short of the most reports there may be has those that are due in it.
LEMMA WindowHasItsReports ==
  ASSUME NEW s, Sound(s), InTimeOrder(s), NEW asks, IsDescriptor(asks), ~AdHoc(asks, s),
         NEW from \in Int, NEW to \in Nat,
         NEW due, due = ReportsDue(asks, s, from, to), Len(due) < MaxReports
  PROVE  {r \in ToSet(due) : r.dueAt # {}} = DueIn(asks, s, from, to)
<1>1. s.base # <<>>
  BY DEF AdHoc, Empty
<1>2. PlacesReports(asks, s)
  BY <1>1, PlacedReports
<1>3. due = Walk(asks, s, from, to)
  BY Zenon DEF ReportsDue
<1>4. PICK start \in Nat : start = StartOf(asks, s, from)
  BY <1>2, WalkBegins
<1>5. PICK w : WalkedTill(w, asks, s, from, to, start, StepsOfWalk(s, to)) /\ w.due = due
  <2>1. WalkedOver(asks, s, from, to, due)
    BY <1>2, <1>3, WalkIs
  <2>2. QED BY ONLY <1>4, <2>1 DEF WalkedOver
<1>6. PICK j \in Nat : Walked(w, asks, s, from, to, start, j, StepsOfWalk(s, to))
  BY ONLY <1>5 DEF WalkedTill
<1>7. /\ ToSet(due) = FoundUpTo(asks, s, from, start, start + j - 1)
      /\ \A k \in start .. start + j - 1 : ~EndsWalk(asks, s, to, k)
      /\ IF w.over THEN Len(due) = MaxReports \/ EndsWalk(asks, s, to, start + j)
         ELSE j = StepsOfWalk(s, to)
  BY ONLY <1>5, <1>6 DEF Walked
<1>8. Len(due) # MaxReports
  BY SchedulesAssumption
<1>9. EndsWalk(asks, s, to, start + j) \/ j = StepsOfWalk(s, to)
  BY ONLY <1>7, <1>8
<1>10. ASSUME NEW r \in ToSet(due), r.dueAt # {} PROVE r \in DueIn(asks, s, from, to)
  <2>1. start + j - 1 \in Int
    OBVIOUS
  <2>2. QED BY <1>2, <1>7, <1>10, <2>1, FoundIsDue
<1>11. ASSUME NEW r \in DueIn(asks, s, from, to) PROVE r \in ToSet(due) /\ r.dueAt # {}
  <2>1. r \in FoundUpTo(asks, s, from, start, start + j - 1)
    BY <1>1, <1>2, <1>4, <1>9, DueIsFound
  <2>2. r.dueAt # {}
    BY DEF DueIn
  <2>3. QED BY ONLY <1>7, <2>1, <2>2
<1>12. QED BY ONLY <1>10, <1>11

\* What a reading asks reports for.
Asked == descriptor = NoDescriptor \/ IsDescriptor(descriptor)

\* A reading asks for a report or for none.
LEMMA ReadingAsked == Reading => []Asked
<1>1. Read => Asked
  BY InputsAssumption, Zenon DEF Read, Asked
<1>2. Asked /\ [Passes]_<<inputs, instant>> => Asked'
  <2> SUFFICES ASSUME Asked, [Passes]_<<inputs, instant>> PROVE Asked'
    OBVIOUS
  <2>1. descriptor' = descriptor
    BY DEF Passes, inputs
  <2>2. QED BY <2>1 DEF Asked
<1>3. QED BY <1>1, <1>2, PTL DEF Reading

\* Whatever the window, the reports of an event whose intervals are in time order are those
\* of its whole schedule that are due in it.
ReportsAreThoseDue ==
    \A e \in events, from \in Int, to \in Nat :
        LET due == ReportsDue(descriptor, Sequenced(e), from, to)
        IN  /\ descriptor # NoDescriptor /\ ~AdHoc(descriptor, Sequenced(e))
            /\ InTimeOrder(Sequenced(e)) /\ Len(due) < MaxReports
            => {r \in ToSet(due) : r.dueAt # {}} = DueIn(descriptor, Sequenced(e), from, to)

\* A VEN that looks over a later or a wider window of its reports neither loses one nor
\* finds one that is not in the schedule: beginning near the window and ending at the
\* first report after it is a filter over every report there is.
THEOREM ReportsAreComplete == Reading => []ReportsAreThoseDue
<1>1. Chosen /\ Asked => ReportsAreThoseDue
  <2> SUFFICES ASSUME Chosen, Asked, NEW e \in events, NEW from \in Int, NEW to \in Nat,
                      descriptor # NoDescriptor, ~AdHoc(descriptor, Sequenced(e)),
                      InTimeOrder(Sequenced(e)),
                      Len(ReportsDue(descriptor, Sequenced(e), from, to)) < MaxReports
               PROVE  {r \in ToSet(ReportsDue(descriptor, Sequenced(e), from, to)) : r.dueAt # {}}
                         = DueIn(descriptor, Sequenced(e), from, to)
    BY Zenon DEF ReportsAreThoseDue
  <2>1. IsDescriptor(descriptor)
    BY DEF Asked
  <2>2. Sound(Sequenced(e))
    BY ChosenIs
  <2>3. QED BY <2>1, <2>2, WindowHasItsReports
<1>2. QED BY <1>1, ReadingChosen, ReadingAsked, PTL

-----------------------------------------------------------------------------
(***************************************************************************)
(* Competing events: the most important one that asks for an instant is    *)
(* told of it.                                                             *)
(***************************************************************************)

\* What an event states that competes with others.
Stated(e) == e.id \in Int /\ e.priority \in OptionOf(Int)

\* An interval that asks for something is claimed as it is, one that asks for nothing not
\* at all.
Told(e, i) == IF i.payloads = <<>> THEN <<>> ELSE <<Claim(e, i)>>

\* The intervals whose claims are in a set.
Claiming(e, P) == {i \in Interval : i.payloads # <<>> /\ Claim(e, i) \in P}

\* What is told of an interval.
OneTold(told, e, i) ==
    /\ told \in Seq(Claimed)
    /\ \A j \in DOMAIN told : j = 1 /\ i.payloads # <<>> /\ told[j] = Claim(e, i)
    /\ i.payloads # <<>> => 1 \in DOMAIN told /\ told[1] = Claim(e, i)

\* What is told of an interval is one claim, or none when it asks for nothing.
LEMMA ToldIs ==
  ASSUME NEW e, Stated(e), NEW i \in Interval
  PROVE  OneTold(Told(e, i), e, i)
<1>1. PICK told : told = Told(e, i)
  OBVIOUS
<1>2. CASE i.payloads = <<>>
  <2>1. told = <<>>
    BY <1>1, <1>2 DEF Told
  <2>2. told \in Seq(Claimed) /\ DOMAIN told = {}
    BY <2>1
  <2>3. QED BY <1>1, <1>2, <2>2 DEF OneTold
<1>3. CASE i.payloads # <<>>
  <2>1. PICK claim : claim = Claim(e, i)
    OBVIOUS
  <2>2. claim \in Claimed
    BY <2>1 DEF Claim, Claimed, Interval, Stated
  <2>3. told = <<claim>>
    BY <1>1, <1>3, <2>1 DEF Told
  <2>4. told \in Seq(Claimed) /\ DOMAIN told = {1} /\ told[1] = claim
    BY <2>2, <2>3
  <2>5. QED BY <1>1, <1>3, <2>1, <2>4 DEF OneTold
<1>4. QED BY <1>2, <1>3

\* What an event claims of a window, given what the window returns.
Instructs(instructions, e, list) ==
    /\ instructions \in Seq(Claimed)
    /\ \A n \in DOMAIN instructions : \E m \in DOMAIN list :
          list[m].payloads # <<>> /\ instructions[n] = Claim(e, list[m])
    /\ \A m \in DOMAIN list : list[m].payloads # <<>> =>
          \E n \in DOMAIN instructions : instructions[n] = Claim(e, list[m])
    /\ \A P, n : Leads(instructions, n, P) =>
          \E m : Leads(list, m, Claiming(e, P)) /\ instructions[n] = Claim(e, list[m])

\* An event claims what the intervals of its window ask for, in their order.
LEMMA InstructionsAre ==
  ASSUME NEW e, Stated(e), NEW from, NEW to, NEW list \in Seq(Interval),
         list = ExpandWindow(e, e.anchor, from, to).list
  PROVE  Instructs(Instructions(e, from, to), e, list)
<1>1. PICK ss : ss = [m \in DOMAIN list |-> Told(e, list[m])]
  OBVIOUS
<1>2. PICK flat : flat = FlattenSeq(ss)
  OBVIOUS
<1>3. Instructions(e, from, to) = flat
  BY <1>1, <1>2, Zenon DEF Instructions, Told
<1>4. \A m \in DOMAIN list : list[m] \in Interval
  OBVIOUS
<1>5. \A m \in DOMAIN list : OneTold(ss[m], e, list[m])
  BY <1>1, <1>4, ToldIs
<1>6. ss \in Seq(Seq(Claimed)) /\ DOMAIN ss = DOMAIN list
  <2>1. DOMAIN list = 1 .. Len(list) /\ Len(list) \in Nat
    OBVIOUS
  <2>2. \A m \in DOMAIN list : ss[m] \in Seq(Claimed)
    BY <1>5 DEF OneTold
  <2>3. PICK k \in Nat : k = Len(list)
    BY <2>1
  <2>4. ss = [m \in 1 .. k |-> Told(e, list[m])] /\ DOMAIN ss = 1 .. k
    BY <1>1, <2>1, <2>3
  <2>5. \A m \in 1 .. k : ss[m] \in Seq(Claimed)
    BY <2>1, <2>2, <2>3
  <2>6. ss \in [1 .. k -> Seq(Claimed)]
    BY <2>4, <2>5
  <2>7. ss \in Seq(Seq(Claimed))
    BY <2>6
  <2>8. QED BY <2>1, <2>3, <2>4, <2>7
<1>7. flat \in Seq(Claimed)
  BY <1>2, <1>6, Flattened
<1>8. \A n \in DOMAIN flat : \E m \in DOMAIN list :
          list[m].payloads # <<>> /\ flat[n] = Claim(e, list[m])
  <2> TAKE n \in DOMAIN flat
  <2>1. PICK m \in DOMAIN ss : \E j \in DOMAIN ss[m] : flat[n] = ss[m][j]
    BY <1>2, <1>6, FlatHas
  <2>2. QED BY <1>5, <1>6, <2>1 DEF OneTold
<1>9. ASSUME NEW m \in DOMAIN list, list[m].payloads # <<>>
      PROVE  \E n \in DOMAIN flat : flat[n] = Claim(e, list[m])
  <2>1. m \in DOMAIN ss /\ 1 \in DOMAIN ss[m] /\ ss[m][1] = Claim(e, list[m])
    BY <1>5, <1>6, <1>9 DEF OneTold
  <2>2. PICK n \in DOMAIN FlattenSeq(ss) : FlattenSeq(ss)[n] = ss[m][1]
    BY <1>6, <2>1, FlatHas
  <2>3. QED BY <1>2, <2>1, <2>2
<1>10. ASSUME NEW P, NEW n, Leads(flat, n, P)
       PROVE  \E m : Leads(list, m, Claiming(e, P)) /\ flat[n] = Claim(e, list[m])
  <2>1. FirstIn(ss, P, flat[n]) /\ flat[n] \in P
    BY <1>2, <1>6, <1>10, FlatFirst DEF Leads
  <2>2. PICK m \in DOMAIN ss : \E j \in DOMAIN ss[m] :
           /\ flat[n] = ss[m][j]
           /\ \A k \in DOMAIN ss : k < m => \A l \in DOMAIN ss[k] : ss[k][l] \notin P
    BY <2>1 DEF FirstIn
  <2>3. flat[n] = Claim(e, list[m]) /\ list[m].payloads # <<>> /\ m \in DOMAIN list
    BY <1>5, <1>6, <2>2 DEF OneTold
  <2>4. list[m] \in Claiming(e, P)
    BY <1>4, <2>1, <2>3 DEF Claiming
  <2>5. ASSUME NEW l \in DOMAIN list, list[l] \in Claiming(e, P) PROVE m <= l
    <3>1. 1 \in DOMAIN ss[l] /\ ss[l][1] \in P /\ l \in DOMAIN ss
      BY <1>5, <1>6, <2>5 DEF Claiming, OneTold
    <3>2. ~(l < m)
      BY <2>2, <3>1
    <3>3. l \in Nat /\ m \in Nat
      BY <2>3
    <3>4. QED BY <3>2, <3>3
  <2>6. QED BY <2>3, <2>4, <2>5 DEF Leads
<1>11. QED BY <1>3, <1>7, <1>8, <1>9, <1>10 DEF Instructs

\* The intervals of an event that ask for something at an instant.
Wanting(t) == {i \in During(t) : i.payloads # <<>>}

\* They are those whose claims cover the instant.
LEMMA WantingClaims ==
  ASSUME NEW e, Stated(e), NEW t \in Nat, t < MaxTime
  PROVE  Claiming(e, Covering(t)) = Wanting(t)
<1> SUFFICES ASSUME NEW i \in Interval PROVE Claim(e, i) \in Covering(t) <=> i \in During(t)
  BY DEF Claiming, Wanting, During
<1>1. PICK c : c = Claim(e, i)
  OBVIOUS
<1>2. c \in Claimed /\ c.start = i.start /\ c.end = i.end
  BY <1>1 DEF Claim, Claimed, Interval, Stated
<1>3. i.end \in OptionOf(Nat) /\ i.start \in Nat
  BY DEF Interval
<1>4. (\A x \in i.end : t < x) <=> t < EndOf(i.end)
  BY <1>3, EndOfAnOption
<1>5. QED BY <1>1, <1>2, <1>4 DEF Covering, During

\* The first index of an event whose interval asks for something at an instant.
AsksFirst(s, n, i, t) ==
    /\ i \in Get(s, n) /\ i \in Wanting(t)
    /\ \A l \in Nat : l < n => \A j \in Get(s, l) : j \notin Wanting(t)

\* What an event claims of an instant of a window is the first interval that asks for it.
ClaimsFirst(instructions, e, s, t) ==
    /\ (\E n \in DOMAIN instructions : instructions[n] \in Covering(t))
          <=> (\E n \in Nat : \E i \in Get(s, n) : i \in Wanting(t))
    /\ \A n : Leads(instructions, n, Covering(t)) =>
          \E k \in Nat : \E i : AsksFirst(s, k, i, t) /\ instructions[n] = Claim(e, i)

\* An event claims an instant of a window for the first of its intervals that asks for it.
LEMMA EventClaims ==
  ASSUME NEW e, Stated(e), NEW s, s = SequenceOf(e, e.anchor), Sound(s),
         NEW from \in Int, NEW to \in Nat
  PROVE  /\ Instructions(e, from, to) \in Seq(Claimed)
         /\ ~Fine(ExpandWindow(e, e.anchor, from, to)) => DOMAIN Instructions(e, from, to) = {}
         /\ Fine(ExpandWindow(e, e.anchor, from, to)) =>
               \A t \in Nat : from <= t /\ t < to /\ to <= MaxTime =>
                  ClaimsFirst(Instructions(e, from, to), e, s, t)
<1>1. PICK window : window = OverlappingIn(s, from, to)
  OBVIOUS
<1>2. window = ExpandWindow(e, e.anchor, from, to)
  BY <1>1 DEF ExpandWindow
<1>3. PICK list : list = window.list
  OBVIOUS
<1>4. PICK told : told = Instructions(e, from, to)
  OBVIOUS
<1>5. CASE ~Fine(window)
  <2>1. list = <<>>
    BY <1>1, <1>3, <1>5, WindowParts DEF OverlappingIn
  <2>2. list \in Seq(Interval) /\ DOMAIN list = {}
    BY <2>1
  <2>3. Instructs(told, e, list)
    BY <1>2, <1>3, <1>4, <2>2, InstructionsAre
  <2>4. told \in Seq(Claimed) /\ DOMAIN told = {}
    BY <2>2, <2>3 DEF Instructs
  <2>5. QED BY <1>2, <1>4, <1>5, <2>4
<1>6. CASE Fine(window)
  <2>1. Shows(list, s, from, to)
    BY <1>1, <1>3, <1>6, WindowIs
  <2>2. list \in Seq(Interval)
    BY <2>1 DEF Shows
  <2>3. Instructs(told, e, list)
    BY <1>2, <1>3, <1>4, <2>2, InstructionsAre
  <2>4. told \in Seq(Claimed)
    BY <2>3 DEF Instructs
  <2>5. ASSUME NEW t \in Nat, from <= t, t < to, to <= MaxTime
        PROVE  ClaimsFirst(told, e, s, t)
    <3>1. t < MaxTime
      BY <2>5, IntervalsAssumption
    <3>2. Claiming(e, Covering(t)) = Wanting(t)
      BY <3>1, WantingClaims
    <3>3. \A i \in Wanting(t) : Overlaps(i, from, to)
      <4> TAKE i \in Wanting(t)
      <4>1. i.start \in Nat /\ i.start <= t /\ i.end \in OptionOf(Nat) /\ \A x \in i.end : t < x
        BY DEF Wanting, During, Interval
      <4>2. \A x \in i.end : x \in Nat
        BY <4>1 DEF OptionOf
      <4>3. QED BY <2>5, <4>1, <4>2 DEF Overlaps
    <3>4. ASSUME NEW n \in DOMAIN told, told[n] \in Covering(t)
          PROVE  \E k \in Nat : \E i \in Get(s, k) : i \in Wanting(t)
      <4>1. PICK m \in DOMAIN list : list[m].payloads # <<>> /\ told[n] = Claim(e, list[m])
        BY <2>3 DEF Instructs
      <4>2. list[m] \in Wanting(t)
        BY <2>2, <3>2, <3>4, <4>1 DEF Claiming
      <4>3. QED BY <2>1, <4>2 DEF Shows
    <3>5. ASSUME NEW k \in Nat, NEW i \in Get(s, k), i \in Wanting(t)
          PROVE  \E n \in DOMAIN told : told[n] \in Covering(t)
      <4>1. PICK m \in DOMAIN list : list[m] = i
        BY <2>1, <3>3, <3>5 DEF Shows
      <4>2. list[m].payloads # <<>> /\ Claim(e, list[m]) \in Covering(t)
        BY <3>2, <3>5, <4>1 DEF Claiming
      <4>3. QED BY <2>3, <4>2 DEF Instructs
    <3>6. ASSUME NEW n, Leads(told, n, Covering(t))
          PROVE  \E k \in Nat : \E i : AsksFirst(s, k, i, t) /\ told[n] = Claim(e, i)
      <4>1. PICK m : Leads(list, m, Wanting(t)) /\ told[n] = Claim(e, list[m])
        BY <2>3, <3>2, <3>6 DEF Instructs
      <4>2. PICK k \in Nat : list[m] \in Get(s, k) /\ Opens(s, k, from, to, Wanting(t))
        BY <2>1, <4>1 DEF Shows
      <4>3. list[m] \in Wanting(t)
        BY <4>1 DEF Leads
      <4>4. AsksFirst(s, k, list[m], t)
        BY <3>3, <4>2, <4>3 DEF AsksFirst, Opens
      <4>5. QED BY <4>1, <4>4
    <3>7. QED BY <3>4, <3>5, <3>6 DEF ClaimsFirst
  <2>6. QED BY <1>2, <1>4, <1>6, <2>4, <2>5
<1>7. QED BY <1>5, <1>6

\* Precedence is a strict order, and total where no id is shared.
LEMMA Precedence ==
  ASSUME NEW e, Stated(e), NEW f, Stated(f), NEW g, Stated(g)
  PROVE  /\ ~Precedes(e, e)
         /\ Precedes(e, f) /\ Precedes(f, g) => Precedes(e, g)
         /\ e.id # f.id => Precedes(e, f) \/ Precedes(f, e)
<1>1. /\ e.priority = {} \/ \E x \in Int : e.priority = {x}
      /\ f.priority = {} \/ \E y \in Int : f.priority = {y}
      /\ g.priority = {} \/ \E z \in Int : g.priority = {z}
  BY TheOnlyElement DEF Stated
<1>2. e.id \in Int /\ f.id \in Int /\ g.id \in Int
  BY DEF Stated
<1>3. QED BY <1>1, <1>2 DEF Precedes, Outranks

\* Events that compete.
Rivals(E) == /\ IsFiniteSet(E) /\ \A e \in E : Stated(e)
             /\ \A e, f \in E : e.id = f.id => e = f

\* The events that precede one.
Preceding(e, E) == {f \in E : Precedes(f, e)}

\* The rank of an event is below the number of events.
LEMMA Ranks ==
  ASSUME NEW E, Rivals(E), NEW e \in E
  PROVE  /\ IsFiniteSet(Preceding(e, E))
         /\ Cardinality(E) \in Nat /\ Cardinality(Preceding(e, E)) \in 0 .. Cardinality(E) - 1
<1> PICK B : B = Preceding(e, E)
  OBVIOUS
<1>1. B \in SUBSET E /\ e \notin B
  BY Precedence DEF Preceding, Rivals
<1>2. IsFiniteSet(E)
  BY DEF Rivals
<1>3. /\ IsFiniteSet(B) /\ Cardinality(B) <= Cardinality(E)
      /\ Cardinality(E) = Cardinality(B) => E = B
  BY <1>1, <1>2, FS_Subset
<1>4. Cardinality(B) \in Nat /\ Cardinality(E) \in Nat
  BY <1>2, <1>3, FS_CardinalityType
<1>5. QED BY <1>1, <1>3, <1>4

\* An event has a lower rank than one it precedes.
LEMMA RanksGrow ==
  ASSUME NEW E, Rivals(E), NEW e \in E, NEW f \in E, Precedes(e, f)
  PROVE  Cardinality(Preceding(e, E)) < Cardinality(Preceding(f, E))
<1>1. \A g \in E : Stated(g)
  BY DEF Rivals
<1>2. /\ Preceding(e, E) \in SUBSET Preceding(f, E)
      /\ e \in Preceding(f, E) /\ e \notin Preceding(e, E)
  <2>1. \A g \in E : Precedes(g, e) => Precedes(g, f)
    BY <1>1, Precedence
  <2>2. ~Precedes(e, e)
    BY <1>1, Precedence
  <2>3. QED BY <2>1, <2>2 DEF Preceding
<1>3. IsFiniteSet(Preceding(f, E))
  BY Ranks
<1>4. Cardinality(Preceding(e, E)) \in Int /\ Cardinality(Preceding(f, E)) \in Int
  BY Ranks
<1>5. /\ Cardinality(Preceding(e, E)) <= Cardinality(Preceding(f, E))
      /\ Cardinality(Preceding(f, E)) = Cardinality(Preceding(e, E)) =>
           Preceding(f, E) = Preceding(e, E)
  BY <1>2, <1>3, FS_Subset
<1>6. QED BY <1>2, <1>4, <1>5

\* Every rank is that of one event.
LEMMA RankOnto ==
  ASSUME NEW E, Rivals(E), NEW rank, rank = [e \in E |-> Cardinality(Preceding(e, E))]
  PROVE  /\ rank \in Injection(E, 0 .. Cardinality(E) - 1)
         /\ rank \in Surjection(E, 0 .. Cardinality(E) - 1)
<1> PICK n : n = Cardinality(E)
  OBVIOUS
<1>1. n \in Nat /\ IsFiniteSet(E) /\ (\A e \in E : Stated(e))
  BY FS_CardinalityType DEF Rivals
<1>2. rank \in [E -> 0 .. n - 1]
  <2>1. \A e \in E : Cardinality(Preceding(e, E)) \in 0 .. n - 1
    BY Ranks
  <2>2. QED BY <2>1
<1>3. ASSUME NEW e \in E, NEW f \in E, rank[e] = rank[f] PROVE e = f
  <2>1. /\ Cardinality(Preceding(e, E)) = Cardinality(Preceding(f, E))
        /\ Cardinality(Preceding(e, E)) \in Int /\ Cardinality(Preceding(f, E)) \in Int
    BY <1>3, Ranks
  <2>2. ~Precedes(e, f) /\ ~Precedes(f, e)
    BY <2>1, RanksGrow
  <2>3. e.id = f.id
    BY <1>1, <2>2, Precedence
  <2>4. QED BY <2>3 DEF Rivals
<1>4. rank \in Injection(E, 0 .. n - 1)
  BY <1>2, <1>3 DEF Injection, IsInjective
<1>5. IsFiniteSet(0 .. n - 1) /\ Cardinality(0 .. n - 1) = n
  <2>1. /\ IsFiniteSet(0 .. n - 1)
        /\ Cardinality(0 .. n - 1) = IF 0 > n - 1 THEN 0 ELSE n - 1 - 0 + 1
    <3>1. 0 \in Int /\ n - 1 \in Int
      BY <1>1
    <3>2. QED BY ONLY <3>1, FS_Interval
  <2>2. QED BY <1>1, <2>1
<1>6. rank \in Surjection(E, 0 .. n - 1)
  BY <1>1, <1>4, <1>5, FS_Injection
<1>7. QED BY <1>4, <1>6

\* A line of some events, most important first.
Lined(line, E) ==
    /\ line \in Seq(E)
    /\ \A e \in E : \E k \in DOMAIN line : line[k] = e
    /\ \A j, k \in DOMAIN line : j < k => Precedes(line[j], line[k])

\* The events are put in line, most important first.
LEMMA OrderedIs ==
  ASSUME NEW E, Rivals(E)
  PROVE  Lined(Ordered(E), E)
<1> PICK n : n = Cardinality(E)
  OBVIOUS
<1>1. n \in Nat /\ \A e \in E : Stated(e)
  BY FS_CardinalityType DEF Rivals
<1>2. PICK rank : rank = [e \in E |-> Cardinality(Preceding(e, E))]
  OBVIOUS
<1>3. rank \in Injection(E, 0 .. n - 1) /\ rank \in Surjection(E, 0 .. n - 1)
  BY <1>2, RankOnto
<1>4. PICK line : line = Ordered(E)
  OBVIOUS
<1>5. line = [k \in 1 .. n |-> CHOOSE e \in E : Cardinality(Preceding(e, E)) = k - 1]
  BY <1>4, Zenon DEF Ordered, Preceding
<1>6. ASSUME NEW k \in 1 .. n PROVE line[k] \in E /\ rank[line[k]] = k - 1
  <2>1. k - 1 \in 0 .. n - 1
    BY <1>1
  <2>2. PICK e \in E : rank[e] = k - 1
    BY <1>3, <2>1 DEF Surjection
  <2>3. Cardinality(Preceding(e, E)) = k - 1
    BY <1>2, <2>2
  <2>4. line[k] = CHOOSE x \in E : Cardinality(Preceding(x, E)) = k - 1
    BY <1>5
  <2>5. line[k] \in E /\ Cardinality(Preceding(line[k], E)) = k - 1
    BY <2>3, <2>4, Zenon
  <2>6. QED BY <1>2, <2>5
<1>7. line \in Seq(E) /\ DOMAIN line = 1 .. n
  <2>1. DOMAIN line = 1 .. n
    BY <1>5
  <2>2. line \in [1 .. n -> E]
    BY <1>5, <1>6, <2>1
  <2>3. QED BY <1>1, <2>1, <2>2
<1>8. ASSUME NEW e \in E PROVE \E k \in DOMAIN line : line[k] = e
  <2>1. PICK k : k = rank[e] + 1
    OBVIOUS
  <2>2. rank[e] \in 0 .. n - 1
    BY <1>3 DEF Injection
  <2>3. k \in 1 .. n /\ k - 1 = rank[e]
    BY <1>1, <2>1, <2>2
  <2>4. line[k] \in E /\ rank[line[k]] = rank[e]
    BY <1>6, <2>3
  <2>5. line[k] = e
    BY <1>3, <2>4 DEF Injection, IsInjective
  <2>6. QED BY <1>7, <2>3, <2>5
<1>9. ASSUME NEW j \in 1 .. n, NEW k \in 1 .. n, j < k PROVE Precedes(line[j], line[k])
  <2>1. PICK e \in E : e = line[j] /\ rank[e] = j - 1
    BY <1>6
  <2>2. PICK f \in E : f = line[k] /\ rank[f] = k - 1
    BY <1>6
  <2>3. rank[e] # rank[f] /\ ~(rank[f] < rank[e])
    BY <1>1, <1>9, <2>1, <2>2
  <2>4. e # f
    BY <2>3
  <2>5. e.id # f.id
    BY <2>4 DEF Rivals
  <2>6. Precedes(e, f) \/ Precedes(f, e)
    BY <1>1, <2>5, Precedence
  <2>7. Precedes(f, e) => rank[f] < rank[e]
    BY <1>2, RanksGrow
  <2>8. QED BY <2>1, <2>2, <2>3, <2>6, <2>7
<1>10. QED BY <1>4, <1>7, <1>8, <1>9 DEF Lined

\* The events that ask for something at an instant, of those no window refuses.
Bidding(E, from, to, t) ==
    {e \in E : /\ Fine(ExpandWindow(e, e.anchor, from, to))
               /\ \E n \in Nat : \E i \in Get(Sequenced(e), n) : i \in Wanting(t)}

\* A segment is the first interval of an event, which precedes all others that ask for
\* something at the instant.
Wins(seg, e, E, from, to, t) ==
    /\ e \in Bidding(E, from, to, t)
    /\ \E n \in Nat : \E i : AsksFirst(Sequenced(e), n, i, t) /\ Tells(seg, Claim(e, i))
    /\ \A f \in Bidding(E, from, to, t) \ {e} : Precedes(e, f)

\* One segment of a timeline is in force when there is an event that asks for anything, the
\* winner's.
Resolves(timeline, E, from, to, t) ==
    /\ Exactly(timeline, Covering(t), Bidding(E, from, to, t) # {})
    /\ \A m \in DOMAIN timeline : timeline[m] \in Covering(t) =>
          \E e : Wins(timeline[m], e, E, from, to, t)

\* A timeline of events that are sound lies in time, and of every instant of its window it
\* tells what the first of its claims tells: that of the winner.
LEMMA TimelineTells ==
  ASSUME NEW E, Rivals(E), \A e \in E : Sound(Sequenced(e)), NEW from \in Int, NEW to \in Nat,
         NEW timeline, timeline = BuildTimeline(E, from, to)
  PROVE  /\ timeline \in Seq(Taken)
         /\ \A t \in Nat : from <= t /\ t < to /\ to <= MaxTime =>
               Resolves(timeline, E, from, to, t)
<1>1. PICK line : line = Ordered(E)
  OBVIOUS
<1>2. PICK ss : ss = [k \in DOMAIN line |-> Instructions(line[k], from, to)]
  OBVIOUS
<1>3. PICK claims : claims = FlattenSeq(ss)
  OBVIOUS
<1>4. timeline = LaidDown(claims)
  BY <1>1, <1>2, <1>3, Zenon DEF BuildTimeline, Claims
<1>5. Lined(line, E) /\ \A e \in E : Stated(e)
  BY <1>1, OrderedIs DEF Rivals
<1>6. \A k \in DOMAIN line : line[k] \in E
  BY <1>5 DEF Lined
<1>7. \A e \in E : Instructions(e, from, to) \in Seq(Claimed)
  BY <1>5, EventClaims DEF Sequenced
<1>8. ss \in Seq(Seq(Claimed)) /\ DOMAIN ss = DOMAIN line
  <2>1. PICK k \in Nat : DOMAIN line = 1 .. k
    BY <1>5 DEF Lined
  <2>2. ss = [q \in 1 .. k |-> Instructions(line[q], from, to)]
    BY <1>2, <2>1
  <2>3. \A q \in 1 .. k : ss[q] \in Seq(Claimed)
    BY <1>6, <1>7, <2>1, <2>2
  <2>4. ss \in [1 .. k -> Seq(Claimed)]
    BY <2>2, <2>3
  <2>5. ss \in Seq(Seq(Claimed))
    BY <2>4
  <2>6. QED BY <2>1, <2>2, <2>5
<1>9. claims \in Seq(Claimed)
  BY <1>3, <1>8, Flattened
<1>10. timeline \in Seq(Taken)
  BY <1>4, <1>9, FirstClaimHasIt
<1>11. ASSUME NEW t \in Nat, from <= t, t < to, to <= MaxTime
       PROVE  Resolves(timeline, E, from, to, t)
  <2>1. PICK bids : bids = Bidding(E, from, to, t)
    OBVIOUS
  <2>2. \A k \in DOMAIN ss :
           (\E l \in DOMAIN ss[k] : ss[k][l] \in Covering(t)) <=> line[k] \in bids
    <3> TAKE k \in DOMAIN ss
    <3>1. PICK e \in E : e = line[k]
      BY <1>6, <1>8
    <3>2. ss[k] = Instructions(e, from, to)
      BY <1>2, <1>8, <3>1
    <3>3. Stated(e) /\ Sound(Sequenced(e))
      BY <1>5
    <3>4. CASE Fine(ExpandWindow(e, e.anchor, from, to))
      <4>1. ClaimsFirst(ss[k], e, Sequenced(e), t)
        BY <1>11, <3>2, <3>3, <3>4, EventClaims DEF Sequenced
      <4>2. QED BY <2>1, <3>1, <3>4, <4>1 DEF ClaimsFirst, Bidding
    <3>5. CASE ~Fine(ExpandWindow(e, e.anchor, from, to))
      <4>1. DOMAIN ss[k] = {}
        BY <3>2, <3>3, <3>5, EventClaims DEF Sequenced
      <4>2. QED BY <2>1, <3>1, <3>5, <4>1 DEF Bidding
    <3>6. QED BY <3>4, <3>5
  <2>3. (\E j \in 1 .. Len(claims) : claims[j] \in Covering(t)) <=> bids # {}
    <3>1. ASSUME NEW j \in 1 .. Len(claims), claims[j] \in Covering(t) PROVE bids # {}
      <4>1. j \in DOMAIN claims
        BY <1>9
      <4>2. PICK k \in DOMAIN ss : \E l \in DOMAIN ss[k] : claims[j] = ss[k][l]
        BY <1>3, <1>8, <4>1, FlatHas
      <4>3. QED BY <2>2, <3>1, <4>2
    <3>2. ASSUME NEW e \in bids PROVE \E j \in 1 .. Len(claims) : claims[j] \in Covering(t)
      <4>1. e \in E
        BY <2>1 DEF Bidding
      <4>2. PICK k \in DOMAIN ss : line[k] = e
        BY <1>5, <1>8, <4>1 DEF Lined
      <4>3. PICK l \in DOMAIN ss[k] : ss[k][l] \in Covering(t)
        BY <2>2, <4>2
      <4>4. PICK j \in DOMAIN FlattenSeq(ss) : FlattenSeq(ss)[j] = ss[k][l]
        BY <1>8, FlatHas
      <4>5. QED BY <1>3, <1>9, <4>3, <4>4
    <3>3. QED BY <3>1, <3>2
  <2>4. /\ Exactly(timeline, Covering(t), \E j \in 1 .. Len(claims) : claims[j] \in Covering(t))
        /\ \A m \in DOMAIN timeline : timeline[m] \in Covering(t) =>
              First(claims, Len(claims), t, timeline[m])
    BY <1>4, <1>9, FirstClaimHasIt
  <2>5. Exactly(timeline, Covering(t), bids # {})
    BY <2>3, <2>4 DEF Exactly
  <2>6. ASSUME NEW m \in DOMAIN timeline, timeline[m] \in Covering(t)
        PROVE  \E e : Wins(timeline[m], e, E, from, to, t)
    <3>1. PICK j \in 1 .. Len(claims) :
             /\ claims[j] \in Covering(t) /\ Tells(timeline[m], claims[j])
             /\ \A i \in 1 .. j - 1 : claims[i] \notin Covering(t)
      BY <2>4, <2>6 DEF First
    <3>2. j \in DOMAIN FlattenSeq(ss) /\ FlattenSeq(ss)[j] \in Covering(t)
      BY <1>3, <1>9, <3>1
    <3>3. \A i \in DOMAIN FlattenSeq(ss) : FlattenSeq(ss)[i] \in Covering(t) => j <= i
      <4>1. \A i \in DOMAIN claims : i \in Nat /\ i >= 1
        BY <1>9
      <4>2. j \in Nat
        OBVIOUS
      <4>3. QED BY <1>3, <3>1, <4>1, <4>2
    <3>4. FirstIn(ss, Covering(t), claims[j])
      BY <1>3, <1>8, <3>2, <3>3, FlatFirst
    <3>0. PICK k \in DOMAIN ss : \E l \in DOMAIN ss[k] :
             /\ claims[j] = ss[k][l]
             /\ \A q \in DOMAIN ss : q < k => \A x \in DOMAIN ss[q] : ss[q][x] \notin Covering(t)
             /\ \A x \in DOMAIN ss[k] : x < l => ss[k][x] \notin Covering(t)
      BY <3>4 DEF FirstIn
    <3>5. PICK l \in DOMAIN ss[k] :
             /\ claims[j] = ss[k][l]
             /\ \A q \in DOMAIN ss : q < k => \A x \in DOMAIN ss[q] : ss[q][x] \notin Covering(t)
             /\ \A x \in DOMAIN ss[k] : x < l => ss[k][x] \notin Covering(t)
      BY <3>0
    <3>6. PICK e \in E : e = line[k]
      BY <1>6, <1>8
    <3>7. ss[k] = Instructions(e, from, to) /\ ss[k] \in Seq(Claimed)
      BY <1>2, <1>8, <3>6, <1>7
    <3>8. e \in bids
      BY <2>2, <3>1, <3>5, <3>6
    <3>9. Stated(e) /\ Sound(Sequenced(e)) /\ Fine(ExpandWindow(e, e.anchor, from, to))
      BY <1>5, <2>1, <3>8 DEF Bidding
    <3>10. ClaimsFirst(ss[k], e, Sequenced(e), t)
      BY <1>11, <3>7, <3>9, EventClaims DEF Sequenced
    <3>11. Leads(ss[k], l, Covering(t))
      <4>1. \A x \in DOMAIN ss[k] : x \in Nat
        BY <3>7
      <4>2. QED BY <3>1, <3>5, <4>1 DEF Leads
    <3>12. PICK n \in Nat : \E i : AsksFirst(Sequenced(e), n, i, t) /\ ss[k][l] = Claim(e, i)
      BY <3>10, <3>11 DEF ClaimsFirst
    <3>13. \E i : AsksFirst(Sequenced(e), n, i, t) /\ Tells(timeline[m], Claim(e, i))
      BY <3>1, <3>5, <3>12
    <3>14. ASSUME NEW f \in bids, f # e PROVE Precedes(e, f)
      <4>1. f \in E
        BY <2>1 DEF Bidding
      <4>2. PICK q \in DOMAIN ss : line[q] = f
        BY <1>5, <1>8, <4>1 DEF Lined
      <4>3. \E x \in DOMAIN ss[q] : ss[q][x] \in Covering(t)
        BY <2>2, <4>2
      <4>4. q # k /\ ~(q < k)
        BY <3>5, <3>6, <3>14, <4>2, <4>3
      <4>5. q \in Nat /\ k \in Nat
        BY <1>8
      <4>6. k < q
        BY <4>4, <4>5
      <4>7. QED BY <1>5, <1>8, <3>6, <4>2, <4>6 DEF Lined
    <3>15. QED BY <2>1, <3>8, <3>13, <3>14 DEF Wins
  <2>7. QED BY <2>1, <2>5, <2>6 DEF Resolves
<1>12. QED BY <1>10, <1>11

\* What is in force is what covers the instant.
LEMMA InForceCovers ==
  ASSUME NEW timeline \in Seq(Taken), NEW t \in Nat, t < MaxTime
  PROVE  InForceAt(timeline, t) =
            {timeline[m] : m \in {n \in DOMAIN timeline : timeline[n] \in Covering(t)}}
<1>1. \A m \in DOMAIN timeline : Within(timeline[m], t) <=> timeline[m] \in Covering(t)
  <2> TAKE m \in DOMAIN timeline
  <2>1. PICK s : s = timeline[m]
    OBVIOUS
  <2>2. s \in Claimed
    BY <2>1 DEF Taken
  <2>3. s.start \in Nat /\ s.end \in OptionOf(Nat)
    BY <2>2 DEF Claimed
  <2>4. (\A e \in s.end : t < e) <=> t < EndOf(s.end)
    BY <2>3, EndOfAnOption
  <2>5. QED BY <2>1, <2>2, <2>3, <2>4 DEF Within, Covering
<1>2. QED BY <1>1 DEF InForceAt, Segments, ToSet

\* The instants at which a timeline changes are numbers.
LEMMA BoundariesAreTimes ==
  ASSUME NEW timeline \in Seq(Taken)
  PROVE  /\ Boundaries(timeline) \subseteq Nat
         /\ \A s \in Segments(timeline) : /\ s.start \in Nat /\ s.end \subseteq Nat
                /\ s.start \in Boundaries(timeline) /\ s.end \subseteq Boundaries(timeline)
<1>1. \A s \in Segments(timeline) : s.start \in Nat /\ s.end \subseteq Nat
  <2> TAKE s \in Segments(timeline)
  <2>1. s \in Claimed
    BY DEF Segments, ToSet, Taken
  <2>2. QED BY <2>1 DEF Claimed, OptionOf
<1>2. QED BY <1>1 DEF Boundaries

\* Until the next change nothing else comes into force.
LEMMA SameUntilTheNext ==
  ASSUME NEW timeline \in Seq(Taken), NEW now \in Nat, NEW at \in Nat, now <= at,
         \A t \in NextChange(timeline, now) : at < t
  PROVE  InForceAt(timeline, at) = InForceAt(timeline, now)
<1>1. PICK B : B = Boundaries(timeline)
  OBVIOUS
<1>2. /\ B \subseteq Nat
      /\ \A s \in Segments(timeline) : s.start \in B /\ s.end \subseteq B
  BY <1>1, BoundariesAreTimes
<1>3. \A b \in B : b > now => b > at
  <2> SUFFICES ASSUME NEW b \in B, b > now PROVE b > at
    OBVIOUS
  <2>1. PICK later : later = {u \in B : u > now}
    OBVIOUS
  <2>2. b \in later
    BY <2>1
  <2>3. later \in SUBSET Int
    <3>1. B \subseteq Int
      <4>1. B \subseteq Nat
        BY <1>2, Zenon
      <4>2. QED BY ONLY <4>1
    <3>2. later \subseteq B
      BY ONLY <2>1
    <3>3. QED BY ONLY <3>1, <3>2
  <2>4. \A u \in later : u > now
    BY <2>1
  <2>5. now \in Int /\ later # {}
    BY <2>2
  <2>6. PICK m \in later : \A u \in later : m <= u
    BY ONLY <2>3, <2>4, <2>5, FirstLater
  <2>7. m \in NextChange(timeline, now)
    BY <1>1, <2>1, <2>6 DEF NextChange
  <2>8. at < m /\ m <= b /\ m \in Int /\ b \in Int
    BY <2>2, <2>3, <2>6, <2>7
  <2>9. QED BY <2>8
<1>4. ASSUME NEW s \in Segments(timeline) PROVE Within(s, at) <=> Within(s, now)
  <2>1. s.start \in Nat /\ (s.start > now => s.start > at)
    BY <1>2, <1>3
  <2>2. \A e \in s.end : e \in Nat /\ (e > now => e > at)
    BY <1>2, <1>3
  <2>3. at >= s.start <=> now >= s.start
    BY <2>1
  <2>4. \A e \in s.end : at < e <=> now < e
    BY <2>2
  <2>5. QED BY <2>3, <2>4 DEF Within
<1>5. QED BY <1>4 DEF InForceAt

\* Who is asked of an instant of the window is who bids for it.
LEMMA AskingBids ==
  ASSUME Chosen, NEW t \in Nat, From <= t, t < To
  PROVE  {e \in events : e.id \notin Skipped(events, From, To) /\ Asking(e, t) # {}}
            = Bidding(events, From, To, t)
<1> SUFFICES ASSUME NEW e \in events
             PROVE  (e.id \notin Skipped(events, From, To) /\ Asking(e, t) # {})
                       <=> e \in Bidding(events, From, To, t)
  BY DEF Bidding
<1>1. e.id \notin Skipped(events, From, To) <=> Fine(ExpandWindow(e, e.anchor, From, To))
  <2>1. \A f \in events : f.id = e.id => f = e
    BY ChosenIs
  <2>2. Skipped(events, From, To) = {f.id : f \in {x \in events :
                                        ~Fine(ExpandWindow(x, x.anchor, From, To))}}
    BY Zenon DEF Skipped, Fine
  <2>3. QED BY <2>1, <2>2
<1>2. Sound(Sequenced(e))
  BY ChosenIs
<1>3. ASSUME NEW n \in Nat, NEW i \in Get(Sequenced(e), n), i \in Wanting(t)
      PROVE  Asking(e, t) # {}
  <2>1. i.start \in Nat /\ i.start <= t /\ i.payloads # <<>> /\ \A x \in i.end : t < x
    BY <1>3 DEF Wanting, During, Interval
  <2>2. i \in Placed(e, t)
    BY <1>2, <2>1, WalkReaches
  <2>3. i \in Asking(e, t)
    BY <2>1, <2>2 DEF Asking, Within
  <2>4. QED BY <2>3
<1>4. ASSUME NEW i \in Asking(e, t)
      PROVE  \E n \in Nat : i \in Get(Sequenced(e), n) /\ i \in Wanting(t)
  <2>1. PICK n \in Nat : i \in Get(Sequenced(e), n)
    BY IndicesAreNat DEF Asking, Placed
  <2>2. i \in Interval
    BY <1>2, <2>1, GetIs DEF Drawn
  <2>3. i.start \in Nat /\ i.payloads # <<>> /\ t >= i.start /\ \A x \in i.end : t < x
    BY <2>2 DEF Asking, Within, Interval
  <2>4. i \in Wanting(t)
    BY <2>2, <2>3 DEF Wanting, During
  <2>5. QED BY <2>1, <2>4
<1>5. QED BY <1>1, <1>3, <1>4 DEF Bidding

\* The rule of one instant.
RuleAt(t) ==
    LET inForce == InForceAt(Timeline, t)
        asking == {e \in events : e.id \notin Skipped(events, From, To) /\ Asking(e, t) # {}}
    IN  /\ Cardinality(inForce) <= 1
        /\ asking = {} <=> inForce = {}
        /\ \A s \in inForce : \E e \in asking :
               /\ s.event = e.id
               /\ \A f \in asking \ {e} : Precedes(e, f)
               /\ \E i \in Asking(e, t) : s.payloads = i.payloads

\* The timeline of a reading tells of every instant of its window.
LEMMA TimelineIs ==
  ASSUME Chosen
  PROVE  /\ Timeline \in Seq(Taken)
         /\ \A t \in Nat : From <= t /\ t < To => Resolves(Timeline, events, From, To, t)
<1>1. Rivals(events) /\ \A e \in events : Sound(Sequenced(e))
  BY ChosenIs DEF Rivals, Stated
<1>2. From \in Int /\ To \in Nat /\ To <= MaxTime
  BY ChosenIs
<1>3. QED BY <1>1, <1>2, TimelineTells DEF Timeline

\* The rule holds at every instant of the window.
LEMMA RuleHolds ==
  ASSUME Chosen, NEW t \in Nat, From <= t, t < To
  PROVE  RuleAt(t)
<1>1. PICK bids : bids = Bidding(events, From, To, t)
  OBVIOUS
<1>2. PICK lines : lines = Timeline
  OBVIOUS
<1>3. lines \in Seq(Taken) /\ Resolves(lines, events, From, To, t)
  BY <1>2, TimelineIs
<1>4. PICK inForce : inForce = InForceAt(lines, t)
  OBVIOUS
<1>5. t < MaxTime
  BY ChosenIs, IntervalsAssumption
<1>6. inForce = {lines[m] : m \in {n \in DOMAIN lines : lines[n] \in Covering(t)}}
  BY <1>3, <1>4, <1>5, InForceCovers
<1>7. Once(lines, Covering(t)) /\ (inForce = {} <=> bids = {})
  BY <1>1, <1>3, <1>6 DEF Resolves, Exactly
<1>8. Cardinality(inForce) <= 1
  <2>1. CASE inForce = {}
    BY <2>1, FS_EmptySet
  <2>2. CASE inForce # {}
    <3>1. PICK m \in DOMAIN lines : lines[m] \in Covering(t)
      BY <1>6, <2>2
    <3>2. inForce = {lines[m]}
      BY <1>6, <1>7, <3>1 DEF Once
    <3>3. Cardinality({lines[m]}) = 1
      BY FS_Singleton
    <3>4. QED BY <3>2, <3>3
  <2>3. QED BY <2>1, <2>2
<1>9. ASSUME NEW s \in inForce
      PROVE  \E e \in bids : /\ s.event = e.id
                             /\ \A f \in bids \ {e} : Precedes(e, f)
                             /\ \E i \in Asking(e, t) : s.payloads = i.payloads
  <2>1. PICK e : Wins(s, e, events, From, To, t)
    BY <1>3, <1>6 DEF Resolves
  <2>2. PICK n \in Nat : \E i : AsksFirst(Sequenced(e), n, i, t) /\ Tells(s, Claim(e, i))
    BY <2>1 DEF Wins
  <2>3. PICK i : AsksFirst(Sequenced(e), n, i, t) /\ Tells(s, Claim(e, i))
    BY <2>2
  <2>4. e \in bids /\ e \in events
    BY <1>1, <2>1 DEF Wins, Bidding
  <2>5. i \in Get(Sequenced(e), n) /\ i \in Wanting(t)
    BY <2>3 DEF AsksFirst
  <2>6. i.start \in Nat /\ i.start <= t /\ i.payloads # <<>> /\ \A x \in i.end : t < x
    BY <2>5 DEF Wanting, During, Interval
  <2>7. i \in Placed(e, t)
    BY <2>4, <2>5, <2>6, ChosenIs, WalkReaches
  <2>8. i \in Asking(e, t)
    BY <2>6, <2>7 DEF Asking, Within
  <2>9. s.event = e.id /\ s.payloads = i.payloads
    BY <2>3 DEF Tells, Claim
  <2>10. \A f \in bids \ {e} : Precedes(e, f)
    BY <1>1, <2>1 DEF Wins
  <2>11. QED BY <2>4, <2>8, <2>9, <2>10
<1>10. {e \in events : e.id \notin Skipped(events, From, To) /\ Asking(e, t) # {}} = bids
  BY <1>1, AskingBids
<1>11. QED BY <1>2, <1>4, <1>7, <1>8, <1>9, <1>10, Zenon DEF RuleAt

\* At the instant of a reading and at the last one of its window, what is in force is asked
\* for by the event that precedes every other one that asks for anything, and there is
\* only that; until the next change, whoever sleeps misses nothing.
THEOREM PriorityResolves == Reading => []PriorityRules
<1>1. Chosen => PriorityRules
  <2> SUFFICES ASSUME Chosen PROVE PriorityRules
    OBVIOUS
  <2>1. instant \in Nat /\ From < instant /\ instant < To /\ From \in Int /\ To \in Nat
    BY ChosenIs
  <2>2. Timeline \in Seq(Taken)
    BY TimelineIs
  <2>3. ASSUME NEW t \in {instant, To - 1} PROVE RuleAt(t)
    <3>1. t \in Nat /\ From <= t /\ t < To
      BY <2>1
    <3>2. QED BY <3>1, RuleHolds
  <2>4. ASSUME NEW at \in instant .. To - 1,
               \A t \in NextChange(Timeline, instant) : at < t
        PROVE  InForceAt(Timeline, at) = InForceAt(Timeline, instant)
    <3>1. at \in Nat /\ instant <= at
      BY <2>1
    <3>2. QED BY <2>1, <2>2, <2>4, <3>1, SameUntilTheNext
  <2>5. QED BY <2>3, <2>4, Zenon DEF PriorityRules, RuleAt
<1>2. QED BY <1>1, ReadingChosen, PTL

-----------------------------------------------------------------------------
(***************************************************************************)
(* Pages.                                                                  *)
(***************************************************************************)

\* Those that come before an event.
Earlier(e, V) == {x \in V : x.id < e.id}

\* Every event of a finite list has a place in it.
LEMMA Places ==
  ASSUME NEW V, IsFiniteSet(V), NEW e \in V, e.id \in Int
  PROVE  /\ IsFiniteSet(Earlier(e, V)) /\ Position(e, V) = Cardinality(Earlier(e, V))
         /\ Cardinality(V) \in Nat /\ Position(e, V) \in 0 .. Cardinality(V) - 1
<1> PICK B : B = Earlier(e, V)
  OBVIOUS
<1>1. B \in SUBSET V /\ e \notin B
  BY DEF Earlier
<1>2. /\ IsFiniteSet(B) /\ Cardinality(B) <= Cardinality(V)
      /\ Cardinality(V) = Cardinality(B) => V = B
  BY <1>1, FS_Subset
<1>3. Cardinality(B) \in Nat /\ Cardinality(V) \in Nat
  BY <1>2, FS_CardinalityType
<1>4. Position(e, V) = Cardinality(B)
  BY DEF Position, Earlier
<1>5. QED BY <1>1, <1>2, <1>3, <1>4

\* A greater id is a later place.
LEMMA PlacesGrow ==
  ASSUME NEW V, IsFiniteSet(V), NEW e \in V, NEW f \in V, e.id \in Int, f.id \in Int,
         \A x \in V : x.id \in Int, e.id < f.id
  PROVE  Position(e, V) < Position(f, V)
<1>1. Earlier(e, V) \in SUBSET Earlier(f, V) /\ e \in Earlier(f, V) /\ e \notin Earlier(e, V)
  BY DEF Earlier
<1>2. IsFiniteSet(Earlier(f, V)) /\ Position(f, V) = Cardinality(Earlier(f, V))
  BY Places
<1>3. /\ Position(e, V) = Cardinality(Earlier(e, V))
      /\ Position(e, V) \in Int /\ Position(f, V) \in Int
  BY Places
<1>4. /\ Cardinality(Earlier(e, V)) <= Cardinality(Earlier(f, V))
      /\ Cardinality(Earlier(f, V)) = Cardinality(Earlier(e, V)) => Earlier(f, V) = Earlier(e, V)
  BY <1>1, <1>2, FS_Subset
<1>5. QED BY <1>1, <1>2, <1>3, <1>4

\* No two events share a place, and no place is left out.
LEMMA Positions ==
  ASSUME NEW V, IsFiniteSet(V), \A e \in V : e.id \in Int, \A e, f \in V : e.id = f.id => e = f,
         NEW pos, pos = [e \in V |-> Position(e, V)]
  PROVE  /\ pos \in Injection(V, 0 .. Cardinality(V) - 1)
         /\ pos \in Surjection(V, 0 .. Cardinality(V) - 1)
<1> PICK n : n = Cardinality(V)
  OBVIOUS
<1>1. n \in Nat
  BY FS_CardinalityType
<1>2. pos \in [V -> 0 .. n - 1]
  <2>1. \A e \in V : Position(e, V) \in 0 .. n - 1
    BY Places
  <2>2. QED BY <2>1
<1>3. ASSUME NEW e \in V, NEW f \in V, pos[e] = pos[f] PROVE e = f
  <2>1. Position(e, V) = Position(f, V) /\ Position(e, V) \in Int /\ Position(f, V) \in Int
    BY <1>3, Places
  <2>2. ~(e.id < f.id) /\ ~(f.id < e.id)
    BY <2>1, PlacesGrow
  <2>3. e.id \in Int /\ f.id \in Int
    OBVIOUS
  <2>4. QED BY <2>2, <2>3
<1>4. pos \in Injection(V, 0 .. n - 1)
  BY <1>2, <1>3 DEF Injection, IsInjective
<1>5. IsFiniteSet(0 .. n - 1) /\ Cardinality(0 .. n - 1) = n
  <2>1. /\ IsFiniteSet(0 .. n - 1)
        /\ Cardinality(0 .. n - 1) = IF 0 > n - 1 THEN 0 ELSE n - 1 - 0 + 1
    BY <1>1, FS_Interval
  <2>2. QED BY <1>1, <2>1
<1>6. pos \in Surjection(V, 0 .. n - 1)
  BY <1>4, <1>5, FS_Injection
<1>7. QED BY <1>4, <1>6

\* A page that is not full is the last.
LEMMA LastPage ==
  ASSUME NEW V, IsFiniteSet(V), \A e \in V : e.id \in Int, \A e, f \in V : e.id = f.id => e = f,
         NEW skip \in Nat,
         NEW P, P = {e \in V : Position(e, V) \in skip .. skip + PageLimit - 1}
  PROVE  /\ IsFiniteSet(P) /\ Cardinality(P) \in Nat
         /\ \A e \in V : Position(e, V) \in Nat
         /\ Cardinality(P) < PageLimit => \A e \in V : Position(e, V) < skip + PageLimit
<1> DEFINE pos == [e \in V |-> Position(e, V)]
           n == Cardinality(V)
<1>1. PageLimit \in Nat \ {0} /\ n \in Nat
  BY VenAssumption, FS_CardinalityType
<1>2. pos \in Injection(V, 0 .. n - 1) /\ pos \in Surjection(V, 0 .. n - 1)
  BY Positions
<1>3. P \in SUBSET V
  OBVIOUS
<1>4. IsFiniteSet(P) /\ Cardinality(P) \in Nat
  BY <1>3, FS_Subset, FS_CardinalityType
<1>5. \A e \in V : Position(e, V) \in 0 .. n - 1
  BY <1>2 DEF Injection
<1>6. ASSUME NEW e \in V, Position(e, V) >= skip + PageLimit PROVE Cardinality(P) >= PageLimit
  <2> DEFINE I == skip .. skip + PageLimit - 1
             cut == [x \in P |-> Position(x, V)]
  <2>1. I \subseteq 0 .. n - 1
    BY <1>1, <1>5, <1>6
  <2>2. cut \in [P -> I]
    OBVIOUS
  <2>3. ASSUME NEW i \in I PROVE \E x \in P : cut[x] = i
    <3>1. PICK x \in V : pos[x] = i
      BY <1>2, <2>1 DEF Surjection
    <3>2. QED BY <3>1
  <2>4. cut \in Surjection(P, I)
    BY <2>2, <2>3 DEF Surjection
  <2>5. Cardinality(I) <= Cardinality(P)
    BY <1>4, <2>4, FS_Surjection
  <2>6. Cardinality(I) = PageLimit
    <3>1. Cardinality(I) = IF skip > skip + PageLimit - 1 THEN 0
                           ELSE skip + PageLimit - 1 - skip + 1
      BY <1>1, FS_Interval
    <3>2. QED BY <1>1, <3>1
  <2>7. QED BY <1>1, <1>4, <2>5, <2>6
<1>7. QED BY <1>1, <1>4, <1>5, <1>6
-----------------------------------------------------------------------------
(***************************************************************************)
(* What the VTN holds and what the VEN has read: ReadInv.                  *)
(***************************************************************************)

IsVersion(e) ==
    e = [id |-> e.id, version |-> e.version, shape |-> e.shape] /\ e.id \in Int /\ e.version \in Nat

\* Whoever read a version of an event knows what that version says.
Known(read) ==
    \A e \in read :
        /\ IsVersion(e) /\ e.version <= edits
        /\ e.id \in DOMAIN board /\ board[e.id].version = e.version => board[e.id].shape = e.shape

BoardInv ==
    /\ edits \in Nat
    /\ IsFiniteSet(DOMAIN board) /\ DOMAIN board \subseteq Int
    /\ \A i \in DOMAIN board : board[i].version \in 0 .. edits

\* What has been read of the list so far, were it all one list.
ReadSoFar(a, v) == a.events = {e \in v : Position(e, v) < a.skip}

AnswerOK(a) ==
    /\ a = [skip |-> a.skip, first |-> a.first, events |-> a.events]
    /\ Known(a.events) /\ IsFiniteSet(a.first)
    /\ Cardinality(a.first) < PageLimit => a.first = a.events
    /\ pc = "more" => /\ Cardinality(a.first) >= PageLimit /\ a.skip \in Nat
                      /\ \A v \in view : ReadSoFar(a, v)
    /\ pc = "apply" => \A v \in view : a.events = v

\* The VEN's tag is that of what it holds, and it holds no more than a page then.
TagOK == \A t \in etag : t = EntityTag(held) /\ IsFiniteSet(held) /\ Cardinality(held) < PageLimit

ReadInv ==
    /\ BoardInv /\ Known(held) /\ TagOK
    /\ answer = {} \/ \E a : answer = {a} /\ AnswerOK(a)
    /\ pc = "apply" /\ answer = {} => \A v \in view : held = v
    /\ HoldsWhatWasServed

\* Nothing of it changes while none of this does.
LEMMA BoardKnown ==
  ASSUME BoardInv, UNCHANGED <<board, edits>>, NEW S, Known(S)
  PROVE  BoardInv' /\ Known(S)'
BY DEF BoardInv, Known

\* What is shown is what is there, each version under an id of its own, and finite.
LEMMA VisibleOK ==
  ASSUME BoardInv, NEW at
  PROVE  /\ IsFiniteSet(Visible(at)) /\ Known(Visible(at))
         /\ \A e \in Visible(at) : e.id \in Int
         /\ \A e, f \in Visible(at) : e.id = f.id => e = f
<1> DEFINE active == {i \in DOMAIN board : IsActive(board[i], at)}
           shown == [i \in active |-> Version(i)]
<1>1. active \in SUBSET DOMAIN board
  OBVIOUS
<1>2. IsFiniteSet(active)
  BY <1>1, FS_Subset DEF BoardInv
<1>3. Visible(at) = {shown[i] : i \in active}
  BY DEF Visible
<1>4. \A i \in active :
        shown[i] = [id |-> i, version |-> board[i].version, shape |-> board[i].shape]
  BY DEF Version
<1>5. \A i \in active : /\ shown[i].id = i /\ shown[i].version = board[i].version
                        /\ shown[i].shape = board[i].shape
  BY <1>4
<1>6. \A i \in active : i \in DOMAIN board /\ i \in Int /\ board[i].version \in 0 .. edits
  BY <1>1 DEF BoardInv
<1> HIDE DEF active
<1>7. shown \in Surjection(active, Visible(at))
  <2>1. shown \in [active -> Visible(at)]
    BY <1>3
  <2>2. \A e \in Visible(at) : \E i \in active : shown[i] = e
    BY <1>3
  <2>3. QED BY <2>1, <2>2 DEF Surjection
<1>8. IsFiniteSet(Visible(at))
  BY <1>2, <1>7, FS_Surjection
<1> HIDE DEF shown
<1>9. ASSUME NEW e \in Visible(at)
      PROVE  /\ e.id \in active /\ e = shown[e.id] /\ IsVersion(e) /\ e.version <= edits
             /\ e.version = board[e.id].version /\ e.shape = board[e.id].shape
  <2>1. PICK i \in active : e = shown[i]
    BY <1>3
  <2>2. e.id = i /\ e.version = board[i].version /\ e.shape = board[i].shape
    BY <1>5, <2>1
  <2>3. e = [id |-> e.id, version |-> e.version, shape |-> e.shape]
    BY <1>4, <2>1, <2>2
  <2>4. e.id \in Int /\ e.version \in Nat /\ e.version <= edits
    BY <1>6, <2>2 DEF BoardInv
  <2>5. QED BY <2>1, <2>2, <2>3, <2>4 DEF IsVersion
<1>10. Known(Visible(at))
  BY <1>9 DEF Known
<1>11. \A e \in Visible(at) : e.id \in Int
  BY <1>9, <1>6
<1>12. \A e, f \in Visible(at) : e.id = f.id => e = f
  BY <1>9
<1>13. QED BY <1>8, <1>10, <1>11, <1>12

\* What is written is a version nobody knows yet; what is withdrawn is known all the same.
LEMMA WriteKnown ==
  ASSUME BoardInv, NEW S, Known(S), Publish \/ Cancel
  PROVE  BoardInv' /\ Known(S)'
<1>1. edits \in Nat /\ edits' = edits + 1
  BY DEF BoardInv, Publish, Cancel, Write
<1>2. CASE Publish
  <2>1. PICK o \in Offers :
          board' = [i \in DOMAIN board \cup {o[1]} |->
                     IF i = o[1] THEN [version |-> edits + 1, written |-> clock, shape |-> o[2]]
                     ELSE board[i]]
    BY <1>2 DEF Publish, Write
  <2> PICK id : id = o[1]
    OBVIOUS
  <2>2. id \in Int
    BY VenAssumption DEF IsOffer
  <2>3. /\ DOMAIN board' = DOMAIN board \cup {id}
        /\ board'[id].version = edits + 1
        /\ \A i \in DOMAIN board \ {id} : board'[i] = board[i]
    BY <2>1
  <2>4. IsFiniteSet(DOMAIN board')
    BY <2>3, FS_AddElement DEF BoardInv
  <2>5. BoardInv'
    BY <1>1, <2>2, <2>3, <2>4 DEF BoardInv
  <2>6. ASSUME NEW e \in S
        PROVE  /\ IsVersion(e) /\ e.version <= edits'
               /\ e.id \in DOMAIN board' /\ board'[e.id].version = e.version
                  => board'[e.id].shape = e.shape
    <3>1. IsVersion(e) /\ e.version <= edits /\ e.version \in Nat
      BY DEF Known, IsVersion
    <3>2. QED BY <1>1, <2>3, <3>1 DEF Known
  <2>7. Known(S)'
    BY <2>6 DEF Known
  <2>8. QED BY <2>5, <2>7
<1>3. CASE Cancel
  <2>1. PICK id \in DOMAIN board : board' = [i \in DOMAIN board \ {id} |-> board[i]]
    BY <1>3 DEF Cancel, Write
  <2>2. DOMAIN board' = DOMAIN board \ {id} /\ \A i \in DOMAIN board' : board'[i] = board[i]
    BY <2>1
  <2>3. IsFiniteSet(DOMAIN board')
    BY <2>2, FS_RemoveElement DEF BoardInv
  <2>4. BoardInv'
    BY <1>1, <2>2, <2>3 DEF BoardInv
  <2>5. Known(S)'
    BY <1>1, <2>2 DEF Known, IsVersion
  <2>6. QED BY <2>4, <2>5
<1>4. QED BY <1>2, <1>3

\* A page is a part of what is shown.
LEMMA PageOK ==
  ASSUME BoardInv, NEW skip \in Nat
  PROVE  /\ Page(skip) \subseteq Visible(clock) /\ Known(Page(skip))
         /\ IsFiniteSet(Page(skip)) /\ Cardinality(Page(skip)) \in Nat
         /\ \A e \in Visible(clock) : Position(e, Visible(clock)) \in Nat
         /\ Cardinality(Page(skip)) < PageLimit =>
              \A e \in Visible(clock) : Position(e, Visible(clock)) < skip + PageLimit
<1>1. Page(skip) \subseteq Visible(clock)
  BY DEF Page
<1>2. Known(Page(skip))
  BY <1>1, VisibleOK DEF Known
<1>3. QED BY <1>1, <1>2, VisibleOK, LastPage DEF Page

\* A first page that is not full is all there is.
LEMMA WholePage ==
  ASSUME BoardInv, Cardinality(Page(0)) < PageLimit
  PROVE  Page(0) = Visible(clock)
<1>1. \A e \in Visible(clock) :
        Position(e, Visible(clock)) \in Nat /\ Position(e, Visible(clock)) < 0 + PageLimit
  BY PageOK
<1>2. \A e \in Visible(clock) : Position(e, Visible(clock)) \in 0 .. 0 + PageLimit - 1
  BY <1>1, VenAssumption
<1>3. QED BY <1>2 DEF Page

\* With the tag it has, the VEN holds what is shown: a 304 hides nothing.
LEMMA UnchangedHeld ==
  ASSUME BoardInv, Known(held), TagOK, etag = {EntityTag(Page(0))}
  PROVE  held = Visible(clock)
<1> PICK page : page = Page(0)
  OBVIOUS
<1>1. /\ page \subseteq Visible(clock) /\ Known(page) /\ IsFiniteSet(page)
      /\ Cardinality(page) \in Nat
  BY PageOK
<1>2. EntityTag(page) = EntityTag(held) /\ IsFiniteSet(held) /\ Cardinality(held) < PageLimit
  BY DEF TagOK
<1>3. ASSUME NEW e \in page PROVE \E h \in held : h.id = e.id /\ h.version = e.version
  <2>1. <<e.id, e.version>> \in EntityTag(held)
    BY <1>2 DEF EntityTag
  <2>2. PICK h \in held : <<e.id, e.version>> = <<h.id, h.version>>
    BY <2>1 DEF EntityTag
  <2>3. QED BY <2>2
<1>4. ASSUME NEW h \in held PROVE \E e \in page : h.id = e.id /\ h.version = e.version
  <2>1. <<h.id, h.version>> \in EntityTag(page)
    BY <1>2 DEF EntityTag
  <2>2. PICK e \in page : <<h.id, h.version>> = <<e.id, e.version>>
    BY <2>1 DEF EntityTag
  <2>3. QED BY <2>2
<1>5. ASSUME NEW e \in page, NEW h \in held, h.id = e.id, h.version = e.version PROVE h = e
  <2>1. IsVersion(e) /\ IsVersion(h)
    BY <1>1 DEF Known
  <2>2. PICK i \in DOMAIN board : e = Version(i)
    BY <1>1 DEF Visible
  <2>3. i = e.id /\ board[i].version = e.version /\ board[i].shape = e.shape
    BY <2>2 DEF Version
  <2>4. h.shape = e.shape
    BY <1>5, <2>2, <2>3 DEF Known
  <2>5. QED BY <1>5, <2>1, <2>4 DEF IsVersion
<1>6. page = held
  BY <1>3, <1>4, <1>5
<1>7. Cardinality(page) < PageLimit
  BY <1>2, <1>6
<1>8. page = Visible(clock)
  BY <1>7, WholePage
<1>9. QED BY <1>6, <1>8

\* One page more of what has not changed is that much more of it.
LEMMA ReadOn ==
  ASSUME BoardInv, NEW a, a.skip \in Nat, ReadSoFar(a, Visible(clock)), NEW read,
         read = Merged(a.events, Page(a.skip))
  PROVE  /\ read = {e \in Visible(clock) : Position(e, Visible(clock)) < a.skip + PageLimit}
         /\ Cardinality(Page(a.skip)) < PageLimit => read = Visible(clock)
<1> PICK V : V = Visible(clock)
  OBVIOUS
<1>1. a.events = {e \in V : Position(e, V) < a.skip} /\ PageLimit \in Nat \ {0}
  BY VenAssumption DEF ReadSoFar
<1>2. Page(a.skip) = {e \in V : Position(e, V) \in a.skip .. a.skip + PageLimit - 1}
  BY DEF Page
<1>3. \A e \in V : Position(e, V) \in Nat
  BY PageOK
<1>4. read = {e \in V : Position(e, V) < a.skip + PageLimit}
  <2>1. \A e, f \in V : e.id = f.id => e = f
    BY DEF Visible, Version
  <2>2. a.events \subseteq V /\ Page(a.skip) \subseteq V
    BY <1>1, <1>2
  <2>3. read = a.events \cup Page(a.skip)
    BY <2>1, <2>2 DEF Merged
  <2>4. QED BY <1>1, <1>2, <1>3, <2>3
<1>5. Cardinality(Page(a.skip)) < PageLimit => \A e \in V : Position(e, V) < a.skip + PageLimit
  BY PageOK
<1>6. QED BY <1>4, <1>5

\* The first answer.
LEMMA AskReads == ReadInv /\ Ask => ReadInv'
<1> SUFFICES ASSUME ReadInv, Ask PROVE ReadInv'
  OBVIOUS
<1> PICK page : page = Page(0)
  OBVIOUS
<1>1. BoardInv /\ Known(held) /\ TagOK /\ PageLimit \in Nat \ {0}
  BY VenAssumption DEF ReadInv
<1>2. /\ page \subseteq Visible(clock) /\ Known(page) /\ IsFiniteSet(page)
      /\ Cardinality(page) \in Nat
      /\ \A e \in Visible(clock) : Position(e, Visible(clock)) \in Nat
  BY <1>1, PageOK
<1>3. /\ view' = {Visible(clock)}
      /\ UNCHANGED <<board, edits, clock, held, etag>>
  BY DEF Ask, vtn, cache
<1>4. Known(page)' /\ BoardInv' /\ Known(held)' /\ TagOK'
  BY <1>1, <1>2, <1>3 DEF Known, BoardInv, TagOK, EntityTag
<1>5. CASE etag = {EntityTag(page)}
  <2>1. pc' = "apply" /\ answer' = {}
    BY <1>5 DEF Ask
  <2>2. held = Visible(clock)
    BY <1>1, <1>5, UnchangedHeld
  <2>3. QED BY <1>3, <1>4, <2>1, <2>2 DEF ReadInv, HoldsWhatWasServed, Synchronised
<1>6. CASE etag # {EntityTag(page)} /\ Cardinality(page) >= PageLimit
  <2>1. pc' = "more" /\ answer' = {[skip |-> 0, first |-> page, events |-> {}]}
    BY <1>6 DEF Ask
  <2> PICK a : a = [skip |-> 0, first |-> page, events |-> {}]
    OBVIOUS
  <2>2. a.skip = 0 /\ a.first = page /\ a.events = {}
    OBVIOUS
  <2>3. ReadSoFar(a, Visible(clock))
    BY <1>2, <2>2 DEF ReadSoFar
  <2>4. AnswerOK(a)'
    <3>1. Known(a.events)'
      BY <2>2 DEF Known
    <3>2. ~(Cardinality(a.first) < PageLimit) /\ Cardinality(a.first) >= PageLimit
      BY <1>1, <1>2, <1>6, <2>2
    <3>3. \A v \in view' : ReadSoFar(a, v)'
      BY <1>3, <2>3 DEF ReadSoFar, Position
    <3>4. QED BY <1>2, <2>1, <2>2, <3>1, <3>2, <3>3 DEF AnswerOK
  <2>5. QED BY <1>4, <2>1, <2>4 DEF ReadInv, HoldsWhatWasServed, Synchronised
<1>7. CASE etag # {EntityTag(page)} /\ ~(Cardinality(page) >= PageLimit)
  <2>1. pc' = "apply" /\ answer' = {[skip |-> PageLimit, first |-> page, events |-> page]}
    BY <1>7 DEF Ask
  <2> PICK a : a = [skip |-> PageLimit, first |-> page, events |-> page]
    OBVIOUS
  <2>2. a.first = page /\ a.events = page
    OBVIOUS
  <2>3. page = Visible(clock)
    BY <1>1, <1>2, <1>7, WholePage
  <2>4. AnswerOK(a)'
    BY <1>2, <1>3, <1>4, <2>1, <2>2, <2>3 DEF AnswerOK
  <2>5. QED BY <1>4, <2>1, <2>4 DEF ReadInv, HoldsWhatWasServed, Synchronised
<1>8. QED BY <1>5, <1>6, <1>7

\* Another page.
LEMMA AskMoreReads == ReadInv /\ AskMore => ReadInv'
<1> SUFFICES ASSUME ReadInv, AskMore PROVE ReadInv'
  OBVIOUS
<1>1. BoardInv /\ Known(held) /\ TagOK /\ PageLimit \in Nat \ {0} /\ pc = "more"
  BY VenAssumption DEF ReadInv, AskMore
<1>2. PICK a : answer = {a} /\ AnswerOK(a)
  BY DEF ReadInv, AskMore
<1>3. /\ Cardinality(a.first) >= PageLimit /\ Cardinality(a.first) \in Nat
      /\ a.skip \in Nat /\ \A v \in view : ReadSoFar(a, v)
  BY <1>1, <1>2, FS_CardinalityType DEF AnswerOK
<1> PICK page : page = Page(a.skip)
  OBVIOUS
<1> PICK read : read = Merged(a.events, page)
  OBVIOUS
<1> PICK b : b = [a EXCEPT !.skip = a.skip + PageLimit, !.events = read]
  OBVIOUS
<1>4. /\ answer' = {b} /\ pc' = IF Cardinality(page) < PageLimit THEN "apply" ELSE "more"
      /\ view' = view \cap {Visible(clock)} /\ UNCHANGED <<board, edits, clock, held, etag>>
  BY <1>2 DEF AskMore, vtn, cache
<1>5. b = [skip |-> a.skip + PageLimit, first |-> a.first, events |-> read]
  BY <1>2 DEF AnswerOK
<1>6. b.skip = a.skip + PageLimit /\ b.first = a.first /\ b.events = read
  BY <1>5
<1>7. ASSUME NEW v \in view, v = Visible(clock)
      PROVE  /\ ReadSoFar(b, v)
             /\ Cardinality(page) < PageLimit => read = v
  <2>1. ReadSoFar(a, Visible(clock))
    BY <1>3, <1>7
  <2>2. read = Merged(a.events, Page(a.skip))
    OBVIOUS
  <2>3. /\ read = {e \in v : Position(e, v) < a.skip + PageLimit}
        /\ Cardinality(page) < PageLimit => read = v
    BY <1>1, <1>3, <1>7, <2>1, <2>2, ReadOn
  <2>4. QED BY <1>6, <2>3 DEF ReadSoFar
<1>8. Known(page) /\ Cardinality(page) \in Nat
  BY <1>1, <1>3, PageOK
<1>9. Known(read)' /\ BoardInv' /\ Known(held)' /\ TagOK'
  <2>1. read \subseteq a.events \cup page
    BY DEF Merged
  <2>2. QED BY <1>1, <1>2, <1>4, <1>8, <2>1 DEF Known, BoardInv, TagOK, EntityTag, AnswerOK
<1>10. AnswerOK(b)'
  <2>1. b.skip \in Nat /\ \A v \in view' : ReadSoFar(b, v)
    BY <1>1, <1>3, <1>4, <1>6, <1>7
  <2>2. pc' = "apply" => \A v \in view' : b.events = v
    BY <1>4, <1>6, <1>7
  <2>3. ~(Cardinality(b.first) < PageLimit) /\ Cardinality(b.first) >= PageLimit
    BY <1>1, <1>3, <1>6
  <2>4. QED BY <1>2, <1>5, <1>6, <1>9, <2>1, <2>2, <2>3 DEF AnswerOK
<1>11. ~Synchronised'
  BY <1>4 DEF Synchronised
<1>12. QED BY <1>4, <1>9, <1>10, <1>11 DEF ReadInv, HoldsWhatWasServed

\* What was read is put in place of what was held, or is the same.
LEMMA ApplyReads == ReadInv /\ Apply => ReadInv'
<1> SUFFICES ASSUME ReadInv, Apply PROVE ReadInv'
  OBVIOUS
<1>1. /\ BoardInv /\ Known(held) /\ TagOK /\ PageLimit \in Nat \ {0} /\ pc = "apply"
      /\ pc' = "report" /\ answer' = {} /\ UNCHANGED <<board, edits, view>>
  BY VenAssumption DEF ReadInv, Apply, vtn
<1>2. CASE answer = {}
  <2>1. UNCHANGED <<held, etag>> /\ \A v \in view : held = v
    BY <1>1, <1>2 DEF Apply, Keep, ReadInv
  <2>2. BoardInv' /\ Known(held)' /\ TagOK'
    BY <1>1, <2>1 DEF Known, BoardInv, TagOK, EntityTag
  <2>3. QED BY <1>1, <2>1, <2>2 DEF ReadInv, HoldsWhatWasServed
<1>3. CASE answer # {}
  <2>1. PICK a : answer = {a} /\ AnswerOK(a)
    BY <1>3 DEF ReadInv
  <2>2. etag' = TagKept(a)
    BY <1>3, <2>1 DEF Apply
  <2>3. held' = a.events
    <3>1. CASE a.events = held
      BY <1>3, <2>1, <3>1 DEF Apply, Keep
    <3>2. CASE a.events # held
      BY <1>3, <2>1, <3>2 DEF Apply, Renew
    <3>3. QED BY <3>1, <3>2
  <2>4. \A v \in view : a.events = v
    BY <1>1, <2>1 DEF AnswerOK
  <2>5. BoardInv' /\ Known(held)'
    BY <1>1, <2>1, <2>3 DEF Known, BoardInv, AnswerOK
  <2>6. TagOK'
    <3>1. IsFiniteSet(a.first) /\ Cardinality(a.first) \in Nat
      BY <2>1, FS_CardinalityType DEF AnswerOK
    <3>2. CASE Cardinality(a.first) >= PageLimit
      BY <2>2, <3>2 DEF TagOK, TagKept
    <3>3. CASE ~(Cardinality(a.first) >= PageLimit)
      <4>1. etag' = {EntityTag(a.first)}
        BY <2>2, <3>3 DEF TagKept
      <4>2. Cardinality(a.first) < PageLimit /\ held' = a.first
        BY <1>1, <2>1, <2>3, <3>1, <3>3 DEF AnswerOK
      <4>3. QED BY <3>1, <4>1, <4>2 DEF TagOK, EntityTag
    <3>4. QED BY <3>2, <3>3
  <2>7. QED BY <1>1, <2>3, <2>4, <2>5, <2>6 DEF ReadInv, HoldsWhatWasServed
<1>4. QED BY <1>2, <1>3

\* A process that ends has read nothing.
LEMMA CrashReads == ReadInv /\ Crash => ReadInv'
<1> SUFFICES ASSUME ReadInv, Crash PROVE ReadInv'
  OBVIOUS
<1>1. /\ BoardInv /\ pc' = "down" /\ answer' = {} /\ held' = {} /\ etag' = {}
      /\ UNCHANGED <<board, edits, view>>
  BY DEF ReadInv, Crash, vtn
<1>2. BoardInv' /\ Known(held)' /\ TagOK'
  BY <1>1 DEF Known, BoardInv, TagOK
<1>3. QED BY <1>1, <1>2 DEF ReadInv, HoldsWhatWasServed, Synchronised

\* What others write leaves what was read as it was.
LEMMA WriteReads == ReadInv /\ (Publish \/ Cancel) => ReadInv'
<1> SUFFICES ASSUME ReadInv, Publish \/ Cancel PROVE ReadInv'
  OBVIOUS
<1>1. BoardInv /\ Known(held) /\ TagOK
  BY DEF ReadInv
<1>2. UNCHANGED <<held, etag, answer, view, pc>>
  BY DEF Publish, Cancel, Write, history, cache
<1>3. BoardInv' /\ Known(held)'
  <2>1. Known(held) => BoardInv' /\ \A e \in held : e \in held'
    BY <1>1, <1>2, WriteKnown
  <2>2. PICK S : S = held
    OBVIOUS
  <2>3. Known(S)'
    BY <1>1, <2>2, WriteKnown DEF Known
  <2>4. QED BY <1>1, <1>2, <2>1, <2>2, <2>3 DEF Known
<1>4. TagOK'
  BY <1>1, <1>2 DEF TagOK, EntityTag
<1>5. ASSUME NEW a, answer = {a}, AnswerOK(a) PROVE answer' = {a} /\ AnswerOK(a)'
  <2>1. Known(a.events)'
    BY <1>1, <1>5, WriteKnown DEF AnswerOK
  <2>2. QED BY <1>2, <1>5, <2>1 DEF AnswerOK, ReadSoFar, Position
<1>6. QED BY <1>2, <1>3, <1>4, <1>5 DEF ReadInv, HoldsWhatWasServed, Synchronised

\* Nor does what happens between two reads.
LEMMA ReadStays ==
  ASSUME ReadInv, UNCHANGED <<board, edits, held, etag, answer, view>>,
         pc' = pc \/ (pc' \notin {"more", "apply"} /\ (Synchronised' => Synchronised))
  PROVE  ReadInv'
<1>1. BoardInv' /\ Known(held)' /\ TagOK'
  BY DEF ReadInv, BoardInv, Known, TagOK, EntityTag
<1>2. ASSUME NEW a, answer = {a}, AnswerOK(a) PROVE answer' = {a} /\ AnswerOK(a)'
  BY <1>2 DEF AnswerOK, ReadSoFar, Position, Known
<1>3. pc' = "apply" /\ answer' = {} => \A v \in view' : held' = v
  BY DEF ReadInv
<1>4. HoldsWhatWasServed'
  BY DEF ReadInv, HoldsWhatWasServed, Synchronised
<1>5. QED BY <1>1, <1>2, <1>3, <1>4 DEF ReadInv

\* The invariant of reading.
LEMMA ReadInvNext == ReadInv /\ [Next]_vars => ReadInv'
<1> SUFFICES ASSUME ReadInv, [Next]_vars PROVE ReadInv'
  OBVIOUS
<1> USE DEF history, cache, vtn, push, Synchronised
<1>1. CASE Publish \/ Cancel
  BY <1>1, WriteReads
<1>2. CASE Ask
  BY <1>2, AskReads
<1>3. CASE AskMore
  BY <1>3, AskMoreReads
<1>4. CASE Apply
  BY <1>4, ApplyReads
<1>5. CASE Crash
  BY <1>5, CrashReads
<1>6. CASE Provision \/ Tick \/ Pushes \/ SetBack
  BY <1>6, ReadStays DEF Provision, Tick, Pushes, ConnAck, Subscribed, Hear, Disconnect, Forget,
                         SetBack
<1>7. CASE Subscribe \/ Register \/ ListResources \/ Waken \/ Restart
  BY <1>7, ReadStays DEF Subscribe, Register, ListResources, Waken, Restart
<1>8. CASE Create
  BY <1>8, ReadStays DEF Create, Created, Conflict
<1>9. CASE Plan \/ Sleep
  BY <1>9, ReadStays DEF Plan, Sleep
<1>10. CASE File \/ Decline \/ FileUnanswered
  BY <1>10, ReadStays DEF File, Decline, FileUnanswered
<1>11. CASE UNCHANGED vars
  BY <1>11, ReadStays DEF vars
<1>12. QED
  BY <1>1, <1>2, <1>3, <1>4, <1>5, <1>6, <1>7, <1>8, <1>9, <1>10, <1>11 DEF Next, Loop

\* It holds in the beginning.
LEMMA ReadInvInit == Init => ReadInv
<1> SUFFICES ASSUME Init PROVE ReadInv
  OBVIOUS
<1>1. PICK offers \in InitialBoards :
        board = [i \in {o[1] : o \in offers} |->
                    [version |-> 0, written |-> Start,
                     shape |-> (CHOOSE o \in offers : o[1] = i)[2]]]
  BY DEF Init
<1>2. IsFiniteSet(offers) /\ \A o \in offers : o[1] \in Int
  BY VenAssumption DEF IsOffer
<1>3. DOMAIN board = {o[1] : o \in offers} /\ \A i \in DOMAIN board : board[i].version = 0
  BY <1>1
<1>4. IsFiniteSet(DOMAIN board)
  <2> DEFINE ids == [o \in offers |-> o[1]]
  <2>1. ids \in Surjection(offers, DOMAIN board)
    BY <1>3 DEF Surjection
  <2>2. QED BY <1>2, <2>1, FS_Surjection
<1>5. edits = 0 /\ answer = {} /\ etag = {} /\ held = {} /\ view = {} /\ pc = "start"
  BY DEF Init
<1>6. BoardInv
  BY <1>2, <1>3, <1>4, <1>5 DEF BoardInv
<1>7. QED BY <1>5, <1>6 DEF ReadInv, Known, TagOK, HoldsWhatWasServed, Synchronised

\* After a cycle the VEN holds what the VTN held when it answered: its tag is that of a
\* page that was all there was, and a version of an event never says two things.
THEOREM ServedIsHeld == Spec => []HoldsWhatWasServed
<1>1. Init => ReadInv
  BY ReadInvInit
<1>2. ReadInv /\ [Next]_vars => ReadInv'
  BY ReadInvNext
<1>3. ReadInv => HoldsWhatWasServed
  BY DEF ReadInv
<1>4. QED BY <1>1, <1>2, <1>3, PTL DEF Spec

-----------------------------------------------------------------------------
(***************************************************************************)
(* What the VEN remembers of its reports.                                  *)
(***************************************************************************)

\* One more of each of some reports.
LEMMA OneMore ==
  ASSUME NEW bag, IsABag(bag), NEW S, NEW more, more = bag (+) SetToBag(S)
  PROVE  /\ IsABag(more)
         /\ \A key : Copies(key, bag) \in Nat
         /\ \A key \in S : Copies(key, more) = Copies(key, bag) + 1
         /\ \A key : key \notin S => Copies(key, more) = Copies(key, bag)
<1>1. \A key \in DOMAIN bag : bag[key] \in Nat /\ bag[key] > 0
  BY DEF IsABag
<1>2. /\ DOMAIN more = DOMAIN bag \cup S
      /\ \A key \in DOMAIN more : more[key] = (IF key \in DOMAIN bag THEN bag[key] ELSE 0)
                                              + (IF key \in S THEN 1 ELSE 0)
  BY DEF (+), SetToBag
<1>3. \A key \in DOMAIN more : more[key] \in Nat /\ more[key] > 0
  BY <1>1, <1>2
<1>4. more = [key \in DOMAIN more |-> more[key]]
  BY DEF (+)
<1>5. IsABag(more)
  BY <1>3, <1>4 DEF IsABag
<1>6. \A key : Copies(key, bag) = IF key \in DOMAIN bag THEN bag[key] ELSE 0
  BY DEF Copies, BagIn, BagToSet
<1>7. \A key : Copies(key, more) = IF key \in DOMAIN more THEN more[key] ELSE 0
  BY DEF Copies, BagIn, BagToSet
<1>8. QED BY <1>1, <1>2, <1>5, <1>6, <1>7

\* A process that has ended remembers what it wrote.
Remembers == IF pc = "down" THEN saved ELSE reported

\* One copy of each report is of what is remembered, and for every other there was a reason.
Excusable ==
    \A key \in DOMAIN filed :
        \/ Copies(key, filed) <= Copies(key, excused)
        \/ key \in Remembers /\ Copies(key, filed) <= 1 + Copies(key, excused)

ReportInv ==
    /\ IsABag(filed) /\ IsABag(excused)
    /\ Excusable
    /\ todo \cap reported = {} /\ (pc # "file" => todo = {})
    /\ pc \in {"start", "create", "resources"} => reported = saved

\* While nothing is filed it is enough that nothing is forgotten without a reason.
LEMMA ReportStays ==
  ASSUME ReportInv, filed' = filed, NEW forgotten,
         \/ excused' = excused (+) SetToBag(forgotten)
         \/ excused' = excused /\ forgotten = {},
         Remembers \subseteq Remembers' \cup forgotten,
         todo' \cap reported' = {}, pc' # "file" => todo' = {},
         pc' \in {"start", "create", "resources"} => reported' = saved'
  PROVE  ReportInv'
<1>1. /\ IsABag(excused')
      /\ \A key : Copies(key, excused) \in Nat /\ Copies(key, filed) \in Nat
      /\ \A key : Copies(key, excused') \in Nat /\ Copies(key, excused') >= Copies(key, excused)
      /\ \A key \in forgotten : Copies(key, excused') = Copies(key, excused) + 1
  <2>1. /\ IsABag(excused) /\ \A key : Copies(key, excused) \in Nat
        /\ \A key : Copies(key, filed) \in Nat
    BY OneMore DEF ReportInv
  <2>2. CASE excused' = excused /\ forgotten = {}
    BY <2>1, <2>2
  <2>3. CASE excused' = excused (+) SetToBag(forgotten)
    <3> PICK more : more = excused'
      OBVIOUS
    <3>1. /\ IsABag(more)
          /\ \A key \in forgotten : Copies(key, more) = Copies(key, excused) + 1
          /\ \A key : key \notin forgotten => Copies(key, more) = Copies(key, excused)
      BY <2>1, <2>3, OneMore
    <3>2. QED BY <2>1, <3>1
  <2>4. QED BY <2>2, <2>3
<1>2. ASSUME NEW key \in DOMAIN filed'
      PROVE  \/ Copies(key, filed') <= Copies(key, excused')
             \/ key \in Remembers' /\ Copies(key, filed') <= 1 + Copies(key, excused')
  <2>1. \/ Copies(key, filed) <= Copies(key, excused)
        \/ key \in Remembers /\ Copies(key, filed) <= 1 + Copies(key, excused)
    BY DEF ReportInv, Excusable
  <2>2. filed' = filed
    OBVIOUS
  <2>3. CASE Copies(key, filed) <= Copies(key, excused)
    BY <1>1, <2>2, <2>3
  <2>4. CASE key \in Remembers /\ Copies(key, filed) <= 1 + Copies(key, excused)
    BY <1>1, <2>2, <2>4
  <2>5. QED BY <2>1, <2>3, <2>4
<1>3. Excusable'
  BY <1>2 DEF Excusable, Copies
<1>4. QED BY <1>1, <1>3 DEF ReportInv

\* A report that is filed was not remembered before, and is then; if its answer is lost
\* there is a reason.
LEMMA FileReports ==
  ASSUME ReportInv, NEW key \in todo, filed' = filed (+) SetToBag({key}), pc = "file", pc' = pc,
         UNCHANGED saved,
         \/ excused' = excused /\ reported' = reported \cup {key} /\ todo' = todo \ {key}
         \/ excused' = excused (+) SetToBag({key}) /\ reported' = reported /\ todo' = {}
  PROVE  ReportInv'
<1>1. IsABag(filed) /\ IsABag(excused) /\ key \notin reported /\ todo \cap reported = {}
  BY DEF ReportInv
<1>2. /\ IsABag(filed') /\ IsABag(excused') /\ reported \subseteq reported'
      /\ \A k : Copies(k, excused) \in Nat /\ Copies(k, filed) \in Nat
      /\ \A k : k # key => /\ Copies(k, filed') = Copies(k, filed)
                           /\ Copies(k, excused') = Copies(k, excused)
      /\ Copies(key, filed') = Copies(key, filed) + 1
      /\ \/ Copies(key, excused') = Copies(key, excused) /\ key \in reported'
         \/ Copies(key, excused') = Copies(key, excused) + 1
  <2> PICK f : f = filed'
    OBVIOUS
  <2> PICK e : e = excused'
    OBVIOUS
  <2>1. /\ IsABag(f) /\ \A k : Copies(k, filed) \in Nat
        /\ \A k : k # key => Copies(k, f) = Copies(k, filed)
        /\ Copies(key, f) = Copies(key, filed) + 1
    BY <1>1, OneMore
  <2>2. CASE excused' = excused /\ reported' = reported \cup {key}
    <3>1. \A k : Copies(k, excused) \in Nat
      BY <1>1, OneMore
    <3>2. key \in reported' /\ reported \subseteq reported'
      BY <2>2
    <3>3. QED BY <1>1, <2>1, <2>2, <3>1, <3>2
  <2>3. CASE excused' = excused (+) SetToBag({key}) /\ reported' = reported
    <3>1. /\ IsABag(e) /\ \A k : Copies(k, excused) \in Nat
          /\ \A k : k # key => Copies(k, e) = Copies(k, excused)
          /\ Copies(key, e) = Copies(key, excused) + 1
      BY <1>1, <2>3, OneMore
    <3>2. QED BY <2>1, <2>3, <3>1
  <2>4. QED BY <2>2, <2>3
<1>3. ASSUME NEW k \in DOMAIN filed'
      PROVE  \/ Copies(k, filed') <= Copies(k, excused')
             \/ k \in reported' /\ Copies(k, filed') <= 1 + Copies(k, excused')
  <2>1. \/ Copies(k, filed) <= Copies(k, excused)
        \/ k \in reported /\ Copies(k, filed) <= 1 + Copies(k, excused)
    <3>1. CASE k \in DOMAIN filed
      BY <3>1 DEF ReportInv, Excusable, Remembers
    <3>2. CASE k \notin DOMAIN filed
      BY <1>2, <3>2 DEF Copies, BagIn, BagToSet
    <3>3. QED BY <3>1, <3>2
  <2>2. CASE k # key
    BY <1>2, <2>1, <2>2
  <2>3. CASE k = key
    BY <1>1, <1>2, <2>1, <2>3
  <2>4. QED BY <2>2, <2>3
<1>4. Excusable'
  BY <1>3 DEF Excusable, Remembers, Copies
<1>5. todo' \cap reported' = {}
  BY <1>1
<1>6. QED BY <1>2, <1>4, <1>5 DEF ReportInv

\* The invariant of reporting.
LEMMA ReportInvNext == ReportInv /\ [Next]_vars => ReportInv'
<1> SUFFICES ASSUME ReportInv, [Next]_vars PROVE ReportInv'
  OBVIOUS
<1> DEFINE Still == /\ UNCHANGED <<filed, excused, reported, todo, saved>>
                    /\ pc # "down" /\ pc' # "down" /\ (pc' # "file" => pc # "file")
                    /\ pc' \in {"start", "create", "resources"}
                       => pc \in {"start", "create", "resources"}
<1>1. ASSUME UNCHANGED <<filed, excused, reported, todo, saved, pc>> PROVE ReportInv'
  BY <1>1, ReportStays DEF ReportInv, Remembers
<1>2. ASSUME Still PROVE ReportInv'
  BY <1>2, ReportStays DEF ReportInv, Remembers
<1> HIDE DEF Still
<1> USE DEF history, cache, vtn, push
<1>3. CASE Publish \/ Cancel
  BY <1>1, <1>3 DEF Publish, Cancel, Write
<1>4. CASE Provision \/ Tick \/ Pushes \/ SetBack
  BY <1>1, <1>4 DEF Provision, Tick, Pushes, ConnAck, Subscribed, Hear, Disconnect, Forget, SetBack
<1>5. CASE Subscribe \/ Register \/ ListResources \/ Waken
  BY <1>1, <1>2, <1>5 DEF Subscribe, Register, ListResources, Waken, Still
<1>6. CASE Ask \/ AskMore
  BY <1>2, <1>6 DEF Ask, AskMore, Still
<1>7. CASE Create
  <2>1. PICK name \in missing : Created(name) \/ Conflict(name)
    BY <1>7 DEF Create
  <2>2. CASE Created(name)
    BY <1>2, <1>7, <2>2 DEF Create, Created, Still
  <2>3. CASE Conflict(name)
    BY <1>7, <2>3, ReportStays DEF Create, Conflict, ReportInv, Remembers
  <2>4. QED BY <2>1, <2>2, <2>3
<1>8. CASE Apply
  <2>1. /\ pc = "apply" /\ pc' = "report" /\ UNCHANGED <<filed, todo, saved>> /\ todo = {}
    BY <1>8 DEF Apply, ReportInv
  <2>2. CASE answer = {} \/ \E a \in answer : a.events = held
    <3>1. UNCHANGED <<reported, excused>>
      BY <1>8, <2>2 DEF Apply, Keep
    <3>2. QED BY <2>1, <3>1, ReportStays DEF Remembers
  <2>3. CASE ~(answer = {} \/ \E a \in answer : a.events = held)
    <3>1. PICK a \in answer : Renew(a.events, VenNow)
      BY <1>8, <2>3 DEF Apply
    <3>2. PICK gone : /\ reported' = {k \in reported : k.event \notin gone}
                      /\ excused' = excused (+) SetToBag({k \in reported : k.event \in gone})
      BY <3>1 DEF Renew
    <3>3. PICK forgotten : forgotten = {k \in reported : k.event \in gone}
      OBVIOUS
    <3>4. Remembers \subseteq Remembers' \cup forgotten
      BY <2>1, <3>2, <3>3 DEF Remembers
    <3>5. QED BY <2>1, <3>2, <3>3, <3>4, ReportStays
  <2>4. QED BY <2>2, <2>3
<1>9. CASE Plan
  <2>1. /\ pc = "report" /\ pc' = "file" /\ UNCHANGED <<filed, excused, reported, saved>>
        /\ todo' \cap reported = {}
    BY <1>9 DEF Plan, DueReports
  <2>2. QED BY <2>1, ReportStays DEF Remembers
<1>10. CASE Sleep
  <2>1. /\ pc = "file" /\ pc' = "wait" /\ UNCHANGED <<filed, excused, reported>>
        /\ saved' = reported /\ todo = {} /\ todo' = {}
    BY <1>10 DEF Sleep
  <2>2. QED BY <2>1, ReportStays DEF Remembers
<1>11. CASE File
  BY <1>11, FileReports DEF File
<1>12. CASE Decline
  <2>1. /\ pc = "file" /\ UNCHANGED <<filed, excused, reported, saved, pc>> /\ todo' \subseteq todo
    BY <1>12 DEF Decline
  <2>2. QED BY <2>1, ReportStays DEF Remembers, ReportInv
<1>13. CASE FileUnanswered
  <2>1. PICK key \in todo, arrived \in BOOLEAN :
          /\ filed' = IF arrived THEN filed (+) SetToBag({key}) ELSE filed
          /\ excused' = IF arrived THEN excused (+) SetToBag({key}) ELSE excused
          /\ reported' = reported
    BY <1>13 DEF FileUnanswered, Remembered
  <2>2. pc = "file" /\ pc' = pc /\ todo' = {} /\ saved' = saved
    BY <1>13 DEF FileUnanswered
  <2>3. CASE arrived
    BY <2>1, <2>2, <2>3, FileReports
  <2>4. CASE ~arrived
    BY <2>1, <2>2, <2>4, ReportStays DEF Remembers
  <2>5. QED BY <2>3, <2>4
<1>14. CASE Crash
  <2>1. /\ pc # "down" /\ pc' = "down" /\ UNCHANGED <<filed, saved>> /\ reported' = {} /\ todo' = {}
        /\ excused' = excused (+) SetToBag(reported \ saved)
    BY <1>14 DEF Crash
  <2>2. Remembers \subseteq Remembers' \cup (reported \ saved)
    BY <2>1 DEF Remembers
  <2>3. PICK forgotten : forgotten = reported \ saved
    OBVIOUS
  <2>4. QED BY <2>1, <2>2, <2>3, ReportStays
<1>15. CASE Restart
  <2>1. /\ pc = "down" /\ pc' = "start" /\ UNCHANGED <<filed, excused, todo, saved>>
        /\ reported' = saved /\ todo = {}
    BY <1>15 DEF Restart, Restored, ReportInv
  <2>2. QED BY <2>1, ReportStays DEF Remembers
<1>16. CASE UNCHANGED vars
  BY <1>1, <1>16 DEF vars
<1>17. QED
  BY <1>3, <1>4, <1>5, <1>6, <1>7, <1>8, <1>9, <1>10, <1>11, <1>12, <1>13, <1>14, <1>15, <1>16
     DEF Next, Loop

\* It holds in the beginning.
LEMMA ReportInvInit == Init => ReportInv
BY DEF Init, ReportInv, Excusable, IsABag, EmptyBag, SetToBag

\* A report is filed again only when there was a reason: what is filed is remembered, and
\* nothing is forgotten but with its event, in a crash, or for want of an answer.
THEOREM RepeatsAreExcused == Spec => []OnlyFaultsRepeat
<1>1. Init => ReportInv
  BY ReportInvInit
<1>2. ReportInv /\ [Next]_vars => ReportInv'
  BY ReportInvNext
<1>3. ReportInv => OnlyFaultsRepeat
  <2> SUFFICES ASSUME ReportInv, NEW key \in DOMAIN filed
               PROVE  Copies(key, filed) <= 1 + Copies(key, excused)
    BY DEF OnlyFaultsRepeat, BagToSet
  <2>1. Copies(key, filed) \in Nat /\ Copies(key, excused) \in Nat
    BY OneMore DEF ReportInv
  <2>2. QED BY <2>1 DEF ReportInv, Excusable
<1>4. QED BY <1>1, <1>2, <1>3, PTL DEF Spec

-----------------------------------------------------------------------------
(***************************************************************************)
(* How long the VEN sleeps.                                                *)
(***************************************************************************)

\* Every segment begins and ends at an instant, as far as it ends.
TimelinesAreTimed == \A p \in DOMAIN timelines : Boundaries(timelines[p]) \subseteq Int

\* The VEN is to wake no later than the next change of its schedule.
LEMMA WakesInTime ==
  ASSUME TimelinesAreTimed, NEW now \in Int,
         NEW p \in DOMAIN timelines, NEW t \in Boundaries(timelines[p]), t > now
  PROVE  UntilWakeup(now) \in Int /\ now + UntilWakeup(now) <= t
<1> DEFINE Later(q) == {u \in Boundaries(timelines[q]) : u > now}
           all == UNION {NextChange(timelines[q], now) : q \in DOMAIN timelines}
<1>1. \A q \in DOMAIN timelines : NextChange(timelines[q], now) \subseteq Later(q)
  BY DEF NextChange
<1>2. \A q \in DOMAIN timelines : Later(q) \subseteq Int /\ \A u \in Later(q) : u > now
  BY DEF TimelinesAreTimed
<1>3. PICK n \in Later(p) : \A u \in Later(p) : n <= u
  <2>1. t \in Later(p)
    OBVIOUS
  <2> HIDE DEF Later
  <2>2. QED BY <1>2, <2>1, FirstLater
<1>4. n \in NextChange(timelines[p], now) /\ n <= t
  BY <1>3 DEF NextChange
<1>5. n \in all
  BY <1>4
<1>6. all \subseteq Int /\ \A u \in all : u > now
  BY <1>1, <1>2
<1> HIDE DEF all, Later
<1>7. PICK m \in all : \A u \in all : m <= u
  BY <1>5, <1>6, FirstLater
<1>8. NextChangeOf(now) = {u \in all : \A v \in all : u <= v}
  BY DEF NextChangeOf, all
<1> PICK change : change = NextChangeOf(now)
  OBVIOUS
<1>9. m \in change
  BY <1>7, <1>8
<1> PICK e : e = TheElement(change)
  OBVIOUS
<1>10. e \in change
  BY <1>9 DEF TheElement
<1>11. e \in Int /\ e <= n
  BY <1>5, <1>6, <1>8, <1>10
<1>12. UntilWakeup(now) = LesserOf(e - now, Poll)
  BY <1>9 DEF UntilWakeup
<1>13. Poll \in Int /\ n \in Int /\ t \in Int
  BY <1>5, <1>6, VenAssumption DEF TimelinesAreTimed
<1>14. QED BY <1>4, <1>11, <1>12, <1>13 DEF LesserOf

\* A VEN that sleeps wakes before its schedule changes, by a clock that is only set back.
SleepInv ==
    /\ clock \in Int /\ skew \in Int
    /\ pc = "wait" =>
         /\ asleep.since \in Int
         /\ \A p \in DOMAIN timelines : \A t \in Boundaries(timelines[p]) :
              t > asleep.since => asleep.until \in Int /\ asleep.until + skew <= t

\* The invariant of sleeping.
LEMMA SleepInvNext == SleepInv /\ TimelinesAreTimed /\ [Next]_vars => SleepInv'
<1> SUFFICES ASSUME SleepInv, TimelinesAreTimed, [Next]_vars PROVE SleepInv'
  OBVIOUS
<1>1. ASSUME UNCHANGED <<clock, skew, asleep, timelines>>, pc' = "wait" => pc = "wait"
      PROVE  SleepInv'
  BY <1>1 DEF SleepInv
<1>2. ASSUME UNCHANGED <<clock, skew>>, pc' # "wait" PROVE SleepInv'
  BY <1>2 DEF SleepInv
<1> USE DEF history, cache, vtn, push
<1>3. CASE Publish \/ Cancel
  BY <1>1, <1>3 DEF Publish, Cancel, Write
<1>4. CASE Provision \/ Pushes
  BY <1>1, <1>4 DEF Provision, Pushes, ConnAck, Subscribed, Hear, Disconnect, Forget
<1>5. CASE Subscribe \/ Register \/ ListResources \/ Waken \/ Restart
  BY <1>1, <1>5 DEF Subscribe, Register, ListResources, Waken, Restart
<1>6. CASE Ask \/ AskMore
  BY <1>1, <1>6 DEF Ask, AskMore
<1>7. CASE Create
  BY <1>1, <1>7 DEF Create, Created, Conflict
<1>8. CASE Apply \/ Crash
  BY <1>2, <1>8 DEF Apply, Crash
<1>9. CASE Plan \/ File \/ Decline \/ FileUnanswered
  BY <1>1, <1>9 DEF Plan, File, Decline, FileUnanswered
<1>10. CASE Tick
  <2>1. clock' = clock + 1 /\ UNCHANGED <<skew, asleep, timelines, pc>>
    BY <1>10 DEF Tick
  <2>2. QED BY <2>1 DEF SleepInv
<1>11. CASE SetBack
  <2>1. skew' = skew - 1 /\ UNCHANGED <<clock, asleep, timelines, pc>>
    BY <1>11 DEF SetBack
  <2>2. ASSUME pc = "wait", NEW p \in DOMAIN timelines, NEW t \in Boundaries(timelines[p]),
               t > asleep.since
        PROVE  asleep.until \in Int /\ asleep.until + (skew - 1) <= t
    <3>1. asleep.until \in Int /\ skew \in Int /\ asleep.until + skew <= t /\ t \in Int
      BY <2>2 DEF SleepInv, TimelinesAreTimed
    <3>2. QED BY <3>1
  <2>3. QED BY <2>1, <2>2 DEF SleepInv
<1>12. CASE Sleep
  <2> PICK now : now = VenNow
    OBVIOUS
  <2>1. now = clock + skew /\ now \in Int /\ clock \in Int /\ skew \in Int
    BY DEF VenNow, SleepInv
  <2>2. /\ UNCHANGED <<clock, skew, timelines>>
        /\ asleep' = [since |-> now, until |-> clock + UntilWakeup(now)]
    BY <1>12 DEF Sleep
  <2>3. asleep'.since = now /\ asleep'.until = clock + UntilWakeup(now)
    BY <2>2
  <2>4. ASSUME NEW p \in DOMAIN timelines, NEW t \in Boundaries(timelines[p]), t > now
        PROVE  asleep'.until \in Int /\ asleep'.until + skew <= t
    <3>1. UntilWakeup(now) \in Int /\ now + UntilWakeup(now) <= t /\ t \in Int
      BY <2>1, <2>4, WakesInTime DEF TimelinesAreTimed
    <3>2. QED BY <2>1, <2>3, <3>1
  <2>5. QED BY <2>1, <2>2, <2>3, <2>4 DEF SleepInv
<1>13. CASE UNCHANGED vars
  BY <1>1, <1>13 DEF vars
<1>14. QED
  BY <1>3, <1>4, <1>5, <1>6, <1>7, <1>8, <1>9, <1>10, <1>11, <1>12, <1>13 DEF Next, Loop

\* It holds in the beginning.
LEMMA SleepInvInit == Init => SleepInv
BY ClockAssumption DEF Init, SleepInv

\* What is in force does not change before the VEN wakes.
LEMMA SleepIsSafe == SleepInv /\ TimelinesAreTimed => NoChangeIsSleptThrough
<1> SUFFICES ASSUME SleepInv, TimelinesAreTimed, Asleep, VenNow >= asleep.since
             PROVE  ActiveSegments(timelines, VenNow) = ActiveSegments(timelines, asleep.since)
  BY DEF NoChangeIsSleptThrough
<1> PICK now : now = VenNow
  OBVIOUS
<1> PICK since : since = asleep.since
  OBVIOUS
<1>1. now \in Int /\ since \in Int /\ since <= now /\ clock \in Int /\ now = clock + skew
      /\ skew \in Int /\ pc = "wait"
  BY DEF SleepInv, VenNow, Asleep
<1>2. ASSUME NEW p \in DOMAIN timelines, NEW t \in Boundaries(timelines[p])
      PROVE  t \in Int /\ (t > now <=> t > since)
  <2>1. t \in Int
    BY DEF TimelinesAreTimed
  <2>2. t > since => asleep.until \in Int /\ asleep.until + skew <= t
    BY <1>1 DEF SleepInv
  <2>3. clock < asleep.until
    BY DEF Asleep
  <2>4. QED BY <1>1, <2>1, <2>2, <2>3
<1>3. ASSUME NEW p \in DOMAIN timelines, NEW s \in Segments(timelines[p])
      PROVE  Within(s, now) <=> Within(s, since)
  <2>1. s.start \in Boundaries(timelines[p]) /\ s.end \subseteq Boundaries(timelines[p])
    BY DEF Boundaries
  <2>2. s.start \in Int /\ (s.start > now <=> s.start > since)
    BY <1>2, <2>1
  <2>3. \A e \in s.end : e \in Int /\ (e > now <=> e > since)
    BY <1>2, <2>1
  <2>4. now >= s.start <=> since >= s.start
    BY <1>1, <2>2
  <2>5. \A e \in s.end : now < e <=> since < e
    BY <1>1, <2>3
  <2>6. QED BY <2>4, <2>5 DEF Within
<1>4. \A p \in DOMAIN timelines : InForceAt(timelines[p], now) = InForceAt(timelines[p], since)
  BY <1>3 DEF InForceAt
<1>5. QED BY <1>4 DEF ActiveSegments

-----------------------------------------------------------------------------
(***************************************************************************)
(* Two timelines of the same events tell the same of an instant that both  *)
(* reach.                                                                  *)
(***************************************************************************)

\* Nothing is in force, or one segment, which says what one event asks for, in both.
TellAlike(A, B, ids) ==
    \/ A = {} /\ B = {}
    \/ \E a, b : A = {a} /\ B = {b} /\ Tells(a, b) /\ a.event \in ids

\* A sequence has at most one first interval that asks for something.
LEMMA AskedFirstOnce ==
  ASSUME NEW s, Sound(s), NEW t, NEW m \in Nat, NEW n \in Nat, NEW i, NEW j,
         AsksFirst(s, m, i, t), AsksFirst(s, n, j, t)
  PROVE  i = j
<1>1. m = n
  <2>1. ~(m < n) /\ ~(n < m)
    BY DEF AsksFirst
  <2>2. QED BY <2>1
<1>2. i \in Get(s, m) /\ j \in Get(s, m)
  BY <1>1 DEF AsksFirst
<1>3. Get(s, m) = {} \/ \E k : Get(s, m) = {k}
  BY GetIs
<1>4. QED BY <1>2, <1>3

\* Two windows that accept the same events tell the same of an instant of both.
LEMMA WindowsTellAlike ==
  ASSUME NEW E, Rivals(E), \A e \in E : Sound(Sequenced(e)), NEW t \in Nat,
         NEW from \in Int, NEW to \in Nat, from <= t, t < to, to <= MaxTime,
         NEW since \in Int, NEW until \in Nat, since <= t, t < until, until <= MaxTime,
         \A e \in E : Fine(ExpandWindow(e, e.anchor, from, to))
                         <=> Fine(ExpandWindow(e, e.anchor, since, until))
  PROVE  TellAlike(InForceAt(BuildTimeline(E, from, to), t),
                InForceAt(BuildTimeline(E, since, until), t), {e.id : e \in E})
<1>1. PICK one : one = BuildTimeline(E, from, to)
  OBVIOUS
<1>2. PICK two : two = BuildTimeline(E, since, until)
  OBVIOUS
<1>3. one \in Seq(Taken) /\ Resolves(one, E, from, to, t)
  BY <1>1, TimelineTells
<1>4. two \in Seq(Taken) /\ Resolves(two, E, since, until, t)
  BY <1>2, TimelineTells
<1>5. t < MaxTime
  BY IntervalsAssumption
<1>6. PICK A : A = InForceAt(one, t)
  OBVIOUS
<1>7. PICK B : B = InForceAt(two, t)
  OBVIOUS
<1>8. A = {one[m] : m \in {n \in DOMAIN one : one[n] \in Covering(t)}}
  BY <1>3, <1>5, <1>6, InForceCovers
<1>9. B = {two[m] : m \in {n \in DOMAIN two : two[n] \in Covering(t)}}
  BY <1>4, <1>5, <1>7, InForceCovers
<1>10. Bidding(E, from, to, t) = Bidding(E, since, until, t)
  BY DEF Bidding
<1>11. PICK bids : bids = Bidding(E, from, to, t)
  OBVIOUS
<1>12. CASE bids = {}
  <2>1. A = {}
    BY <1>3, <1>8, <1>11, <1>12 DEF Resolves, Exactly
  <2>2. B = {}
    BY <1>4, <1>9, <1>10, <1>11, <1>12 DEF Resolves, Exactly
  <2>3. QED BY <1>1, <1>2, <1>6, <1>7, <2>1, <2>2 DEF TellAlike
<1>13. CASE bids # {}
  <2>1. PICK m \in DOMAIN one : one[m] \in Covering(t)
    BY <1>3, <1>11, <1>13 DEF Resolves, Exactly
  <2>2. PICK n \in DOMAIN two : two[n] \in Covering(t)
    BY <1>4, <1>10, <1>11, <1>13 DEF Resolves, Exactly
  <2>3. A = {one[m]}
    BY <1>3, <1>8, <2>1 DEF Resolves, Exactly, Once
  <2>4. B = {two[n]}
    BY <1>4, <1>9, <2>2 DEF Resolves, Exactly, Once
  <2>5. PICK e : Wins(one[m], e, E, from, to, t)
    BY <1>3, <2>1 DEF Resolves
  <2>6. PICK f : Wins(two[n], f, E, since, until, t)
    BY <1>4, <2>2 DEF Resolves
  <2>7. /\ e \in bids /\ \A g \in bids \ {e} : Precedes(e, g)
        /\ f \in bids /\ \A g \in bids \ {f} : Precedes(f, g)
    BY <1>10, <1>11, <2>5, <2>6 DEF Wins
  <2>8. e \in E /\ f \in E
    BY <1>11, <2>7 DEF Bidding
  <2>9. e = f
    <3>1. Stated(e) /\ Stated(f)
      BY <2>8 DEF Rivals
    <3>2. e # f => Precedes(e, f) /\ Precedes(f, e)
      BY <2>7
    <3>3. ~Precedes(e, e)
      BY <3>1, Precedence
    <3>4. Precedes(e, f) /\ Precedes(f, e) => Precedes(e, e)
      BY <3>1, Precedence
    <3>5. QED BY <3>2, <3>3, <3>4
  <2>10. PICK k \in Nat : \E i : AsksFirst(Sequenced(e), k, i, t) /\ Tells(one[m], Claim(e, i))
    BY <2>5 DEF Wins
  <2>11. PICK i : AsksFirst(Sequenced(e), k, i, t) /\ Tells(one[m], Claim(e, i))
    BY <2>10
  <2>12. PICK l \in Nat : \E j : AsksFirst(Sequenced(e), l, j, t) /\ Tells(two[n], Claim(e, j))
    BY <2>6, <2>9 DEF Wins
  <2>13. PICK j : AsksFirst(Sequenced(e), l, j, t) /\ Tells(two[n], Claim(e, j))
    BY <2>12
  <2>14. i = j
    BY <2>8, <2>11, <2>13, AskedFirstOnce
  <2>15. Tells(one[m], two[n]) /\ one[m].event = e.id
    BY <2>11, <2>13, <2>14 DEF Tells, Claim
  <2>16. PICK a : a = one[m]
    OBVIOUS
  <2>17. PICK b : b = two[n]
    OBVIOUS
  <2>18. A = {a} /\ B = {b} /\ Tells(a, b) /\ a.event \in {g.id : g \in E}
    BY <2>3, <2>4, <2>8, <2>15, <2>16, <2>17
  <2>19. QED BY <1>1, <1>2, <1>6, <1>7, <2>18 DEF TellAlike
<1>14. QED BY <1>12, <1>13

\* A segment ranks as another that says the same.
LEMMA PreferredIs ==
  ASSUME NEW S, NEW s
  PROVE  s \in Preferred(S) <=>
            /\ s \in S
            /\ \A t \in S \ {s} : Precedes([priority |-> s.priority, id |-> s.event],
                                           [priority |-> t.priority, id |-> t.event])
BY DEF Preferred

\* Two families tell alike, each of the events of a set, and no two of these sets meet.
FamiliesAlike(P, F, G, ids) ==
    /\ \A p \in P : TellAlike(F[p], G[p], ids[p])
    /\ \A p, q \in P : p # q => ids[p] \cap ids[q] = {}

Joined(P, F) == UNION {F[p] : p \in P}

\* What is preferred of some timelines is said by what is preferred of others that tell the
\* same, when no two timelines are of one event.
LEMMA PreferredAlike ==
  ASSUME NEW P, NEW ids, NEW F, NEW G, FamiliesAlike(P, F, G, ids),
         NEW S, S = Joined(P, F), NEW T, T = Joined(P, G)
  PROVE  Said(Preferred(S)) \subseteq Said(Preferred(T))
<1>1. SUFFICES ASSUME NEW s \in Preferred(S)
               PROVE  \E t \in Preferred(T) : Tells(s, t)
  <2> SUFFICES ASSUME NEW x \in Said(Preferred(S)) PROVE x \in Said(Preferred(T))
    OBVIOUS
  <2>1. PICK s \in Preferred(S) : x = <<s.event, s.interval, s.payloads>>
    BY DEF Said
  <2>2. PICK t \in Preferred(T) : Tells(s, t)
    BY <1>1
  <2>3. x = <<t.event, t.interval, t.payloads>>
    BY <2>1, <2>2 DEF Tells
  <2>4. QED BY <2>3 DEF Said
<1>2. s \in S /\ \A u \in S \ {s} : Precedes([priority |-> s.priority, id |-> s.event],
                                             [priority |-> u.priority, id |-> u.event])
  BY <1>1, PreferredIs
<1>3. PICK p \in P : s \in F[p]
  BY <1>2 DEF Joined
<1>4. PICK t : F[p] = {s} /\ G[p] = {t} /\ Tells(s, t) /\ s.event \in ids[p]
  BY <1>3 DEF TellAlike, FamiliesAlike
<1>5. t \in T
  BY <1>3, <1>4 DEF Joined
<1>6. ASSUME NEW v \in T \ {t}
      PROVE  Precedes([priority |-> t.priority, id |-> t.event],
                      [priority |-> v.priority, id |-> v.event])
  <2>1. PICK q \in P : v \in G[q]
    BY <1>6 DEF Joined
  <2>2. PICK u : F[q] = {u} /\ G[q] = {v} /\ Tells(u, v) /\ u.event \in ids[q]
    BY <2>1 DEF TellAlike, FamiliesAlike
  <2>3. q # p
    BY <1>4, <1>6, <2>2
  <2>4. u.event # s.event
    BY <1>3, <1>4, <2>1, <2>2, <2>3 DEF FamiliesAlike
  <2>5. u \in S \ {s}
    BY <2>1, <2>2, <2>4 DEF Joined
  <2>6. Precedes([priority |-> s.priority, id |-> s.event],
                 [priority |-> u.priority, id |-> u.event])
    BY <1>2, <2>5
  <2>7. /\ s.priority = t.priority /\ s.event = t.event
        /\ u.priority = v.priority /\ u.event = v.event
    BY <1>4, <2>2 DEF Tells
  <2>8. QED BY <2>6, <2>7
<1>7. t \in Preferred(T)
  BY <1>5, <1>6, PreferredIs
<1>8. QED BY <1>4, <1>7

\* What is timed as an event of a timeline must be.
Shaped(shape) == IsTimed(shape) /\ shape.priority \in OptionOf(Int)

\* A list of events, each with an id of its own.
Listed(S) ==
    /\ IsFiniteSet(S) /\ \A e \in S : e.id \in Int /\ Shaped(e.shape)
    /\ \A e, f \in S : e.id = f.id => e = f

\* Each was first read at an instant.
Anchors(S, since) == \A e \in S : e.id \in DOMAIN since /\ since[e.id] \in Nat

\* A window of the timelines made at an instant accepts an event.
AcceptedAt(e, since, now) ==
    Fine(ExpandWindow(Anchored(e, since[e.id]), since[e.id],
                      now - GreaterOf(1, Poll), now + Horizon))

\* The events of a programme as its timeline is computed from them.
EventsOf(S, since, p) == {Anchored(e, since[e.id]) : e \in {x \in S : x.shape.program = p}}

\* They are events that compete.
LEMMA EventsCompete ==
  ASSUME NEW S, Listed(S), NEW since, Anchors(S, since), NEW p
  PROVE  /\ Rivals(EventsOf(S, since, p))
         /\ \A a \in EventsOf(S, since, p) :
              /\ Sound(Sequenced(a))
              /\ \E e \in S : e.shape.program = p /\ a.id = e.id
                              /\ a = Anchored(e, since[e.id]) /\ a.anchor = since[e.id]
<1>1. PICK X : X = {x \in S : x.shape.program = p}
  OBVIOUS
<1>2. PICK E : E = EventsOf(S, since, p)
  OBVIOUS
<1>3. X \in SUBSET S /\ \A x \in X : x.shape.program = p
  BY <1>1
<1>4. PICK f : f = [x \in X |-> Anchored(x, since[x.id])]
  OBVIOUS
<1>5. E = {f[x] : x \in X}
  BY <1>1, <1>2, <1>4 DEF EventsOf
<1>6. ASSUME NEW x \in X
      PROVE  /\ f[x].id = x.id /\ f[x].anchor = since[x.id] /\ f[x].priority = x.shape.priority
             /\ f[x].start = x.shape.start /\ f[x].tick = x.shape.tick
             /\ f[x].intervals = x.shape.intervals /\ f[x].lasts = x.shape.lasts
             /\ f[x] = Anchored(x, since[x.id])
  BY <1>4 DEF Anchored
<1>7. ASSUME NEW x \in X
      PROVE  Stated(f[x]) /\ Sound(Sequenced(f[x]))
  <2>1. x \in S /\ x.id \in Int /\ Shaped(x.shape) /\ since[x.id] \in Nat
    BY <1>3 DEF Listed, Anchors
  <2>2. IsTimed(f[x])
    BY <1>6, <2>1 DEF Shaped, IsTimed
  <2>3. Stated(f[x]) /\ f[x].anchor \in Nat
    BY <1>6, <2>1 DEF Stated, Shaped
  <2>4. QED BY <2>2, <2>3, SequenceIsSound DEF Sequenced
<1>8. IsFiniteSet(E)
  <2>1. IsFiniteSet(X)
    BY <1>3, FS_Subset DEF Listed
  <2>2. f \in Surjection(X, E)
    BY <1>4, <1>5 DEF Surjection
  <2>3. QED BY <2>1, <2>2, FS_Surjection
<1>9. \A x, y \in X : f[x].id = f[y].id => f[x] = f[y]
  BY <1>3, <1>6 DEF Listed
<1>10. Rivals(E)
  <2>1. \A a \in E : Stated(a)
    BY <1>5, <1>7
  <2>2. \A a, b \in E : a.id = b.id => a = b
    BY <1>5, <1>9
  <2>3. QED BY <1>8, <2>1, <2>2 DEF Rivals
<1>11. ASSUME NEW a \in E
       PROVE  /\ Sound(Sequenced(a))
              /\ \E e \in S : e.shape.program = p /\ a.id = e.id
                              /\ a = Anchored(e, since[e.id]) /\ a.anchor = since[e.id]
  <2>1. PICK x \in X : a = f[x]
    BY <1>5
  <2>2. x \in S /\ x.shape.program = p
    BY <1>3
  <2>3. QED BY <1>6, <1>7, <2>1, <2>2
<1>12. QED BY <1>2, <1>10, <1>11

\* A timeline of the VEN lies in time.
LEMMA TimelinesLieInTime ==
  ASSUME NEW S, Listed(S), NEW since, Anchors(S, since), NEW now \in Nat,
         NEW p \in DOMAIN TimelinesAt(now, S, since)
  PROVE  TimelinesAt(now, S, since)[p] \in Seq(Taken)
<1>1. TimelinesAt(now, S, since)[p] =
         BuildTimeline(EventsOf(S, since, p), now - GreaterOf(1, Poll), now + Horizon)
  BY DEF TimelinesAt, EventsOf
<1>2. now - GreaterOf(1, Poll) \in Int /\ now + Horizon \in Nat
  BY VenAssumption DEF GreaterOf
<1>3. QED BY <1>1, <1>2, EventsCompete, TimelineTells

\* Timelines of the same events, made at two instants, say the same of an instant that both
\* reach, unless one of them refused an event and the other did not.
LEMMA TimelinesTellAlike ==
  ASSUME NEW S, Listed(S), NEW since, Anchors(S, since),
         NEW built \in Nat, NEW now \in Nat, built <= now, now < built + Horizon,
         now + Horizon <= MaxTime,
         \A e \in S : AcceptedAt(e, since, built) <=> AcceptedAt(e, since, now)
  PROVE  Said(Preferred(ActiveSegments(TimelinesAt(built, S, since), now)))
            = Said(Preferred(ActiveSegments(TimelinesAt(now, S, since), now)))
<1>1. PICK P : P = {e.shape.program : e \in S}
  OBVIOUS
<1>2. PICK past : past = TimelinesAt(built, S, since)
  OBVIOUS
<1>3. PICK fresh : fresh = TimelinesAt(now, S, since)
  OBVIOUS
<1>4. PICK back : back = GreaterOf(1, Poll)
  OBVIOUS
<1>5. /\ back \in Nat \ {0} /\ Horizon \in Nat \ {0}
      /\ built - back \in Int /\ built + Horizon \in Nat /\ built + Horizon <= MaxTime
      /\ now - back \in Int /\ now + Horizon \in Nat /\ now + Horizon <= MaxTime
      /\ built - back <= now /\ now < built + Horizon /\ now - back <= now /\ now < now + Horizon
  <2>1. back \in Nat \ {0} /\ Horizon \in Nat \ {0} /\ MaxTime \in Nat
    BY <1>4, VenAssumption, IntervalsAssumption DEF GreaterOf
  <2>2. QED BY <2>1
<1>6. /\ DOMAIN past = P /\ DOMAIN fresh = P
      /\ \A p \in P :
           /\ past[p] = BuildTimeline(EventsOf(S, since, p), built - back, built + Horizon)
           /\ fresh[p] = BuildTimeline(EventsOf(S, since, p), now - back, now + Horizon)
  BY <1>1, <1>2, <1>3, <1>4 DEF TimelinesAt, EventsOf
<1>7. PICK F : F = [p \in P |-> InForceAt(past[p], now)]
  OBVIOUS
<1>8. PICK G : G = [p \in P |-> InForceAt(fresh[p], now)]
  OBVIOUS
<1>9. PICK ids : ids = [p \in P |-> {a.id : a \in EventsOf(S, since, p)}]
  OBVIOUS
<1>10. ASSUME NEW p \in P
       PROVE  TellAlike(F[p], G[p], ids[p])
  <2>1. PICK E : E = EventsOf(S, since, p)
    OBVIOUS
  <2>2. /\ Rivals(E) /\ \A a \in E : Sound(Sequenced(a))
        /\ \A a \in E : \E e \in S : /\ a = Anchored(e, since[e.id])
                                     /\ a.anchor = since[e.id]
    BY <2>1, EventsCompete
  <2>3. \A a \in E : Fine(ExpandWindow(a, a.anchor, built - back, built + Horizon))
                       <=> Fine(ExpandWindow(a, a.anchor, now - back, now + Horizon))
    BY <1>4, <2>2 DEF AcceptedAt
  <2>4. TellAlike(InForceAt(BuildTimeline(E, built - back, built + Horizon), now),
               InForceAt(BuildTimeline(E, now - back, now + Horizon), now),
               {a.id : a \in E})
    BY <1>5, <2>2, <2>3, WindowsTellAlike
  <2>5. QED BY <1>6, <1>7, <1>8, <1>9, <2>1, <2>4
<1>11. ASSUME NEW p \in P, NEW q \in P, p # q PROVE ids[p] \cap ids[q] = {}
  <2> SUFFICES ASSUME NEW i \in ids[p], i \in ids[q] PROVE FALSE
    OBVIOUS
  <2>1. PICK a \in EventsOf(S, since, p) : i = a.id
    BY <1>9
  <2>2. PICK b \in EventsOf(S, since, q) : i = b.id
    BY <1>9
  <2>3. PICK e \in S : e.shape.program = p /\ a.id = e.id
    BY EventsCompete
  <2>4. PICK f \in S : f.shape.program = q /\ b.id = f.id
    BY EventsCompete
  <2>5. e = f
    BY <2>1, <2>2, <2>3, <2>4 DEF Listed
  <2>6. QED BY <1>11, <2>3, <2>4, <2>5
<1>12. PICK A : A = ActiveSegments(past, now)
  OBVIOUS
<1>13. PICK B : B = ActiveSegments(fresh, now)
  OBVIOUS
<1>14. A = Joined(P, F) /\ B = Joined(P, G)
  BY <1>6, <1>7, <1>8, <1>12, <1>13 DEF ActiveSegments, Joined
<1>15. \A p, q \in P : p # q => ids[p] \cap ids[q] = {}
  BY <1>11
<1>16. Said(Preferred(A)) \subseteq Said(Preferred(B))
  <2>1. FamiliesAlike(P, F, G, ids)
    BY <1>10, <1>15 DEF FamiliesAlike
  <2>2. QED BY ONLY <1>14, <2>1, PreferredAlike
<1>17. Said(Preferred(B)) \subseteq Said(Preferred(A))
  <2>1. ASSUME NEW p \in P PROVE TellAlike(G[p], F[p], ids[p])
    <3>1. TellAlike(F[p], G[p], ids[p])
      BY <1>10
    <3>2. CASE F[p] = {} /\ G[p] = {}
      BY <3>2 DEF TellAlike
    <3>3. CASE ~(F[p] = {} /\ G[p] = {})
      <4>1. PICK a, b : F[p] = {a} /\ G[p] = {b} /\ Tells(a, b) /\ a.event \in ids[p]
        BY <3>1, <3>3 DEF TellAlike
      <4>2. Tells(b, a) /\ b.event \in ids[p]
        BY <4>1 DEF Tells
      <4>3. QED BY <4>1, <4>2 DEF TellAlike
    <3>4. QED BY <3>2, <3>3
  <2>2. FamiliesAlike(P, G, F, ids)
    BY <1>15, <2>1 DEF FamiliesAlike
  <2>3. QED BY ONLY <1>14, <2>2, PreferredAlike
<1>18. QED BY <1>2, <1>3, <1>12, <1>13, <1>16, <1>17

-----------------------------------------------------------------------------
(***************************************************************************)
(* What the VEN's timelines are made of: ScheduleInv.                      *)
(***************************************************************************)

\* Whatever is published is timed, and what was read of it is a list of timed events.
BoardShaped == \A i \in DOMAIN board : Shaped(board[i].shape)

\* The VEN holds a list of events, each first read at an instant.
HeldInv ==
    /\ BoardShaped /\ \A a \in answer : Listed(a.events)
    /\ Listed(held) /\ Anchors(held, anchors)

\* Its clock reads an instant, at which a timeline is in range.
TimeInv ==
    /\ clock \in Nat /\ Start <= clock /\ clock <= MaxClock
    /\ skew \in Int /\ Start + skew >= 0 /\ \E s \in Skews : skew <= s

\* Its timelines are those of what it holds, as they were at some instant.
LinesInv ==
    \/ builtAt = {} /\ held = {} /\ DOMAIN timelines = {}
    \/ \E b \in Nat : /\ builtAt = {b} /\ b + Horizon <= MaxTime
                      /\ timelines = TimelinesAt(b, held, anchors)

ScheduleInv == HeldInv /\ TimeInv /\ LinesInv

\* What the clock reads.
LEMMA ReadsAnInstant == TimeInv => VenNow \in Nat /\ VenNow + Horizon <= MaxTime
<1> SUFFICES ASSUME TimeInv PROVE VenNow \in Nat /\ VenNow + Horizon <= MaxTime
  OBVIOUS
<1>1. PICK s \in Skews : skew <= s
  BY DEF TimeInv
<1>2. s \in Int /\ MaxClock + s + Horizon <= MaxTime
  BY ClockAssumption
<1>3. /\ clock \in Nat /\ Start <= clock /\ clock <= MaxClock /\ skew \in Int
      /\ Start + skew >= 0 /\ VenNow = clock + skew
  BY DEF TimeInv, VenNow
<1>4. Start \in Nat /\ MaxClock \in Nat /\ Horizon \in Nat /\ MaxTime \in Nat
  BY ClockAssumption, VenAssumption, IntervalsAssumption
<1>5. QED BY <1>1, <1>2, <1>3, <1>4

\* A part of a list is a list.
LEMMA PartIsListed ==
  ASSUME NEW S, Listed(S), NEW T, T \subseteq S
  PROVE  Listed(T)
BY FS_Subset DEF Listed

\* What is shown is a list.
LEMMA ShownIsListed ==
  ASSUME BoardInv, BoardShaped, NEW at
  PROVE  Listed(Visible(at))
<1>1. ASSUME NEW e \in Visible(at) PROVE Shaped(e.shape)
  <2>1. PICK i \in DOMAIN board : e = Version(i)
    BY DEF Visible
  <2>2. e.shape = board[i].shape
    BY <2>1 DEF Version
  <2>3. QED BY <2>2 DEF BoardShaped
<1>2. QED BY <1>1, VisibleOK DEF Listed

\* Two lists are merged into one.
LEMMA MergedIsListed ==
  ASSUME NEW S, Listed(S), NEW page, Listed(page)
  PROVE  Listed(Merged(S, page))
<1> PICK rest : rest = {e \in S : \A f \in page : f.id # e.id}
  OBVIOUS
<1>1. Merged(S, page) = rest \cup page
  BY DEF Merged
<1>2. rest \subseteq S /\ IsFiniteSet(S) /\ IsFiniteSet(page)
  BY DEF Listed
<1>3. IsFiniteSet(rest \cup page)
  BY <1>2, FS_Subset, FS_Union
<1>4. \A e \in rest \cup page : e.id \in Int /\ Shaped(e.shape)
  BY <1>2 DEF Listed
<1>5. \A e, f \in rest \cup page : e.id = f.id => e = f
  BY DEF Listed
<1>6. QED BY <1>1, <1>3, <1>4, <1>5 DEF Listed

\* What the VEN reads is a list.
LEMMA AskListed ==
  ASSUME ReadInv, HeldInv, Ask \/ AskMore
  PROVE  \A a \in answer' : Listed(a.events)
<1>1. BoardInv /\ BoardShaped
  BY DEF ReadInv, HeldInv
<1>2. ASSUME NEW skip PROVE Listed(Page(skip))
  <2>1. Page(skip) \subseteq Visible(clock)
    BY DEF Page
  <2>2. QED BY <1>1, <2>1, ShownIsListed, PartIsListed
<1>3. CASE Ask
  <2>1. ASSUME NEW a \in answer' PROVE a.events = {} \/ a.events = Page(0)
    BY <1>3, <2>1 DEF Ask
  <2>2. Listed({})
    BY FS_EmptySet DEF Listed
  <2>3. QED BY <1>2, <2>1, <2>2
<1>4. CASE AskMore
  <2>1. PICK a \in answer :
          answer' = {[a EXCEPT !.skip = @ + PageLimit, !.events = Merged(@, Page(a.skip))]}
    BY <1>4 DEF AskMore
  <2>2. a = [skip |-> a.skip, first |-> a.first, events |-> a.events]
    BY DEF ReadInv, AnswerOK
  <2> PICK read : read = Merged(a.events, Page(a.skip))
    OBVIOUS
  <2> PICK b : b = [a EXCEPT !.skip = a.skip + PageLimit, !.events = read]
    OBVIOUS
  <2>3. answer' = {b} /\ b.events = read
    BY <2>1, <2>2
  <2>4. Listed(read)
    BY <1>2, MergedIsListed DEF HeldInv
  <2>5. QED BY <2>3, <2>4
<1>5. QED BY <1>3, <1>4

\* What is published is timed.
LEMMA WriteShaped == BoardShaped /\ (Publish \/ Cancel) => BoardShaped'
<1> SUFFICES ASSUME BoardShaped, Publish \/ Cancel PROVE BoardShaped'
  OBVIOUS
<1>1. CASE Publish
  <2>1. PICK o \in Offers :
          board' = [i \in DOMAIN board \cup {o[1]} |->
                     IF i = o[1] THEN [version |-> edits + 1, written |-> clock, shape |-> o[2]]
                     ELSE board[i]]
    BY <1>1 DEF Publish, Write
  <2> PICK id : id = o[1]
    OBVIOUS
  <2> PICK shape : shape = o[2]
    OBVIOUS
  <2>2. Shaped(shape)
    BY VenAssumption DEF IsOffer, Shaped
  <2>3. /\ DOMAIN board' = DOMAIN board \cup {id} /\ board'[id].shape = shape
        /\ \A i \in DOMAIN board \ {id} : board'[i] = board[i]
    BY <2>1
  <2>4. QED BY <2>2, <2>3 DEF BoardShaped
<1>2. CASE Cancel
  <2>1. PICK id \in DOMAIN board : board' = [i \in DOMAIN board \ {id} |-> board[i]]
    BY <1>2 DEF Cancel, Write
  <2>2. QED BY <2>1 DEF BoardShaped
<1>3. QED BY <1>1, <1>2

\* What the VEN acts on is what its timelines say at an instant: those it has are those of
\* what it holds.
LEMMA ApplySchedules ==
  ASSUME ReadInv, ScheduleInv, Apply
  PROVE  HeldInv' /\ LinesInv'
<1>1. HeldInv /\ LinesInv /\ VenNow \in Nat /\ VenNow + Horizon <= MaxTime
  BY ReadsAnInstant DEF ScheduleInv
<1> PICK now : now = VenNow
  OBVIOUS
<1>2. board' = board /\ answer' = {}
  BY DEF Apply, vtn
<1>3. BoardShaped'
  BY <1>1, <1>2 DEF HeldInv, BoardShaped
<1>4. CASE Keep(now)
  <2>1. held' = held /\ anchors' = anchors
    BY <1>4 DEF Keep
  <2>2. HeldInv'
    BY <1>1, <1>2, <1>3, <2>1 DEF HeldInv
  <2>3. CASE Stale(now)
    <3>1. timelines' = TimelinesAt(now, held, anchors) /\ builtAt' = {now}
      BY <1>4, <2>3 DEF Keep
    <3>2. QED BY <1>1, <2>1, <2>2, <3>1 DEF LinesInv
  <2>4. CASE ~Stale(now)
    <3>1. timelines' = timelines /\ builtAt' = builtAt
      BY <1>4, <2>4 DEF Keep
    <3>2. QED BY <1>1, <2>1, <2>2, <3>1 DEF LinesInv
  <2>5. QED BY <2>3, <2>4
<1>5. ASSUME NEW a \in answer, Renew(a.events, now) PROVE HeldInv' /\ LinesInv'
  <2> PICK read : read = a.events
    OBVIOUS
  <2> PICK since : since = [i \in Live(read) |->
                              IF i \in Reanchored(read) THEN now ELSE anchors[i]]
    OBVIOUS
  <2>1. /\ held' = read /\ anchors' = since /\ builtAt' = {now}
        /\ timelines' = TimelinesAt(now, read, since)
    BY <1>5 DEF Renew
  <2>2. Listed(read)
    BY <1>1 DEF HeldInv
  <2>3. ASSUME NEW e \in read PROVE e.id \in DOMAIN since /\ since[e.id] \in Nat
    <3>1. e.id \in Live(read)
      BY DEF Live
    <3>2. CASE e.id \in Reanchored(read)
      BY <1>1, <3>1, <3>2
    <3>3. CASE e.id \notin Reanchored(read)
      <4>1. PICK h \in held : h.id = e.id
        BY <3>3 DEF Reanchored
      <4>2. anchors[h.id] \in Nat
        BY <1>1 DEF HeldInv, Anchors
      <4>3. QED BY <3>1, <3>3, <4>1, <4>2
    <3>4. QED BY <3>2, <3>3
  <2>4. Anchors(read, since)
    BY <2>3 DEF Anchors
  <2>5. HeldInv'
    BY <1>2, <1>3, <2>1, <2>2, <2>4 DEF HeldInv
  <2>6. LinesInv'
    BY <1>1, <2>1 DEF LinesInv
  <2>7. QED BY <2>5, <2>6
<1>6. Keep(now) \/ \E a \in answer : Renew(a.events, now)
  BY DEF Apply
<1>7. QED BY <1>4, <1>5, <1>6

\* The clocks go on, and the VEN's is set back no further than an instant.
LEMMA TimeGoesOn == TimeInv /\ [Next]_vars => TimeInv'
<1> SUFFICES ASSUME TimeInv, [Next]_vars PROVE TimeInv'
  OBVIOUS
<1> USE DEF history, cache, vtn, push
<1>1. ASSUME UNCHANGED <<clock, skew>> PROVE TimeInv'
  BY <1>1 DEF TimeInv
<1>2. CASE Tick
  <2>1. clock < MaxClock /\ clock' = clock + 1 /\ skew' = skew
    BY <1>2 DEF Tick
  <2>2. clock \in Nat /\ MaxClock \in Nat /\ Start \in Nat
    BY ClockAssumption DEF TimeInv
  <2>3. QED BY <2>1, <2>2 DEF TimeInv
<1>3. CASE SetBack
  <2>1. skew \in -MaxSkew .. MaxSkew /\ skew' = skew - 1 /\ clock' = clock
    BY <1>3 DEF SetBack
  <2>2. MaxSkew \in Nat /\ Start \in Nat /\ MaxSkew < Start /\ skew \in Int
    BY ClockAssumption DEF TimeInv
  <2>3. Start + skew' >= 0 /\ skew' \in Int
    BY <2>1, <2>2
  <2>4. PICK s \in Skews : skew <= s
    BY DEF TimeInv
  <2>5. s \in Int
    BY ClockAssumption
  <2>6. skew' <= s
    BY <2>1, <2>2, <2>4, <2>5
  <2>7. QED BY <2>1, <2>3, <2>6 DEF TimeInv
<1>4. CASE Publish \/ Cancel \/ Provision \/ Subscribe \/ Pushes
  BY <1>1, <1>4 DEF Publish, Cancel, Write, Provision, Subscribe, Pushes, ConnAck, Subscribed,
                    Hear, Disconnect, Forget
<1>5. CASE Register \/ ListResources \/ Create \/ Waken \/ Restart \/ Crash
  BY <1>1, <1>5 DEF Register, ListResources, Create, Created, Conflict, Waken, Restart, Crash
<1>6. CASE Ask \/ AskMore \/ Apply
  BY <1>1, <1>6 DEF Ask, AskMore, Apply
<1>7. CASE Plan \/ File \/ Decline \/ FileUnanswered \/ Sleep
  BY <1>1, <1>7 DEF Plan, File, Decline, FileUnanswered, Sleep
<1>8. CASE UNCHANGED vars
  BY <1>1, <1>8 DEF vars
<1>9. QED
  BY <1>2, <1>3, <1>4, <1>5, <1>6, <1>7, <1>8 DEF Next, Loop

\* What the VEN holds and what its timelines are made of is left alone but by an answer it
\* applies and by the end of the process.
LEMMA SchedulesStay ==
  ASSUME HeldInv, LinesInv, UNCHANGED <<held, anchors, builtAt, timelines>>,
         BoardShaped', \A a \in answer' : Listed(a.events)
  PROVE  HeldInv' /\ LinesInv'
<1>1. HeldInv'
  BY DEF HeldInv
<1>2. LinesInv'
  BY DEF LinesInv
<1>3. QED BY <1>1, <1>2

\* The invariant of timelines.
LEMMA ScheduleInvNext == ReadInv /\ ScheduleInv /\ [Next]_vars => ScheduleInv'
<1> SUFFICES ASSUME ReadInv, ScheduleInv, [Next]_vars PROVE ScheduleInv'
  OBVIOUS
<1>1. HeldInv /\ LinesInv /\ TimeInv'
  BY TimeGoesOn DEF ScheduleInv
<1>2. SUFFICES HeldInv' /\ LinesInv'
  BY <1>1 DEF ScheduleInv
<1>3. BoardShaped /\ \A a \in answer : Listed(a.events)
  BY <1>1 DEF HeldInv
<1>4. ASSUME UNCHANGED <<held, anchors, builtAt, timelines, answer>>, BoardShaped'
      PROVE  HeldInv' /\ LinesInv'
  BY <1>1, <1>3, <1>4, SchedulesStay
<1>5. ASSUME board' = board PROVE BoardShaped'
  BY <1>3, <1>5 DEF BoardShaped
<1> USE DEF history, cache, vtn, push
<1>6. CASE Publish \/ Cancel
  <2>1. UNCHANGED <<held, anchors, builtAt, timelines, answer>>
    BY <1>6 DEF Publish, Cancel, Write
  <2>2. QED BY <1>3, <1>4, <1>6, <2>1, WriteShaped
<1>7. CASE Ask \/ AskMore
  <2>1. UNCHANGED <<held, anchors, builtAt, timelines, board>>
    BY <1>7 DEF Ask, AskMore
  <2>2. \A a \in answer' : Listed(a.events)
    BY <1>1, <1>7, AskListed
  <2>3. QED BY <1>1, <1>5, <2>1, <2>2, SchedulesStay
<1>8. CASE Apply
  BY <1>8, ApplySchedules
<1>9. CASE Crash
  <2>1. /\ held' = {} /\ anchors' = <<>> /\ builtAt' = {} /\ timelines' = <<>>
        /\ answer' = {} /\ board' = board
    BY <1>9 DEF Crash
  <2>2. Listed({})
    BY FS_EmptySet DEF Listed
  <2>3. QED BY <1>5, <2>1, <2>2 DEF HeldInv, Anchors, LinesInv
<1>10. CASE Provision \/ Subscribe \/ Pushes \/ Tick \/ SetBack
  <2>1. UNCHANGED <<held, anchors, builtAt, timelines, answer, board>>
    BY <1>10 DEF Provision, Subscribe, Pushes, ConnAck, Subscribed, Hear, Disconnect, Forget,
                 Tick, SetBack
  <2>2. QED BY <1>4, <1>5, <2>1
<1>11. CASE Register \/ ListResources \/ Create \/ Waken \/ Restart
  <2>1. UNCHANGED <<held, anchors, builtAt, timelines, answer, board>>
    BY <1>11 DEF Register, ListResources, Create, Created, Conflict, Waken, Restart
  <2>2. QED BY <1>4, <1>5, <2>1
<1>12. CASE Plan \/ File \/ Decline \/ FileUnanswered \/ Sleep
  <2>1. UNCHANGED <<held, anchors, builtAt, timelines, answer, board>>
    BY <1>12 DEF Plan, File, Decline, FileUnanswered, Sleep
  <2>2. QED BY <1>4, <1>5, <2>1
<1>13. CASE UNCHANGED vars
  <2>1. UNCHANGED <<held, anchors, builtAt, timelines, answer, board>>
    BY <1>13 DEF vars
  <2>2. QED BY <1>4, <1>5, <2>1
<1>14. QED
  BY <1>6, <1>7, <1>8, <1>9, <1>10, <1>11, <1>12, <1>13 DEF Next, Loop

\* It holds in the beginning.
LEMMA ScheduleInvInit == Init => ScheduleInv
<1> SUFFICES ASSUME Init PROVE ScheduleInv
  OBVIOUS
<1>1. PICK offers \in InitialBoards :
        board = [i \in {o[1] : o \in offers} |->
                    [version |-> 0, written |-> Start,
                     shape |-> (CHOOSE o \in offers : o[1] = i)[2]]]
  BY DEF Init
<1>2. BoardShaped
  <2>1. ASSUME NEW i \in DOMAIN board PROVE Shaped(board[i].shape)
    <3>1. \E o \in offers : o[1] = i
      BY <1>1
    <3>2. PICK o : o = CHOOSE q \in offers : q[1] = i
      OBVIOUS
    <3>3. o \in offers
      BY <3>1, <3>2
    <3>4. board[i].shape = o[2]
      BY <1>1, <3>2
    <3>5. IsOffer(o)
      BY <3>3, VenAssumption
    <3>6. QED BY <3>4, <3>5 DEF IsOffer, Shaped
  <2>2. QED BY <2>1 DEF BoardShaped
<1>3. /\ held = {} /\ anchors = <<>> /\ builtAt = {} /\ timelines = <<>> /\ answer = {}
      /\ clock = Start /\ skew \in Skews
  BY DEF Init
<1>4. HeldInv /\ LinesInv
  <2>1. Listed({})
    BY FS_EmptySet DEF Listed
  <2>2. QED BY <1>2, <1>3, <2>1 DEF HeldInv, Anchors, LinesInv
<1>5. TimeInv
  <2>1. /\ skew \in Int /\ Start + skew >= 0 /\ Start \in Nat /\ MaxClock \in Nat
        /\ Start <= MaxClock
    BY <1>3, ClockAssumption
  <2>2. QED BY <1>3, <2>1 DEF TimeInv
<1>6. QED BY <1>4, <1>5 DEF ScheduleInv

\* Every segment begins and ends at an instant, as far as it ends.
LEMMA TimelinesOnTime == ScheduleInv => TimelinesAreTimed
<1> SUFFICES ASSUME ScheduleInv, NEW p \in DOMAIN timelines
             PROVE  Boundaries(timelines[p]) \subseteq Int
  BY DEF TimelinesAreTimed
<1>1. PICK b \in Nat : timelines = TimelinesAt(b, held, anchors)
  BY DEF ScheduleInv, LinesInv
<1>2. Listed(held) /\ Anchors(held, anchors)
  BY DEF ScheduleInv, HeldInv
<1>3. PICK line : line = timelines[p]
  OBVIOUS
<1>4. line \in Seq(Taken)
  BY <1>1, <1>2, <1>3, TimelinesLieInTime
<1>5. Boundaries(line) \subseteq Nat
  BY <1>4, BoundariesAreTimes
<1>6. QED BY <1>3, <1>5

\* Timelines of nothing say nothing.
LEMMA NothingInForce ==
  ASSUME NEW lines, DOMAIN lines = {}, NEW at
  PROVE  ActiveSegments(lines, at) = {}
BY DEF ActiveSegments

\* An event is refused for the number of its intervals when the timelines are built if and
\* only if it would be at the instant the VEN acts at.
RefusalsAgree ==
    \A b \in builtAt, e \in held :
        AcceptedAt(e, anchors, b) <=> AcceptedAt(e, anchors, acting.at)

\* What the VEN acts on as it has synchronised.
LEMMA ApplyActs ==
  ASSUME ReadInv, ScheduleInv, Apply, RefusalsAgree'
  PROVE  ActsOnTheSchedule'
<1>1. /\ HeldInv /\ LinesInv /\ HeldInv' /\ LinesInv'
      /\ VenNow \in Nat /\ VenNow + Horizon <= MaxTime
  BY ApplySchedules, ReadsAnInstant DEF ScheduleInv
<1> PICK now : now = VenNow
  OBVIOUS
<1> PICK lines : lines = timelines'
  OBVIOUS
<1>2. acting' = [at |-> now, segments |-> Preferred(ActiveSegments(lines, now))]
  <2>1. Keep(now) \/ \E a \in answer : Renew(a.events, now)
    BY DEF Apply
  <2>2. Keep(now) => ActsOn(timelines', now)
    BY DEF Keep
  <2>3. ASSUME NEW a \in answer, Renew(a.events, now) PROVE ActsOn(timelines', now)
    BY <2>3 DEF Renew
  <2>4. QED BY <2>1, <2>2, <2>3 DEF ActsOn
<1> PICK S : S = held'
  OBVIOUS
<1> PICK since : since = anchors'
  OBVIOUS
<1> PICK fresh : fresh = TimelinesAt(now, S, since)
  OBVIOUS
<1>3. Said(Preferred(ActiveSegments(lines, now))) = Said(Preferred(ActiveSegments(fresh, now)))
  <2>1. CASE lines = fresh
    BY <2>1
  <2>2. CASE builtAt' = {} /\ held' = {} /\ DOMAIN timelines' = {}
    <3>1. DOMAIN fresh = {}
      BY <2>2 DEF TimelinesAt
    <3>2. ActiveSegments(lines, now) = {} /\ ActiveSegments(fresh, now) = {}
      BY <2>2, <3>1, NothingInForce
    <3>3. QED BY <3>2
  <2>3. ASSUME NEW b \in Nat, builtAt' = {b}, lines = TimelinesAt(b, S, since), lines # fresh
        PROVE  Said(Preferred(ActiveSegments(lines, now)))
                 = Said(Preferred(ActiveSegments(fresh, now)))
    <3>1. Keep(now) /\ ~Stale(now)
      <4>1. ~\E a \in answer : Renew(a.events, now)
        BY <2>3 DEF Renew
      <4>2. Keep(now)
        BY <4>1 DEF Apply
      <4>3. ~Stale(now)
        BY <2>3, <4>2 DEF Keep
      <4>4. QED BY <4>2, <4>3
    <3>2. builtAt = {b}
      BY <2>3, <3>1 DEF Keep
    <3>3. ~(now < b) /\ ~(now - b >= Refresh)
      BY <3>1, <3>2 DEF Stale
    <3>4. b <= now /\ now < b + Horizon
      <4>1. Refresh \in Nat /\ Horizon \in Nat /\ Refresh <= Horizon
        BY VenAssumption
      <4>2. QED BY <1>1, <3>3, <4>1
    <3>5. \A e \in S : AcceptedAt(e, since, b) <=> AcceptedAt(e, since, now)
      BY <1>2, <2>3 DEF RefusalsAgree
    <3>6. Listed(S) /\ Anchors(S, since)
      BY <1>1 DEF HeldInv
    <3>7. QED BY <1>1, <2>3, <3>4, <3>5, <3>6, TimelinesTellAlike
  <2>4. QED BY <1>1, <2>1, <2>2, <2>3 DEF LinesInv
<1>4. acting'.at = now /\ acting'.segments = Preferred(ActiveSegments(lines, now))
  BY <1>2
<1>5. QED BY <1>3, <1>4 DEF ActsOnTheSchedule

\* Nothing else changes what it acts on while it is synchronised.
LEMMA ActsInvNext ==
  ReadInv /\ ScheduleInv /\ RefusalsAgree' /\ ActsOnTheSchedule /\ [Next]_vars => ActsOnTheSchedule'
<1> SUFFICES ASSUME ReadInv, ScheduleInv, RefusalsAgree', ActsOnTheSchedule, [Next]_vars
             PROVE  ActsOnTheSchedule'
  OBVIOUS
<1>1. ASSUME UNCHANGED <<held, anchors, acting>>, Synchronised' => Synchronised
      PROVE  ActsOnTheSchedule'
  BY <1>1 DEF ActsOnTheSchedule
<1>2. ASSUME ~Synchronised' PROVE ActsOnTheSchedule'
  BY <1>2 DEF ActsOnTheSchedule
<1> USE DEF history, cache, vtn, push, Synchronised
<1>3. CASE Apply
  BY <1>3, ApplyActs
<1>4. CASE Crash \/ Ask \/ AskMore \/ Restart \/ Waken
  BY <1>2, <1>4 DEF Crash, Ask, AskMore, Restart, Waken
<1>5. CASE Publish \/ Cancel \/ Provision \/ Subscribe \/ Pushes
  BY <1>1, <1>5 DEF Publish, Cancel, Write, Provision, Subscribe, Pushes, ConnAck, Subscribed,
                    Hear, Disconnect, Forget
<1>6. CASE Register \/ ListResources \/ Create
  BY <1>1, <1>6 DEF Register, ListResources, Create, Created, Conflict
<1>7. CASE Plan \/ File \/ Decline \/ FileUnanswered \/ Sleep \/ Tick \/ SetBack
  BY <1>1, <1>7 DEF Plan, File, Decline, FileUnanswered, Sleep, Tick, SetBack
<1>8. CASE UNCHANGED vars
  BY <1>1, <1>8 DEF vars
<1>9. QED
  BY <1>3, <1>4, <1>5, <1>6, <1>7, <1>8 DEF Next, Loop

\* What the VEN acts on is what its events call for at that instant, however long ago its
\* timelines were built and although its clock was set back: they tell the same of every
\* instant of both windows, and they are built again before theirs runs out. But an event
\* of too many intervals is left out of the timelines, and what is too many depends on the
\* window: the events must be refused at the one instant as at the other.
THEOREM ActsOnTime == Spec /\ []RefusalsAgree => []ActsOnTheSchedule
<1>1. Init => ReadInv /\ ScheduleInv /\ ActsOnTheSchedule
  <2>1. Init => ActsOnTheSchedule
    BY DEF Init, ActsOnTheSchedule, Synchronised
  <2>2. QED BY <2>1, ReadInvInit, ScheduleInvInit
<1>2. ReadInv /\ [Next]_vars => ReadInv'
  BY ReadInvNext
<1>3. ReadInv /\ ScheduleInv /\ [Next]_vars => ScheduleInv'
  BY ScheduleInvNext
<1>4. ReadInv /\ ScheduleInv /\ RefusalsAgree' /\ ActsOnTheSchedule /\ [Next]_vars
        => ActsOnTheSchedule'
  BY ActsInvNext
<1>5. QED BY <1>1, <1>2, <1>3, <1>4, PTL DEF Spec

\* A VEN that sleeps misses no change of its schedule, however its clock is set back: it
\* is to wake before the first boundary of any timeline.
THEOREM NothingIsSleptThrough == Spec => []NoChangeIsSleptThrough
<1>1. Init => ReadInv /\ ScheduleInv /\ SleepInv
  BY ReadInvInit, ScheduleInvInit, SleepInvInit
<1>2. ReadInv /\ [Next]_vars => ReadInv'
  BY ReadInvNext
<1>3. ReadInv /\ ScheduleInv /\ [Next]_vars => ScheduleInv'
  BY ScheduleInvNext
<1>4. ScheduleInv => TimelinesAreTimed
  BY TimelinesOnTime
<1>5. SleepInv /\ TimelinesAreTimed /\ [Next]_vars => SleepInv'
  BY SleepInvNext
<1>6. SleepInv /\ TimelinesAreTimed => NoChangeIsSleptThrough
  BY SleepIsSafe
<1>7. QED BY <1>1, <1>2, <1>3, <1>4, <1>5, <1>6, PTL DEF Spec

==============================================================================

------------------------------ MODULE Intervals ------------------------------
(***************************************************************************)
(* How an event's declared intervals become absolute time windows          *)
(* (core/interval.rs, with the durations and start times of model/time.rs).*)
(*                                                                         *)
(* Instants are integers of one tick each, the resolution of the clock. An *)
(* optional value is a set of at most one element: {} is the code's None,  *)
(* \A is its is_none_or and \E its is_some_and. A length in calendar units *)
(* is abstracted to the ticks it spans, and randomizeStart, which is only  *)
(* carried along, is left out.                                             *)
(*                                                                         *)
(* An event is a record                                                    *)
(*   start, tick     what intervalPeriod states, each optional             *)
(*   intervals       a sequence of [id, start, tick, payloads]             *)
(*   lasts           event.duration, optional                              *)
(*   priority        optional                                              *)
(* and a payload is [scalar, values].                                      *)
(***************************************************************************)
EXTENDS Integers, Sequences, FiniteSets, SequencesExt

CONSTANTS
    Limit,      \* IntervalExpander::limit
    MaxTime     \* Timestamp::MAX

ASSUME IntervalsAssumption == Limit \in Nat \ {0} /\ MaxTime \in Nat

Now == -1       \* the 0001-01-01 sentinel of a start
Forever == -1   \* the P9999Y sentinel of a duration

\* What an event is made of.
OptionOf(S) == {option \in SUBSET S : \A x, y \in option : x = y}
StartTimes == OptionOf(Nat \cup {Now})
Durations == OptionOf(Nat \cup {Forever})
Payloads == Seq([scalar : BOOLEAN, values : Seq(STRING)])
Declared == [id : Int, start : StartTimes, tick : Durations, payloads : Payloads]

IsTimed(event) ==
    /\ event.start \in StartTimes /\ event.tick \in Durations /\ event.lasts \in Durations
    /\ event.intervals \in Seq(Declared)

TheElement(option) == CHOOSE x \in option : TRUE
OrElse(option, other) == IF option # {} THEN option ELSE other

Resolve(start, now) == IF start = Now THEN now ELSE start

\* The instant one duration after another: none when it is unbounded.
AddTo(duration, at) == IF duration = Forever THEN {} ELSE {at + duration}
Representable(option) == \A t \in option : t <= MaxTime

------------------------------------------------------------------------------
\* A payload that carries several scalar values divides its interval.
SubintervalCount(payload) ==
    IF payload.scalar /\ Len(payload.values) > 1 THEN Len(payload.values) ELSE 1

Subintervals(payloads) ==
    CHOOSE n \in {1} \cup {SubintervalCount(payloads[p]) : p \in DOMAIN payloads} :
        \A p \in DOMAIN payloads : SubintervalCount(payloads[p]) <= n

\* Piece k, counted from zero, of n: its bounds are computed from the parent's.
Piece(interval, position, start, end, k, n) ==
    LET total == end - start
        Share(payload) == IF SubintervalCount(payload) = n
                          THEN [payload EXCEPT !.values = <<payload.values[k + 1]>>]
                          ELSE payload
    IN  [id |-> interval.id, index |-> position, occurrence |-> 0, subinterval |-> k,
         start |-> start + (total * k) \div n,
         end |-> {start + (total * (k + 1)) \div n},
         payloads |-> [p \in DOMAIN interval.payloads |-> Share(interval.payloads[p])]]

Whole(interval, position, start, end) ==
    [id |-> interval.id, index |-> position, occurrence |-> 0, subinterval |-> 0,
     start |-> start, end |-> end, payloads |-> interval.payloads]

\* An interval with no end has nothing to divide.
Split(interval, position, start, end) ==
    LET n == Subintervals(interval.payloads)
    IN  IF n = 1 \/ end = {}
        THEN <<Whole(interval, position, start, end)>>
        ELSE [k \in 1 .. n |-> Piece(interval, position, start, TheElement(end), k - 1, n)]

------------------------------------------------------------------------------
Refused(why) == [err |-> why, list |-> <<>>]

\* Where interval i of an event states that it starts.
OwnStart(event, now, i) == {Resolve(s, now) : s \in event.intervals[i].start}

\* Where it starts: without a start of its own, where the one before it ended.
StartIn(event, now, cursor, i) == OrElse(OwnStart(event, now, i), cursor)

DurationIn(event, i) == OrElse(event.intervals[i].tick, event.tick)

\* When it ends: without any duration, where the next one states that it starts.
EndIn(event, now, start, i) ==
    IF DurationIn(event, i) # {} THEN AddTo(TheElement(DurationIn(event, i)), start)
    ELSE IF i = Len(event.intervals) THEN {} ELSE OwnStart(event, now, i + 1)

\* Interval i after the ones before it. The cursor is the start the next one inherits.
Expanded(event, now, done, i) ==
    LET interval == event.intervals[i]
        start == StartIn(event, now, done.cursor, i)
        end == EndIn(event, now, TheElement(start), i)
        list == done.list \o Split(interval, i, TheElement(start), end)
        timed == DurationIn(event, i) # {}
    IN  IF start = {} THEN Refused("NoStart")
        ELSE IF timed /\ ~Representable(end) THEN Refused("OutOfRange")
        ELSE IF ~timed /\ i < Len(event.intervals) /\ end = {} THEN Refused("NoDuration")
        ELSE IF Subintervals(interval.payloads) > Limit \/ Len(list) > Limit
        THEN Refused("TooManyIntervals")
        ELSE [err |-> "", list |-> list, cursor |-> end]

Begin(event, now) ==
    [err |-> "", list |-> <<>>, cursor |-> {Resolve(s, now) : s \in event.start}]

\* One pass over the declared list.
ExpandPass(event, now) ==
    LET pass[i \in 0 .. Len(event.intervals)] ==
            IF i = 0 THEN Begin(event, now)
            ELSE IF pass[i - 1].err # "" THEN pass[i - 1]
            ELSE Expanded(event, now, pass[i - 1], i)
    IN  pass[Len(event.intervals)]

\* When event.duration ends the event: none when it never does.
LifespanEnd(event, start) == UNION {AddTo(d, start) : d \in event.lasts}

------------------------------------------------------------------------------
\* The interval sequence: the declared list, and how far apart it repeats.
NoSequence(why) ==
    [err |-> why, base |-> <<>>, period |-> {}, start |-> 0, lifespan |-> {},
     implied |-> FALSE]

\* No declared interval, but a period with a start and a tick: one interval of that
\* length, repeating.
ImpliedSequence(event, now) ==
    LET start == Resolve(TheElement(event.start), now)
        end == AddTo(TheElement(event.tick), start)
        only == [id |-> 0, index |-> 1, occurrence |-> 0, subinterval |-> 0,
                 start |-> start, end |-> end, payloads |-> <<>>]
    IN  IF event.start = {} \/ event.tick = {} THEN NoSequence("")
        ELSE IF ~Representable(end) THEN NoSequence("OutOfRange")
        ELSE IF end = {} \/ \E e \in end : e <= start THEN NoSequence("")
        ELSE IF ~Representable(LifespanEnd(event, start)) THEN NoSequence("OutOfRange")
        ELSE [err |-> "", base |-> <<only>>,
              period |-> {e - start : e \in end}, start |-> start,
              lifespan |-> LifespanEnd(event, start), implied |-> TRUE]

\* A declared list repeats when event.duration outlasts it; with one interval that
\* never ends there is no "after" for a repetition to begin at.
DeclaredSequence(event, base) ==
    LET start == CHOOSE t \in {base[i].start : i \in DOMAIN base} :
                     \A i \in DOMAIN base : t <= base[i].start
        ends == UNION {base[i].end : i \in DOMAIN base}
        last == CHOOSE e \in ends : \A f \in ends : f <= e
        endless == \E i \in DOMAIN base : base[i].end = {}
        Outlasts(d, span) == \/ d = Forever
                             \/ start + d <= MaxTime /\ d > span
        period == IF endless THEN {}
                  ELSE {p \in {last - start} : p > 0 /\ \E d \in event.lasts : Outlasts(d, p)}
    IN  IF ~Representable(LifespanEnd(event, start)) THEN NoSequence("OutOfRange")
        ELSE [err |-> "", base |-> base, period |-> period, start |-> start,
              lifespan |-> LifespanEnd(event, start), implied |-> FALSE]

\* What a pass over the declared list leads to.
SequenceAfter(pass, event, now) ==
    IF pass.err # "" THEN NoSequence(pass.err)
    ELSE IF pass.list = <<>> THEN ImpliedSequence(event, now)
    ELSE DeclaredSequence(event, pass.list)

SequenceOf(event, now) == SequenceAfter(ExpandPass(event, now), event, now)

Empty(sequence) == sequence.base = <<>>
Repeats(sequence) == sequence.period # {}

\* A repetition so late that its interval leaves the representable range.
PastTheRange(sequence, index) ==
    LET len == Len(sequence.base)
        found == sequence.base[(index % len) + 1]
    IN  /\ len > 0 /\ Repeats(sequence)
        /\ \E t \in {found.start} \cup found.end :
               t + TheElement(sequence.period) * (index \div len) > MaxTime

\* The interval at an absolute index counted from zero, cut off by the event's own
\* end; none past it.
Get(sequence, index) ==
    LET len == Len(sequence.base)
        occurrence == IF Repeats(sequence) THEN index \div len ELSE 0
        position == IF Repeats(sequence) THEN index % len ELSE index
        found == sequence.base[position + 1]
        offset == IF Repeats(sequence) THEN TheElement(sequence.period) * occurrence ELSE 0
        start == found.start + offset
        end == {e + offset : e \in found.end}
        CutOff == IF \E l \in sequence.lifespan : \A e \in end : e > l
                  THEN sequence.lifespan ELSE end
    IN  IF \/ len = 0
           \/ ~Repeats(sequence) /\ index >= len
           \/ PastTheRange(sequence, index)
           \/ \E l \in sequence.lifespan : start >= l
        THEN {}
        ELSE {[found EXCEPT !.occurrence = occurrence, !.start = start, !.end = CutOff]}

\* The slip of beginning at the repetition that starts in the window, and so
\* without the one in progress.
IndicesOverlapping_FromItsStart(sequence, from, to) ==
    LET len == Len(sequence.base)
        period == TheElement(sequence.period)
        first == IF sequence.start > from THEN 0
                 ELSE (from - sequence.start) \div period + 1
        last == (to - sequence.start) \div period + 1
    IN  CASE ~Repeats(sequence) -> [first |-> 0, past |-> len]
          [] Repeats(sequence) /\ (to <= sequence.start \/ first >= last) ->
                 [first |-> 0, past |-> 0]
          [] OTHER -> [first |-> first * len, past |-> last * len]

\* The least index and one past the greatest whose intervals can overlap the
\* window: whole repetitions, since the declared list need not be in time order.
IndicesOverlapping(sequence, from, to) ==
    LET len == Len(sequence.base)
        period == TheElement(sequence.period)
        stop == IF \E l \in sequence.lifespan : l < to
                THEN TheElement(sequence.lifespan) ELSE to
        firstEnd == sequence.start + period
        first == IF firstEnd > from THEN 0 ELSE (from - firstEnd) \div period + 1
        span == stop - sequence.start
        last == span \div period + (IF span % period # 0 THEN 1 ELSE 0)
    IN  CASE ~Repeats(sequence) -> [first |-> 0, past |-> len]
          [] Repeats(sequence) /\ (stop <= sequence.start \/ first >= last) ->
                 [first |-> 0, past |-> 0]
          [] OTHER -> [first |-> first * len, past |-> last * len]

Overlaps(interval, from, to) ==
    (\A e \in interval.end : e > from) /\ interval.start < to

\* The intervals of the sequence in a range of indices that overlap the window,
\* each one whole.
Overlapping(sequence, range, from, to) ==
    LET count == range.past - range.first
        Found(at) == IF \E i \in at : Overlaps(i, from, to) THEN <<TheElement(at)>> ELSE <<>>
        found == [k \in 1 .. count |-> Found(Get(sequence, range.first + k - 1))]
    IN  IF sequence.err # "" THEN Refused(sequence.err)
        ELSE IF Empty(sequence) THEN [err |-> "", list |-> <<>>]
        ELSE IF count > Limit THEN Refused("TooManyIntervals")
        ELSE IF \E k \in 1 .. count : PastTheRange(sequence, range.first + k - 1)
        THEN Refused("OutOfRange")
        ELSE [err |-> "", list |-> FlattenSeq(found)]

OverlappingIn(sequence, from, to) ==
    Overlapping(sequence, IndicesOverlapping(sequence, from, to), from, to)

ExpandWindow(event, now, from, to) == OverlappingIn(SequenceOf(event, now), from, to)

\* The window an event is live over, resolved when it is written: none for an event
\* that places nothing in time, and an end that is none for one that never ends.
WindowOver(sequence, lasts) ==
    LET ends == UNION {sequence.base[i].end : i \in DOMAIN sequence.base}
        endless == \E i \in DOMAIN sequence.base : sequence.base[i].end = {}
        last == {e \in ends : \A f \in ends : f <= e}
        end == IF lasts # {} \/ Repeats(sequence) THEN sequence.lifespan
               ELSE IF endless THEN {} ELSE last
    IN  IF sequence.err # "" \/ Empty(sequence) THEN {}
        ELSE {[start |-> sequence.start, end |-> end]}

ActiveWindow(event, now) == WindowOver(SequenceOf(event, now), event.lasts)

\* What ?active=true keeps: an event with no window, or whose window has not ended.
ActiveAt(window, at) == \A w \in window : \A e \in w.end : e > at
=============================================================================

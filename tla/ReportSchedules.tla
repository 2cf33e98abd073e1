--------------------------- MODULE ReportSchedules ---------------------------
(***************************************************************************)
(* When a VEN owes a report and which intervals it covers, and the sum an  *)
(* aggregate report carries (core/report.rs).                              *)
(*                                                                         *)
(* A descriptor is [startInterval, numIntervals, historical, frequency,    *)
(* repeat, open]; a report due is [sequence, dueAt, from, to, ids].        *)
(***************************************************************************)
EXTENDS Intervals

CONSTANTS
    MaxReports,         \* ScheduleOptions::max_reports
    MaxCovered,         \* ScheduleOptions::max_intervals
    FirstCovered        \* ScheduleOptions::start_interval_is_first_covered

\* What an event asks for.
IsDescriptor(descriptor) ==
    /\ descriptor.startInterval \in Int /\ descriptor.numIntervals \in Int
    /\ descriptor.frequency \in Int /\ descriptor.repeat \in Int
    /\ descriptor.historical \in BOOLEAN /\ descriptor.open \in BOOLEAN

ASSUME SchedulesAssumption ==
    MaxReports \in Nat \ {0} /\ MaxCovered \in Nat \ {0} /\ FirstCovered \in BOOLEAN

LesserOf(a, b) == IF a < b THEN a ELSE b
GreaterOf(a, b) == IF a > b THEN a ELSE b

\* How many intervals one report covers: -1 is all the event declares.
CoveredBy(descriptor, sequence) ==
    LET declared == Len(sequence.base)
        num == IF descriptor.numIntervals < 0 THEN declared ELSE descriptor.numIntervals
    IN  GreaterOf(1, LesserOf(num, IF Repeats(sequence) THEN MaxCovered ELSE declared))

\* The interval the first report anchors on: -1 is the far end in the direction
\* the report runs.
FirstAnchor(descriptor, sequence) ==
    LET declared == Len(sequence.base)
        asked == descriptor.startInterval
    IN  GreaterOf(0,
            CASE asked < 0 /\ FirstCovered -> declared - CoveredBy(descriptor, sequence)
              [] asked < 0 /\ ~FirstCovered -> IF descriptor.historical THEN declared - 1 ELSE 0
              [] asked >= 0 -> IF Repeats(sequence) THEN asked
                               ELSE LesserOf(asked, declared - 1))

StepOf(descriptor, sequence) ==
    GreaterOf(1, IF descriptor.frequency < 0 THEN CoveredBy(descriptor, sequence)
                 ELSE descriptor.frequency)

\* The slip of beginning with the repetition under way, and so after a report that
\* is due at the end of the one before.
FirstReaching_NoSlack(sequence, anchor, step, from) ==
    LET occurrence == (from - sequence.start) \div TheElement(sequence.period)
        ahead == occurrence * Len(sequence.base) - anchor
    IN  IF ~Repeats(sequence) \/ from <= sequence.start \/ ahead <= 0 THEN 0
        ELSE (ahead + step - 1) \div step

\* The repetition to begin at: one of slack before the one that reaches the window.
FirstReaching(sequence, anchor, step, from) ==
    LET delta == from - sequence.start
        occurrence == GreaterOf(0, delta \div TheElement(sequence.period) - 1)
        ahead == occurrence * Len(sequence.base) - anchor
    IN  IF ~Repeats(sequence) \/ delta <= 0 \/ ahead <= 0 THEN 0
        ELSE (ahead + step - 1) \div step

\* The covered range: none when it begins past the event's end, and cut short where
\* the event ends within it.
Collect(sequence, first, last) ==
    LET exists == {n \in first .. last : \A m \in first .. n : Get(sequence, m) # {}}
        end == CHOOSE n \in exists : \A m \in exists : m <= n
        At(n) == TheElement(Get(sequence, n))
    IN  IF exists = {} THEN {}
        ELSE {[from |-> At(first).start, to |-> At(end).end,
               ids |-> [k \in 1 .. end - first + 1 |-> At(first + k - 1).id]]}

BackFrom(descriptor) == descriptor.historical /\ ~FirstCovered

\* The intervals report k covers, [first, last].
RangeOf(descriptor, sequence, k) ==
    LET num == CoveredBy(descriptor, sequence)
        anchor == FirstAnchor(descriptor, sequence) + k * StepOf(descriptor, sequence)
        last == IF BackFrom(descriptor) THEN anchor ELSE anchor + num - 1
    IN  [first |-> GreaterOf(0, IF BackFrom(descriptor) THEN anchor - num + 1 ELSE anchor),
         last |-> IF Repeats(sequence) THEN last
                  ELSE LesserOf(last, Len(sequence.base) - 1)]

\* Report k. It is due at the boundary of its anchor: the end of the range when
\* reporting backwards and the start of it when reporting forwards.
ReportK(descriptor, sequence, k) ==
    LET range == RangeOf(descriptor, sequence, k)
        Due(c) == [sequence |-> k, from |-> c.from, to |-> c.to,
                   dueAt |-> IF BackFrom(descriptor) THEN c.to ELSE {c.from},
                   ids |-> IF descriptor.open \/ sequence.implied THEN <<>> ELSE c.ids]
    IN  {Due(c) : c \in Collect(sequence, range.first, range.last)}

AdHoc(descriptor, sequence) == descriptor.frequency = 0 \/ Empty(sequence)
Wanted(descriptor, k) == descriptor.repeat < 0 \/ k < descriptor.repeat

\* The walk ends at the first report that does not exist or is due after the window.
EndsWalk(descriptor, sequence, to, k) ==
    \/ ~Wanted(descriptor, k)
    \/ ReportK(descriptor, sequence, k) = {}
    \/ \E r \in ReportK(descriptor, sequence, k) : \E t \in r.dueAt : t > to

\* One report on, with what was found so far.
WalkedTo(done, descriptor, sequence, from, to, k) ==
    LET report == TheElement(ReportK(descriptor, sequence, k))
        Found(r) == \A t \in r.dueAt : t >= from
    IN  IF done.over \/ Len(done.due) = MaxReports \/ EndsWalk(descriptor, sequence, to, k)
        THEN [done EXCEPT !.over = TRUE]
        ELSE [done EXCEPT !.due = IF Found(report) THEN Append(@, report) ELSE @]

\* The walk from the repetition to begin at.
Walk(descriptor, sequence, from, to) ==
    LET start == FirstReaching(sequence, FirstAnchor(descriptor, sequence),
                               StepOf(descriptor, sequence), from)
        \* A report after that covers nothing that starts by the window's end.
        enough == MaxReports + MaxCovered + (to + 2) * Len(sequence.base)
        walk[n \in 0 .. enough] ==
            IF n = 0 THEN [due |-> <<>>, over |-> FALSE]
            ELSE WalkedTo(walk[n - 1], descriptor, sequence, from, to, start + n - 1)
    IN  walk[enough].due

\* ReportSchedule::compute_with.
ReportsDue(descriptor, sequence, from, to) ==
    IF AdHoc(descriptor, sequence) THEN <<>> ELSE Walk(descriptor, sequence, from, to)

\* Reports that became due at or before an instant.
Overdue(reports, at) == SelectSeq(reports, LAMBDA r : \E t \in r.dueAt : t <= at)

------------------------------------------------------------------------------
(***************************************************************************)
(* Per-resource series summed into one. A resource is [aggregated,         *)
(* intervals], an interval [id, payloads], a payload [type, values] and a  *)
(* value [number, text], its number optional. The result is optional too:  *)
(* none stands for a refusal.                                              *)
(***************************************************************************)
Readings(resource) ==
    FlattenSeq([i \in DOMAIN resource.intervals |->
        LET interval == resource.intervals[i]
        IN  [p \in DOMAIN interval.payloads |->
                [id |-> interval.id, type |-> interval.payloads[p].type,
                 values |-> interval.payloads[p].values]]])

\* What every resource reported for one payload type in one interval, in order.
Collected(resources, id, type) ==
    LET all == FlattenSeq([r \in DOMAIN resources |-> Readings(resources[r])])
        some == SelectSeq(all, LAMBDA x : x.id = id /\ x.type = type)
    IN  [k \in DOMAIN some |-> some[k].values]

IsNumeric(values) == \A v \in DOMAIN values : values[v].number # {}
Plus(total, values) ==
    [v \in DOMAIN total |->
        [number |-> {TheElement(total[v].number) + TheElement(values[v].number)},
         text |-> ""]]

\* Summed along where every value is a number; carried through where all agree.
Combine(reported) ==
    LET Agree == \A k \in DOMAIN reported : reported[k] = reported[1]
        Ragged == \E k \in DOMAIN reported : Len(reported[k]) # Len(reported[1])
        Rest == SubSeq(reported, 2, Len(reported))
    IN  CASE ~(\A k \in DOMAIN reported : IsNumeric(reported[k])) ->
                 IF Agree THEN {reported[1]} ELSE {}
          [] (\A k \in DOMAIN reported : IsNumeric(reported[k])) /\ Ragged -> {}
          [] OTHER -> {FoldLeft(Plus, reported[1], Rest)}

Aggregate(resources) ==
    LET keys == UNION {{<<x.id, x.type>> : x \in ToSet(Readings(r))} : r \in ToSet(resources)}
        sum == [k \in keys |-> Combine(Collected(resources, k[1], k[2]))]
        done == Len(resources) <= 1 /\ \A r \in ToSet(resources) : r.aggregated
    IN  CASE done -> {[k \in keys |-> Collected(resources, k[1], k[2])[1]]}
          [] ~done /\ (\E k \in keys : sum[k] = {}) -> {}
          [] OTHER -> {[k \in keys |-> TheElement(sum[k])]}
=============================================================================

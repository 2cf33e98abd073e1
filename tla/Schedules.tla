------------------------------ MODULE Schedules ------------------------------
(***************************************************************************)
(* Intervals, Timelines and ReportSchedules against definitions a reader   *)
(* can check by eye: a walk over every index, a rule per instant, a filter *)
(* over every report. A state is one choice of inputs, and the only step   *)
(* is the clock of the VEN that reads them.                                *)
(***************************************************************************)
EXTENDS Timelines, ReportSchedules

CONSTANTS
    Inputs,        \* the choices: [events, descriptor, meters]
    LastInstant,   \* the last instant the VEN reads at
    Ahead          \* how far ahead of it a timeline reaches

\* A report that is not asked for.
NoDescriptor == [frequency |-> 0]

\* The events of one programme, each with an id of its own; no instant is negative, and
\* what a timeline reaches can be represented.
ASSUME InputsAssumption ==
    /\ \A input \in Inputs :
        /\ IsFiniteSet(input.events)
        /\ \A e \in input.events :
            /\ IsTimed(e) /\ e.id \in Int /\ e.anchor \in Nat /\ e.priority \in OptionOf(Int)
        /\ \A e, f \in input.events : e.id = f.id => e = f
        /\ input.descriptor = NoDescriptor \/ IsDescriptor(input.descriptor)
    /\ LastInstant \in Nat /\ Ahead \in Nat \ {0} /\ LastInstant + Ahead <= MaxTime

VARIABLES
    events,     \* the events of one programme, each with its id and anchor
    descriptor, \* a report the first of them asks for
    meters,     \* what the resources of the VEN read, one after the other
    instant     \* when the VEN reads

inputs == <<events, descriptor, meters>>

Read ==
    /\ instant = 0
    /\ \E input \in Inputs :
        events = input.events /\ descriptor = input.descriptor /\ meters = input.meters

Passes ==
    /\ events # {} /\ instant < LastInstant
    /\ instant' = instant + 1
    /\ UNCHANGED inputs

Reading == Read /\ [][Passes]_<<inputs, instant>>

------------------------------------------------------------------------------
From == instant - 1
To == instant + Ahead
Sequenced(e) == SequenceOf(e, e.anchor)
\* Every index that can begin by an instant.
Indices(e, by) == 0 .. Len(Sequenced(e).base) * (by + 2)
Placed(e, by) == UNION {Get(Sequenced(e), n) : n \in Indices(e, by)}
Timeline == BuildTimeline(events, From, To)

Undivided(e) ==
    [e EXCEPT !.intervals =
        [i \in DOMAIN e.intervals |-> [e.intervals[i] EXCEPT !.payloads = <<>>]]]

\* A window returns every interval of the event that overlaps it and no other,
\* each once, whether the sequence is listed, implied or has looped since long
\* before it: the arithmetic that skips repetitions is a walk over all of them.
\* The pieces an interval is divided into cover it: at every instant of a declared
\* interval exactly one piece of it is in force, so no rounding opens a gap or an
\* overlap, and there is none outside it.
WindowIsExact ==
    \A e \in events :
        LET window == ExpandWindow(e, e.anchor, From, To)
            pieces == ToSet(ExpandPass(e, e.anchor).list)
            wholes == ToSet(ExpandPass(Undivided(e), e.anchor).list)
        IN  /\ Sequenced(e).err = "" /\ window.err = "" =>
                 /\ ToSet(window.list) = {i \in Placed(e, To) : Overlaps(i, From, To)}
                 /\ IsInjective(window.list)
            /\ pieces # {} =>
                 \A w \in wholes, t \in 0 .. To :
                     Cardinality({p \in pieces : p.index = w.index /\ Within(p, t)})
                         = IF Within(w, t) THEN 1 ELSE 0

Asking(e, at) == {i \in Placed(e, at) : i.payloads # <<>> /\ Within(i, at)}

\* Priority resolves every instant: what is in force is asked for then by an event
\* that no event asking for anything then precedes, nothing is in force only when
\* nobody asks, and never two things at once. And a VEN may sleep until the next
\* change: up to it nothing else comes into force.
PriorityRules ==
    LET timeline == Timeline
        skipped == Skipped(events, From, To)
        next == NextChange(timeline, instant)
        asleep == {at \in instant .. To - 1 : \A t \in next : at < t}
    IN
    /\ \A at \in asleep : InForceAt(timeline, at) = InForceAt(timeline, instant)
    /\ \A at \in {instant, To - 1} :
        LET inForce == InForceAt(timeline, at)
            asking == {e \in events : e.id \notin skipped /\ Asking(e, at) # {}}
        IN  /\ Cardinality(inForce) <= 1
            /\ asking = {} <=> inForce = {}
            /\ \A s \in inForce : \E e \in asking :
                   /\ s.event = e.id
                   /\ \A f \in asking \ {e} : Precedes(e, f)
                   /\ \E i \in Asking(e, at) : s.payloads = i.payloads

Total(resources, id, type) ==
    LET all == FlattenSeq(Collected(resources, id, type))
    IN  FoldLeft(LAMBDA t, v : t + (IF v.number = {} THEN 0 ELSE TheElement(v.number)), 0, all)

\* The reports of a window are those of the whole schedule that are due in it, in
\* their order and with their numbers: a VEN that looks over a later or a wider
\* window neither loses a report nor renumbers one. And aggregation loses no reading
\* and invents none: what it answers adds up to what the resources reported, interval
\* by interval, in whichever order they are asked; where it refuses it refuses in
\* every order; and a sum is not summed again.
ReportsAddUp ==
    LET summed == Aggregate(meters)
        Single(f, k) == [aggregated |-> TRUE, intervals |-> <<[id |-> k[1],
                             payloads |-> <<[type |-> k[2], values |-> f[k]]>>]>>]
    IN  /\ summed = Aggregate(Reverse(meters))
        /\ \A f \in summed : \A k \in DOMAIN f :
               /\ Total(<<Single(f, k)>>, k[1], k[2]) = Total(meters, k[1], k[2])
               /\ \A g \in Aggregate(<<Single(f, k)>>) : g[k] = f[k]
        /\ descriptor # NoDescriptor =>
               \A e \in events :
                   LET sequence == Sequenced(e)
                       window == ReportsDue(descriptor, sequence, From, instant)
                       wanted == {n \in 0 .. 2 * instant + 4 : Wanted(descriptor, n)}
                       all == {r \in UNION {ReportK(descriptor, sequence, k) : k \in wanted} :
                                   \A t \in r.dueAt : From <= t /\ t <= instant}
                   IN  ~Empty(sequence) =>
                           {r \in ToSet(window) : r.dueAt # {}} = {r \in all : r.dueAt # {}}
=============================================================================

------------------------------ MODULE Timelines ------------------------------
(***************************************************************************)
(* Overlapping events of one programme resolved into one schedule          *)
(* (core/timeline.rs): the most important event keeps its time and the     *)
(* others are split around it.                                             *)
(*                                                                         *)
(* An event here is a record of Intervals with an id and an anchor, the    *)
(* instant its "now" stands for; a segment is [start, end, event,          *)
(* priority, interval, payloads].                                          *)
(***************************************************************************)
EXTENDS Intervals

\* A stated priority outranks none, and a lower number a higher one.
Outranks(a, b) == \/ a # {} /\ b = {}
                  \/ \E x \in a, y \in b : x < y

\* Most important first; the id breaks a tie.
Precedes(e, f) == \/ Outranks(e.priority, f.priority)
                  \/ e.priority = f.priority /\ e.id < f.id

\* Whether an instant falls in a window, half open.
Within(window, at) == at >= window.start /\ \A e \in window.end : at < e

EndOf(end) == IF end = {} THEN MaxTime ELSE TheElement(end)

\* The slip of not resuming after the segment that interrupted.
Around_NeverResumes(piece, seg) ==
    IF EndOf(seg.end) <= piece.start \/ seg.start >= piece.end
    THEN <<piece>>
    ELSE IF seg.start > piece.start
    THEN <<[start |-> piece.start, end |-> seg.start]>> ELSE <<>>

\* What a taken segment leaves of a piece.
Around(piece, seg) ==
    IF EndOf(seg.end) <= piece.start \/ seg.start >= piece.end
    THEN <<piece>>
    ELSE (IF seg.start > piece.start
          THEN <<[start |-> piece.start, end |-> seg.start]>> ELSE <<>>)
         \o (IF EndOf(seg.end) < piece.end
             THEN <<[start |-> EndOf(seg.end), end |-> piece.end]>> ELSE <<>>)

\* What it leaves of several, in their order.
AroundAll(pieces, seg) == FlattenSeq([p \in DOMAIN pieces |-> Around(pieces[p], seg)])

\* A piece as a window, unless nothing is left of it.
Kept(piece) ==
    IF piece.start >= piece.end THEN <<>>
    ELSE <<[start |-> piece.start, end |-> IF piece.end = MaxTime THEN {} ELSE {piece.end}]>>

\* The parts of a window that no taken segment claims, in order.
SubtractCovered(start, end, taken) ==
    LET pieces[k \in 0 .. Len(taken)] ==
            IF k = 0 THEN <<[start |-> start, end |-> EndOf(end)]>>
            ELSE AroundAll(pieces[k - 1], taken[k])
        left == pieces[Len(taken)]
    IN  FlattenSeq([p \in DOMAIN left |-> Kept(left[p])])

\* An interval as its event claims it.
Claim(event, interval) ==
    [start |-> interval.start, end |-> interval.end, event |-> event.id,
     priority |-> event.priority, interval |-> interval.id, payloads |-> interval.payloads]

\* What an event claims of a window: an interval without payloads anchors reports and
\* claims no time. An event that is refused claims nothing.
Instructions(event, from, to) ==
    LET list == ExpandWindow(event, event.anchor, from, to).list
        Told(i) == IF i.payloads = <<>> THEN <<>> ELSE <<Claim(event, i)>>
    IN  FlattenSeq([i \in DOMAIN list |-> Told(list[i])])

Skipped(events, from, to) ==
    {e.id : e \in {x \in events : ExpandWindow(x, x.anchor, from, to).err # ""}}

\* The events, most important first: as many come before one as precede it.
Ordered(events) ==
    [k \in 1 .. Cardinality(events) |->
        CHOOSE e \in events : Cardinality({f \in events : Precedes(f, e)}) = k - 1]

Claims(events, from, to) ==
    LET ordered == Ordered(events)
    IN  FlattenSeq([k \in DOMAIN ordered |-> Instructions(ordered[k], from, to)])

\* A claim laid down around what is already taken.
LayDown(segments, claim) ==
    LET pieces == SubtractCovered(claim.start, claim.end, segments)
    IN  segments \o [p \in DOMAIN pieces |->
                        [claim EXCEPT !.start = pieces[p].start, !.end = pieces[p].end]]

LaidDown(claims) ==
    LET laid[k \in 0 .. Len(claims)] ==
            IF k = 0 THEN <<>> ELSE LayDown(laid[k - 1], claims[k])
    IN  laid[Len(claims)]

\* Timeline::build_with, before the last sort by start: whoever reads the segments
\* looks for the one that contains an instant, so their order is left out, as are the
\* clashes at equal priority it lists for the log.
BuildTimeline(events, from, to) == LaidDown(Claims(events, from, to))

Segments(timeline) == ToSet(timeline)

\* What is in force at an instant, and the next instant at which that changes.
InForceAt(timeline, at) == {s \in Segments(timeline) : Within(s, at)}

Boundaries(timeline) == UNION {{s.start} \cup s.end : s \in Segments(timeline)}
NextChange(timeline, after) ==
    {t \in Boundaries(timeline) :
        t > after /\ \A u \in Boundaries(timeline) : u > after => t <= u}
=============================================================================

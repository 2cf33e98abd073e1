----------------------------- MODULE MCSchedules -----------------------------
(***************************************************************************)
(* One event of any shape, three that compete, one and the report it asks  *)
(* for, or what up to three resources read.                                *)
(***************************************************************************)
EXTENDS Schedules

NoPayload == <<>>
OneValue == <<[scalar |-> TRUE, values |-> <<"a">>]>>
TwoValues == <<[scalar |-> TRUE, values |-> <<"a", "b">>]>>
ACurve == <<[scalar |-> FALSE, values |-> <<"a", "b">>]>>
ThreeAndOne == <<[scalar |-> TRUE, values |-> <<"a", "b", "c">>],
                 [scalar |-> TRUE, values |-> <<"d">>]>>

Interval(id, start, tick, payloads) ==
    [id |-> id, start |-> start, tick |-> tick, payloads |-> payloads]

Event(id, start, tick, intervals, lasts, priority) ==
    [id |-> id, anchor |-> 2, start |-> start, tick |-> tick, intervals |-> intervals,
     lasts |-> lasts, priority |-> priority]

Lists ==
    LET one == {Interval(7, s, d, p) : s \in {{}, {3}}, d \in {{}, {3}, {Forever}},
                                       p \in {NoPayload, ThreeAndOne}}
        two == {Interval(8, s, d, OneValue) : s \in {{}, {1}, {4}}, d \in {{}, {2}}}
    IN  {<<>>} \cup {<<a>> : a \in one} \cup {<<a, b>> : a \in one, b \in two}

\* One event, of every shape: inherited and stated timing, "now", "for ever", out of
\* time order, implied, cut short and looping.
AnyEvent ==
    {Event(1, s, d, l, u, {5}) : s \in {{}, {Now}}, d \in {{}, {0}, {1}, {Forever}},
                                 l \in Lists, u \in {{}, {0}, {3}, {7}, {Forever}}}

\* Events that compete: each a start, a length, a loop, a priority and perhaps no
\* instruction; and a short curtailment that outranks them.
Rivals(id, starts, payloads) ==
    {Event(id, {s}, {d}, <<Interval(id, {}, {}, p)>>, u, r) :
        s \in starts, d \in {2, Forever}, u \in {{}, {5}}, r \in {{}, {1}, {2}},
        p \in payloads}

Curtailment == Event(3, {3}, {1}, <<Interval(9, {}, {}, ACurve)>>, {}, {0})

\* Events in time order that reports are asked of.
Reported ==
    {Event(1, {s}, {2}, l, u, {}) :
        s \in {Now, 1}, u \in {{}, {7}, {Forever}},
        l \in {<<>>, <<Interval(7, {}, {}, OneValue)>>,
               <<Interval(7, {}, {}, OneValue), Interval(8, {}, {1}, OneValue)>>,
               <<Interval(7, {}, {}, OneValue), Interval(8, {}, {}, OneValue),
                 Interval(9, {}, {Forever}, OneValue)>>}}

Descriptors ==
    [startInterval : {-1, 0, 1}, numIntervals : {-1, 1, 2}, historical : BOOLEAN,
     frequency : {-1, 1, 2}, repeat : {-1, 2}, open : {FALSE}]

\* Meters that read up to two values, or a text in the place of one.
Number(n) == [number |-> {n}, text |-> ""]
Text(t) == [number |-> {}, text |-> t]
Series == {<<>>, <<Number(1)>>, <<Number(2), Number(4)>>, <<Text("MISSING")>>,
           <<Text("GOOD")>>}
Meter(x, y, summed) ==
    [aggregated |-> summed,
     intervals |-> <<[id |-> 1, payloads |-> <<[type |-> "USAGE", values |-> x]>>],
                     [id |-> 2, payloads |-> <<[type |-> "USAGE", values |-> y],
                                               [type |-> "QUALITY", values |-> x]>>]>>]
Meters == {Meter(x, y, b) : x, y \in Series, b \in BOOLEAN}
Pair(m, n) == <<m, n, Meter(<<Number(1)>>, <<Number(8)>>, FALSE)>>

Input(e, d, m) == [events |-> e, descriptor |-> d, meters |-> m]

AllInputs ==
    {Input({e}, NoDescriptor, <<>>) : e \in AnyEvent}
    \cup {Input({a, b, Curtailment}, NoDescriptor, <<>>) :
             a \in Rivals(1, {2}, {OneValue}), b \in Rivals(2, {1, 3}, {NoPayload, OneValue})}
    \cup {Input({e}, d, <<>>) : e \in Reported, d \in Descriptors}
    \cup {Input({}, NoDescriptor, m) :
             m \in {<<x>> : x \in Meters} \cup {<<x, y>> : x, y \in Meters}
                    \cup {Pair(x, y) : x, y \in Meters}}
=============================================================================

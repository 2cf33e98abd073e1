------------------------------ MODULE VenRuntime ------------------------------
(***************************************************************************)
(* A VEN's loop (ven/mod.rs) against the VTN it polls: register, read the  *)
(* events conditionally, act on the timeline, file what is due, sleep      *)
(* until something changes. A hint (ven/push.rs) may cut the sleep short.  *)
(*                                                                         *)
(* Each request is answered in one step, and the VTN's objects, its clock  *)
(* and the VEN's process may change between any two. A process that meets  *)
(* an error exits, as the loop of examples/ven.rs does, and is started     *)
(* again. randomizeStart, a fixed shift of the start a segment reports, is *)
(* left out.                                                               *)
(***************************************************************************)
EXTENDS Timelines, ReportSchedules, Bags

CONSTANTS
    Offers,         \* what business logic may publish: pairs of an id and a shape
    Resources,      \* VenConfig::resources
    Self,           \* the VEN's own name
    PageLimit,      \* MAX_PAGE_LIMIT
    Poll,           \* VenConfig::poll_interval
    Horizon,        \* TIMELINE_HORIZON_HOURS
    Refresh,        \* TIMELINE_REFRESH
    Catchup,        \* VenConfig::report_catchup
    MaxSkew,        \* VenConfig::max_clock_skew
    Skews,          \* how far the VEN's clock may be ahead when it starts
    InitialBoards,  \* what may be published before the VEN starts
    Start,          \* the VTN's time when the VEN starts
    MaxClock, MaxEdits, MaxFaults    \* bounds of the model

\* Ids are ordered as numbers are, and what is published is timed and may have a priority.
IsOffer(o) == o[1] \in Int /\ IsTimed(o[2]) /\ o[2].priority \in OptionOf(Int)

\* What is published before the start is a finite number of events, a page holds at least
\* one, and timelines are rebuilt before they run out.
ASSUME VenAssumption ==
    /\ \A o \in Offers : IsOffer(o)
    /\ \A offers \in InitialBoards : IsFiniteSet(offers) /\ \A o \in offers : IsOffer(o)
    /\ PageLimit \in Nat \ {0} /\ Poll \in Nat
    /\ Refresh \in Nat /\ Horizon \in Nat \ {0} /\ Refresh <= Horizon

\* No clock reads a negative instant, and no timeline reaches one that is out of range.
ASSUME ClockAssumption ==
    /\ Start \in Nat /\ MaxClock \in Nat /\ Start <= MaxClock
    /\ MaxSkew \in Nat /\ MaxSkew < Start
    /\ \A s \in Skews : s \in Int /\ Start + s >= 0 /\ MaxClock + s + Horizon <= MaxTime

VARIABLES
    clock,          \* the VTN's clock
    board,          \* the VTN's events, by id
    edits,          \* how often they were written
    objects,        \* the VEN and resource objects that exist at the VTN, by name
    filed,          \* a bag of the reports the VTN holds, by key
    skew,           \* how far the VEN's clock is ahead
    link,           \* its connection to the broker: "off" before it has one, and "barred"
                    \* if the broker no longer takes the token it has
    unsent,         \* its subscriptions are still in the MQTT client's queue
    session,        \* the broker holds its subscriptions
    hint,           \* and a notification for it
    pc,             \* where the VEN's process is
    missing,        \* the objects it found absent and is about to create
    answer,         \* what the VTN answered so far: none stands for a 304
    etag, held, anchors, builtAt, reported,     \* the fields of Inner
    timelines,      \* the last of them: a timeline for each programme
    todo,           \* the due reports it has still to file
    acting,         \* what it last read to be in force, and when
    permit,         \* the permit of its Notify
    asleep,         \* since when it sleeps, and until when by a clock never set back
    saved,          \* VenState on disk: the reports it remembers
    view,           \* history: what the VTN held when it last answered, if all at once
    asked,          \* history: how much had been written when the VEN last asked
    excused,        \* history: a bag of the reports the VEN had reason to forget
    faults          \* how many crashes and lost answers, declined reports, clocks set
                    \* back, and ticks of the clock in the middle of a cycle

vtn == <<clock, board, edits, objects, filed>>
history == <<view, asked, excused>>
cache == <<etag, held, anchors, builtAt, timelines, acting>>
push == <<link, unsent, session, hint>>
vars == <<vtn, history, cache, answer, skew, push, pc, missing, reported, todo, permit,
          asleep, saved, faults>>

NoAction == [at |-> 0, segments |-> {}]
VenNow == clock + skew
MayFail ==
    faults.hard + faults.declined + faults.setBack + faults.link + faults.delay < MaxFaults

------------------------------------------------------------------------------
\* The VTN.

\* StoredEvent::is_active_at: the window was resolved when the event was written.
IsActive(stored, at) == ActiveAt(ActiveWindow(stored.shape, stored.written), at)

Version(id) == [id |-> id, version |-> board[id].version, shape |-> board[id].shape]

\* What the VEN asks for, events that are active, and is shown of them.
Visible(at) == {Version(id) : id \in {i \in DOMAIN board : IsActive(board[i], at)}}

\* How many come before an event in the order of ids, the order of a list.
Position(e, all) == Cardinality({x \in all : x.id < e.id})

\* One page.
Page(skip) ==
    {e \in Visible(clock) : Position(e, Visible(clock)) \in skip .. skip + PageLimit - 1}

\* A hash of the body: two pages have one tag only if they are one page.
EntityTag(page) == {<<e.id, e.version>> : e \in page}

\* What is written is announced, unless the VTN gives up on the message.
Write(after) ==
    /\ edits < MaxEdits
    /\ board' = after
    /\ edits' = edits + 1
    /\ hint' \in {hint, hint \/ session}
    /\ UNCHANGED <<history, cache, clock, objects, filed, answer, skew, link, unsent, session,
                   pc, missing, reported, todo, permit, asleep, saved, faults>>

Publish ==
    \E o \in Offers :
        LET stored == [version |-> edits + 1, written |-> clock, shape |-> o[2]]
        IN  Write([i \in DOMAIN board \cup {o[1]} |-> IF i = o[1] THEN stored ELSE board[i]])

Cancel ==
    \E id \in DOMAIN board :
        Write([i \in DOMAIN board \ {id} |-> board[i]])

\* An operator who creates one of the resources himself: it makes a difference only
\* between the VEN's list of them and its writes.
Provision ==
    \E r \in Resources \ objects :
        /\ Self \in objects /\ pc = "create"
        /\ objects' = objects \cup {r}
        /\ UNCHANGED <<history, cache, clock, board, edits, filed, answer, skew, push, pc,
                       missing, reported, todo, permit, asleep, saved, faults>>

------------------------------------------------------------------------------
\* Hints.

\* The slip of waking only who is already waiting.
Wake_OnlyTheWaiting == pc = "wait"

\* Waker::wake stores one permit.
Wake == TRUE

\* MqttPush::start, before the loop: connecting and subscribing are left to the task.
Subscribe ==
    /\ pc = "connect" /\ pc' = "ask"
    /\ link' = "down" /\ unsent' = TRUE
    /\ UNCHANGED <<vtn, history, cache, answer, skew, session, hint, missing, reported, todo,
                   permit, asleep, saved, faults>>

\* The task tries again until the broker takes the connection, and wakes the VEN at once:
\* before a subscription is sent, and whether or not the broker remembers one.
ConnAck ==
    /\ link = "down" /\ link' = "up"
    /\ permit' = (permit \/ Wake)
    /\ UNCHANGED <<vtn, history, cache, answer, skew, unsent, session, hint, pc, missing,
                   reported, todo, asleep, saved, faults>>

\* The broker takes the subscriptions. Its SUBACK is one of the packets that wake nobody.
Subscribed ==
    /\ link = "up" /\ unsent
    /\ unsent' = FALSE /\ session' = TRUE
    /\ UNCHANGED <<vtn, history, cache, answer, skew, link, hint, pc, missing, reported, todo,
                   permit, asleep, saved, faults>>

\* A message: its arrival is all that is read of it.
Hear ==
    /\ link = "up" /\ hint
    /\ hint' = FALSE
    /\ permit' = (permit \/ Wake)
    /\ UNCHANGED <<vtn, history, cache, answer, skew, link, unsent, session, pc, missing,
                   reported, todo, asleep, saved, faults>>

\* Every connection is made with the token the first one was made with: it may be too old.
Lost == {"down", "barred"}

\* The connection fails, perhaps with the requests that were queued for it. The session is
\* a persistent one: the broker holds it, and what comes for it, for the VEN's return.
Disconnect ==
    /\ link = "up" /\ MayFail
    /\ link' \in Lost /\ unsent' \in {unsent, FALSE}
    /\ faults' = [faults EXCEPT !.link = @ + 1]
    /\ UNCHANGED <<vtn, history, cache, answer, skew, session, hint, pc, missing, reported,
                   todo, permit, asleep, saved>>

\* The broker forgets the session: it is restarted, or it expired. Nothing subscribes again.
Forget ==
    /\ session /\ MayFail
    /\ session' = FALSE /\ hint' = FALSE
    /\ link' \in IF link = "up" THEN Lost ELSE {link}
    /\ faults' = [faults EXCEPT !.link = @ + 1]
    /\ UNCHANGED <<vtn, history, cache, answer, skew, unsent, pc, missing, reported, todo,
                   permit, asleep, saved>>

------------------------------------------------------------------------------
\* Registration.

\* check_clock: against the time the VTN's answer carries.
ClockIsWrong == skew > MaxSkew \/ -skew > MaxSkew

\* register, up to the first write: the clock, then the VEN object by its name.
Register ==
    /\ pc = "start"
    /\ IF ClockIsWrong
       THEN pc' = "refused" /\ UNCHANGED missing
       ELSE IF Self \in objects
            THEN pc' = "resources" /\ UNCHANGED missing
            ELSE pc' = "create" /\ missing' = {Self}
    /\ UNCHANGED <<vtn, history, cache, answer, skew, push, reported, todo, permit, asleep,
                   saved, faults>>

ToCreate == Resources \ objects

\* reconcile_resources, its read.
ListResources ==
    /\ pc = "resources"
    /\ missing' = ToCreate
    /\ pc' = IF ToCreate = {} THEN "connect" ELSE "create"
    /\ UNCHANGED <<vtn, history, cache, answer, skew, push, reported, todo, permit, asleep,
                   saved, faults>>

Created(name) ==
    /\ name \notin objects
    /\ objects' = objects \cup {name}
    /\ missing' = missing \ {name}
    /\ pc' = IF name = Self THEN "resources"
             ELSE IF missing = {name} THEN "connect" ELSE "create"
    /\ UNCHANGED <<reported, permit>>

\* The name was taken since the list was read: the VTN answers 409 and the process ends.
Conflict(name) ==
    /\ name \in objects
    /\ pc' = "down" /\ missing' = {} /\ reported' = {} /\ permit' = FALSE
    /\ UNCHANGED objects

Create ==
    /\ pc = "create"
    /\ \E name \in missing : Created(name) \/ Conflict(name)
    /\ UNCHANGED <<history, cache, clock, board, edits, filed, answer, skew, push, todo,
                   asleep, saved, faults>>

------------------------------------------------------------------------------
\* Synchronisation.

\* The conditional read of the first page.
Ask ==
    /\ pc = "ask"
    /\ view' = {Visible(clock)}
    /\ asked' = edits
    /\ LET page == Page(0)
           unchanged == etag = {EntityTag(page)}
           full == Cardinality(page) >= PageLimit
       IN  /\ pc' = IF ~unchanged /\ full THEN "more" ELSE "apply"
           /\ answer' = CASE unchanged -> {}
                          [] ~unchanged /\ full -> {[skip |-> 0, first |-> page, events |-> {}]}
                          [] ~unchanged /\ ~full ->
                               {[skip |-> PageLimit, first |-> page, events |-> page]}
    /\ UNCHANGED <<vtn, cache, excused, skew, push, missing, reported, todo,
                   permit, asleep, saved, faults>>

\* The map by id that the pages are read into: the later of two versions stays.
Merged(events, page) == {e \in events : \A f \in page : f.id # e.id} \cup page

\* list_all, one page: the VTN may have changed since the last one.
AskMore ==
    /\ pc = "more"
    /\ \E a \in answer :
        /\ answer' = {[a EXCEPT !.skip = @ + PageLimit, !.events = Merged(@, Page(a.skip))]}
        /\ pc' = IF Cardinality(Page(a.skip)) < PageLimit THEN "apply" ELSE "more"
    /\ view' = view \cap {Visible(clock)}
    /\ UNCHANGED <<vtn, cache, asked, excused, skew, push, missing, reported,
                   todo, permit, asleep, saved, faults>>

\* What a timeline or a report schedule is computed from.
Anchored(e, anchor) ==
    [id |-> e.id, anchor |-> anchor, start |-> e.shape.start, tick |-> e.shape.tick,
     intervals |-> e.shape.intervals, lasts |-> e.shape.lasts, priority |-> e.shape.priority]

\* build_timelines: one for each programme.
TimelinesAt(now, events, since) ==
    LET Of(p) == {e \in events : e.shape.program = p}
    IN  [p \in {e.shape.program : e \in events} |->
            BuildTimeline({Anchored(e, since[e.id]) : e \in Of(p)},
                          now - GreaterOf(1, Poll), now + Horizon)]

\* The slip of rebuilding only what changed.
Stale_Never(now) == builtAt = {} /\ held # {}

\* timelines_are_stale.
Stale(now) ==
    \/ builtAt = {} /\ held # {}
    \/ \E b \in builtAt : now < b \/ now - b >= Refresh

\* The slip of keeping the tag of the first of several pages.
TagKept_OfTheFirstPage(a) == {EntityTag(a.first)}

\* The tag is kept when one page was enough.
TagKept(a) == IF Cardinality(a.first) >= PageLimit THEN {} ELSE {EntityTag(a.first)}

\* What is new to the VEN, or was modified since it read it.
Reanchored(events) ==
    {e.id : e \in {x \in events : \A h \in held : h.id = x.id => h.version # x.version}}

\* Whose anchors are retained.
Live(events) == {e.id : e \in events}

\* active_segments, and the one active_at prefers.
ActiveSegments(lines, at) == UNION {InForceAt(lines[p], at) : p \in DOMAIN lines}
Preferred(segments) ==
    LET Rank(s) == [priority |-> s.priority, id |-> s.event]
    IN  {s \in segments : \A t \in segments \ {s} : Precedes(Rank(s), Rank(t))}

\* The loop acts on what is in force as soon as it has synchronised.
ActsOn(lines, now) ==
    acting' = [at |-> now, segments |-> Preferred(ActiveSegments(lines, now))]

\* sync, with an answer that changes something ...
Renew(events, now) ==
    LET gone == {h.id : h \in held} \ {e.id : e \in events}
        since == [i \in Live(events) |-> IF i \in Reanchored(events) THEN now ELSE anchors[i]]
        lines == TimelinesAt(now, events, since)
    IN  /\ held' = events
        /\ anchors' = since
        /\ timelines' = lines /\ builtAt' = {now}
        /\ ActsOn(lines, now)
        /\ reported' = {k \in reported : k.event \notin gone}
        /\ excused' = excused (+) SetToBag({k \in reported : k.event \in gone})

\* ... and with one that does not, a 304 or the same events again: the timelines still age.
Keep(now) ==
    LET lines == IF Stale(now) THEN TimelinesAt(now, held, anchors) ELSE timelines
    IN  /\ timelines' = lines
        /\ builtAt' = IF Stale(now) THEN {now} ELSE builtAt
        /\ ActsOn(lines, now)
        /\ UNCHANGED <<held, anchors, reported, excused>>

Apply ==
    /\ pc = "apply"
    /\ etag' = IF answer = {} THEN etag ELSE UNION {TagKept(a) : a \in answer}
    /\ IF answer = {} \/ (\E a \in answer : a.events = held)
       THEN Keep(VenNow)
       ELSE \E a \in answer : Renew(a.events, VenNow)
    /\ answer' = {}
    /\ pc' = "report"
    /\ UNCHANGED <<vtn, view, asked, skew, push, missing, todo, permit, asleep, saved,
                   faults>>

------------------------------------------------------------------------------
\* Reporting.

\* The reports an event asks for that fell due in a window, by their keys.
Owes(e, anchor, from, at) ==
    LET sequence == SequenceOf(Anchored(e, anchor), anchor)
        Due(d) == Overdue(ReportsDue(e.shape.descriptors[d], sequence, from, at), at)
    IN  IF sequence.err # "" THEN {}
        ELSE UNION {{[event |-> e.id, descriptor |-> d, sequence |-> r.sequence] :
                        r \in ToSet(Due(d))} : d \in DOMAIN e.shape.descriptors}

DueReports(at) ==
    (UNION {Owes(e, anchors[e.id], at - Catchup, at) : e \in held}) \ reported

\* submit_due_reports looks once at what is due.
Plan ==
    /\ pc = "report"
    /\ todo' = DueReports(VenNow)
    /\ pc' = "file"
    /\ UNCHANGED <<vtn, history, cache, answer, skew, push, missing, reported, permit,
                   asleep, saved, faults>>

\* The meter answers and the VTN accepts.
File ==
    /\ pc = "file"
    /\ \E key \in todo :
        /\ filed' = filed (+) SetToBag({key})
        /\ reported' = reported \cup {key}
        /\ todo' = todo \ {key}
    /\ UNCHANGED <<history, cache, clock, board, edits, objects, answer, skew, push, pc,
                   missing, permit, asleep, saved, faults>>

\* The meter has nothing to say, so the report stays due; or it fails, and with it
\* those after it.
Decline ==
    /\ pc = "file" /\ MayFail
    /\ \E key \in todo : todo' = todo \ {key} \/ todo' = {}
    /\ faults' = [faults EXCEPT !.declined = @ + 1]
    /\ UNCHANGED <<vtn, history, cache, answer, skew, push, pc, missing, reported, permit,
                   asleep, saved>>

\* What is remembered of a report that is not answered.
Remembered(key) == reported

\* The answer to a report is lost, and the loop goes on with the next cycle.
FileUnanswered ==
    /\ pc = "file" /\ MayFail
    /\ \E key \in todo, arrived \in BOOLEAN :
        /\ filed' = IF arrived THEN filed (+) SetToBag({key}) ELSE filed
        /\ excused' = IF arrived THEN excused (+) SetToBag({key}) ELSE excused
        /\ reported' = Remembered(key)
    /\ todo' = {}
    /\ faults' = [faults EXCEPT !.hard = @ + 1]
    /\ UNCHANGED <<view, asked, cache, clock, board, edits, objects, answer, skew,
                   push, pc, missing, permit, asleep, saved>>

NextChangeOf(after) ==
    LET all == UNION {NextChange(timelines[p], after) : p \in DOMAIN timelines}
    IN  {t \in all : \A u \in all : t <= u}

\* The slip of sleeping for the poll interval whatever the schedule says.
UntilWakeup_Poll(now) == Poll

\* time_to_next_wakeup.
UntilWakeup(now) ==
    LET change == NextChangeOf(now)
    IN  IF change = {} THEN Poll ELSE LesserOf(TheElement(change) - now, Poll)

\* The cycle is over: the state is written and the VEN sleeps.
Sleep ==
    /\ pc = "file" /\ todo = {}
    /\ saved' = reported
    /\ asleep' = [since |-> VenNow, until |-> clock + UntilWakeup(VenNow)]
    /\ pc' = "wait"
    /\ UNCHANGED <<vtn, history, cache, answer, skew, push, missing, reported, todo, permit,
                   faults>>

------------------------------------------------------------------------------
\* wait_for_work: a sleep raced against a hint.
SleptEnough == clock >= asleep.until /\ UNCHANGED permit
Woken == permit /\ permit' = FALSE

Waken ==
    /\ pc = "wait" /\ (SleptEnough \/ Woken)
    /\ pc' = "ask"
    /\ UNCHANGED <<vtn, history, cache, answer, skew, push, missing, reported, todo, asleep,
                   saved, faults>>

Asleep == pc = "wait" /\ clock < asleep.until /\ ~permit

\* A process that ends loses the whole of Inner and the permit.
Crash ==
    /\ pc \notin {"down", "refused"} /\ MayFail
    /\ pc' = "down"
    /\ held' = {} /\ anchors' = <<>> /\ builtAt' = {} /\ timelines' = <<>> /\ etag' = {}
    /\ acting' = NoAction
    /\ reported' = {} /\ todo' = {} /\ missing' = {} /\ answer' = {}
    /\ link' = "off" /\ unsent' = FALSE /\ permit' = FALSE
    /\ faults' = [faults EXCEPT !.hard = @ + 1]
    /\ excused' = excused (+) SetToBag(reported \ saved)
    /\ UNCHANGED <<vtn, view, asked, skew, session, hint, asleep, saved>>

\* The slip of restoring the name and not the reports.
Restored_Nothing == {}

Restored == saved

\* restore, and the loop from its beginning.
Restart ==
    /\ pc = "down"
    /\ pc' = "start"
    /\ reported' = Restored
    /\ UNCHANGED <<vtn, history, cache, answer, skew, push, missing, todo, permit, asleep,
                   saved, faults>>

\* The VEN's clock is set back.
SetBack ==
    /\ MayFail /\ skew \in -MaxSkew .. MaxSkew
    /\ skew' = skew - 1
    /\ faults' = [faults EXCEPT !.setBack = @ + 1]
    /\ UNCHANGED <<vtn, history, cache, answer, push, pc, missing, reported, todo, permit,
                   asleep, saved>>

\* A timer fires when it is due.
Tick ==
    /\ clock < MaxClock /\ (pc = "wait" => Asleep)
    /\ clock' = clock + 1
    /\ IF Asleep THEN UNCHANGED faults
       ELSE MayFail /\ faults' = [faults EXCEPT !.delay = @ + 1]
    /\ UNCHANGED <<history, cache, board, edits, objects, filed, answer, skew, push, pc,
                   missing, reported, todo, permit, asleep, saved>>

------------------------------------------------------------------------------
Init ==
    /\ clock = Start /\ skew \in Skews
    /\ \E offers \in InitialBoards :
        board = [i \in {o[1] : o \in offers} |->
                    [version |-> 0, written |-> Start,
                     shape |-> (CHOOSE o \in offers : o[1] = i)[2]]]
    /\ edits = 0 /\ asked = 0 /\ objects = {} /\ filed = EmptyBag
    /\ link = "off" /\ unsent = FALSE /\ session = FALSE /\ hint = FALSE
    /\ permit = FALSE /\ pc = "start"
    /\ missing = {} /\ answer = {} /\ etag = {} /\ held = {} /\ anchors = <<>>
    /\ builtAt = {} /\ timelines = <<>> /\ acting = NoAction
    /\ reported = {} /\ todo = {} /\ saved = {}
    /\ asleep = [since |-> 0, until |-> 0]
    /\ view = {} /\ excused = EmptyBag
    /\ faults = [hard |-> 0, declined |-> 0, setBack |-> 0, link |-> 0, delay |-> 0]

Loop ==
    \/ Register \/ ListResources \/ Create \/ Subscribe \/ Ask \/ AskMore \/ Apply
    \/ Plan \/ File \/ Sleep \/ Waken \/ Restart

\* The subscriber's task and the broker.
Pushes == ConnAck \/ Subscribed \/ Hear \/ Disconnect \/ Forget

Next ==
    \/ Publish \/ Cancel \/ Provision \/ Tick \/ Pushes
    \/ Loop \/ Decline \/ FileUnanswered \/ Crash \/ SetBack

Stages == {"start", "refused", "create", "resources", "connect", "ask", "more", "apply",
           "report", "file", "wait", "down"}
Busy == Stages \ {"refused", "wait"}

\* Some step that takes the process from one stage to the next.
Proceeds == pc \in Busy /\ pc' \in Stages \ {pc}

\* The VTN answers what it is asked and a process that ended is started again, so no
\* stage but the sleep lasts for ever; the sleep ends, because time passes. A broker that
\* takes the VEN's token lets it in sooner or later, and takes and delivers what it is
\* sent. Nothing is assumed of those who write.
Spec == Init /\ [][Next]_vars
        /\ WF_pc(Proceeds) /\ WF_vars(Waken) /\ WF_vars(Asleep /\ Tick)
        /\ WF_vars(ConnAck) /\ WF_vars(Subscribed) /\ WF_vars(Hear)

------------------------------------------------------------------------------
Synchronised == pc \in {"report", "file", "wait"}

\* After a cycle the VEN holds what the VTN held when it answered, unless that changed
\* from one page to the next: no 304 hides a change, not even one on a later page.
HoldsWhatWasServed == Synchronised => \A v \in view : held = v

Said(segments) == {<<s.event, s.interval, s.payloads>> : s \in segments}

\* Whatever the VEN acts on is what its events call for at that instant, however long
\* ago the VTN last had something new to say and although its clock was set back.
ActsOnTheSchedule ==
    Synchronised =>
        LET afresh == TimelinesAt(acting.at, held, anchors)
        IN  Said(acting.segments) = Said(Preferred(ActiveSegments(afresh, acting.at)))

\* A VEN that sleeps misses no change of its schedule.
NoChangeIsSleptThrough ==
    Asleep /\ VenNow >= asleep.since =>
        ActiveSegments(timelines, VenNow) = ActiveSegments(timelines, asleep.since)

Copies(key, bag) == IF BagIn(key, bag) THEN bag[key] ELSE 0

\* A report is filed again only when its answer was lost, when the process ended after
\* filing it and before writing its state, or when its event left the VEN and came back.
OnlyFaultsRepeat ==
    \A key \in BagToSet(filed) : Copies(key, filed) <= 1 + Copies(key, excused)

\* A write the broker holds a message of, or made before the VEN is (again) connected, is
\* asked for without the clock having to move, unless the broker bars it: no message that
\* comes while the VEN is busy is lost, and none that was missed while it was away. Any
\* other, announced to nobody or to a VEN that is connected and of which the broker holds no
\* subscription (they are still queued, or it forgot the session), is asked for at the next
\* poll.
EveryWriteIsRead ==
    \A n \in 1 .. MaxEdits :
        LET read == asked >= n \/ pc = "refused"
        IN  /\ (edits = n /\ (hint \/ link # "up")) ~> (read \/ link = "barred")
            /\ (edits = n /\ clock + Poll + MaxFaults <= MaxClock) ~> read
=============================================================================

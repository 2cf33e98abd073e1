--------------------------- MODULE SqlStoreProofs ---------------------------
(***************************************************************************)
(* Proofs about SqlStore, for any number of writers, any objects at first, *)
(* and any contents.                                                       *)
(***************************************************************************)
EXTENDS SqlReads, TLAPS

Fields == {"verb", "key", "content", "seen", "heard", "now", "todo", "cascaded",
           "put", "gone", "refs", "writing", "snapshot"}

\* What is left of a script, by what it does next.
Inserting == {<<"insert">>, <<"insert", "targets">>, <<"insert", "watches", "targets">>}
Updating  == {<<"update">>, <<"update", "targets">>, <<"update", "watches", "targets">>}
Marking   == {<<"targets">>, <<"watches", "targets">>}
Listing   == {<<"list", "clear_below", "clear", "delete">>, <<"list", "clear", "delete">>}
Clearing  == {<<"clear_below", "clear", "delete">>, <<"clear", "delete">>}
Deleting  == {<<"delete">>}
Finished  == {<<>>}

OnScript(t) ==
  /\ t.verb \in {"none", "create", "update", "delete"}
  /\ t.verb = "none"   => t.todo \in Finished
  /\ t.verb = "create" => t.todo \in Inserting \cup Marking \cup Finished
  /\ t.verb = "update" => t.todo \in Updating \cup Marking \cup Finished
  /\ t.verb = "delete" => t.todo \in Listing \cup Clearing \cup Deleting \cup Finished

TypeOK ==
  /\ backend \in Backends
  /\ clock \in Nat
  /\ DOMAIN tx = Writers
  /\ \A w \in Writers : DOMAIN tx[w] = Fields /\ OnScript(tx[w])

-----------------------------------------------------------------------------
(* What a step does to the transactions.                                   *)

\* Short sequences, taken apart.
LEMMA ShortSequences ==
  ASSUME NEW a, NEW b, NEW c, NEW d
  PROVE  /\ <<a>> # <<>> /\ Head(<<a>>) = a /\ Tail(<<a>>) = <<>>
         /\ <<a, b>> # <<>> /\ Head(<<a, b>>) = a /\ Tail(<<a, b>>) = <<b>>
         /\ <<a, b, c>> # <<>> /\ Head(<<a, b, c>>) = a /\ Tail(<<a, b, c>>) = <<b, c>>
         /\ <<a, b, c, d>> # <<>> /\ Head(<<a, b, c, d>>) = a
         /\ Tail(<<a, b, c, d>>) = <<b, c, d>>
<1>1. <<a>> # <<>> /\ Head(<<a>>) = a /\ Tail(<<a>>) = <<>>
  OBVIOUS
<1>2. <<a, b>> # <<>> /\ Head(<<a, b>>) = a /\ Tail(<<a, b>>) = <<b>>
  OBVIOUS
<1>3. <<a, b, c>> # <<>> /\ Head(<<a, b, c>>) = a /\ Tail(<<a, b, c>>) = <<b, c>>
  OBVIOUS
<1>4. <<a, b, c, d>> # <<>> /\ Head(<<a, b, c, d>>) = a /\ Tail(<<a, b, c, d>>) = <<b, c, d>>
  OBVIOUS
<1>5. QED BY <1>1, <1>2, <1>3, <1>4

\* How each part of a script begins, and what follows.
LEMMA HeadsAndTails ==
  ASSUME NEW s
  PROVE  /\ s \in Inserting => s # <<>> /\ Head(s) = "insert"
                               /\ Tail(s) \in Marking \cup Finished
         /\ s \in Updating  => s # <<>> /\ Head(s) = "update"
                               /\ Tail(s) \in Marking \cup Finished
         /\ s \in Marking   => s # <<>> /\ Head(s) \in {"watches", "targets"}
                               /\ Tail(s) \in Marking \cup Finished
         /\ s \in Listing   => s # <<>> /\ Head(s) = "list" /\ Tail(s) \in Clearing
         /\ s \in Clearing  => s # <<>> /\ Head(s) \in {"clear_below", "clear"}
                               /\ Tail(s) \in Clearing \cup Deleting
         /\ s \in Deleting  => s # <<>> /\ Head(s) = "delete" /\ Tail(s) \in Finished
<1>1. ASSUME s \in Inserting
     PROVE  s # <<>> /\ Head(s) = "insert" /\ Tail(s) \in Marking \cup Finished
  <2>1. CASE s = <<"insert">>
    BY <2>1, ShortSequences DEF Marking, Clearing, Deleting, Finished
  <2>2. CASE s = <<"insert", "targets">>
    BY <2>2, ShortSequences DEF Marking, Clearing, Deleting, Finished
  <2>3. CASE s = <<"insert", "watches", "targets">>
    BY <2>3, ShortSequences DEF Marking, Clearing, Deleting, Finished
  <2>4. QED BY <1>1, <2>1, <2>2, <2>3 DEF Inserting
<1>2. ASSUME s \in Updating
     PROVE  s # <<>> /\ Head(s) = "update" /\ Tail(s) \in Marking \cup Finished
  <2>1. CASE s = <<"update">>
    BY <2>1, ShortSequences DEF Marking, Clearing, Deleting, Finished
  <2>2. CASE s = <<"update", "targets">>
    BY <2>2, ShortSequences DEF Marking, Clearing, Deleting, Finished
  <2>3. CASE s = <<"update", "watches", "targets">>
    BY <2>3, ShortSequences DEF Marking, Clearing, Deleting, Finished
  <2>4. QED BY <1>2, <2>1, <2>2, <2>3 DEF Updating
<1>3. ASSUME s \in Marking
     PROVE  s # <<>> /\ Head(s) \in {"watches", "targets"} /\ Tail(s) \in Marking \cup Finished
  <2>1. CASE s = <<"targets">>
    BY <2>1, ShortSequences DEF Marking, Clearing, Deleting, Finished
  <2>2. CASE s = <<"watches", "targets">>
    BY <2>2, ShortSequences DEF Marking, Clearing, Deleting, Finished
  <2>3. QED BY <1>3, <2>1, <2>2 DEF Marking
<1>4. ASSUME s \in Listing
     PROVE  s # <<>> /\ Head(s) = "list" /\ Tail(s) \in Clearing
  <2>1. CASE s = <<"list", "clear_below", "clear", "delete">>
    <3>1. s # <<>> /\ Head(s) = "list" /\ Tail(s) = <<"clear_below", "clear", "delete">>
      BY <2>1, ShortSequences
    <3>2. QED BY <3>1 DEF Clearing, Deleting
  <2>2. CASE s = <<"list", "clear", "delete">>
    BY <2>2, ShortSequences DEF Marking, Clearing, Deleting, Finished
  <2>3. QED BY <1>4, <2>1, <2>2 DEF Listing
<1>5. ASSUME s \in Clearing
     PROVE  s # <<>> /\ Head(s) \in {"clear_below", "clear"} /\ Tail(s) \in Clearing \cup Deleting
  <2>1. CASE s = <<"clear_below", "clear", "delete">>
    <3>1. s # <<>> /\ Head(s) = "clear_below" /\ Tail(s) = <<"clear", "delete">>
      BY <2>1, ShortSequences
    <3>2. QED BY <3>1 DEF Clearing, Deleting
  <2>2. CASE s = <<"clear", "delete">>
    BY <2>2, ShortSequences DEF Marking, Clearing, Deleting, Finished
  <2>3. QED BY <1>5, <2>1, <2>2 DEF Clearing
<1>6. ASSUME s \in Deleting
     PROVE  s # <<>> /\ Head(s) = "delete" /\ Tail(s) \in Finished
  <2>1. CASE s = <<"delete">>
    BY <2>1, ShortSequences DEF Marking, Clearing, Deleting, Finished
  <2>2. QED BY <1>6, <2>1 DEF Deleting
<1>7. QED BY <1>1, <1>2, <1>3, <1>4, <1>5, <1>6

\* Where a script stands says what it is of, and how it goes on.
LEMMA ScriptGoesOn ==
  ASSUME NEW w \in Writers, OnScript(tx[w])
  PROVE  /\ Step(w) = "insert" => tx[w].verb = "create" /\ tx[w].todo \in Inserting
                                    /\ Tail(tx[w].todo) \in Marking \cup Finished
         /\ Step(w) = "update" => tx[w].verb = "update" /\ tx[w].todo \in Updating
                                    /\ Tail(tx[w].todo) \in Marking \cup Finished
         /\ Step(w) \in {"watches", "targets"} =>
              tx[w].verb \in {"create", "update"} /\ tx[w].todo \in Marking
                /\ Tail(tx[w].todo) \in Marking \cup Finished
         /\ Step(w) = "list" => tx[w].verb = "delete" /\ tx[w].todo \in Listing
                                  /\ Tail(tx[w].todo) \in Clearing
         /\ Step(w) \in {"clear_below", "clear"} =>
              tx[w].verb = "delete" /\ tx[w].todo \in Clearing
                /\ Tail(tx[w].todo) \in Clearing \cup Deleting
         /\ Step(w) = "delete" => tx[w].verb = "delete" /\ tx[w].todo \in Deleting
                                    /\ Tail(tx[w].todo) \in Finished
         /\ Step(w) = "commit" => tx[w].todo \in Finished
<1> PICK s : s = tx[w].todo OBVIOUS
<1>1. Step(w) = IF s \in Finished THEN "commit" ELSE Head(s) BY DEF Step, Finished
<1>2. \A x \in Finished : x = <<>> BY DEF Finished
<1>3. s \in Inserting \cup Updating \cup Marking \cup Listing \cup Clearing
               \cup Deleting \cup Finished
      /\ tx[w].verb \in {"none", "create", "update", "delete"}
      /\ (tx[w].verb = "none" => s \in Finished)
      /\ (tx[w].verb = "create" => s \in Inserting \cup Marking \cup Finished)
      /\ (tx[w].verb = "update" => s \in Updating \cup Marking \cup Finished)
      /\ (tx[w].verb = "delete" => s \in Listing \cup Clearing \cup Deleting \cup Finished)
  BY DEF OnScript
<1>4. QED BY <1>1, <1>2, <1>3, HeadsAndTails

\* Nothing else is as it was but these, of one transaction.
Same(t, u) ==
  /\ DOMAIN u = Fields
  /\ u.verb = t.verb /\ u.content = t.content /\ u.seen = t.seen
  /\ u.heard = t.heard /\ u.now = t.now

\* The others' transactions, and whatever is committed.
OnlyOf(w) ==
  /\ DOMAIN tx' = Writers
  /\ \A v \in Writers \ {w} : tx'[v] = tx[v]
  /\ UNCHANGED <<backend, rows, clock, versions>>

\* A statement that wrote.
Wrote(w, put, deletes) ==
  LET t == tx[w]  u == tx'[w] IN
  /\ Same(t, u) /\ u.todo = Tail(t.todo)
  /\ u.cascaded = t.cascaded /\ u.snapshot = t.snapshot
  /\ u.put = [k \in (DOMAIN t.put \ deletes) \cup DOMAIN put |->
                IF k \in DOMAIN put THEN put[k] ELSE t.put[k]]
  /\ u.gone = (t.gone \ DOMAIN put) \cup deletes
  /\ u.writing = (backend = "sqlite")

\* A write is a write.
LEMMA AWrite ==
  ASSUME TypeOK, NEW w \in Writers, NEW put, NEW deletes, NEW refers,
         Write(w, put, deletes, refers)
  PROVE  /\ OnlyOf(w) /\ Wrote(w, put, deletes) /\ tx'[w].key = tx[w].key
         /\ tx'[w].refs = tx[w].refs \cup refers
<1> DEFINE t == tx[w]
           all == [k \in (DOMAIN t.put \ deletes) \cup DOMAIN put |->
                     IF k \in DOMAIN put THEN put[k] ELSE t.put[k]]
<1>1. DOMAIN t = Fields /\ DOMAIN tx = Writers BY DEF TypeOK
<1>2. tx' = [tx EXCEPT ![w] = Did(Written(w, put, deletes, refers))]
      /\ UNCHANGED <<backend, rows, clock, versions>>
  BY DEF Write
<1>3. Written(w, put, deletes, refers)
        = [t EXCEPT !.put = all, !.gone = (@ \ DOMAIN put) \cup deletes,
                    !.refs = @ \cup refers, !.writing = (backend = "sqlite")]
  BY DEF Written
<1> HIDE DEF all
<1>4. OnlyOf(w) BY <1>1, <1>2 DEF OnlyOf
<1>5. tx'[w] = Did(Written(w, put, deletes, refers)) BY <1>1, <1>2
<1>6. Same(t, tx'[w]) /\ tx'[w].key = t.key
  BY <1>1, <1>3, <1>5 DEF Same, Did, Fields
<1>7. /\ tx'[w].todo = Tail(t.todo) /\ tx'[w].cascaded = t.cascaded
      /\ tx'[w].snapshot = t.snapshot /\ tx'[w].put = all
      /\ tx'[w].gone = (t.gone \ DOMAIN put) \cup deletes
      /\ tx'[w].refs = t.refs \cup refers
      /\ tx'[w].writing = (backend = "sqlite")
  BY <1>1, <1>3, <1>5 DEF Did, Fields
<1>8. QED BY <1>4, <1>6, <1>7 DEF Wrote, all

\* An insertion writes a row that is new, and knows its key from then on.
LEMMA AnInsertion ==
  ASSUME TypeOK, NEW w \in Writers, Insert(w)
  PROVE  LET kind == KindOf(tx[w].key) IN
         \E n : LET put == Inserted(kind, n, Row(tx[w].content, tx[w].now)) IN
           /\ OnlyOf(w) /\ Wrote(w, put, {})
           /\ tx'[w].key = Key(kind, n)
           /\ tx'[w].refs = tx[w].refs \cup {tx[w].content[1]}
           /\ n = View(w)[Sequence(kind)] + 1
           /\ MayWrite(w, {Sequence(kind), Key(kind, n)}, {}, {tx[w].content[1]})
<1> DEFINE t == tx[w]
           kind == KindOf(t.key)
<1> PICK n : n = View(w)[Sequence(kind)] + 1 OBVIOUS
<1> DEFINE put == Inserted(kind, n, Row(t.content, t.now))
           all == [k \in (DOMAIN t.put \ {}) \cup DOMAIN put |->
                     IF k \in DOMAIN put THEN put[k] ELSE t.put[k]]
<1>1. DOMAIN t = Fields /\ DOMAIN tx = Writers BY DEF TypeOK
<1>2. tx' = [tx EXCEPT ![w] =
        [Did(Written(w, put, {}, {t.content[1]})) EXCEPT !.key = Key(kind, n)]]
      /\ UNCHANGED <<backend, rows, clock, versions>>
      /\ MayWrite(w, {Sequence(kind), Key(kind, n)}, {}, {tx[w].content[1]})
  BY DEF Insert
<1>3. Written(w, put, {}, {t.content[1]})
        = [t EXCEPT !.put = all, !.gone = (@ \ DOMAIN put) \cup {},
                    !.refs = @ \cup {t.content[1]}, !.writing = (backend = "sqlite")]
  BY DEF Written
<1> HIDE DEF all, put
<1>4. OnlyOf(w) BY <1>1, <1>2 DEF OnlyOf
<1>5. tx'[w] = [Did(Written(w, put, {}, {t.content[1]})) EXCEPT !.key = Key(kind, n)]
  BY <1>1, <1>2
<1> DEFINE u == Did(Written(w, put, {}, {t.content[1]}))
<1>a. Same(t, u) /\ u.key = t.key
  BY <1>1, <1>3 DEF Same, Did, Fields
<1>b. tx'[w] = [u EXCEPT !.key = Key(kind, n)] BY <1>5
<1> HIDE DEF u
<1>6. Same(t, tx'[w]) /\ tx'[w].key = Key(kind, n)
  BY <1>a, <1>b DEF Same, Fields
<1>7. /\ tx'[w].todo = Tail(t.todo) /\ tx'[w].cascaded = t.cascaded
      /\ tx'[w].snapshot = t.snapshot /\ tx'[w].put = all
      /\ tx'[w].gone = (t.gone \ DOMAIN put) \cup {}
      /\ tx'[w].refs = t.refs \cup {t.content[1]}
      /\ tx'[w].writing = (backend = "sqlite")
  BY ZenonT(60), <1>1, <1>3, <1>5 DEF Did, Fields
<1>8. Wrote(w, put, {}) BY <1>6, <1>7 DEF Wrote, all
<1>9. QED BY <1>2, <1>4, <1>6, <1>7, <1>8 DEF put

-----------------------------------------------------------------------------
(* How operations begin and end.                                           *)

Childless == {"report", "subscription", "resource"}

\* What has to be left of a script when it has written the row: the rows that
\* repeat what the document carries, of objects of that kind.
Suits(rest, kind) ==
  /\ Carries(kind) => rest \in Marking
  /\ Watches(kind) => rest = <<"watches", "targets">>

\* An operation as the code begins one.
Sound(verb, key, content, seen, heard, script) ==
  /\ verb \in {"create", "update", "delete"}
  /\ \E a, b, c : content = <<a, b, c>>
  /\ verb = "create" => script \in Inserting /\ KindOf(key) \in Kinds
  /\ verb = "update" => script \in Updating /\ key \in Objects(rows) /\ seen = rows[key]
  /\ verb \in {"create", "update"} =>
       /\ <<KindOf(key), KindOf(content[1])>> \in References
       /\ content[2] \subseteq Targets
       /\ Suits(Tail(script), KindOf(key))
  /\ verb = "delete" =>
       /\ key \in Objects(rows)
       /\ script \in Listing \cup Clearing \cup Deleting
       /\ heard => script \in Listing \/ KindOf(key) \in Childless

Begins(w) ==
  \E verb, key, content, seen, heard, script :
    /\ Sound(verb, key, content, seen, heard, script)
    /\ Begin(w, Begun(verb, key, content, seen, heard, script))

\* What a request may say is placed where the schema lets it be.
LEMMA RequestsArePlaced ==
  ASSUME NEW kind, NEW content \in Requests(kind)
  PROVE  /\ \E a, b, c : content = <<a, b, c>>
         /\ <<kind, KindOf(content[1])>> \in References
         /\ content[2] \subseteq Targets
<1> DEFINE parents == {k \in Objects(rows) \cup {NoParent} : <<kind, KindOf(k)>> \in PlacedUnder}
           some == {d \in Contents : /\ Carries(kind) \/ d[1] = {}
                                     /\ Watches(kind) <=> d[2] # {}}
<1>0. Requests(kind) = {<<under, d[1], d[2]>> : under \in parents, d \in some} BY DEF Requests
<1> HIDE DEF parents, some
<1>a. PICK under \in parents, c \in some : content = <<under, c[1], c[2]>> BY <1>0
<1>1. c \in Contents /\ <<kind, KindOf(under)>> \in PlacedUnder BY DEF parents, some
<1>2. content[1] = under /\ content[2] = c[1] BY <1>a
<1>3. PlacedUnder \subseteq References /\ c[1] \subseteq Targets BY <1>1, SqlStoreAssumption
<1>4. QED BY <1>a, <1>1, <1>2, <1>3

\* A creation begins soundly.
LEMMA CreationBegins ==
  ASSUME NEW w \in Writers, NEW kind \in Kinds, NEW script \in Inserting,
         Suits(Tail(script), kind), Create(w, kind, script)
  PROVE  Begins(w)
<1>1. PICK content \in Requests(kind) :
        Begin(w, Begun("create", Key(kind, 0), content, 0, TRUE, script))
  BY DEF Create
<1>2. KindOf(Key(kind, 0)) = kind BY DEF KindOf, Key
<1>3. Sound("create", Key(kind, 0), content, 0, TRUE, script)
  BY <1>2, RequestsArePlaced DEF Sound
<1>4. QED BY <1>1, <1>3 DEF Begins

\* So does an update.
LEMMA UpdateBegins ==
  ASSUME NEW w \in Writers, NEW kind \in Kinds, NEW script \in Updating,
         Suits(Tail(script), kind), Update(w, kind, Found(kind), script)
  PROVE  Begins(w)
<1>1. PICK key \in Found(kind), content \in Requests(kind) :
        Begin(w, Begun("update", key, content, rows[key], TRUE, script))
  BY DEF Update
<1>2. KindOf(key) = kind /\ key \in Objects(rows) BY DEF Found
<1>3. Sound("update", key, content, rows[key], TRUE, script)
  BY <1>2, RequestsArePlaced DEF Sound
<1>4. QED BY <1>1, <1>3 DEF Begins

\* And a deletion, which lists what will go with it if anybody is subscribed.
LEMMA DeletionBegins ==
  ASSUME NEW w \in Writers, NEW kind \in Kinds, NEW key \in Found(kind), NEW heard \in BOOLEAN,
         NEW script \in Listing \cup Clearing \cup Deleting,
         heard => script \in Listing \/ kind \in Childless,
         Begin(w, Begun("delete", key, Content(rows[key]), rows[key], heard, script))
  PROVE  Begins(w)
<1>1. KindOf(key) = kind /\ key \in Objects(rows) BY DEF Found
<1>2. \E a, b, c : Content(rows[key]) = <<a, b, c>> BY DEF Content
<1>3. Sound("delete", key, Content(rows[key]), rows[key], heard, script)
  BY <1>1, <1>2 DEF Sound
<1>4. QED BY <1>3 DEF Begins

\* The steps of the system, those that begin an operation taken together.
LEMMA StepsOfNext ==
  ASSUME Next
  PROVE  \E w \in Writers :
           \/ Begins(w) \/ Insert(w) \/ Replace(w) \/ WriteWatches(w) \/ WriteTargets(w)
           \/ ListBelow(w) \/ ClearBelow(w) \/ Clear(w) \/ Delete(w)
           \/ Commit(w) \/ Rollback(w)
<1> PICK w \in Writers :
      \/ CreateProgram(w) \/ CreateEvent(w) \/ CreateReport(w)
      \/ CreateSubscription(w) \/ CreateVen(w) \/ CreateResource(w)
      \/ UpdateProgram(w) \/ UpdateEvent(w) \/ UpdateReport(w)
      \/ UpdateSubscription(w) \/ UpdateVen(w) \/ UpdateResource(w)
      \/ DeleteProgram(w) \/ DeleteEvent(w) \/ DeleteReport(w)
      \/ DeleteSubscription(w) \/ DeleteVen(w) \/ DeleteResource(w)
      \/ Insert(w) \/ Replace(w) \/ WriteWatches(w) \/ WriteTargets(w)
      \/ ListBelow(w) \/ ClearBelow(w) \/ Clear(w) \/ Delete(w)
      \/ Commit(w) \/ Rollback(w)
  BY DEF Next
<1>1. {"program", "event", "report", "subscription", "ven", "resource"} \subseteq Kinds
      /\ {"report", "subscription", "resource"} \subseteq Childless
  BY DEF Kinds, Childless
<1>2. ASSUME \/ CreateProgram(w) \/ CreateEvent(w) \/ CreateReport(w)
             \/ CreateSubscription(w) \/ CreateVen(w) \/ CreateResource(w)
      PROVE  Begins(w)
  <2>1. /\ ProgramInserted \in Inserting /\ EventInserted \in Inserting
        /\ ReportInserted \in Inserting /\ SubscriptionInserted \in Inserting
        /\ VenInserted \in Inserting /\ ResourceInserted \in Inserting
    BY DEF Inserting, ProgramInserted, EventInserted, ReportInserted, SubscriptionInserted,
           VenInserted, ResourceInserted
  <2>2. /\ Suits(Tail(ProgramInserted), "program") /\ Suits(Tail(EventInserted), "event")
        /\ Suits(Tail(ReportInserted), "report") /\ Suits(Tail(VenInserted), "ven")
        /\ Suits(Tail(SubscriptionInserted), "subscription")
        /\ Suits(Tail(ResourceInserted), "resource")
    BY ShortSequences
    DEF ProgramInserted, EventInserted, ReportInserted, SubscriptionInserted, VenInserted,
        ResourceInserted, Suits, Carries, Watches, Marking
  <2>3. QED
    BY <1>1, <1>2, <2>1, <2>2, CreationBegins
    DEF CreateProgram, CreateEvent, CreateReport, CreateSubscription, CreateVen, CreateResource
<1>3. ASSUME \/ UpdateProgram(w) \/ UpdateEvent(w) \/ UpdateReport(w)
             \/ UpdateSubscription(w) \/ UpdateVen(w) \/ UpdateResource(w)
      PROVE  Begins(w)
  <2>1. /\ ProgramReplaced \in Updating /\ EventReplaced \in Updating
        /\ ReportReplaced \in Updating /\ SubscriptionReplaced \in Updating
        /\ VenReplaced \in Updating /\ ResourceReplaced \in Updating
    BY DEF Updating, ProgramReplaced, EventReplaced, ReportReplaced, SubscriptionReplaced,
           VenReplaced, ResourceReplaced
  <2>2. /\ Suits(Tail(ProgramReplaced), "program") /\ Suits(Tail(EventReplaced), "event")
        /\ Suits(Tail(ReportReplaced), "report") /\ Suits(Tail(VenReplaced), "ven")
        /\ Suits(Tail(SubscriptionReplaced), "subscription")
        /\ Suits(Tail(ResourceReplaced), "resource")
    BY ShortSequences
    DEF ProgramReplaced, EventReplaced, ReportReplaced, SubscriptionReplaced, VenReplaced,
        ResourceReplaced, Suits, Carries, Watches, Marking
  <2>3. QED
    BY <1>1, <1>3, <2>1, <2>2, UpdateBegins
    DEF UpdateProgram, UpdateEvent, UpdateReport, UpdateSubscription, UpdateVen,
        UpdateResource, FoundProgram, FoundEvent, FoundReport, FoundSubscription, FoundVen,
        FoundResource
<1>4. ASSUME \/ DeleteProgram(w) \/ DeleteEvent(w) \/ DeleteVen(w)
      PROVE  Begins(w)
  <2> DEFINE Deletes(key, heard, script) ==
        Begin(w, Begun("delete", key, Content(rows[key]), rows[key], heard, script))
  <2>1. ASSUME NEW heard \in BOOLEAN
        PROVE  /\ ProgramRemoved(heard) \in Listing \cup Clearing
               /\ EventRemoved(heard) \in Listing \cup Clearing
               /\ VenRemoved(heard) \in Listing \cup Clearing
               /\ heard => /\ ProgramRemoved(heard) \in Listing
                           /\ EventRemoved(heard) \in Listing
                           /\ VenRemoved(heard) \in Listing
    BY DEF ProgramRemoved, EventRemoved, VenRemoved, Listing, Clearing
  <2>2. CASE DeleteProgram(w)
    <3>1. PICK key \in Found("program"), heard \in BOOLEAN :
            Deletes(key, heard, ProgramRemoved(heard))
      BY <2>2 DEF DeleteProgram, Remove, FoundProgram
    <3>2. QED BY <1>1, <2>1, <3>1, DeletionBegins
  <2>3. CASE DeleteEvent(w)
    <3>1. PICK key \in Found("event"), heard \in BOOLEAN :
            Deletes(key, heard, EventRemoved(heard))
      BY <2>3 DEF DeleteEvent, Remove, FoundEvent
    <3>2. QED BY <1>1, <2>1, <3>1, DeletionBegins
  <2>4. CASE DeleteVen(w)
    <3>1. PICK key \in Found("ven"), heard \in BOOLEAN : Deletes(key, heard, VenRemoved(heard))
      BY <2>4 DEF DeleteVen, Remove, FoundVen
    <3>2. QED BY <1>1, <2>1, <3>1, DeletionBegins
  <2>5. QED BY <1>4, <2>2, <2>3, <2>4
<1>5. ASSUME \/ DeleteReport(w) \/ DeleteSubscription(w) \/ DeleteResource(w)
      PROVE  Begins(w)
  <2> DEFINE Deletes(key, heard, script) ==
        Begin(w, Begun("delete", key, Content(rows[key]), rows[key], heard, script))
  <2>1. /\ ReportRemoved \in Deleting /\ SubscriptionRemoved \in Clearing
        /\ ResourceRemoved \in Clearing
    BY DEF ReportRemoved, SubscriptionRemoved, ResourceRemoved, Clearing, Deleting
  <2>2. CASE DeleteReport(w)
    <3>1. PICK key \in Found("report"), heard \in BOOLEAN : Deletes(key, heard, ReportRemoved)
      BY <2>2 DEF DeleteReport, Remove, FoundReport
    <3>2. QED BY <1>1, <2>1, <3>1, DeletionBegins
  <2>3. CASE DeleteSubscription(w)
    <3>1. PICK key \in Found("subscription"), heard \in BOOLEAN :
            Deletes(key, heard, SubscriptionRemoved)
      BY <2>3 DEF DeleteSubscription, Remove, FoundSubscription
    <3>2. QED BY <1>1, <2>1, <3>1, DeletionBegins
  <2>4. CASE DeleteResource(w)
    <3>1. PICK key \in Found("resource"), heard \in BOOLEAN :
            Deletes(key, heard, ResourceRemoved)
      BY <2>4 DEF DeleteResource, Remove, FoundResource
    <3>2. QED BY <1>1, <2>1, <3>1, DeletionBegins
  <2>5. QED BY <1>5, <2>2, <2>3, <2>4
<1>6. QED BY <1>2, <1>3, <1>4, <1>5

\* The fields of one that rests.
LEMMA RestingFields ==
  /\ DOMAIN Resting = Fields
  /\ Resting.verb = "none" /\ Resting.todo \in Finished /\ Resting.put = <<>>
  /\ Resting.gone = {} /\ Resting.refs = {} /\ Resting.writing = FALSE /\ Resting.snapshot = "none"
  /\ Resting.heard = FALSE /\ Resting.cascaded = {}
  /\ Resting.content = <<NoParent, {}, {}>>
BY DEF Resting, Fields, Finished

\* Where an operation has begun: an instant of its own, and nothing written.
LEMMA ABeginning ==
  ASSUME TypeOK, NEW w \in Writers, Begins(w)
  PROVE  LET t == tx'[w] IN
         /\ DOMAIN tx' = Writers
         /\ \A v \in Writers \ {w} : tx'[v] = tx[v]
         /\ clock' = clock + 1
         /\ UNCHANGED <<backend, rows, versions>>
         /\ Sound(t.verb, t.key, t.content, t.seen, t.heard, t.todo)
         /\ DOMAIN t = Fields /\ t.now = clock + 1 /\ t.put = <<>> /\ t.gone = {}
         /\ t.refs = {} /\ t.writing = FALSE /\ t.snapshot = "none"
<1>1. PICK verb, key, content, seen, heard, script :
        /\ Sound(verb, key, content, seen, heard, script)
        /\ Begin(w, Begun(verb, key, content, seen, heard, script))
  BY DEF Begins
<1>0. PICK t : t = Begun(verb, key, content, seen, heard, script) OBVIOUS
<1>2. tx' = [tx EXCEPT ![w] = t] /\ clock' = clock + 1 /\ UNCHANGED <<backend, rows, versions>>
  BY <1>0, <1>1 DEF Begin
<1>3. DOMAIN tx = Writers BY DEF TypeOK
<1>4. tx'[w] = t BY <1>2, <1>3
<1>5. /\ DOMAIN t = Fields
      /\ t.verb = verb /\ t.key = key /\ t.content = content /\ t.seen = seen
      /\ t.heard = heard /\ t.now = clock + 1 /\ t.todo = script
      /\ t.put = <<>> /\ t.gone = {} /\ t.refs = {} /\ t.writing = FALSE
      /\ t.snapshot = "none"
  BY <1>0, RestingFields DEF Begun, Fields
<1>6. Sound(t.verb, t.key, t.content, t.seen, t.heard, t.todo) BY <1>1, <1>5
<1>7. DOMAIN tx' = Writers /\ \A v \in Writers \ {w} : tx'[v] = tx[v] BY <1>2, <1>3
<1>8. QED BY <1>2, <1>4, <1>5, <1>6, <1>7

\* A list is read.
LEMMA AList ==
  ASSUME TypeOK, NEW w \in Writers, ListBelow(w)
  PROVE  LET t == tx[w]  u == tx'[w] IN
         /\ OnlyOf(w) /\ Same(t, u) /\ u.key = t.key /\ u.todo = Tail(t.todo)
         /\ u.put = t.put /\ u.gone = t.gone /\ u.refs = t.refs /\ u.writing = t.writing
         /\ u.snapshot = IF backend = "sqlite" /\ ~ t.writing /\ t.snapshot = "none"
                         THEN "held" ELSE t.snapshot
         /\ u.cascaded = Cascaded(View(w), t.key)
<1> DEFINE t == tx[w]
<1> PICK list : list = Cascaded(View(w), t.key) OBVIOUS
<1> PICK held : held = IF backend = "sqlite" /\ ~ t.writing /\ t.snapshot = "none"
                       THEN "held" ELSE t.snapshot
  OBVIOUS
<1>1. DOMAIN t = Fields /\ DOMAIN tx = Writers BY DEF TypeOK
<1>2. tx' = [tx EXCEPT ![w] = [Did(ReadIn(w)) EXCEPT !.cascaded = list]]
      /\ UNCHANGED <<backend, rows, clock, versions>>
  BY DEF ListBelow
<1>3. ReadIn(w) = [t EXCEPT !.snapshot = held]
  BY <1>1 DEF ReadIn, Fields
<1> PICK u : u = Did(ReadIn(w)) OBVIOUS
<1>4. Same(t, u) /\ u.key = t.key /\ u.todo = Tail(t.todo) /\ u.put = t.put /\ u.gone = t.gone
      /\ u.refs = t.refs /\ u.writing = t.writing /\ u.snapshot = held
  BY <1>1, <1>3 DEF Same, Did, Fields
<1>5. tx'[w] = [u EXCEPT !.cascaded = list] BY <1>1, <1>2
<1>6. /\ Same(t, tx'[w]) /\ tx'[w].key = t.key /\ tx'[w].todo = Tail(t.todo)
      /\ tx'[w].put = t.put /\ tx'[w].gone = t.gone /\ tx'[w].refs = t.refs
      /\ tx'[w].writing = t.writing
      /\ tx'[w].snapshot = held /\ tx'[w].cascaded = list
  BY <1>4, <1>5 DEF Same, Fields
<1>7. OnlyOf(w) BY <1>1, <1>2 DEF OnlyOf
<1>8. QED BY <1>6, <1>7

\* A transaction is rolled back, and nothing else happens.
LEMMA ARollback ==
  ASSUME TypeOK, NEW w \in Writers, Rollback(w)
  PROVE  OnlyOf(w) /\ tx'[w] = Resting
BY DEF TypeOK, Rollback, OnlyOf

\* A transaction is committed: what it saw is what there is, and all that
\* becomes of the others is that a snapshot is outdated.
LEMMA ACommit ==
  ASSUME TypeOK, NEW w \in Writers, Commit(w)
  PROVE  /\ rows' = View(w) /\ DOMAIN tx' = Writers /\ tx'[w] = Resting
         /\ UNCHANGED <<backend, clock>>
         /\ versions' = versions \cup {<<k, rows'[k].at, Content(rows'[k])>> : k \in Objects(rows')}
         /\ tx[w].verb # "none" /\ tx[w].todo \in Finished
         /\ \A v \in Writers \ {w} :
              LET t == tx[v]  u == tx'[v] IN
              /\ Same(t, u) /\ u.key = t.key /\ u.todo = t.todo /\ u.cascaded = t.cascaded
              /\ u.put = t.put /\ u.gone = t.gone /\ u.refs = t.refs /\ u.writing = t.writing
              /\ u.snapshot = IF t.snapshot = "held" /\ tx[w].writing
                              THEN "outdated" ELSE t.snapshot
<1>1. DOMAIN tx = Writers /\ \A v \in Writers : DOMAIN tx[v] = Fields BY DEF TypeOK
<1>2. tx' = [OutdatedBy(w) EXCEPT ![w] = Resting] BY DEF Commit
<1>3. DOMAIN OutdatedBy(w) = Writers BY DEF OutdatedBy
<1>4. tx[w].verb # "none" /\ tx[w].todo \in Finished
  BY ScriptGoesOn DEF Commit, TypeOK
<1>5. ASSUME NEW v \in Writers \ {w}
      PROVE  LET t == tx[v]  u == tx'[v] IN
             /\ Same(t, u) /\ u.key = t.key /\ u.todo = t.todo /\ u.cascaded = t.cascaded
             /\ u.put = t.put /\ u.gone = t.gone /\ u.refs = t.refs /\ u.writing = t.writing
             /\ u.snapshot = IF t.snapshot = "held" /\ tx[w].writing
                             THEN "outdated" ELSE t.snapshot
  <2>1. tx'[v] = IF tx[v].snapshot = "held" /\ tx[w].writing
                 THEN [tx[v] EXCEPT !.snapshot = "outdated"] ELSE tx[v]
    BY <1>2, <1>3 DEF OutdatedBy
  <2>2. QED BY <1>1, <2>1 DEF Same, Fields
<1>6. DOMAIN tx' = Writers /\ tx'[w] = Resting BY <1>2, <1>3
<1>7. QED BY <1>4, <1>5, <1>6 DEF Commit

-----------------------------------------------------------------------------
(* What the statements that write say of objects.                          *)

IsObject(k) == KindOf(k) \in Kinds

\* What is put of an object, and what is deleted of them.
PutOfObjects(w, put) ==
  \A k \in DOMAIN put : IsObject(k) =>
    \/ /\ Step(w) = "insert" /\ k = tx'[w].key
       /\ put[k] = Row(tx[w].content, tx[w].now)
    \/ /\ Step(w) = "update" /\ k = tx[w].key /\ k \in DOMAIN View(w)
       /\ put[k] = Row(tx[w].content, Modified(tx[w].seen, tx[w].content, tx[w].now))

DeletedOfObjects(w, deletes) ==
  \A k \in deletes : IsObject(k) =>
    /\ Step(w) = "delete"
    /\ k \in {tx[w].key} \cup AllBelow(View(w), tx[w].key)

Stated(w) ==
  \E put, deletes :
    /\ OnlyOf(w) /\ Wrote(w, put, deletes)
    /\ PutOfObjects(w, put) /\ DeletedOfObjects(w, deletes)
    /\ Step(w) \in {"insert", "update", "watches", "targets", "clear_below", "clear", "delete"}
    /\ KindOf(tx'[w].key) = KindOf(tx[w].key)
    /\ Step(w) # "insert" => tx'[w].key = tx[w].key
    /\ backend = "sqlite" => tx[w].snapshot # "outdated" /\ \A v \in Others(w) : ~ tx[v].writing

\* On SQLite one writes at a time.
LEMMA OneWritesAtATime ==
  ASSUME NEW w \in Writers, NEW changes, NEW deletes, NEW refers,
         MayWrite(w, changes, deletes, refers), backend = "sqlite"
  PROVE  tx[w].snapshot # "outdated" /\ \A v \in Others(w) : ~ tx[v].writing
BY DEF MayWrite

\* Rows of other tables are no objects.
LEMMA NoObjects ==
  ASSUME NEW a, NEW b
  PROVE  /\ ~ IsObject(TargetRow(a, b)) /\ ~ IsObject(WatchRow(a, b)) /\ ~ IsObject(Sequence(a))
         /\ \A table, name : name \notin Kinds =>
              \A k \in Marks(table, name, a) : ~ IsObject(k)
BY DEF IsObject, KindOf, Kinds, TargetRow, WatchRow, Sequence, Marks

\* Each statement that writes, summed up.
LEMMA StatementsSummedUp ==
  ASSUME TypeOK, NEW w \in Writers,
         \/ Insert(w) \/ Replace(w) \/ WriteWatches(w) \/ WriteTargets(w)
         \/ ClearBelow(w) \/ Clear(w) \/ Delete(w)
  PROVE  Stated(w)
<1>0. "watch" \notin Kinds /\ "target" \notin Kinds BY DEF Kinds
<1>1. CASE Insert(w)
  <2> DEFINE kind == KindOf(tx[w].key)
  <2>1. PICK n : LET put == Inserted(kind, n, Row(tx[w].content, tx[w].now)) IN
          /\ OnlyOf(w) /\ Wrote(w, put, {})
          /\ tx'[w].key = Key(kind, n)
          /\ MayWrite(w, {Sequence(kind), Key(kind, n)}, {}, {tx[w].content[1]})
    BY <1>1, AnInsertion
  <2> DEFINE put == Inserted(kind, n, Row(tx[w].content, tx[w].now))
  <2>2. Step(w) = "insert" BY <1>1 DEF Insert
  <2>3. PutOfObjects(w, put)
    BY <2>1, <2>2, NoObjects DEF PutOfObjects, Inserted
  <2>4. DeletedOfObjects(w, {}) BY DEF DeletedOfObjects
  <2>5. KindOf(Key(kind, n)) = kind BY DEF KindOf, Key
  <2> HIDE DEF put
  <2>6. QED BY <2>1, <2>2, <2>3, <2>4, <2>5, OneWritesAtATime DEF Stated, put
<1>2. CASE Replace(w)
  <2> DEFINE t == tx[w]
             put == [k \in {t.key} \cap DOMAIN View(w) |->
                       Row(t.content, Modified(t.seen, t.content, t.now))]
  <2>1. PICK refers : Write(w, put, {}, refers) /\ Step(w) = "update"
    BY <1>2 DEF Replace
  <2>2. PutOfObjects(w, put) BY <2>1 DEF PutOfObjects
  <2> HIDE DEF put
  <2>3. OnlyOf(w) /\ Wrote(w, put, {}) /\ tx'[w].key = tx[w].key BY <2>1, AWrite
  <2>4. MayWrite(w, DOMAIN put, {}, refers) BY <2>1 DEF Write
  <2>5. DeletedOfObjects(w, {}) BY DEF DeletedOfObjects
  <2>6. QED BY <2>1, <2>2, <2>3, <2>4, <2>5, OneWritesAtATime DEF Stated
<1>3. ASSUME NEW name \in {"watch", "target"}, NEW marks, NEW refers,
             \A k \in marks : ~ IsObject(k),
             Marked(w, name, marks, refers), Step(w) \in {"watches", "targets"}
      PROVE  Stated(w)
  <2> DEFINE put == [k \in marks |-> TRUE]
             deletes == Marks(View(w), name, tx[w].key) \ marks
  <2>1. Write(w, put, deletes, refers) BY <1>3 DEF Marked
  <2>2. PutOfObjects(w, put) BY <1>3 DEF PutOfObjects
  <2>3. DeletedOfObjects(w, deletes) BY <1>0, NoObjects DEF DeletedOfObjects
  <2> HIDE DEF put, deletes
  <2>4. OnlyOf(w) /\ Wrote(w, put, deletes) /\ tx'[w].key = tx[w].key BY <2>1, AWrite
  <2>5. MayWrite(w, DOMAIN put, deletes, refers) BY <2>1 DEF Write
  <2>6. QED BY <1>3, <2>2, <2>3, <2>4, <2>5, OneWritesAtATime DEF Stated
<1>4. CASE WriteWatches(w)
  BY <1>3, <1>4, NoObjects DEF WriteWatches
<1>5. CASE WriteTargets(w)
  BY <1>3, <1>5, NoObjects DEF WriteTargets
<1>6. ASSUME NEW deletes, Write(w, <<>>, deletes, {}), DeletedOfObjects(w, deletes),
             Step(w) \in {"clear_below", "clear", "delete"}
      PROVE  Stated(w)
  <2>1. PutOfObjects(w, <<>>) BY DEF PutOfObjects
  <2>2. OnlyOf(w) /\ Wrote(w, <<>>, deletes) /\ tx'[w].key = tx[w].key BY <1>6, AWrite
  <2>3. MayWrite(w, DOMAIN <<>>, deletes, {}) BY <1>6 DEF Write
  <2>4. QED BY <1>6, <2>1, <2>2, <2>3, OneWritesAtATime DEF Stated
<1>7. CASE ClearBelow(w)
  <2> DEFINE deletes == UNION {Marks(View(w), "target", k) : k \in Below(View(w), tx[w].key)}
  <2>1. DeletedOfObjects(w, deletes) BY <1>0, NoObjects DEF DeletedOfObjects
  <2>2. Write(w, <<>>, deletes, {}) /\ Step(w) = "clear_below" BY <1>7 DEF ClearBelow
  <2>3. QED BY <1>6, <2>1, <2>2
<1>8. CASE Clear(w)
  <2> DEFINE deletes == Marks(View(w), "target", tx[w].key)
  <2>1. DeletedOfObjects(w, deletes) BY <1>0, NoObjects DEF DeletedOfObjects
  <2>2. Write(w, <<>>, deletes, {}) /\ Step(w) = "clear" BY <1>8 DEF Clear
  <2>3. QED BY <1>6, <2>1, <2>2
<1>9. CASE Delete(w)
  <2> DEFINE view  == View(w)
             going == ({tx[w].key} \cup AllBelow(view, tx[w].key)) \cap DOMAIN view
             deletes == going \cup UNION {Marks(view, "watch", k) : k \in going}
  <2>1. Write(w, <<>>, deletes, {}) /\ Step(w) = "delete" BY <1>9 DEF Delete
  <2>2. DeletedOfObjects(w, deletes) BY ZenonT(60), <1>0, <2>1, NoObjects DEF DeletedOfObjects
  <2>3. QED BY <1>6, <2>1, <2>2
<1>10. QED BY <1>1, <1>2, <1>4, <1>5, <1>7, <1>8, <1>9

\* The steps of the system, in five kinds.
LEMMA KindsOfSteps ==
  ASSUME TypeOK, Next
  PROVE  \E w \in Writers : Begins(w) \/ Stated(w) \/ ListBelow(w) \/ Commit(w) \/ Rollback(w)
BY StepsOfNext, StatementsSummedUp

-----------------------------------------------------------------------------
(* The types.                                                              *)

(* Every statement, commit, rollback and beginning keeps the types. *)
LEMMA TypesKept ==
  ASSUME TypeOK, [Next]_vars
  PROVE  TypeOK'
<1>1. CASE UNCHANGED vars
  BY <1>1 DEF TypeOK, vars, OnScript
<1>2. ASSUME NEW w \in Writers,
             Begins(w) \/ Stated(w) \/ ListBelow(w) \/ Commit(w) \/ Rollback(w)
      PROVE  TypeOK'
  <2>0. OnScript(tx[w]) BY DEF TypeOK
  <2>1. ASSUME backend' = backend, clock' \in Nat, DOMAIN tx' = Writers,
               DOMAIN tx'[w] = Fields, OnScript(tx'[w]),
               \A v \in Writers \ {w} : /\ DOMAIN tx'[v] = Fields
                                        /\ tx'[v].verb = tx[v].verb
                                        /\ tx'[v].todo = tx[v].todo
        PROVE  TypeOK'
    <3>1. \A v \in Writers \ {w} : OnScript(tx'[v])
      BY <2>1 DEF TypeOK, OnScript
    <3>2. backend' \in Backends BY <2>1 DEF TypeOK
    <3>3. QED BY <2>1, <3>1, <3>2 DEF TypeOK
  <2>2. clock \in Nat /\ clock + 1 \in Nat /\ \A v \in Writers : DOMAIN tx[v] = Fields
    BY DEF TypeOK
  <2>3. CASE Begins(w)
    <3>1. OnScript(tx'[w])
      BY <2>3, ABeginning DEF OnScript, Sound
    <3>2. QED BY <2>1, <2>2, <2>3, <3>1, ABeginning
  <2>4. CASE Stated(w)
    <3>1. OnlyOf(w) /\ Same(tx[w], tx'[w]) /\ tx'[w].todo = Tail(tx[w].todo)
          /\ Step(w) \in {"insert", "update", "watches", "targets", "clear_below", "clear",
                          "delete"}
      BY <2>4 DEF Stated, Wrote
    <3>2. OnScript(tx'[w])
      BY <2>0, <3>1, ScriptGoesOn DEF OnScript, Same
    <3>3. QED BY <2>1, <2>2, <3>1, <3>2 DEF OnlyOf, Same
  <2>5. CASE ListBelow(w)
    <3>1. OnlyOf(w) /\ Same(tx[w], tx'[w]) /\ tx'[w].todo = Tail(tx[w].todo)
      BY <2>5, AList
    <3>2. Step(w) = "list" BY <2>5 DEF ListBelow
    <3>3. OnScript(tx'[w])
      BY <2>0, <3>1, <3>2, ScriptGoesOn DEF OnScript, Same
    <3>4. QED BY <2>1, <2>2, <3>1, <3>3 DEF OnlyOf, Same
  <2>6. CASE Commit(w)
    <3>1. OnScript(tx'[w]) BY <2>6, ACommit, RestingFields DEF OnScript
    <3>2. QED BY <2>1, <2>2, <2>6, <3>1, ACommit, RestingFields DEF Same
  <2>7. CASE Rollback(w)
    <3>1. OnScript(tx'[w]) BY <2>7, ARollback, RestingFields DEF OnScript
    <3>2. QED BY <2>1, <2>2, <2>7, <3>1, ARollback, RestingFields DEF OnlyOf
  <2>8. QED BY <1>2, <2>3, <2>4, <2>5, <2>6, <2>7
<1>3. QED BY <1>1, <1>2, KindsOfSteps

(* The tables as the deployment finds them have their types. *)
LEMMA TypesAtFirst == Init => TypeOK
BY RestingFields DEF Init, TypeOK, OnScript

\* Every transaction is somewhere in its script.
THEOREM TypeCorrect == Spec => []TypeOK
BY TypesAtFirst, TypesKept, PTL DEF Spec

-----------------------------------------------------------------------------
(* Modification times.                                                     *)

\* Every row carries a content that was committed with its time.
RowsRecorded == \A k \in Objects(rows) : <<k, rows[k].at, Content(rows[k])>> \in versions

\* No version is of the future.
VersionsPast == \A u \in versions : u[2] \in 0 .. clock

\* The instant of an operation is nobody else's, and no version's.
OwnInstants ==
  \A w \in Writers : tx[w].verb # "none" =>
    /\ tx[w].now \in 1 .. clock
    /\ \A u \in versions : u[2] # tx[w].now
    /\ \A v \in Writers \ {w} : tx[v].verb # "none" => tx[v].now # tx[w].now

\* What an update has seen was committed.
SeenRecorded ==
  \A w \in Writers : tx[w].verb = "update" =>
    <<tx[w].key, tx[w].seen.at, Content(tx[w].seen)>> \in versions

\* A content is a parent, targets, and what is watched.
IsContent(content) == \E a, b, c : content = <<a, b, c>>
ContentsAre == \A w \in Writers : IsContent(tx[w].content)

\* What is written of an object carries the operation's instant and its
\* content, or is a content that was committed with its time.
Stamped(t, k, row, all) ==
  \/ row.at = t.now /\ Content(row) = t.content
  \/ <<k, row.at, Content(row)>> \in all

WritesStamped ==
  \A w \in Writers : \A k \in DOMAIN tx[w].put :
    IsObject(k) => Stamped(tx[w], k, tx[w].put[k], versions)

TimesInv ==
  /\ RowsRecorded /\ VersionsPast /\ OwnInstants /\ SeenRecorded /\ ContentsAre /\ WritesStamped
  /\ TimesNameContents

\* A row says its content and its time.
LEMMA RowFields ==
  ASSUME NEW content, IsContent(content), NEW at
  PROVE  Row(content, at).at = at /\ Content(Row(content, at)) = content
BY DEF IsContent, Row, Content

\* What a transaction sees of a key is its own, or is committed.
LEMMA ViewOf ==
  ASSUME NEW w \in Writers
  PROVE  /\ DOMAIN View(w) = (DOMAIN rows \ tx[w].gone) \cup DOMAIN tx[w].put
         /\ \A k \in DOMAIN View(w) :
              View(w)[k] = IF k \in DOMAIN tx[w].put THEN tx[w].put[k] ELSE rows[k]
BY DEF View

\* Objects are the keys of a table that are objects.
LEMMA ObjectsAre == ASSUME NEW table PROVE Objects(table) = {k \in DOMAIN table : IsObject(k)}
BY DEF Objects, IsObject

\* A statement stamps what it writes.
LEMMA StatementsStamp ==
  ASSUME TypeOK, TimesInv, NEW w \in Writers, Stated(w)
  PROVE  TimesInv'
<1>1. PICK put, deletes :
        /\ OnlyOf(w) /\ Wrote(w, put, deletes) /\ PutOfObjects(w, put)
        /\ Step(w) # "insert" => tx'[w].key = tx[w].key
  BY DEF Stated
<1>2. /\ UNCHANGED <<rows, versions, clock>>
      /\ \A v \in Writers \ {w} : tx'[v] = tx[v]
      /\ Same(tx[w], tx'[w])
      /\ tx'[w].put = [k \in (DOMAIN tx[w].put \ deletes) \cup DOMAIN put |->
                         IF k \in DOMAIN put THEN put[k] ELSE tx[w].put[k]]
  BY <1>1 DEF OnlyOf, Wrote
<1>3. tx'[w].verb = tx[w].verb /\ tx'[w].now = tx[w].now /\ tx'[w].content = tx[w].content
      /\ tx'[w].seen = tx[w].seen
  BY <1>2 DEF Same
<1>4. RowsRecorded' BY <1>2 DEF TimesInv, RowsRecorded
<1>5. VersionsPast' BY <1>2 DEF TimesInv, VersionsPast
<1>6. OwnInstants'
  <2>1. \A v \in Writers : tx'[v].verb = tx[v].verb /\ tx'[v].now = tx[v].now
    BY <1>2, <1>3
  <2>2. QED BY <1>2, <2>1 DEF TimesInv, OwnInstants
<1>7. ContentsAre' BY <1>2, <1>3 DEF TimesInv, ContentsAre
<1>8. SeenRecorded'
  <2>1. tx[w].verb = "update" => tx'[w].key = tx[w].key
    BY <1>1, ScriptGoesOn DEF TypeOK
  <2>2. QED BY <1>2, <1>3, <2>1 DEF TimesInv, SeenRecorded
<1>9. WritesStamped'
  <2>1. ASSUME NEW k \in DOMAIN put, IsObject(k)
        PROVE  Stamped(tx[w], k, put[k], versions)
    <3> DEFINE t == tx[w]
    <3>1. IsContent(t.content) BY DEF TimesInv, ContentsAre
    <3>2. CASE k = tx'[w].key /\ put[k] = Row(t.content, t.now)
      BY <3>1, <3>2, RowFields DEF Stamped
    <3>3. CASE /\ Step(w) = "update" /\ k = t.key
               /\ put[k] = Row(t.content, Modified(t.seen, t.content, t.now))
      <4>1. <<k, t.seen.at, Content(t.seen)>> \in versions
        BY <3>3, ScriptGoesOn DEF TypeOK, TimesInv, SeenRecorded
      <4>2. CASE Content(t.seen) = t.content
        <5>1. put[k].at = t.seen.at /\ Content(put[k]) = t.content
          BY <3>1, <3>3, <4>2, RowFields DEF Modified
        <5>2. QED BY <4>1, <4>2, <5>1 DEF Stamped
      <4>3. CASE Content(t.seen) # t.content
        <5>1. put[k].at = t.now /\ Content(put[k]) = t.content
          BY <3>1, <3>3, <4>3, RowFields DEF Modified
        <5>2. QED BY <5>1 DEF Stamped
      <4>4. QED BY <4>2, <4>3
    <3>4. QED BY <1>1, <2>1, <3>2, <3>3 DEF PutOfObjects
  <2>2. ASSUME NEW k \in DOMAIN tx'[w].put, IsObject(k)
        PROVE  Stamped(tx'[w], k, tx'[w].put[k], versions)
    <3>1. Stamped(tx[w], k, tx'[w].put[k], versions)
      BY <1>2, <2>1, <2>2 DEF TimesInv, WritesStamped
    <3>2. QED BY <1>3, <3>1 DEF Stamped
  <2>3. QED BY <1>2, <2>2 DEF TimesInv, WritesStamped
<1>10. TimesNameContents' BY <1>2 DEF TimesInv, TimesNameContents
<1>11. QED BY <1>4, <1>5, <1>6, <1>7, <1>8, <1>9, <1>10 DEF TimesInv

\* A commit records what it stamped.
LEMMA CommitsStamp ==
  ASSUME TypeOK, TimesInv, NEW w \in Writers, Commit(w)
  PROVE  TimesInv'
<1>1. /\ rows' = View(w) /\ tx'[w] = Resting /\ clock' = clock
      /\ versions' = versions \cup {<<k, rows'[k].at, Content(rows'[k])>> : k \in Objects(rows')}
      /\ tx[w].verb # "none"
      /\ \A v \in Writers \ {w} :
           /\ Same(tx[v], tx'[v]) /\ tx'[v].key = tx[v].key /\ tx'[v].put = tx[v].put
  BY ACommit
<1>2. tx'[w].verb = "none" /\ tx'[w].put = <<>> /\ IsContent(tx'[w].content)
  BY <1>1, RestingFields DEF IsContent
<1>3. \A v \in Writers \ {w} :
        /\ tx'[v].verb = tx[v].verb /\ tx'[v].now = tx[v].now /\ tx'[v].content = tx[v].content
        /\ tx'[v].seen = tx[v].seen /\ tx'[v].key = tx[v].key /\ tx'[v].put = tx[v].put
  BY <1>1 DEF Same
<1>4. ASSUME NEW k \in Objects(rows')
      PROVE  Stamped(tx[w], k, rows'[k], versions)
  <2>1. k \in DOMAIN View(w) /\ IsObject(k) /\ rows'[k] = View(w)[k]
    BY <1>1, ObjectsAre
  <2>2. CASE k \in DOMAIN tx[w].put
    BY <2>1, <2>2, ViewOf DEF TimesInv, WritesStamped
  <2>3. CASE k \notin DOMAIN tx[w].put
    <3>1. k \in Objects(rows) /\ rows'[k] = rows[k] BY <2>1, <2>3, ViewOf, ObjectsAre
    <3>2. QED BY <3>1 DEF TimesInv, RowsRecorded, Stamped
  <2>4. QED BY <2>2, <2>3
<1>5. ASSUME NEW u \in versions'
      PROVE  u \in versions \/ (u[2] = tx[w].now /\ u[3] = tx[w].content)
  <2>1. CASE u \in versions BY <2>1
  <2>2. ASSUME NEW k \in Objects(rows'), u = <<k, rows'[k].at, Content(rows'[k])>>
        PROVE  u \in versions \/ (u[2] = tx[w].now /\ u[3] = tx[w].content)
    BY <1>4, <2>2 DEF Stamped
  <2>3. QED BY <1>1, <2>1, <2>2
<1>6. versions \subseteq versions' BY <1>1
<1>7. tx[w].now \in 1 .. clock /\ (\A u \in versions : u[2] # tx[w].now)
  BY <1>1 DEF TimesInv, OwnInstants
<1>8. RowsRecorded' BY <1>1 DEF RowsRecorded
<1>9. VersionsPast'
  <2>1. \A u \in versions : u[2] \in 0 .. clock BY DEF TimesInv, VersionsPast
  <2>2. tx[w].now \in 0 .. clock BY <1>7 DEF TypeOK
  <2>3. \A u \in versions' : u[2] \in 0 .. clock BY <1>5, <2>1, <2>2
  <2>4. QED BY <1>1, <2>3 DEF VersionsPast
<1>10. OwnInstants'
  <2>1. ASSUME NEW v \in Writers, tx'[v].verb # "none"
        PROVE  /\ tx'[v].now \in 1 .. clock'
               /\ \A u \in versions' : u[2] # tx'[v].now
               /\ \A x \in Writers \ {v} : tx'[x].verb # "none" => tx'[x].now # tx'[v].now
    <3>1. v # w BY <1>2, <2>1
    <3>2. tx[v].verb # "none" /\ tx'[v].now = tx[v].now BY <1>3, <2>1, <3>1
    <3>3. /\ tx[v].now \in 1 .. clock
          /\ \A u \in versions : u[2] # tx[v].now
          /\ \A x \in Writers \ {v} : tx[x].verb # "none" => tx[x].now # tx[v].now
      BY <3>2 DEF TimesInv, OwnInstants
    <3>4. tx[w].now # tx[v].now BY <1>1, <3>1, <3>3
    <3>5. \A u \in versions' : u[2] # tx[v].now BY <1>5, <3>3, <3>4
    <3>6. \A x \in Writers \ {v} : tx'[x].verb # "none" => tx'[x].now # tx[v].now
      BY <1>2, <1>3, <3>3
    <3>7. QED BY <1>1, <3>2, <3>3, <3>5, <3>6
  <2>2. QED BY <2>1 DEF OwnInstants
<1>11. SeenRecorded' BY <1>2, <1>3, <1>6 DEF TimesInv, SeenRecorded
<1>12. ContentsAre' BY <1>2, <1>3 DEF TimesInv, ContentsAre
<1>13. WritesStamped'
  <2>1. ASSUME NEW v \in Writers, NEW k \in DOMAIN tx'[v].put, IsObject(k)
        PROVE  Stamped(tx'[v], k, tx'[v].put[k], versions')
    <3>1. v # w BY <1>2, <2>1
    <3>2. Stamped(tx[v], k, tx[v].put[k], versions)
      BY <1>3, <2>1, <3>1 DEF TimesInv, WritesStamped
    <3>3. QED BY <1>3, <1>6, <3>1, <3>2 DEF Stamped
  <2>2. QED BY <2>1 DEF WritesStamped
<1>14. TimesNameContents'
  <2>1. ASSUME NEW u \in versions', NEW v \in versions', u[1] = v[1], u[2] = v[2]
        PROVE  u[3] = v[3]
    BY <1>5, <1>7, <2>1 DEF TimesInv, TimesNameContents
  <2>2. QED BY <2>1 DEF TimesNameContents
<1>15. QED BY <1>8, <1>9, <1>10, <1>11, <1>12, <1>13, <1>14 DEF TimesInv

\* An operation that begins has a new instant, and has seen what is committed.
LEMMA BeginningsStamp ==
  ASSUME TypeOK, TimesInv, NEW w \in Writers, Begins(w)
  PROVE  TimesInv'
<1>1. /\ \A v \in Writers \ {w} : tx'[v] = tx[v]
      /\ clock' = clock + 1 /\ UNCHANGED <<rows, versions>>
      /\ tx'[w].now = clock + 1 /\ tx'[w].put = <<>>
      /\ IsContent(tx'[w].content)
      /\ tx'[w].verb = "update" => /\ tx'[w].key \in Objects(rows)
                                   /\ tx'[w].seen = rows[tx'[w].key]
  BY ABeginning DEF Sound, IsContent
<1>2. clock \in Nat BY DEF TypeOK
<1>3. RowsRecorded' BY <1>1 DEF TimesInv, RowsRecorded
<1>4. \A u \in versions : u[2] \in 0 .. clock BY DEF TimesInv, VersionsPast
<1>5. VersionsPast' BY <1>1, <1>2, <1>4 DEF VersionsPast
<1>6. OwnInstants'
  <2>1. ASSUME NEW v \in Writers, v # w, tx'[v].verb # "none"
        PROVE  /\ tx'[v].now \in 1 .. clock
               /\ \A u \in versions' : u[2] # tx'[v].now
               /\ \A x \in Writers \ {v, w} : tx'[x].verb # "none" => tx'[x].now # tx'[v].now
    BY <1>1, <2>1 DEF TimesInv, OwnInstants
  <2>2. \A u \in versions' : u[2] # clock + 1 BY <1>1, <1>2, <1>4
  <2>3. ASSUME NEW v \in Writers, tx'[v].verb # "none"
        PROVE  /\ tx'[v].now \in 1 .. clock + 1
               /\ \A u \in versions' : u[2] # tx'[v].now
               /\ \A x \in Writers \ {v} : tx'[x].verb # "none" => tx'[x].now # tx'[v].now
    <3>1. CASE v = w
      <4>1. \A x \in Writers \ {w} : tx'[x].verb # "none" => tx'[x].now # clock + 1
        BY <1>2, <2>1
      <4>2. QED BY <1>1, <1>2, <2>2, <3>1, <4>1
    <3>2. CASE v # w
      <4>1. tx'[v].now \in 1 .. clock + 1 /\ tx'[v].now # clock + 1
        BY <1>2, <2>1, <2>3, <3>2
      <4>2. QED BY <1>1, <2>1, <2>3, <3>2, <4>1
    <3>3. QED BY <3>1, <3>2
  <2>4. QED BY <1>1, <2>3 DEF OwnInstants
<1>7. SeenRecorded' BY <1>1 DEF TimesInv, SeenRecorded, RowsRecorded
<1>8. ContentsAre' BY <1>1 DEF TimesInv, ContentsAre
<1>9. WritesStamped' BY <1>1 DEF TimesInv, WritesStamped
<1>10. TimesNameContents' BY <1>1 DEF TimesInv, TimesNameContents
<1>11. QED BY <1>3, <1>5, <1>6, <1>7, <1>8, <1>9, <1>10 DEF TimesInv

(* Every step keeps the invariant of the version times. *)
LEMMA TimesKept ==
  ASSUME TypeOK, TimesInv, [Next]_vars
  PROVE  TimesInv'
<1>1. CASE UNCHANGED vars
  BY <1>1 DEF vars, TimesInv, RowsRecorded, VersionsPast, OwnInstants, SeenRecorded, ContentsAre,
              WritesStamped, TimesNameContents
<1>2. ASSUME NEW w \in Writers, UNCHANGED <<rows, versions, clock>>,
             \A v \in Writers \ {w} : tx'[v] = tx[v],
             tx'[w].put = <<>> \/ tx'[w].put = tx[w].put,
             \/ tx'[w].verb = "none" /\ IsContent(tx'[w].content) /\ tx'[w].put = <<>>
             \/ Same(tx[w], tx'[w]) /\ tx'[w].key = tx[w].key
      PROVE  TimesInv'
  <2>1. RowsRecorded' BY <1>2 DEF TimesInv, RowsRecorded
  <2>2. VersionsPast' BY <1>2 DEF TimesInv, VersionsPast
  <2>3. \A v \in Writers : tx'[v].verb # "none" =>
          tx'[v].verb = tx[v].verb /\ tx'[v].now = tx[v].now
    BY <1>2 DEF Same
  <2>4. OwnInstants'
    BY <1>2, <2>3 DEF TimesInv, OwnInstants
  <2>5. SeenRecorded' BY <1>2 DEF TimesInv, SeenRecorded, Same
  <2>6. ContentsAre' BY <1>2 DEF TimesInv, ContentsAre, Same
  <2>7. WritesStamped' BY <1>2 DEF TimesInv, WritesStamped, Stamped, Same
  <2>8. TimesNameContents' BY <1>2 DEF TimesInv, TimesNameContents
  <2>9. QED BY <2>1, <2>2, <2>4, <2>5, <2>6, <2>7, <2>8 DEF TimesInv
<1>3. ASSUME NEW w \in Writers, ListBelow(w) PROVE TimesInv'
  BY <1>2, <1>3, AList DEF OnlyOf
<1>4. ASSUME NEW w \in Writers, Rollback(w) PROVE TimesInv'
  BY <1>2, <1>4, ARollback, RestingFields DEF OnlyOf, IsContent
<1>5. QED
  BY <1>1, <1>3, <1>4, KindsOfSteps, StatementsStamp, CommitsStamp, BeginningsStamp

\* At first a row is of the objects there are exactly if its key is.
LEMMA FirstObjects ==
  ASSUME Init
  PROVE  Objects(rows) = DOMAIN Initial /\ \A k \in DOMAIN Initial : rows[k] = Initial[k]
<1> DEFINE marks == UNION {{TargetRow(k, x) : x \in Initial[k].targets}
                             \cup {WatchRow(k, o) : o \in Initial[k].watches} :
                        k \in DOMAIN Initial}
           kinds == {Sequence(kind) : kind \in Kinds}
<1>1. \A k \in marks \cup kinds : ~ IsObject(k) BY NoObjects
<1>2. ASSUME NEW k \in DOMAIN Initial PROVE IsObject(k)
  <2>1. PICK kind \in Kinds, n \in 1 .. 2 : k = Key(kind, n) BY SqlStoreAssumption
  <2>2. KindOf(k) = kind BY <2>1 DEF KindOf, Key
  <2>3. QED BY <2>2 DEF IsObject
<1>3. rows = [k \in DOMAIN Initial \cup marks \cup kinds |->
                IF k \in marks THEN TRUE ELSE IF k \in kinds THEN 2 ELSE Initial[k]]
  BY DEF Init, InitialRows
<1> HIDE DEF marks, kinds
<1>4. QED BY <1>1, <1>2, <1>3, ObjectsAre

(* Nothing has been versioned or seen at first. *)
LEMMA TimesAtFirst ==
  ASSUME Init
  PROVE  TimesInv
<1>1. versions = {<<k, Initial[k].at, Content(Initial[k])>> : k \in DOMAIN Initial} /\ clock = 0
      /\ tx = [w \in Writers |-> Resting]
  BY DEF Init
<1>2. RowsRecorded BY <1>1, FirstObjects DEF RowsRecorded
<1>3. VersionsPast
  <2>0. \A k \in DOMAIN Initial : Initial[k].at = 0 BY SqlStoreAssumption
  <2>1. ASSUME NEW k \in DOMAIN Initial, NEW u, u = <<k, Initial[k].at, Content(Initial[k])>>
        PROVE  u[2] = 0
    BY <2>0, <2>1
  <2>2. \A u \in versions : u[2] = 0 BY <1>1, <2>1
  <2>3. QED BY <1>1, <2>2 DEF VersionsPast
<1>4. OwnInstants /\ SeenRecorded /\ ContentsAre /\ WritesStamped
  BY <1>1, RestingFields DEF OwnInstants, SeenRecorded, ContentsAre, IsContent, WritesStamped
<1>5. TimesNameContents BY <1>1 DEF TimesNameContents
<1>6. QED BY <1>2, <1>3, <1>4, <1>5 DEF TimesInv

\* A modification time stands for one content, whatever writes overlap.
THEOREM OneContentForATime == Spec => []TimesNameContents
<1>1. Init => TypeOK /\ TimesInv BY TypesAtFirst, TimesAtFirst
<1>2. (TypeOK /\ TimesInv) /\ [Next]_vars => (TypeOK /\ TimesInv)' BY TypesKept, TimesKept
<1>3. TypeOK /\ TimesInv => TimesNameContents BY DEF TimesInv
<1>4. QED BY <1>1, <1>2, <1>3, PTL DEF Spec

-----------------------------------------------------------------------------
(* What goes is announced.                                                 *)

\* Every object refers to what the schema lets it refer to.
Placed(table) ==
  \A k \in Objects(table) : <<KindOf(k), KindOf(table[k].parent)>> \in References

\* What there is to say of a transaction by itself: where its operation would
\* place the object, and that a deletion writes none, takes them at the last,
\* and lists them before it writes.
Fits(t) ==
  /\ t.verb \in {"create", "update"} => <<KindOf(t.key), KindOf(t.content[1])>> \in References
  /\ t.verb = "delete" => IsObject(t.key)
  /\ \A k \in DOMAIN t.put : IsObject(k) =>
       t.verb # "delete" /\ <<KindOf(k), KindOf(t.put[k].parent)>> \in References
  /\ \A k \in t.gone : IsObject(k) => t.verb = "delete" /\ t.todo \in Finished
  /\ t.todo \in Listing => ~ t.writing /\ t.snapshot = "none"

\* On SQLite, who has not been let write has written nothing.
Honest(t) == backend = "sqlite" /\ ~ t.writing => DOMAIN t.put = {} /\ t.gone = {}

\* A deletion that somebody is to hear of, on its way: there is nothing below
\* what it deletes, or it can no longer write, or its list still holds.
OnItsWay(t) ==
  t.verb = "delete" /\ t.heard /\ t.todo \in Clearing \cup Deleting =>
    \/ KindOf(t.key) \in Childless
    \/ t.snapshot = "outdated"
    \/ t.snapshot = "held" /\ AllBelow(rows, t.key) \subseteq t.cascaded

\* What it took was the object, or on its list.
TookTheListed(t) ==
  t.verb = "delete" /\ t.heard =>
    \A k \in t.gone : IsObject(k) => k \in {t.key} \cup t.cascaded

AnnouncedInv ==
  /\ Placed(rows)
  /\ \A w \in Writers : Fits(tx[w]) /\ Honest(tx[w])
  /\ backend = "sqlite" =>
       /\ \A w \in Writers : \A v \in Writers \ {w} : ~ (tx[v].writing /\ tx[w].writing)
       /\ \A w \in Writers : OnItsWay(tx[w]) /\ TookTheListed(tx[w])

\* The parts of a script are apart.
LEMMA PartsApart ==
  ASSUME NEW s
  PROVE  /\ s \in Listing => s \notin Inserting \cup Updating \cup Marking \cup Clearing
                                        \cup Deleting \cup Finished
         /\ s \in Finished => s \notin Inserting \cup Updating \cup Marking \cup Clearing
                                        \cup Deleting
BY HeadsAndTails DEF Finished

\* Tables with the same objects have the same below a key.
LEMMA SameBelow ==
  ASSUME NEW one, NEW other, NEW key, Objects(one) = Objects(other),
         \A k \in Objects(one) : one[k] = other[k]
  PROVE  AllBelow(one, key) = AllBelow(other, key)
<1>1. \A x : Below(one, x) = Below(other, x) BY DEF Below
<1>2. QED BY <1>1 DEF AllBelow

\* The code's queries list all that the database takes: below a programme,
\* events, subscriptions and reports on the events, below an event, reports,
\* below a VEN, resources, and below these, nothing.
LEMMA ListsAreComplete ==
  ASSUME NEW table, Placed(table), NEW key, IsObject(key)
  PROVE  /\ KindOf(key) \in Childless => AllBelow(table, key) = {}
         /\ KindOf(key) \notin Childless => AllBelow(table, key) \subseteq Cascaded(table, key)
<1>1. ASSUME NEW x, NEW k \in Below(table, x)
      PROVE  /\ k \in Objects(table) /\ <<KindOf(k), KindOf(x)>> \in References
    BY <1>1 DEF Below, Placed
<1>2. \A x : KindOf(x) \in Childless => Below(table, x) = {}
  <2>1. ASSUME NEW x, KindOf(x) \in Childless, NEW k \in Below(table, x) PROVE FALSE
    BY <1>1, <2>1 DEF References, Childless
  <2>2. QED BY <2>1
<1>3. ASSUME NEW x, KindOf(x) = "event"
      PROVE  Below(table, x) \subseteq OfKind("report", Below(table, x))
  <2>1. ASSUME NEW k \in Below(table, x) PROVE KindOf(k) = "report"
    BY <1>1, <1>3, <2>1 DEF References
  <2>2. QED BY <2>1 DEF OfKind
<1>4. ASSUME NEW x, KindOf(x) = "ven"
      PROVE  Below(table, x) \subseteq OfKind("resource", Below(table, x))
  <2>1. ASSUME NEW k \in Below(table, x) PROVE KindOf(k) = "resource"
    BY <1>1, <1>4, <2>1 DEF References
  <2>2. QED BY <2>1 DEF OfKind
<1>5. ASSUME NEW x, KindOf(x) = "program"
      PROVE  \A k \in Below(table, x) : KindOf(k) \in {"event", "subscription"}
  <2>1. ASSUME NEW k \in Below(table, x) PROVE KindOf(k) \in {"event", "subscription"}
    BY <1>1, <1>5, <2>1 DEF References
  <2>2. QED BY <2>1
<1>6. KindOf(key) \in Childless => AllBelow(table, key) = {} BY <1>2 DEF AllBelow
<1>7. CASE KindOf(key) = "event"
  <2>1. \A k \in Below(table, key) : KindOf(k) \in Childless
    BY <1>3, <1>7 DEF OfKind, Childless
  <2>2. AllBelow(table, key) = Below(table, key) BY <1>2, <2>1 DEF AllBelow
  <2>3. Cascaded(table, key) = OfKind("report", Below(table, key))
    BY <1>7 DEF Cascaded, CascadedFromEvent
  <2>4. QED BY <1>3, <1>6, <1>7, <2>2, <2>3
<1>8. CASE KindOf(key) = "ven"
  <2>1. \A k \in Below(table, key) : KindOf(k) \in Childless
    BY <1>4, <1>8 DEF OfKind, Childless
  <2>2. AllBelow(table, key) = Below(table, key) BY <1>2, <2>1 DEF AllBelow
  <2>3. Cascaded(table, key) = OfKind("resource", Below(table, key))
    BY <1>8 DEF Cascaded, CascadedFromVen
  <2>4. QED BY <1>4, <1>6, <1>8, <2>2, <2>3
<1>9. CASE KindOf(key) = "program"
  <2> DEFINE events  == OfKind("event", Below(table, key))
             others  == OfKind("subscription", Below(table, key))
             reports == UNION {CascadedFromEvent(table, e) : e \in events}
  <2>1. Cascaded(table, key) = events \cup others \cup reports
    BY <1>9 DEF Cascaded, CascadedFromProgram
  <2>2. Below(table, key) = events \cup others
    BY <1>5, <1>9 DEF OfKind, Below
  <2>3. ASSUME NEW b \in Below(table, key), NEW k \in Below(table, b)
        PROVE  k \in reports
    <3>1. KindOf(b) # "subscription" BY <1>2, <2>3 DEF Childless
    <3>2. KindOf(b) = "event" BY <1>5, <1>9, <3>1
    <3>3. b \in events /\ k \in CascadedFromEvent(table, b)
      BY <1>3, <2>3, <3>2 DEF OfKind, CascadedFromEvent
    <3>4. QED BY <3>3
  <2> HIDE DEF events, others, reports
  <2>4. ASSUME NEW k \in AllBelow(table, key)
        PROVE  k \in Cascaded(table, key)
    <3>1. k \in Below(table, key) \/ \E b \in Below(table, key) : k \in Below(table, b)
      BY <2>4 DEF AllBelow
    <3>2. CASE k \in Below(table, key) BY <2>1, <2>2, <3>2
    <3>3. ASSUME NEW b \in Below(table, key), k \in Below(table, b)
          PROVE  k \in Cascaded(table, key)
      BY <2>1, <2>3, <3>3
    <3>4. QED BY <3>1, <3>2, <3>3
  <2>5. QED BY <1>6, <1>9, <2>4
<1>10. KindOf(key) \in Childless \cup {"event", "ven", "program"}
  BY DEF IsObject, Kinds, Childless
<1>11. QED BY <1>6, <1>7, <1>8, <1>9, <1>10

\* Who has written no object and deleted none sees those that are committed.
LEMMA SeesTheCommitted ==
  ASSUME NEW w \in Writers,
         \A k \in DOMAIN tx[w].put : ~ IsObject(k),
         \A k \in tx[w].gone : ~ IsObject(k)
  PROVE  /\ Objects(View(w)) = Objects(rows)
         /\ \A k \in Objects(rows) : View(w)[k] = rows[k]
         /\ \A key : AllBelow(View(w), key) = AllBelow(rows, key)
<1>1. Objects(View(w)) = Objects(rows) BY ViewOf, ObjectsAre
<1>2. \A k \in Objects(rows) : View(w)[k] = rows[k] BY <1>1, ViewOf, ObjectsAre
<1>3. QED BY <1>1, <1>2, SameBelow

\* What a transaction sees is placed.
LEMMA ViewsArePlaced ==
  ASSUME AnnouncedInv, NEW w \in Writers
  PROVE  Placed(View(w))
<1>1. ASSUME NEW k \in Objects(View(w))
      PROVE  <<KindOf(k), KindOf(View(w)[k].parent)>> \in References
  <2>1. k \in DOMAIN View(w) /\ IsObject(k) BY <1>1, ObjectsAre
  <2>2. CASE k \in DOMAIN tx[w].put BY <2>1, <2>2, ViewOf DEF AnnouncedInv, Fits
  <2>3. CASE k \notin DOMAIN tx[w].put
    <3>1. k \in Objects(rows) /\ View(w)[k] = rows[k] BY <2>1, <2>3, ViewOf, ObjectsAre
    <3>2. QED BY <3>1 DEF AnnouncedInv, Placed
  <2>4. QED BY <2>2, <2>3
<1>2. QED BY <1>1 DEF Placed

\* A statement keeps the deletions on their way.
LEMMA StatementsAnnounce ==
  ASSUME TypeOK, AnnouncedInv, NEW w \in Writers, Stated(w)
  PROVE  AnnouncedInv'
<1> DEFINE t == tx[w]
           u == tx'[w]
<1>1. PICK put, deletes :
        /\ OnlyOf(w) /\ Wrote(w, put, deletes)
        /\ PutOfObjects(w, put) /\ DeletedOfObjects(w, deletes)
        /\ Step(w) \in {"insert", "update", "watches", "targets", "clear_below", "clear",
                        "delete"}
        /\ KindOf(u.key) = KindOf(t.key)
        /\ Step(w) # "insert" => u.key = t.key
        /\ backend = "sqlite" =>
             t.snapshot # "outdated" /\ \A v \in Others(w) : ~ tx[v].writing
  BY DEF Stated
<1>2. /\ UNCHANGED <<backend, rows>>
      /\ \A v \in Writers \ {w} : tx'[v] = tx[v]
      /\ u.verb = t.verb /\ u.content = t.content /\ u.heard = t.heard
      /\ u.todo = Tail(t.todo) /\ u.cascaded = t.cascaded /\ u.snapshot = t.snapshot
      /\ u.put = [k \in (DOMAIN t.put \ deletes) \cup DOMAIN put |->
                    IF k \in DOMAIN put THEN put[k] ELSE t.put[k]]
      /\ u.gone = (t.gone \ DOMAIN put) \cup deletes
      /\ u.writing = (backend = "sqlite")
  BY <1>1 DEF OnlyOf, Wrote, Same
<1>3. OnScript(t) /\ Fits(t) BY DEF TypeOK, AnnouncedInv
<1>4. t.verb = "delete" => u.key = t.key /\ Step(w) \in {"clear_below", "clear", "delete"}
  BY <1>1, <1>3, ScriptGoesOn
<1>5. t.todo \notin Finished BY <1>1 DEF Step, Finished
<1>6. u.todo \notin Listing
  BY <1>1, <1>2, <1>3, ScriptGoesOn, PartsApart
<1>7. \A k \in t.gone : ~ IsObject(k) BY <1>3, <1>5 DEF Fits
<1>8. \A k \in u.gone : IsObject(k) => k \in deletes BY <1>2, <1>7
<1>9. Fits(u)
  <2>1. u.verb \in {"create", "update"} => <<KindOf(u.key), KindOf(u.content[1])>> \in References
    BY <1>1, <1>2, <1>3 DEF Fits
  <2>2. u.verb = "delete" => IsObject(u.key) BY <1>2, <1>3, <1>4 DEF Fits
  <2>3. ASSUME NEW k \in DOMAIN u.put, IsObject(k)
        PROVE  u.verb # "delete" /\ <<KindOf(k), KindOf(u.put[k].parent)>> \in References
    <3>1. CASE k \in DOMAIN put
      <4>1. PICK at : put[k] = Row(t.content, at) BY <1>1, <2>3, <3>1 DEF PutOfObjects
      <4>2. put[k].parent = t.content[1] BY <4>1 DEF Row
      <4>3. Step(w) \in {"insert", "update"} /\ KindOf(k) = KindOf(t.key)
        BY <1>1, <2>3, <3>1 DEF PutOfObjects
      <4>4. t.verb \in {"create", "update"} BY <1>3, <4>3, ScriptGoesOn
      <4>5. <<KindOf(k), KindOf(put[k].parent)>> \in References BY <1>3, <4>2, <4>3, <4>4 DEF Fits
      <4>6. QED BY <1>2, <3>1, <4>4, <4>5
    <3>2. CASE k \notin DOMAIN put BY <1>2, <1>3, <2>3, <3>2 DEF Fits
    <3>3. QED BY <3>1, <3>2
  <2>4. ASSUME NEW k \in u.gone, IsObject(k)
        PROVE  u.verb = "delete" /\ u.todo \in Finished
    <3>1. Step(w) = "delete" BY <1>1, <1>8, <2>4 DEF DeletedOfObjects
    <3>2. QED BY <1>2, <1>3, <3>1, ScriptGoesOn
  <2>5. QED BY <1>6, <2>1, <2>2, <2>3, <2>4 DEF Fits
<1>10. Honest(u) BY <1>2 DEF Honest
<1>11. ASSUME backend = "sqlite" PROVE OnItsWay(u) /\ TookTheListed(u)
  <2>1. OnItsWay(t) BY <1>11 DEF AnnouncedInv
  <2>2. OnItsWay(u)
    <3>1. ASSUME t.verb = "delete" PROVE t.todo \in Clearing \cup Deleting
      BY <1>3, <1>4, <3>1, ScriptGoesOn
    <3>2. QED BY <1>2, <1>4, <2>1, <3>1 DEF OnItsWay
  <2>3. ASSUME t.verb = "delete", t.heard, NEW k \in u.gone, IsObject(k)
        PROVE  k \in {t.key} \cup t.cascaded
    <3>1. Step(w) = "delete" /\ k \in {t.key} \cup AllBelow(View(w), t.key)
      BY <1>1, <1>8, <2>3 DEF DeletedOfObjects
    <3>2. t.todo \in Deleting BY <1>3, <3>1, ScriptGoesOn
    <3>3. AllBelow(View(w), t.key) = AllBelow(rows, t.key)
      BY <1>3, <1>7, <2>3, SeesTheCommitted DEF Fits
    <3>4. KindOf(t.key) \in Childless => AllBelow(View(w), t.key) = {}
      BY <1>3, <2>3, ViewsArePlaced, ListsAreComplete DEF Fits
    <3>5. t.snapshot # "outdated" BY <1>1, <1>11
    <3>6. QED BY <2>1, <2>3, <3>1, <3>2, <3>3, <3>4, <3>5 DEF OnItsWay
  <2>4. TookTheListed(u) BY <1>2, <1>4, <2>3 DEF TookTheListed
  <2>5. QED BY <2>2, <2>4
<1>12. Placed(rows') BY <1>2 DEF AnnouncedInv
<1>13. ASSUME backend = "sqlite", NEW x \in Writers, NEW v \in Writers \ {x}
       PROVE  ~ (tx'[v].writing /\ tx'[x].writing)
  <2>1. \A y \in Writers \ {w} : ~ tx[y].writing BY <1>1, <1>13 DEF Others
  <2>2. \A y \in Writers \ {w} : ~ tx'[y].writing BY <1>2, <2>1
  <2>3. QED BY <1>13, <2>2
<1> HIDE DEF u, t
<1>14. ASSUME NEW v \in Writers PROVE (Fits(tx[v]) /\ Honest(tx[v]))'
  <2>1. Fits(tx'[v]) /\ Honest(tx'[v])
    BY <1>2, <1>9, <1>10 DEF AnnouncedInv, u
  <2>2. (Fits(tx[v]))' BY <2>1 DEF Fits
  <2>3. (Honest(tx[v]))' BY <1>2, <2>1 DEF Honest
  <2>4. QED BY <2>2, <2>3
<1>15. ASSUME backend = "sqlite", NEW v \in Writers
       PROVE  (OnItsWay(tx[v]) /\ TookTheListed(tx[v]))'
  BY <1>2, <1>11, <1>15 DEF AnnouncedInv, OnItsWay, TookTheListed, u
<1>16. QED BY <1>2, <1>12, <1>13, <1>14, <1>15 DEF AnnouncedInv

\* A commit outdates the lists that it makes wrong.
LEMMA CommitsAnnounce ==
  ASSUME TypeOK, AnnouncedInv, NEW w \in Writers, Commit(w)
  PROVE  AnnouncedInv'
<1>1. /\ rows' = View(w) /\ tx'[w] = Resting /\ backend' = backend
      /\ \A v \in Writers \ {w} :
           LET t == tx[v]  u == tx'[v] IN
           /\ Same(t, u) /\ u.key = t.key /\ u.todo = t.todo /\ u.cascaded = t.cascaded
           /\ u.put = t.put /\ u.gone = t.gone /\ u.writing = t.writing
           /\ u.snapshot = IF t.snapshot = "held" /\ tx[w].writing
                           THEN "outdated" ELSE t.snapshot
  BY ACommit
<1>2. Placed(rows') BY <1>1, ViewsArePlaced
<1>3. /\ Fits(Resting) /\ Honest(Resting) /\ ~ Resting.writing
      /\ Resting.verb # "delete"
  BY RestingFields, PartsApart DEF Fits, Honest
<1>4. ASSUME NEW v \in Writers \ {w}
      PROVE  Fits(tx'[v]) /\ Honest(tx'[v])
  <2> DEFINE t == tx[v]
             u == tx'[v]
  <2>1. /\ u.verb = t.verb /\ u.content = t.content /\ u.key = t.key /\ u.todo = t.todo
        /\ u.put = t.put /\ u.gone = t.gone /\ u.writing = t.writing
        /\ t.snapshot = "none" => u.snapshot = "none"
    BY <1>1 DEF Same
  <2>2. Fits(t) /\ Honest(t) BY DEF AnnouncedInv
  <2> HIDE DEF t, u
  <2>3. Fits(u) BY <2>1, <2>2 DEF Fits
  <2>4. Honest(u) BY <2>1, <2>2 DEF Honest
  <2>5. QED BY <2>3, <2>4 DEF u
<1>5. ASSUME NEW v \in Writers PROVE (Fits(tx[v]) /\ Honest(tx[v]))'
  <2>1. Fits(tx'[v]) /\ Honest(tx'[v]) BY <1>1, <1>3, <1>4
  <2>2. (Fits(tx[v]))' BY <2>1 DEF Fits
  <2>3. (Honest(tx[v]))' BY <1>1, <2>1 DEF Honest
  <2>4. QED BY <2>2, <2>3
<1>6. ASSUME backend = "sqlite", NEW x \in Writers, NEW v \in Writers \ {x}
      PROVE  ~ (tx'[v].writing /\ tx'[x].writing)
  <2>1. \A y \in Writers : tx'[y].writing => tx[y].writing BY <1>1, <1>3
  <2>2. QED BY <1>6, <2>1 DEF AnnouncedInv
<1>7. ASSUME backend = "sqlite", NEW v \in Writers \ {w}
      PROVE  (OnItsWay(tx[v]) /\ TookTheListed(tx[v]))'
  <2> PICK t : t = tx[v] OBVIOUS
  <2> PICK u : u = tx'[v] OBVIOUS
  <2>1. /\ u.verb = t.verb /\ u.heard = t.heard /\ u.key = t.key /\ u.todo = t.todo
        /\ u.cascaded = t.cascaded /\ u.gone = t.gone
        /\ u.snapshot = IF t.snapshot = "held" /\ tx[w].writing
                        THEN "outdated" ELSE t.snapshot
    BY <1>1 DEF Same
  <2>2. OnItsWay(t) /\ TookTheListed(t) BY <1>7 DEF AnnouncedInv
  <2>3. (TookTheListed(tx[v]))' BY <2>1, <2>2 DEF TookTheListed
  <2>4. ASSUME t.verb = "delete", t.heard, t.todo \in Clearing \cup Deleting,
               KindOf(t.key) \notin Childless, u.snapshot # "outdated"
        PROVE  u.snapshot = "held" /\ AllBelow(rows', t.key) \subseteq t.cascaded
    <3>1. t.snapshot = "held" /\ AllBelow(rows, t.key) \subseteq t.cascaded
      BY <2>1, <2>2, <2>4 DEF OnItsWay
    <3>2. ~ tx[w].writing BY <2>1, <2>4, <3>1
    <3>3. DOMAIN tx[w].put = {} /\ tx[w].gone = {}
      BY <1>7, <3>2 DEF AnnouncedInv, Honest
    <3>4. AllBelow(View(w), t.key) = AllBelow(rows, t.key) BY <3>3, SeesTheCommitted
    <3>5. QED BY <1>1, <2>1, <2>4, <3>1, <3>4
  <2>5. (OnItsWay(tx[v]))' BY <2>1, <2>4 DEF OnItsWay
  <2>6. QED BY <2>3, <2>5
<1>8. (OnItsWay(tx[w]) /\ TookTheListed(tx[w]))'
  BY <1>1, <1>3 DEF OnItsWay, TookTheListed
<1>9. QED BY <1>1, <1>2, <1>5, <1>6, <1>7, <1>8 DEF AnnouncedInv

\* Steps that leave what is committed and concern one transaction.
LEMMA OneTransaction ==
  ASSUME TypeOK, AnnouncedInv, NEW w \in Writers,
         UNCHANGED <<backend, rows>>, \A v \in Writers \ {w} : tx'[v] = tx[v],
         tx'[w].writing => tx[w].writing,
         Fits(tx'[w]), Honest(tx'[w]),
         backend = "sqlite" => OnItsWay(tx'[w]) /\ TookTheListed(tx'[w])
  PROVE  AnnouncedInv'
<1>1. ASSUME NEW v \in Writers PROVE (Fits(tx[v]) /\ Honest(tx[v]))'
  <2>1. Fits(tx'[v]) /\ Honest(tx'[v]) BY DEF AnnouncedInv
  <2>2. (Fits(tx[v]))' BY <2>1 DEF Fits
  <2>3. (Honest(tx[v]))' BY <2>1 DEF Honest
  <2>4. QED BY <2>2, <2>3
<1>2. ASSUME backend = "sqlite", NEW v \in Writers
      PROVE  (OnItsWay(tx[v]) /\ TookTheListed(tx[v]))'
  <2>1. OnItsWay(tx'[v]) /\ TookTheListed(tx'[v]) BY <1>2 DEF AnnouncedInv
  <2>2. (OnItsWay(tx[v]))' BY <2>1 DEF OnItsWay
  <2>3. (TookTheListed(tx[v]))' BY <2>1 DEF TookTheListed
  <2>4. QED BY <2>2, <2>3
<1>3. ASSUME backend = "sqlite", NEW x \in Writers, NEW v \in Writers \ {x}
      PROVE  ~ (tx'[v].writing /\ tx'[x].writing)
  <2>1. \A y \in Writers : tx'[y].writing => tx[y].writing OBVIOUS
  <2>2. QED BY <1>3, <2>1 DEF AnnouncedInv
<1>4. Placed(rows') BY DEF AnnouncedInv
<1>5. QED BY <1>1, <1>2, <1>3, <1>4 DEF AnnouncedInv

\* A list holds when it is read.
LEMMA ListsAnnounce ==
  ASSUME TypeOK, AnnouncedInv, NEW w \in Writers, ListBelow(w)
  PROVE  AnnouncedInv'
<1> PICK t : t = tx[w] OBVIOUS
<1> PICK u : u = tx'[w] OBVIOUS
<1>1. /\ OnlyOf(w) /\ u.verb = t.verb /\ u.content = t.content /\ u.heard = t.heard
      /\ u.key = t.key /\ u.todo = Tail(t.todo)
      /\ u.put = t.put /\ u.gone = t.gone /\ u.writing = t.writing
      /\ u.snapshot = IF backend = "sqlite" /\ ~ t.writing /\ t.snapshot = "none"
                      THEN "held" ELSE t.snapshot
      /\ u.cascaded = Cascaded(View(w), t.key)
  BY AList DEF Same
<1>2. /\ UNCHANGED <<backend, rows>> /\ \A v \in Writers \ {w} : tx'[v] = tx[v]
  BY <1>1 DEF OnlyOf
<1>3. t.verb = "delete" /\ t.todo \in Listing /\ u.todo \in Clearing
  BY <1>1, ScriptGoesOn DEF ListBelow, TypeOK
<1>4. Fits(t) /\ Honest(t) BY DEF AnnouncedInv
<1>5. t.todo \notin Finished /\ u.todo \notin Listing BY <1>3, PartsApart
<1>6. ~ t.writing /\ t.snapshot = "none" BY <1>3, <1>4 DEF Fits
<1>7. Fits(u) BY <1>1, <1>4, <1>5 DEF Fits
<1>8. Honest(u) BY <1>1, <1>4 DEF Honest
<1>9. \A k \in t.gone : ~ IsObject(k) BY <1>4, <1>5 DEF Fits
<1>10. TookTheListed(u) BY <1>1, <1>9 DEF TookTheListed
<1>11. ASSUME backend = "sqlite" PROVE OnItsWay(u)
  <2>1. u.snapshot = "held" BY <1>1, <1>6, <1>11
  <2>2. AllBelow(View(w), t.key) = AllBelow(rows, t.key)
    BY <1>3, <1>4, <1>9, SeesTheCommitted DEF Fits
  <2>3. KindOf(t.key) \notin Childless => AllBelow(View(w), t.key) \subseteq u.cascaded
    BY <1>1, <1>3, <1>4, ViewsArePlaced, ListsAreComplete DEF Fits
  <2>4. QED BY <1>1, <2>1, <2>2, <2>3 DEF OnItsWay
<1>12. QED BY <1>1, <1>2, <1>7, <1>8, <1>10, <1>11, OneTransaction

\* An operation begins with nothing written.
LEMMA BeginningsAnnounce ==
  ASSUME TypeOK, AnnouncedInv, NEW w \in Writers, Begins(w)
  PROVE  AnnouncedInv'
<1> PICK u : u = tx'[w] OBVIOUS
<1>1. /\ \A v \in Writers \ {w} : tx'[v] = tx[v]
      /\ UNCHANGED <<backend, rows>>
      /\ Sound(u.verb, u.key, u.content, u.seen, u.heard, u.todo)
      /\ u.put = <<>> /\ u.gone = {} /\ u.writing = FALSE /\ u.snapshot = "none"
  BY ABeginning
<1>2. Fits(u)
  <2>1. u.verb \in {"create", "update"} => <<KindOf(u.key), KindOf(u.content[1])>> \in References
    BY <1>1 DEF Sound
  <2>2. u.verb = "delete" => IsObject(u.key) BY <1>1, ObjectsAre DEF Sound
  <2>3. QED BY <1>1, <2>1, <2>2 DEF Fits
<1>3. Honest(u) /\ TookTheListed(u) BY <1>1 DEF Honest, TookTheListed
<1>4. OnItsWay(u)
  <2>1. ASSUME u.verb = "delete", u.heard, u.todo \in Clearing \cup Deleting
        PROVE  KindOf(u.key) \in Childless
    BY <1>1, <2>1, PartsApart DEF Sound
  <2>2. QED BY <2>1 DEF OnItsWay
<1>5. QED BY <1>1, <1>2, <1>3, <1>4, OneTransaction

(* Every step keeps the invariant of the cascades. *)
LEMMA AnnouncedKept ==
  ASSUME TypeOK, AnnouncedInv, [Next]_vars
  PROVE  AnnouncedInv'
<1>1. CASE UNCHANGED vars
  <2>1. UNCHANGED <<backend, rows, tx>> BY <1>1 DEF vars
  <2>2. Placed(rows)' BY <2>1 DEF AnnouncedInv, Placed, Objects
  <2>3. (\A w \in Writers : Fits(tx[w]) /\ Honest(tx[w]))'
    BY <2>1 DEF AnnouncedInv, Fits, Honest
  <2>4. (\A w \in Writers : OnItsWay(tx[w]) /\ TookTheListed(tx[w]))
          => (\A w \in Writers : OnItsWay(tx[w]) /\ TookTheListed(tx[w]))'
    BY <2>1 DEF OnItsWay, TookTheListed
  <2>5. QED BY <2>1, <2>2, <2>3, <2>4 DEF AnnouncedInv
<1>2. ASSUME NEW w \in Writers, Rollback(w) PROVE AnnouncedInv'
  <2>1. /\ UNCHANGED <<backend, rows>> /\ \A v \in Writers \ {w} : tx'[v] = tx[v]
        /\ tx'[w] = Resting
    BY <1>2, ARollback DEF OnlyOf
  <2>2. /\ Fits(Resting) /\ Honest(Resting) /\ ~ Resting.writing
        /\ OnItsWay(Resting) /\ TookTheListed(Resting)
    BY RestingFields, PartsApart DEF Fits, Honest, OnItsWay, TookTheListed
  <2>3. QED BY <2>1, <2>2, OneTransaction
<1>3. QED
  BY <1>1, <1>2, KindsOfSteps, StatementsAnnounce, CommitsAnnounce, ListsAnnounce,
     BeginningsAnnounce

(* Before any transaction every row lies under its parent. *)
LEMMA AnnouncedAtFirst ==
  ASSUME Init
  PROVE  AnnouncedInv
<1>1. tx = [w \in Writers |-> Resting] BY DEF Init
<1>2. /\ Fits(Resting) /\ Honest(Resting) /\ ~ Resting.writing
      /\ OnItsWay(Resting) /\ TookTheListed(Resting)
  BY RestingFields, PartsApart DEF Fits, Honest, OnItsWay, TookTheListed
<1>3. Placed(rows) BY FirstObjects, SqlStoreAssumption DEF Placed
<1>4. QED BY <1>1, <1>2, <1>3 DEF AnnouncedInv

\* On SQLite whatever a deletion takes with it is announced with it, if anybody
\* was subscribed, whatever other writes overlap with it.
THEOREM CascadesAreAnnounced == Spec => []WhatGoesIsAnnounced
<1>1. Init => TypeOK /\ AnnouncedInv BY TypesAtFirst, AnnouncedAtFirst
<1>2. (TypeOK /\ AnnouncedInv) /\ [Next]_vars => (TypeOK /\ AnnouncedInv)'
  BY TypesKept, AnnouncedKept
<1>3. TypeOK /\ AnnouncedInv => WhatGoesIsAnnounced
  <2> SUFFICES ASSUME TypeOK, AnnouncedInv, NEW w \in Writers, backend = "sqlite",
                      tx[w].heard, NEW k \in Gone(w)
               PROVE  k \in AnnouncedGone(w)
    BY DEF WhatGoesIsAnnounced
  <2>1. k \in DOMAIN rows /\ IsObject(k) /\ k \notin DOMAIN View(w)
    BY ObjectsAre DEF Gone
  <2>2. k \in tx[w].gone BY <2>1, ViewOf
  <2>3. tx[w].verb = "delete" BY <2>1, <2>2 DEF AnnouncedInv, Fits
  <2>4. k \in {tx[w].key} \cup tx[w].cascaded
    BY <2>1, <2>2, <2>3 DEF AnnouncedInv, TookTheListed
  <2>5. QED BY <2>3, <2>4 DEF AnnouncedGone
<1>4. QED BY <1>1, <1>2, <1>3, PTL DEF Spec


-----------------------------------------------------------------------------
(* Reads and documents.                                                    *)

IsMark(k) == KindOf(k) \in {"target", "watch"}

\* A key a sequence has given out.
Numbered(table, k) ==
  /\ IsObject(k) /\ k = Key(KindOf(k), k[2]) /\ k[2] \in Nat
  /\ k[2] <= table[Sequence(KindOf(k))]

\* Every key was given out, and those that rows say something of.
Counted(table) ==
  /\ \A kind \in Kinds : Sequence(kind) \in DOMAIN table /\ table[Sequence(kind)] \in Nat
  /\ \A k \in DOMAIN table : /\ IsObject(k) => Numbered(table, k)
                             /\ IsMark(k) => Numbered(table, k[2])

\* The rows repeat what the documents carry.
Agreeing(table) ==
  \A k \in Objects(table) :
    /\ Carries(KindOf(k)) =>
         /\ table[k].targets \subseteq Targets
         /\ \A x \in Targets : TargetRow(k, x) \in DOMAIN table <=> x \in table[k].targets
    /\ Watches(KindOf(k)) =>
         \A o \in Watched : WatchRow(k, o) \in DOMAIN table <=> o \in table[k].watches

\* Whatever an object refers to is there.
HasParents(table) ==
  \A k \in Objects(table) : KindOf(table[k].parent) # "none" => table[k].parent \in DOMAIN table

(***************************************************************************)
(* What there is to say of a transaction, over the committed rows.         *)
(***************************************************************************)
Claims(t) == DOMAIN t.put \cup t.gone
Writes(t) == t.verb \in {"create", "update"}

\* A creation or an update that has written the row, if it was there to write.
Past(t) == Writes(t) /\ t.todo \in Marking \cup Finished
Stores(t) == Past(t) /\ t.key \in DOMAIN t.put

Unstarted(t) ==
  t.verb = "none" \/ t.todo \in Inserting \cup Updating \cup Listing =>
    DOMAIN t.put = {} /\ t.gone = {} /\ t.refs = {}

Prepared(t) ==
  Writes(t) => /\ t.content[2] \subseteq Targets
               /\ t.todo \in Inserting \cup Updating => Suits(Tail(t.todo), KindOf(t.key))

\* It writes the row of its key, the rows that say something of it, and, if it
\* creates it, the sequence.
OwnRows(t) ==
  Past(t) =>
    /\ \A k \in DOMAIN t.put : \/ k = t.key
                               \/ IsMark(k) /\ k[2] = t.key
                               \/ t.verb = "create" /\ k = Sequence(KindOf(t.key))
    /\ \A k \in t.gone : IsMark(k) /\ k[2] = t.key
    /\ t.key \in DOMAIN t.put => Content(t.put[t.key]) = Content(Row(t.content, t.now))

\* The key of a creation is the next there is.
Fresh(table, t) ==
  Past(t) /\ t.verb = "create" =>
    LET s == Sequence(KindOf(t.key)) IN
    /\ t.key \in DOMAIN t.put /\ s \in DOMAIN t.put
    /\ t.put[s] = table[s] + 1 /\ t.key = Key(KindOf(t.key), table[s] + 1)

\* That of an update has been given out, and it writes the row if it is there.
Existing(table, t) ==
  t.verb = "update" =>
    /\ Numbered(table, t.key)
    /\ Past(t) => (t.key \in DOMAIN t.put <=> t.key \in DOMAIN table)

\* Rows are written for what the document carries when their step comes, all
\* of them, and none is left of what it carried before.
NoMarksYet(t) ==
  Writes(t) /\ t.todo \in Marking =>
    /\ \A k \in Claims(t) : KindOf(k) # "target"
    /\ t.todo = <<"watches", "targets">> => \A k \in Claims(t) : KindOf(k) # "watch"
TargetsDone(table, t) ==
  /\ \A x \in Targets : TargetRow(t.key, x) \in DOMAIN t.put <=> x \in t.content[2]
  /\ \A k \in DOMAIN table : KindOf(k) = "target" /\ k[2] = t.key => k \in Claims(t)
WatchesDone(table, t) ==
  /\ \A o \in Watched : WatchRow(t.key, o) \in DOMAIN t.put <=> o \in t.content[3]
  /\ \A k \in DOMAIN table : KindOf(k) = "watch" /\ k[2] = t.key => k \in Claims(t)
Repeats(table, t) ==
  Stores(t) =>
    /\ Carries(KindOf(t.key)) /\ t.todo \in Finished => TargetsDone(table, t)
    /\ Watches(KindOf(t.key)) /\ t.todo # <<"watches", "targets">> => WatchesDone(table, t)

\* The parent is there, and is kept there or was the parent before.
Rooted(table, t) ==
  Stores(t) /\ KindOf(t.content[1]) # "none" =>
    /\ t.content[1] \in DOMAIN table
    /\ \/ t.content[1] \in t.refs
       \/ t.key \in DOMAIN table /\ table[t.key].parent = t.content[1]

\* A deletion takes rows that are there, what refers to what it takes, and
\* rows that say something of what it takes, or is about to.
Deletes(table, t) ==
  t.verb = "delete" =>
    /\ DOMAIN t.put = {} /\ t.refs = {} /\ t.gone \subseteq DOMAIN table
    /\ \A k \in t.gone :
         /\ IsObject(k) \/ IsMark(k)
         /\ KindOf(k) = "watch" => k[2] \in t.gone
         /\ KindOf(k) = "target" /\ k[2] \in DOMAIN table /\ Carries(KindOf(k[2])) =>
              \/ t.todo \in Finished /\ k[2] \in t.gone
              \/ t.todo \notin Finished /\ (k[2] = t.key \/ table[k[2]].parent = t.key)
    /\ \A k \in Objects(table) : table[k].parent \in t.gone => k \in t.gone

Orderly(table, t) ==
  /\ Unstarted(t) /\ Prepared(t) /\ OwnRows(t) /\ Fresh(table, t) /\ Existing(table, t)
  /\ NoMarksYet(t) /\ Repeats(table, t) /\ Rooted(table, t) /\ Deletes(table, t)

\* On SQLite, who has not been let write has referred to nothing.
Modest(t) == backend = "sqlite" /\ ~ t.writing => t.refs = {}

\* What one has written no other has, and none deletes what another refers to.
Apart(t, u) == Claims(t) \cap Claims(u) = {} /\ t.gone \cap u.refs = {}

ReadsInv ==
  /\ Counted(rows) /\ Agreeing(rows) /\ HasParents(rows)
  /\ \A w \in Writers : Orderly(rows, tx[w]) /\ Modest(tx[w])
  /\ \A w \in Writers : \A v \in Writers \ {w} : Apart(tx[v], tx[w])

-----------------------------------------------------------------------------
\* What the keys of rows say.
LEMMA RowShapes ==
  /\ \A id, x : KindOf(TargetRow(id, x)) = "target" /\ TargetRow(id, x)[2] = id
  /\ \A id, x : KindOf(WatchRow(id, x)) = "watch" /\ WatchRow(id, x)[2] = id
  /\ \A id, x, y : TargetRow(id, x) = TargetRow(id, y) => x = y
  /\ \A id, x, y : WatchRow(id, x) = WatchRow(id, y) => x = y
  /\ \A kind : KindOf(Sequence(kind)) = "sequence"
  /\ \A one, other : Sequence(one) = Sequence(other) => one = other
  /\ \A kind, n : KindOf(Key(kind, n)) = kind /\ Key(kind, n)[2] = n
BY DEF KindOf, TargetRow, WatchRow, Sequence, Key

\* Objects, the rows about them and the sequences are different things.
LEMMA KindsApart ==
  ASSUME NEW k
  PROVE  /\ IsObject(k) => ~ IsMark(k) /\ KindOf(k) # "sequence" /\ KindOf(k) # "none"
         /\ IsMark(k) => KindOf(k) # "sequence" /\ KindOf(k) # "none"
BY DEF IsObject, IsMark, Kinds

\* What may be written of an object, and what it refers to, has a kind.
LEMMA WhatReferencesSay ==
  ASSUME NEW one, NEW other, <<one, other>> \in References
  PROVE  one \in Kinds /\ other \in Kinds \cup {"none"}
BY DEF References, Kinds

\* The table after a transaction.
Becomes(table, t, after) ==
  /\ DOMAIN after = (DOMAIN table \ t.gone) \cup DOMAIN t.put
  /\ \A k \in DOMAIN after : after[k] = IF k \in DOMAIN t.put THEN t.put[k] ELSE table[k]

\* A transaction that is about to commit.
Ends(t) == t.todo \in Finished /\ t.verb \in {"create", "update", "delete"}

\* What a row says when it is written of an object.
LEMMA WhatIsStored ==
  ASSUME NEW t, OwnRows(t), Stores(t)
  PROVE  /\ t.put[t.key].parent = t.content[1] /\ t.put[t.key].targets = t.content[2]
         /\ t.put[t.key].watches = t.content[3]
<1>1. Content(t.put[t.key]) = Content(Row(t.content, t.now)) BY DEF OwnRows, Stores
<1>2. Content(Row(t.content, t.now)) = <<t.content[1], t.content[2], t.content[3]>>
  BY DEF Content, Row
<1>3. Content(t.put[t.key])
        = <<t.put[t.key].parent, t.put[t.key].targets, t.put[t.key].watches>>
  BY DEF Content
<1> HIDE DEF Content
<1>4. QED BY <1>1, <1>2, <1>3

\* What a transaction that ends has written: the row of its key, unless it
\* deletes, rows about it, and sequences.
LEMMA WhatIsWritten ==
  ASSUME NEW table, NEW t, Orderly(table, t), Ends(t), Fits(t)
  PROVE  /\ \A k \in DOMAIN t.put : IsObject(k) => k = t.key /\ Stores(t)
         /\ \A k \in DOMAIN t.put : IsMark(k) => k[2] = t.key /\ Past(t)
         /\ \A k \in t.gone : IsObject(k) \/ IsMark(k)
         /\ \A k \in t.gone : IsObject(k) => t.verb = "delete"
         /\ \A k \in DOMAIN t.put : KindOf(k) = "sequence" =>
              t.verb = "create" /\ Past(t) /\ k = Sequence(KindOf(t.key))
         /\ Past(t) \/ t.verb = "delete"
         /\ Writes(t) => IsObject(t.key)
<1>1. Past(t) \/ t.verb = "delete" BY DEF Ends, Past, Writes
<1>2. Writes(t) => IsObject(t.key) BY WhatReferencesSay DEF Fits, Writes, IsObject
<1>3. CASE Past(t)
  <2>1. /\ \A k \in DOMAIN t.put : \/ k = t.key
                                   \/ IsMark(k) /\ k[2] = t.key
                                   \/ t.verb = "create" /\ k = Sequence(KindOf(t.key))
        /\ \A k \in t.gone : IsMark(k) /\ k[2] = t.key
    BY <1>3 DEF Orderly, OwnRows
  <2>2. KindOf(Sequence(KindOf(t.key))) = "sequence" BY RowShapes
  <2>3. Writes(t) BY <1>3 DEF Past
  <2>4. QED BY <1>2, <1>3, <2>1, <2>2, <2>3, KindsApart DEF Stores
<1>4. CASE t.verb = "delete"
  BY <1>1, <1>2, <1>4 DEF Orderly, Deletes
<1>5. QED BY <1>1, <1>3, <1>4

\* Sequences only grow.
LEMMA SequencesGrow ==
  ASSUME NEW table, Counted(table), NEW t, Orderly(table, t), Ends(t), Fits(t),
         NEW after, Becomes(table, t, after), NEW kind \in Kinds
  PROVE  /\ Sequence(kind) \in DOMAIN after /\ after[Sequence(kind)] \in Nat
         /\ table[Sequence(kind)] \in Nat /\ table[Sequence(kind)] <= after[Sequence(kind)]
         /\ Past(t) /\ t.verb = "create" /\ kind = KindOf(t.key) =>
              after[Sequence(kind)] = table[Sequence(kind)] + 1
<1> DEFINE s == Sequence(kind)
<1>1. s \in DOMAIN table /\ table[s] \in Nat BY DEF Counted
<1>2. KindOf(s) = "sequence" BY RowShapes
<1>3. s \notin t.gone BY <1>2, WhatIsWritten, KindsApart
<1>4. s \in DOMAIN after BY <1>1, <1>3 DEF Becomes
<1>5. CASE s \in DOMAIN t.put
  <2>1. t.verb = "create" /\ Past(t) /\ s = Sequence(KindOf(t.key)) BY <1>2, <1>5, WhatIsWritten
  <2>2. t.put[s] = table[s] + 1 BY <2>1 DEF Orderly, Fresh
  <2>3. QED BY <1>1, <1>4, <1>5, <2>2 DEF Becomes
<1>6. CASE s \notin DOMAIN t.put
  <2>1. after[s] = table[s] BY <1>4, <1>6 DEF Becomes
  <2>2. ~ (Past(t) /\ t.verb = "create" /\ kind = KindOf(t.key))
    BY <1>6 DEF Orderly, Fresh
  <2>3. QED BY <1>1, <1>4, <2>1, <2>2
<1>7. QED BY <1>5, <1>6

\* A key that was given out stays given out.
LEMMA NumbersStay ==
  ASSUME NEW table, Counted(table), NEW t, Orderly(table, t), Ends(t), Fits(t),
         NEW after, Becomes(table, t, after)
  PROVE  /\ \A k : Numbered(table, k) => Numbered(after, k)
         /\ Past(t) => Numbered(after, t.key)
<1>1. ASSUME NEW k, Numbered(table, k) PROVE Numbered(after, k)
  <2>1. KindOf(k) \in Kinds BY <1>1 DEF Numbered, IsObject
  <2>2. table[Sequence(KindOf(k))] <= after[Sequence(KindOf(k))]
        /\ table[Sequence(KindOf(k))] \in Nat /\ after[Sequence(KindOf(k))] \in Nat
    BY <2>1, SequencesGrow
  <2>3. QED BY <1>1, <2>2 DEF Numbered
<1>2. ASSUME Past(t), t.verb = "create" PROVE Numbered(after, t.key)
  <2>1. IsObject(t.key) BY <1>2, WhatIsWritten DEF Past
  <2> DEFINE s == Sequence(KindOf(t.key))
  <2>2. after[s] = table[s] + 1 /\ table[s] \in Nat
    BY <1>2, <2>1, SequencesGrow DEF IsObject
  <2>3. t.key = Key(KindOf(t.key), table[s] + 1) BY <1>2 DEF Orderly, Fresh
  <2>4. t.key[2] = table[s] + 1 BY <2>3, RowShapes
  <2> HIDE DEF s
  <2>5. t.key = Key(KindOf(t.key), t.key[2]) /\ t.key[2] \in Nat /\ t.key[2] <= after[s]
    BY <2>2, <2>3, <2>4
  <2>6. QED BY <2>1, <2>5 DEF Numbered, s
<1>3. ASSUME Past(t), t.verb = "update" PROVE Numbered(after, t.key)
  BY <1>1, <1>3 DEF Orderly, Existing
<1>4. QED BY <1>1, <1>2, <1>3 DEF Past, Writes

\* What a transaction commits is counted,
LEMMA CommitsCount ==
  ASSUME NEW table, Counted(table), NEW t, Orderly(table, t), Ends(t), Fits(t),
         NEW after, Becomes(table, t, after)
  PROVE  Counted(after)
<1>1. ASSUME NEW k \in DOMAIN after, k \in DOMAIN t.put
      PROVE  (IsObject(k) => Numbered(after, k)) /\ (IsMark(k) => Numbered(after, k[2]))
  BY <1>1, WhatIsWritten, NumbersStay DEF Stores
<1>2. ASSUME NEW k \in DOMAIN after, k \notin DOMAIN t.put
      PROVE  (IsObject(k) => Numbered(after, k)) /\ (IsMark(k) => Numbered(after, k[2]))
  <2>1. k \in DOMAIN table BY <1>2 DEF Becomes
  <2>2. QED BY <2>1, NumbersStay DEF Counted
<1>3. QED BY <1>1, <1>2, SequencesGrow DEF Counted

\* The key of a transaction that ends and was there is written, or goes.
LEMMA KeysAreWritten ==
  ASSUME NEW table, Counted(table), NEW t, Orderly(table, t), Ends(t), Past(t),
         t.key \in DOMAIN table, IsObject(t.key)
  PROVE  t.key \in DOMAIN t.put
BY DEF Orderly, Existing, Fresh, Past, Writes

\* its rows repeat its documents,
LEMMA CommitsAgree ==
  ASSUME NEW table, Counted(table), Agreeing(table), NEW t, Orderly(table, t), Ends(t), Fits(t),
         NEW after, Becomes(table, t, after)
  PROVE  Agreeing(after)
<1> SUFFICES ASSUME NEW k \in DOMAIN after, IsObject(k)
             PROVE  /\ Carries(KindOf(k)) =>
                         /\ after[k].targets \subseteq Targets
                         /\ \A x \in Targets :
                              TargetRow(k, x) \in DOMAIN after <=> x \in after[k].targets
                    /\ Watches(KindOf(k)) =>
                         \A o \in Watched :
                           WatchRow(k, o) \in DOMAIN after <=> o \in after[k].watches
  BY ObjectsAre DEF Agreeing
<1>1. CASE k \in DOMAIN t.put
  <2>1. k = t.key /\ Stores(t) BY <1>1, WhatIsWritten
  <2>2. after[k].targets = t.content[2] /\ after[k].watches = t.content[3]
    BY <1>1, <2>1, WhatIsStored DEF Becomes, Orderly
  <2>3. t.content[2] \subseteq Targets BY <2>1 DEF Stores, Past, Orderly, Prepared
  <2>4. ASSUME Carries(KindOf(k)), NEW x \in Targets
        PROVE  TargetRow(k, x) \in DOMAIN after <=> x \in t.content[2]
    <3>1. TargetsDone(table, t) BY <2>1, <2>4 DEF Orderly, Repeats, Ends
    <3>2. TargetRow(k, x) \in DOMAIN t.put <=> x \in t.content[2] BY <2>1, <3>1 DEF TargetsDone
    <3>3. TargetRow(k, x) \in DOMAIN table => TargetRow(k, x) \in DOMAIN t.put \cup t.gone
      BY <2>1, <3>1, RowShapes DEF TargetsDone, Claims
    <3>4. QED BY <3>2, <3>3 DEF Becomes
  <2>5. ASSUME Watches(KindOf(k)), NEW o \in Watched
        PROVE  WatchRow(k, o) \in DOMAIN after <=> o \in t.content[3]
    <3>0. t.todo # <<"watches", "targets">> BY PartsApart DEF Ends, Marking
    <3>1. WatchesDone(table, t) BY <2>1, <2>5, <3>0 DEF Orderly, Repeats
    <3>2. WatchRow(k, o) \in DOMAIN t.put <=> o \in t.content[3] BY <2>1, <3>1 DEF WatchesDone
    <3>3. WatchRow(k, o) \in DOMAIN table => WatchRow(k, o) \in DOMAIN t.put \cup t.gone
      BY <2>1, <3>1, RowShapes DEF WatchesDone, Claims
    <3>4. QED BY <3>2, <3>3 DEF Becomes
  <2>6. QED BY <2>2, <2>3, <2>4, <2>5
<1>2. CASE k \notin DOMAIN t.put
  <2>1. k \in DOMAIN table /\ k \notin t.gone /\ after[k] = table[k] BY <1>2 DEF Becomes
  <2>2. Past(t) => k # t.key BY <1>2, <2>1, KeysAreWritten
  <2>3. ASSUME NEW m, KindOf(m) = "target" \/ KindOf(m) = "watch", m[2] = k,
               KindOf(m) = "target" => Carries(KindOf(k))
        PROVE  m \in DOMAIN after <=> m \in DOMAIN table
    <3>0. IsMark(m) BY <2>3 DEF IsMark
    <3>1. m \notin DOMAIN t.put BY <2>2, <2>3, <3>0, WhatIsWritten
    <3>2. m \notin t.gone
      <4>1. CASE Past(t) BY <2>2, <2>3, <4>1 DEF Orderly, OwnRows
      <4>2. CASE t.verb = "delete"
        BY <2>1, <2>3, <4>2 DEF Orderly, Deletes, Ends
      <4>3. QED BY <4>1, <4>2, WhatIsWritten
    <3>3. QED BY <3>1, <3>2 DEF Becomes
  <2>4. \A x : Carries(KindOf(k)) =>
               (TargetRow(k, x) \in DOMAIN after <=> TargetRow(k, x) \in DOMAIN table)
    BY <2>3, RowShapes
  <2>5. \A o : WatchRow(k, o) \in DOMAIN after <=> WatchRow(k, o) \in DOMAIN table
    BY <2>3, RowShapes
  <2>6. k \in Objects(table) BY <2>1, ObjectsAre
  <2>7. QED BY <2>1, <2>4, <2>5, <2>6 DEF Agreeing
<1>3. QED BY <1>1, <1>2

\* and whatever it refers to is there.
LEMMA CommitsRefer ==
  ASSUME NEW table, Counted(table), HasParents(table), Placed(table),
         NEW t, Orderly(table, t), Ends(t), Fits(t),
         NEW after, Becomes(table, t, after)
  PROVE  HasParents(after)
<1> SUFFICES ASSUME NEW k \in DOMAIN after, IsObject(k), KindOf(after[k].parent) # "none"
             PROVE  after[k].parent \in DOMAIN after
  BY ObjectsAre DEF HasParents
<1> DEFINE parent == after[k].parent
<1>1. parent \in DOMAIN table /\ parent \notin t.gone
  <2>1. CASE k \in DOMAIN t.put
    <3>1. k = t.key /\ Stores(t) BY <2>1, WhatIsWritten
    <3>2. parent = t.content[1] BY <2>1, <3>1, WhatIsStored DEF Becomes, Orderly
    <3>3. parent \in DOMAIN table BY <3>1, <3>2 DEF Orderly, Rooted
    <3>4. IsObject(parent)
      <4>1. <<KindOf(t.key), KindOf(parent)>> \in References
        BY <3>1, <3>2 DEF Fits, Stores, Past, Writes
      <4>2. QED BY <4>1, WhatReferencesSay DEF IsObject
    <3>5. parent \notin t.gone BY <3>1, <3>4, KindsApart DEF Orderly, OwnRows, Stores
    <3>6. QED BY <3>3, <3>5
  <2>2. CASE k \notin DOMAIN t.put
    <3>1. k \in Objects(table) /\ k \notin t.gone /\ parent = table[k].parent
      BY <2>2, ObjectsAre DEF Becomes
    <3>2. parent \in DOMAIN table BY <3>1 DEF HasParents
    <3>3. IsObject(parent)
      <4>1. <<KindOf(k), KindOf(parent)>> \in References BY <3>1 DEF Placed
      <4>2. QED BY <4>1, WhatReferencesSay DEF IsObject
    <3>4. parent \notin t.gone
      <4>1. CASE Past(t) BY <3>3, <4>1, KindsApart DEF Orderly, OwnRows
      <4>2. CASE t.verb = "delete" BY <3>1, <4>2 DEF Orderly, Deletes
      <4>3. QED BY <4>1, <4>2, WhatIsWritten
    <3>5. QED BY <3>2, <3>4
  <2>3. QED BY <2>1, <2>2
<1>2. QED BY <1>1 DEF Becomes

-----------------------------------------------------------------------------
(* What a commit leaves of the others' transactions.                       *)

\* No two have written the row of one key.
LEMMA KeysAreApart ==
  ASSUME NEW table, Counted(table), NEW t, Orderly(table, t), Ends(t), Fits(t), Past(t),
         NEW u, Orderly(table, u), Fits(u), Stores(u), Apart(t, u)
  PROVE  t.key # u.key
<1> SUFFICES ASSUME t.key = u.key PROVE FALSE OBVIOUS
<1>1. u.key \notin DOMAIN t.put BY DEF Apart, Claims, Stores
<1>2. t.verb = "update" BY <1>1 DEF Orderly, Fresh, Past, Writes
<1>3. u.key \notin DOMAIN table /\ Numbered(table, u.key)
  BY <1>1, <1>2 DEF Orderly, Existing
<1>4. u.verb = "create" BY <1>3 DEF Orderly, Existing, Stores, Past, Writes
<1> DEFINE s == Sequence(KindOf(u.key))
<1>5. u.key = Key(KindOf(u.key), table[s] + 1) BY <1>4 DEF Orderly, Fresh, Stores
<1>6. u.key[2] = table[s] + 1 BY <1>5, RowShapes
<1>7. table[s] \in Nat BY <1>3 DEF Counted, Numbered, IsObject
<1>8. QED BY <1>3, <1>6, <1>7 DEF Numbered

\* What nobody has claimed stays as it is.
LEMMA ClaimsStay ==
  ASSUME NEW table, NEW t, NEW u, Apart(t, u), NEW after, Becomes(table, t, after),
         NEW k, k \in Claims(u)
  PROVE  /\ k \in DOMAIN table <=> k \in DOMAIN after
         /\ k \in DOMAIN table => after[k] = table[k]
BY DEF Apart, Claims, Becomes

\* A row that was not there is the one of the key, or one about it, or a
\* sequence's.
LEMMA WhatIsNew ==
  ASSUME NEW table, Counted(table), NEW t, Orderly(table, t), Ends(t), Fits(t),
         NEW after, Becomes(table, t, after), NEW k \in DOMAIN after, k \notin DOMAIN table
  PROVE  /\ k \in DOMAIN t.put
         /\ IsObject(k) => k = t.key /\ t.verb = "create" /\ Past(t) /\ ~ Numbered(table, k)
<1>1. k \in DOMAIN t.put BY DEF Becomes
<1>2. ASSUME IsObject(k)
      PROVE  k = t.key /\ t.verb = "create" /\ Past(t) /\ ~ Numbered(table, k)
  <2>1. k = t.key /\ Stores(t) BY <1>1, <1>2, WhatIsWritten
  <2>2. t.verb = "create" BY <2>1 DEF Orderly, Existing, Stores, Past, Writes
  <2> DEFINE s == Sequence(KindOf(k))
  <2>3. k = Key(KindOf(k), table[s] + 1) BY <2>1, <2>2 DEF Orderly, Fresh, Stores
  <2>4. k[2] = table[s] + 1 BY <2>3, RowShapes
  <2>5. table[s] \in Nat BY <1>2 DEF Counted, IsObject
  <2>6. ~ Numbered(table, k) BY <2>4, <2>5 DEF Numbered
  <2>7. QED BY <2>1, <2>2, <2>6 DEF Stores
<1>3. QED BY <1>1, <1>2

\* An update still writes the row exactly if it is there.
LEMMA ExistingStays ==
  ASSUME NEW table, Counted(table), NEW t, Orderly(table, t), Ends(t), Fits(t),
         NEW u, Orderly(table, u), Fits(u), Apart(t, u),
         NEW after, Becomes(table, t, after)
  PROVE  Existing(after, u)
<1> SUFFICES ASSUME u.verb = "update"
             PROVE  /\ Numbered(after, u.key)
                    /\ Past(u) => (u.key \in DOMAIN u.put <=> u.key \in DOMAIN after)
  BY DEF Existing
<1>1. Numbered(table, u.key) BY DEF Orderly, Existing
<1>2. IsObject(u.key) BY <1>1 DEF Numbered
<1>3. ASSUME Past(u), u.key \in DOMAIN u.put PROVE u.key \in DOMAIN after
  <2>1. u.key \in DOMAIN table BY <1>3 DEF Orderly, Existing
  <2>2. QED BY <1>3, <2>1, ClaimsStay DEF Claims
<1>4. ASSUME Past(u), u.key \in DOMAIN after PROVE u.key \in DOMAIN u.put
  <2>1. u.key \in DOMAIN table BY <1>1, <1>2, <1>4, WhatIsNew
  <2>2. QED BY <1>4, <2>1 DEF Orderly, Existing
<1>5. QED BY <1>1, <1>3, <1>4, NumbersStay

\* The key of a creation is still the next.
LEMMA FreshStays ==
  ASSUME NEW table, Counted(table), NEW t, Orderly(table, t), Ends(t), Fits(t),
         NEW u, Orderly(table, u), Fits(u), Apart(t, u),
         NEW after, Becomes(table, t, after)
  PROVE  Fresh(after, u)
<1> SUFFICES ASSUME Past(u), u.verb = "create"
             PROVE  LET s == Sequence(KindOf(u.key)) IN
                    /\ u.key \in DOMAIN u.put /\ s \in DOMAIN u.put
                    /\ u.put[s] = after[s] + 1 /\ u.key = Key(KindOf(u.key), after[s] + 1)
  BY DEF Fresh
<1> DEFINE s == Sequence(KindOf(u.key))
<1>1. /\ u.key \in DOMAIN u.put /\ s \in DOMAIN u.put
      /\ u.put[s] = table[s] + 1 /\ u.key = Key(KindOf(u.key), table[s] + 1)
  BY DEF Orderly, Fresh
<1>2. KindOf(u.key) \in Kinds BY WhatReferencesSay DEF Fits
<1>3. s \in DOMAIN table BY <1>2 DEF Counted
<1> HIDE DEF s
<1>4. after[s] = table[s] BY <1>1, <1>3, ClaimsStay DEF Claims
<1>5. QED BY <1>1, <1>4 DEF s

\* What says something of a key is still written by who writes its row.
LEMMA RepeatsStay ==
  ASSUME NEW table, Counted(table), NEW t, Orderly(table, t), Ends(t), Fits(t),
         NEW u, Orderly(table, u), Fits(u), Apart(t, u),
         NEW after, Becomes(table, t, after)
  PROVE  Repeats(after, u)
<1> SUFFICES ASSUME Stores(u)
             PROVE  /\ Carries(KindOf(u.key)) /\ u.todo \in Finished => TargetsDone(after, u)
                    /\ Watches(KindOf(u.key)) /\ u.todo # <<"watches", "targets">> =>
                         WatchesDone(after, u)
  BY DEF Repeats
<1>1. ASSUME NEW k \in DOMAIN after, IsMark(k), k[2] = u.key PROVE k \in DOMAIN table
  <2>1. CASE k \notin DOMAIN t.put BY <1>1, <2>1 DEF Becomes
  <2>2. CASE k \in DOMAIN t.put
    <3>1. t.key = u.key /\ Past(t) BY <1>1, <2>2, WhatIsWritten
    <3>2. QED BY <3>1, KeysAreApart
  <2>3. QED BY <2>1, <2>2
<1>2. ASSUME TargetsDone(table, u) PROVE TargetsDone(after, u)
  BY <1>1, <1>2 DEF TargetsDone, IsMark
<1>3. ASSUME WatchesDone(table, u) PROVE WatchesDone(after, u)
  BY <1>1, <1>3 DEF WatchesDone, IsMark
<1>4. QED BY <1>2, <1>3 DEF Orderly, Repeats

\* Nobody has deleted the parent that is referred to.
LEMMA RootsStay ==
  ASSUME NEW table, Counted(table), Placed(table), NEW t, Orderly(table, t), Ends(t), Fits(t),
         NEW u, Orderly(table, u), Fits(u), Apart(t, u),
         NEW after, Becomes(table, t, after)
  PROVE  Rooted(after, u)
<1> SUFFICES ASSUME Stores(u), KindOf(u.content[1]) # "none"
             PROVE  /\ u.content[1] \in DOMAIN after
                    /\ \/ u.content[1] \in u.refs
                       \/ u.key \in DOMAIN after /\ after[u.key].parent = u.content[1]
  BY DEF Rooted
<1> DEFINE parent == u.content[1]
<1>1. /\ parent \in DOMAIN table
      /\ parent \in u.refs \/ (u.key \in DOMAIN table /\ table[u.key].parent = parent)
  BY DEF Orderly, Rooted
<1>2. u.key \in Claims(u) /\ IsObject(u.key)
  BY WhatReferencesSay DEF Stores, Past, Writes, Claims, Fits, IsObject
<1>3. u.key \in DOMAIN table => u.key \in DOMAIN after /\ after[u.key] = table[u.key]
  BY <1>2, ClaimsStay
<1>4. parent \notin t.gone
  <2>1. CASE parent \in u.refs BY <2>1 DEF Apart
  <2>2. CASE u.key \in DOMAIN table /\ table[u.key].parent = parent
    <3>1. u.key \in Objects(table) BY <1>2, <2>2, ObjectsAre
    <3>2. IsObject(parent)
      <4>1. <<KindOf(u.key), KindOf(parent)>> \in References BY <2>2, <3>1 DEF Placed
      <4>2. QED BY <4>1, WhatReferencesSay DEF IsObject
    <3>3. ASSUME parent \in t.gone PROVE FALSE
      <4>1. t.verb = "delete" BY <3>2, <3>3, WhatIsWritten
      <4>2. u.key \in t.gone BY <2>2, <3>1, <3>3, <4>1 DEF Orderly, Deletes
      <4>3. QED BY <1>2, <4>2 DEF Apart, Claims
    <3>4. QED BY <3>3
  <2>3. QED BY <1>1, <2>1, <2>2
<1>5. parent \in DOMAIN after BY <1>1, <1>4 DEF Becomes
<1>6. QED BY <1>1, <1>3, <1>5

\* A deletion still takes what it is to take.
LEMMA DeletesStay ==
  ASSUME NEW table, Counted(table), Placed(table), NEW t, Orderly(table, t), Ends(t), Fits(t),
         NEW u, Orderly(table, u), Fits(u), Apart(t, u), Apart(u, t),
         NEW after, Becomes(table, t, after)
  PROVE  Deletes(after, u)
<1> SUFFICES ASSUME u.verb = "delete"
             PROVE  Deletes(after, u)
  BY DEF Deletes
<1>1. /\ DOMAIN u.put = {} /\ u.refs = {} /\ u.gone \subseteq DOMAIN table
      /\ \A k \in u.gone :
           /\ IsObject(k) \/ IsMark(k)
           /\ KindOf(k) = "watch" => k[2] \in u.gone
           /\ KindOf(k) = "target" /\ k[2] \in DOMAIN table /\ Carries(KindOf(k[2])) =>
                \/ u.todo \in Finished /\ k[2] \in u.gone
                \/ u.todo \notin Finished /\ (k[2] = u.key \/ table[k[2]].parent = u.key)
      /\ \A k \in Objects(table) : table[k].parent \in u.gone => k \in u.gone
  BY DEF Orderly, Deletes
<1>2. u.gone \subseteq DOMAIN after BY <1>1, ClaimsStay DEF Claims
<1>3. ASSUME NEW k \in u.gone, KindOf(k) = "target", k[2] \in DOMAIN after,
             Carries(KindOf(k[2])), u.todo \notin Finished, k[2] # u.key
      PROVE  after[k[2]].parent = u.key
  <2>1. Numbered(table, k[2]) /\ IsObject(k[2]) BY <1>1, <1>3 DEF Counted, IsMark, Numbered
  <2>2. k[2] \in DOMAIN table BY <1>3, <2>1, WhatIsNew
  <2>3. table[k[2]].parent = u.key BY <1>1, <1>3, <2>2
  <2>4. k[2] \notin DOMAIN t.put
    <3>1. ASSUME k[2] \in DOMAIN t.put PROVE FALSE
      <4>1. k[2] = t.key /\ Stores(t) BY <2>1, <3>1, WhatIsWritten
      <4>2. TargetsDone(table, t) BY <1>3, <4>1 DEF Orderly, Repeats, Ends
      <4>3. k \in Claims(t) BY <1>1, <1>3, <4>1, <4>2 DEF TargetsDone
      <4>4. QED BY <1>3, <4>3 DEF Apart, Claims
    <3>2. QED BY <3>1
  <2>5. QED BY <1>3, <2>3, <2>4 DEF Becomes
<1>4. ASSUME NEW k \in u.gone, KindOf(k) = "target", k[2] \in DOMAIN after,
             Carries(KindOf(k[2])), u.todo \in Finished
      PROVE  k[2] \in u.gone
  <2>1. Numbered(table, k[2]) /\ IsObject(k[2]) BY <1>1, <1>4 DEF Counted, IsMark, Numbered
  <2>2. k[2] \in DOMAIN table BY <1>4, <2>1, WhatIsNew
  <2>3. QED BY <1>1, <1>4, <2>2
<1>5. ASSUME NEW k \in Objects(after), after[k].parent \in u.gone PROVE k \in u.gone
  <2>1. k \in DOMAIN after /\ IsObject(k) BY <1>5, ObjectsAre
  <2>2. CASE k \notin DOMAIN t.put
    <3>1. k \in Objects(table) /\ after[k] = table[k] BY <2>1, <2>2, ObjectsAre DEF Becomes
    <3>2. QED BY <1>1, <1>5, <3>1
  <2>3. CASE k \in DOMAIN t.put
    <3>1. k = t.key /\ Stores(t) BY <2>1, <2>3, WhatIsWritten
    <3>2. after[k].parent = t.content[1] BY <2>1, <2>3, <3>1, WhatIsStored DEF Becomes, Orderly
    <3>3. t.content[1] \in u.gone BY <1>5, <3>2
    <3>4. KindOf(t.content[1]) # "none" BY <1>1, <3>3, KindsApart
    <3>5. t.content[1] \notin t.refs BY <3>3 DEF Apart
    <3>6. k \in DOMAIN table /\ table[k].parent = t.content[1]
      BY <3>1, <3>4, <3>5 DEF Orderly, Rooted
    <3>7. k \in u.gone BY <1>1, <2>1, <3>3, <3>6, ObjectsAre
    <3>8. QED BY <3>7
  <2>4. QED BY <2>2, <2>3
<1>6. QED BY <1>1, <1>2, <1>3, <1>4, <1>5 DEF Deletes

\* All in all.
LEMMA OthersStayOrderly ==
  ASSUME NEW table, Counted(table), Placed(table), NEW t, Orderly(table, t), Ends(t), Fits(t),
         NEW u, Orderly(table, u), Fits(u), Apart(t, u), Apart(u, t),
         NEW after, Becomes(table, t, after)
  PROVE  Orderly(after, u)
BY ExistingStays, FreshStays, RepeatsStay, RootsStay, DeletesStay DEF Orderly

-----------------------------------------------------------------------------
(* What the statements leave of their transaction.                         *)

\* The scripts that are left when the row is written.
LEMMA MarkingScripts ==
  ASSUME NEW s
  PROVE  /\ s \in Marking => s \notin Inserting \cup Updating \cup Listing \cup Finished
         /\ s \in Finished => s \notin Inserting \cup Updating \cup Listing \cup Marking
         /\ s \in Inserting \cup Updating => s \notin Marking \cup Finished
         /\ s \in Marking /\ Head(s) = "watches" =>
              s = <<"watches", "targets">> /\ Tail(s) = <<"targets">>
         /\ s \in Marking /\ Head(s) = "targets" => s = <<"targets">> /\ Tail(s) = <<>>
         /\ s = <<"targets">> => s # <<"watches", "targets">> /\ s \in Marking
         /\ s = <<>> => s # <<"watches", "targets">> /\ s \in Finished
<1>1. Head(<<"targets">>) = "targets" /\ Tail(<<"targets">>) = <<>>
      /\ Head(<<"watches", "targets">>) = "watches" /\ <<"watches", "targets">> # <<>>
      /\ Tail(<<"watches", "targets">>) = <<"targets">>
  BY ShortSequences
<1>2. \A x \in Marking : x = <<"targets">> \/ x = <<"watches", "targets">> BY DEF Marking
<1>3. <<"targets">> \in Marking /\ <<>> \in Finished BY DEF Marking, Finished
<1>4. s \in Marking => s \notin Inserting \cup Updating \cup Listing \cup Finished
  BY HeadsAndTails, PartsApart
<1>5. s \in Inserting \cup Updating => s \notin Marking \cup Finished
  BY HeadsAndTails, PartsApart
<1>6. QED BY <1>1, <1>2, <1>3, <1>4, <1>5, PartsApart

\* An insertion writes what is new, for a parent that is there.
LEMMA InsertionsAreOrderly ==
  ASSUME NEW table, Counted(table), NEW t, Orderly(table, t), Fits(t),
         t.verb = "create", t.todo \in Inserting, NEW kind, kind = KindOf(t.key),
         NEW n, n = table[Sequence(kind)] + 1,
         t.content[1] = NoParent \/ t.content[1] \in DOMAIN table,
         NEW u, u.verb = t.verb, u.content = t.content, u.now = t.now, u.key = Key(kind, n),
         u.todo = Tail(t.todo), u.todo \in Marking \cup Finished,
         DOMAIN u.put = {Sequence(kind), Key(kind, n)}, u.put[Sequence(kind)] = n,
         u.put[Key(kind, n)] = Row(t.content, t.now),
         u.gone = {}, u.refs = {t.content[1]}
  PROVE  Orderly(table, u)
<1>1. Past(u) /\ u.verb = "create" /\ Writes(u) /\ Writes(t) BY DEF Past, Writes
<1>2. kind \in Kinds BY WhatReferencesSay DEF Fits
<1>3. KindOf(u.key) = kind /\ KindOf(Sequence(kind)) = "sequence" BY RowShapes
<1>4. u.key # Sequence(kind) /\ IsObject(u.key) /\ ~ IsMark(u.key) /\ ~ IsMark(Sequence(kind))
  BY <1>2, <1>3, KindsApart DEF IsObject
<1>5. Unstarted(u) BY MarkingScripts DEF Unstarted
<1>6. Suits(u.todo, kind) /\ u.content[2] \subseteq Targets BY <1>1 DEF Orderly, Prepared
<1>7. Prepared(u) BY <1>6, MarkingScripts DEF Prepared
<1>8. OwnRows(u) BY <1>3, <1>4 DEF OwnRows
<1>9. Fresh(table, u) BY <1>3, <1>4 DEF Fresh
<1>10. Existing(table, u) BY DEF Existing
<1>11. NoMarksYet(u) BY <1>4 DEF NoMarksYet, Claims, IsMark
<1>12. Repeats(table, u) BY <1>3, <1>6, MarkingScripts DEF Repeats, Suits
<1>13. Rooted(table, u)
  <2>1. KindOf(NoParent) = "none" BY DEF KindOf, NoParent
  <2>2. QED BY <2>1 DEF Rooted
<1>14. Deletes(table, u) BY DEF Deletes
<1>15. QED BY <1>5, <1>7, <1>8, <1>9, <1>10, <1>11, <1>12, <1>13, <1>14 DEF Orderly

\* A replacement writes the row if it is there, for the parent it has or one
\* that is there.
LEMMA ReplacementsAreOrderly ==
  ASSUME NEW table, Counted(table), HasParents(table), NEW t, Orderly(table, t), Fits(t),
         t.verb = "update", t.todo \in Updating,
         NEW moves \in BOOLEAN,
         moves <=> t.key \in DOMAIN table /\ table[t.key].parent # t.content[1],
         moves /\ t.content[1] # NoParent => t.content[1] \in DOMAIN table,
         NEW u, u.verb = t.verb, u.content = t.content, u.now = t.now, u.key = t.key,
         u.todo = Tail(t.todo), u.todo \in Marking \cup Finished,
         DOMAIN u.put = {t.key} \cap DOMAIN table,
         NEW at, t.key \in DOMAIN u.put => u.put[t.key] = Row(t.content, at),
         u.gone = {}, u.refs = IF moves THEN {t.content[1]} ELSE {}
  PROVE  Orderly(table, u)
<1>1. Past(u) /\ u.verb = "update" /\ Writes(u) /\ Writes(t) BY DEF Past, Writes
<1>2. Numbered(table, u.key) /\ IsObject(u.key) BY DEF Orderly, Existing, Numbered
<1>3. ~ IsMark(u.key) BY <1>2, KindsApart
<1>4. Content(Row(t.content, at)) = Content(Row(t.content, t.now)) BY DEF Content, Row
<1>5. Unstarted(u) BY MarkingScripts DEF Unstarted
<1>6. Suits(u.todo, KindOf(u.key)) /\ u.content[2] \subseteq Targets
  BY <1>1 DEF Orderly, Prepared
<1>7. Prepared(u) BY <1>6, MarkingScripts DEF Prepared
<1>8. OwnRows(u) BY <1>4 DEF OwnRows
<1>9. Fresh(table, u) BY <1>1 DEF Fresh
<1>10. Existing(table, u) BY <1>2 DEF Existing
<1>11. NoMarksYet(u) BY <1>3 DEF NoMarksYet, Claims, IsMark
<1>12. Repeats(table, u) BY <1>6, MarkingScripts DEF Repeats, Suits
<1>13. Rooted(table, u)
  <2>1. KindOf(NoParent) = "none" BY DEF KindOf, NoParent
  <2>2. SUFFICES ASSUME Stores(u), KindOf(t.content[1]) # "none"
                 PROVE  /\ t.content[1] \in DOMAIN table
                        /\ \/ t.content[1] \in u.refs
                           \/ t.key \in DOMAIN table /\ table[t.key].parent = t.content[1]
    BY DEF Rooted
  <2>3. t.key \in DOMAIN table BY <2>2 DEF Stores
  <2>4. CASE moves BY <2>1, <2>2, <2>4
  <2>5. CASE ~ moves
    <3>1. table[t.key].parent = t.content[1] BY <2>3, <2>5
    <3>2. t.key \in Objects(table) BY <1>2, <2>3, ObjectsAre
    <3>3. t.content[1] \in DOMAIN table BY <2>2, <3>1, <3>2 DEF HasParents
    <3>4. QED BY <2>3, <3>1, <3>3
  <2>6. QED BY <2>4, <2>5
<1>14. Deletes(table, u) BY DEF Deletes
<1>15. QED BY <1>5, <1>7, <1>8, <1>9, <1>10, <1>11, <1>12, <1>13, <1>14 DEF Orderly

\* The rows of a name that say of the key what its document carries, and the
\* rest of those the transaction sees.
Says(table, t, name, marks, rest) ==
  /\ \A k \in marks : KindOf(k) = name /\ k[2] = t.key
  /\ \A k \in rest : KindOf(k) = name /\ k[2] = t.key
  /\ marks \cap rest = {}
  /\ \A k \in DOMAIN table : KindOf(k) = name /\ k[2] = t.key /\ k \notin t.gone =>
       k \in marks \cup rest
  /\ \/ /\ name = "watch" /\ Head(t.todo) = "watches"
        /\ \A o : WatchRow(t.key, o) \in marks <=> o \in t.content[3]
     \/ /\ name = "target" /\ Head(t.todo) = "targets"
        /\ \A x : TargetRow(t.key, x) \in marks <=> x \in t.content[2]

\* The transaction that has written the ones and deleted the others.
Resays(t, u, marks, rest) ==
  /\ u.verb = t.verb /\ u.content = t.content /\ u.now = t.now /\ u.key = t.key
  /\ u.todo = Tail(t.todo)
  /\ DOMAIN u.put = (DOMAIN t.put \ rest) \cup marks
  /\ \A k \in DOMAIN t.put \ (rest \cup marks) : u.put[k] = t.put[k]
  /\ u.gone = (t.gone \ marks) \cup rest /\ t.refs \subseteq u.refs

\* Rows are written for what the document carries, and those that said
\* something of the key and do no more are deleted.
LEMMA MarkingIsOrderly ==
  ASSUME NEW table, Counted(table), NEW t, Orderly(table, t), Fits(t),
         Past(t), t.todo \in Marking,
         NEW name, NEW marks, NEW rest, Says(table, t, name, marks, rest),
         NEW u, Resays(t, u, marks, rest)
  PROVE  Orderly(table, u)
<1> USE DEF Says, Resays
<1> DEFINE key == t.key
<1>0. Writes(t) /\ Writes(u) /\ IsObject(key)
  BY WhatReferencesSay DEF Past, Writes, Fits, IsObject
<1>1. name \in {"watch", "target"} /\ \A k \in marks \cup rest : IsMark(k) /\ k[2] = key
  BY DEF IsMark
<1>2. /\ name = "watch" => t.todo = <<"watches", "targets">> /\ u.todo = <<"targets">>
      /\ name = "target" => t.todo = <<"targets">> /\ u.todo = <<>>
      /\ t.todo \notin Inserting \cup Updating
  BY MarkingScripts
<1>3. u.todo \in Marking \cup Finished /\ Past(u)
      /\ u.todo \notin Inserting \cup Updating \cup Listing
  BY <1>0, <1>1, <1>2, MarkingScripts DEF Past, Writes
<1>4. key \in DOMAIN u.put <=> key \in DOMAIN t.put BY <1>0, <1>1, KindsApart
<1>5. Stores(u) <=> Stores(t) BY <1>3, <1>4 DEF Stores
<1>6. key \in DOMAIN t.put => u.put[key] = t.put[key] BY <1>0, <1>1, KindsApart
<1>7. \A k : ~ IsMark(k) => (k \in DOMAIN u.put <=> k \in DOMAIN t.put) BY <1>1
<1>8. Unstarted(u) BY <1>0, <1>3 DEF Unstarted, Writes
<1>9. Prepared(u) BY <1>0, <1>3 DEF Orderly, Prepared
<1>10. OwnRows(u)
  <2>1. \A k \in DOMAIN u.put : \/ k = key
                                \/ IsMark(k) /\ k[2] = key
                                \/ t.verb = "create" /\ k = Sequence(KindOf(key))
    BY <1>1 DEF Orderly, OwnRows
  <2>2. \A k \in u.gone : IsMark(k) /\ k[2] = key
    BY <1>1 DEF Orderly, OwnRows
  <2>3. QED BY <1>4, <1>6, <2>1, <2>2 DEF Orderly, OwnRows
<1>11. Fresh(table, u)
  <2>1. KindOf(Sequence(KindOf(key))) = "sequence" BY RowShapes
  <2>2. Sequence(KindOf(key)) \notin marks \cup rest BY <1>1, <2>1, KindsApart
  <2>3. QED BY <1>4, <2>2 DEF Orderly, Fresh
<1>12. Existing(table, u) BY <1>4 DEF Orderly, Existing
<1>13. NoMarksYet(u)
  <2>1. SUFFICES ASSUME u.todo \in Marking
                 PROVE  /\ \A k \in Claims(u) : KindOf(k) # "target"
                        /\ u.todo # <<"watches", "targets">>
    BY DEF NoMarksYet
  <2>2. name = "watch" BY <1>1, <1>2, <2>1, MarkingScripts
  <2>3. \A k \in Claims(t) : KindOf(k) # "target" BY <1>0 DEF Orderly, NoMarksYet
  <2>4. \A k \in Claims(u) : k \in Claims(t) \cup marks \cup rest BY DEF Claims
  <2>5. u.todo # <<"watches", "targets">> BY <1>2, <2>2, MarkingScripts
  <2>6. QED BY <2>2, <2>3, <2>4, <2>5
<1>14. Repeats(table, u)
  <2>1. SUFFICES ASSUME Stores(u)
                 PROVE  /\ Carries(KindOf(key)) /\ u.todo \in Finished => TargetsDone(table, u)
                        /\ Watches(KindOf(key)) /\ u.todo # <<"watches", "targets">> =>
                             WatchesDone(table, u)
    BY DEF Repeats
  <2>2. \A k \in DOMAIN table : KindOf(k) = name /\ k[2] = key => k \in Claims(u)
    BY DEF Claims
  <2>3. ASSUME name = "target" PROVE TargetsDone(table, u)
    <3>1. \A x : TargetRow(key, x) \notin DOMAIN t.put
      BY <1>0, RowShapes DEF Orderly, NoMarksYet, Claims
    <3>2. \A x : TargetRow(key, x) \in marks <=> x \in t.content[2] BY <2>3
    <3>3. \A x : TargetRow(key, x) \in DOMAIN u.put <=> x \in t.content[2] BY <3>1, <3>2
    <3>4. QED BY <2>2, <2>3, <3>3 DEF TargetsDone
  <2>4. ASSUME name = "watch" PROVE WatchesDone(table, u)
    <3>1. \A o : WatchRow(key, o) \notin DOMAIN t.put
      BY <1>0, <1>2, <2>4, RowShapes DEF Orderly, NoMarksYet, Claims
    <3>2. \A o : WatchRow(key, o) \in marks <=> o \in t.content[3] BY <2>4
    <3>3. \A o : WatchRow(key, o) \in DOMAIN u.put <=> o \in t.content[3] BY <3>1, <3>2
    <3>4. QED BY <2>2, <2>4, <3>3 DEF WatchesDone
  <2>5. ASSUME name = "watch" PROVE u.todo \notin Finished BY <1>2, <2>5, MarkingScripts
  <2>6. ASSUME name = "target", Watches(KindOf(key)) PROVE WatchesDone(table, u)
    <3>1. t.todo # <<"watches", "targets">> BY <1>2, <2>6, MarkingScripts
    <3>2. WatchesDone(table, t) BY <1>5, <2>1, <2>6, <3>1 DEF Orderly, Repeats
    <3>3. \A k : KindOf(k) = "watch" => k \notin marks \cup rest BY <2>6
    <3>4. \A k : KindOf(k) = "watch" => (k \in DOMAIN u.put <=> k \in DOMAIN t.put)
                                        /\ (k \in Claims(u) <=> k \in Claims(t))
      BY <3>3 DEF Claims
    <3>5. QED BY <3>2, <3>4, RowShapes DEF WatchesDone
  <2>7. QED BY <1>1, <2>3, <2>4, <2>5, <2>6
<1>15. Rooted(table, u) BY <1>5 DEF Orderly, Rooted
<1>16. Deletes(table, u) BY <1>0 DEF Deletes, Writes
<1>17. QED BY <1>8, <1>9, <1>10, <1>11, <1>12, <1>13, <1>14, <1>15, <1>16 DEF Orderly

\* A deletion writes nothing, and takes no object before the last.
LEMMA DeletionsTakeLast ==
  ASSUME NEW table, Counted(table), Placed(table), NEW t, Orderly(table, t), Fits(t),
         t.verb = "delete", t.todo \notin Finished
  PROVE  /\ DOMAIN t.put = {} /\ t.refs = {} /\ t.gone \subseteq DOMAIN table
         /\ \A k \in t.gone : ~ IsObject(k) /\ IsMark(k) /\ IsObject(k[2]) /\ KindOf(k) = "target"
         /\ \A k \in Objects(table) : ~ IsMark(table[k].parent)
<1>1. /\ DOMAIN t.put = {} /\ t.refs = {} /\ t.gone \subseteq DOMAIN table
      /\ \A k \in t.gone : IsObject(k) \/ IsMark(k)
      /\ \A k \in t.gone : KindOf(k) = "watch" => k[2] \in t.gone
  BY DEF Orderly, Deletes
<1>2. \A k \in t.gone : ~ IsObject(k) BY DEF Fits
<1>3. \A k \in t.gone : IsMark(k) /\ IsObject(k[2]) BY <1>1, <1>2 DEF Counted, Numbered
<1>4. \A k \in t.gone : KindOf(k) = "target" BY <1>1, <1>2, <1>3 DEF IsMark
<1>5. ASSUME NEW k \in Objects(table) PROVE ~ IsMark(table[k].parent)
  <2>1. <<KindOf(k), KindOf(table[k].parent)>> \in References BY <1>5 DEF Placed
  <2>2. KindOf(table[k].parent) \in Kinds \cup {"none"} BY <2>1, WhatReferencesSay
  <2>3. QED BY <2>2 DEF IsMark, Kinds
<1>6. QED BY <1>1, <1>2, <1>3, <1>4, <1>5

\* The target rows of the object, and of those below it, go first.
LEMMA ClearingIsOrderly ==
  ASSUME NEW table, Counted(table), Placed(table), NEW t, Orderly(table, t), Fits(t),
         t.verb = "delete", t.todo \in Clearing,
         NEW rest, rest \subseteq DOMAIN table,
         \A k \in rest : KindOf(k) = "target" /\ (k[2] = t.key \/ table[k[2]].parent = t.key),
         NEW u, u.verb = t.verb, u.key = t.key, u.todo \in Clearing \cup Deleting,
         DOMAIN u.put = {}, u.gone = t.gone \cup rest, u.refs = {}
  PROVE  Orderly(table, u)
<1>1. t.todo \notin Finished /\ u.todo \notin Inserting \cup Updating \cup Listing \cup Finished
  BY HeadsAndTails, PartsApart
<1>2. /\ t.gone \subseteq DOMAIN table
      /\ \A k \in t.gone : IsMark(k) /\ IsObject(k[2]) /\ KindOf(k) = "target"
      /\ \A k \in Objects(table) : ~ IsMark(table[k].parent)
  BY <1>1, DeletionsTakeLast
<1>3. \A k \in u.gone : IsMark(k) /\ KindOf(k) = "target" BY <1>2 DEF IsMark
<1>4. \A k \in t.gone : k[2] \in DOMAIN table /\ Carries(KindOf(k[2])) =>
        k[2] = t.key \/ table[k[2]].parent = t.key
  BY <1>1, <1>2 DEF Orderly, Deletes
<1>5. Deletes(table, u) BY <1>1, <1>2, <1>3, <1>4 DEF Deletes
<1>6. ~ Writes(u) /\ ~ Past(u) /\ u.verb = "delete" BY DEF Writes, Past
<1>7. Unstarted(u) BY <1>1, <1>6 DEF Unstarted
<1>8. QED
  BY <1>5, <1>6, <1>7
  DEF Orderly, Prepared, OwnRows, Fresh, Existing, NoMarksYet, Repeats, Rooted, Stores

\* The object goes with all that refers to it, and with what said something of
\* them.
LEMMA DeletionsAreOrderly ==
  ASSUME NEW table, Counted(table), Placed(table), NEW t, Orderly(table, t), Fits(t),
         t.verb = "delete", t.todo \in Deleting, IsObject(t.key),
         NEW going, going = ({t.key} \cup AllBelow(table, t.key)) \cap DOMAIN table,
         NEW rest, rest \subseteq DOMAIN table,
         \A k \in rest : KindOf(k) = "watch" /\ k[2] \in going,
         NEW u, u.verb = t.verb, u.key = t.key, u.todo \in Finished,
         DOMAIN u.put = {}, u.gone = t.gone \cup going \cup rest, u.refs = {}
  PROVE  Orderly(table, u)
<1>1. t.todo \notin Finished /\ u.todo \notin Inserting \cup Updating \cup Listing
  BY HeadsAndTails, PartsApart
<1>2. /\ t.gone \subseteq DOMAIN table
      /\ \A k \in t.gone : IsMark(k) /\ IsObject(k[2]) /\ KindOf(k) = "target"
      /\ \A k \in Objects(table) : ~ IsMark(table[k].parent)
  BY <1>1, DeletionsTakeLast
<1>3. \A x : Below(table, x) = {k \in Objects(table) : table[k].parent = x} BY DEF Below
<1>4. \A k : k \in AllBelow(table, t.key) <=>
             \/ k \in Below(table, t.key)
             \/ \E b \in Below(table, t.key) : k \in Below(table, b)
  BY DEF AllBelow
<1>5. \A k \in going : k \in Objects(table)
  BY <1>3, <1>4, ObjectsAre
<1>6. \A k \in going : IsObject(k) /\ ~ IsMark(k) /\ KindOf(k) # "target" /\ KindOf(k) # "watch"
  BY <1>5, ObjectsAre, KindsApart DEF IsMark
<1>7. \A k \in u.gone : IsObject(k) \/ IsMark(k) BY <1>2, <1>6 DEF IsMark
<1>8. \A k \in u.gone : KindOf(k) = "watch" => k[2] \in u.gone BY <1>2, <1>6
<1>9. ASSUME NEW k \in u.gone, KindOf(k) = "target", k[2] \in DOMAIN table, Carries(KindOf(k[2]))
      PROVE  k[2] \in u.gone
  <2>1. k \in t.gone BY <1>6, <1>9
  <2>2. k[2] = t.key \/ table[k[2]].parent = t.key BY <1>1, <1>9, <2>1 DEF Orderly, Deletes
  <2>3. k[2] \in Objects(table) BY <1>2, <1>9, <2>1, ObjectsAre
  <2>4. k[2] \in going BY <1>3, <1>4, <1>9, <2>2, <2>3
  <2>5. QED BY <2>4
<1>10. ASSUME NEW k \in Objects(table), table[k].parent \in u.gone PROVE k \in u.gone
  <2> DEFINE p == table[k].parent
  <2>1. ~ IsMark(p) BY <1>2
  <2>2. p \in going BY <1>2, <1>10, <2>1 DEF IsMark
  <2>3. k \in Below(table, p) /\ k \in DOMAIN table BY <1>3, ObjectsAre
  <2>4. CASE p = t.key \/ p \in Below(table, t.key)
    <3>1. k \in AllBelow(table, t.key) BY <1>4, <2>3, <2>4
    <3>2. QED BY <2>3, <3>1
  <2>5. ASSUME NEW b \in Below(table, t.key), p \in Below(table, b) PROVE FALSE
    <3>1. /\ b \in Objects(table) /\ p \in Objects(table)
          /\ table[b].parent = t.key /\ table[p].parent = b
      BY <1>3, <2>5
    <3>2. /\ <<KindOf(b), KindOf(t.key)>> \in References
          /\ <<KindOf(p), KindOf(b)>> \in References
          /\ <<KindOf(k), KindOf(p)>> \in References
      BY <1>10, <3>1 DEF Placed
    <3>3. KindOf(t.key) # "none" BY KindsApart
    <3>4. KindOf(b) # "program" /\ KindOf(b) # "ven" /\ KindOf(b) # "none"
      BY <3>2, <3>3 DEF References
    <3>5. KindOf(b) = "event" BY <3>2, <3>4 DEF References
    <3>6. KindOf(p) = "report" BY <3>2, <3>5 DEF References
    <3>7. QED BY <3>2, <3>6 DEF References
  <2>6. QED BY <1>4, <2>2, <2>4, <2>5
<1>11. Deletes(table, u) BY <1>2, <1>7, <1>8, <1>9, <1>10 DEF Deletes
<1>12. ~ Writes(u) /\ ~ Past(u) /\ u.verb = "delete" BY DEF Writes, Past
<1>13. Unstarted(u) BY <1>1, <1>12 DEF Unstarted
<1>14. QED
  BY <1>11, <1>12, <1>13
  DEF Orderly, Prepared, OwnRows, Fresh, Existing, NoMarksYet, Repeats, Rooted, Stores

\* A list that was read writes nothing.
LEMMA ListingIsOrderly ==
  ASSUME NEW table, NEW t, Orderly(table, t),
         t.verb = "delete", t.todo \in Listing,
         NEW u, u.verb = t.verb, u.key = t.key, u.todo \in Clearing,
         u.put = t.put, u.gone = t.gone, u.refs = t.refs
  PROVE  Orderly(table, u)
<1>1. /\ u.todo \notin Inserting \cup Updating \cup Listing \cup Finished
      /\ t.todo \notin Finished
  BY HeadsAndTails, PartsApart
<1>2. ~ Writes(u) /\ ~ Past(u) /\ u.verb = "delete" BY DEF Writes, Past
<1>3. Unstarted(u) BY <1>1, <1>2 DEF Unstarted
<1>4. Deletes(table, u) BY <1>1 DEF Orderly, Deletes
<1>5. QED
  BY <1>2, <1>3, <1>4
  DEF Orderly, Prepared, OwnRows, Fresh, Existing, NoMarksYet, Repeats, Rooted, Stores

\* An operation that begins has done nothing.
LEMMA BeginningsAreOrderly ==
  ASSUME NEW u, DOMAIN u.put = {}, u.gone = {}, u.refs = {}, Counted(rows),
         Sound(u.verb, u.key, u.content, u.seen, u.heard, u.todo) \/ u.verb = "none"
  PROVE  Orderly(rows, u)
<1>1. ~ Past(u) /\ ~ Stores(u)
  BY MarkingScripts DEF Past, Writes, Sound, Stores
<1>2. Unstarted(u) /\ OwnRows(u) /\ Fresh(rows, u) /\ Repeats(rows, u) /\ Rooted(rows, u)
  BY <1>1 DEF Unstarted, OwnRows, Fresh, Repeats, Rooted
<1>3. Prepared(u) BY DEF Prepared, Writes, Sound
<1>4. Existing(rows, u) BY <1>1, ObjectsAre DEF Existing, Sound, Counted
<1>5. NoMarksYet(u) BY DEF NoMarksYet, Claims
<1>6. Deletes(rows, u)
  BY DEF Deletes
<1>7. QED BY <1>2, <1>3, <1>4, <1>5, <1>6 DEF Orderly


-----------------------------------------------------------------------------
(* What each step leaves of the invariant.                                 *)

\* An orderly transaction after a step is one of the state after it.
LEMMA OrderlyAfter ==
  ASSUME NEW v \in Writers, Orderly(rows', tx'[v])
  PROVE  Orderly(rows, tx[v])'
<1>1. Unstarted(tx[v])' /\ Prepared(tx[v])' /\ OwnRows(tx[v])' /\ NoMarksYet(tx[v])'
  BY DEF Orderly, Unstarted, Prepared, OwnRows, NoMarksYet, Past, Writes, Claims
<1>2. Fresh(rows, tx[v])' /\ Existing(rows, tx[v])'
  BY DEF Orderly, Fresh, Existing, Past, Writes, Numbered
<1>3. Repeats(rows, tx[v])'
  BY DEF Orderly, Repeats, TargetsDone, WatchesDone, Stores, Past, Writes, Claims
<1>4. Rooted(rows, tx[v])' BY DEF Orderly, Rooted, Stores, Past, Writes
<1>5. Deletes(rows, tx[v])' BY DEF Orderly, Deletes, Objects
<1>6. QED BY <1>1, <1>2, <1>3, <1>4, <1>5 DEF Orderly

\* So are two that are apart.
LEMMA ApartAfter ==
  ASSUME NEW v \in Writers, NEW x \in Writers, Apart(tx'[v], tx'[x])
  PROVE  Apart(tx[v], tx[x])'
BY DEF Apart, Claims

\* The tables as they were.
LEMMA SameTables ==
  ASSUME ReadsInv, UNCHANGED rows
  PROVE  Counted(rows)' /\ Agreeing(rows)' /\ HasParents(rows)'
<1>1. Counted(rows)' BY DEF ReadsInv, Counted, Numbered
<1>2. Agreeing(rows)' BY DEF ReadsInv, Agreeing, Objects
<1>3. HasParents(rows)' BY DEF ReadsInv, HasParents, Objects
<1>4. QED BY <1>1, <1>2, <1>3

\* A statement writes what no other transaction has, and refers to what none
\* deletes.
LEMMA StatementsAreApart ==
  ASSUME AnnouncedInv, ReadsInv, NEW w \in Writers, NEW changes, NEW deletes, NEW refers,
         MayWrite(w, changes, deletes, refers), NEW v \in Writers \ {w}
  PROVE  /\ (changes \cup deletes) \cap Claims(tx[v]) = {}
         /\ deletes \cap tx[v].refs = {} /\ refers \cap tx[v].gone = {}
<1>1. CASE backend = "sqlite"
  <2>1. ~ tx[v].writing BY <1>1, OneWritesAtATime DEF Others
  <2>2. DOMAIN tx[v].put = {} /\ tx[v].gone = {} /\ tx[v].refs = {}
    BY <1>1, <2>1 DEF AnnouncedInv, Honest, ReadsInv, Modest
  <2>3. QED BY <2>2 DEF Claims
<1>2. CASE backend # "sqlite"
  <2>1. /\ (changes \cup deletes) \cap Claimed(w) = {}
        /\ deletes \cap tx[v].refs = {} /\ refers \cap tx[v].gone = {}
    BY <1>2 DEF MayWrite, Others
  <2>2. Claims(tx[v]) \subseteq Claimed(w) BY DEF Claims, Claimed, Others
  <2>3. QED BY <2>1, <2>2
<1>3. QED BY <1>1, <1>2

\* It keeps the invariant if it leaves its own transaction orderly.
LEMMA StatementsKeepReads ==
  ASSUME AnnouncedInv, ReadsInv, NEW w \in Writers, OnlyOf(w),
         NEW changes, NEW deletes, NEW refers, MayWrite(w, changes, deletes, refers),
         Orderly(rows, tx'[w]), tx'[w].writing = (backend = "sqlite"),
         Claims(tx'[w]) \subseteq Claims(tx[w]) \cup changes \cup deletes,
         tx'[w].gone \subseteq tx[w].gone \cup deletes,
         tx'[w].refs \subseteq tx[w].refs \cup refers
  PROVE  ReadsInv'
<1>1. UNCHANGED <<backend, rows>> /\ \A v \in Writers \ {w} : tx'[v] = tx[v] BY DEF OnlyOf
<1>2. ASSUME NEW v \in Writers PROVE Orderly(rows, tx[v])' /\ Modest(tx[v])'
  <2>1. Orderly(rows', tx'[v]) BY <1>1 DEF ReadsInv
  <2>2. Modest(tx[v])' BY <1>1 DEF ReadsInv, Modest
  <2>3. QED BY <2>1, <2>2, OrderlyAfter
<1>3. ASSUME NEW v \in Writers \ {w}
      PROVE  Apart(tx'[v], tx'[w]) /\ Apart(tx'[w], tx'[v])
  <2>1. /\ (changes \cup deletes) \cap Claims(tx[v]) = {}
        /\ deletes \cap tx[v].refs = {} /\ refers \cap tx[v].gone = {}
    BY StatementsAreApart
  <2>2. Apart(tx[v], tx[w]) /\ Apart(tx[w], tx[v]) BY DEF ReadsInv
  <2>3. tx'[v] = tx[v] BY <1>1
  <2>4. QED BY <2>1, <2>2, <2>3 DEF Apart
<1>4. ASSUME NEW x \in Writers, NEW v \in Writers \ {x} PROVE Apart(tx[v], tx[x])'
  <2>1. Apart(tx[v], tx[x]) BY DEF ReadsInv
  <2>2. Apart(tx'[v], tx'[x]) BY <1>1, <1>3, <2>1
  <2>3. QED BY <2>2, ApartAfter
<1>5. QED BY <1>1, <1>2, <1>4, SameTables DEF ReadsInv

\* What a transaction sees that has written nothing.
LEMMA ViewOfNothing ==
  ASSUME NEW w \in Writers, DOMAIN tx[w].put = {}, tx[w].gone = {}
  PROVE  DOMAIN View(w) = DOMAIN rows /\ \A k \in DOMAIN rows : View(w)[k] = rows[k]
BY ViewOf

\* An insertion keeps the invariant.
LEMMA InsertionsKeepReads ==
  ASSUME TypeOK, AnnouncedInv, ReadsInv, NEW w \in Writers, Insert(w)
  PROVE  ReadsInv'
<1> PICK t : t = tx[w] OBVIOUS
<1> PICK u : u = tx'[w] OBVIOUS
<1> PICK kind : kind = KindOf(t.key) OBVIOUS
<1>1. PICK n : LET put == Inserted(kind, n, Row(t.content, t.now)) IN
        /\ OnlyOf(w) /\ Wrote(w, put, {})
        /\ u.key = Key(kind, n) /\ u.refs = t.refs \cup {t.content[1]}
        /\ n = View(w)[Sequence(kind)] + 1
        /\ MayWrite(w, {Sequence(kind), Key(kind, n)}, {}, {t.content[1]})
  BY AnInsertion
<1> DEFINE row == Row(t.content, t.now)
           put == Inserted(kind, n, row)
<1>2. Step(w) = "insert" /\ (t.content[1] = NoParent \/ t.content[1] \in DOMAIN View(w))
  BY DEF Insert
<1>3. t.verb = "create" /\ t.todo \in Inserting /\ Tail(t.todo) \in Marking \cup Finished
  BY <1>2, ScriptGoesOn DEF TypeOK
<1>4. Orderly(rows, t) /\ Fits(t) /\ Counted(rows) BY DEF ReadsInv, AnnouncedInv
<1>5. DOMAIN t.put = {} /\ t.gone = {} /\ t.refs = {} BY <1>3, <1>4 DEF Orderly, Unstarted
<1>6. kind \in Kinds BY <1>3, <1>4, WhatReferencesSay DEF Fits
<1>7. Sequence(kind) \in DOMAIN rows BY <1>4, <1>6 DEF Counted
<1>8. n = rows[Sequence(kind)] + 1 /\ DOMAIN View(w) = DOMAIN rows
  BY <1>1, <1>5, <1>7, ViewOfNothing
<1>9. Key(kind, n) # Sequence(kind) BY <1>6, RowShapes DEF Kinds
<1>10. /\ DOMAIN put = {Sequence(kind), Key(kind, n)}
       /\ put[Sequence(kind)] = n /\ put[Key(kind, n)] = row
  BY <1>9 DEF Inserted
<1>11. /\ u.verb = t.verb /\ u.content = t.content /\ u.now = t.now /\ u.todo = Tail(t.todo)
       /\ u.put = [k \in (DOMAIN t.put \ {}) \cup DOMAIN put |->
                     IF k \in DOMAIN put THEN put[k] ELSE t.put[k]]
       /\ u.gone = (t.gone \ DOMAIN put) \cup {} /\ u.writing = (backend = "sqlite")
  BY <1>1 DEF Wrote, Same
<1> HIDE DEF put, row
<1>12. /\ DOMAIN u.put = {Sequence(kind), Key(kind, n)} /\ u.gone = {} /\ u.refs = {t.content[1]}
       /\ u.put[Sequence(kind)] = n /\ u.put[Key(kind, n)] = row
  BY <1>1, <1>5, <1>10, <1>11
<1>13. Orderly(rows, u)
  BY <1>1, <1>2, <1>3, <1>4, <1>8, <1>11, <1>12, InsertionsAreOrderly DEF row
<1>14. Claims(u) = {Sequence(kind), Key(kind, n)} BY <1>12 DEF Claims
<1>15. QED BY <1>1, <1>11, <1>12, <1>13, <1>14, StatementsKeepReads

\* So does a replacement.
LEMMA ReplacementsKeepReads ==
  ASSUME TypeOK, AnnouncedInv, ReadsInv, NEW w \in Writers, Replace(w)
  PROVE  ReadsInv'
<1> PICK t : t = tx[w] OBVIOUS
<1> PICK u : u = tx'[w] OBVIOUS
<1> PICK at : at = Modified(t.seen, t.content, t.now) OBVIOUS
<1> DEFINE parent == t.content[1]
           view == View(w)
           moves == t.key \in DOMAIN view /\ view[t.key].parent # parent
           put == [k \in {t.key} \cap DOMAIN view |-> Row(t.content, at)]
           refers == IF moves THEN {parent} ELSE {}
<1>1. Step(w) = "update" /\ (moves /\ parent # NoParent => parent \in DOMAIN view)
      /\ Write(w, put, {}, refers)
  BY DEF Replace
<1>2. t.verb = "update" /\ t.todo \in Updating /\ Tail(t.todo) \in Marking \cup Finished
  BY <1>1, ScriptGoesOn DEF TypeOK
<1>3. Orderly(rows, t) /\ Fits(t) /\ Counted(rows) /\ HasParents(rows)
  BY DEF ReadsInv, AnnouncedInv
<1>4. DOMAIN t.put = {} /\ t.gone = {} /\ t.refs = {} BY <1>2, <1>3 DEF Orderly, Unstarted
<1>5. DOMAIN view = DOMAIN rows /\ \A k \in DOMAIN rows : view[k] = rows[k]
  BY <1>4, ViewOfNothing
<1>6. /\ moves \in BOOLEAN
      /\ moves <=> t.key \in DOMAIN rows /\ rows[t.key].parent # parent
      /\ moves /\ parent # NoParent => parent \in DOMAIN rows
  BY <1>1, <1>5
<1>7. DOMAIN put = {t.key} \cap DOMAIN rows
      /\ (t.key \in DOMAIN put => put[t.key] = Row(t.content, at))
  BY <1>5
<1> HIDE DEF put, view, moves
<1>8. OnlyOf(w) /\ Wrote(w, put, {}) /\ u.key = t.key /\ u.refs = t.refs \cup refers
      /\ MayWrite(w, DOMAIN put, {}, refers)
  BY ZenonT(60), <1>1, AWrite DEF Write
<1>9. /\ u.verb = t.verb /\ u.content = t.content /\ u.now = t.now /\ u.todo = Tail(t.todo)
      /\ u.put = [k \in (DOMAIN t.put \ {}) \cup DOMAIN put |->
                    IF k \in DOMAIN put THEN put[k] ELSE t.put[k]]
      /\ u.gone = (t.gone \ DOMAIN put) \cup {} /\ u.writing = (backend = "sqlite")
  BY <1>8 DEF Wrote, Same
<1>10. /\ DOMAIN u.put = {t.key} \cap DOMAIN rows /\ u.gone = {}
       /\ u.refs = IF moves THEN {parent} ELSE {}
       /\ t.key \in DOMAIN u.put => u.put[t.key] = Row(t.content, at)
  BY <1>4, <1>7, <1>8, <1>9
<1>a. PICK moving \in BOOLEAN : moving <=> moves BY <1>6
<1>b. /\ moving <=> t.key \in DOMAIN rows /\ rows[t.key].parent # t.content[1]
      /\ moving /\ t.content[1] # NoParent => t.content[1] \in DOMAIN rows
      /\ u.refs = IF moving THEN {t.content[1]} ELSE {}
  BY <1>6, <1>10, <1>a
<1>c. /\ u.verb = t.verb /\ u.content = t.content /\ u.now = t.now /\ u.key = t.key
      /\ u.todo = Tail(t.todo) /\ u.todo \in Marking \cup Finished
  BY <1>2, <1>8, <1>9
<1> HIDE DEF refers
<1>d. /\ DOMAIN u.put = {t.key} \cap DOMAIN rows /\ u.gone = {}
      /\ t.key \in DOMAIN u.put => u.put[t.key] = Row(t.content, at)
  BY <1>10
<1> HIDE DEF parent
<1>11. Orderly(rows, u)
  BY SMTT(30), <1>2, <1>3, <1>b, <1>c, <1>d, ReplacementsAreOrderly
<1>12. Claims(u) \subseteq DOMAIN put BY <1>7, <1>10 DEF Claims
<1>13. QED
  BY <1>4, <1>8, <1>9, <1>10, <1>11, <1>12, StatementsKeepReads

\* So do the statements that write what a row says again.
LEMMA MarksKeepReads ==
  ASSUME TypeOK, AnnouncedInv, ReadsInv, NEW w \in Writers,
         WriteWatches(w) \/ WriteTargets(w)
  PROVE  ReadsInv'
<1> PICK t : t = tx[w] OBVIOUS
<1> PICK u : u = tx'[w] OBVIOUS
<1>1. PICK name, marks, refers :
        /\ Marked(w, name, marks, refers)
        /\ \/ /\ name = "watch" /\ Step(w) = "watches"
              /\ marks = {WatchRow(t.key, o) : o \in t.content[3]}
           \/ /\ name = "target" /\ Step(w) = "targets"
              /\ marks = {TargetRow(t.key, x) : x \in t.content[2]}
  BY DEF WriteWatches, WriteTargets
<1> DEFINE put == [k \in marks |-> TRUE]
           rest == Marks(View(w), name, t.key) \ marks
<1>2. Write(w, put, rest, refers) BY <1>1 DEF Marked
<1>3. t.verb \in {"create", "update"} /\ t.todo \in Marking
      /\ Tail(t.todo) \in Marking \cup Finished
  BY <1>1, ScriptGoesOn DEF TypeOK
<1>4. Orderly(rows, t) /\ Fits(t) /\ Counted(rows) BY DEF ReadsInv, AnnouncedInv
<1>5. Past(t) BY <1>3 DEF Past, Writes
<1>6. DOMAIN put = marks OBVIOUS
<1>7. \A k : k \in rest <=> /\ k \in DOMAIN View(w) /\ KindOf(k) = name /\ k[2] = t.key
                            /\ k \notin marks
  BY DEF Marks
<1> HIDE DEF put, rest
<1>8. OnlyOf(w) /\ Wrote(w, put, rest) /\ u.key = t.key /\ u.refs = t.refs \cup refers
      /\ MayWrite(w, marks, rest, refers)
  BY <1>2, <1>6, AWrite DEF Write
<1>9. /\ u.verb = t.verb /\ u.content = t.content /\ u.now = t.now /\ u.todo = Tail(t.todo)
      /\ u.put = [k \in (DOMAIN t.put \ rest) \cup DOMAIN put |->
                    IF k \in DOMAIN put THEN put[k] ELSE t.put[k]]
      /\ u.gone = (t.gone \ DOMAIN put) \cup rest /\ u.writing = (backend = "sqlite")
  BY <1>8 DEF Wrote, Same
<1>10. /\ DOMAIN u.put = (DOMAIN t.put \ rest) \cup marks
       /\ \A k \in DOMAIN t.put \ (rest \cup marks) : u.put[k] = t.put[k]
       /\ u.gone = (t.gone \ marks) \cup rest /\ t.refs \subseteq u.refs
  BY <1>6, <1>8, <1>9
<1>11. t.todo # <<>> BY <1>3, HeadsAndTails
<1>12. Step(w) = Head(t.todo) BY <1>11 DEF Step
<1>13. /\ \A k \in marks : KindOf(k) = name /\ k[2] = t.key
       /\ \A k \in rest : KindOf(k) = name /\ k[2] = t.key
       /\ marks \cap rest = {}
  BY <1>1, <1>7, RowShapes
<1>14. \A k \in DOMAIN rows : KindOf(k) = name /\ k[2] = t.key /\ k \notin t.gone =>
         k \in marks \cup rest
  BY <1>7, ViewOf
<1>15. \/ /\ name = "watch" /\ Head(t.todo) = "watches"
          /\ \A o : WatchRow(t.key, o) \in marks <=> o \in t.content[3]
       \/ /\ name = "target" /\ Head(t.todo) = "targets"
          /\ \A x : TargetRow(t.key, x) \in marks <=> x \in t.content[2]
  BY <1>1, <1>12, RowShapes
<1>a. /\ u.verb = t.verb /\ u.content = t.content /\ u.now = t.now /\ u.key = t.key
      /\ u.todo = Tail(t.todo) /\ t.todo \in Marking
  BY <1>3, <1>8, <1>9
<1>b. Says(rows, t, name, marks, rest) BY <1>13, <1>14, <1>15 DEF Says
<1>c. Resays(t, u, marks, rest) BY <1>10, <1>a DEF Resays
<1>16. Orderly(rows, u) BY <1>3, <1>4, <1>5, <1>b, <1>c, MarkingIsOrderly
<1>17. Claims(u) \subseteq Claims(t) \cup marks \cup rest /\ u.gone \subseteq t.gone \cup rest
  BY <1>10 DEF Claims
<1>18. QED BY <1>8, <1>9, <1>16, <1>17, StatementsKeepReads

\* A deletion that is under way writes nothing and sees the objects there are.
LEMMA DeletionsSeeTheCommitted ==
  ASSUME TypeOK, AnnouncedInv, ReadsInv, NEW w \in Writers,
         tx[w].verb = "delete", tx[w].todo \notin Finished
  PROVE  /\ DOMAIN tx[w].put = {} /\ tx[w].refs = {}
         /\ DOMAIN View(w) \subseteq DOMAIN rows
         /\ Objects(View(w)) = Objects(rows)
         /\ \A k \in Objects(rows) : View(w)[k] = rows[k]
         /\ \A key : Below(View(w), key) = Below(rows, key)
         /\ \A key : AllBelow(View(w), key) = AllBelow(rows, key)
<1>1. Counted(rows) /\ Placed(rows) /\ Orderly(rows, tx[w]) /\ Fits(tx[w])
  BY DEF ReadsInv, AnnouncedInv
<1>2. /\ DOMAIN tx[w].put = {} /\ tx[w].refs = {}
      /\ \A k \in tx[w].gone : ~ IsObject(k)
  BY <1>1, DeletionsTakeLast
<1>3. DOMAIN View(w) \subseteq DOMAIN rows BY <1>2, ViewOf
<1>4. /\ Objects(View(w)) = Objects(rows)
      /\ \A k \in Objects(rows) : View(w)[k] = rows[k]
      /\ \A key : AllBelow(View(w), key) = AllBelow(rows, key)
  BY <1>2, SeesTheCommitted
<1>5. \A key : Below(View(w), key) = Below(rows, key) BY <1>4 DEF Below
<1>6. QED BY <1>2, <1>3, <1>4, <1>5

\* What a statement does that only deletes.
LEMMA ADeletion ==
  ASSUME TypeOK, NEW w \in Writers, DOMAIN tx[w].put = {}, tx[w].refs = {},
         NEW deletes, Write(w, <<>>, deletes, {})
  PROVE  LET t == tx[w]  u == tx'[w] IN
         /\ OnlyOf(w) /\ MayWrite(w, {}, deletes, {})
         /\ u.verb = t.verb /\ u.content = t.content /\ u.key = t.key /\ u.todo = Tail(t.todo)
         /\ DOMAIN u.put = {} /\ u.gone = t.gone \cup deletes /\ u.refs = {}
         /\ u.writing = (backend = "sqlite")
<1> PICK t : t = tx[w] OBVIOUS
<1> PICK u : u = tx'[w] OBVIOUS
<1>0. DOMAIN <<>> = {} OBVIOUS
<1>1. OnlyOf(w) /\ Wrote(w, <<>>, deletes) /\ u.key = t.key /\ u.refs = t.refs \cup {}
  BY AWrite
<1>2. MayWrite(w, {}, deletes, {}) BY <1>0 DEF Write
<1>3. /\ u.verb = t.verb /\ u.content = t.content /\ u.todo = Tail(t.todo)
      /\ u.put = [k \in (DOMAIN t.put \ deletes) \cup DOMAIN <<>> |->
                    IF k \in DOMAIN <<>> THEN <<>>[k] ELSE t.put[k]]
      /\ u.gone = (t.gone \ DOMAIN <<>>) \cup deletes /\ u.writing = (backend = "sqlite")
  BY <1>1 DEF Wrote, Same
<1>4. DOMAIN u.put = {} BY <1>0, <1>3
<1>5. u.gone = t.gone \cup deletes BY <1>0, <1>3
<1>6. QED BY <1>1, <1>2, <1>3, <1>4, <1>5

\* The statements that clear keep the invariant.
LEMMA ClearingKeepsReads ==
  ASSUME TypeOK, AnnouncedInv, ReadsInv, NEW w \in Writers, ClearBelow(w) \/ Clear(w)
  PROVE  ReadsInv'
<1> PICK t : t = tx[w] OBVIOUS
<1> PICK u : u = tx'[w] OBVIOUS
<1>1. Step(w) \in {"clear_below", "clear"} BY DEF ClearBelow, Clear
<1>2. t.verb = "delete" /\ t.todo \in Clearing /\ Tail(t.todo) \in Clearing \cup Deleting
  BY <1>1, ScriptGoesOn DEF TypeOK
<1>3. t.todo \notin Finished BY <1>2, PartsApart
<1>4. /\ DOMAIN t.put = {} /\ t.refs = {} /\ DOMAIN View(w) \subseteq DOMAIN rows
      /\ \A key : Below(View(w), key) = Below(rows, key)
  BY <1>2, <1>3, DeletionsSeeTheCommitted
<1>5. PICK rest : /\ Write(w, <<>>, rest, {}) /\ rest \subseteq DOMAIN rows
                  /\ \A k \in rest :
                       KindOf(k) = "target" /\ (k[2] = t.key \/ rows[k[2]].parent = t.key)
  <2>1. CASE ClearBelow(w)
    <3> DEFINE rest == UNION {Marks(View(w), "target", k) : k \in Below(View(w), t.key)}
    <3>1. Write(w, <<>>, rest, {}) BY <2>1 DEF ClearBelow
    <3>2. \A k : k \in rest <=> /\ k \in DOMAIN View(w) /\ KindOf(k) = "target"
                                /\ k[2] \in Below(rows, t.key)
      BY <1>4 DEF Marks
    <3>3. \A k \in Below(rows, t.key) : rows[k].parent = t.key BY DEF Below
    <3> HIDE DEF rest
    <3>4. QED BY <1>4, <3>1, <3>2, <3>3
  <2>2. CASE Clear(w)
    <3> DEFINE rest == Marks(View(w), "target", t.key)
    <3>1. Write(w, <<>>, rest, {}) BY <2>2 DEF Clear
    <3>2. \A k : k \in rest <=> k \in DOMAIN View(w) /\ KindOf(k) = "target" /\ k[2] = t.key
      BY DEF Marks
    <3> HIDE DEF rest
    <3>3. QED BY <1>4, <3>1, <3>2
  <2>3. QED BY <2>1, <2>2
<1>6. /\ OnlyOf(w) /\ MayWrite(w, {}, rest, {})
      /\ u.verb = t.verb /\ u.key = t.key /\ u.todo = Tail(t.todo)
      /\ DOMAIN u.put = {} /\ u.gone = t.gone \cup rest /\ u.refs = {}
      /\ u.writing = (backend = "sqlite")
  BY <1>4, <1>5, ADeletion
<1>7. Counted(rows) /\ Placed(rows) /\ Orderly(rows, t) /\ Fits(t)
  BY DEF ReadsInv, AnnouncedInv
<1>8. Orderly(rows, u)
  BY ZenonT(60), <1>2, <1>5, <1>6, <1>7, ClearingIsOrderly
<1>9. Claims(u) \subseteq Claims(t) \cup {} \cup rest BY <1>6 DEF Claims
<1>10. QED BY <1>6, <1>8, <1>9, StatementsKeepReads

\* So does the one that deletes the object.
LEMMA DeletionsKeepReads ==
  ASSUME TypeOK, AnnouncedInv, ReadsInv, NEW w \in Writers, Delete(w)
  PROVE  ReadsInv'
<1> PICK t : t = tx[w] OBVIOUS
<1> PICK u : u = tx'[w] OBVIOUS
<1>1. Step(w) = "delete" BY DEF Delete
<1>2. t.verb = "delete" /\ t.todo \in Deleting /\ Tail(t.todo) \in Finished
  BY <1>1, ScriptGoesOn DEF TypeOK
<1>3. t.todo \notin Finished BY <1>2, PartsApart
<1>4. /\ DOMAIN t.put = {} /\ t.refs = {} /\ DOMAIN View(w) \subseteq DOMAIN rows
      /\ Objects(View(w)) = Objects(rows)
      /\ \A key : AllBelow(View(w), key) = AllBelow(rows, key)
  BY <1>2, <1>3, DeletionsSeeTheCommitted
<1>5. Counted(rows) /\ Placed(rows) /\ Orderly(rows, t) /\ Fits(t)
  BY DEF ReadsInv, AnnouncedInv
<1>6. IsObject(t.key) BY <1>2, <1>5 DEF Fits
<1> DEFINE going == ({t.key} \cup AllBelow(View(w), t.key)) \cap DOMAIN View(w)
           rest == UNION {Marks(View(w), "watch", k) : k \in going}
<1>7. Write(w, <<>>, going \cup rest, {}) BY DEF Delete
<1>8. going = ({t.key} \cup AllBelow(rows, t.key)) \cap DOMAIN rows
  <2>1. AllBelow(rows, t.key) \subseteq Objects(rows) BY DEF AllBelow, Below
  <2>2. t.key \in DOMAIN View(w) <=> t.key \in DOMAIN rows BY <1>4, <1>6, ObjectsAre
  <2>3. Objects(rows) \subseteq DOMAIN rows /\ Objects(rows) \subseteq DOMAIN View(w)
    BY <1>4, ObjectsAre
  <2>4. QED BY <1>4, <2>1, <2>2, <2>3
<1>9. \A k \in rest : k \in DOMAIN View(w) /\ KindOf(k) = "watch" /\ k[2] \in going
  BY DEF Marks
<1> HIDE DEF going, rest
<1>10. /\ OnlyOf(w) /\ MayWrite(w, {}, going \cup rest, {})
       /\ u.verb = t.verb /\ u.key = t.key /\ u.todo = Tail(t.todo)
       /\ DOMAIN u.put = {} /\ u.gone = t.gone \cup (going \cup rest) /\ u.refs = {}
       /\ u.writing = (backend = "sqlite")
  BY <1>4, <1>7, ADeletion
<1>11. Orderly(rows, u)
  <2>1. u.gone = t.gone \cup going \cup rest BY <1>10
  <2>2. rest \subseteq DOMAIN rows BY <1>4, <1>9
  <2>3. QED BY ZenonT(60), <1>2, <1>5, <1>6, <1>8, <1>9, <1>10, <2>1, <2>2, DeletionsAreOrderly
<1>12. Claims(u) \subseteq Claims(t) \cup {} \cup (going \cup rest) BY <1>10 DEF Claims
<1>13. QED BY <1>10, <1>11, <1>12, StatementsKeepReads

\* Steps that write nothing and leave what is committed.
LEMMA QuietStepsKeepReads ==
  ASSUME AnnouncedInv, ReadsInv, NEW w \in Writers,
         UNCHANGED <<backend, rows>>, \A v \in Writers \ {w} : tx'[v] = tx[v],
         Orderly(rows, tx'[w]), tx'[w].refs \subseteq tx[w].refs,
         Claims(tx'[w]) \subseteq Claims(tx[w]), tx'[w].gone \subseteq tx[w].gone,
         tx'[w].writing = tx[w].writing \/ tx'[w].refs = {}
  PROVE  ReadsInv'
<1>1. ASSUME NEW v \in Writers PROVE Orderly(rows, tx[v])' /\ Modest(tx[v])'
  <2>1. Orderly(rows', tx'[v]) BY DEF ReadsInv
  <2>2. Modest(tx[v])' BY DEF ReadsInv, Modest
  <2>3. QED BY <2>1, <2>2, OrderlyAfter
<1>2. ASSUME NEW x \in Writers, NEW v \in Writers \ {x} PROVE Apart(tx[v], tx[x])'
  <2>1. Apart(tx[v], tx[x]) BY DEF ReadsInv
  <2>2. Apart(tx'[v], tx'[x]) BY <2>1 DEF Apart
  <2>3. QED BY <2>2, ApartAfter
<1>3. QED BY <1>1, <1>2, SameTables DEF ReadsInv

\* A list that is read, an operation that begins and a rollback are such.
LEMMA ListsKeepReads ==
  ASSUME TypeOK, AnnouncedInv, ReadsInv, NEW w \in Writers, ListBelow(w)
  PROVE  ReadsInv'
<1> PICK t : t = tx[w] OBVIOUS
<1> PICK u : u = tx'[w] OBVIOUS
<1>1. /\ OnlyOf(w) /\ u.verb = t.verb /\ u.key = t.key /\ u.todo = Tail(t.todo)
      /\ u.put = t.put /\ u.gone = t.gone /\ u.refs = t.refs /\ u.writing = t.writing
  BY AList DEF Same
<1>2. t.verb = "delete" /\ t.todo \in Listing /\ u.todo \in Clearing
  BY <1>1, ScriptGoesOn DEF ListBelow, TypeOK
<1>3. Orderly(rows, u) BY <1>1, <1>2, ListingIsOrderly DEF ReadsInv
<1>4. Claims(u) = Claims(t) BY <1>1 DEF Claims
<1>5. QED BY <1>1, <1>3, <1>4, QuietStepsKeepReads DEF OnlyOf

\* An operation begins with nothing written.
LEMMA BeginningsKeepReads ==
  ASSUME TypeOK, AnnouncedInv, ReadsInv, NEW w \in Writers, Begins(w)
  PROVE  ReadsInv'
<1> PICK u : u = tx'[w] OBVIOUS
<1>1. /\ \A v \in Writers \ {w} : tx'[v] = tx[v]
      /\ UNCHANGED <<backend, rows>>
      /\ Sound(u.verb, u.key, u.content, u.seen, u.heard, u.todo)
      /\ u.put = <<>> /\ u.gone = {} /\ u.refs = {}
  BY ABeginning
<1>2. DOMAIN u.put = {} BY <1>1
<1>3. Orderly(rows, u) BY <1>1, <1>2, BeginningsAreOrderly DEF ReadsInv
<1>4. Claims(u) = {} BY <1>1, <1>2 DEF Claims
<1>5. QED BY <1>1, <1>3, <1>4, QuietStepsKeepReads

\* One that rests is orderly, whatever is committed.
LEMMA RestIsOrderly ==
  ASSUME Counted(rows)
  PROVE  Orderly(rows, Resting) /\ Modest(Resting) /\ Claims(Resting) = {}
<1>1. DOMAIN Resting.put = {} BY RestingFields
<1>2. QED BY <1>1, RestingFields, BeginningsAreOrderly DEF Modest, Claims

\* A rollback leaves nothing behind.
LEMMA RollbacksKeepReads ==
  ASSUME TypeOK, AnnouncedInv, ReadsInv, NEW w \in Writers, Rollback(w)
  PROVE  ReadsInv'
<1>1. OnlyOf(w) /\ tx'[w] = Resting BY ARollback
<1>2. Orderly(rows, Resting) /\ Claims(Resting) = {} BY RestIsOrderly DEF ReadsInv
<1>3. Resting.gone = {} /\ Resting.refs = {} BY RestingFields
<1>4. QED BY <1>1, <1>2, <1>3, QuietStepsKeepReads DEF OnlyOf

\* The tables after a step are those of the state after it.
LEMMA TablesAfter ==
  ASSUME Counted(rows'), Agreeing(rows'), HasParents(rows')
  PROVE  Counted(rows)' /\ Agreeing(rows)' /\ HasParents(rows)'
<1>1. Counted(rows)' BY DEF Counted, Numbered
<1>2. Agreeing(rows)' BY DEF Agreeing, Objects
<1>3. HasParents(rows)' BY DEF HasParents, Objects
<1>4. QED BY <1>1, <1>2, <1>3

\* What is orderly is said of these fields.
LEMMA OrderlyFields ==
  ASSUME NEW table, NEW t, Orderly(table, t), NEW u,
         u.verb = t.verb, u.key = t.key, u.content = t.content, u.now = t.now,
         u.todo = t.todo, u.put = t.put, u.gone = t.gone, u.refs = t.refs
  PROVE  Orderly(table, u)
<1>1. Past(u) = Past(t) /\ Stores(u) = Stores(t) /\ Writes(u) = Writes(t) /\ Claims(u) = Claims(t)
  BY DEF Past, Stores, Writes, Claims
<1>2. Unstarted(u) /\ Prepared(u) /\ OwnRows(u)
  BY <1>1 DEF Orderly, Unstarted, Prepared, OwnRows
<1>3. Fresh(table, u) /\ Existing(table, u) BY <1>1 DEF Orderly, Fresh, Existing
<1>4. NoMarksYet(u) BY <1>1 DEF Orderly, NoMarksYet
<1>5. Repeats(table, u) BY <1>1 DEF Orderly, Repeats, TargetsDone, WatchesDone
<1>6. Rooted(table, u) /\ Deletes(table, u) BY <1>1 DEF Orderly, Rooted, Deletes
<1>7. QED BY <1>2, <1>3, <1>4, <1>5, <1>6 DEF Orderly

\* A commit keeps the invariant.
LEMMA CommitsKeepReads ==
  ASSUME TypeOK, AnnouncedInv, ReadsInv, NEW w \in Writers, Commit(w)
  PROVE  ReadsInv'
<1> PICK t : t = tx[w] OBVIOUS
<1> PICK after : after = rows' OBVIOUS
<1>1. /\ rows' = View(w) /\ tx'[w] = Resting /\ backend' = backend
      /\ t.verb # "none" /\ t.todo \in Finished
      /\ \A v \in Writers \ {w} :
           LET old == tx[v]  new == tx'[v] IN
           /\ Same(old, new) /\ new.key = old.key /\ new.todo = old.todo
           /\ new.put = old.put /\ new.gone = old.gone /\ new.refs = old.refs
           /\ new.writing = old.writing
  BY ACommit
<1>2. Ends(t) BY <1>1 DEF TypeOK, OnScript, Ends
<1>3. Becomes(rows, t, after) BY <1>1, ViewOf DEF Becomes
<1>4. /\ Counted(rows) /\ Agreeing(rows) /\ HasParents(rows) /\ Placed(rows)
      /\ \A v \in Writers : Orderly(rows, tx[v]) /\ Fits(tx[v]) /\ Modest(tx[v])
      /\ \A x \in Writers : \A v \in Writers \ {x} : Apart(tx[v], tx[x])
  BY DEF ReadsInv, AnnouncedInv
<1>5. Counted(after) BY <1>2, <1>3, <1>4, CommitsCount
<1>6. Agreeing(after) BY <1>2, <1>3, <1>4, CommitsAgree
<1>7. HasParents(after) BY <1>2, <1>3, <1>4, CommitsRefer
<1>8. Counted(rows)' /\ Agreeing(rows)' /\ HasParents(rows)'
  BY <1>5, <1>6, <1>7, TablesAfter
<1>9. /\ Resting.verb = "none" /\ DOMAIN Resting.put = {} /\ Resting.gone = {}
      /\ Resting.refs = {}
  BY RestingFields
<1>10. ASSUME NEW v \in Writers PROVE Orderly(rows, tx[v])' /\ Modest(tx[v])'
  <2>1. CASE v = w
    <3>1. Orderly(after, Resting)
      <4>1. Unstarted(Resting) /\ Prepared(Resting) /\ OwnRows(Resting) /\ NoMarksYet(Resting)
        BY <1>9 DEF Unstarted, Prepared, OwnRows, NoMarksYet, Past, Writes
      <4>2. QED
        BY <1>9, <4>1
        DEF Orderly, Fresh, Existing, Repeats, Rooted, Deletes, Stores, Past, Writes
    <3>2. Orderly(rows', tx'[v]) BY <1>1, <2>1, <3>1
    <3>3. Modest(tx[v])' BY <1>1, <1>9, <2>1 DEF Modest
    <3>4. QED BY <3>2, <3>3, OrderlyAfter
  <2>2. CASE v # w
    <3> PICK old : old = tx[v] OBVIOUS
    <3> PICK new : new = tx'[v] OBVIOUS
    <3>1. /\ new.verb = old.verb /\ new.content = old.content /\ new.now = old.now
          /\ new.key = old.key /\ new.todo = old.todo /\ new.put = old.put
          /\ new.gone = old.gone /\ new.refs = old.refs /\ new.writing = old.writing
      BY <1>1, <2>2 DEF Same
    <3>2. Apart(t, old) /\ Apart(old, t) BY <1>4, <2>2
    <3>3. Orderly(rows, old) /\ Fits(old) /\ Orderly(rows, t) /\ Fits(t) BY <1>4
    <3>4. Orderly(after, old) BY <1>2, <1>3, <1>4, <3>2, <3>3, OthersStayOrderly
    <3>5. Orderly(after, new) BY <3>1, <3>4, OrderlyFields
    <3>6. Orderly(rows', tx'[v]) BY <3>5
    <3>7. Modest(tx[v])' BY <1>1, <1>4, <3>1 DEF Modest
    <3>8. QED BY <3>6, <3>7, OrderlyAfter
  <2>3. QED BY <2>1, <2>2
<1>11. ASSUME NEW x \in Writers, NEW v \in Writers \ {x} PROVE Apart(tx[v], tx[x])'
  <2>1. Apart(tx[v], tx[x]) BY <1>4
  <2>2. /\ v # w => Claims(tx'[v]) = Claims(tx[v]) /\ tx'[v].gone = tx[v].gone
        /\ x # w => Claims(tx'[x]) = Claims(tx[x]) /\ tx'[x].refs = tx[x].refs
    BY <1>1 DEF Claims
  <2>3. Claims(Resting) = {} BY <1>9 DEF Claims
  <2>4. Apart(tx'[v], tx'[x]) BY <1>1, <1>9, <2>1, <2>2, <2>3 DEF Apart
  <2>5. QED BY <2>4, ApartAfter
<1>12. QED BY <1>8, <1>10, <1>11 DEF ReadsInv

\* Every step keeps the invariant of the reads.
LEMMA ReadsKept ==
  ASSUME TypeOK, AnnouncedInv, ReadsInv, [Next]_vars
  PROVE  ReadsInv'
<1>1. CASE UNCHANGED vars
  <2>1. UNCHANGED <<backend, rows, tx>> BY <1>1 DEF vars
  <2>2. ASSUME NEW v \in Writers PROVE Orderly(rows, tx[v])' /\ Modest(tx[v])'
    <3>1. Orderly(rows', tx'[v]) BY <2>1 DEF ReadsInv
    <3>2. Modest(tx[v])' BY <2>1 DEF ReadsInv, Modest
    <3>3. QED BY <3>1, <3>2, OrderlyAfter
  <2>3. ASSUME NEW x \in Writers, NEW v \in Writers \ {x} PROVE Apart(tx[v], tx[x])'
    BY <2>1, ApartAfter DEF ReadsInv
  <2>4. QED BY <2>1, <2>2, <2>3, SameTables DEF ReadsInv
<1>2. ASSUME NEW w \in Writers,
             \/ Insert(w) \/ Replace(w) \/ WriteWatches(w) \/ WriteTargets(w)
             \/ ListBelow(w) \/ ClearBelow(w) \/ Clear(w) \/ Delete(w)
             \/ Commit(w) \/ Rollback(w)
      PROVE  ReadsInv'
  BY <1>2, InsertionsKeepReads, ReplacementsKeepReads, MarksKeepReads, ListsKeepReads,
     ClearingKeepsReads, DeletionsKeepReads, CommitsKeepReads, RollbacksKeepReads
<1>3. ASSUME NEW w \in Writers, Begins(w) PROVE ReadsInv'
  BY <1>3, BeginningsKeepReads
<1>4. QED BY <1>1, <1>2, <1>3, StepsOfNext

\* At first the rows repeat what the documents carry.
LEMMA ReadsAtFirst ==
  ASSUME Init
  PROVE  ReadsInv
<1> DEFINE marks == UNION {{TargetRow(k, x) : x \in Initial[k].targets}
                             \cup {WatchRow(k, o) : o \in Initial[k].watches} :
                        k \in DOMAIN Initial}
           kinds == {Sequence(kind) : kind \in Kinds}
<1>1. rows = [k \in DOMAIN Initial \cup marks \cup kinds |->
                IF k \in marks THEN TRUE ELSE IF k \in kinds THEN 2 ELSE Initial[k]]
  BY DEF Init, InitialRows
<1>2. \A k : k \in marks <=>
        \E id \in DOMAIN Initial :
          \/ \E x \in Initial[id].targets : k = TargetRow(id, x)
          \/ \E o \in Initial[id].watches : k = WatchRow(id, o)
  OBVIOUS
<1>3. \A k : k \in kinds <=> \E kind \in Kinds : k = Sequence(kind) OBVIOUS
<1> HIDE DEF marks, kinds
<1>4. \A k \in marks : IsMark(k) /\ k[2] \in DOMAIN Initial BY <1>2, RowShapes DEF IsMark
<1>5. \A k \in kinds : KindOf(k) = "sequence" BY <1>3, RowShapes
<1>6. Objects(rows) = DOMAIN Initial /\ \A k \in DOMAIN Initial : rows[k] = Initial[k]
  BY FirstObjects
<1>7. DOMAIN rows = DOMAIN Initial \cup marks \cup kinds BY <1>1
<1>8. \A kind \in Kinds : Sequence(kind) \in DOMAIN rows /\ rows[Sequence(kind)] = 2
  <2>1. ASSUME NEW kind \in Kinds
        PROVE  Sequence(kind) \in kinds /\ Sequence(kind) \notin marks
    BY <1>3, <1>4, <1>5, KindsApart
  <2>2. QED BY <1>1, <1>7, <2>1
<1>9. ASSUME NEW k \in DOMAIN Initial PROVE IsObject(k) /\ Numbered(rows, k)
  <2>1. PICK kind \in Kinds, n \in 1 .. 2 : k = Key(kind, n) BY SqlStoreAssumption
  <2>2. KindOf(k) = kind /\ k[2] = n BY <2>1, RowShapes
  <2>3. IsObject(k) BY <2>2 DEF IsObject
  <2>4. rows[Sequence(KindOf(k))] = 2 BY <1>8, <2>2
  <2>5. k[2] \in Nat /\ k[2] <= 2 BY <2>2
  <2>6. k = Key(KindOf(k), k[2]) BY <2>1, <2>2
  <2>7. QED BY <2>3, <2>4, <2>5, <2>6 DEF Numbered
<1>10. Counted(rows)
  <2>1. ASSUME NEW k \in DOMAIN rows
        PROVE  (IsObject(k) => Numbered(rows, k)) /\ (IsMark(k) => Numbered(rows, k[2]))
    BY <1>4, <1>5, <1>7, <1>9, KindsApart
  <2>2. QED BY <1>8, <2>1 DEF Counted
<1>11. Agreeing(rows)
  <2>1. ASSUME NEW k \in DOMAIN Initial, NEW m, IsMark(m)
        PROVE  m \in DOMAIN rows <=> m \in marks
    BY <1>5, <1>7, <1>9, <2>1, KindsApart
  <2>2. ASSUME NEW k \in DOMAIN Initial, NEW x
        PROVE  TargetRow(k, x) \in DOMAIN rows <=> x \in Initial[k].targets
    <3>1. IsMark(TargetRow(k, x)) BY RowShapes DEF IsMark
    <3>2. TargetRow(k, x) \in DOMAIN rows <=> TargetRow(k, x) \in marks BY <2>1, <3>1
    <3>3. TargetRow(k, x) \in marks <=> x \in Initial[k].targets BY <1>2, RowShapes
    <3>4. QED BY <3>2, <3>3
  <2>3. ASSUME NEW k \in DOMAIN Initial, NEW o
        PROVE  WatchRow(k, o) \in DOMAIN rows <=> o \in Initial[k].watches
    <3>1. IsMark(WatchRow(k, o)) BY RowShapes DEF IsMark
    <3>2. WatchRow(k, o) \in DOMAIN rows <=> WatchRow(k, o) \in marks BY <2>1, <3>1
    <3>3. WatchRow(k, o) \in marks <=> o \in Initial[k].watches BY <1>2, RowShapes
    <3>4. QED BY <3>2, <3>3
  <2>4. \A k \in DOMAIN Initial : Initial[k].targets \subseteq Targets BY SqlStoreAssumption
  <2>5. QED BY <1>6, <2>2, <2>3, <2>4 DEF Agreeing
<1>12. HasParents(rows)
  <2>1. KindOf(NoParent) = "none" BY DEF KindOf, NoParent
  <2>2. \A k \in DOMAIN Initial :
          Initial[k].parent = NoParent \/ Initial[k].parent \in DOMAIN Initial
    BY SqlStoreAssumption
  <2>3. QED BY <1>6, <1>7, <2>1, <2>2 DEF HasParents
<1>13. ASSUME NEW w \in Writers
       PROVE  /\ Orderly(rows, tx[w]) /\ Modest(tx[w])
              /\ Claims(tx[w]) = {} /\ tx[w].gone = {}
  <2>1. tx[w] = Resting BY DEF Init
  <2>2. QED BY <1>10, <2>1, RestIsOrderly, RestingFields
<1>14. QED BY <1>10, <1>11, <1>12, <1>13 DEF ReadsInv, Apart

-----------------------------------------------------------------------------
(* What is read.                                                           *)

\* The rows of the objects there are, as reads use them.
LEMMA WhatIsRead ==
  ASSUME AnnouncedInv, ReadsInv, NEW k \in Objects(rows)
  PROVE  /\ Carries(KindOf(k)) => /\ rows[k].targets \subseteq Targets
                                  /\ \A x \in Targets : IsMarked(k, x) <=> x \in rows[k].targets
         /\ KindOf(k) = "subscription" => \A o \in Watched :
              WatchRow(k, o) \in DOMAIN rows <=> o \in rows[k].watches
         /\ KindOf(k) = "report" => rows[k].parent \in FoundEvent
         /\ KindOf(k) = "resource" => rows[k].parent \in FoundVen
<1>1. Agreeing(rows) /\ HasParents(rows) /\ Placed(rows) BY DEF ReadsInv, AnnouncedInv
<1>2. Carries(KindOf(k)) => /\ rows[k].targets \subseteq Targets
                            /\ \A x \in Targets : IsMarked(k, x) <=> x \in rows[k].targets
  BY <1>1 DEF Agreeing, IsMarked
<1>3. KindOf(k) = "subscription" => \A o \in Watched :
        WatchRow(k, o) \in DOMAIN rows <=> o \in rows[k].watches
  BY <1>1 DEF Agreeing, Watches
<1>4. ASSUME KindOf(k) = "report" PROVE rows[k].parent \in FoundEvent
  <2>1. <<"report", KindOf(rows[k].parent)>> \in References BY <1>1, <1>4 DEF Placed
  <2>2. KindOf(rows[k].parent) = "event" BY <2>1 DEF References
  <2>3. rows[k].parent \in DOMAIN rows BY <1>1, <2>2 DEF HasParents
  <2>4. QED BY <2>2, <2>3 DEF FoundEvent, Found, Objects, Kinds
<1>5. ASSUME KindOf(k) = "resource" PROVE rows[k].parent \in FoundVen
  <2>1. <<"resource", KindOf(rows[k].parent)>> \in References BY <1>1, <1>5 DEF Placed
  <2>2. KindOf(rows[k].parent) = "ven" BY <2>1 DEF References
  <2>3. rows[k].parent \in DOMAIN rows BY <1>1, <2>2 DEF HasParents
  <2>4. QED BY <2>2, <2>3 DEF FoundVen, Found, Objects, Kinds
<1>6. QED BY <1>2, <1>3, <1>4, <1>5

\* A clause over rows says what the filter says of the document.
LEMMA ClausesSayTheFilter ==
  ASSUME AnnouncedInv, ReadsInv, NEW k \in Objects(rows), Carries(KindOf(k)),
         NEW filter, filter.anyOf \subseteq Targets
  PROVE  TargetSql(filter, k) <=> FilterAdmits(filter, rows[k].targets)
<1>1. /\ rows[k].targets \subseteq Targets
      /\ \A x \in Targets : IsMarked(k, x) <=> x \in rows[k].targets
  BY WhatIsRead
<1>2. (~ \E x \in Targets : IsMarked(k, x)) <=> rows[k].targets = {} BY <1>1
<1>3. (\E x \in filter.anyOf : IsMarked(k, x)) <=> filter.anyOf \cap rows[k].targets # {}
  BY <1>1
<1>4. QED BY <1>2, <1>3 DEF TargetSql, FilterAdmits

\* A filter names targets there are, if the request and the grant do.
LEMMA FiltersNameTargets ==
  ASSUME NEW access, access.requested \subseteq Targets, access.role.grant \subseteq Targets
  PROVE  TargetFilter(access).anyOf \subseteq Targets
BY DEF TargetFilter

\* A query's clause for the owner says whom the object is owned by.
LEMMA ClausesSayTheOwner ==
  ASSUME NEW role, role = BusinessLogic \/ role = Anonymous
                     \/ \E c \in Clients : role = VenRole(c, {}),
         NEW requested, NEW access, access = ListAccess(role, requested), NEW k
  PROVE  OwnerSql(OwnerFilter(access), k) <=> Owns(access, ClientOf(k))
<1>0. access.role = role BY DEF ListAccess
<1> DEFINE only == Clients \cap {role.client}
<1>1. OwnerFilter(access) = [any |-> IsBusinessLogic(role), only |-> only]
  BY <1>0 DEF OwnerFilter
<1>2. OwnerSql(OwnerFilter(access), k) <=> IsBusinessLogic(role) \/ ClientOf(k) \in only
  BY <1>1 DEF OwnerSql
<1>3. CASE role = BusinessLogic
  BY <1>0, <1>2, <1>3 DEF Owns, IsBusinessLogic, BusinessLogic
<1>4. CASE role = Anonymous
  <2>1. role.kind = "anonymous" /\ role.client = NoClient BY <1>4 DEF Anonymous
  <2>2. only = {} BY <2>1, PrivacyAssumption
  <2>3. QED BY <1>0, <1>2, <2>1, <2>2 DEF Owns, IsBusinessLogic
<1>5. ASSUME NEW c \in Clients, role = VenRole(c, {})
      PROVE  OwnerSql(OwnerFilter(access), k) <=> Owns(access, ClientOf(k))
  <2>1. role.kind = "ven" /\ role.client = c BY <1>5 DEF VenRole
  <2>2. only = {c} BY <1>5, <2>1
  <2>3. QED BY <1>0, <1>2, <2>1, <2>2 DEF Owns, IsBusinessLogic
<1>6. QED BY <1>3, <1>4, <1>5

\* Programmes and events that are selected are those that are listed,
LEMMA TargetedReadsFollow ==
  ASSUME AnnouncedInv, ReadsInv, NEW access,
         access.requested \subseteq Targets, access.role.grant \subseteq Targets
  PROVE  /\ SelectPrograms(access) = ListPrograms(access)
         /\ \A program : SelectEvents(access, program) = ListEvents(access, program)
<1>1. TargetFilter(access).anyOf \subseteq Targets BY FiltersNameTargets
<1>2. \A p \in FoundProgram : p \in Objects(rows) /\ Carries(KindOf(p))
  BY DEF FoundProgram, Found, Carries
<1>3. \A e \in FoundEvent : e \in Objects(rows) /\ Carries(KindOf(e))
  BY DEF FoundEvent, Found, Carries
<1>4. \A k \in FoundProgram \cup FoundEvent :
        TargetSql(TargetFilter(access), k) <=> Admits(access, rows[k].targets)
  BY <1>1, <1>2, <1>3, ClausesSayTheFilter DEF Admits
<1>5. QED BY <1>4 DEF SelectPrograms, ListPrograms, SelectEvents, ListEvents

\* so are reports and subscriptions,
LEMMA OwnedReadsFollow ==
  ASSUME AnnouncedInv, ReadsInv,
         NEW role, role = BusinessLogic \/ role = Anonymous
                     \/ \E c \in Clients : role = VenRole(c, {}),
         NEW access, access = ListAccess(role, {}), NEW program
  PROVE  /\ \A event : SelectReports(access, program, event) = ListReports(access, program, event)
         /\ \A objects : objects \subseteq Watched =>
              SelectSubscriptions(access, program, objects)
                = ListSubscriptions(access, program, objects)
<1>1. \A k : OwnerSql(OwnerFilter(access), k) <=> Owns(access, ClientOf(k))
  BY ClausesSayTheOwner
<1>2. ASSUME NEW event
      PROVE  SelectReports(access, program, event) = ListReports(access, program, event)
  <2>1. \A r \in FoundReport : rows[r].parent \in FoundEvent
    BY WhatIsRead DEF FoundReport, Found
  <2>2. QED BY <1>1, <2>1 DEF SelectReports, ListReports, Named
<1>3. ASSUME NEW objects, objects \subseteq Watched
      PROVE  SelectSubscriptions(access, program, objects)
               = ListSubscriptions(access, program, objects)
  <2>1. ASSUME NEW s \in FoundSubscription
        PROVE  Watching(s, objects) <=> rows[s].watches \cap objects # {}
    <3>1. \A o \in Watched : WatchRow(s, o) \in DOMAIN rows <=> o \in rows[s].watches
      BY WhatIsRead DEF FoundSubscription, Found
    <3>2. QED BY <1>3, <3>1 DEF Watching
  <2>2. QED BY <1>1, <2>1 DEF SelectSubscriptions, ListSubscriptions
<1>4. QED BY <1>2, <1>3

\* VENs and their resources,
LEMMA RequestedReadsFollow ==
  ASSUME AnnouncedInv, ReadsInv,
         NEW role, role = BusinessLogic \/ role = Anonymous
                     \/ \E c \in Clients : role = VenRole(c, {}),
         NEW requested, requested \subseteq Targets,
         NEW access, access = ListAccess(role, requested)
  PROVE  /\ SelectVens(access) = ListVens(access)
         /\ \A ven : SelectResources(access, ven) = ListResources(access, ven)
<1>1. \A k : OwnerSql(OwnerFilter(access), k) <=> Owns(access, ClientOf(k))
  BY ClausesSayTheOwner
<1>2. RequestedFilter(access).anyOf \subseteq Targets BY DEF RequestedFilter, ListAccess
<1>3. \A k \in FoundVen \cup FoundResource : k \in Objects(rows) /\ Carries(KindOf(k))
  BY DEF FoundVen, FoundResource, Found, Carries
<1>4. \A k \in FoundVen \cup FoundResource :
        TargetSql(RequestedFilter(access), k)
          <=> FilterAdmits(RequestedFilter(access), rows[k].targets)
  BY <1>2, <1>3, ClausesSayTheFilter
<1>5. SelectVens(access) = ListVens(access) BY <1>1, <1>4 DEF SelectVens, ListVens
<1>6. \A r \in FoundResource : rows[r].parent \in FoundVen
  BY WhatIsRead DEF FoundResource, Found
<1>7. \A ven : SelectResources(access, ven) = ListResources(access, ven)
  BY <1>1, <1>4, <1>6 DEF SelectResources, ListResources, Named
<1>8. QED BY <1>5, <1>7

\* and the subscribers and their grants.
LEMMA GrantsFollow ==
  ASSUME AnnouncedInv, ReadsInv
  PROVE  /\ \A o \in Watched : SelectSubscribers({o}) = Subscribers({o})
         /\ \A c : SelectGrant(c) = GrantFor(c)
         /\ SelectGrants = AllGrants
<1>1. ASSUME NEW o \in Watched PROVE SelectSubscribers({o}) = Subscribers({o})
  <2>1. \A s \in FoundSubscription : WatchRow(s, o) \in DOMAIN rows <=> o \in rows[s].watches
    BY WhatIsRead DEF FoundSubscription, Found
  <2>2. QED BY <2>1 DEF SelectSubscribers, Subscribers, Watching
<1>2. \A k \in FoundVen \cup FoundResource :
        /\ rows[k].targets \subseteq Targets
        /\ \A x \in Targets : IsMarked(k, x) <=> x \in rows[k].targets
  BY WhatIsRead DEF FoundVen, FoundResource, Found, Carries
<1>3. \A r \in FoundResource : rows[r].parent \in FoundVen
  BY WhatIsRead DEF FoundResource, Found
<1>4. ASSUME NEW c, NEW x
      PROVE  x \in GrantFor(c) <=>
               \/ \E v \in FoundVen : ClientOf(v) = c /\ x \in rows[v].targets
               \/ \E r \in FoundResource : ClientOf(rows[r].parent) = c /\ x \in rows[r].targets
  <2> DEFINE vens == {v \in FoundVen : ClientOf(v) = c}
             all == vens \cup {r \in FoundResource : rows[r].parent \in vens}
  <2>1. GrantFor(c) = UNION {rows[k].targets : k \in all} BY DEF GrantFor
  <2>2. x \in GrantFor(c) <=> \E k \in all : x \in rows[k].targets BY <2>1
  <2>3. QED BY <1>3, <2>2
<1>5. ASSUME NEW c PROVE SelectGrant(c) = GrantFor(c)
  <2>1. ASSUME NEW x PROVE x \in SelectGrant(c) <=> x \in GrantFor(c)
    BY <1>2, <1>3, <1>4 DEF SelectGrant
  <2>2. QED BY <2>1 DEF SelectGrant, GrantFor
<1>6. ASSUME NEW d
      PROVE  d \in Carried <=>
               \/ \E v \in FoundVen : \E x \in rows[v].targets : d = <<ClientOf(v), x>>
               \/ \E r \in FoundResource : \E x \in rows[r].targets :
                    d = <<ClientOf(rows[r].parent), x>>
  <2> DEFINE marked(k) == {x \in Targets : IsMarked(k, x)}
             byVens      == {{<<ClientOf(v), x>> : x \in marked(v)} : v \in FoundVen}
             byResources == {{<<ClientOf(rows[r].parent), x>> : x \in marked(r)} :
                               r \in FoundResource}
  <2>1. Carried = UNION (byVens \cup byResources) BY DEF Carried
  <2>2. \A k \in FoundVen \cup FoundResource : marked(k) = rows[k].targets BY <1>2
  <2> DEFINE ofVen(v) == {<<ClientOf(v), x>> : x \in rows[v].targets}
             ofResource(r) == {<<ClientOf(rows[r].parent), x>> : x \in rows[r].targets}
  <2>3. byVens = {ofVen(v) : v \in FoundVen} BY <2>2
  <2>4. byResources = {ofResource(r) : r \in FoundResource} BY <2>2
  <2>a. \A v : d \in ofVen(v) <=> \E x \in rows[v].targets : d = <<ClientOf(v), x>>
    OBVIOUS
  <2>b. \A r : d \in ofResource(r)
              <=> \E x \in rows[r].targets : d = <<ClientOf(rows[r].parent), x>>
    OBVIOUS
  <2> HIDE DEF byVens, byResources, marked, ofVen, ofResource
  <2>5. (\E one \in byVens : d \in one)
          <=> \E v \in FoundVen : \E x \in rows[v].targets : d = <<ClientOf(v), x>>
    BY <2>3, <2>a
  <2>6. (\E one \in byResources : d \in one)
          <=> \E r \in FoundResource : \E x \in rows[r].targets :
                d = <<ClientOf(rows[r].parent), x>>
    BY <2>4, <2>b
  <2>7. QED BY <2>1, <2>5, <2>6
<1>7. ASSUME NEW c PROVE {d[2] : d \in {e \in Carried : e[1] = c}} = GrantFor(c)
  <2> DEFINE some == {e \in Carried : e[1] = c}
             seconds == {d[2] : d \in some}
  <2>1. ASSUME NEW x
        PROVE  (\E d \in some : x = d[2]) <=>
                 \/ \E v \in FoundVen : ClientOf(v) = c /\ x \in rows[v].targets
                 \/ \E r \in FoundResource : ClientOf(rows[r].parent) = c /\ x \in rows[r].targets
    <3>1. ASSUME NEW v \in FoundVen, ClientOf(v) = c, x \in rows[v].targets
          PROVE  \E d \in some : x = d[2]
      <4>1. <<c, x>> \in Carried BY <1>6, <3>1
      <4>2. <<c, x>>[1] = c /\ <<c, x>>[2] = x OBVIOUS
      <4>3. QED BY <4>1, <4>2
    <3>2. ASSUME NEW r \in FoundResource, ClientOf(rows[r].parent) = c, x \in rows[r].targets
          PROVE  \E d \in some : x = d[2]
      <4>1. <<c, x>> \in Carried BY <1>6, <3>2
      <4>2. <<c, x>>[1] = c /\ <<c, x>>[2] = x OBVIOUS
      <4>3. QED BY <4>1, <4>2
    <3>3. ASSUME NEW d \in some, x = d[2]
          PROVE  \/ \E v \in FoundVen : ClientOf(v) = c /\ x \in rows[v].targets
                 \/ \E r \in FoundResource :
                      ClientOf(rows[r].parent) = c /\ x \in rows[r].targets
      <4>1. d \in Carried /\ d[1] = c BY <3>3
      <4>2. \A a, b : d = <<a, b>> => d[1] = a /\ d[2] = b OBVIOUS
      <4> HIDE DEF some
      <4>3. CASE \E v \in FoundVen : \E y \in rows[v].targets : d = <<ClientOf(v), y>>
        BY <3>3, <4>1, <4>2, <4>3
      <4>4. CASE \E r \in FoundResource : \E y \in rows[r].targets :
                   d = <<ClientOf(rows[r].parent), y>>
        BY <3>3, <4>1, <4>2, <4>4
      <4>5. QED BY <1>6, <4>1, <4>3, <4>4
    <3>4. QED BY <3>1, <3>2, <3>3
  <2>2. \A x : x \in seconds <=> \E d \in some : x = d[2] OBVIOUS
  <2> HIDE DEF some
  <2>3. \A x : x \in seconds <=> x \in GrantFor(c) BY <1>4, <2>1, <2>2
  <2> HIDE DEF seconds
  <2>4. seconds = GrantFor(c) BY <2>3
  <2>5. QED BY <2>4 DEF seconds, some
<1>8. SelectGrants = AllGrants BY <1>7 DEF SelectGrants, AllGrants
<1>9. QED BY <1>1, <1>5, <1>8

\* Who asks is nobody, or has no more than the targets there are.
LEMMA WhoAsks ==
  /\ \A role \in Roles : /\ \/ role = BusinessLogic \/ role = Anonymous
                            \/ \E c \in Clients : role = VenRole(c, {})
                         /\ role.grant \subseteq Targets
  /\ \A role \in Granted : role.grant \subseteq Targets
  /\ \A some \in AnyOf(Targets) : some \subseteq Targets
  /\ \A some \in AnyOf(Watched) : some \subseteq Watched
<1>1. BusinessLogic.grant = {} /\ Anonymous.grant = {} BY DEF BusinessLogic, Anonymous
<1>2. \A c, g : VenRole(c, g).grant = g BY DEF VenRole
<1>3. \A role \in Roles : \/ role = BusinessLogic \/ role = Anonymous
                         \/ \E c \in Clients : role = VenRole(c, {})
  BY DEF Roles
<1>4. \A role \in Roles : role.grant \subseteq Targets BY <1>1, <1>2, <1>3
<1>5. \A role \in Granted : role.grant \subseteq Targets BY DEF Granted, VenRole
<1>6. QED BY <1>3, <1>4, <1>5 DEF AnyOf

\* Whatever writes overlap, what SQL computes from rows and joins is what the
\* memory backend computes from the documents.
THEOREM ReadsFollow == Spec => []ReadsFollowTheDocuments
<1>1. Init => TypeOK /\ AnnouncedInv /\ ReadsInv
  BY TypesAtFirst, AnnouncedAtFirst, ReadsAtFirst
<1>2. (TypeOK /\ AnnouncedInv /\ ReadsInv) /\ [Next]_vars
        => (TypeOK /\ AnnouncedInv /\ ReadsInv)'
  BY TypesKept, AnnouncedKept, ReadsKept
<1>3. TypeOK /\ AnnouncedInv /\ ReadsInv => ReadsFollowTheDocuments
  <2> SUFFICES ASSUME AnnouncedInv, ReadsInv PROVE ReadsFollowTheDocuments OBVIOUS
  <2>1. ASSUME NEW access \in Targeted
        PROVE  /\ SelectPrograms(access) = ListPrograms(access)
               /\ \A program : SelectEvents(access, program) = ListEvents(access, program)
    <3>1. access.requested \subseteq Targets /\ access.role.grant \subseteq Targets
      <4>1. CASE access \in Lists(Roles \cup Granted)
        BY <4>1, WhoAsks DEF Lists, ListAccess
      <4>2. CASE access \in {ByIdAccess(role) : role \in Granted}
        BY <4>2, WhoAsks DEF ByIdAccess
      <4>3. QED BY <2>1, <4>1, <4>2 DEF Targeted
    <3>2. QED BY <3>1, TargetedReadsFollow
  <2>2. ASSUME NEW access \in Owned, NEW program
        PROVE  /\ \A event :
                    SelectReports(access, program, event) = ListReports(access, program, event)
               /\ \A objects \in AnyOf(Watched) :
                    SelectSubscriptions(access, program, objects)
                      = ListSubscriptions(access, program, objects)
    <3>1. PICK role \in Roles : access = ListAccess(role, {}) BY DEF Owned
    <3>2. QED BY <3>1, WhoAsks, OwnedReadsFollow
  <2>3. ASSUME NEW access \in Lists(Roles)
        PROVE  /\ SelectVens(access) = ListVens(access)
               /\ \A ven : SelectResources(access, ven) = ListResources(access, ven)
    <3>1. PICK role \in Roles, some \in AnyOf(Targets) : access = ListAccess(role, some)
      BY DEF Lists
    <3>2. QED BY <3>1, WhoAsks, RequestedReadsFollow
  <2>4. QED BY <2>1, <2>2, <2>3, GrantsFollow DEF ReadsFollowTheDocuments
<1>4. QED BY <1>1, <1>2, <1>3, PTL DEF Spec

=============================================================================

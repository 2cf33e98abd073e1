# A verification development for openadr

TLA+ modules, TLC configurations and TLAPS proofs for this repository: an OpenADR 3 server (VTN),
client library (VEN) and domain core in Rust. Paths are relative to the repository's `src/`
directory of sources unless they name a `.tla` or `.cfg` file of this one.

```
tlc -workers 2 -config ProgramStore.cfg MCProgramStore     a run
tlapm ProgramStoreProofs.tla                               the proofs of a module
```

`PROJECT.json` lists the runs, the lines of code each definition stands for, the hazards the
properties are aimed at, and for every property a slip of the kind a change to the code could make
(`Lease_WithoutSlack`, `RefreshIn_Lifetime`, ...) under which TLC finds the property violated.

## 1. The system

```
                 broker (MQTT) ◀───────────────────────────────────────────────── publish ──┐
                   │ hint                                                                   │
   VEN loop ◀──────┘                                                                        │
     │ client (token, ETag, pages)                                                          │
     └──HTTP──▶ layers ─▶ auth ─▶ api/* ──read, snapshot──▶ Storage ◀──claim, record── Dispatcher ──▶ webhook
   business logic                  └───write + Fanout────▶ (memory, SQLite, Postgres)       ▲
                                                             ▲    ▲                         │ breaker
                                            Retention ───────┘    └── operator: /admin/outbox/retry
```

| component | state it keeps | operations | how it meets the others |
|---|---|---|---|
| outbox (`vtn/store/outbox.rs`, `store/*`) | rows with attempts, due time, dead mark; health of each subscription | push, `claim_due`, `complete`, `record_failure`, `revive_dead`, `note_delivery` | rows are pushed in the transaction of the change they announce; dispatchers claim them |
| dispatcher (`vtn/dispatch.rs`) | the batch it holds, its attempts in flight | `dispatch_once`, `attempt`, `note`, `run` | several over one storage; transports answer within a timeout |
| MQTT publisher (`vtn/notify/mqtt.rs`) | one connection, one lock, what each publish has heard | `publish`, `wait_for`, `run_event_loop` | deliveries of a batch share it |
| webhooks (`vtn/notify/{webhook,callback}.rs`, `webhook.rs`) | none; the receiver's secret | challenge, `resolve`, post, `verify` | called by the dispatcher and by POST /subscriptions |
| fan-out (`vtn/notify/mod.rs`, `api/mod.rs::snapshot`) | a snapshot per request | `snapshot`, `deliveries`, topic names | taken before the write, evaluated inside it |
| object privacy (`core/privacy.rs`) | none | accesses, filter, targets shown, ownership | used by reads, by SQL, and by the fan-out |
| object storage (`vtn/store/{mod,memory,sqlite,postgres,sql}.rs`) | programmes, events, reports, subscriptions, VENs, resources, kinds of subscription owners | create, update, delete, list and get of each, grants, purge | cascades announce what they take |
| API handlers and layers (`vtn/api/*.rs`, `vtn/{mod,error,etag}.rs`) | the request in progress | authorise, check, write, answer | await between a read and the write that rests on it |
| broker ACL (`vtn/api/{broker,notifiers}.rs`) | none | names topics, answers the broker | the other half of object privacy |
| retention (`vtn/retention.rs`) | asleep or sweeping | `sweep_once`, `sweep`, `run` | deletes reports, silently |
| domain core (`core/{timeline,interval,report}.rs`) | none | expansion of intervals, merging of timelines, reporting schedules, aggregation | pure; the VEN acts on it |
| values and schema (`model/*`, `schema/mod.rs`) | none | JSON, equality, check against the payload table | in front of every write |
| VEN runtime (`ven/{mod,push}.rs`) | events held, timelines, reported keys, saved state, MQTT session | register, poll, act, report, sleep, hear | HTTP and pushed hints |
| HTTP client (`client.rs`) | token cache, ETags | `access_token`, conditional reads, `list_all`, retry | under the VEN and under applications |
| authentication (`vtn/auth/*`) | key-set cache, signing key, verification permits | issue, verify, `key_for`, `refresh` | in front of every handler |
| discovery, conformance suite, CLI, `xtask`, TLS, metrics, OpenAPI | | | I/O, assembly, tools: not modelled |

What is hard in it:

* **Concurrency without a common lock.** Several dispatchers share a queue by leases alone; a
  handler awaits between authorising a request and writing; Postgres runs at READ COMMITTED; publishes
  share one MQTT connection whose events carry no name of theirs; tasks share one token.
* **Crashes, lost records, stalls.** A delivery and its record are two steps; either party can die
  between them, a storage call can fail, and a batch can outlive its lease. A VEN files a report and
  writes its state in two steps.
* **Derived decisions.** Who may see an object is decided by a predicate rendered in SQL, by one
  evaluated on the fan-out path, by a third that says which targets to show and by a fourth that
  answers the broker. They must agree.
* **Cascades.** A deletion takes rows no request named, and each must be announced to whoever was
  told of it.
* **Time.** Back-off, cool-down, leases, retention, token lifetimes, key-set windows, schedules that
  loop for ever, clocks that are wrong.

What makes each component correct is stated with its module below.

## 2. The modules

```
 OutboxOps ── Dispatcher ── AtLeastOnce (refined)        Intervals ─┬─ Timelines ────────┬─ Schedules
     └── SqlOutbox ── SqlTransactions                               └─ ReportSchedules ──┴─ VenRuntime
 ObjectPrivacy ─┬─ Fanout ─┬─ PrivacyView ── Reads ── Broker        Documents ─┬─ Requests
                │          └─ ProgramStore ── ObjectTables          Callbacks ─┘
                └─ SqlStore ── SqlReads                             KeyCache ── Sessions
 ObjectTables ── VenStore ─┬─ PrivacyView                           MqttPublisher
                           └─ WritePath
```

An `MC` module has what one or more configurations share: definitions of constants and symmetry. Each
run finishes in minutes with two workers.

| run | states | properties |
|---|---|---|
| `DispatcherTimely` | 3 894 740 | `ClaimsDisjoint`, `AbandonmentsCountedOnce`, `GivesUpOnlyWhenSpent` |
| `DispatcherLive` | 346 892 | `NothingLost`, `KeepsContract`, `EverySettles` |
| `PrivacyRule` | 2 379 | `TablesSound`, `HeardIsStored`, `IntersectionRule`, `PathsAgree`, `OwnedReachesItsOwner`, `ListsMatchReads`, `HiddenLooksMissing`, `TopicsCarryWhatTheySay`, `ConcealsOtherGroups` |
| `WritePath` | 2 443 119 | `NeverSelfGranted` |
| `ProgramStore` | 258 114 | `ReferencesHold`, `ToldOfTheEnd`, `PurgesFromTheFarEnd`, `ExpiredGo` |
| `Schedules` | 64 162 | `WindowIsExact`, `PriorityRules`, `ReportsAddUp` |
| `VenRuntime` | 283 160 | `HoldsWhatWasServed`, `ActsOnTheSchedule`, `NoChangeIsSleptThrough`, `OnlyFaultsRepeat`, `EveryWriteIsRead` |
| `Sessions` | 4 877 144 | `NoneExpires`, `KeysFollowRotation`, `FetchesAreSpaced` |
| `SqlStore` | 108 668 | `ReadsFollowTheDocuments`, `TimesNameContents`, `WhatGoesIsAnnounced` |
| `SqlOutbox` | 1 640 553 | `OneWarningForAnOutage`, `CallsTakeEffectAtOnce` |
| `Requests` | 187 731 | `ErrorsExplainThemselves`, `AnswersTellTheTruth`, `NothingUncheckedIsStored`, `PostsStayPublic` |
| `MqttConfirms` | **violated** | `ConfirmedIsReceived` |

### Notifications: `OutboxOps`, `Dispatcher`, `AtLeastOnce`, `DispatcherProofs`

`OutboxOps` has the queue and the health of subscriptions as values, one operator per storage call,
with the arithmetic of lease, back-off and breaker. `Dispatcher` says when each is called: a handler
snapshots (`Snapshot`), commits or rolls back (`Commit`, `Rollback`); a dispatcher claims (`Claim`),
starts attempts up to its concurrency (`Begin`), gets an answer or times out (`Answer`), records
(`RecordSuccess`, `RecordRefusal`) and moves the breaker (`Note`); the operator's retry is two calls
(`ReviveBacklog`, `RestoreSubscribers`). Every storage call is a step of its own because the code
awaits it, and `Crash` or a storage error may come between any two. Two things happen inside a step:
the claim reads the clock before it awaits storage, and that delay is charged to the slack instead;
and `note_delivery`'s read and write are one storage call, as in the memory backend (`SqlOutbox` has
them apart).

Time is `left` and `age` counters in the rows and jobs, moved by `Tick`. `Tick` does not pass an
overdue step (a timeout to take, an outcome to record) unless it spends `MaxSlack`.

`AtLeastOnce` is the contract: a notification is unannounced, pending, given up on or settled, it is
settled only after its receiver took it, and then never comes back. `KeepsContract` is the refinement
with the ledger read off the queue.

* `DispatcherTimely`: two dispatchers, a subscription and a topic, batches in two waves (a batch of two
  at a concurrency of one), one late tick, one fault, the operator. The derived lease
  (`DispatchConfig::lease`) keeps entries disjoint (`ClaimsDisjoint`), a row is given up on only when
  spent or refused, and stays so until the operator says otherwise (`GivesUpOnlyWhenSpent`), and the
  breaker counts each once (`AbandonmentsCountedOnce`).
* `DispatcherLive`: leases that run out under their holders, a crash, a breaker that trips. Nothing
  committed is lost, the contract is kept, every entry settles.

The bounds: two dispatchers are what a disagreement about a lease needs; two rows at a concurrency of
one are the least with a second wave, where the lease is longest; two attempts the least with a retry
and a last one. Slack below one `attempt_timeout` is the budget the lease adds (`dispatch.rs:84`),
slack above it (`DispatcherLive`) is a lease that runs out.

Fairness (`FairSpec`): `Tick` and every dispatcher's `Dispatch` steps are weakly fair. `run` is a loop
that goes on after any error, every delivery is under a timeout, and the process is restarted; faults
are bounded, so the loop is not killed for ever. Nothing is assumed of receivers, writers or the
operator.

Worth knowing:

* The lease is truncated to whole seconds (`memory.rs:1057`). The runs take `attempt_timeout` to be a
  whole number of them; with `Second = 4` and a timeout of one tick, `ClaimsDisjoint` fails at once.
* `record_failure` does not ask who holds the claim (`memory.rs:1107`): when a lease has run out under
  its holder, a late refusal is recorded on a row another dispatcher holds or has given up on, and two
  dispatchers may abandon one notification and count it twice.
* The half-open breaker lets more than one notification through (`api/mod.rs:641`): each handler
  reads the health before any delivery has been noted.
* The attempt number a receiver is given repeats after a record was lost: it says which attempt the
  sender believes it makes, and cannot tell redeliveries apart.

### The SQL outbox: `SqlTransactions`, `SqlOutbox`, `SqlOutboxProofs`

`SqlTransactions` is what `sqlite.rs` and `postgres.rs` rely on: SQLite's single writer and its
snapshots that go stale, PostgreSQL's READ COMMITTED with row locks and statements that run afresh
after a wait, foreign keys. Both databases are external; a waiting PostgreSQL statement is modelled
as not having begun. `SqlOutbox` has each outbox call as its transaction of one or two statements,
on either database, with another connection's statements in between; `Tick` moves the clock
between calls, since a due time is computed before a call and not during it.

* `CallsTakeEffectAtOnce`: a call that commits has done to the rows, as they then are, what `OutboxOps`
  says it does as one step. This is what lets `Dispatcher` treat a call as a step on every backend.
* `OneWarningForAnOutage`: whoever an operator reads is cut off was warned of, once
  (`sqlite.rs:2053`).

Two connections, two subscribers, queues of two entries and one that is pushed, a subscriber that is
healthy, about to be cut off, or on trial; four calls, which is two on each connection. One of them may
be an entry given up on, and SKIP LOCKED has an entry to skip. No deadlock is checked: all calls have
been made.

Worth knowing: on PostgreSQL a call is one step on the rows it may touch, which need not be all it is
about. A claim and a revival pass over rows others hold, and `clear_subscriber_health` over a first
failure that is being counted, whose row is not there to wait for: the operator's retry leaves that
subscriber a failure the count of which it meant to reset. `CallsTakeEffectAtOnce` allows
for both (`PassedOver`).

### Privacy and fan-out: `ObjectPrivacy`, `Fanout`, `PrivacyView`, `PrivacyProofs`

`ObjectPrivacy` is `core/privacy.rs`: accesses (list, by id, push), the filter a backend renders
(`TargetFilter`, `FilterAdmits`), what is shown (`VisibleTargets`), ownership. `Fanout` is
`Fanout::deliveries`: the subscriptions and topics that hear of an object and the targets each is
shown. `PrivacyView` puts them over the tables of `VenStore`, whose grants move while one event is
retargeted.

* `IntersectionRule`: a read shows exactly requested ∩ granted ∩ carried.
* `PathsAgree`: reads, webhooks and topics show the same.
* `ConcealsOtherGroups`: targets a client was not granted come and go unnoticed.
* `OwnedReachesItsOwner` (an action property): whatever a step creates, updates, moves or deletes, and
  whatever a cascade takes, each VEN, resource and report is announced, on the snapshot taken *before* the
  write, to business logic, to exactly its owner's webhooks and to the topic of exactly its owner's VEN.
  Two writes are excepted and named (`VenWritesReach`): the creation of a VEN, and an update that gives it to
  another client, which no VEN's topic carries.

Two clients, two targets and all subsets are enough for every combination of named, granted and
carried that the rule tells apart; the theorems have it for all.

Worth knowing:

* A write to a VEN takes its snapshot for the *new* client and before the write (`vens.rs:57`, `:101`,
  `api/mod.rs:685`), and `get_ven_by_client` finds nothing for a client that has no VEN yet. So neither a
  creation nor a PUT that gives a VEN to another client is published to any VEN's topic, not even to that
  VEN's own `vens/{id}/update`; `notifiers.rs:192-193` says so of the creation only. In both the webhooks
  of the new client hear of it; the previous client hears nothing, on either. A resource that moves
  is likewise told to the client of its new VEN alone.
* The *object* nested in a notification carries its whole list of targets (`notify/mod.rs:534`), against
  what `model/notification.rs:96` says of the `targets` beside it.
* A failed read of the grants is an empty list of them (`api/mod.rs:680`): the write succeeds, and no
  VEN is told by its grants.

### Reads and topics: `Reads`, `Broker`, `PrivacyProofs`

`Reads` is every GET and list of the API and the refusals of its writes, for any scopes, over the
tables of `PrivacyView` with a few objects of each kind beside them. `Broker` is the names of topics,
what `/notifiers/mqtt/topics/*` tells a client, and what `api/broker.rs` answers the broker, with the
wildcards of MQTT. All run in `PrivacyRule`.

* `ListsMatchReads`: a collection holds exactly what its objects' own addresses answer with.
* `HiddenLooksMissing`: what is hidden from a client looks as if it were not there, to read, replace
  and delete, in whichever order a handler asks for scope, object, owner, role and transport.
* `TopicsCarryWhatTheySay`: a VEN let subscribe to a filter overhears nothing it may not read, and a
  topic it is told of is one that is published to and that it may subscribe to.

Worth knowing:

* `GET /notifiers/mqtt/topics/programs/{id}` (`notifiers.rs:138-156`) names `programs/{id}/update`,
  `.../delete` and `.../+`; `mqtt_deliveries` (`notify/mod.rs:611-670`) never publishes there. A client
  that follows the answer waits for ever. `TopicsCarryWhatTheySay` leaves that endpoint out.
* The broker asks at subscribe time only: a subscription outlives the VEN, or the client that had it.
  The ACL does not look at scopes, so `broker.rs`'s "a VEN can never subscribe to a topic it could not
  have discovered" is not so for one that lacks the scope to ask; and business logic is told of topics
  of a VEN which the ACL refuses to names that do not own it.
* POST /reports and /subscriptions check references against what exists, not what the caller sees.
* A list reads the grant before the objects, a read by id after: a grant that changes in between is
  answered by one and not by the other. `Reads` takes a grant and its objects at one moment.

### VENs and resources: `ObjectTables`, `VenStore`, `PrivacyProofs`

The tables of `store/memory.rs`, a write and everything it announces in one step, since the lock is
held throughout. `heard` is what a subscriber to every change makes of the notifications.
`ClientIsUnique` says whether the client id is a unique column, as in both SQL backends.

* `TablesSound`: no resource refers to a VEN that is gone, names are unique, and, where the column is,
  so is the client of a VEN.
* `HeardIsStored`: what a subscriber to every change has been told is what is stored.

Worth knowing: the memory backend does not check the client id in `update_ven`, so two VENs may have
one client (`memory.rs:823`, against `memory.rs:773` and `suite.rs:246`).

### Concurrent requests: `WritePath`, `PrivacyProofs`

The handlers of `/vens` and `/resources` between their awaits: read, authorise, build, write. The
memory backend's call is one step; an SQL call reads the row first and changes it in a transaction
begun later, and in Postgres others commit between the list of what a deletion takes and the deletion
itself. A POST that reads nothing is one step.

* `NeverSelfGranted`: no object carries a target business logic did not write on it.

Two requests at once are what a race needs; a third would only repeat one of the two roles. `VIEW`
leaves out `heard` for the SQL backends, where no invariant of the run is about it, and no next-state
guard reads it.

Worth knowing:

* **Lost grants.** A VEN's PUT stores the targets of the object it read before it awaited the fan-out
  snapshot, and the write replaces the whole object (`vens.rs:163`, `resources.rs:174`). A PUT of
  business logic in between is undone: a grant made is lost and a grant revoked returns, against
  "whatever was granted stays granted" (`vens.rs:161`).
* An SQL update of a row deleted after it was read changes nothing, is announced, and answers with
  success (`sqlite.rs:1554`).

### Programmes, events, reports, subscriptions, retention: `ProgramStore`, `ProgramStoreProofs`

The other tables of `store/memory.rs` with their references and cascades, the owner kinds kept beside
subscriptions, and the sweep of `retention.rs`. `told` is what each subscriber was told of and not yet
told the end of, computed by `Fanout` from the snapshot that `announces` narrows by type.

* `ReferencesHold`: nothing refers to what is gone; programme names are unique.
* `ToldOfTheEnd`: no subscriber is left "holding an event that no longer exists and no way to find
  out" (`memory.rs:326`). Two exceptions are named in the property: reports that age out, by design,
  and, for a subscription scoped to one programme, **an event or subscription that changed programmes**:
  its update is announced to the new programme's subscribers only, and so is its deletion. The second
  is a gap in the code.
* `PurgesFromTheFarEnd`: retention takes expired reports only, the oldest first, a batch at most.
* `ExpiredGo`: everything that expired goes, though purges fail.

The bounds: any four objects of at most two of each kind, which is a programme, an event, a report and
a subscription, or two of the same parent; one subscription to everything and one to reports alone,
which hears of a deleted programme for its cascade only; two expiry times and batches of one, so that
a backlog takes several. Fairness (`Spec`): the sleeper wakes (`WF`), and a sweep that is tried again
and again is not failed every time (`SF`); a failed purge ends the sweep, so weak fairness would say
nothing. A batch of zero never ends a sweep (`retention.rs:147`): `ProgramStoreAssumption` excludes it,
as the CLI's default of 1000 does; the public `RetentionConfig` does not.

### The SQL stores: `SqlStore`, `SqlReads`, `SqlStoreProofs`

An operation reads the object on the pool and then runs a transaction, whose statements in their order
are a script; the two files write the same script, on databases that interleave them differently.
`SqlReads` has every list, grant and fan-out query as what it computes from rows, beside what the memory
backend computes from documents. `References` are the foreign keys of the schema; the object each operation
starts from (`Initial`) is assumed to be what an earlier write of the same store left, with its parents
there. Names, pages and a VEN given to another client are left out.

* `ReadsFollowTheDocuments`: the two agree for whoever asks, whatever writes overlapped.
* `TimesNameContents`: a modification time seen again stands for the same content.
* `WhatGoesIsAnnounced`: a cascade is announced as a whole, on SQLite.

Two writers of one operation each on one object of every kind and a second programme; every operation
may be rolled back at any point. On PostgreSQL an event inserted while its programme is deleted is
taken by the foreign key and announced to nobody (`postgres.rs:1801`), which `WhatGoesIsAnnounced` names
by being about SQLite. Also: a write that overlaps a cascade may leave rows of `object_target` behind
(the test at `sqlite.rs:2318` asserts there are none after a cascade alone; no read returns them);
`modified_at` may move backwards; ids may commit out of order in PostgreSQL, so a page by offset can skip or repeat an object
(`client.rs:904`, against `store/mod.rs:148`); a SQLite DELETE that read its subscribers first fails as
busy when another has written.

### Requests: `Documents`, `Callbacks`, `Requests`, `RequestsProofs`

One request from the typed client through the layers, extractors, handlers and store and back.
`Documents` has values, JSON, the payload table and the check against it, and constrained strings;
`Callbacks` where a webhook may go, its challenge, its signature and its receiver. A handler is the
sequence of its checks; checks that wait for nothing are one step (`Check`), and where it waits
others write (`Touch`, `Rebind`), DNS changes, the deadline passes (`TimeOut`) or the client goes away
(`Lose`). `config.transport` is the webhook's policy and `config.callbacks` the API's, since the code
lets them differ (`webhook.rs:42` says they are the same).

* `ErrorsExplainThemselves`: every error carries a problem that says what it is, with one exception
  below.
* `AnswersTellTheTruth`: what the client concludes from an answer is so: a write it has an object for was
  made once, a refused one was not, and what a read shows, its absence (404) and its being unchanged
  (304) were true of what the caller may see at some moment since it asked.
* `NothingUncheckedIsStored`: under the strict policy nothing that fails a check is stored, by any path.
* `PostsStayPublic`: under the strict policy a socket is opened to no address that is off the public
  internet, but for those `is_private` misses (`Missed`, below), whatever a name resolves to by then; and
  a receiver accepts a post if and only if it is signed with its key, fresh and whole. What is off the
  public internet (`Inside`) is not the code's list: it is the blocks that the registries of RFC 6890 mark
  as not global, multicast and site-local, and the IPv6 forms that carry such an IPv4 address.

`MaxSteps = 2` leaves a call and one change beside it, in three configurations (strict, lenient, without
webhooks), with some sixty calls each wrong in at most one way. Deadlock is not checked because the
bound stops it. HMAC is perfect. Left out: the retry handler, adapters, the raw exchange. A DELETE of a
programme or event awaits the fan-out before it parses its id, which changes nothing.

Worth knowing:

* **A bare 500.** Under the strict policy a 400 whose joined violations exceed 64 KiB cannot be read
  back by `problem_responses` (`api/mod.rs:1029`), which answers a 500 without a body: against D-104,
  every error a problem. `ErrorsExplainThemselves` excuses it by name (`TooLong`).
* **What `is_private` misses.** `callback.rs:111` says that it covers "anything not reachable from the
  public internet". It lets pass 0.0.0.0/8 beyond 0.0.0.0 itself, 64:ff9b:1::/48, 100::/64 and
  100:0:0:1::/64, 2001::/23 (Teredo among it), 3fff::/20, 5f00::/16, fec0::/10, and 2002::/16 (6to4)
  whatever IPv4 address it carries. `Missed` names these and no others.
* A callback URL that already has an `echo` parameter never passes the challenge with the crate's own
  `echo_challenge`, which takes the first.
* A target with outer spaces is legal (`ids.rs`), but `Params::all` (`api/mod.rs:229`) trims; a blank
  `?targets=` vanishes, and the filter with it.
* `Integer(1)` equals `Number(1.0)`, so a PUT of one over the other changes nothing, but the schema
  refuses `1.0` where it wants an integer.
* `try_get` (`client.rs:974`) takes any 404 as "does not exist", one from a wrong base path too. A 504
  after the SQL commit does not mean that nothing was stored. A challenge that failed for the moment is
  answered with 400.

### Tokens: `KeyCache`, `Sessions`, `SessionsProofs`

Tasks that share a cached token, a VTN that signs for itself (with a key it was given or made up) or
checks against an authorization server whose keys rotate, are withdrawn and are fetched; outages,
restarts, requests that are cut off, verifications that run on without their request.

* `NoneExpires`: "refreshed early so a request never races the expiry" (`client.rs:131`).
* `FetchesAreSpaced`: no stream of unknown keys makes one task fetch twice within
  `min_refresh_interval`. (Two tasks that miss at once may both fetch: the lookup's lock is released
  first.)
* `KeysFollowRotation`: a withdrawn key is honoured for `refresh_after` and the fetch at most; a published
  one is refused only while the rate limit keeps the VTN from asking.

`NoneExpires` holds if what renewal leaves of a token's lifetime, a tenth, covers two exchanges, with
what leeway there is: `RenewalLeavesTime` in `SessionsProofs`. With a TTL of 4 the instance is at the
edge of it (2·1 + 3 ≤ 4 + 0 + 1). Two tasks race for the cache; two keys rotate once; the clock runs past
a token's life, a refresh and a withdrawal.

Worth knowing: an outage of the key server is a 401 (`jwt.rs:208`, against the comment at 199); a client
keeps a token that was refused (`client.rs:470`, against `internal.rs:18` which expects a restart with a
new key to be noticed), so after such a restart it fails until the token is due; while a refresh is in
flight a stale key that is held is honoured (`jwt.rs:187`).

### Schedules: `Intervals`, `Timelines`, `ReportSchedules`, `Schedules`

The pure algorithms of `core/` as functions, against definitions a reader can check by eye (a walk over
every index, a rule per instant, a filter over every report) that `Schedules` states of any `Inputs`. A
loop of the code that carries a value along (the cursor of a pass, the pieces of a claim not yet taken,
the segments laid down) is a function from the number of its turns.

* `WindowIsExact`: a window has every interval that overlaps it and no other, and the pieces of an
  interval cover it without gap or overlap.
* `PriorityRules`: at every instant the one in force is asked for by an event no other asking precedes;
  a VEN may sleep until the next change.
* `ReportsAddUp`: the reports of a window are those of the whole schedule that are due in it, and
  aggregation loses and invents no reading.

All shapes of one event (inherited and stated timing, now, for ever, out of order, cut, looping), three
events that compete, one event and every descriptor, one and two and some triples of meters; eight
instants from which a window of four slides past. Calendar units are the ticks they span;
`randomizeStart`, only carried along, is left out, and so are the clashes that
`overlaps_at_equal_priority` lists, which nothing in `src/` reads (it names the first rival only).
The run's `MaxReports` and `MaxCovered` of 25 are more than any of its windows holds.

Worth knowing: what `ReportsAddUp` says of reports it says of events in time order only. Of an event
that lists its intervals out of order the walk stops at the first report due after the window
(`report.rs:243`), and one listed after that but due before it is late, or lost once it is older than
`report_catchup`; the comment at 226 grants its own stop "at most the tail of a truncated event". And
of a schedule with more than `max_reports` in a window only the first are returned, as the code says
at 119-121. Where an interval inside a report's range
has an instant that no timestamp can represent, the code drops the report (`report.rs:278`) and `Collect`
cuts it short there: a difference at the end of time only, which no input of the run reaches.

### The VEN: `VenRuntime`, `VenRuntimeProofs`

`ven/mod.rs`'s loop of register, poll, act, report, sleep, with `ven/push.rs`'s MQTT session, against a
VTN whose events change and whose clock may not be the VEN's. The process exits on an error, as the loop
of `examples/ven.rs` does, and starts again from its saved state; answers are lost, connections drop,
pages are read one by one.

* `HoldsWhatWasServed`: no 304 hides a change, not even one on a later page.
* `ActsOnTheSchedule`: what it acts on is what its events call for then, however old the timeline.
* `NoChangeIsSleptThrough`: a VEN asleep misses no change of its schedule.
* `OnlyFaultsRepeat`: a report is filed twice only when its answer was lost, the process ended before it
  wrote, or its event came back.
* `EveryWriteIsRead`: a write that the broker holds a message of, or that was made before a (re)connection
  is accepted, is asked for without the clock having to move, unless the broker refuses the connection
  for good: no message that comes while the VEN is busy is lost. Any other write is asked for at the
  next poll, and this half needs no broker at all.

A looping tariff reported on, a curtailment "now" and an event of two intervals; one edit, one fault; a
page of two against three events. The clock starts at 2, so that a VEN's that is behind reads no negative
instant, and runs to 7: further than a timeline reaches. Fairness, each weak: the loop proceeds, and
wakes when it is due or hears, being one task of a runtime; time passes while it sleeps; a broker that
takes the token lets the VEN in, takes its SUBSCRIBE and delivers, since rumqttc's event loop retries. A
connection that fails, a broker that forgets the session and a token that is no longer taken are faults.

Worth knowing:

* **The last report is never on offer.** `due_reports` reads active events only (`ven/mod.rs:683`), and
  an event ends at the instant its last report falls due (`core/report.rs:240`), so that report is never
  offered, though `ven/mod.rs:145` says one stays on offer until it is filed.
* A timeline skips an event with more than `Limit` intervals in its window (`core/timeline.rs:96`,
  `core/interval.rs:241`), and a window slides: the same event may be in one timeline and not in the next.
  With a `Limit` of 4 TLC finds `ActsOnTheSchedule` violated so; the run has 50, which nothing reaches.
* An updated event keeps the keys reported of its old schedule; "now" is anchored at the VEN's time of
  first sight (`ven/mod.rs:632`), at the VTN's by the VTN.
* **A VEN can be deaf and not know.** The wake at ConnAck (`push.rs:296-300`) comes before the queued
  SUBSCRIBE (`:199-206`) is sent, and its SUBACK wakes nobody: a write between the read that follows and
  the SUBACK waits for the poll. `session_present` is never read and nothing subscribes again, so if
  the broker forgets the session, or queued requests go with a connection, every later write waits for
  the poll until the process restarts. A reconnection uses the token the session began with (`:195`): once
  that has expired a broker that verifies it (`api/broker.rs`) refuses every attempt (`barred`).

### Publishing: `MqttPublisher`

`publish` hands a packet to the client, takes the first `Sent` it hears for its identifier, and waits
for that identifier's acknowledgement; a lock is held until the identifier is known. QoS 0, receivers
that lag behind the broadcast, a full queue and lost connections are in the model; rumqttc and the
broker are external.

`MqttConfirms` is **violated**: a publish that times out while the broker is away leaves its packet
queued and releases the lock; the next publish hears that packet's `Sent` and PUBACK for its own, and
its outbox row is removed before its notification was written (`mqtt.rs:244`, against 15 and 177). Two
publishes are enough. Without timeouts and lost connections the property holds (three publishes, 5 627
states); with one lost connection and no timeout it fails too, since what was not acknowledged is sent
again. No deadlock is checked there: every publish ends.

The other configurations that say `CHECK_DEADLOCK FALSE` are those whose ids are all handed out, whose
clock stands still or whose calls are all made: a server nobody calls.

## 3. What is proved

For every value of the constants, from the named `ASSUME`s of the modules:

| module | theorem | property |
|---|---|---|
| `DispatcherProofs` | `TypeCorrect` | the type invariant |
| | `NoNotificationLost` | `NothingLost` |
| | `QueueKeepsContract` | `KeepsContract`, the refinement of `AtLeastOnce` |
| | `LeasesKeepClaimsApart` | `ClaimsDisjoint` |
| | `OnlySpentRowsAreGivenUp` | `GivesUpOnlyWhenSpent` |
| | `BreakerCountsOnce` | `AbandonmentsCountedOnce` |
| `SqlOutboxProofs` | `OutagesAreWarnedOfOnce` | `OneWarningForAnOutage` |
| | `CallsAreOneStep` | `CallsTakeEffectAtOnce` |
| `PrivacyProofs` | `StoreTyped`, `TablesStaySound`, `EverythingIsHeard` | the type invariant, `TablesSound`, `HeardIsStored` |
| | `ReadsAreTheIntersection`, `ReadsAndTransportsAgree`, `OtherGroupsAreConcealed` | `IntersectionRule`, `PathsAgree`, `ConcealsOtherGroups` |
| | `OwnedIsAnnouncedToItsOwner` | `OwnedReachesItsOwner` |
| | `ListsAgreeWithReads`, `HiddenIsMissing` | `ListsMatchReads`, `HiddenLooksMissing` |
| | `TopicsAreTrue` | `TopicsCarryWhatTheySay` |
| | `NobodyGrantsItself` | `NeverSelfGranted` |
| `ProgramStoreProofs` | `ReferencesAreKept`, `EndsAreTold` | `ReferencesHold`, `ToldOfTheEnd` |
| | `OldestGoFirst` | `PurgesFromTheFarEnd` |
| `SessionsProofs` | `FetchesStaySpaced`, `RenewedInTime`, `RotationIsFollowed` | `FetchesAreSpaced`, `NoneExpires`, `KeysFollowRotation` |
| `SqlStoreProofs` | `TypeCorrect` | the type invariant |
| | `ReadsFollow` | `ReadsFollowTheDocuments` |
| | `OneContentForATime` | `TimesNameContents` |
| | `CascadesAreAnnounced` | `WhatGoesIsAnnounced` |
| `RequestsProofs` | `NothingStoredUnchecked` | `NothingUncheckedIsStored` |
| | `ErrorsExplained`, `ClientsToldTheTruth` | `ErrorsExplainThemselves`, `AnswersTellTheTruth` |
| | `CallbacksArePublic` | `PostsStayPublic` |
| `VenRuntimeProofs` | `WindowsAreExact` | `WindowIsExact` |
| | `PriorityResolves` | `PriorityRules` |
| | `ReportsAreComplete` | of `ReportsAddUp`, what it says of report windows |
| | `ServedIsHeld` | `HoldsWhatWasServed` |
| | `RepeatsAreExcused` | `OnlyFaultsRepeat` |
| | `ActsOnTime` | `ActsOnTheSchedule` |
| | `NothingIsSleptThrough` | `NoChangeIsSleptThrough` |

Both outbox modules begin with the lemmas on `OutboxOps`' operators that they need. `PrivacyProofs`
has a part for each of `VenStore`, `PrivacyView`, `Reads`, `Broker` and `WritePath`, in that order.

* **Dispatcher.** `NothingLost` is not inductive: a `complete` removes a row, and it must have been
  taken. The strengthening adds `DeliveredTaken`, that what a dispatcher believes it delivered, its
  receiver took. The refinement rests on both: a row leaves the queue only settled.
* **The lease.** A batch is worked off in waves of one attempt each, so its entries are touched until
  `Waves` timeouts after the claim, and the lease is a timeout longer (`dispatch.rs:74-87`). `LeaseInv`
  turns this into a sum that every step keeps: what is left of a claimed row's lease is at least what
  the jobs before it in the batch and its own attempt may still take, with what is left of the slack,
  hence positive while anybody holds it; and so a `claim_due` never finds it due. The hypothesis is
  `StallsFitTheLease`: the waves' timeouts and the slack are shorter than the lease *in the whole
  seconds* `claim_due` cuts it to (`memory.rs:1057`). `WholeSecondTimeouts` derives it from a timeout of
  whole seconds, as configured in seconds, and stalls of less than one timeout. The other two follow:
  with one holder for a row, the attempts a dispatcher remembers are the row's (so only a spent or
  refused one is given up on), and one row is counted against its subscriber by one `note_delivery`.
* **SQL outbox.** `CallsInv`: what a transaction has written still fits the rows as committed. On
  PostgreSQL that is because the rows it touched are locked (`LocksKeep`) and two transactions hold
  different ones (`Apart`); on SQLite because whoever writes is alone, and one whose snapshot is
  outdated writes no more (`OutdatedFits`). Then a commit is the call as one step, for the queue
  (`OutboxIsOneStep`) and for the health records (`HealthIsOneStep`), call by call. `WarnedInv` is that
  exactly those who are cut off were warned of.
* **VenStore.** `Sound` is the conjunction of the properties with the tables' types. `VensAreMinted`, that
  ids in use are at most those minted, is an invariant of its own.
* **PrivacyView.** The rules are about every grant and every event, not only reachable ones, so they
  follow from lemmas on the operators.
* **ProgramStore.** `ToldOfTheEnd` says that what was told is there; a step needs that it would still
  be *told the end*, so `AllFine` has that the subscription still `Hears` the object as stored.
  `Kinds` says that the owner kind recorded beside a subscription is its owner's, without which the
  fan-out would read it as a VEN's; `Minted` that ids are fresh. `WhoIsTold` reduces the fan-out to
  `Hears`, and `HeardIsFine` is the step all writes share.
* **Retention.** That a purge begins at the far end needs that none is left behind that is older than
  one taken. `RanksFollowAge` and `ABatchAtMost` say that no two reports have one rank by age and id, so
  the ranks below the batch size are at most a batch of reports, and `TheRestIsYounger` that whatever is
  left ranks behind. `PurgeInv` adds that what was purged is not there and that its id is not minted
  again.
* **WritePath.** `NeverSelfGranted` is about the tables, and a write stores what its request built
  steps ago. `RequestsOK` has the same of the requests: what one read of a resource, and what a VEN
  built, carries no more than business logic gave that very object, and what was given only grows.
* **Ownership and reads.** `OwnedReachesItsOwner` is about a step and the tables before it. It needs
  `Sound` of them, so that a resource names a VEN that is there, `VensAreMinted`, so that a VEN being
  created is not among them, and the hypothesis `ClientIsUnique`, so that the one VEN the snapshot looks
  up (`get_ven_by_client`) is all its owner has. `ListsMatchReads` needs of a state only that the event's
  targets are targets: `AdmittedByOne` says that a read by id admits what a list naming nothing or a
  list naming everything admits, and shows it alike, whatever the grant is, none included.
  `HiddenLooksMissing` needs the tables' ids, and that what stands for no programme is not 0,
  which stands for the id of nothing.
* **Topics.** `TopicsAreTrue` takes a topic apart into its segments: an announcement is addressed
  (`Addressed`) to those whose scope it names, a filter that a VEN is allowed begins with the VEN's own
  scope, wherever it has wildcards, and two topics match only if their segments do; so it catches
  announcements of what the VEN owns or is granted. The other half follows each topic an endpoint names,
  that of one programme (`programs/{id}`) excepted, to the announcement that is published there. Its
  hypothesis is `ClientIsUnique`: the broker knows a client, and asks for its VEN.
* **Sessions.** All are arguments about instants. `FetchesAreSpaced` speaks of one task, the guard of
  the whole process's last attempt: `TriesAreRecorded` has that a task's fetch is no later than the
  process's, so a task sent to fetch (`MissesAreDue`) has none of its own that is recent, and time only
  makes it older. `NoneExpires` follows from where the token came from: a token presented outlives its
  exchange (`Outlives`), because the cached one outlives an exchange begun just before its renewal
  (`CachedOutlives`), because the one it was made from had its whole life when it was issued
  (`FullLife`) and no exchange is older than its timeout (`Timely`). It needs `RenewalLeavesTime`, a
  hypothesis of the theorem: for shorter lifetimes the property is false. `KeysFollowRotation` adds up
  ages: a set of keys is as of an instant of the exchange that brought it (`SetsAreRecent`), the one
  held was asked for no longer ago than an exchange before it landed (`HeldIsRecent`), an attempt is
  over within its timeout (`AttemptsSettle`), and a key comes once and goes once (`KeysComeAndGo`). Its
  hypothesis is `WindowsAreWide`: an exchange is shorter than either window of the key set and the rate
  limit no longer than a set is fresh. The defaults (`jwt.rs:84-86`: 10 s, 30 s, 15 min) satisfy it;
  without it the property is false.

* **SQL stores.** `ReadsFollowTheDocuments` says that six tables and the documents in them agree, and
  statements that change one table at a time break that in the middle of every transaction. `ReadsInv`
  therefore is about the committed rows (keys come from sequences, `Counted`; rows repeat their
  documents, `Agreeing`; parents are there, `HasParents`), about each transaction over them (`Orderly`:
  its key is fresh or that of a row it updates, each mark is written when its statement came, deletes
  take what refers before what is referred to), and about each two (`Apart`: what one wrote, no other
  has, and neither deletes what the other refers to). The last is where SQLite's single writer and
  PostgreSQL's row and foreign-key locks enter, and the only place. `OneContentForATime` needs that
  every write has an instant of its own and that what an update has seen was committed (`TimesInv`);
  `CascadesAreAnnounced` that on SQLite the list a deletion announces was read from the snapshot it
  deletes from (`AnnouncedInv`).

* **Requests.** `CallInv` is what being somewhere in a handler means: each check of the call's `Path`
  that is no longer ahead of it has been passed, under settings that never change, and callbacks that
  are no longer to be challenged have answered. `Paths` says what the path of each call has in it -
  whoever comes to a write comes past the body's checks and, with callbacks, past their challenge, after
  which nothing looks at the body again. `StoreInv` follows: `ValidStays` carries a payload's validity
  over what serialisation makes of its values, and `NoOrphans` says that what goes with a deleted object
  is all that refers to it, because references lead at most from reports to events and from those to
  programmes. `CourseInv` follows the answer: whatever there is of one, in the handler, the layers or
  the client, explains itself and is true of what was done and of what could be seen, which only grows
  while the call lasts. `PostsStayPublic` is inductive beside the first two; `ReservedIsPrivate` says
  of every address that is reserved, or carries one that is, that `is_private` refuses it or it is in
  `Missed`.
  The assumptions say that documents are shaped as their kind demands, that lists are lists, that names
  resolve to addresses, that there is one signing key at most, and that an earlier run of this VTN
  stored what is there at first.

* **Schedules.** The states are inputs, so these are theorems about functions, and the work is in the
  loops. A loop is a function from 0 to the number of turns that exists because each value is made from
  the one before (`StepByStep`), and what holds at 0 and passes from each turn to the next holds of the
  last (`UpTo`): ordinary induction up to a number, which needs no operator as a parameter when the
  numbers it holds of are a set. `Flattened` does the same for `FlattenSeq`.
  *Windows.* A pass places the intervals one after the other (`Stepped`) and divides each, and
  the parts of one are in force, one at a time, exactly while it would be (`SplitCovers`: the rounding
  of a division may move a boundary between two parts, and it is the same boundary for both). Whatever
  an event declares, what it repeats is `Sound`: it lies after its start and within one period. So an
  interval of repetition *o* lies in that repetition (`Drawn`), the indices that divisions skip do not
  overlap the window (`RangeCovers`), no interval is at two indices (`DrawnOnce`), and a window `Shows`
  what overlaps it, in order.
  *Priority.* What a claim finds taken is cut out of it, piece by piece, with no instant lost
  or gained (`SubtractedIsTheRest`); so of the claims of an instant the first has it
  (`FirstClaimHasIt`). The rank of an event, the number that precede it, puts each in one place of the
  line (`RankOnto`), so that first claim is of the event no other asking precedes, and of its first
  interval that asks (`EventClaims`). Until the next boundary no segment comes into force or leaves it
  (`SameUntilTheNext`).
  *Reports.* If intervals begin and end in the order they are declared in (`InTimeOrder`), so do those of
  all repetitions (`BeforeIt`), and of two reports the later covers later indices (`LaterRange`), so it
  is due no sooner (`EarlierReport`). What is skipped before the walk ended before the window
  (`EarlyReports`), and nothing after it is due before the window ends (`LateReports`,
  `NoneAfterTheEnd`), so the walk is a filter over all of the schedule. Two hypotheses are about the
  window, and the code makes no promise without them: the event is in time order, and the walk does not
  stop at `max_reports`. Every input of the run that asks for reports meets both.
  The assumptions are that events are shaped as the schema demands (`IsTimed`), that ids are unique,
  that no instant is negative and that what a timeline reaches can be represented.

* **VEN.** `ReadInv` is the path of an answer, page by page, to what the VEN holds. A version of an
  event never says two things (`BoardInv`), so a tag, which names versions, stands for contents
  (`UnchangedHeld`); what was read of a list that did not change meanwhile is its beginning (`ReadSoFar`); and
  because ranks in a list are 0, 1, 2, ... with none left out (`Positions`), a page that is not full is
  the last (`LastPage`). A tag is kept only of a page that was all there was, so a 304 to it is a 304 to
  what is held. `ReportInv` counts: of the copies of a report filed, one is of what is remembered, by the
  process or, once it is down, on disk; for every other one there was a reason. `SleepInv` has that a VEN
  that waits is to wake no later than the next boundary of any timeline, by its own clock, which may be
  set back but not forward; between two boundaries a timeline is in force or is not (`InForceAt`), so
  nothing is missed. `ScheduleInv` says what those timelines are: the ones of what the VEN holds as they
  were built at some instant, of events each timed and anchored at no negative one; so their boundaries
  are instants (`TimelineTells`, `BoundariesAreTimes`). It also has `ActsOnTime`: what wins an instant
  is decided by who asks for it and not by the window it is asked in, so timelines built at two instants
  tell the same of one in both windows (`TimelinesTellAlike`), and those the VEN has are built again
  before theirs ends. The hypothesis is `RefusalsAgree`: an event of too many intervals is
  left out of a timeline, and what is too many depends on the window, so it must be left out at the one
  instant as at the other. The assumptions are that what is published is timed, that timelines reach
  further than the time between two rebuilds, and that no clock starts or is set back to before 0.

Only model-checked: all liveness (`EverySettles`, `ExpiredGo`, `EveryWriteIsRead`), which is out of the
prover's reach, and what `ReportsAddUp` says of aggregation, whose sums are folds over readings of any
number; what it says of report windows is `ReportsAreComplete`.

Operands of `UNION` and `SUBSET` are in parentheses wherever a binary operator follows: TLC takes the
prefix operator to bind tighter and TLAPS takes it to reach further, and a definition should mean one
thing to both.

## 4. What is not modelled

* In `Dispatcher` the snapshot is a step of its own; in `WritePath` it is not: subscriptions, grants and
  breakers that change between it and the write (`api/mod.rs:610`) are in no composed model.
* Undecodable queue rows: one fails the claim of its whole batch, for ever (`store/outbox.rs`).
* Opening, migrating and encoding of columns; pages by offset while the collection changes.
* The VEN's listing of programmes; `randomizeStart`; the client's adapters and raw exchange; filters of
  the key set (`usable_for_verification`, `algorithm_of`).
* Transports beyond their outcome; TLS, HTTP and MQTT framing, mDNS; cryptography.
* Header syntax, metrics, OpenAPI, the builder, serving and shutdown; generated tables
  (`schema/table.rs`), derived serialisation, the conformance suite (a test program), the CLI, `xtask`.

## 5. What would come next

`WritePath` with the snapshot as a step, to ask who hears of a
write that overtook a revoked grant.

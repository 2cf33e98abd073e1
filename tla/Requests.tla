------------------------------- MODULE Requests -------------------------------
(***************************************************************************)
(* One request at a time, from the typed client (client.rs) through the    *)
(* layers, extractors and handlers of the VTN (vtn/mod.rs, vtn/api, with   *)
(* vtn/error.rs and vtn/etag.rs) to the store and back, and what the VTN   *)
(* posts to the callbacks it accepted.                                     *)
(*                                                                         *)
(* A handler is the sequence of the checks it makes, in its order; where   *)
(* it waits - for the store, for a callback's endpoint - others write, DNS *)
(* changes, the deadline passes or the client goes away. Programmes and    *)
(* events carry no targets here: who may see them is PrivacyView's, and    *)
(* what a write does to what refers to it is ProgramStore's. A body is     *)
(* known by its name, and Docs says what it holds.                         *)
(***************************************************************************)
EXTENDS Documents, Callbacks, SequencesExt

CONSTANTS
    Docs,           \* what bodies hold, by their names
    Principals,     \* who each bearer token stands for
    Calls,          \* the requests the client makes
    Configs,        \* VtnConfig and the authenticator's, as far as requests depend on them
    Beginnings,     \* what the store holds at first
    Names,          \* DNS: the answers each name may have, one after the other
    ReadBackLimit,  \* what problem_responses reads of a problem, in violations
    Tolerance,      \* DEFAULT_TOLERANCE
    MaxSteps        \* bound of the model: calls, writes by others, deliveries, changes of DNS

VARIABLES
    config,         \* one of Configs
    objects,        \* the store: what is held under each id, a kind and a number
    dns,            \* what each name resolves to
    call,           \* the request under way, or the last one
    gates,          \* the checks its handler has still to make
    proved,         \* the callbacks that answered its challenge
    reply,          \* the handler's response, once there is one
    answer,         \* what the layers made of it
    result,         \* what the client makes of that
    held,           \* the tag the client holds of what it asks for, from an earlier read
    posted,         \* the last delivery
    seen,           \* history: what the call could have read, at each moment since it began
    did,            \* history: what it changed in the store
    echoed,         \* history: the callbacks whose endpoint returned a challenge
    contacted,      \* history: the addresses the VTN opened a socket to last
    counts          \* how many calls there were, and how much else happened

server == <<config, objects, dns>>
client == <<call, result, held>>
progress == <<gates, proved, reply, answer>>
history == <<seen, did, echoed, contacted>>
vars == <<server, client, progress, history, posted, counts>>

None == {}

\* Only subscriptions have callbacks, and they have no payloads; each kind refers to one
\* other at most.
RefersTo ==
    [program |-> {}, event |-> {"program"}, report |-> {"event"}, subscription |-> {"program"}]
Kinds == DOMAIN RefersTo
FitsKind(doc, kind) ==
    /\ {p[1] : p \in doc.parents} \subseteq RefersTo[kind]
    /\ kind # "subscription" => doc.operations = <<>>
    /\ kind = "subscription" => doc.intervals = <<>>

Methods == {"GET", "LIST", "POST", "PUT", "DELETE", "PATCH"}
Vias == {"get", "try_get", "if_changed"}

ASSUME CallsAssumption ==
    /\ MaxSteps \in Nat /\ ReadBackLimit \in Nat /\ Tolerance \in Nat
    /\ \A c \in Calls :
          /\ c.kind \in Kinds \cup {"token", "health", "nowhere"}
          /\ c.method \in Methods /\ c.via \in Vias
          /\ c.kind = "token" => c.method = "POST"
          /\ c.kind = "health" => c.method = "GET"
          /\ c.kind \in Kinds /\ c.doc \in DOMAIN Docs => FitsKind(Docs[c.doc], c.kind)

\* A VTN has one secret to sign with, or none.
ASSUME ConfigsAssumption ==
    \A settings \in Configs : \A key, other \in settings.signing : key = other

\* The lists of values in a document are lists.
ASSUME DocsAssumption ==
    \A d \in DOMAIN Docs : \A i \in DOMAIN Docs[d].intervals :
        \A n \in DOMAIN Docs[d].intervals[i] :
            LET json == Docs[d].intervals[i][n].json
            IN  Len(json) \in Nat /\ DOMAIN json = 1 .. Len(json)

\* Hosts are addresses, or names that DNS has answers for.
ASSUME AddressesAssumption ==
    /\ \A n \in DOMAIN Names :
          /\ 1 \in DOMAIN Names[n]
          /\ \A i \in DOMAIN Names[n] : \A j \in DOMAIN Names[n][i] : IsAddress(Names[n][i][j])
    /\ \A d \in DOMAIN Docs : DOMAIN Docs[d].operations \subseteq Nat
    /\ \A d \in DOMAIN Docs : \A i \in DOMAIN Docs[d].operations :
          LET host == Docs[d].operations[i].url.host
          IN  CASE host.is = "address" -> IsAddress(host.at)
                [] host.is = "domain"  -> host.at \in DOMAIN Names \cup {"localhost"}
                [] OTHER               -> host.is = "none"

Clients == UNION {Principals[token].client : token \in DOMAIN Principals}
Object == [doc : DOMAIN Docs, version : Nat, owner : SUBSET Clients]

------------------------------------------------------------------------------
\* Errors and how they are rendered.

\* ApiError::status and ApiError::slug.
ErrorTable ==
    [BadRequest         |-> [status |-> 400, slug |-> "bad-request"],
     UnsupportedMediaType |-> [status |-> 415, slug |-> "unsupported-media-type"],
     PayloadTooLarge    |-> [status |-> 413, slug |-> "payload-too-large"],
     InvalidPayload     |-> [status |-> 400, slug |-> "invalid-payload"],
     Unauthorized       |-> [status |-> 401, slug |-> "unauthorized"],
     MissingScope       |-> [status |-> 403, slug |-> "missing-scope"],
     Forbidden          |-> [status |-> 403, slug |-> "forbidden"],
     NotFound           |-> [status |-> 404, slug |-> "not-found"],
     NoSuchRoute        |-> [status |-> 404, slug |-> "no-such-route"],
     Conflict           |-> [status |-> 409, slug |-> "conflict"],
     DanglingReference  |-> [status |-> 400, slug |-> "dangling-reference"],
     StorageUnavailable |-> [status |-> 500, slug |-> "storage-unavailable"],
     NotImplemented     |-> [status |-> 501, slug |-> "not-implemented"],
     Unavailable        |-> [status |-> 503, slug |-> "unavailable"]]

\* layer_problem.
LayerSlug(status) ==
    CASE status = 405 -> "method-not-allowed"
      [] status = 413 -> "payload-too-large"
      [] status = 504 -> "timeout"
      [] status = 415 -> "unsupported-media-type"
      [] OTHER -> "error"

Response(status, type) ==
    [status |-> status, type |-> type, slug |-> "none", instance |-> None, tag |-> None,
     body |-> None, size |-> 0]

\* IntoResponse of an ApiError: size is what its detail runs to.
Rendered(error) ==
    [Response(ErrorTable[error.why].status, "problem") EXCEPT
        !.slug = ErrorTable[error.why].slug, !.size = error.size]

Error(why) == [why |-> why, size |-> 0]
Refuse(why, when) == IF when THEN {Rendered(Error(why))} ELSE {}

\* A layer's own answer: a status, and no body anyone can read.
Bare(status) == Response(status, "none")

\* oauth_error: the token endpoint answers in OAuth2's form.
OAuthError == [Response(400, "json") EXCEPT !.slug = "oauth"]

\* The slip of knowing only one of the statuses a layer produces.
ProblemResponses_OfOneStatus(response, id) ==
    IF response.status = 405
    THEN [Response(405, "problem") EXCEPT !.slug = LayerSlug(405), !.instance = {id}]
    ELSE [response EXCEPT !.instance = {id}]

\* problem_responses: every error is a problem, stamped with the request's id. One
\* that is too long to be read back is lost.
ProblemResponses(response, id) ==
    CASE response.status >= 400 /\ response.type \notin {"problem", "json"} ->
             [Response(response.status, "problem") EXCEPT
                 !.slug = LayerSlug(response.status), !.instance = {id}]
      [] response.type = "problem" ->
             IF response.size > ReadBackLimit THEN Bare(500) ELSE [response EXCEPT !.instance = {id}]
      [] OTHER -> response

------------------------------------------------------------------------------
\* Who calls.
Presents(token) == token # "none"
Known(token) == token \in DOMAIN Principals
Anonymous == [client |-> {}, scopes |-> {}]

\* StaticTokenAuth::authenticate.
Principal(token) == IF Known(token) THEN Principals[token] ELSE Anonymous
Unauthenticated(c) ==
    IF Presents(c.token) THEN ~Known(c.token) ELSE ~config.anonymous

IsBusinessLogic(p) == p.scopes \cap {"read_all", "write_programs", "write_events"} # {}
Owns(p, owner) == IsBusinessLogic(p) \/ p.client \cap owner # {}

\* require_read.
MayRead(p) ==
    \/ p.scopes \cap {"read_all", "read_bl", "read_targets", "read_ven_objects"} # {}
    \/ p.client = {} /\ config.anonymous

WriteScope ==
    [program |-> "write_programs", event |-> "write_events", report |-> "write_reports",
     subscription |-> "write_subscriptions"]

Owned == {"report", "subscription"}

\* What a call may read as things stand: one object, or the page of a collection.
MaySee(p, id, store) == id[1] \in Owned => Owns(p, store[id].owner)
Shown(id, store) == [id |-> id, doc |-> store[id].doc, version |-> store[id].version]
Readable(c, store) ==
    {Shown(id, store) : id \in {i \in DOMAIN store :
        /\ i[1] = c.kind /\ MaySee(Principal(c.token), i, store)
        /\ c.method # "LIST" => i[2] = c.id}}

------------------------------------------------------------------------------
\* The checks. Each is the set of responses it may refuse a call with.

\* RequestBodyLimitLayer, before anything else; and a body of no stated length that
\* runs over the limit as it is read.
OverLength(c) == IF c.size = "stated" THEN {Bare(413)} ELSE {}
OverRead(c) == Refuse("PayloadTooLarge", c.size = "unstated")

Unrouted(c) == Refuse("NoSuchRoute", c.kind = "nowhere")
Undefined(c) == IF c.method = "PATCH" THEN {Bare(405)} ELSE {}

\* require_media_type: no claim is tolerated, a wrong one is not.
WrongMedia(c) == Refuse("UnsupportedMediaType", c.media \notin {"json", "unlabelled"})
WrongTokenMedia(c) == Refuse("UnsupportedMediaType", c.media \notin {"json", "unlabelled", "form"})

OutOfScope(c) ==
    Refuse("MissingScope", WriteScope[c.kind] \notin Principal(c.token).scopes)
Unread(c) == Refuse("MissingScope", ~MayRead(Principal(c.token)))

\* parse_id and the query of a list: 0 stands for an id that is none.
BadId(c) == Refuse("BadRequest", c.id = 0)
BadQuery(c) == Refuse("BadRequest", c.query = "malformed")

\* parse_body: what cannot be read, and the constrained strings in it.
Decodes(doc) ==
    \A i \in DOMAIN doc.intervals : \A n \in DOMAIN doc.intervals[i] :
        LET json == doc.intervals[i][n].json
        IN  \A j \in DOMAIN json : FromJson(json[j]) # {}
ParseBody(c) ==
    Refuse("BadRequest",
           \/ c.doc \notin DOMAIN Docs
           \/ \E t \in Docs[c.doc].texts : ~Legible(t.rule, t.text)
           \/ ~Decodes(Docs[c.doc]))

Parsed(map) ==
    [type |-> map.type,
     values |-> [i \in DOMAIN map.json |-> CHOOSE v \in FromJson(map.json[i]) : TRUE]]
Payloads(maps) == [i \in DOMAIN maps |-> Parsed(maps[i])]
GroupOf == [program |-> "programAttribute", event |-> "event", report |-> "report"]

\* check_payloads, interval by interval: under the strict policy, the first of them
\* that contradicts the table is refused, with all its violations in one answer.
CheckPayloads(c) ==
    LET intervals == Docs[c.doc].intervals
        found(i) == ValidateAll(Payloads(intervals[i]), GroupOf[c.kind])
        wrong == {i \in DOMAIN intervals : found(i) # {}}
    IN  IF config.policy = "strict" /\ wrong # {}
        THEN {Rendered([why |-> "InvalidPayload", size |-> Cardinality(found(Min(wrong)))])}
        ELSE {}

\* validate_event, check_attributes, check_report_payloads and subscriptions.rs, validate.
CheckTimes(c) == Refuse("BadRequest", Docs[c.doc].times # "resolvable")
CheckOperations(c) ==
    LET ops == Docs[c.doc].operations
    IN  Refuse("BadRequest",
               \/ ops = <<>>
               \/ \E i \in DOMAIN ops :
                      \/ ops[i].objects = {} \/ ops[i].operations = {}
                      \/ CheckLiteral(config.callbacks, ops[i].url) # {})
Unchecked(c) ==
    CASE c.kind = "event" -> IF CheckPayloads(c) # {} THEN CheckPayloads(c) ELSE CheckTimes(c)
      [] c.kind = "subscription" -> CheckOperations(c)
      [] OTHER -> CheckPayloads(c)

VensOnly(c) == Refuse("Forbidden", IsBusinessLogic(Principal(c.token)))
Unidentified(c) == Refuse("Forbidden", Principal(c.token).client = {})
Undeliverable(c) == Refuse("NotImplemented", ~config.webhooks)

\* The storage cannot be reached; it may happen on any call of it.
Unreachable == {Rendered(Error("StorageUnavailable"))}

\* require_owner of what get_report or get_subscription returns.
NotOwned(c) == Refuse("NotFound", Readable(c, objects) = {})

\* auth_token_inner: 415 and 501 in the VTN's form, the grant's own errors in OAuth2's.
NotGranted(c) ==
    IF ~config.issuing THEN {Rendered(Error("NotImplemented"))}
    ELSE IF WrongTokenMedia(c) # {} THEN WrongTokenMedia(c)
    ELSE IF c.doc # "credentials" THEN {OAuthError}
    ELSE {}

Refusals(gate, c) ==
    CASE gate = "length" -> OverLength(c)
      [] gate = "route" -> Unrouted(c)
      [] gate = "method" -> Undefined(c)
      [] gate = "authenticated" -> Refuse("Unauthorized", Unauthenticated(c))
      [] gate = "media" -> WrongMedia(c)
      [] gate = "read" -> OverRead(c)
      [] gate = "bytes" -> IF c.size = "unstated" THEN {Bare(413)} ELSE {}
      [] gate = "scope" -> OutOfScope(c)
      [] gate = "reader" -> Unread(c)
      [] gate = "id" -> BadId(c)
      [] gate = "query" -> BadQuery(c)
      [] gate = "body" -> ParseBody(c)
      [] gate = "checked" -> IF ParseBody(c) = {} THEN Unchecked(c) ELSE {}
      [] gate = "vens" -> VensOnly(c)
      [] gate = "identified" -> Unidentified(c)
      [] gate = "deliverable" -> Undeliverable(c)
      [] gate = "granted" -> NotGranted(c)
      [] OTHER -> {}

------------------------------------------------------------------------------
\* The handlers, by the order of their checks. The extractors come first: Ctx, then
\* JsonBody.
Layers == <<"length", "route", "method">>
Extractors == <<"authenticated", "media", "read">>

CreateOf(kind) ==
    CASE kind \in {"program", "event"} -> <<"scope", "body", "checked">>
      [] kind = "report" -> <<"scope", "vens", "body", "checked", "identified">>
      [] kind = "subscription" ->
             <<"scope", "deliverable", "body", "checked", "challenged", "identified">>

\* The slip the comment in reports.rs tells of: a PUT without the check of a POST.
UpdateOf_ReportUnchecked(kind) ==
    CASE kind \in {"program", "event"} -> <<"scope", "id", "body", "checked">>
      [] kind = "report" -> <<"scope", "id", "owned", "vens", "body">>
      [] kind = "subscription" ->
             <<"scope", "id", "owned", "deliverable", "body", "checked", "challenged">>

UpdateOf(kind) ==
    CASE kind \in {"program", "event"} -> <<"scope", "id", "body", "checked">>
      [] kind = "report" -> <<"scope", "id", "owned", "vens", "body", "checked">>
      [] kind = "subscription" ->
             <<"scope", "id", "owned", "deliverable", "body", "checked", "challenged">>

DeleteOf(kind) == <<"scope", "id">> \o (IF kind \in Owned THEN <<"owned">> ELSE <<>>)

ByMethod(c) ==
    CASE c.method = "GET" -> <<"authenticated", "reader", "id", "fetch">>
      [] c.method = "LIST" -> <<"authenticated", "reader", "query", "fetch">>
      [] c.method = "POST" -> Extractors \o CreateOf(c.kind) \o <<"create">>
      [] c.method = "PUT" -> Extractors \o UpdateOf(c.kind) \o <<"update">>
      [] c.method = "DELETE" -> <<"authenticated">> \o DeleteOf(c.kind) \o <<"delete">>
      [] OTHER -> <<>>

Handler(c) ==
    CASE c.kind = "token" -> <<"bytes", "granted", "grant">>
      [] c.kind = "health" -> <<"healthy">>
      [] c.kind = "nowhere" -> <<>>
      [] OTHER -> ByMethod(c)

\* All a call has to pass.
Path(c) == Layers \o Handler(c)

Effects == {"create", "update", "delete", "fetch", "grant", "healthy"}

------------------------------------------------------------------------------
Urls(doc) == [i \in DOMAIN doc.operations |-> doc.operations[i].url]

Init ==
    /\ config \in Configs
    /\ objects \in Beginnings
    /\ dns = [n \in DOMAIN Names |-> Names[n][1]]
    /\ call = None /\ gates = <<>> /\ proved = {}
    /\ reply = None /\ answer = None /\ result = None /\ held = None /\ posted = None
    /\ seen = {} /\ did = <<>> /\ contacted = {}
    /\ echoed = UNION {ToSet(Urls(Docs[objects[id].doc])) : id \in DOMAIN objects}
    /\ counts = [calls |-> 0, others |-> 0]

Waiting == call # None /\ result = None
Serving(c) == Waiting /\ call = {c} /\ reply = None /\ answer = None
At(gate) == gates # <<>> /\ Head(gates) = gate

More == counts.calls + counts.others < MaxSteps

\* The client sends a request. Of what it asks for if changed it may hold the tag, as it
\* is or as it was earlier.
Earlier(shown) == {[s EXCEPT !.version = 0] : s \in shown}
Send(c) ==
    /\ call = None /\ More
    /\ call' = {c} /\ gates' = Path(c)
    /\ LET shown == Readable(c, objects)
       IN  /\ seen' = {shown}
           /\ held' \in {None} \cup (IF c.via = "if_changed" THEN {{shown}, {Earlier(shown)}} ELSE {})
    /\ contacted' = {} /\ posted' = None
    /\ counts' = [counts EXCEPT !.calls = @ + 1]
    /\ UNCHANGED <<server, result, proved, reply, answer, did, echoed>>

\* Checks that wait for nothing are made in one go, up to the first that refuses.
Waits == Effects \cup {"owned", "challenged"}
Stops(c) == {i \in DOMAIN gates : gates[i] \in Waits \/ Refusals(gates[i], c) # {}}

Says(responses) ==
    /\ reply' \in {{r} : r \in responses} /\ gates' = <<>>

Check(c) ==
    /\ Serving(c) /\ gates # <<>> /\ Head(gates) \notin Waits
    /\ \E stop \in {Min(Stops(c))} :
          IF gates[stop] \in Waits
          THEN gates' = SubSeq(gates, stop, Len(gates)) /\ UNCHANGED reply
          ELSE Says(Refusals(gates[stop], c))
    /\ UNCHANGED <<server, client, proved, answer, history, posted, counts>>

\* require_owner, of what the store has by now.
Own(c) ==
    /\ Serving(c) /\ At("owned")
    /\ \/ Says(NotOwned(c) \cup Unreachable)
       \/ NotOwned(c) = {} /\ gates' = Tail(gates) /\ UNCHANGED reply
    /\ UNCHANGED <<server, client, proved, answer, history, posted, counts>>

\* challenge: one distinct URL after the other, and what its endpoint returns.
Token(n) == <<"challenge", n>>
EndpointSays(url, token) ==
    [status : {200}, size : {1}, body : {HelperReturns(Challenged(url, token)), token}]
        \cup [status : {200}, size : {1, EchoBodyLimit + 1}, body : {<<"anything">>}]
        \cup [status : {500}, size : {1}, body : {token}]

Challenge(c) ==
    /\ Serving(c) /\ At("challenged")
    /\ LET urls  == Urls(Docs[c.doc])
           left  == {i \in DOMAIN urls : urls[i] \notin proved}
           token == Token(counts.calls)
       IN  IF left = {}
           THEN gates' = Tail(gates) /\ UNCHANGED <<proved, reply, echoed, contacted>>
           ELSE LET url   == urls[Min(left)]
                    found == Connect(config.transport, url, dns)
                IN  IF CheckLiteral(config.transport, url) # {} \/ found.err # {}
                    THEN /\ Says(Refuse("BadRequest", TRUE))
                         /\ UNCHANGED <<proved, echoed, contacted>>
                    ELSE /\ contacted' = found.addresses
                         /\ \/ /\ Says(Refuse("BadRequest", TRUE))     \* unreachable
                               /\ UNCHANGED <<proved, echoed>>
                            \/ \E said \in EndpointSays(url, token) :
                                  IF EchoError(token, said) # {}
                                  THEN /\ Says(Refuse("BadRequest", TRUE))
                                       /\ UNCHANGED <<proved, echoed>>
                                  ELSE /\ proved' = proved \cup {url}
                                       /\ echoed' = echoed \cup {url}
                                       /\ UNCHANGED <<reply, gates>>
    /\ UNCHANGED <<server, client, answer, seen, did, posted, counts>>

------------------------------------------------------------------------------
\* The store. An object that refers to what is not there is refused; two programmes of
\* one name are; and what refers to a deleted object goes with it.
Dangles(doc) == ~(Docs[doc].parents \subseteq DOMAIN objects)
Taken(id, doc) ==
    \E i \in DOMAIN objects \ {id} :
        id[1] = "program" /\ i[1] = "program" /\ Docs[objects[i].doc].name = Docs[doc].name
Below(ids, store) == {i \in DOMAIN store : Docs[store[i].doc].parents \cap ids # {}}
Without(id, store) ==
    LET below == Below({id}, store)
    IN  Restrict(store, DOMAIN store \ ({id} \cup below \cup Below(below, store)))
SameContent(d, e) ==
    /\ [d EXCEPT !.intervals = <<>>] = [e EXCEPT !.intervals = <<>>]
    /\ Len(d.intervals) = Len(e.intervals)
    /\ \A i \in DOMAIN d.intervals :
          LET m == Payloads(d.intervals[i])  n == Payloads(e.intervals[i])
          IN  Len(m) = Len(n) /\ \A j \in DOMAIN m : SameMap(m[j], n[j])
\* Content that means the same is left as it is.
Rewritten(id, doc, store) ==
    IF SameContent(Docs[store[id].doc], Docs[doc]) THEN store
    ELSE [store EXCEPT ![id].doc = doc, ![id].version = @ + 1]

StoreErrors(id, doc, mustExist) ==
    IF Dangles(doc) THEN Refuse("DanglingReference", TRUE)
    ELSE IF Taken(id, doc) THEN Refuse("Conflict", TRUE)
    ELSE Refuse("NotFound", mustExist /\ id \notin DOMAIN objects)

\* ok, and created: only the answer to a GET is conditional, and only with caching on.
Shows(status, shown) == [Response(status, "json") EXCEPT !.body = shown]
Cached(shown, since) ==
    IF ~config.caching THEN Shows(200, shown)
    ELSE [Shows(IF since = {shown} THEN 304 ELSE 200, IF since = {shown} THEN None ELSE shown)
             EXCEPT !.tag = {shown}]

\* A change is made and answered for; or the storage fails, before it took effect or after.
Commits(op, store, shown, status) ==
    \/ /\ objects' = store /\ did' = Append(did, [op |-> op, shown |-> shown])
       /\ \/ Says({Shows(status, shown)})
          \/ Says(Unreachable)
    \/ Says(Unreachable) /\ UNCHANGED <<objects, did>>

Create(c) ==
    /\ Serving(c) /\ At("create")
    /\ LET id    == <<c.kind, 1 + counts.calls>>
           new   == [doc |-> c.doc, version |-> 1, owner |-> Principal(c.token).client]
           store == [i \in DOMAIN objects \cup {id} |-> IF i = id THEN new ELSE objects[i]]
           errors == StoreErrors(id, c.doc, FALSE)
       IN  IF errors # {} THEN Says(errors) /\ UNCHANGED <<objects, did>>
           ELSE Commits("POST", store, {Shown(id, store)}, 201)
    /\ seen' = seen \cup {Readable(c, objects')}
    /\ UNCHANGED <<config, dns, client, proved, answer, echoed, contacted, posted, counts>>

Update(c) ==
    /\ Serving(c) /\ At("update")
    /\ LET id    == <<c.kind, c.id>>
           errors == StoreErrors(id, c.doc, TRUE)
       IN  IF errors # {} THEN Says(errors) /\ UNCHANGED <<objects, did>>
           ELSE LET store == Rewritten(id, c.doc, objects)
                IN  Commits("PUT", store, {Shown(id, store)}, 200)
    /\ seen' = seen \cup {Readable(c, objects')}
    /\ UNCHANGED <<config, dns, client, proved, answer, echoed, contacted, posted, counts>>

Delete(c) ==
    /\ Serving(c) /\ At("delete")
    /\ LET id == <<c.kind, c.id>>
       IN  IF id \notin DOMAIN objects
           THEN Says(Refuse("NotFound", TRUE)) /\ UNCHANGED <<objects, did>>
           ELSE Commits("DELETE", Without(id, objects), {Shown(id, objects)}, 200)
    /\ seen' = seen \cup {Readable(c, objects')}
    /\ UNCHANGED <<config, dns, client, proved, answer, echoed, contacted, posted, counts>>

\* A read by id of what is not there, or not the caller's, is of nothing.
Fetch(c) ==
    /\ Serving(c) /\ At("fetch")
    /\ LET shown == Readable(c, objects)
       IN  Says(Unreachable
                  \cup (IF c.method = "GET" /\ shown = {} THEN Refuse("NotFound", TRUE)
                        ELSE {Cached(shown, held)}))
    /\ UNCHANGED <<server, client, proved, answer, history, posted, counts>>

\* auth_token once the request is read: issue_token may grant it, or be too busy to look.
Grant(c) ==
    /\ Serving(c) /\ At("grant")
    /\ Says({Shows(200, {}), OAuthError} \cup Refuse("Unavailable", TRUE))
    /\ UNCHANGED <<server, client, proved, answer, history, posted, counts>>

\* health.
Healthy(c) ==
    /\ Serving(c) /\ At("healthy")
    /\ Says({Shows(200, {})} \cup Unreachable)
    /\ UNCHANGED <<server, client, proved, answer, history, posted, counts>>

------------------------------------------------------------------------------
\* The way back.

Answers(response) ==
    answer' = {ProblemResponses(response, counts.calls)}

Respond ==
    /\ Waiting /\ reply # None /\ answer = None
    /\ \E r \in reply : Answers(r)
    /\ UNCHANGED <<server, client, gates, proved, reply, history, posted, counts>>

\* TimeoutLayer: the handler is dropped wherever it is, on the way back from a committed
\* write included.
TimeOut ==
    /\ Waiting /\ answer = None /\ (reply # None => did # <<>>)
    /\ Answers(Bare(504)) /\ gates' = <<>>
    /\ UNCHANGED <<server, client, proved, reply, history, posted, counts>>

\* The connection breaks, and the server drops what it was doing.
Lose ==
    /\ Waiting
    /\ result' = {[is |-> "transport"]}
    /\ gates' = <<>> /\ proved' = {} /\ reply' = None /\ answer' = None
    /\ UNCHANGED <<server, call, held, history, posted, counts>>

\* send_raw, and what each way of asking makes of it: an error that is no problem is
\* reported as an unexpected one.
SendRaw(response) ==
    IF response.status = 304 THEN [is |-> "unchanged"]
    ELSE IF response.status \in 200 .. 299 THEN [is |-> "value", shown |-> response.body]
    ELSE [is |-> "error", status |-> response.status,
          slug |-> IF response.type = "problem" THEN response.slug ELSE "unexpected"]

\* The slip of taking any refusal of a read for the absence of the object.
TryGet_AnyRefusal(out) ==
    IF out.is = "error" /\ out.status \in 400 .. 499 THEN [is |-> "absent"] ELSE out

TryGet(out) == IF out.is = "error" /\ out.status = 404 THEN [is |-> "absent"] ELSE out

Receive ==
    /\ Waiting
    /\ \E c \in call, response \in answer :
          LET out == SendRaw(response)
          IN  result' = {IF c.via = "try_get" THEN TryGet(out) ELSE out}
    /\ UNCHANGED <<server, call, held, progress, history, posted, counts>>

\* The client is through with what it got.
Finish ==
    /\ result # None
    /\ call' = None /\ gates' = <<>> /\ proved' = {}
    /\ reply' = None /\ answer' = None /\ result' = None /\ seen' = {} /\ did' = <<>>
    /\ held' = None /\ contacted' = {}
    /\ UNCHANGED <<server, posted, echoed, counts>>

------------------------------------------------------------------------------
\* Meanwhile.

\* Another request changes an object, or deletes it.
Touch(id, doc) ==
    /\ Waiting /\ answer = None /\ More
    /\ doc = None \/ doc = {objects[id].doc}
    /\ objects' = IF doc = None THEN Without(id, objects)
                  ELSE [objects EXCEPT ![id].version = @ + 1]
    /\ seen' = seen \cup UNION {{Readable(c, objects')} : c \in call}
    /\ counts' = [counts EXCEPT !.others = @ + 1]
    /\ UNCHANGED <<config, dns, client, progress, did, echoed, contacted, posted>>

\* A name resolves to something else.
Rebind(name, answers) ==
    /\ More /\ answers # dns[name]
    /\ dns' = [dns EXCEPT ![name] = answers]
    /\ counts' = [counts EXCEPT !.others = @ + 1]
    /\ UNCHANGED <<config, objects, client, progress, history, posted>>

\* What may happen to a signed delivery on its way.
Altered(headers, how, now) ==
    CASE how = "at" -> [headers EXCEPT !.at = now]
      [] how = "version" -> [headers EXCEPT !.version = "v0"]
      [] OTHER -> headers

\* WebhookNotifier::post of a notification to a stored callback, and the receiver's check
\* of its signature, by a clock that is this far from the VTN's when it arrives.
Post(url, drift, how) ==
    /\ call = None /\ More
    /\ counts' = [counts EXCEPT !.others = @ + 1]
    /\ LET found == Connect(config.transport, url, dns)
           bad   == CheckLiteral(config.transport, url) \cup found.err
           sent  == bad = {}
       IN  /\ contacted' = IF sent THEN found.addresses ELSE {}
           /\ posted' = {[sent |-> sent, drift |-> drift, how |-> how,
                          accepted |-> sent /\ \E h \in SignedHeaders(config.signing, 0, "body") :
                              VerifyErrors(Altered(h, how, drift), "key",
                                           IF how = "body" THEN "other" ELSE "body",
                                           drift, Tolerance) = {}]}
    /\ UNCHANGED <<server, client, progress, seen, did, echoed>>

Posts ==
    \E id \in DOMAIN objects : \E url \in ToSet(Urls(Docs[objects[id].doc])) :
        \/ \E drift \in {Tolerance, Tolerance + 1, -Tolerance - 1} : Post(url, drift, "no")
        \/ \E how \in {"body", "at", "version"} : Post(url, 0, how)
        \/ Post(url, Tolerance + 1, "at")

Next ==
    \/ \E c \in Calls : Send(c)
    \/ \E c \in call :
          \/ Check(c) \/ Own(c) \/ Challenge(c)
          \/ Create(c) \/ Update(c) \/ Delete(c)
          \/ Fetch(c) \/ Grant(c) \/ Healthy(c)
    \/ Respond \/ TimeOut \/ Lose \/ Receive \/ Finish
    \/ \E id \in DOMAIN objects : \E doc \in {None, {objects[id].doc}} : Touch(id, doc)
    \/ \E name \in DOMAIN Names : \E answers \in ToSet(Names[name]) : Rebind(name, answers)
    \/ Posts

Spec == Init /\ [][Next]_vars

------------------------------------------------------------------------------
\* The types of problems published for each status (PROBLEM_TYPES of model/problem.rs).
PublishedFor(status) ==
    CASE status = 400 -> {"bad-request", "invalid-payload", "dangling-reference"}
      [] status = 401 -> {"unauthorized"}
      [] status = 403 -> {"missing-scope", "forbidden"}
      [] status = 404 -> {"not-found", "no-such-route"}
      [] status = 405 -> {"method-not-allowed"}
      [] status = 409 -> {"conflict"}
      [] status = 413 -> {"payload-too-large"}
      [] status = 415 -> {"unsupported-media-type"}
      [] status = 500 -> {"storage-unavailable"}
      [] status = 501 -> {"not-implemented"}
      [] status = 503 -> {"unavailable"}
      [] status = 504 -> {"timeout"}
      [] OTHER -> {}

IsTokenRequest == \E c \in call : c.kind = "token"

\* Too long to be stamped: the one error that is lost (see the README).
TooLong == \E r \in reply : r.size > ReadBackLimit

\* Whatever refuses a call - a layer, an extractor, a check, the store, the deadline - its
\* answer is a problem of a type published for its status, stamped with the id of this very
\* request, or, from the token endpoint alone, an OAuth2 error; and so the client never has
\* to make up what happened.
ErrorsExplainThemselves ==
    /\ \A a \in answer :
          \/ a.status < 400 \/ TooLong
          \/ a.type = "problem" /\ a.slug \in PublishedFor(a.status) /\ a.instance = {counts.calls}
          \/ a.type = "json" /\ a.slug = "oauth" /\ a.status = 400 /\ IsTokenRequest
    /\ \A r \in result : r.is = "error" /\ r.slug = "unexpected" => TooLong \/ IsTokenRequest

Writes == {"POST", "PUT", "DELETE"}

\* What the client is told is what happened, whatever else did meanwhile: a write it has an
\* object for was made, once, and is of that object; one that was refused was not made; one
\* it does not know of was made once at most. What a read shows, its absence and its being
\* unchanged were true of what the caller may see at some moment since it asked.
AnswersTellTheTruth ==
    \A c \in call, r \in result :
        IF c.method \in Writes
        THEN CASE r.is = "value" /\ c.kind # "token" -> did = <<[op |-> c.method, shown |-> r.shown]>>
               [] r.is = "error" /\ r.status < 500 -> did = <<>>
               [] OTHER -> Len(did) <= 1
        ELSE /\ did = <<>>
             /\ r.is = "value" /\ c.kind # "health" => r.shown \in seen
             /\ r.is = "absent" => {} \in seen
             /\ r.is = "unchanged" => held \cap seen # {}

Valid(map, group) == Validity(ReturnedMap(map), group).is # "invalid"

\* What is stored under an id refers to what exists, has legible names and resolvable times,
\* callbacks the policy allows and, under the strict policy, only values that match the
\* table even as a reader gets them back.
Checked(id, store, settings) ==
    LET doc == Docs[store[id].doc]
    IN  /\ \A t \in doc.texts : Legible(t.rule, t.text)
        /\ id[1] = "event" => doc.times = "resolvable"
        /\ doc.parents \subseteq DOMAIN store
        /\ \A url \in ToSet(Urls(doc)) : CheckLiteral(settings.callbacks, url) = {}
        /\ settings.policy = "strict" =>
              \A i \in DOMAIN doc.intervals :
                  LET maps == Payloads(doc.intervals[i])
                  IN  \A n \in DOMAIN maps : Valid(maps[n], GroupOf[id[1]])

\* What the VTN starts with was stored by an earlier run of it.
ASSUME BeginningsAssumption ==
    \A store \in Beginnings : \A id \in DOMAIN store :
        /\ id = <<id[1], id[2]>> /\ id[1] \in Kinds
        /\ store[id] \in Object /\ FitsKind(Docs[store[id].doc], id[1])
        /\ \A settings \in Configs : Checked(id, store, settings)

\* No way in leads round the checks: whatever is stored, however it got there and whatever
\* replaced it, has passed them, and the endpoints of its callbacks returned a challenge.
NothingUncheckedIsStored ==
    \A id \in DOMAIN objects :
        /\ Checked(id, objects, config)
        /\ ToSet(Urls(Docs[objects[id].doc])) \subseteq echoed

\* What is not on the public internet, by its leading bits (octets, then segments): the
\* special-purpose blocks of RFC 6890's registries that are not global, multicast, and the
\* site-local addresses of old.
Block(at, bits) == [at |-> at, bits |-> bits]
ThisNetwork == Block(<<0>>, 8)
Reserved4 ==
    {ThisNetwork, Block(<<10>>, 8), Block(<<100, 64>>, 10), Block(<<127>>, 8),
     Block(<<169, 254>>, 16), Block(<<172, 16>>, 12), Block(<<192, 0, 0>>, 24),
     Block(<<192, 0, 2>>, 24), Block(<<192, 168>>, 16), Block(<<198, 18>>, 15),
     Block(<<198, 51, 100>>, 24), Block(<<203, 0, 113>>, 24), Block(<<224>>, 4), Block(<<240>>, 4)}

\* NAT64 for local use, discard-only and dummy, protocol assignments (Teredo is one),
\* documentation, segment routing, site-local: those that is_private does not name.
Missed6 ==
    {Block(<<100, 65435, 1>>, 48), Block(<<256, 0, 0, 0>>, 63), Block(<<8193, 0>>, 23),
     Block(<<16383, 0>>, 20), Block(<<24320>>, 16), Block(<<65216>>, 10)}
Reserved6 == Missed6 \cup
    {Block(<<0, 0, 0, 0, 0, 0, 0, 0>>, 128), Block(<<0, 0, 0, 0, 0, 0, 0, 1>>, 128),
     Block(<<64512>>, 7), Block(<<65152>>, 10), Block(<<8193, 3512>>, 32), Block(<<65280>>, 8)}

\* Two to the number of the bits that are free in the last part.
Power == <<1, 2, 4, 8, 16, 32, 64, 128, 256, 512, 1024, 2048, 4096>>
InBlock(parts, block, width) ==
    \A i \in DOMAIN block.at :
        LET free == IF i * width <= block.bits THEN 0 ELSE i * width - block.bits
        IN  parts[i] \div Power[free + 1] = block.at[i] \div Power[free + 1]

IsReserved4(o) == \E b \in Reserved4 : InBlock(o, b, 8)

\* Where an IPv6 address is an IPv4 one in disguise: NAT64, mapped, compatible, and 6to4.
Wrappers == {<<100, 65435, 0, 0, 0, 0>>, <<0, 0, 0, 0, 0, 65535>>, <<0, 0, 0, 0, 0, 0>>}
IsWrapped(s)   == SubSeq(s, 1, 6) \in Wrappers
IsSixToFour(s) == s[1] = 8194
SixToFour(s)   == <<s[2] \div 256, s[2] % 256, s[3] \div 256, s[3] % 256>>

Inside(a) ==
    IF a.ip = 4 THEN IsReserved4(a.parts)
    ELSE \/ \E b \in Reserved6 : InBlock(a.parts, b, 16)
         \/ IsWrapped(a.parts) /\ IsReserved4(Embedded(a.parts))
         \/ IsSixToFour(a.parts) /\ IsReserved4(SixToFour(a.parts))

\* What is_private lets pass of that: of "this network" all but 0.0.0.0 (::1 it refuses), the
\* blocks of Missed6, and whatever 6to4 carries.
Missed4(o) == InBlock(o, ThisNetwork, 8) /\ o # <<0, 0, 0, 0>>
Missed(a) ==
    IF a.ip = 4 THEN Missed4(a.parts)
    ELSE \/ \E b \in Missed6 : InBlock(a.parts, b, 16)
         \/ /\ IsWrapped(a.parts) /\ Missed4(Embedded(a.parts))
            /\ ~(Zeros(a.parts, 7) /\ a.parts[8] = 1)
         \/ IsSixToFour(a.parts)

\* Unless it was told that it may, the VTN opens no socket to an address that is not on the
\* public internet, the ones is_private misses excepted, whatever a name resolves to by then;
\* a receiver accepts a delivery if and only if it was signed with their key, arrived as it
\* was sent and arrived in time.
PostsStayPublic ==
    /\ ~config.transport.allowPrivate => \A a \in contacted : Inside(a) => Missed(a)
    /\ \A p \in posted :
          p.accepted <=> /\ p.sent /\ config.signing = {"key"}
                         /\ AbsOf(p.drift) <= Tolerance
                         /\ p.how = "no" \/ (p.how = "at" /\ p.drift = 0)
=============================================================================

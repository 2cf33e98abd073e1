----------------------------- MODULE MCRequests -----------------------------
(***************************************************************************)
(* A handful of documents, each right or wrong in one way, and the calls   *)
(* that carry them: every kind of call done right, and once more with each *)
(* thing that can be wrong with it.                                        *)
(***************************************************************************)
EXTENDS Requests

Text(word, len) ==
    [word |-> word, len |-> len, decimal |-> {}, reserved |-> FALSE, urlSafe |-> TRUE, comma |-> FALSE]
Bounds(min, max) == [min |-> min, max |-> max]
One == Bounds({1}, {1})
Free == Bounds({}, {})

\* Rows of the generated table, bounds in tenths.
MCPayloadSpecs ==
    {PayloadSpec("SIMPLE", "event", {"integer"}, One, Bounds({0}, {30}), Free, {}),
     PayloadSpec("PRICE", "event", {"number"}, One, Free, Free, {}),
     PayloadSpec("CURVE", "event", {"point"}, Bounds({1}, {}), Free, Free, {}),
     PayloadSpec("OPERATING_STATE", "report", {"string"}, One, Free, Free, {"NORMAL", "ERROR"}),
     PayloadSpec("USAGE", "report", {"number"}, One, Free, Free, {}),
     PayloadSpec("COUNTRY", "programAttribute", {"string"}, One, Free, Bounds({1}, {128}), {}),
     PayloadSpec("LOCAL", "programAttribute", {"boolean"}, One, Free, Free, {})}

Json(how, of) == [json |-> how, of |-> of]
Map(type, json) == [type |-> type, json |-> json]
Word(word, len) == Json("string", Text(word, len))
Half == Json("string", [Text("0.5", 3) EXCEPT !.decimal = {5}])
PointOf(x, y) == Json("object", [x |-> x, y |-> y])

Blank == [intervals |-> <<>>, texts |-> {}, times |-> "resolvable", parents |-> {},
          name |-> "none", operations |-> <<>>]
Named(name) == [Blank EXCEPT !.name = name]
Attributed(maps) == [Named("N1") EXCEPT !.intervals = <<maps>>]
Under(parent) == [Blank EXCEPT !.parents = {parent}]
Event(intervals) == [Under(<<"program", 1>>) EXCEPT !.intervals = intervals]
Report(maps) == [Under(<<"event", 1>>) EXCEPT !.intervals = <<maps>>]
Targeting(text) == [Event(<<>>) EXCEPT !.texts = {[rule |-> "target", text |-> text]}]

Host(is, at) == [is |-> is, at |-> at]
Url(scheme, host) == [scheme |-> scheme, host |-> host, echo |-> <<>>]
Hook == Url("https", Host("domain", "hook"))
To(url) == [objects |-> {"event"}, operations |-> {"create"}, url |-> url]
Subscription(ops) == [Blank EXCEPT !.operations = ops]
At4(octets) == Host("address", V4(octets))
At6(segments) == Host("address", V6(segments))

MCDocs ==
    [p1       |-> Named("N1"),
     p2       |-> Named("N2"),
     pCountry |-> Attributed(<<Map("COUNTRY", <<Word("NL", 2)>>), Map("LOCAL", <<Json("bool", TRUE)>>)>>),
     pLong    |-> Attributed(<<Map("COUNTRY", <<Word("long", 129)>>), Map("SIMPLE", <<Json("int", 10)>>)>>),
     pName    |-> [Named("N3") EXCEPT !.texts = {[rule |-> "programName", text |-> Text("", 0)]}],
     e1       |-> Event(<<<<Map("PRICE", <<Json("int", 50)>>)>>>>),
     eSame    |-> Event(<<<<Map("PRICE", <<Json("float", 50)>>)>>>>),
     eSplit   |-> Event(<<<<Map("SIMPLE", <<Json("int", 10), Json("int", 20)>>)>>,
                          <<Map("CURVE", <<PointOf({Half}, {Json("int", 10)})>>), Map("PRIVATE", <<>>)>>>>),
     eRange   |-> Event(<<<<Map("SIMPLE", <<Json("int", 40)>>)>>>>),
     eKinds   |-> Event(<<<<>>, <<Map("SIMPLE", <<Json("float", 10), Half, Json("bool", TRUE)>>)>>>>),
     eNone    |-> Event(<<<<Map("PRICE", <<>>)>>>>),
     eNull    |-> Event(<<<<Map("PRICE", <<Json("null", 0)>>)>>>>),
     eFlat    |-> Event(<<<<Map("CURVE", <<PointOf({Half}, {})>>)>>>>),
     eTarget  |-> Targeting(Text("zone 1", 6)),
     eComma   |-> Targeting([Text("a,b", 3) EXCEPT !.comma = TRUE]),
     eNull2   |-> Targeting([Text("null", 4) EXCEPT !.reserved = TRUE]),
     eTimes   |-> [Event(<<>>) EXCEPT !.times = "unresolvable"],
     eLost    |-> Under(<<"program", 9>>),
     r1       |-> Report(<<Map("USAGE", <<Json("float", 15)>>)>>),
     rState   |-> Report(<<Map("OPERATING_STATE", <<Word("NORMAL", 6)>>)>>),
     rWord    |-> Report(<<Map("OPERATING_STATE", <<Word("BROKEN", 6)>>)>>),
     rGroup   |-> Report(<<Map("PRICE", <<Json("int", 50)>>)>>),
     rLost    |-> Under(<<"event", 9>>),
     rId      |-> [Report(<<>>) EXCEPT !.texts =
                      {[rule |-> "objectID", text |-> [Text("a/b", 3) EXCEPT !.urlSafe = FALSE]]}],
     s1       |-> Subscription(<<To(Hook)>>),
     sTwo     |-> Subscription(<<To(Hook), To(Url("https", Host("domain", "other"))), To(Hook)>>),
     sEcho    |-> Subscription(<<To([Hook EXCEPT !.echo = <<<<"own">>>>])>>),
     sScoped  |-> [Subscription(<<To(Hook)>>) EXCEPT !.parents = {<<"program", 1>>}],
     sEmpty   |-> Subscription(<<>>),
     sNothing |-> Subscription(<<[To(Hook) EXCEPT !.operations = {}]>>),
     sPlain   |-> Subscription(<<To(Url("http", Host("domain", "hook")))>>),
     sBroken  |-> Subscription(<<To(Url("malformed", Host("none", "")))>>),
     sNoHost  |-> Subscription(<<To(Url("https", Host("none", "")))>>),
     sLocal   |-> Subscription(<<To(Url("https", Host("domain", "localhost")))>>),
     sOctets  |-> Subscription(<<To(Url("https", At4(<<172, 31, 0, 1>>)))>>),
     sPublic  |-> Subscription(<<To(Url("https", At4(<<172, 32, 0, 1>>)))>>),
     sMapped  |-> Subscription(<<To(Url("https", At6(<<0, 0, 0, 0, 0, 65535, 32512, 1>>)))>>),
     sWrapped |-> Subscription(<<To(Url("https", At6(<<100, 65435, 0, 0, 0, 0, 2056, 2056>>)))>>)]

MCPrincipals ==
    [bl  |-> [client |-> {"bl"}, scopes |-> {"read_all", "write_programs", "write_events",
                                             "write_reports", "write_subscriptions"}],
     v1  |-> [client |-> {"v1"}, scopes |-> {"read_targets", "read_ven_objects", "write_reports",
                                             "write_subscriptions"}],
     v2  |-> [client |-> {"v2"}, scopes |-> {"read_targets", "write_reports", "write_subscriptions"}],
     bare |-> [client |-> {}, scopes |-> {"write_reports", "write_subscriptions"}],
     idle |-> [client |-> {"v1"}, scopes |-> {}]]

\* The answers of DNS: public, or with one that is not.
Public == <<V4(<<93, 184, 216, 34>>), V6(<<8193, 18528, 18528, 0, 0, 0, 0, 34952>>)>>
MCNames ==
    [hook  |-> <<Public, Append(Public, V6(<<0, 0, 0, 0, 0, 0, 2560, 1>>)), <<>>>>,
     other |-> <<<<V4(<<100, 128, 0, 1>>)>>, <<V4(<<8, 8, 8, 8>>), V4(<<100, 127, 0, 1>>)>>>>]

Strict == [policy |-> "strict", callbacks |-> Default, transport |-> Default, anonymous |-> FALSE,
           caching |-> TRUE, webhooks |-> TRUE, issuing |-> TRUE, signing |-> {"key"}]
Lenient == [policy |-> "warn", callbacks |-> Permissive, transport |-> Default, anonymous |-> TRUE,
            caching |-> FALSE, webhooks |-> TRUE, issuing |-> FALSE, signing |-> {}]
MCConfigs == {Strict, Lenient, [Strict EXCEPT !.transport = Permissive, !.webhooks = FALSE, !.anonymous = TRUE]}

Held(doc, owner) == [doc |-> doc, version |-> 1, owner |-> owner]
MCBeginnings ==
    {(<<"program", 1>> :> Held("p1", {})) @@ (<<"event", 1>> :> Held("e1", {}))
        @@ (<<"report", 1>> :> Held("r1", {"v1"})) @@ (<<"subscription", 1>> :> Held("s1", {"v1"}))}

\* A call done right, and what may be wrong with one.
Call(token, method, kind, id, doc) ==
    [token |-> token, method |-> method, kind |-> kind, id |-> id, doc |-> doc,
     media |-> "json", size |-> "fits", query |-> "fine", via |-> "get"]

Asked(c) == {c, [c EXCEPT !.via = "try_get"], [c EXCEPT !.via = "if_changed"], [c EXCEPT !.id = 0],
             [c EXCEPT !.id = 9, !.via = "try_get"], [c EXCEPT !.token = "none"],
             [c EXCEPT !.token = "idle", !.via = "try_get"]}
Sent(c, docs) ==
    {[c EXCEPT !.doc = d] : d \in docs}
        \cup {[c EXCEPT !.media = "form"], [c EXCEPT !.media = "unlabelled"], [c EXCEPT !.size = "stated"],
              [c EXCEPT !.size = "unstated"], [c EXCEPT !.doc = "garbage"],
              [c EXCEPT !.token = "forged"], [c EXCEPT !.token = "idle"]}

MCCalls ==
    Asked(Call("v1", "GET", "event", 1, "none")) \cup Asked(Call("v1", "GET", "report", 1, "none"))
    \cup {Call("v2", "GET", "report", 1, "none"), [Call("v2", "GET", "report", 1, "none") EXCEPT !.via = "try_get"],
          Call("bl", "LIST", "program", 0, "none"),
          [Call("v1", "LIST", "report", 0, "none") EXCEPT !.via = "if_changed"],
          [Call("v1", "LIST", "event", 0, "none") EXCEPT !.query = "malformed"],
          Call("bl", "GET", "nowhere", 1, "none"), Call("bl", "PATCH", "event", 1, "none"),
          Call("none", "GET", "health", 0, "none")}
    \cup Sent(Call("bl", "POST", "program", 0, "p1"), {"p1", "p2", "pCountry", "pLong", "pName"})
    \cup Sent(Call("bl", "PUT", "program", 1, "p1"), {"p1", "p2", "pCountry", "pLong"})
    \cup Sent(Call("bl", "POST", "event", 0, "e1"),
              {"e1", "eSplit", "eRange", "eKinds", "eNone", "eNull", "eFlat", "eTarget", "eComma",
               "eNull2", "eTimes", "eLost"})
    \cup Sent(Call("bl", "PUT", "event", 1, "e1"), {"eSame", "eSplit", "eRange", "eTimes", "eLost"})
    \cup Sent(Call("v1", "POST", "report", 0, "r1"), {"r1", "rState", "rWord", "rGroup", "rLost", "rId"})
    \cup Sent(Call("v1", "PUT", "report", 1, "r1"), {"rState", "rWord", "rGroup"})
    \cup Sent(Call("v1", "POST", "subscription", 0, "s1"),
              {"s1", "sTwo", "sEcho", "sScoped", "sEmpty", "sNothing", "sPlain", "sBroken", "sNoHost",
               "sLocal", "sOctets", "sPublic", "sMapped", "sWrapped"})
    \cup {Call("bl", "POST", "report", 0, "r1"), Call("bare", "POST", "report", 0, "r1"),
          Call("bl", "PUT", "report", 1, "rState"), Call("v2", "PUT", "report", 1, "rState"),
          Call("bl", "PUT", "event", 0, "eSplit"), Call("bl", "PUT", "event", 9, "eSplit"),
          Call("bare", "POST", "subscription", 0, "s1"), Call("v1", "PUT", "subscription", 1, "sTwo"),
          Call("v2", "PUT", "subscription", 1, "s1"), Call("v1", "PUT", "subscription", 1, "sPlain"),
          Call("bl", "DELETE", "program", 1, "none"), Call("bl", "DELETE", "event", 9, "none"),
          Call("bl", "DELETE", "report", 1, "none"), Call("v2", "DELETE", "report", 1, "none"),
          Call("v1", "DELETE", "subscription", 1, "none"), Call("v1", "DELETE", "event", 1, "none")}
    \cup Sent(Call("none", "POST", "token", 0, "credentials"), {"credentials"})
=============================================================================

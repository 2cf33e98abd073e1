----------------------------- MODULE MCSqlStore -----------------------------
(* An instance of SqlStore for TLC: see README.md for the bounds. *)
EXTENDS SqlReads, TLC

Object(parent, targets, watches) ==
  [parent |-> parent, targets |-> targets, watches |-> watches, at |-> 0]

P == Key("program", 1)
E == Key("event", 1)
V == Key("ven", 1)

\* Two programmes, one empty, and one of each kind: an event of the first and the report on it, a
\* subscription scoped to the programme, and a VEN with a resource.
MCInitial ==
  P :> Object(NoParent, {}, {})
  @@ Key("program", 2) :> Object(NoParent, {"t1", "t2"}, {})
  @@ E :> Object(P, {}, {})
  @@ Key("report", 1) :> Object(E, {}, {})
  @@ Key("subscription", 1) :> Object(P, {}, {"EVENT"})
  @@ V :> Object(NoParent, {}, {})
  @@ Key("resource", 1) :> Object(V, {"t1"}, {})

\* What is numbered alike is of one client; the last report is business logic's.
MCClientOf(key) ==
  IF key = Key("report", 4) THEN NoClient ELSE <<"c1", "c1", "c2", "c3">>[key[2]]

MCContents ==
  {<<{}, {}>>, <<{"t1"}, {}>>, <<{"t2"}, {}>>, <<{}, {"EVENT"}>>, <<{"t1"}, {"EVENT", "REPORT"}>>}

Symmetry == Permutations(Writers)
=============================================================================

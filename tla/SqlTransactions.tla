-------------------------- MODULE SqlTransactions --------------------------
(***************************************************************************)
(* Transactions of the two databases behind store/sqlite.rs and            *)
(* store/postgres.rs, statement by statement, as far as those files rely   *)
(* on them.                                                                *)
(*                                                                         *)
(* SQLite, in WAL mode: one writer at a time, from its first write to its  *)
(* end, the others waiting (busy_timeout); a transaction that has read     *)
(* keeps what it read, and can no longer write once another has committed. *)
(*                                                                         *)
(* PostgreSQL, at READ COMMITTED: a statement sees what is committed when  *)
(* it runs, and what its transaction wrote; it waits for rows that others  *)
(* have written and not committed, and then runs afresh; a row that        *)
(* refers to another keeps that one from being deleted meanwhile.          *)
(***************************************************************************)
LOCAL INSTANCE Naturals

CONSTANT Writers    \* connections

VARIABLES
  backend,  \* "sqlite" or "postgres"
  rows,     \* the committed rows, a function from their keys
  tx        \* what each writer has in hand

Backends == {"sqlite", "postgres"}

\* Nothing written: changed rows, deleted keys, keys referred to, and whether
\* SQLite gave this writer its lock, or a snapshot another has outdated.
Untouched == [put |-> <<>>, gone |-> {}, refs |-> {}, writing |-> FALSE, snapshot |-> "none"]

\* What a transaction sees.
View(w) ==
  [k \in (DOMAIN rows \ tx[w].gone) \cup DOMAIN tx[w].put |->
     IF k \in DOMAIN tx[w].put THEN tx[w].put[k] ELSE rows[k]]

Others(w) == Writers \ {w}

\* The keys another transaction has written.
Claimed(w) == UNION {DOMAIN tx[v].put \cup tx[v].gone : v \in Others(w)}

\* A statement may run that changes, deletes and refers to these keys.
MayWrite(w, changes, deletes, refers) ==
  IF backend = "sqlite"
  THEN tx[w].snapshot # "outdated" /\ \A v \in Others(w) : ~ tx[v].writing
  ELSE /\ (changes \cup deletes) \cap Claimed(w) = {}
       /\ \A v \in Others(w) : deletes \cap tx[v].refs = {} /\ refers \cap tx[v].gone = {}

\* The transaction after a statement that put these rows and deleted these.
Written(w, put, deletes, refers) ==
  LET old == tx[w].put
      kept == DOMAIN old \ deletes
  IN [tx[w] EXCEPT
        !.put = [k \in kept \cup DOMAIN put |-> IF k \in DOMAIN put THEN put[k] ELSE old[k]],
        !.gone = (@ \ DOMAIN put) \cup deletes,
        !.refs = @ \cup refers,
        !.writing = backend = "sqlite"]

\* The transaction after a statement that only read.
ReadIn(w) ==
  [tx[w] EXCEPT !.snapshot = IF backend = "sqlite" /\ ~ tx[w].writing /\ @ = "none"
                             THEN "held" ELSE @]

\* The other transactions after w's commit: snapshots are outdated by a write.
OutdatedBy(w) ==
  [v \in Writers |->
     IF v # w /\ tx[v].snapshot = "held" /\ tx[w].writing
     THEN [tx[v] EXCEPT !.snapshot = "outdated"] ELSE tx[v]]
=============================================================================

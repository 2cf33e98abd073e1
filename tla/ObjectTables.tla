---------------------------- MODULE ObjectTables ----------------------------
(***************************************************************************)
(* The tables of a storage backend as values: a table is a function from   *)
(* the ids in it, some of Ids, to objects.                                 *)
(***************************************************************************)
Tables(Ids, Object) == UNION {[S -> Object] : S \in SUBSET Ids}

Put(table, id, object) ==
  [i \in DOMAIN table \cup {id} |-> IF i = id THEN object ELSE table[i]]

Without(table, ids) == [i \in DOMAIN table \ ids |-> table[i]]
=============================================================================

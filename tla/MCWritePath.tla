---------------------------- MODULE MCWritePath -----------------------------
(***************************************************************************)
(* What the configurations of WritePath share.                             *)
(***************************************************************************)
EXTENDS WritePath, TLC

Interchangeable ==
  Permutations(Clients) \cup Permutations(VenNames) \cup Permutations(ResourceNames)
    \cup Permutations(Targets) \cup Permutations(Handlers)

\* No invariant of the SQL backends is about what was heard.
Distinguished ==
  <<vens, resources, minted, request, given, backend,
    IF backend = "memory" THEN heard ELSE <<>>>>
=============================================================================

--------------------------- MODULE MCPrivacyView ----------------------------
(***************************************************************************)
(* What the configurations of PrivacyView share.                           *)
(***************************************************************************)
EXTENDS Broker, TLC

Interchangeable ==
  Permutations(Clients) \cup Permutations(VenNames) \cup Permutations(Targets)

\* The scopes of a VEN, of an aggregator's console, of a notifier, of somebody
\* who only writes and of business logic.
ScopeSets ==
  {{"read_targets", "read_ven_objects", "write_reports", "write_subscriptions", "write_vens"},
   {"read_bl", "write_vens"},
   {"write_reports", "write_programs"},
   {"write_events", "read_targets"},
   {"read_all", "read_bl", "write_reports", "write_vens"}}

SomePrincipals ==
  [client: Clients, scopes: ScopeSets]
    \cup [client: {NoClient}, scopes: {{}, {"read_all"}, {"write_reports", "write_subscriptions"}}]
=============================================================================

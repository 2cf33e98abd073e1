SPECIFICATION Spec
CONSTANTS
  Writers = {w1, w2}
  w1 = w1
  w2 = w2
  Targets = {"t1", "t2"}
  Clients = {"c1", "c2", "c3"}
  NoClient = "none"
  Watched = {"EVENT", "REPORT"}
  Initial <- MCInitial
  ClientOf <- MCClientOf
  PlacedUnder <- References
  Contents <- MCContents
  MaxWrites = 2
CHECK_DEADLOCK FALSE
SYMMETRY Symmetry
INVARIANTS ReadsFollowTheDocuments TimesNameContents WhatGoesIsAnnounced

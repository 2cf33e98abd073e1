---------------------------- MODULE MCVenRuntime ----------------------------
(***************************************************************************)
(* A VEN that follows a looping tariff, and now and then a curtailment or  *)
(* a short event that asks for reports.                                    *)
(***************************************************************************)
EXTENDS VenRuntime

Payload(v) == <<[scalar |-> TRUE, values |-> <<v>>]>>
Slot(id, v) == [id |-> id, start |-> {}, tick |-> {}, payloads |-> Payload(v)]

Asks(descriptor) == <<descriptor>>
Each == [startInterval |-> 0, numIntervals |-> 1, historical |-> TRUE,
         frequency |-> 1, repeat |-> -1, open |-> FALSE]

\* Two prices that alternate for ever, and are reported on.
Tariff == [program |-> "tariff", start |-> {2}, tick |-> {2},
           intervals |-> <<Slot(1, "low"), Slot(2, "high")>>, lasts |-> {Forever},
           priority |-> {}, descriptors |-> Asks(Each)]

\* "Curtail now".
Curtailment == [program |-> "response", start |-> {Now}, tick |-> {1},
                intervals |-> <<Slot(1, "off")>>, lasts |-> {}, priority |-> {0},
                descriptors |-> <<>>]

\* Two intervals, each reported on when it ends.
Event == [program |-> "response", start |-> {3}, tick |-> {1},
          intervals |-> <<Slot(1, "shed"), Slot(2, "shift")>>, lasts |-> {},
          priority |-> {1}, descriptors |-> Asks(Each)]

AllOffers == {<<1, Curtailment>>}
Boards == {{<<3, Tariff>>}, {<<1, Event>>, <<2, Curtailment>>, <<3, Tariff>>}}
=============================================================================

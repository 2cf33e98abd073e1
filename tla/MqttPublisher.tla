--------------------------- MODULE MqttPublisher ---------------------------
(***************************************************************************)
(* How the VTN publishes to its broker (vtn/notify/mqtt.rs): deliveries of *)
(* a batch share one connection.  A publish hands its packet to the client *)
(* and, from what the event loop announces, learns the identifier of the   *)
(* packet that goes out next and then waits for the acknowledgement that   *)
(* carries it.  A lock is held until the identifier is known.              *)
(*                                                                         *)
(* The client (rumqttc) and the broker are external: the client writes what*)
(* it was handed in order, under identifiers of its own, and after a       *)
(* connection is lost writes again, first, what was not acknowledged.      *)
(***************************************************************************)
EXTENDS Integers, Sequences, SequencesExt, FiniteSets

CONSTANTS
  Publishes,      \* the publishes there are, each with a packet of its own
  AtLeastOnce,    \* whether the configured quality of service is QoS 1
  QueueCapacity,  \* MqttConfig.queue_capacity
  Lag,            \* events a receiver may fall behind by
  MaxDrops        \* bound: lost connections

VARIABLES
  stage,      \* where each publish is
  pkid,       \* the identifier it has taken for its own: a set of one, or of none
  events,     \* what its receiver has not read yet
  writing,    \* who holds the lock: a set of one, or of none
  requests,   \* packets handed to the client
  pending,    \* packets to be written again: <<identifier, packet>>
  inflight,   \* packets written and not acknowledged, likewise
  connected,
  acks,       \* acknowledgements on their way
  received,   \* packets the broker has
  last,       \* the last identifier given out
  drops

publishers == <<stage, pkid, events, writing>>
client     == <<requests, pending, inflight, connected, acks, last, drops>>
vars       == <<publishers, client, received>>

Sent(k)  == <<"sent", k>>
Acked(k) == <<"acked", k>>
Dropped  == <<"dropped", 0>>

InFlight == {"identifying", "confirming"}
Settled  == {"confirmed", "failed"}

(***************************************************************************)
(* A publish.                                                              *)
(***************************************************************************)
\* QoS 0: handed to the client, with nothing to wait for and no lock.
PublishAtMostOnce(p) ==
  /\ ~ AtLeastOnce /\ stage[p] = "new"
  /\ IF Len(requests) < QueueCapacity
     THEN requests' = Append(requests, p) /\ stage' = [stage EXCEPT ![p] = "confirmed"]
     ELSE requests' = requests /\ stage' = [stage EXCEPT ![p] = "failed"]
  /\ UNCHANGED <<pkid, events, writing, pending, inflight, connected, acks, received, last, drops>>

\* The lock, a receiver that has heard nothing yet, and try_publish, which does
\* not wait: a full queue is a failure.
Queue(p) ==
  /\ AtLeastOnce /\ stage[p] = "new" /\ writing = {}
  /\ IF Len(requests) < QueueCapacity
     THEN /\ requests' = Append(requests, p)
          /\ stage' = [stage EXCEPT ![p] = "identifying"]
          /\ writing' = {p}
     ELSE /\ stage' = [stage EXCEPT ![p] = "failed"]
          /\ UNCHANGED <<requests, writing>>
  /\ events' = [events EXCEPT ![p] = <<>>]
  /\ UNCHANGED <<pkid, pending, inflight, connected, acks, received, last, drops>>

Settle(p, how) ==
  /\ stage' = [stage EXCEPT ![p] = how]
  /\ writing' = writing \ {p}
  /\ events' = [events EXCEPT ![p] = <<>>]
  /\ UNCHANGED <<pkid, client, received>>

Reads(p, event) == stage[p] \in InFlight /\ events[p] # <<>> /\ Head(events[p]) = event

\* wait_for, of an identifier: the first that goes out, and the lock is released.
Identify(p) ==
  \E k \in 1 .. last :
    /\ stage[p] = "identifying" /\ Reads(p, Sent(k))
    /\ pkid' = [pkid EXCEPT ![p] = {k}]
    /\ stage' = [stage EXCEPT ![p] = "confirming"]
    /\ events' = [events EXCEPT ![p] = Tail(@)]
    /\ writing' = writing \ {p}
    /\ UNCHANGED <<client, received>>

\* wait_for, of its acknowledgement.
Confirm(p) ==
  \E k \in pkid[p] :
    stage[p] = "confirming" /\ Reads(p, Acked(k)) /\ Settle(p, "confirmed")

\* What is not waited for is passed over.
PassOver(p) ==
  /\ stage[p] \in InFlight /\ events[p] # <<>>
  /\ Head(events[p]) # Dropped
  /\ stage[p] = "identifying" => Head(events[p])[1] # "sent"
  /\ stage[p] = "confirming" => Head(events[p]) \notin {Acked(k) : k \in pkid[p]}
  /\ events' = [events EXCEPT ![p] = Tail(@)]
  /\ UNCHANGED <<stage, pkid, writing, client, received>>

\* A lost connection, or more events than a receiver holds, is a failure.
Disconnected(p) ==
  stage[p] \in InFlight /\ (Reads(p, Dropped) \/ Len(events[p]) > Lag) /\ Settle(p, "failed")

\* The deadline of the publish, or the dispatcher's of the attempt.  The packet
\* stays where it is.
TimeOut(p) == stage[p] \in InFlight /\ Settle(p, "failed")

(***************************************************************************)
(* run_event_loop: what happens on the connection is announced to every    *)
(* receiver.                                                               *)
(***************************************************************************)
Announce(event) ==
  events' = [p \in Publishes |-> IF stage[p] \in InFlight THEN Append(events[p], event)
                                                         ELSE events[p]]

\* The next packet is written: what has to be written again goes first.
Send ==
  LET again == pending # <<>>
      packet == IF again THEN Head(pending) ELSE <<last + 1, Head(requests)>>
  IN /\ connected /\ (again \/ requests # <<>>)
     /\ pending' = IF again THEN Tail(pending) ELSE pending
     /\ requests' = IF again THEN requests ELSE Tail(requests)
     /\ last' = IF again THEN last ELSE last + 1
     /\ inflight' = IF AtLeastOnce THEN Append(inflight, packet) ELSE inflight
     /\ Announce(Sent(packet[1]))
     /\ UNCHANGED <<stage, pkid, writing, connected, acks, received, drops>>

\* The broker takes what was written, and acknowledges it.
Arrive ==
  \E i \in DOMAIN inflight :
    /\ connected /\ inflight[i][1] \notin ToSet(acks)
    /\ \A j \in 1 .. i - 1 : inflight[j][1] \in ToSet(acks)
    /\ received' = received \cup {inflight[i][2]}
    /\ acks' = Append(acks, inflight[i][1])
    /\ UNCHANGED <<publishers, requests, pending, inflight, connected, last, drops>>

Acknowledge ==
  /\ connected /\ acks # <<>>
  /\ acks' = Tail(acks)
  /\ inflight' = SelectSeq(inflight, LAMBDA packet : packet[1] # Head(acks))
  /\ Announce(Acked(Head(acks)))
  /\ UNCHANGED <<stage, pkid, writing, requests, pending, connected, received, last, drops>>

Drop ==
  /\ connected /\ drops < MaxDrops
  /\ drops' = drops + 1 /\ connected' = FALSE
  /\ pending' = inflight \o pending
  /\ inflight' = <<>> /\ acks' = <<>>
  /\ Announce(Dropped)
  /\ UNCHANGED <<stage, pkid, writing, requests, received, last>>

\* A second's pause, and the client connects again: to the session there was,
\* or to a new one, for which nothing is written again.
Reconnect ==
  /\ ~ connected /\ connected' = TRUE
  /\ pending' \in {pending, <<>>}
  /\ UNCHANGED <<publishers, requests, inflight, acks, received, last, drops>>

\* MqttNotifier::connect: the VTN does not wait for its broker.
Init ==
  /\ stage = [p \in Publishes |-> "new"]
  /\ pkid = [p \in Publishes |-> {}]
  /\ events = [p \in Publishes |-> <<>>]
  /\ writing = {} /\ requests = <<>> /\ pending = <<>> /\ inflight = <<>>
  /\ connected = FALSE
  /\ acks = <<>> /\ received = {} /\ last = 0 /\ drops = 0

Next ==
  \/ \E p \in Publishes :
       \/ PublishAtMostOnce(p) \/ Queue(p) \/ Identify(p) \/ Confirm(p)
       \/ PassOver(p) \/ Disconnected(p) \/ TimeOut(p)
  \/ Send \/ Arrive \/ Acknowledge \/ Drop \/ Reconnect

Spec == Init /\ [][Next]_vars

(***************************************************************************)
(* Properties.                                                             *)
(***************************************************************************)
\* "An outbox entry may be removed only once the notification is really gone
\* [...] So a QoS 1 publish waits for its PUBACK" (mqtt.rs:17): a publish that
\* is confirmed is one the broker has.
ConfirmedIsReceived ==
  AtLeastOnce => \A p \in Publishes : stage[p] = "confirmed" => p \in received
=============================================================================

------------------------------- MODULE MCMqtt -------------------------------
(* An instance of MqttPublisher for TLC: see README.md for the bounds. *)
EXTENDS MqttPublisher
=============================================================================

--------------------------- MODULE MCMqttSession ---------------------------
(* Payloads of two units, two state messages, a CONNACK as it should be or two units longer. *)
EXTENDS MqttSession
=============================================================================

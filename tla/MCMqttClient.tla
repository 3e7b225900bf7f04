---------------------------- MODULE MCMqttClient ----------------------------
(* Instances of MqttClient for TLC. *)
EXTENDS MqttClient

CONSTANTS sport, news
=============================================================================

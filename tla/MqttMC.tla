------------------------------- MODULE MqttMC -------------------------------
(* Model checking of the MQTT clients; the constants are in the .cfg.       *)
EXTENDS EspMqtt
=============================================================================

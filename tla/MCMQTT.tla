------------------------------- MODULE MCMQTT --------------------------------
(* Instances of the MQTT node for model checking.                          *)
EXTENDS MQTT
==============================================================================

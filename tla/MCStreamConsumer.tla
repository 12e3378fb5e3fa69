-------------------------- MODULE MCStreamConsumer --------------------------
(* StreamConsumer for the model checker: a sound event, one that does not   *)
(* parse, one of the bot's own, another sound one.                          *)
EXTENDS StreamConsumer
=============================================================================

-------------------------------- MODULE MCBus --------------------------------
(* A small instance of the bus for TLC. *)
EXTENDS Bus
=============================================================================

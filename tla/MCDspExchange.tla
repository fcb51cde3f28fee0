--------------------------- MODULE MCDspExchange ---------------------------
(***************************************************************************)
(* A snapshot of two parts, which is enough for a copy to be a mixture,    *)
(* and five publishes: two can pass between a load and its claim, a third  *)
(* can be writing during the copy, and two follow.  Telemetry of two words  *)
(* and a sequence of four: the second of three blocks turns it to 0, and    *)
(* two blocks during one read turn it round.                                *)
(***************************************************************************)
EXTENDS TelemetryExchange
=============================================================================

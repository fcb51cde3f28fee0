--------------------------- MODULE MCProtocolQueue ---------------------------
(***************************************************************************)
(* Two editors with one gesture key each, a channel of two entries and a   *)
(* host thread with a barrier, so that the channel is full with a command  *)
(* of each editor while the barrier waits for room outside it.  Three      *)
(* accepted commands are a write, a command of the same editor behind it   *)
(* and a later value that takes the first one's place.  No symmetry, since *)
(* the run checks liveness.                                                *)
(***************************************************************************)
EXTENDS ProtocolQueue
=============================================================================

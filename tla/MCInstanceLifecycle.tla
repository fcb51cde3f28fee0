------------------------ MODULE MCInstanceLifecycle ------------------------
(***************************************************************************)
(* Two plug-ins, so that one is active, is replaced as the active one and  *)
(* is notified while the other goes, and the runtime is shut down and      *)
(* started again; three commands and two polls, which is one of each more  *)
(* than can be in progress at a time.                                      *)
(***************************************************************************)
EXTENDS SharedRuntime
=============================================================================

------------------------------- MODULE MCSignal -------------------------------
(***************************************************************************)
(* Signal on small instances: two tasks, the dialog and a delivery of the   *)
(* webhook, over a socket that buffers two lines, with a queue of one.      *)
(***************************************************************************)
EXTENDS Signal

CONSTANTS dialog, delivery

TheTasks == {dialog, delivery}
TheHooks == {delivery}
=============================================================================

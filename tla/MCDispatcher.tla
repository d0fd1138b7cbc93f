----------------------------- MODULE MCDispatcher -----------------------------
(* Five checks and a pipe of two: enough for a failed connection, a full pipe
   and a reload between checks. *)
EXTENDS Dispatcher
=============================================================================

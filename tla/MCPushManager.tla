---------------------------- MODULE MCPushManager ----------------------------
(* Two devices and two ids, so that a device can change its id; three calls
   of writeFile under way at once and two crashes, so that a table recovered
   after one crash is rewritten and recovered again. *)
EXTENDS PushManager
=============================================================================

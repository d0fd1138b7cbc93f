-------------------------- MODULE MCCurrentStatuses --------------------------
(* A small instance of CurrentStatuses: two services, three kinds of report,
   a history of two entries that the fourth result of a service overflows.  *)
EXTENDS CurrentStatuses

Report(st, type) ==
  [state |-> st, state_type |-> type, scheduled_downtime_depth |-> 0,
   problem_has_been_acknowledged |-> 0]

MCReports == {Report(0, 1), Report(2, 0), Report(2, 1)}
=============================================================================

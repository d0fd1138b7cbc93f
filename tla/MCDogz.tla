--------------------------------- MODULE MCDogz ---------------------------------
(* One service, one phone, one kind of result: what the run is about is the order
   of announcements, deliveries and ends of sockets. *)
EXTENDS Dogz

Problem == [state |-> 2, state_type |-> 1, scheduled_downtime_depth |-> 0,
            problem_has_been_acknowledged |-> 0]
OneReport == {Problem}
=============================================================================

------------------------ MODULE MCConnectionsManager ------------------------
(* Two phones, two messages and three broadcasts: enough for one phone to be
   pending, another ready and a third broadcast to pass between their
   announcements. *)
EXTENDS ConnectionsManager

CONSTANTS m1, m2

MCMessages == {m1, m2}
MCSnapshots == {<<>>, <<m1, m2>>}
=============================================================================

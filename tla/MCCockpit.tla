------------------------------- MODULE MCCockpit -------------------------------
(* In the run about the lists a check gives OK with a metric, or the code of no
   state a plugin that cannot be run gives (127), without one and perhaps in the same
   second.  In the run about the pages two of three services are on one host, and
   a check may bring a metric that cannot be read. *)
EXTENDS Cockpit

TwoServices == {"web/http", "db/ping"}
ThreeServices == {"web/http", "web/ping", "db/ping"}
MCHostOf == [k \in Services |-> IF k = "db/ping" THEN "db" ELSE "web"]

Check(gap, code, perf) == [gap |-> gap, return_code |-> code, perf_data |-> perf]
OkAndUnknownState == {Check(2, 0, <<7>>), Check(0, 127, <<>>)}
Problems == {Check(1, 2, <<7>>), Check(1, 2, <<-1>>)}
AllTabs == Graphs
OverviewTab == {Overview}

(* The loops agree with the operators of the library. *)
ASSUME LoopsAgree ==
  \A s \in BoundedSeq(-1..2, 4), S \in SUBSET (-1..2) :
    /\ Kept(s, S) = SelectSeq(s, LAMBDA e : e \in S)
    /\ Places(s, S \cap DOMAIN s) = SetToSortSeq(S \cap DOMAIN s, <)
    /\ Total(s) = FoldSeq(+, 0, s)
===============================================================================

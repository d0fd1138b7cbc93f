--------------------------------- MODULE Loops ---------------------------------
(***************************************************************************)
(* What a loop over an array comes to: the entries it keeps, the places it *)
(* stops at, the sum it adds up.  They are recursive functions of the entry*)
(* the loop is at, and take a set or a sequence where the operators of     *)
(* Sequences and FiniteSetsExt take an operator.                           *)
(***************************************************************************)
EXTENDS Integers, Sequences

(* The entries of s that are in S, in their order. *)
Kept(s, S) ==
  LET kept[i \in 0..Len(s)] ==
        IF i = 0 THEN <<>>
        ELSE IF s[i] \in S THEN Append(kept[i - 1], s[i]) ELSE kept[i - 1]
  IN  kept[Len(s)]

(* The places of s that are in S, in their order. *)
Places(s, S) == Kept([i \in 1..Len(s) |-> i], S)

(* The sum of the entries of s. *)
Total(s) ==
  LET total[i \in 0..Len(s)] == IF i = 0 THEN 0 ELSE total[i - 1] + s[i]
  IN  total[Len(s)]
===============================================================================

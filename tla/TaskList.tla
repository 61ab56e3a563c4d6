------------------------------- MODULE TaskList -------------------------------
(* What a plan promises to the user who watches it, without the loop that
   drives it: the ids of its tasks and the places of those that are done.
   AgentLoop implements it.                                                    *)
EXTENDS Integers, Sequences

VARIABLES ids, done

listed == <<ids, done>>

Plans == {s \in Seq(Nat) : \A i, j \in DOMAIN s : s[i] = s[j] => i = j}

\* A plan starts with every task open.
Init == ids \in Plans /\ done = {}

\* Only the first open task can be finished.
Finish ==
  /\ \E i \in DOMAIN ids : done = 1..(i - 1) /\ done' = 1..i
  /\ UNCHANGED ids

\* A new plan: what is done stays done, at its place, and no id of it is given
\* out again.
Replan ==
  /\ ids' \in Plans
  /\ \A i \in done : i \in DOMAIN ids' /\ ids'[i] = ids[i]
  /\ UNCHANGED done

Spec == Init /\ [][Finish \/ Replan]_listed
===============================================================================

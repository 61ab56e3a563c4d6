----------------------------- MODULE MCBacklog -----------------------------
(* One passive, one active and one user key; the default policy.              *)
EXTENDS Backlog, TLC

Risks == [k \in Keys |-> IF k \in PassiveKeys THEN "medium" ELSE "low"]
Symmetric == Permutations(Procs)
TwoADay == [r \in {"low", "medium"} |-> 2]
OneLow == [r \in {"low", "medium"} |-> 1]
=============================================================================

--------------------------- MODULE SkillLifecycle ---------------------------
(* What the life of an evolved skill is, whoever works on the folders: it is
   proposed, the user accepts or drops it, and what is in use may be retired.
   Nothing comes into use without the user, nothing retired is used again, and
   only a reset takes away what he accepted.  A repair that is open when the
   skills are reset may put its skill back.                                   *)
CONSTANT Names

VARIABLES status,  \* of each name
          open     \* accepted skills under repair

vars == <<status, open>>

Init == status = [n \in Names |-> "none"] /\ open = {}

Moves(n, from, to) ==
  /\ status[n] = from
  /\ status' = [status EXCEPT ![n] = to]
  /\ UNCHANGED open

Accepted == {n \in Names : status[n] \in {"active", "archived"}}

Retire ==
  /\ \E S \in SUBSET {n \in Names : status[n] = "active"} :
       status' = [n \in Names |-> IF n \in S THEN "archived" ELSE status[n]]
  /\ UNCHANGED open

Reset == status' = [n \in Names |-> "none"] /\ UNCHANGED open

Repair == open' \in SUBSET (open \cup Accepted) /\ UNCHANGED status

\* A repair writes the files of a skill that was removed meanwhile.
Revive(n) == n \in open /\ \E from \in {"none", "pending"} : Moves(n, from, "active")

Next ==
  \/ \E n \in Names : \/ Moves(n, "none", "pending")   \* proposed
                      \/ Moves(n, "pending", "active") \* accepted
                      \/ Moves(n, "pending", "none")   \* dropped
                      \/ Revive(n)
  \/ Retire \/ Reset \/ Repair

Spec == Init /\ [][Next]_vars
=============================================================================

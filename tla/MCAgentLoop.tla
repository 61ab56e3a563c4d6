---------------------------- MODULE MCAgentLoop ----------------------------
(* Instances of AgentLoop for TLC. *)
EXTENDS AgentLoop

Todo(i) == [id |-> i, completed |-> FALSE]

\* Plans with distinct ids and no task marked done: none, and one with enough
\* tasks for the iteration limit to leave room for the tool budget.
SpreadPlans == {<<>>, <<Todo(1), Todo(2)>>}
=============================================================================

--------------------------- MODULE MCEvolutionRun ---------------------------
(* Instances of EvolutionRun for TLC. *)
EXTENDS EvolutionRun

CONSTANTS server, pulse, timer, trigger, command

\* Two callers of one server process, and the process the heartbeat starts.
Homes == [r \in {timer, trigger, command} |-> IF r = command THEN pulse ELSE server]
HomesInServer == [r \in {timer, trigger} |-> server]

\* The scopes of the prompt learner and of the skill learner.
TwoScopes == {{"rules", "examples"}, {"skills"}}
=============================================================================

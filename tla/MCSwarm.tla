------------------------------- MODULE MCSwarm -------------------------------
(* Instance of Swarm for TLC: a loopback node and two that announce themselves,
   of which one has the port of the first. *)
EXTENDS Swarm, TLC

CONSTANTS desk, a, b, calc, chat, sum

Ports == desk :> 7700 @@ a :> 7700 @@ b :> 7701
\* A task that needs a tag, and one of which nothing is said.
TaskNeeds == sum :> {calc} @@ chat :> {}
EmptyOrCalc == {{}, {calc}}
=============================================================================

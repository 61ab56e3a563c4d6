--------------------------- MODULE MCEnvironments ---------------------------
(* Who runs skills of which language.                                         *)
EXTENDS Environments, TLC

Apart == CHOOSE f \in [Procs -> SUBSET Langs] :
           \A p, q \in Procs : f[p] # {} /\ (p # q => f[p] \cap f[q] = {})
Everybody == [p \in Procs |-> Langs]
Symmetric == Permutations(Files)
=============================================================================

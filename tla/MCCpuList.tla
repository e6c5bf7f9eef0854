------------------------------ MODULE MCCpuList ------------------------------
(* Model-checking instances of CpuList on a 4-CPU machine: every          *)
(* expression of up to three tokens naming CPUs 0..4 (4 does not exist),  *)
(* plus a malformed token.                                                 *)
EXTENDS CpuList

CONSTANT MCMalformed

MCCpuCount == 4

MCTokens == {[start |-> s, end |-> e] : s, e \in 0..4} \cup {MCMalformed}

MCAllInputs == UNION {[1..n -> MCTokens] : n \in 0..3}

\* Expressions written in ascending order of their first CPU.
MCAscendingInputs ==
  {x \in MCAllInputs :
     \A i, j \in DOMAIN x :
        i < j /\ x[i] # MCMalformed /\ x[j] # MCMalformed => x[i].start <= x[j].start}
=============================================================================

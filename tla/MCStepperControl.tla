-------------------------- MODULE MCStepperControl --------------------------
EXTENDS StepperControl
UnevenBlocks == [p \in Programs |-> CASE p = "cur" -> 1 [] p = "auto" -> 2 [] p = "mdi" -> 3]
FewBlocks    == [p \in Programs |-> IF p = "auto" THEN 2 ELSE 1]
=============================================================================

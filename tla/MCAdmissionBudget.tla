------------------------- MODULE MCAdmissionBudget -------------------------
(* Two executions and one retry, two of them at a time, within an amount of 3. *)
EXTENDS AdmissionBudget, TLC

TwoAndOne == [k \in Kinds |-> IF k = "EXECUTION" THEN 2 ELSE IF k = "RETRY" THEN 1 ELSE 0]
Symmetric == Permutations(Ids)
=============================================================================

------------------------------ MODULE MCWorkflow ------------------------------
(* Small instances of Workflow for TLC. *)
EXTENDS Workflow, TLC

StepSymmetry == Permutations(Step)
Symmetry == Permutations(Step) \cup Permutations(Worker)
=============================================================================

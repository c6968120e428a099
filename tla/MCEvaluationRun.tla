-------------------------- MODULE MCEvaluationRun --------------------------
(***************************************************************************)
(* Instances of EvaluationRun for TLC.                                     *)
(***************************************************************************)
EXTENDS EvaluationRun

\* The default of EVALUATION_MAX_CONCURRENT_CASES.
Pairs == [r \in Runs |-> 2]
=============================================================================

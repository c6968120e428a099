---------------------------- MODULE MCAdmission ----------------------------
(***************************************************************************)
(* Instances of Admission for TLC.                                         *)
(***************************************************************************)
EXTENDS Admission

OneSlot == [t \in Tasks |-> 1]
=============================================================================

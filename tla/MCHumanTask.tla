---------------------------- MODULE MCHumanTask ----------------------------
(***************************************************************************)
(* Instances of HumanTask for TLC: the .cfg files give every constant its  *)
(* value, handlers and answers being model values.                         *)
(***************************************************************************)
EXTENDS HumanTask
=============================================================================

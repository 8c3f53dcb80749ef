------------------------------ MODULE MCProgram ------------------------------
(* Instances of Program for TLC: a second process after one of two rounds. *)
EXTENDS Program

TwoThenOne == <<2, 1>>
=============================================================================

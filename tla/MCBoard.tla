------------------------------- MODULE MCBoard ------------------------------
(* Instances of Board for model checking. *)
EXTENDS Board

CONSTANTS t1, t2

OneTool == {t1}
=============================================================================

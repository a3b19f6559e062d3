------------------------------ MODULE MCAgents ------------------------------
(***************************************************************************)
(* Instances of Agents for TLC: every thread works in the same folder.     *)
(***************************************************************************)
EXTENDS Agents

CONSTANTS s1, s2, s3

ThreeSids == {s1, s2, s3}
SameFolder == [t \in Thread |-> CHOOSE c \in Cwd : TRUE]
=============================================================================

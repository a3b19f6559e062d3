----------------------------- MODULE MCPrompts ------------------------------
(***************************************************************************)
(* Instances of Prompts for TLC.                                           *)
(***************************************************************************)
EXTENDS Prompts

\* Both calls are of one tool, so that a grant for the first covers the second
MCOneTool == [c \in Call |-> CHOOSE t \in Tool : TRUE]

\* No two dialogs read alike
MCOwnRows == [d \in Dialog |-> d]
=============================================================================

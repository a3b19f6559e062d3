------------------------------- MODULE MCLink -------------------------------
(* Instances of Link for model checking. *)
EXTENDS Link, TLC

CONSTANTS m1, m2, c1, c2, c3

OneMachine == {m1}
TwoConns == {c1, c2}

\* Connections are told apart by nothing but their history
Swaps == Permutations(TwoConns)

CutsAndExits == {"cut", "exit"}
=============================================================================

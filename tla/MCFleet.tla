------------------------------ MODULE MCFleet ------------------------------
(* Instances of Fleet for model checking. *)
EXTENDS Fleet, TLC

CONSTANTS g, a, b, x, y

Three == {g, a, b}
OneFresh == {x}
RankThree == g :> 0 @@ a :> 1 @@ b :> 2 @@ x :> 3
Versions == {1, 2}
OneVersion == {1}
ToTwo == {2}
Nobody == {}
OnlyB == {b}
Breakdowns == {"boxdown", "gatewaydown", "refuse"}
AllButCrash == {"cut", "boxdown", "refuse", "slow"}
============================================================================

------------------------------ MODULE Custody -------------------------------
(***************************************************************************)
(* What moving a conversation between machines promises: it is in one      *)
(* place at a time.  It begins on a machine, leaves it as a whole for one  *)
(* other, and arrives there and nowhere else; on the way it may be lost,   *)
(* and what is lost is never half there.                                   *)
(***************************************************************************)
CONSTANT Machine

VARIABLE place  \* where the conversation is

Unborn == [is |-> "unborn"]
Lost == [is |-> "lost"]
At(m) == [is |-> "at", machine |-> m]
To(m) == [is |-> "on its way", machine |-> m]

Init == place = Unborn

Begin == place = Unborn /\ \E m \in Machine : place' = At(m)
Leave == place.is = "at" /\ \E m \in Machine : place' = To(m)
Arrive == place.is = "on its way" /\ place' = At(place.machine)
Lose == place # Unborn /\ place' = Lost

Next == Begin \/ Leave \/ Arrive \/ Lose

Spec == Init /\ [][Next]_place
=============================================================================

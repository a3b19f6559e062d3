----------------------------- MODULE MCDelivery -----------------------------
(***************************************************************************)
(* Instances of Delivery for TLC.                                          *)
(***************************************************************************)
EXTENDS Delivery

\* Every request has a timestamp of its own
MCTsOwn == [m \in Msg |-> m]

=============================================================================

------------------------------- MODULE Names --------------------------------
(***************************************************************************)
(* What the connection book promises, with no sockets and no tasks: a name *)
(* is held by the connection that claimed it last, until that connection   *)
(* itself retires.  A connection that has been displaced may retire at any *)
(* time and takes nothing with it.                                         *)
(***************************************************************************)
CONSTANTS Machines, Conns, NoConn

VARIABLES
    holder,  \* the connection each name is held by
    claims   \* the name each connection has claimed and not retired from

Init == /\ holder = [m \in Machines |-> NoConn]
        /\ claims = {}

Claim(m, c) ==
    /\ \A n \in Machines : <<n, c>> \notin claims
    /\ holder' = [holder EXCEPT ![m] = c]
    /\ claims' = claims \cup {<<m, c>>}

Retire(m, c) ==
    /\ <<m, c>> \in claims
    /\ claims' = claims \ {<<m, c>>}
    /\ holder' = IF holder[m] = c THEN [holder EXCEPT ![m] = NoConn] ELSE holder

Next == \E m \in Machines, c \in Conns : Claim(m, c) \/ Retire(m, c)

Spec == Init /\ [][Next]_<<holder, claims>>

(* A name is held by a connection that claims it. *)
HolderClaims == \A m \in Machines : holder[m] # NoConn => <<m, holder[m]>> \in claims
=============================================================================

----------------------------- MODULE GroupLease -----------------------------
(***************************************************************************)
(* What grouping promises a follower: it belongs to one leader connection  *)
(* at a time, takes a new one only after it let the old one go, and never  *)
(* returns to a connection it let go or turned down.                       *)
(***************************************************************************)
CONSTANTS Node, Conn, NoConn

VARIABLES
  holder,   \* the connection an instance follows
  over      \* connections no instance will follow any more

Held == {holder[n] : n \in Node} \ {NoConn}

Init == holder = [n \in Node |-> NoConn] /\ over = {}

Join(n, c) ==
  /\ holder[n] = NoConn /\ c \notin Held \cup over
  /\ holder' = [holder EXCEPT ![n] = c]
  /\ UNCHANGED over

Leave(n) ==
  /\ holder[n] # NoConn
  /\ holder' = [holder EXCEPT ![n] = NoConn]
  /\ over \cup {holder[n]} \subseteq over'

Refuse ==
  /\ over \subseteq over' /\ over' \cap Held = {}
  /\ UNCHANGED holder

Next == (\E n \in Node : Leave(n) \/ \E c \in Conn : Join(n, c)) \/ Refuse

Spec == Init /\ [][Next]_<<holder, over>>
=============================================================================

----------------------------- MODULE MCSimpleFSM -----------------------------
(***************************************************************************)
(* Small instances of SimpleFSM.  The nodes are 1 (a state, the root),     *)
(* 2 (handler), 3 (a state), 4 (handler); the edges form the ring          *)
(* 1 -> 2 -> 3 -> 4 -> 1, so the route from 2 to 4 passes by the state 3.  *)
(* 9 is an id nobody registered.                                           *)
(***************************************************************************)
EXTENDS SimpleFSM

MCNodes == 1..4
MCHandlers == {2, 4}

\* The shortest routes of the ring: the walk from a to b, once around at most.
MCRoute(a, b) ==
    IF a = b \/ b \notin MCNodes THEN <<>>
    ELSE [i \in 1..(((b - a) % 4) + 1) |-> ((a + i - 2) % 4) + 1]
=============================================================================

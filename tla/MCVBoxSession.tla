--------------------------- MODULE MCVBoxSession ---------------------------
(***************************************************************************)
(* Instances of VBoxSession on its own graph, with the routes that         *)
(* findShortestPath finds in it.                                           *)
(***************************************************************************)
EXTENDS VBoxSession, FSMRouting

Routes == [a \in Nodes |-> [b \in Nodes |-> FindShortestPath(Links, a, b)]]
MCRoute(a, b) == Routes[a][b]

\* From wherever a session is, the engine plans a shortest route to every node.
WellRouted == {a \in Nodes : \A b \in Nodes : IsShortestRoute(Links, a, b, MCRoute(a, b))}
RoutesAreShortest == cur \in WellRouted
=============================================================================

----------------------------- MODULE FSMRouting -----------------------------
(***************************************************************************)
(* findShortestPath of src/src/SimpleFSM.cpp, the search by which FSMGoto  *)
(* plans: depth first over the children in the order of their              *)
(* registration, cut off where it cannot get shorter any more.             *)
(***************************************************************************)
EXTENDS Naturals, Sequences, SequencesExt, FiniteSets

\* What the calls share: clipLength and bestPath.  `found` is the early return
\* of the call that has found the goal among its children.
Search(clip) == [clip |-> clip, best |-> <<>>, found |-> FALSE]

\* Deviation: a path that has come too far is followed all the same.
NeverClipped(here, search) == FALSE

Clipped(here, search) == Len(here) >= search.clip

\* One child of the last node of a path, where find[p][s] is the search from the end of p.
Visit(find, here, goal, search, child) ==
    IF search.found \/ child \in ToSet(here) THEN search
    ELSE IF child = goal
         THEN [clip |-> Len(here), best |-> Append(here, child), found |-> TRUE]
         ELSE find[Append(here, child)][search]

\* No node is visited twice on a path.
Paths(nodes)    == {p \in Seq(nodes) : p # <<>> /\ IsInjective(p)}
Searches(nodes) == [clip : Nat, best : Seq(nodes), found : BOOLEAN]

\* What a call makes of the search, for each path by which it can be reached.
FindFrom(links, goal) ==
    LET find[here \in Paths(DOMAIN links)] ==
            [search \in Searches(DOMAIN links) |->
                IF Clipped(here, search) THEN search
                ELSE [FoldLeft(LAMBDA s, child : Visit(find, here, goal, s, child), search, links[Last(here)])
                        EXCEPT !.found = FALSE]]
    IN  find

\* <<from, ..., goal>>, or <<>> when there is no route.
FindShortestPath(links, from, goal) ==
    FindFrom(links, goal)[<<from>>][Search(Cardinality(DOMAIN links))].best

\* The reference: the nodes that are at most k links away, by breadth.
Layer(links, from) ==
    LET layers[k \in Nat] ==
            IF k = 0 THEN {from}
            ELSE LET nearer == layers[k - 1]
                 IN  nearer \cup UNION {ToSet(links[n]) : n \in nearer}
    IN  layers

\* A route is a walk along the links that no other walk beats; there is none
\* exactly when the goal is the node itself or out of reach.
IsShortestRoute(links, from, goal, route) ==
    LET within == Layer(links, from)
    IN  IF route = <<>>
        THEN goal = from \/ goal \notin within[Cardinality(DOMAIN links)]
        ELSE /\ route[1] = from /\ route[Len(route)] = goal
             /\ \A i \in 1..(Len(route) - 1) : route[i + 1] \in ToSet(links[route[i]])
             /\ goal \notin within[Len(route) - 2]
=============================================================================

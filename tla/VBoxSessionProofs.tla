------------------------- MODULE VBoxSessionProofs -------------------------
(***************************************************************************)
(* Proofs about VBoxSession: what a session records and where it ends,     *)
(* what it knows of the machine's media, which faults it heals, what it    *)
(* never does to the user's data and work, and that the routes it takes    *)
(* are the shortest, those of any graph included.                          *)
(*                                                                         *)
(* Everything rests on SessionInv, which says where the engine is between  *)
(* any two steps and what is then certain of the machine.  MediaInv and    *)
(* HealInv are added to it for the list of the media and for the errors,   *)
(* ReadyInv for the user data; WorkInv and OnGraph stand by themselves.    *)
(***************************************************************************)
EXTENDS MCVBoxSession, SequenceTheorems, FiniteSetTheorems, WellFoundedInduction, TLAPS

(***************************************************************************)
(* The graph.                                                              *)
(***************************************************************************)
\* The nodes at which the state of the machine is certain once a query has seen it.
Driven == 3..7 \cup 104..111 \cup 201..211

\* The state of the machine after the handler of n has succeeded, or at the checkpoint n.
Leaves(n) ==
    CASE n \in {3, 208} -> "none"
      [] n \in {5, 109, 211} -> "saved"
      [] n \in {6, 110} -> "paused"
      [] n \in {7, 111, 206} -> "running"
      [] OTHER -> "poweroff"

\* The states in which the handler of n can find a machine that has been seen.
Finds(n) ==
    CASE n = 104 -> {"none"}
      [] n = 206 -> {"poweroff", "saved"}
      [] n \in {107, 211} -> {"saved"}
      [] n \in {109, 111} -> {"paused"}
      [] n \in {106, 110} -> {"running"}
      [] OTHER -> {"poweroff"}

\* What the registry says, node by node.
LEMMA OneLink == \A n, a : Links[n] = <<a>> => LinkedTo(n) = {a}
  BY DEF LinkedTo
LEMMA TwoLinks == \A n, a, b : Links[n] = <<a, b>> => LinkedTo(n) = {a, b}
  BY DEF LinkedTo
LEMMA NoLink == \A n : Links[n] = <<>> => LinkedTo(n) = {}
  BY DEF LinkedTo
LEMMA SixLinks == Links[101] = <<2, 3, 4, 5, 6, 7>> /\ LinkedTo(101) = {2, 3, 4, 5, 6, 7}
  BY DEF LinkedTo, Links, Nodes
LEMMA States17 ==
    /\ Links[1] = <<100>> /\ Links[2] = <<102, 112>> /\ Links[3] = <<104>> /\ Links[4] = <<105, 108>>
    /\ Links[5] = <<107, 211>> /\ Links[6] = <<109, 111>> /\ Links[7] = <<110, 106>>
  BY DEF Links, Nodes
LEMMA Handlers100 ==
    /\ Links[100] = <<101>> /\ Links[102] = <<103>> /\ Links[103] = <<101>> /\ Links[104] = <<4>>
    /\ Links[105] = <<207>> /\ Links[106] = <<209>> /\ Links[107] = <<209>> /\ Links[108] = <<210>>
    /\ Links[109] = <<5>> /\ Links[110] = <<6>> /\ Links[111] = <<7>> /\ Links[112] = <<>>
  BY DEF Links, Nodes
LEMMA Handlers200 ==
    /\ Links[201] = <<202>> /\ Links[202] = <<203>> /\ Links[203] = <<204>> /\ Links[204] = <<205>>
    /\ Links[205] = <<206>> /\ Links[206] = <<7>> /\ Links[207] = <<208>> /\ Links[208] = <<3>>
    /\ Links[209] = <<4>> /\ Links[210] = <<201>> /\ Links[211] = <<206>>
  BY DEF Links, Nodes

LEMMA StatesLinkTo ==
    /\ LinkedTo(1) = {100} /\ LinkedTo(2) = {102, 112} /\ LinkedTo(3) = {104}
    /\ LinkedTo(4) = {105, 108} /\ LinkedTo(5) = {107, 211} /\ LinkedTo(6) = {109, 111}
    /\ LinkedTo(7) = {110, 106}
  BY OneLink, TwoLinks, States17
LEMMA HandlersLinkTo ==
    /\ LinkedTo(100) = {101} /\ LinkedTo(101) = 2..7 /\ LinkedTo(102) = {103}
    /\ LinkedTo(103) = {101} /\ LinkedTo(104) = {4} /\ LinkedTo(105) = {207}
    /\ LinkedTo(106) = {209} /\ LinkedTo(107) = {209} /\ LinkedTo(108) = {210}
    /\ LinkedTo(109) = {5} /\ LinkedTo(110) = {6} /\ LinkedTo(111) = {7}
    /\ LinkedTo(112) = {}
<1>1. {2, 3, 4, 5, 6, 7} = 2..7  OBVIOUS
<1> QED  BY <1>1, OneLink, NoLink, SixLinks, Handlers100
LEMMA StepsLinkTo ==
    /\ LinkedTo(201) = {202} /\ LinkedTo(202) = {203} /\ LinkedTo(203) = {204}
    /\ LinkedTo(204) = {205} /\ LinkedTo(205) = {206} /\ LinkedTo(206) = {7}
    /\ LinkedTo(207) = {208} /\ LinkedTo(208) = {3} /\ LinkedTo(209) = {4}
    /\ LinkedTo(210) = {201} /\ LinkedTo(211) = {206}
  BY OneLink, Handlers200

\* Where a link from a may lead.
LinkIs(a, b) ==
    \/ (a = 1 /\ b = 100) \/ (a = 2 /\ b \in {102, 112}) \/ (a = 3 /\ b = 104) \/ (a = 4 /\ b \in {105, 108})
    \/ (a = 5 /\ b \in {107, 211}) \/ (a = 6 /\ b \in {109, 111}) \/ (a = 7 /\ b \in {110, 106})
    \/ (a = 100 /\ b = 101) \/ (a = 101 /\ b \in 2..7) \/ (a = 102 /\ b = 103) \/ (a = 103 /\ b = 101)
    \/ (a = 104 /\ b = 4) \/ (a = 105 /\ b = 207) \/ (a = 106 /\ b = 209) \/ (a = 107 /\ b = 209)
    \/ (a = 108 /\ b = 210) \/ (a = 109 /\ b = 5) \/ (a = 110 /\ b = 6) \/ (a = 111 /\ b = 7)
    \/ (a = 201 /\ b = 202) \/ (a = 202 /\ b = 203) \/ (a = 203 /\ b = 204) \/ (a = 204 /\ b = 205)
    \/ (a = 205 /\ b = 206) \/ (a = 206 /\ b = 7) \/ (a = 207 /\ b = 208) \/ (a = 208 /\ b = 3)
    \/ (a = 209 /\ b = 4) \/ (a = 210 /\ b = 201) \/ (a = 211 /\ b = 206)

LEMMA TheLinks ==
    ASSUME NEW a \in Nodes, NEW b \in LinkedTo(a)
    PROVE  LinkIs(a, b)
<1>1. CASE a \in 1..7
  BY <1>1, StatesLinkTo DEF LinkIs
<1>2. CASE a \in 100..112
  BY <1>2, HandlersLinkTo DEF LinkIs
<1>3. CASE a \in 201..211
  BY <1>3, StepsLinkTo DEF LinkIs
<1> QED  BY <1>1, <1>2, <1>3 DEF Nodes

LEMMA Link ==
    ASSUME NEW a \in Nodes, NEW b \in LinkedTo(a)
    PROVE  /\ b \in Nodes \ {1, 100}  \/ (a = 1 /\ b = 100)
           /\ a \in 1..7 => b \in Handlers
           /\ a = 100 => b = 101
           /\ a \in {205, 211} => b = 206
           /\ b = 206 => a \in {205, 211}
           /\ b = 112 => a = 2
           /\ b = 105 => a = 4
           /\ a # 112
<1>1. LinkIs(a, b)  BY TheLinks
<1> QED  BY <1>1 DEF LinkIs, Nodes, Handlers

\* Each link leads from what one handler leaves to what the next one finds.
LEMMA DrivenLink ==
    ASSUME NEW a \in Driven, NEW b \in LinkedTo(a)
    PROVE  /\ b \in Driven
           /\ b \in Handlers => Leaves(a) \in Finds(b)
           /\ b \in Checkpoints => Leaves(a) = StateOf[b] /\ Leaves(b) = StateOf[b]
<1>0. a \in Nodes  BY DEF Driven, Nodes
<1>1. LinkIs(a, b)  BY <1>0, TheLinks
<1>2. b \in Driven  BY <1>1 DEF LinkIs, Driven
<1>3. ASSUME b \in Handlers PROVE Leaves(a) \in Finds(b)
  BY <1>1, <1>3 DEF LinkIs, Driven, Handlers, Nodes, Leaves, Finds
<1>4. ASSUME b \in Checkpoints PROVE Leaves(a) = StateOf[b] /\ Leaves(b) = StateOf[b]
  BY <1>1, <1>4 DEF LinkIs, Driven, Checkpoints, Leaves, StateOf
<1> QED  BY <1>2, <1>3, <1>4

(***************************************************************************)
(* The invariant.                                                          *)
(***************************************************************************)
\* A walk along the links.
Linked(p) == \A i \in 1..(Len(p) - 1) : p[i + 1] \in LinkedTo(p[i])

\* A path is a walk to the target that goes on from the current node or, where a handler or an
\* update has skewed the engine, begins with it.
OnItsWay ==
    path # <<>> =>
        /\ Linked(path) /\ path[Len(path)] = target
        /\ path[1] \in LinkedTo(cur) \/ (path[1] = cur /\ handler = 0 /\ cur \in 2..7 \cup {107})
        /\ \/ target \in Checkpoints
           \/ target = 101 /\ cur = 1 /\ path = <<100, 101>>
           \/ target = 101 /\ cur = 100 /\ path = <<101>>

\* Where there is no path.
AtRest ==
    path = <<>> => IF handler = 0 THEN cur \in 1..7 \cup {101, 112}
                                  ELSE handler = 101 /\ target = 101

\* The engine heads for what was asked for, or is there, or nobody knows where it is.
Asked ==
    wish # 0 => IF path = <<>> THEN handler = 0 /\ (blind \/ cur = wish) ELSE target = wish

\* A checkpoint is recorded where it is reached.
Recorded == cur \in Checkpoints => recorded = StateOf[cur]

\* What the machine's state is where the session has seen it: before a handler, after it, and
\* between a skew to DiscardVMState and its handler.
Placed ==
    ~blind => /\ cur \in Driven
              /\ handler # 0 => box.state \in Finds(handler)
              /\ handler = 0 /\ SkewedTo => box.state \in Finds(cur)
              /\ handler = 0 /\ ~SkewedTo => box.state = Leaves(cur)

Driving == OnItsWay /\ AtRest /\ Asked /\ Recorded /\ Placed

\* A machine is started with the data that were put into it.
Ready == handler = 206 \/ (handler = 0 /\ cur \in {205, 211}) => ~outdated

\* What holds whether or not the session is aborting.
Basics ==
    /\ opens = 0 => /\ cur = 1 /\ path = <<>> /\ handler = 0 /\ wish = 0 /\ blind /\ ~aborting
    /\ cache = {}
    /\ ~hasId => box.state = "none"
    /\ handler # 0 => cur = handler

SessionInv == TypeOK /\ Basics /\ (~aborting => Driving)

(***************************************************************************)
(* Routes.                                                                 *)
(***************************************************************************)
LEMMA TailIs ==
    ASSUME NEW a \in Nodes, NEW b \in Nodes, Route(a, b) # <<>>
    PROVE  LET p == Tail(Route(a, b))
           IN  p \in Seq(Nodes) /\ p # <<>> /\ Linked(p) /\ p[Len(p)] = b /\ p[1] \in LinkedTo(a)
<1> DEFINE r == Route(a, b)
           p == Tail(r)
<1>1. /\ r \in Seq(Nodes) /\ Len(r) > 1 /\ r[1] = a /\ r[Len(r)] = b
      /\ \A i \in 1..(Len(r) - 1) : r[i + 1] \in LinkedTo(r[i])
  BY RouteAssumption DEF IsRoute
<1> HIDE DEF r
<1>2. p \in Seq(Nodes) /\ Len(p) = Len(r) - 1 /\ \A i \in 1..Len(p) : p[i] = r[i + 1]
  BY <1>1
<1>3. Len(p) \in Nat /\ Len(p) > 0 /\ Len(r) \in Nat  BY <1>1, <1>2
<1>4. p # <<>>  BY <1>3
<1>5. p[Len(p)] = b /\ p[1] \in LinkedTo(a)  BY <1>1, <1>2, <1>3
<1>6. Linked(p)
  <2> SUFFICES ASSUME NEW i \in 1..(Len(p) - 1) PROVE p[i + 1] \in LinkedTo(p[i])  BY DEF Linked
  <2>1. i + 1 \in 1..(Len(r) - 1) /\ i \in 1..Len(p) /\ i + 1 \in 1..Len(p)  BY <1>2, <1>3
  <2> QED  BY <1>1, <1>2, <2>1
<1> QED  BY <1>2, <1>4, <1>5, <1>6 DEF r

LEMMA RouteIs ==
    ASSUME NEW a \in Nodes, NEW b \in Nodes, Route(a, b) # <<>>
    PROVE  LET p == Route(a, b)
           IN  p \in Seq(Nodes) /\ Linked(p) /\ p[Len(p)] = b /\ p[1] = a
  BY RouteAssumption DEF IsRoute, Linked

LEMMA NoRoute ==
    ASSUME NEW a \in Nodes, NEW b \in Checkpoints
    PROVE  Route(a, b) = <<>> <=> a = b \/ a = 112
<1>0. b \in Nodes  BY DEF Checkpoints, Nodes
<1>1. Route(a, b) = <<>> => a = b \/ a = 112  BY RouteAssumption
<1>2. ASSUME Route(a, b) # <<>> PROVE a # b /\ a # 112
  <2> DEFINE r == Route(a, b)
  <2>1. /\ r \in Seq(Nodes) /\ Len(r) > 1 /\ r[1] = a /\ r[Len(r)] = b
        /\ \A i \in 1..(Len(r) - 1) : r[i + 1] \in LinkedTo(r[i])
        /\ \A i, j \in DOMAIN r : r[i] = r[j] => i = j
    BY <1>0, <1>2, RouteAssumption DEF IsRoute
  <2> HIDE DEF r
  <2>2. Len(r) \in Nat /\ DOMAIN r = 1..Len(r)  BY <2>1
  <2>3. r[2] \in LinkedTo(a)  BY <2>1, <2>2
  <2>4. a # 112  BY <2>3, HandlersLinkTo
  <2>5. 1 \in DOMAIN r /\ Len(r) \in DOMAIN r /\ 1 # Len(r)  BY <2>1, <2>2
  <2> QED  BY <2>1, <2>4, <2>5
<1> QED  BY <1>1, <1>2

LEMMA StripIs ==
    ASSUME NEW a \in Nodes, NEW b \in Nodes
    PROVE  (IF Route(a, b) = <<>> THEN <<>> ELSE Tail(Route(a, b))) \in Seq(Nodes)
  BY TailIs

LEMMA NodesAre ==
    /\ Checkpoints \subseteq Nodes /\ Handlers \subseteq Nodes /\ 0 \notin Nodes
    /\ Handlers \cap Checkpoints = {} /\ Checkpoints \subseteq Driven /\ Driven \subseteq Nodes
    /\ {1, 2, 101, 112, 107} \subseteq Nodes /\ {101, 112, 107} \subseteq Handlers
    /\ 1..7 \cap Handlers = {}
  BY DEF Checkpoints, Handlers, Nodes, Driven

LEMMA StatesAre ==
    /\ States = {"none", "poweroff", "saved", "paused", "running"}
    /\ \A n \in Checkpoints : StateOf[n] \in States
    /\ \A s \in States : NodeOf(s) \in Checkpoints /\ StateOf[NodeOf(s)] = s
<1>1. /\ StateOf[3] = "none" /\ StateOf[4] = "poweroff" /\ StateOf[5] = "saved"
      /\ StateOf[6] = "paused" /\ StateOf[7] = "running"
  BY DEF StateOf, Checkpoints
<1>2. Checkpoints = {3, 4, 5, 6, 7}  BY DEF Checkpoints
<1>3. States = {"none", "poweroff", "saved", "paused", "running"}
  BY <1>1, <1>2 DEF States
<1>4. \A n \in Checkpoints : StateOf[n] \in States  BY DEF States
<1>5. \A s \in States : \E n \in Checkpoints : StateOf[n] = s  BY DEF States
<1> QED  BY <1>3, <1>4, <1>5 DEF NodeOf

(***************************************************************************)
(* The engine.                                                             *)
(***************************************************************************)
LEMMA MaxOfOne == \A n \in Int : Max({n}) = n
  BY DEF Max

LEMMA MinIs ==
    ASSUME NEW S \in SUBSET Nat, S # {}
    PROVE  Min(S) \in S /\ \A n \in S : Min(S) <= n
<1>0. \A k \in S : k \in Nat  OBVIOUS
<1>1. PICK m \in S : \A k \in S : <<k, m>> \notin OpToRel(<, Nat)
  BY WFMin, NatLessThanWellFounded, Zenon
<1>2. \A k \in S : ~(k < m)  BY <1>1, Zenon DEF OpToRel
<1>3. \A k \in S : m <= k  BY <1>0, <1>2, SMT
<1> QED  BY <1>3, Zenon DEF Min

\* What is recorded on entering one node.
LEMMA EntersOne ==
    ASSUME NEW n, Enters(<<n>>), recorded \in States
    PROVE  recorded' \in States /\ (~aborting /\ n \in Checkpoints => recorded' = StateOf[n])
<1> DEFINE marks == {i \in DOMAIN <<n>> : <<n>>[i] \in Checkpoints}
<1>1. n \in Checkpoints => marks = {1}  OBVIOUS
<1>2. n \notin Checkpoints => marks = {}  OBVIOUS
<1>3. recorded' = IF marks = {} \/ aborting THEN recorded ELSE StateOf[<<n>>[Max(marks)]]
  BY DEF Enters
<1> HIDE DEF marks
<1>4. Max({1}) = 1  BY MaxOfOne
<1>5. n \in Checkpoints => recorded' = IF aborting THEN recorded ELSE StateOf[n]
  BY <1>1, <1>3, <1>4
<1> QED  BY <1>2, <1>3, <1>5, StatesAre

\* Passing by a node of the first seven on the way to a handler.
LEMMA EntersTwo ==
    ASSUME NEW a, NEW b, Enters(<<a, b>>), b \notin Checkpoints, recorded \in States
    PROVE  recorded' \in States
<1> DEFINE marks == {i \in DOMAIN <<a, b>> : <<a, b>>[i] \in Checkpoints}
<1>1. a \in Checkpoints => marks = {1}  OBVIOUS
<1>2. a \notin Checkpoints => marks = {}  OBVIOUS
<1>3. recorded' = IF marks = {} \/ aborting THEN recorded ELSE StateOf[<<a, b>>[Max(marks)]]
  BY DEF Enters
<1> HIDE DEF marks
<1>4. Max({1}) = 1  BY MaxOfOne
<1>5. a \in Checkpoints => recorded' = IF aborting THEN recorded ELSE StateOf[a]
  BY <1>1, <1>3, <1>4
<1> QED  BY <1>2, <1>3, <1>5, StatesAre

\* The stop of FSMContinue: the first handler, or the last node.
Stops == {i \in DOMAIN path : path[i] \in Handlers \/ i = Len(path)}

LEMMA StopIs ==
    ASSUME path \in Seq(Nodes), path # <<>>
    PROVE  /\ Min(Stops) \in 1..Len(path)
           /\ path[Min(Stops)] \in Handlers \/ Min(Stops) = Len(path)
           /\ \A i \in 1..Len(path) : i < Min(Stops) => path[i] \notin Handlers
<1>1. Len(path) \in Nat /\ DOMAIN path = 1..Len(path) /\ Len(path) # 0  BY EmptySeq, LenProperties
<1>2. Stops \in SUBSET Nat /\ Len(path) \in Stops  BY <1>1 DEF Stops
<1>3. Min(Stops) \in Stops /\ \A n \in Stops : Min(Stops) <= n  BY <1>2, MinIs
<1>4. Min(Stops) \in 1..Len(path) /\ (path[Min(Stops)] \in Handlers \/ Min(Stops) = Len(path))
  BY <1>1, <1>3 DEF Stops
<1>5. ASSUME NEW i \in 1..Len(path), i < Min(Stops) PROVE path[i] \notin Handlers
  <2>1. Min(Stops) \in Nat /\ i \in Nat /\ ~(Min(Stops) <= i)  BY <1>1, <1>4, <1>5
  <2>2. i \notin Stops  BY <1>3, <2>1
  <2> QED  BY <1>1, <2>2 DEF Stops
<1> QED  BY <1>4, <1>5

\* The nodes that the engine passes have a handler in every other place at least.
LEMMA StopsSoon ==
    ASSUME path \in Seq(Nodes), path # <<>>, Linked(path)
    PROVE  \/ Min(Stops) = 1 /\ (path[1] \in Handlers \/ path = <<path[1]>>)
           \/ Min(Stops) = 2 /\ path[1] \in 1..7 /\ path[2] \in Handlers \cap LinkedTo(path[1]) /\ Len(path) > 1
<1> DEFINE stop == Min(Stops)
<1>1. /\ stop \in 1..Len(path) /\ (path[stop] \in Handlers \/ stop = Len(path))
      /\ \A i \in 1..Len(path) : i < stop => path[i] \notin Handlers
  BY StopIs
<1> HIDE DEF stop
<1>2. Len(path) \in Nat /\ \A i \in 1..Len(path) : path[i] \in Nodes  OBVIOUS
<1>3. CASE stop = 1
  <2>1. Len(path) = 1 => path = <<path[1]>>  OBVIOUS
  <2> QED  BY <1>1, <1>3, <2>1 DEF stop
<1>4. CASE stop # 1
  <2>1. 1 \in 1..Len(path) /\ 2 \in 1..Len(path) /\ 1 < stop /\ 1 \in 1..(Len(path) - 1)  BY <1>1, <1>2, <1>4
  <2>2. path[1] \in 1..7  BY <1>1, <1>2, <2>1 DEF Handlers
  <2>3. path[2] \in LinkedTo(path[1])  BY <2>1 DEF Linked
  <2>4. path[2] \in Handlers  BY <1>2, <2>1, <2>2, <2>3, Link
  <2>5. stop = 2  BY <1>1, <1>2, <2>1, <2>4
  <2> QED  BY <2>1, <2>2, <2>3, <2>4, <2>5 DEF stop
<1> QED  BY <1>3, <1>4

\* The rest of a walk.
LEMMA RestIs ==
    ASSUME path \in Seq(Nodes), NEW k \in 1..Len(path), Linked(path)
    PROVE  LET p == SubSeq(path, k + 1, Len(path))
           IN  /\ p \in Seq(Nodes) /\ Linked(p) /\ (p = <<>> <=> k = Len(path))
               /\ p # <<>> => p[1] \in LinkedTo(path[k]) /\ p[Len(p)] = path[Len(path)]
<1> DEFINE p == SubSeq(path, k + 1, Len(path))
<1>1. Len(path) \in Nat /\ k \in Nat /\ k <= Len(path) /\ k >= 1  OBVIOUS
<1>2. p \in Seq(Nodes) /\ Len(p) = Len(path) - k /\ \A i \in 1..Len(p) : p[i] = path[k + i]
  <2>1. \A i \in (k + 1)..Len(path) : path[i] \in Nodes  BY <1>1
  <2>2. p = [i \in 1..(Len(path) - k) |-> path[k + i]]  BY <1>1
  <2> QED  BY <1>1, <2>1, <2>2
<1> HIDE DEF p
<1>3. p = <<>> <=> k = Len(path)  BY <1>1, <1>2
<1>4. Linked(p)
  <2> SUFFICES ASSUME NEW i \in 1..(Len(p) - 1) PROVE p[i + 1] \in LinkedTo(p[i])  BY DEF Linked
  <2>1. i \in 1..Len(p) /\ i + 1 \in 1..Len(p) /\ k + i \in 1..(Len(path) - 1) /\ k + (i + 1) = (k + i) + 1
    BY <1>1, <1>2
  <2>2. p[i] = path[k + i] /\ p[i + 1] = path[(k + i) + 1]  BY <1>2, <2>1
  <2> QED  BY <2>1, <2>2 DEF Linked
<1>5. ASSUME p # <<>> PROVE p[1] \in LinkedTo(path[k]) /\ p[Len(p)] = path[Len(path)]
  <2>1. k < Len(path) /\ 1 \in 1..Len(p) /\ Len(p) \in 1..Len(p) /\ k \in 1..(Len(path) - 1) /\ k + Len(p) = Len(path)
    BY <1>1, <1>2, <1>3, <1>5
  <2> QED  BY <1>2, <2>1 DEF Linked
<1> QED  BY <1>2, <1>3, <1>4, <1>5 DEF p

EngineOK == /\ cur \in Nodes /\ path \in Seq(Nodes) /\ target \in Nodes
            /\ handler \in Handlers \cup {0} /\ recorded \in States

LEMMA OneElement == \A S : \A q \in Seq(S) : Len(q) = 1 => q = <<q[1]>>
  OBVIOUS
LEMMA TwoElements == \A S : \A q \in Seq(S) : Len(q) = 2 => q = <<q[1], q[2]>>
  OBVIOUS

LEMMA FirstOnes ==
    ASSUME NEW q \in Seq(Nodes)
    PROVE  /\ Len(q) > 0 => SubSeq(q, 1, 1) = <<q[1]>>
           /\ Len(q) > 1 => SubSeq(q, 1, 2) = <<q[1], q[2]>>
           /\ Len(q) = 2 => SubSeq(q, 2, 2) = <<q[2]>>
<1>0. \A i \in 1..Len(q) : q[i] \in Nodes  OBVIOUS
<1>1. ASSUME Len(q) > 0 PROVE SubSeq(q, 1, 1) = <<q[1]>>
  <2>1. SubSeq(q, 1, 1) \in Seq(Nodes) /\ Len(SubSeq(q, 1, 1)) = 1 /\ SubSeq(q, 1, 1)[1] = q[1]  BY <1>0, <1>1
  <2> QED  BY <2>1, OneElement
<1>2. ASSUME Len(q) > 1 PROVE SubSeq(q, 1, 2) = <<q[1], q[2]>>
  <2>1. /\ SubSeq(q, 1, 2) \in Seq(Nodes) /\ Len(SubSeq(q, 1, 2)) = 2
        /\ SubSeq(q, 1, 2)[1] = q[1] /\ SubSeq(q, 1, 2)[2] = q[2]
    BY <1>0, <1>2
  <2> QED  BY <2>1, TwoElements
<1>3. ASSUME Len(q) = 2 PROVE SubSeq(q, 2, 2) = <<q[2]>>
  <2>1. SubSeq(q, 2, 2) \in Seq(Nodes) /\ Len(SubSeq(q, 2, 2)) = 1 /\ SubSeq(q, 2, 2)[1] = q[2]  BY <1>0, <1>3
  <2> QED  BY <2>1, OneElement
<1> QED  BY <1>1, <1>2, <1>3

LEMMA ContinueIs ==
    ASSUME Continue
    PROVE  /\ running /\ handler = 0 /\ path # <<>>
           /\ cur' = path[Min(Stops)]
           /\ path' = SubSeq(path, Min(Stops) + 1, Len(path))
           /\ handler' = IF path[Min(Stops)] \in Handlers THEN path[Min(Stops)] ELSE 0
           /\ Enters(SubSeq(path, 1, Min(Stops)))
           /\ UNCHANGED <<box, known, hasId, outdated, target, life, healing, cache, faults, blind, wish>>
  BY Zenon DEF Continue, Stops

LEMMA ContinueDrives ==
    ASSUME SessionInv, Continue
    PROVE  EngineOK' /\ (~aborting => Driving') /\ (handler' # 0 => cur' = handler')
<1> DEFINE stop == Min(Stops)
           p == SubSeq(path, stop + 1, Len(path))
<1>1. TypeOK /\ path \in Seq(Nodes) /\ path # <<>> /\ handler = 0 /\ recorded \in States /\ target \in Nodes
  BY ContinueIs DEF SessionInv, TypeOK
<1>2. /\ stop \in 1..Len(path) /\ (path[stop] \in Handlers \/ stop = Len(path))
  BY <1>1, StopIs
<1>3. /\ cur' = path[stop] /\ path' = p /\ target' = target /\ wish' = wish /\ blind' = blind
      /\ handler' = IF path[stop] \in Handlers THEN path[stop] ELSE 0
      /\ box' = box /\ Enters(SubSeq(path, 1, stop))
  BY ContinueIs
<1> HIDE DEF stop
<1>4. Len(path) \in Nat /\ (\A i \in 1..Len(path) : path[i] \in Nodes) /\ 1 \in 1..Len(path)  BY <1>1, <1>2
<1>5. path[stop] \in Nodes /\ p \in Seq(Nodes)  BY <1>1, <1>2, <1>4
<1> HIDE DEF p
<1>6. handler' \in Handlers \cup {0} /\ (handler' # 0 => cur' = handler')  BY <1>3
<1>7. CASE aborting
  <2>1. recorded' = recorded  BY <1>3, <1>7, Zenon DEF Enters
  <2> QED  BY <1>1, <1>3, <1>5, <1>6, <1>7, <2>1 DEF EngineOK
<1>8. CASE ~aborting
  <2>1. Driving /\ Linked(path)  BY <1>1, <1>8 DEF SessionInv, Driving, OnItsWay
  <2>2. \/ stop = 1 /\ (path[1] \in Handlers \/ path = <<path[1]>>)
        \/ stop = 2 /\ path[1] \in 1..7 /\ path[2] \in Handlers \cap LinkedTo(path[1]) /\ Len(path) > 1
    BY <1>1, <2>1, StopsSoon DEF stop
  <2>3. /\ Linked(p) /\ (p = <<>> <=> stop = Len(path))
        /\ p # <<>> => p[1] \in LinkedTo(path[stop]) /\ p[Len(p)] = path[Len(path)]
    BY <1>1, <1>2, <2>1, RestIs DEF p
  <2>4. /\ path[Len(path)] = target
        /\ path[1] \in LinkedTo(cur) \/ (path[1] = cur /\ cur \in 2..7 \cup {107})
        /\ \/ target \in Checkpoints
           \/ target = 101 /\ cur = 1 /\ path = <<100, 101>>
           \/ target = 101 /\ cur = 100 /\ path = <<101>>
    BY <1>1, <2>1 DEF Driving, OnItsWay
  <2>5. cur \in Nodes /\ wish \in Checkpoints \cup {0}  BY <1>1 DEF TypeOK
  <2>6. /\ recorded' \in States
        /\ path[stop] \in Checkpoints => recorded' = StateOf[path[stop]]
    <3>1. CASE stop = 1
      <4>1. SubSeq(path, 1, 1) = <<path[1]>>  BY <1>1, <1>4, FirstOnes
      <4> QED  BY <1>1, <1>3, <1>8, <3>1, <4>1, EntersOne
    <3>2. CASE stop = 2
      <4>1. SubSeq(path, 1, 2) = <<path[1], path[2]>>  BY <1>1, <2>2, <3>2, FirstOnes
      <4>2. path[2] \notin Checkpoints  BY <2>2, <3>2, NodesAre
      <4> QED  BY <1>1, <1>3, <3>2, <4>1, <4>2, EntersTwo
    <3> QED  BY <2>2, <3>1, <3>2
  <2>7. OnItsWay'
    <3> SUFFICES ASSUME p # <<>>
                 PROVE  /\ Linked(p) /\ p[Len(p)] = target /\ p[1] \in LinkedTo(cur')
                        /\ \/ target \in Checkpoints
                           \/ target = 101 /\ cur' = 100 /\ p = <<101>>
      BY <1>3 DEF OnItsWay
    <3>1. ASSUME target = 101 /\ cur = 1 /\ path = <<100, 101>> PROVE cur' = 100 /\ p = <<101>>
      <4>1. path[1] \in Handlers  BY <3>1 DEF Handlers, Nodes
      <4>2. stop = 1  BY <2>2, <3>1, <4>1 DEF Handlers
      <4>3. Len(path) = 2 /\ path[2] = 101  BY <3>1
      <4>4. SubSeq(path, 2, 2) = <<101>>  BY <1>1, <4>3, FirstOnes
      <4> QED  BY <1>3, <3>1, <4>2, <4>3, <4>4 DEF p
    <3>2. path # <<101>>
      <4>1. path = <<101>> => Len(path) = 1  OBVIOUS
      <4> QED  BY <1>2, <2>3, <4>1
    <3> QED  BY <1>3, <2>3, <2>4, <3>1, <3>2
  <2>8. AtRest'
    <3> SUFFICES ASSUME p = <<>>
                 PROVE  IF handler' = 0 THEN cur' \in 1..7 ELSE handler' = 101 /\ target = 101
      BY <1>3 DEF AtRest
    <3>1. cur' = target  BY <1>3, <2>3, <2>4
    <3>2. target \in Checkpoints \cup {101}  BY <2>4
    <3> QED  BY <1>3, <3>1, <3>2, NodesAre DEF Checkpoints
  <2>9. Asked'
    <3> SUFFICES ASSUME wish # 0
                 PROVE  IF p = <<>> THEN handler' = 0 /\ cur' = wish ELSE target = wish
      BY <1>3 DEF Asked
    <3>1. target = wish /\ wish \in Checkpoints  BY <1>1, <2>1, <2>5 DEF Driving, Asked
    <3> QED  BY <1>3, <2>3, <2>4, <3>1, NodesAre
  <2>10. Recorded'  BY <1>3, <2>6 DEF Recorded
  <2>11. Placed'
    <3> SUFFICES ASSUME ~blind
                 PROVE  /\ cur' \in Driven
                        /\ handler' # 0 => box.state \in Finds(handler')
                        /\ handler' = 0 => box.state = Leaves(cur') /\ cur' \notin Handlers
      BY <1>3, Zenon DEF Placed, SkewedTo
    <3>1. /\ cur \in Driven
          /\ SkewedTo => box.state \in Finds(cur)
          /\ ~SkewedTo => box.state = Leaves(cur)
      BY <1>1, <2>1 DEF Driving, Placed
    <3>2. SkewedTo <=> path[1] = cur /\ cur \in Handlers
      BY <1>1 DEF SkewedTo
    <3>3. path[1] \in Driven
      BY <2>4, <3>1, DrivenLink
    <3>4. path[1] \notin Handlers => box.state = Leaves(path[1])
      <4> SUFFICES ASSUME path[1] \notin Handlers PROVE box.state = Leaves(path[1])  OBVIOUS
      <4>1. path[1] \in Checkpoints  BY <3>3 DEF Driven, Handlers, Nodes, Checkpoints
      <4>2. CASE path[1] = cur  BY <3>1, <3>2, <4>2
      <4>3. CASE path[1] \in LinkedTo(cur) /\ path[1] # cur  BY <3>1, <3>2, <4>1, <4>3, DrivenLink
      <4> QED  BY <2>4, <4>2, <4>3
    <3>5. path[1] \in Handlers => box.state \in Finds(path[1])
      <4>1. CASE path[1] = cur  BY <3>1, <3>2, <4>1
      <4>2. CASE path[1] \in LinkedTo(cur) /\ path[1] # cur  BY <3>1, <3>2, <4>2, DrivenLink
      <4> QED  BY <2>4, <4>1, <4>2
    <3>6. CASE stop = 1  BY <1>3, <3>3, <3>4, <3>5, <3>6, NodesAre
    <3>7. CASE stop = 2
      <4>1. path[2] \in Driven /\ Leaves(path[1]) \in Finds(path[2])  BY <2>2, <3>3, <3>7, DrivenLink
      <4>2. path[1] \notin Handlers  BY <2>2, <3>7 DEF Handlers
      <4>3. path[2] \in Handlers /\ path[2] # 0  BY <2>2, <3>7, NodesAre
      <4> QED  BY <1>3, <3>4, <3>7, <4>1, <4>2, <4>3
    <3> QED  BY <2>2, <3>6, <3>7
  <2>12. EngineOK'  BY <1>1, <1>3, <1>5, <1>6, <2>6 DEF EngineOK
  <2> QED  BY <1>6, <2>7, <2>8, <2>9, <2>10, <2>11, <2>12 DEF Driving
<1> QED  BY <1>7, <1>8

\* A skew to a checkpoint, to the error state or to DiscardVMState.
LEMMA SkewDrives ==
    ASSUME SessionInv, ~aborting, NEW n \in 2..7 \cup {107}, FSMSkew(n), handler' = 0, wish' \in {wish, 0},
           path # <<>> => handler # 0 /\ handler # 100,
           path = <<>> => n \in 2..7 /\ (wish' = 0 \/ handler # 0),
           ~blind' => n \in Driven /\ (n \in Handlers => box'.state \in Finds(n)) /\ (n \notin Handlers => box'.state = Leaves(n))
    PROVE  EngineOK' /\ Driving'
<1>1. /\ cur' = n /\ path' = (IF path = <<>> THEN <<>> ELSE Route(n, target)) /\ target' = target
      /\ Enters(<<n>>)
  BY DEF FSMSkew
<1>2. n \in Nodes /\ n # 112 /\ (n \in 2..7 => n \notin Handlers)  BY DEF Nodes, Handlers
<1>3. /\ path \in Seq(Nodes) /\ target \in Nodes /\ recorded \in States /\ wish \in Checkpoints \cup {0}
      /\ (handler # 0 => cur = handler) /\ Driving /\ 0 \notin Checkpoints
  BY DEF SessionInv, TypeOK, Basics, Checkpoints
<1>4. recorded' \in States /\ (n \in Checkpoints => recorded' = StateOf[n])
  BY <1>1, <1>3, EntersOne
<1>5. ASSUME path # <<>>
      PROVE  target \in Checkpoints /\ (Route(n, target) = <<>> <=> n = target)
  <2>1. cur # 100 /\ handler # 0 /\ cur = handler  BY <1>3, <1>5
  <2>2. cur # 1  BY <1>3, <2>1 DEF SessionInv, TypeOK, Handlers
  <2>3. target \in Checkpoints  BY <1>3, <1>5, <2>1, <2>2 DEF Driving, OnItsWay
  <2> QED  BY <1>2, <2>3, NoRoute
<1>6. /\ path' \in Seq(Nodes)
      /\ path' # <<>> => Linked(path') /\ path'[Len(path')] = target /\ path'[1] = n /\ target \in Checkpoints
  <2>1. ASSUME path # <<>>, Route(n, target) # <<>>
        PROVE  LET p == Route(n, target)
               IN  /\ p \in Seq(Nodes) /\ Linked(p) /\ p[Len(p)] = target /\ p[1] = n
                   /\ target \in Checkpoints
    BY <1>2, <1>3, <1>5, <2>1, RouteIs
  <2>2. <<>> \in Seq(Nodes)  BY EmptySeq
  <2>3. CASE path = <<>> \/ Route(n, target) = <<>>
    <3>1. path' = <<>>  BY <1>1, <2>3
    <3> QED  BY <2>2, <3>1
  <2>4. CASE path # <<>> /\ Route(n, target) # <<>>
    <3>1. path' = Route(n, target)  BY <1>1, <2>4
    <3> HIDE DEF FSMSkew
    <3> QED  BY <2>1, <2>4, <3>1
  <2> QED  BY <2>3, <2>4
<1>7. path' = <<>> => path = <<>> \/ n = target
  BY <1>1, <1>5
<1>8. OnItsWay'  BY <1>1, <1>6 DEF OnItsWay
<1>9. AtRest'
  <2>1. ASSUME path' = <<>> PROVE n \in 1..7
    BY <1>5, <1>7, <2>1 DEF Checkpoints
  <2> QED  BY <1>1, <2>1 DEF AtRest
<1>10. Asked'
  <2> SUFFICES ASSUME wish' # 0
               PROVE  IF path' = <<>> THEN cur' = wish' ELSE target' = wish'
    BY DEF Asked
  <2>1. wish' = wish /\ wish # 0  OBVIOUS
  <2>2. path # <<>>  BY <1>3, <2>1 DEF Driving, Asked
  <2>3. target = wish  BY <1>3, <2>1, <2>2 DEF Driving, Asked
  <2> QED  BY <1>1, <1>7, <2>1, <2>2, <2>3
<1>11. Recorded'  BY <1>1, <1>4 DEF Recorded
<1>12. Placed'
  <2> SUFFICES ASSUME ~blind' PROVE /\ n \in Driven
                                    /\ SkewedTo' => box'.state \in Finds(n)
                                    /\ ~SkewedTo' => box'.state = Leaves(n)
    BY <1>1, Zenon DEF Placed
  <2>1. SkewedTo' => n \in Handlers  BY <1>1 DEF SkewedTo
  <2>2. n \in Handlers => SkewedTo'
    <3> SUFFICES ASSUME n \in Handlers PROVE SkewedTo'  OBVIOUS
    <3>1. path # <<>> /\ n = 107  BY <1>2
    <3>2. path' # <<>>  BY <1>5, <1>7, <3>1, NodesAre
    <3>3. path'[1] = n  BY <1>6, <3>2
    <3> QED  BY <1>1, <1>6, <3>2, <3>3 DEF SkewedTo
  <2> QED  BY <2>1, <2>2
<1> QED  BY <1>1, <1>2, <1>3, <1>4, <1>6, <1>8, <1>9, <1>10, <1>11, <1>12 DEF Driving, EngineOK

\* What a handler does that fails, and what one does that succeeds.
Failed == /\ blind'
          /\ \/ cur' = 112 /\ path' = <<>> /\ UNCHANGED <<target, recorded>>
             \/ FSMSkew(2)
Succeeded == /\ UNCHANGED engine /\ recorded' \in {recorded, "none"}
             /\ ~blind' => ~blind /\ box'.state = Leaves(handler)

LEMMA HandlerDrives ==
    ASSUME SessionInv, ~aborting, handler # 0, handler' = 0, UNCHANGED wish, Failed \/ Succeeded,
           Failed => handler # 100
    PROVE  EngineOK' /\ Driving'
<1>1. /\ path \in Seq(Nodes) /\ target \in Nodes /\ recorded \in States /\ wish \in Checkpoints \cup {0}
      /\ cur = handler /\ handler \in Handlers /\ Driving /\ cur \in Nodes /\ 112 \in Nodes /\ "none" \in States
  BY NodesAre, StatesAre DEF SessionInv, TypeOK, Basics
<1>2. CASE Succeeded
  <2>1. cur' = cur /\ path' = path /\ target' = target /\ (~blind' => ~blind) /\ recorded' \in States
    BY <1>1, <1>2 DEF Succeeded, engine
  <2>2. OnItsWay'  BY <1>1, <2>1 DEF Driving, OnItsWay
  <2>3. AtRest'  BY <1>1, <2>1 DEF Driving, AtRest
  <2>4. Asked'  BY <1>1, <2>1 DEF Driving, Asked
  <2>5. Recorded'  BY <1>1, <2>1, NodesAre DEF Recorded
  <2>6. ~SkewedTo'
    <3>1. ASSUME path # <<>>, path[1] = cur PROVE FALSE
      <4>1. cur \in LinkedTo(cur)  BY <1>1, <3>1 DEF Driving, OnItsWay
      <4>2. LinkIs(cur, cur)  BY <1>1, <4>1, TheLinks
      <4> QED  BY <4>2 DEF LinkIs
    <3> QED  BY <1>1, <2>1, <3>1 DEF SkewedTo
  <2>7. Placed'
    <3> SUFFICES ASSUME ~blind' PROVE cur \in Driven /\ box'.state = Leaves(cur)
      BY <2>1, <2>6, Zenon DEF Placed
    <3> QED  BY <1>1, <1>2 DEF Succeeded, Driving, Placed
  <2> QED  BY <1>1, <2>1, <2>2, <2>3, <2>4, <2>5, <2>7 DEF Driving, EngineOK
<1>3. CASE blind' /\ FSMSkew(2)
  <2>1. handler # 100  BY <1>3 DEF Failed
  <2> QED  BY <1>1, <1>3, <2>1, SkewDrives
<1>4. CASE blind' /\ cur' = 112 /\ path' = <<>> /\ UNCHANGED <<target, recorded>>
  <2>1. path' \in Seq(Nodes)  BY <1>4, EmptySeq
  <2>2. 112 \notin Checkpoints  BY DEF Checkpoints
  <2> QED  BY <1>1, <1>4, <2>1, <2>2 DEF Driving, EngineOK, OnItsWay, AtRest, Asked, Recorded, Placed
<1> QED  BY <1>2, <1>3, <1>4 DEF Failed

(***************************************************************************)
(* VBoxManage.                                                             *)
(***************************************************************************)
\* Of the quirks, those under which the engine still knows where it is.
Plain == Quirks \subseteq {"gone", "stuck", "lateData"}

\* What a command can come to.
LEMMA CommandIs ==
    ASSUME NEW b, NEW fits \in BOOLEAN, NEW after, NEW r \in Command(b, fits, after)
    PROVE  /\ r.ok \in BOOLEAN /\ r.fault \in {0, 1} /\ r.box \in {b, after}
           /\ r.ok => fits /\ r.box = after
           /\ r.box # b => fits
<1>1. CASE fits
  <2>1. \/ r = [box |-> after, ok |-> TRUE, fault |-> 0]
        \/ \E x \in {b, after} : r = [box |-> x, ok |-> FALSE, fault |-> 1]
    BY <1>1, Zenon DEF Command
  <2>2. CASE r = [box |-> after, ok |-> TRUE, fault |-> 0]
    BY <1>1, <2>2
  <2>3. ASSUME NEW x \in {b, after}, r = [box |-> x, ok |-> FALSE, fault |-> 1]
        PROVE  /\ r.ok \in BOOLEAN /\ r.fault \in {0, 1} /\ r.box \in {b, after} /\ ~r.ok
    BY <2>3
  <2> QED  BY <1>1, <2>1, <2>2, <2>3
<1>2. CASE ~fits
  <2>1. r = [box |-> b, ok |-> FALSE, fault |-> 0]
    BY <1>2, Zenon DEF Command
  <2> QED  BY <1>2, <2>1
<1> QED  BY <1>1, <1>2

LEMMA MachineIs ==
    ASSUME NEW b \in Machines
    PROVE  /\ b.state \in States \cup {"stuck"} /\ b.parts \in SUBSET Parts /\ b.log \in States
           /\ DOMAIN b = {"state", "parts", "log"}
  BY DEF Machines

LEMMA OtherState ==
    ASSUME NEW b \in Machines, NEW s \in States
    PROVE  /\ Becomes(b, s) \in Machines /\ Becomes(b, s).state = s
           /\ [b EXCEPT !.state = s] \in Machines /\ [b EXCEPT !.state = s].state = s
           /\ [b EXCEPT !.state = "stuck"] \in Machines
<1>1. b = [state |-> b.state, parts |-> b.parts, log |-> b.log]  BY DEF Machines
<1>2. /\ Becomes(b, s) = [state |-> s, parts |-> b.parts, log |-> s]
      /\ [b EXCEPT !.state = s] = [state |-> s, parts |-> b.parts, log |-> b.log]
      /\ [b EXCEPT !.state = "stuck"] = [state |-> "stuck", parts |-> b.parts, log |-> b.log]
  <2> DEFINE st == b.state
             pa == b.parts
             lo == b.log
             c == [state |-> st, parts |-> pa, log |-> lo]
  <2>1. b = c  BY <1>1
  <2> HIDE DEF st, pa, lo
  <2>2. [c EXCEPT !.state = s, !.log = s] = [state |-> s, parts |-> pa, log |-> s]
    <3> DEFINE d == [c EXCEPT !.state = s, !.log = s]
    <3>1. d = [f \in {"state", "parts", "log"} |->
                 IF f = "log" THEN s ELSE [c EXCEPT !.state = s][f]]
      OBVIOUS
    <3> QED  BY <3>1
  <2>3. [c EXCEPT !.state = s] = [state |-> s, parts |-> pa, log |-> lo]  OBVIOUS
  <2>4. [c EXCEPT !.state = "stuck"] = [state |-> "stuck", parts |-> pa, log |-> lo]  OBVIOUS
  <2> HIDE DEF c
  <2> QED  BY <2>1, <2>2, <2>3, <2>4, Zenon DEF Becomes, pa, lo
<1>3. s \in States \cup {"stuck"} /\ "stuck" \in States \cup {"stuck"}  OBVIOUS
<1>4. /\ [state |-> s, parts |-> b.parts, log |-> s] \in Machines
      /\ [state |-> s, parts |-> b.parts, log |-> b.log] \in Machines
      /\ [state |-> "stuck", parts |-> b.parts, log |-> b.log] \in Machines
  BY <1>3, MachineIs, Zenon DEF Machines
<1>5. Becomes(b, s).state = s /\ [b EXCEPT !.state = s].state = s
  BY <1>2
<1> QED  BY <1>2, <1>4, <1>5, Zenon

LEMMA BecomesIs ==
    ASSUME NEW b \in Machines, NEW s \in States
    PROVE  Becomes(b, s) \in Machines /\ Becomes(b, s).state = s
  BY OtherState, Zenon

LEMMA OtherParts ==
    ASSUME NEW b \in Machines, NEW p \in SUBSET Parts
    PROVE  [b EXCEPT !.parts = p] \in Machines /\ [b EXCEPT !.parts = p].state = b.state
<1>1. b = [state |-> b.state, parts |-> b.parts, log |-> b.log]  BY DEF Machines
<1>2. [b EXCEPT !.parts = p] = [state |-> b.state, parts |-> p, log |-> b.log]  BY <1>1
<1> QED  BY <1>2, MachineIs, Zenon DEF Machines

LEMMA NoMachineIs ==
    /\ NoMachine \in Machines /\ NoMachine.state = "none"
    /\ NewMachine \in Machines /\ NewMachine.state = "poweroff"
<1>1. "folder" \in Parts  BY DEF Parts
<1>2. {} \subseteq Parts /\ {"folder"} \subseteq Parts  BY <1>1
<1>3. "none" \in States /\ "poweroff" \in States  BY StatesAre
<1>4. "none" \in States \cup {"stuck"} /\ "poweroff" \in States \cup {"stuck"}  BY <1>3
<1> QED  BY <1>2, <1>3, <1>4, Zenon DEF Machines, NoMachine, NewMachine

LEMMA MountIs ==
    ASSUME NEW b \in Machines, NEW medium \in Media, NEW r, r \in Attach(b, medium) \/ r \in Detach(b, medium)
    PROVE  /\ r.ok \in BOOLEAN /\ r.fault \in {0, 1}
           /\ r.box \in Machines /\ r.box.state = b.state
<1>1. /\ b.parts \cup {medium} \in SUBSET Parts /\ b.parts \ {medium} \in SUBSET Parts
  BY MachineIs DEF Parts
<1>2. /\ [b EXCEPT !.parts = b.parts \cup {medium}] \in Machines
      /\ [b EXCEPT !.parts = b.parts \cup {medium}].state = b.state
      /\ [b EXCEPT !.parts = b.parts \ {medium}] \in Machines
      /\ [b EXCEPT !.parts = b.parts \ {medium}].state = b.state
  BY <1>1, OtherParts, Zenon
<1> DEFINE fits == b.state = "poweroff" /\ "controllers" \in b.parts
           with == [b EXCEPT !.parts = b.parts \cup {medium}]
           without == [b EXCEPT !.parts = b.parts \ {medium}]
<1>3. r \in Command(b, fits, with) \/ r \in Command(b, fits, without)  BY Zenon DEF Attach, Detach
<1>4. fits \in BOOLEAN  OBVIOUS
<1> HIDE DEF fits, with, without
<1>5. r.ok \in BOOLEAN /\ r.fault \in {0, 1} /\ r.box \in {b, with, without}  BY <1>3, <1>4, CommandIs
<1> QED  BY <1>2, <1>5 DEF with, without

LEMMA UnregisterIs ==
    ASSUME NEW b \in Machines, NEW r \in Unregister(b)
    PROVE  /\ r.ok \in BOOLEAN /\ r.fault \in {0, 1}
           /\ r.box \in {b, NoMachine} /\ r.box \in Machines
           /\ r.ok => r.box = NoMachine
<1> DEFINE fits == b.state \in {"poweroff", "saved"}
<1>1. fits \in BOOLEAN  OBVIOUS
<1>2. r \in Command(b, fits, NoMachine)  BY Zenon DEF Unregister
<1> HIDE DEF fits
<1>3. /\ r.ok \in BOOLEAN /\ r.fault \in {0, 1} /\ r.box \in {b, NoMachine}
      /\ r.ok => r.box = NoMachine
  BY <1>1, <1>2, CommandIs
<1> QED  BY <1>3, NoMachineIs, Zenon

LEMMA InfoIs ==
    ASSUME cache = {}, NEW b \in Machines, NEW i \in MachineInfo(b, hasId)
    PROVE  /\ i.ok \in BOOLEAN /\ i.fault \in {0, 1} /\ i.info.parts \in SUBSET Parts
           /\ i.info.parts = b.parts /\ i.info.state = b.state
           /\ i.ok => hasId /\ b.state # "none"
           /\ ~i.ok /\ i.fault = 0 /\ hasId => b.state = "none"
<1>1. b.parts \in SUBSET Parts  BY MachineIs
<1> DEFINE seen == [state |-> b.state, parts |-> b.parts]
<1>2. MachineInfo(b, hasId) =
        IF hasId /\ b.state # "none"
        THEN {[ok |-> TRUE, info |-> seen, fault |-> 0], [ok |-> FALSE, info |-> seen, fault |-> 1]}
        ELSE {[ok |-> FALSE, info |-> seen, fault |-> 0]}
  BY Zenon DEF MachineInfo
<1>3. seen.parts = b.parts /\ seen.state = b.state  OBVIOUS
<1> HIDE DEF seen
<1>4. CASE hasId /\ b.state # "none"
  <2>1. \/ i = [ok |-> TRUE, info |-> seen, fault |-> 0]
        \/ i = [ok |-> FALSE, info |-> seen, fault |-> 1]
    BY <1>2, <1>4
  <2>2. i.info = seen /\ i.ok \in BOOLEAN /\ i.fault \in {0, 1} /\ (~i.ok => i.fault = 1)
    <3>1. CASE i = [ok |-> TRUE, info |-> seen, fault |-> 0]  BY <3>1
    <3>2. CASE i = [ok |-> FALSE, info |-> seen, fault |-> 1]  BY <3>2
    <3> QED  BY <2>1, <3>1, <3>2
  <2> QED  BY <1>1, <1>3, <1>4, <2>2
<1>5. CASE ~(hasId /\ b.state # "none")
  <2>1. i = [ok |-> FALSE, info |-> seen, fault |-> 0]
    BY <1>2, <1>5
  <2>2. i.info = seen /\ ~i.ok /\ i.fault \in {0, 1} /\ i.ok \in BOOLEAN
    BY <2>1
  <2> QED  BY <1>1, <1>3, <1>5, <2>2
<1> QED  BY <1>4, <1>5

(***************************************************************************)
(* How a handler ends.                                                     *)
(***************************************************************************)
\* What every handler does, however it ends: the invariant holds again.
Works ==
    /\ handler # 0 /\ ~aborting
    /\ handler' = 0 /\ UNCHANGED <<life, wish>>
    /\ box' \in Machines /\ known' \in SUBSET Parts /\ hasId' \in BOOLEAN /\ outdated' \in BOOLEAN
    /\ errors' \in 0..MostErrors /\ recent' \in BOOLEAN /\ cache' = {}
    /\ faults' \in 0..MaxFaults /\ blind' \in BOOLEAN
    /\ ~hasId' => box'.state = "none"
    /\ EngineOK' /\ Driving'

LEMMA PaysIs ==
    ASSUME TypeOK, NEW cost \in Nat, Pays(cost)
    PROVE  faults' \in 0..MaxFaults
  BY BoundsAssumption DEF TypeOK, Pays

LEMMA CountedIs ==
    ASSUME TypeOK, NEW n \in {1, 2}
    PROVE  Counted(n) \in 0..MostErrors
<1> DEFINE m == (IF recent THEN errors ELSE 0) + n
<1>1. MostErrors = 3 /\ m \in Nat  BY DEF TypeOK, MostErrors, SESSION_HEAL_TRIES
<1>2. Counted(n) = Min({MostErrors, m})  BY DEF Counted
<1> HIDE DEF m
<1>3. {MostErrors, m} \in SUBSET Nat /\ {MostErrors, m} # {}  BY <1>1
<1>4. Min({MostErrors, m}) \in {MostErrors, m} /\ Min({MostErrors, m}) <= MostErrors  BY <1>3, MinIs
<1> QED  BY <1>1, <1>2, <1>4

\* A handler on the way out: what is common to its ends.
Ending ==
    /\ SessionInv /\ handler # 0 /\ ~aborting
    /\ handler' = 0 /\ UNCHANGED <<life, wish>>
    /\ hasId' \in BOOLEAN /\ outdated' \in BOOLEAN /\ cache' = {}

LEMMA ErrorWorks ==
    ASSUME Ending, handler # 100, NEW n \in {1, 2}, NEW b \in Machines, NEW parts \in SUBSET Parts, NEW cost \in Nat,
           ErrorsOccured(n, b, parts, cost), ~hasId' => b.state = "none"
    PROVE  Works
<1>1. TypeOK /\ SessionInv  BY DEF Ending, SessionInv
<1>2. errors' \in 0..MostErrors /\ recent' \in BOOLEAN /\ blind' \in BOOLEAN /\ blind'
  BY <1>1, CountedIs DEF ErrorsOccured
<1>3. Failed
  BY DEF ErrorsOccured, Failed
<1>4. box' \in Machines /\ known' \in SUBSET Parts /\ faults' \in 0..MaxFaults /\ box' \in {b, NoMachine}
  <2>1. CASE FatalErrorSink(b, parts, cost)
    <3>1. PICK r \in Unregister(b) : /\ box' = r.box
                                     /\ known' = IF r.ok THEN {} ELSE parts
                                     /\ Pays(cost + r.fault)
      BY <2>1 DEF FatalErrorSink
    <3>2. r.ok \in BOOLEAN /\ r.fault \in {0, 1} /\ r.box \in Machines /\ r.box \in {b, NoMachine}
      BY <3>1, UnregisterIs
    <3>3. cost + r.fault \in Nat  BY <3>2
    <3> QED  BY <1>1, <3>1, <3>2, <3>3, PaysIs
  <2>2. CASE box' = b /\ known' = parts /\ Pays(cost)
    BY <1>1, <2>2, PaysIs
  <2> QED  BY <2>1, <2>2 DEF ErrorsOccured
<1>5. ~hasId' => box'.state = "none"
  BY <1>4, NoMachineIs
<1>6. EngineOK' /\ Driving'
  BY <1>1, <1>3, HandlerDrives DEF Ending
<1> QED  BY <1>2, <1>4, <1>5, <1>6 DEF Ending, Works

LEMMA CompletesWorks ==
    ASSUME Ending, NEW b \in Machines, NEW parts \in SUBSET Parts, NEW cost \in Nat,
           Completes(b, parts, cost) \/ Created(b, parts, cost),
           ~hasId' => b.state = "none",
           blind \/ b.state = Leaves(handler)
    PROVE  Works
<1>1. /\ TypeOK /\ SessionInv /\ errors \in 0..MostErrors /\ recent \in BOOLEAN /\ blind \in BOOLEAN
  BY DEF Ending, SessionInv, TypeOK
<1>2. /\ box' = b /\ known' = parts /\ Pays(cost) /\ recorded' \in {recorded, "none"}
      /\ engine' = engine /\ errors' = errors /\ recent' = recent /\ blind' = blind
  BY DEF Completes, Created, healing
<1>3. Succeeded
  BY <1>2 DEF Succeeded
<1>4. ~Failed \/ handler # 100
  <2>1. SUFFICES ASSUME Failed, handler = 100 PROVE FALSE  OBVIOUS
  <2>2. cur = 100 /\ cur' = 100  BY <1>1, <1>2, <2>1 DEF SessionInv, Basics, engine
  <2>3. cur' \in {112, 2}  BY <2>1 DEF Failed, FSMSkew
  <2> QED  BY <2>2, <2>3
<1>5. EngineOK' /\ Driving'
  BY <1>1, <1>3, <1>4, HandlerDrives DEF Ending
<1>6. faults' \in 0..MaxFaults  BY <1>1, <1>2, PaysIs
<1> QED  BY <1>1, <1>2, <1>5, <1>6 DEF Ending, Works

(***************************************************************************)
(* The handlers.                                                           *)
(***************************************************************************)
LEMMA SessionIs ==
    ASSUME SessionInv
    PROVE  /\ TypeOK /\ box \in Machines /\ known \in SUBSET Parts /\ hasId \in BOOLEAN /\ outdated \in BOOLEAN
           /\ blind \in BOOLEAN /\ cache = {} /\ (~hasId => box.state = "none")
           /\ handler \in Handlers \cup {0} /\ (handler # 0 => cur = handler)
           /\ ~aborting /\ handler # 0 /\ ~blind => handler \in Driven /\ box.state \in Finds(handler)
<1>1. ASSUME ~aborting, handler # 0, ~blind PROVE handler \in Driven /\ box.state \in Finds(handler)
  BY <1>1 DEF SessionInv, Basics, Driving, Placed
<1> QED  BY <1>1 DEF SessionInv, TypeOK, Basics

LEMMA RunsIs ==
    ASSUME NEW n \in Handlers, Runs(n)
    PROVE  handler = n /\ handler # 0 /\ ~aborting
  BY NodesAre DEF Runs

\* A handler that is one command.
LEMMA CommandWorks ==
    ASSUME SessionInv, NEW n \in Handlers \ {100}, NEW fits \in BOOLEAN, NEW after \in Machines,
           Handler(n, Command(box, fits, after)),
           fits => after = box \/ box.state # "none",
           box.state \in Finds(n) => after.state = Leaves(n)
    PROVE  Works
<1>1. handler = n /\ handler # 0 /\ ~aborting  BY RunsIs DEF Handler
<1>2. Ending  BY <1>1, SessionIs DEF Handler, Ending
<1>3. PICK r \in Command(box, fits, after) : \/ r.ok /\ Completes(r.box, known, r.fault)
                                             \/ ~r.ok /\ ErrorOccured(r.box, known, r.fault)
  BY DEF Handler
<1>4. /\ r.fault \in {0, 1} /\ r.box \in {box, after} /\ (r.ok => r.box = after)
      /\ (r.box # box => fits)
  BY <1>3, CommandIs
<1>5. hasId' = hasId  BY DEF Handler
<1>6. ~hasId' => r.box.state = "none"
  BY <1>4, <1>5, SessionIs
<1>7. r.box \in Machines /\ known \in SUBSET Parts /\ r.fault \in Nat  BY <1>4, SessionIs
<1>8. CASE r.ok /\ Completes(r.box, known, r.fault)
  <2>1. blind \/ r.box.state = Leaves(handler)  BY <1>1, <1>4, <1>8, SessionIs
  <2> QED  BY <1>2, <1>6, <1>7, <1>8, <2>1, CompletesWorks
<1>9. CASE ErrorOccured(r.box, known, r.fault)
  <2>1. ErrorsOccured(1, r.box, known, r.fault)  BY <1>9, Zenon DEF ErrorOccured
  <2> QED  BY <1>1, <1>2, <1>6, <1>7, <2>1, ErrorWorks
<1> QED  BY <1>3, <1>8, <1>9

\* The handlers that change what the machine does.
LEMMA ControlWorks ==
    ASSUME SessionInv, NEW n \in {110, 111, 109, 106}, NEW from, NEW to \in States,
           "none" \notin from, to = Leaves(n), Control(n, from, to)
    PROVE  Works
<1>0. box \in Machines  BY SessionIs
<1>1. Becomes(box, to) \in Machines /\ Becomes(box, to).state = to
  BY <1>0, BecomesIs
<1>2. n \in Handlers \ {100}  BY DEF Handlers, Nodes
<1> DEFINE fits == box.state \in from
<1>3. fits \in BOOLEAN /\ (fits => box.state # "none")  OBVIOUS
<1>4. Handler(n, Command(box, fits, Becomes(box, to)))  BY Zenon DEF Control
<1> HIDE DEF fits
<1> QED  BY <1>1, <1>2, <1>3, <1>4, CommandWorks

LEMMA SimpleWorks ==
    ASSUME SessionInv,
           \/ ConfigNetwork \/ DownloadMedia \/ ConfigureVM \/ PauseVM \/ ResumeVM \/ SaveVMState
           \/ PoweroffVM \/ DiscardVMState
    PROVE  Works
<1>1. {210, 202, 201, 107} \subseteq Handlers \ {100}  BY DEF Handlers, Nodes
<1>2. box \in Machines  BY SessionIs
<1>3. \A n \in {210, 202, 201} : box.state \in Finds(n) => box.state = Leaves(n)
  BY DEF Finds, Leaves
<1>4. CASE ConfigNetwork \/ DownloadMedia
  <2> DEFINE fits == TRUE
  <2>1. PICK n \in {210, 202} : Handler(n, Command(box, fits, box))
    BY <1>4, Zenon DEF ConfigNetwork, DownloadMedia, Work
  <2>2. n \in Handlers \ {100} /\ (box.state \in Finds(n) => box.state = Leaves(n))
    BY <1>1, <1>3
  <2>3. fits \in BOOLEAN  OBVIOUS
  <2> HIDE DEF fits
  <2> QED  BY <1>2, <2>1, <2>2, <2>3, CommandWorks
<1>5. CASE ConfigureVM
  <2> DEFINE fits == box.state = "poweroff"
  <2>1. fits \in BOOLEAN /\ Handler(201, Command(box, fits, box))  BY <1>5, Zenon DEF ConfigureVM
  <2> HIDE DEF fits
  <2> QED  BY <1>1, <1>2, <1>3, <2>1, CommandWorks
<1>6. CASE PauseVM
  <2>1. Leaves(110) = "paused" /\ "paused" \in States /\ "none" \notin {"running"}  BY StatesAre DEF Leaves
  <2> QED  BY <1>6, <2>1, ControlWorks DEF PauseVM
<1>7. CASE ResumeVM
  <2>1. Leaves(111) = "running" /\ "running" \in States /\ "none" \notin {"paused"}  BY StatesAre DEF Leaves
  <2> QED  BY <1>7, <2>1, ControlWorks DEF ResumeVM
<1>8. CASE SaveVMState
  <2>1. Leaves(109) = "saved" /\ "saved" \in States /\ "none" \notin {"running", "paused"}  BY StatesAre DEF Leaves
  <2> QED  BY <1>8, <2>1, ControlWorks DEF SaveVMState
<1>9. CASE PoweroffVM
  <2>1. Leaves(106) = "poweroff" /\ "poweroff" \in States /\ "none" \notin {"running", "paused", "stuck"}
    BY StatesAre DEF Leaves
  <2> QED  BY <1>9, <2>1, ControlWorks DEF PoweroffVM
<1>10. CASE DiscardVMState
  <2> DEFINE fits == box.state = "saved"
             off == [box EXCEPT !.state = "poweroff"]
  <2>1. fits \in BOOLEAN /\ Handler(107, Command(box, fits, off))  BY <1>10, Zenon DEF DiscardVMState
  <2>2. off \in Machines /\ off.state = "poweroff"  BY <1>2, OtherState, StatesAre
  <2>3. fits => box.state # "none"  OBVIOUS
  <2>4. Leaves(107) = "poweroff"  BY DEF Leaves
  <2> HIDE DEF fits, off
  <2> QED  BY <1>1, <2>1, <2>2, <2>3, <2>4, CommandWorks
<1> QED  BY <1>4, <1>5, <1>6, <1>7, <1>8, <1>9, <1>10

LEMMA EmptyWorks ==
    ASSUME SessionInv, EmptyHandler
    PROVE  Works
<1>1. PICK n \in {100, 102, 103, 108} : Runs(n)  BY DEF EmptyHandler
<1>2. n \in Handlers  BY DEF Handlers, Nodes
<1>3. handler = n /\ handler # 0 /\ ~aborting  BY <1>1, <1>2, RunsIs
<1>4. Ending /\ Completes(box, known, 0) /\ hasId' = hasId  BY <1>3, SessionIs DEF EmptyHandler, Ending
<1>5. blind \/ box.state = Leaves(handler)
  <2> SUFFICES ASSUME ~blind PROVE box.state = Leaves(handler)  OBVIOUS
  <2>1. handler \in Driven /\ box.state \in Finds(handler)  BY <1>3, SessionIs
  <2> QED  BY <1>3, <2>1 DEF Driven, Finds, Leaves
<1>6. 0 \in Nat  OBVIOUS
<1> QED  BY <1>4, <1>5, <1>6, SessionIs, CompletesWorks

\* unmountDisk and mountDisk leave the state alone.
LEMMA ReleaseWorks ==
    ASSUME SessionInv, ReleaseVMScratch \/ ReleaseVMBoot \/ ReleaseVMAPI
    PROVE  Works
<1>1. PICK n \in {105, 207, 209}, medium \in Media : Release(n, medium)
  BY DEF ReleaseVMScratch, ReleaseVMBoot, ReleaseVMAPI, Media
<1>2. n \in Handlers  BY DEF Handlers, Nodes
<1>3. handler = n /\ handler # 0 /\ ~aborting  BY <1>1, <1>2, RunsIs DEF Release
<1>4. Ending /\ hasId' = hasId  BY <1>1, <1>3, SessionIs DEF Release, Ending
<1>5. blind \/ box.state = Leaves(handler)  BY <1>3, SessionIs DEF Finds, Leaves
<1>6. CASE Completes(box, known, 0)
  <2>1. 0 \in Nat  OBVIOUS
  <2> QED  BY <1>4, <1>5, <1>6, <2>1, SessionIs, CompletesWorks
<1>7. ASSUME NEW r \in Detach(box, medium),
             Completes(r.box, IF r.ok THEN known \ {medium} ELSE known, r.fault)
      PROVE  Works
  <2>1. r.fault \in {0, 1} /\ r.box \in Machines /\ r.box.state = box.state  BY <1>7, SessionIs, MountIs
  <2>2. (IF r.ok THEN known \ {medium} ELSE known) \in SUBSET Parts /\ r.fault \in Nat  BY <2>1, SessionIs
  <2> QED  BY <1>4, <1>5, <1>7, <2>1, <2>2, SessionIs, CompletesWorks
<1> QED  BY <1>1, <1>6, <1>7 DEF Release

MountEnds(r, more, parts) ==
    \/ r.ok /\ Completes(r.box, more, r.fault)
    \/ ~r.ok /\ ErrorOccured(r.box, parts, r.fault)

LEMMA MountsWorks ==
    ASSUME Ending, handler # 100, hasId' = hasId, blind \/ box.state = Leaves(handler),
           NEW b \in Machines, b.state = box.state, NEW parts \in SUBSET Parts, NEW medium \in Media,
           NEW more \in SUBSET Parts,
           NEW r \in Attach(b, medium),
           MountEnds(r, more, parts)
    PROVE  Works
<1>1. SessionInv  BY DEF Ending
<1>3. r.fault \in {0, 1} /\ r.box \in Machines /\ r.box.state = box.state  BY MountIs
<1>4. r.fault \in Nat /\ (~hasId' => r.box.state = "none")  BY <1>1, <1>3, SessionIs
<1>5. CASE Completes(r.box, more, r.fault)
  BY <1>3, <1>4, <1>5, CompletesWorks
<1>6. CASE ErrorOccured(r.box, parts, r.fault)
  <2>1. ErrorsOccured(1, r.box, parts, r.fault)  BY <1>6, Zenon DEF ErrorOccured
  <2> QED  BY <1>3, <1>4, <2>1, ErrorWorks
<1> QED  BY <1>5, <1>6 DEF MountEnds

LEMMA MediaWork ==
    ASSUME SessionInv, ConfigureVMBoot \/ ConfigureVMScratch
    PROVE  Works
<1>0. {203, 204} \subseteq Handlers /\ Media \subseteq Parts  BY DEF Handlers, Nodes, Parts
<1>1. PICK n \in {203, 204} : Runs(n)  BY DEF ConfigureVMBoot, ConfigureVMScratch
<1>2. handler = n /\ handler # 0 /\ handler # 100 /\ ~aborting  BY <1>0, <1>1, RunsIs
<1>3. Ending /\ hasId' = hasId
  BY <1>2, SessionIs DEF Ending, ConfigureVMBoot, ConfigureVMScratch
<1>4. blind \/ box.state = Leaves(handler)  BY <1>2, SessionIs DEF Finds, Leaves
<1>5. box \in Machines /\ known \in SUBSET Parts /\ (~hasId' => box.state = "none")
  BY <1>3, SessionIs
<1>6. ASSUME NEW medium \in Media, Mounts(medium) PROVE Works
  <2>1. known \cup {medium} \in SUBSET Parts  BY <1>0, <1>5
  <2>2. PICK r \in Attach(box, medium) : MountEnds(r, known \cup {medium}, known)
    BY <1>6 DEF Mounts, MountEnds
  <2> QED  BY <1>2, <1>3, <1>4, <1>5, <2>1, <2>2, MountsWorks
<1>7. ASSUME Completes(box, known, 0) PROVE Works
  <2>1. 0 \in Nat  OBVIOUS
  <2> QED  BY <1>3, <1>4, <1>5, <1>7, <2>1, CompletesWorks
<1>8. ASSUME ErrorOccured(box, known, 1) PROVE Works
  <2>1. ErrorsOccured(1, box, known, 1) /\ 1 \in Nat  BY <1>8, Zenon DEF ErrorOccured
  <2> QED  BY <1>2, <1>3, <1>5, <2>1, ErrorWorks
<1>9. "boot" \in Media /\ "scratch" \in Media  BY DEF Media
<1>10. ASSUME NEW r \in Detach(box, "boot"),
              \/ ~r.ok /\ ErrorOccured(r.box, known, r.fault)
              \/ /\ r.ok
                 /\ \E a \in Attach(r.box, "boot") :
                       \/ a.ok /\ Completes(a.box, known, a.fault)
                       \/ ~a.ok /\ ErrorOccured(a.box, known \ {"boot"}, a.fault)
       PROVE  Works
  <2>1. r.fault \in {0, 1} /\ r.box \in Machines /\ r.box.state = box.state
    BY <1>5, <1>9, <1>10, MountIs
  <2>2. CASE ErrorOccured(r.box, known, r.fault)
    <3>1. ErrorsOccured(1, r.box, known, r.fault)  BY <2>2, Zenon DEF ErrorOccured
    <3>2. r.fault \in Nat /\ (~hasId' => r.box.state = "none")  BY <1>5, <2>1
    <3> QED  BY <1>2, <1>3, <1>5, <2>1, <3>1, <3>2, ErrorWorks
  <2>3. CASE \E a \in Attach(r.box, "boot") :
                \/ a.ok /\ Completes(a.box, known, a.fault)
                \/ ~a.ok /\ ErrorOccured(a.box, known \ {"boot"}, a.fault)
    <3>1. known \ {"boot"} \in SUBSET Parts  BY <1>5
    <3>2. PICK a \in Attach(r.box, "boot") : MountEnds(a, known, known \ {"boot"})
      BY <2>3 DEF MountEnds
    <3> QED  BY <1>2, <1>3, <1>4, <1>5, <1>9, <2>1, <3>1, <3>2, MountsWorks
  <2> QED  BY <1>10, <2>2, <2>3
<1> QED  BY <1>6, <1>7, <1>8, <1>9, <1>10 DEF ConfigureVMBoot, ConfigureVMScratch

LEMMA ContextWorks ==
    ASSUME SessionInv, ConfigureVMAPI
    PROVE  Works
<1>0. 205 \in Handlers /\ "context" \in Media /\ "context" \in Parts  BY DEF Handlers, Nodes, Parts, Media
<1>1. handler = 205 /\ handler # 0 /\ handler # 100 /\ ~aborting  BY <1>0, RunsIs DEF ConfigureVMAPI
<1>2. PICK r \in IF "context" \in known THEN Detach(box, "context") ELSE Nothing(box) :
          \/ ~r.ok /\ ErrorOccured(r.box, known, r.fault) /\ UNCHANGED outdated
          \/ r.ok /\ ErrorOccured(r.box, known \ {"context"}, 1) /\ outdated' = FALSE
          \/ /\ r.ok
             /\ outdated' = FALSE
             /\ \E a \in Attach(r.box, "context") :
                   \/ a.ok /\ Completes(a.box, known \cup {"context"}, a.fault)
                   \/ ~a.ok /\ ErrorOccured(a.box, known \ {"context"}, a.fault)
  BY DEF ConfigureVMAPI
<1>3. Ending /\ hasId' = hasId
  <2>1. outdated' \in BOOLEAN  BY <1>2, SessionIs
  <2> QED  BY <1>1, <2>1, SessionIs DEF Ending, ConfigureVMAPI
<1>4. blind \/ box.state = Leaves(handler)  BY <1>1, SessionIs DEF Finds, Leaves
<1>5. /\ box \in Machines /\ known \in SUBSET Parts /\ (~hasId' => box.state = "none")
      /\ known \cup {"context"} \in SUBSET Parts /\ known \ {"context"} \in SUBSET Parts
  BY <1>0, <1>3, SessionIs
<1>6. r.fault \in {0, 1} /\ r.box \in Machines /\ r.box.state = box.state
  <2>1. CASE "context" \in known  BY <1>0, <1>2, <1>5, <2>1, MountIs
  <2>2. CASE "context" \notin known
    <3>1. r = [box |-> box, ok |-> TRUE, fault |-> 0]  BY <1>2, <2>2 DEF Nothing
    <3> QED  BY <1>5, <3>1
  <2> QED  BY <2>1, <2>2
<1>7. r.fault \in Nat /\ 1 \in Nat /\ (~hasId' => r.box.state = "none")  BY <1>5, <1>6
<1>8. ASSUME NEW parts \in SUBSET Parts, NEW cost \in Nat, ErrorOccured(r.box, parts, cost) PROVE Works
  <2>1. ErrorsOccured(1, r.box, parts, cost)  BY <1>8, Zenon DEF ErrorOccured
  <2> QED  BY <1>1, <1>3, <1>6, <1>7, <1>8, <2>1, ErrorWorks
<1>9. CASE \E a \in Attach(r.box, "context") :
              \/ a.ok /\ Completes(a.box, known \cup {"context"}, a.fault)
              \/ ~a.ok /\ ErrorOccured(a.box, known \ {"context"}, a.fault)
  <2>1. PICK a \in Attach(r.box, "context") : MountEnds(a, known \cup {"context"}, known \ {"context"})
    BY <1>9 DEF MountEnds
  <2> QED  BY <1>0, <1>1, <1>3, <1>4, <1>5, <1>6, <2>1, MountsWorks
<1> QED  BY <1>2, <1>5, <1>7, <1>8, <1>9

LEMMA DestroyWorks ==
    ASSUME SessionInv, DestroyVM
    PROVE  Works
<1>0. 208 \in Handlers  BY DEF Handlers, Nodes
<1>1. handler = 208 /\ handler # 0 /\ handler # 100 /\ ~aborting  BY <1>0, RunsIs DEF DestroyVM
<1>2. Ending /\ hasId' = hasId  BY <1>1, SessionIs DEF Ending, DestroyVM
<1>3. box \in Machines /\ known \in SUBSET Parts /\ (~hasId' => box.state = "none") /\ {} \in SUBSET Parts
  BY <1>2, SessionIs
<1>4. PICK r \in Unregister(box) : \/ r.ok /\ Completes(r.box, {}, r.fault)
                                   \/ ~r.ok /\ ErrorsOccured(2, r.box, known, r.fault)
  BY DEF DestroyVM
<1>5. /\ r.fault \in {0, 1} /\ r.box \in Machines /\ r.box \in {box, NoMachine}
      /\ r.ok => r.box = NoMachine
  BY <1>3, <1>4, UnregisterIs
<1>6. r.fault \in Nat /\ (~hasId' => r.box.state = "none") /\ 2 \in {1, 2}  BY <1>3, <1>5, NoMachineIs
<1>7. CASE r.ok /\ Completes(r.box, {}, r.fault)
  <2>1. r.box.state = Leaves(handler)  BY <1>1, <1>5, <1>7, NoMachineIs DEF Leaves
  <2> QED  BY <1>2, <1>3, <1>5, <1>6, <1>7, <2>1, CompletesWorks
<1>8. CASE ErrorsOccured(2, r.box, known, r.fault)
  BY <1>1, <1>2, <1>3, <1>5, <1>6, <1>8, ErrorWorks
<1> QED  BY <1>4, <1>7, <1>8

LEMMA RememberIs ==
    ASSUME Plain, cache = {}, NEW i, Remember(i)
    PROVE  cache' = {}
<1>1. "cache" \notin Quirks  BY DEF Plain
<1> QED  BY <1>1 DEF Remember

LEMMA StartWorks ==
    ASSUME SessionInv, Plain, StartVM
    PROVE  Works
<1>0. 206 \in Handlers  BY DEF Handlers, Nodes
<1>1. handler = 206 /\ handler # 0 /\ handler # 100 /\ ~aborting  BY <1>0, RunsIs DEF StartVM
<1> DEFINE fits == box.state \in {"poweroff", "saved"}
           on == Becomes(box, "running")
<1>2. PICK r \in Command(box, fits, on) :
          \/ ~r.ok /\ ErrorOccured(r.box, known, r.fault) /\ UNCHANGED cache
          \/ /\ r.ok
             /\ \E i \in MachineInfo(r.box, hasId) :
                   /\ Remember(i)
                   /\ Completes(r.box, IF i.ok THEN i.info.parts ELSE known, i.fault)
  BY DEF StartVM
<1>3. fits \in BOOLEAN /\ (fits => box.state # "none")  OBVIOUS
<1>4. box \in Machines /\ known \in SUBSET Parts /\ cache = {} /\ (~hasId => box.state = "none")
  BY SessionIs
<1>5. on \in Machines /\ on.state = "running"
  <2>1. "running" \in States  BY StatesAre
  <2> QED  BY <1>4, <2>1, OtherState, Zenon
<1> HIDE DEF fits, on
<1>6. /\ r.fault \in {0, 1} /\ r.box \in {box, on} /\ (r.ok => r.box = on) /\ (r.box # box => fits)
  BY <1>2, <1>3, CommandIs
<1>7. r.box \in Machines /\ r.fault \in Nat  BY <1>4, <1>5, <1>6
<1>8. hasId' = hasId  BY DEF StartVM
<1>9. ~hasId' => r.box.state = "none"  BY <1>3, <1>4, <1>6, <1>8
<1>10. ASSUME cache' = {} PROVE Ending
  BY <1>1, <1>10, SessionIs DEF Ending, StartVM
<1>11. CASE ErrorOccured(r.box, known, r.fault) /\ UNCHANGED cache
  <2>1. ErrorsOccured(1, r.box, known, r.fault)  BY <1>11, Zenon DEF ErrorOccured
  <2> QED  BY <1>1, <1>4, <1>7, <1>9, <1>10, <1>11, <2>1, ErrorWorks
<1>12. ASSUME r.ok, NEW i \in MachineInfo(r.box, hasId), Remember(i),
              Completes(r.box, IF i.ok THEN i.info.parts ELSE known, i.fault)
       PROVE  Works
  <2>1. i.fault \in {0, 1} /\ i.info.parts \in SUBSET Parts  BY <1>4, <1>7, <1>12, InfoIs
  <2>2. Ending  BY <1>4, <1>10, <1>12, RememberIs
  <2>3. (IF i.ok THEN i.info.parts ELSE known) \in SUBSET Parts /\ i.fault \in Nat  BY <1>4, <2>1
  <2>4. r.box.state = Leaves(handler)  BY <1>1, <1>5, <1>6, <1>12 DEF Leaves
  <2> QED  BY <1>7, <1>9, <1>12, <2>2, <2>3, <2>4, CompletesWorks
<1> QED  BY <1>2, <1>11, <1>12

\* 104: a machine that is there has not been seen, or the session would not create it.
LEMMA ControllersWork ==
    ASSUME Ending, handler = 104, hasId', NEW b \in Machines, blind \/ b.state = "poweroff",
           NEW parts \in SUBSET Parts, NEW cost \in {0, 1}, AddControllers(b, parts, cost)
    PROVE  Works
<1> DEFINE fits == b.state = "poweroff" /\ "controllers" \notin b.parts
           more == [b EXCEPT !.parts = b.parts \cup {"controllers"}]
<1>1. /\ "controllers" \in parts => Created(b, parts, cost)
      /\ "controllers" \notin parts =>
            \E r \in Command(b, fits, more) :
                \/ r.ok /\ Created(r.box, parts, cost + r.fault)
                \/ /\ ~r.ok
                   /\ \E d \in Unregister(r.box) :
                         \/ d.ok /\ ErrorOccured(d.box, {}, cost + r.fault + d.fault)
                         \/ ~d.ok /\ ErrorsOccured(2, d.box, parts, cost + r.fault + d.fault)
  BY Zenon DEF AddControllers
<1>2. fits \in BOOLEAN /\ "controllers" \in Parts  BY DEF Parts
<1>3. more \in Machines /\ more.state = b.state
  <2>1. b.parts \cup {"controllers"} \in SUBSET Parts  BY <1>2, MachineIs
  <2> QED  BY <2>1, OtherParts
<1> HIDE DEF fits, more
<1>4. Leaves(handler) = "poweroff"  BY DEF Leaves
<1>5. ASSUME NEW c \in Machines, c.state = b.state, NEW f \in Nat, Created(c, parts, f) PROVE Works
  <2>1. blind \/ c.state = Leaves(handler)  BY <1>4, <1>5
  <2> QED  BY <1>5, <2>1, CompletesWorks
<1>6. CASE "controllers" \in parts
  BY <1>1, <1>5, <1>6
<1>7. CASE "controllers" \notin parts
  <2>1. PICK r \in Command(b, fits, more) :
            \/ r.ok /\ Created(r.box, parts, cost + r.fault)
            \/ /\ ~r.ok
               /\ \E d \in Unregister(r.box) :
                     \/ d.ok /\ ErrorOccured(d.box, {}, cost + r.fault + d.fault)
                     \/ ~d.ok /\ ErrorsOccured(2, d.box, parts, cost + r.fault + d.fault)
    BY <1>1, <1>7
  <2>2. r.fault \in {0, 1} /\ r.box \in {b, more}  BY <1>2, <2>1, CommandIs
  <2>3. r.box \in Machines /\ r.box.state = b.state /\ cost + r.fault \in Nat  BY <1>3, <2>2
  <2>4. CASE Created(r.box, parts, cost + r.fault)  BY <1>5, <2>3, <2>4
  <2>5. ASSUME NEW d \in Unregister(r.box),
               \/ d.ok /\ ErrorOccured(d.box, {}, cost + r.fault + d.fault)
               \/ ~d.ok /\ ErrorsOccured(2, d.box, parts, cost + r.fault + d.fault)
        PROVE  Works
    <3>1. d.fault \in {0, 1} /\ d.box \in Machines  BY <2>3, <2>5, UnregisterIs
    <3>2. cost + r.fault + d.fault \in Nat /\ {} \in SUBSET Parts /\ 1 \in {1, 2} /\ 2 \in {1, 2} /\ handler # 100
      BY <2>2, <3>1
    <3>3. CASE ErrorOccured(d.box, {}, cost + r.fault + d.fault)
      <4>1. ErrorsOccured(1, d.box, {}, cost + r.fault + d.fault)  BY <3>3, Zenon DEF ErrorOccured
      <4> QED  BY <3>1, <3>2, <4>1, ErrorWorks
    <3>4. CASE ErrorsOccured(2, d.box, parts, cost + r.fault + d.fault)
      BY <3>1, <3>2, <3>4, ErrorWorks
    <3> QED  BY <2>5, <3>3, <3>4
  <2> QED  BY <2>1, <2>4, <2>5
<1> QED  BY <1>6, <1>7

LEMMA CreateWorks ==
    ASSUME SessionInv, Plain, CreateVM
    PROVE  Works
<1>0. 104 \in Handlers  BY DEF Handlers, Nodes
<1>1. handler = 104 /\ handler # 0 /\ handler # 100 /\ ~aborting  BY <1>0, RunsIs DEF CreateVM
<1>2. ASSUME hasId' \in BOOLEAN, cache' = {} PROVE Ending
  BY <1>1, <1>2, SessionIs DEF Ending, CreateVM
<1>3. /\ box \in Machines /\ known \in SUBSET Parts /\ cache = {} /\ (~hasId => box.state = "none")
      /\ (~blind => box.state = "none") /\ hasId \in BOOLEAN
  BY <1>1, SessionIs DEF Finds
<1>4. CASE CreateNew
  <2>1. box.state = "none" /\ cache' = {}  BY <1>3, <1>4 DEF CreateNew
  <2>2. \/ hasId' = TRUE /\ AddControllers(NewMachine, known, 0)
        \/ ErrorOccured(box, known, 1) /\ UNCHANGED hasId
    BY <1>4 DEF CreateNew, Plain
  <2>3. CASE hasId' = TRUE /\ AddControllers(NewMachine, known, 0)
    <3>1. hasId' /\ hasId' \in BOOLEAN /\ 0 \in {0, 1}  BY <2>3
    <3> QED  BY <1>1, <1>2, <1>3, <2>1, <2>3, <3>1, NoMachineIs, ControllersWork
  <2>4. CASE ErrorOccured(box, known, 1) /\ UNCHANGED hasId
    <3>1. ErrorsOccured(1, box, known, 1) /\ 1 \in Nat /\ hasId' \in BOOLEAN  BY <1>3, <2>4 DEF ErrorOccured
    <3> QED  BY <1>1, <1>2, <1>3, <2>1, <3>1, ErrorWorks
  <2> QED  BY <2>2, <2>3, <2>4
<1>5. CASE CreateExisting
  <2>1. PICK i \in MachineInfo(box, hasId) :
            /\ Remember(i)
            /\ \/ i.ok /\ hasId' = TRUE /\ AddControllers(box, i.info.parts, i.fault)
               \/ ~i.ok /\ ErrorOccured(box, known, i.fault) /\ UNCHANGED hasId
    BY <1>5 DEF CreateExisting
  <2>2. box.state # "none" /\ blind /\ hasId  BY <1>3, <1>5 DEF CreateExisting
  <2>3. i.fault \in {0, 1} /\ i.info.parts \in SUBSET Parts  BY <1>3, <2>1, InfoIs
  <2>4. cache' = {}  BY <1>3, <2>1, RememberIs
  <2>5. CASE hasId' = TRUE /\ AddControllers(box, i.info.parts, i.fault)
    <3>1. hasId' /\ hasId' \in BOOLEAN  BY <2>5
    <3> QED  BY <1>1, <1>2, <1>3, <2>2, <2>3, <2>4, <2>5, <3>1, ControllersWork
  <2>6. CASE ErrorOccured(box, known, i.fault) /\ UNCHANGED hasId
    <3>1. ErrorsOccured(1, box, known, i.fault)  BY <2>6, Zenon DEF ErrorOccured
    <3>2. i.fault \in Nat /\ hasId' \in BOOLEAN /\ hasId'  BY <1>3, <2>2, <2>3, <2>6
    <3> QED  BY <1>1, <1>2, <1>3, <2>4, <3>1, <3>2, ErrorWorks
  <2> QED  BY <2>1, <2>5, <2>6
<1> QED  BY <1>4, <1>5 DEF CreateVM

LEMMA UpdateSessionWorks ==
    ASSUME SessionInv, Plain, UpdateSession
    PROVE  Works
<1>0. 101 \in Handlers  BY DEF Handlers, Nodes
<1>1. handler = 101 /\ handler # 0 /\ handler # 100 /\ ~aborting  BY <1>0, RunsIs DEF UpdateSession
<1>2. /\ box \in Machines /\ known \in SUBSET Parts /\ cache = {} /\ (~hasId => box.state = "none")
      /\ blind \in BOOLEAN /\ hasId \in BOOLEAN /\ outdated \in BOOLEAN
      /\ errors \in 0..MostErrors /\ recent \in BOOLEAN /\ TypeOK
  BY SessionIs DEF TypeOK
<1>3. /\ handler' = 0 /\ UNCHANGED life /\ UNCHANGED wish /\ box' = box /\ hasId' = hasId
      /\ errors' = errors /\ recent' = recent
  BY DEF UpdateSession, healing
<1>4. ASSUME NEW n \in Checkpoints, FSMSkew(n), ~blind' => box.state = StateOf[n]
      PROVE  EngineOK' /\ Driving'
  <2>1. n \in 2..7 \cup {107} /\ n \in 2..7 /\ n \in Driven /\ n \notin Handlers /\ Leaves(n) = StateOf[n]
    BY DEF Checkpoints, Driven, Handlers, Nodes, Leaves, StateOf
  <2>2. wish' \in {wish, 0}  BY <1>3
  <2>3. ~blind' => box'.state = Leaves(n)  BY <1>3, <1>4, <2>1
  <2> QED  BY <1>1, <1>3, <1>4, <2>1, <2>2, <2>3, SkewDrives
<1>5. /\ known' \in SUBSET Parts /\ outdated' \in BOOLEAN /\ cache' = {} /\ faults' \in 0..MaxFaults
      /\ blind' \in BOOLEAN /\ EngineOK' /\ Driving'
  <2>1. CASE ~hasId /\ FSMSkew(3) /\ blind' = FALSE /\ Pays(0) /\ UNCHANGED <<known, outdated, cache>>
    <3>1. 3 \in Checkpoints /\ StateOf[3] = "none" /\ 0 \in Nat  BY DEF Checkpoints, StateOf
    <3> QED  BY <1>2, <1>4, <2>1, <3>1, PaysIs
  <2>2. ASSUME NEW i \in MachineInfo(box, hasId), hasId, Pays(i.fault), Remember(i), known' = Loaded(i),
               blind' = (IF i.ok THEN i.info.state = "stuck" ELSE i.fault = 1),
               \/ ~i.ok /\ FSMSkew(3) /\ outdated' \in {outdated, TRUE}
               \/ /\ i.ok /\ i.info.state \in States
                  /\ FSMSkew(NodeOf(i.info.state))
                  /\ UNCHANGED outdated
               \/ /\ i.ok /\ i.info.state = "stuck"
                  /\ UNCHANGED <<engine, recorded, outdated>>
        PROVE  /\ known' \in SUBSET Parts /\ outdated' \in BOOLEAN /\ cache' = {} /\ faults' \in 0..MaxFaults
               /\ blind' \in BOOLEAN /\ EngineOK' /\ Driving'
    <3>1. /\ i.ok \in BOOLEAN /\ i.fault \in {0, 1} /\ i.info.parts \in SUBSET Parts
          /\ i.info.state = box.state /\ (~i.ok /\ i.fault = 0 => box.state = "none")
      BY <1>2, <2>2, InfoIs
    <3>2. known' \in SUBSET Parts  BY <2>2, <3>1 DEF Loaded
    <3>3. cache' = {} /\ faults' \in 0..MaxFaults /\ outdated' \in BOOLEAN
      BY <1>2, <2>2, <3>1, RememberIs, PaysIs
    <3>4. (i.ok => (blind' <=> i.info.state = "stuck")) /\ (~i.ok => (blind' <=> i.fault = 1)) /\ blind' \in BOOLEAN
      BY <2>2, <3>1
    <3>5. CASE ~i.ok /\ FSMSkew(3)
      <4>1. 3 \in Checkpoints /\ StateOf[3] = "none"  BY DEF Checkpoints, StateOf
      <4> QED  BY <1>4, <3>1, <3>2, <3>3, <3>4, <3>5, <4>1
    <3>6. CASE i.info.state \in States /\ FSMSkew(NodeOf(i.info.state))
      <4>1. NodeOf(i.info.state) \in Checkpoints /\ StateOf[NodeOf(i.info.state)] = box.state
        BY <3>1, <3>6, StatesAre
      <4> QED  BY <1>4, <3>2, <3>3, <3>4, <3>6, <4>1
    <3>7. CASE i.ok /\ i.info.state = "stuck" /\ UNCHANGED <<engine, recorded, outdated>>
      <4>1. blind'  BY <3>4, <3>7
      <4>2. Succeeded  BY <3>7, <4>1 DEF Succeeded
      <4> QED  BY <1>1, <1>3, <3>2, <3>3, <3>4, <4>2, HandlerDrives
    <3> QED  BY <2>2, <3>5, <3>6, <3>7
  <2> QED  BY <2>1, <2>2 DEF UpdateSession
<1> QED  BY <1>1, <1>2, <1>3, <1>5 DEF Works

LEMMA CheckWorks ==
    ASSUME SessionInv, CheckVMAPI
    PROVE  Works
<1>0. 211 \in Handlers  BY DEF Handlers, Nodes
<1>1. handler = 211 /\ handler # 0 /\ handler # 100 /\ ~aborting  BY <1>0, RunsIs DEF CheckVMAPI
<1>2. /\ box \in Machines /\ known \in SUBSET Parts /\ cache = {} /\ (~hasId => box.state = "none")
      /\ blind \in BOOLEAN /\ hasId \in BOOLEAN /\ outdated \in BOOLEAN
      /\ errors \in 0..MostErrors /\ recent \in BOOLEAN /\ faults \in 0..MaxFaults
      /\ (~blind => box.state = "saved")
  BY <1>1, SessionIs DEF TypeOK, Finds
<1>3. /\ handler' = 0 /\ UNCHANGED life /\ UNCHANGED wish /\ box' = box /\ hasId' = hasId /\ known' = known
      /\ outdated' = outdated /\ errors' = errors /\ recent' = recent /\ cache' = cache /\ faults' = faults
      /\ blind' = blind
  BY DEF CheckVMAPI, healing
<1>4. CASE FSMSkew(107)
  <2>1. path # <<>>  BY <1>1 DEF SessionInv, Driving, AtRest
  <2>2. 107 \in 2..7 \cup {107} /\ 107 \in Driven /\ 107 \in Handlers /\ Finds(107) = {"saved"}
    BY DEF Driven, Handlers, Nodes, Finds
  <2>3. wish' \in {wish, 0} /\ (~blind' => box'.state \in Finds(107))  BY <1>2, <1>3, <2>2
  <2>4. EngineOK' /\ Driving'  BY <1>1, <1>3, <1>4, <2>1, <2>2, <2>3, SkewDrives
  <2> QED  BY <1>1, <1>2, <1>3, <2>4 DEF Works
<1>5. CASE UNCHANGED <<engine, recorded>>
  <2>1. Leaves(211) = "saved"  BY DEF Leaves
  <2>2. Succeeded  BY <1>1, <1>2, <1>3, <1>5, <2>1 DEF Succeeded
  <2>3. EngineOK' /\ Driving'  BY <1>1, <1>3, <2>2, HandlerDrives
  <2> QED  BY <1>1, <1>2, <1>3, <2>3 DEF Works
<1> QED  BY <1>4, <1>5 DEF CheckVMAPI

LEMMA HandlersWork ==
    ASSUME SessionInv, Plain, HandlerStep, ~AbortedHandler
    PROVE  Works
  BY EmptyWorks, UpdateSessionWorks, CreateWorks, SimpleWorks, MediaWork, ContextWorks, StartWorks,
     CheckWorks, ReleaseWorks, DestroyWorks
  DEF HandlerStep

(***************************************************************************)
(* The steps.                                                              *)
(***************************************************************************)
LEMMA NoCache == {} \subseteq Info /\ Cardinality({}) <= 1
  BY FS_EmptySet

\* What makes the invariant hold after a step.
LEMMA Again ==
    ASSUME EngineOK', box' \in Machines, known' \in SUBSET Parts, hasId' \in BOOLEAN, outdated' \in BOOLEAN,
           running' \in BOOLEAN, aborting' \in BOOLEAN, errors' \in 0..MostErrors, recent' \in BOOLEAN,
           cache' = {}, opens' \in 0..MaxOpens, faults' \in 0..MaxFaults, blind' \in BOOLEAN,
           wish' \in Checkpoints \cup {0},
           opens' # 0, ~hasId' => box'.state = "none", handler' # 0 => cur' = handler',
           ~aborting' => Driving'
    PROVE  SessionInv'
<1>1. TypeOK'  BY NoCache DEF TypeOK, EngineOK
<1>2. Basics'  BY DEF Basics
<1> QED  BY <1>1, <1>2 DEF SessionInv

LEMMA Opened ==
    ASSUME SessionInv, path # <<>> \/ handler # 0 \/ cur # 1 \/ opens # 0
    PROVE  opens # 0
  BY DEF SessionInv, Basics

LEMMA ContinueKeeps ==
    ASSUME SessionInv, Continue
    PROVE  SessionInv'
<1>1. EngineOK' /\ (~aborting => Driving') /\ (handler' # 0 => cur' = handler')  BY ContinueDrives
<1>2. /\ path # <<>>
      /\ UNCHANGED <<box, known, hasId, outdated, target, life, healing, cache, faults, blind, wish>>
  BY ContinueIs
<1>3. opens # 0  BY <1>2, Opened
<1>4. UNCHANGED <<running, aborting, opens, errors, recent>>  BY <1>2 DEF life, healing
<1>5. TypeOK /\ cache = {} /\ (~hasId => box.state = "none")  BY SessionIs
<1> QED  BY <1>1, <1>2, <1>3, <1>4, <1>5, Again DEF TypeOK

LEMMA HandlersKeep ==
    ASSUME SessionInv, Works
    PROVE  SessionInv'
<1>1. opens # 0  BY Opened DEF Works
<1>2. UNCHANGED <<running, aborting, opens>> /\ wish' = wish  BY DEF Works, life
<1>3. TypeOK  BY SessionIs
<1> QED  BY <1>1, <1>2, <1>3, Again DEF Works, TypeOK

\* Steps that leave the engine where it is.
LEMMA StillDriving ==
    ASSUME SessionInv, ~aborting, UNCHANGED <<engine, recorded, handler, wish>>,
           ~blind' => ~blind /\ box' = box
    PROVE  Driving'
<1>1. /\ cur' = cur /\ path' = path /\ target' = target /\ recorded' = recorded /\ handler' = handler
      /\ wish' = wish /\ (~blind' => ~blind) /\ (blind => blind')
  BY DEF engine
<1>2. Driving  BY DEF SessionInv
<1>3. OnItsWay' /\ AtRest' /\ Recorded'  BY <1>1, <1>2 DEF Driving, OnItsWay, AtRest, Recorded
<1>4. Asked'  BY <1>1, <1>2 DEF Driving, Asked
<1>5. Placed'  BY <1>1, <1>2 DEF Driving, Placed, SkewedTo
<1> QED  BY <1>3, <1>4, <1>5 DEF Driving

LEMMA ExternalKeeps ==
    ASSUME SessionInv, ExternalChange
    PROVE  SessionInv'
<1>1. PICK change \in Changes :
          /\ box.state = change[1]
          /\ box' = CASE change[2] = "none"  -> NoMachine
                      [] change[2] = "stuck" -> [box EXCEPT !.state = "stuck"]
                      [] change[1] = "saved" -> [box EXCEPT !.state = "poweroff"]
                      [] OTHER -> Becomes(box, change[2])
  BY DEF ExternalChange
<1>2. /\ TypeOK /\ box \in Machines /\ cache = {} /\ (~hasId => box.state = "none")
      /\ (handler # 0 => cur = handler)
  BY SessionIs
<1>3. /\ change[1] \in {"running", "paused", "stuck", "saved", "poweroff"}
      /\ change[2] \in {"none", "stuck"} \cup {"paused", "poweroff", "saved", "running"}
  BY <1>1 DEF Changes
<1>4. box' \in Machines
  <2>1. {"paused", "poweroff", "saved", "running"} \subseteq States  BY StatesAre
  <2>2. /\ NoMachine \in Machines /\ [box EXCEPT !.state = "stuck"] \in Machines
        /\ [box EXCEPT !.state = "poweroff"] \in Machines
    BY <1>2, <2>1, NoMachineIs, OtherState
  <2>3. \A s \in {"paused", "poweroff", "saved", "running"} : Becomes(box, s) \in Machines
    BY <1>2, <2>1, BecomesIs
  <2> QED  BY <1>1, <1>3, <2>2, <2>3
<1>5. hasId  BY <1>1, <1>2, <1>3 DEF TypeOK
<1>6. /\ blind' = TRUE /\ Pays(1)
      /\ UNCHANGED <<known, hasId, outdated, recorded, engine, handler, life, healing, cache, wish>>
  BY DEF ExternalChange
<1>7. ~aborting => Driving'  BY <1>6, StillDriving
<1>8. UNCHANGED <<running, aborting, opens, errors, recent, cur, path, target>>  BY <1>6 DEF life, healing, engine
<1>9. faults' \in 0..MaxFaults  BY <1>2, <1>6, PaysIs
<1>10. CASE opens # 0
  <2>1. EngineOK'  BY <1>2, <1>6, <1>8 DEF TypeOK, EngineOK
  <2> QED  BY <1>2, <1>4, <1>5, <1>6, <1>7, <1>8, <1>9, <1>10, <2>1, Again DEF TypeOK
<1>11. CASE opens = 0
  <2>1. TypeOK'  BY <1>2, <1>4, <1>6, <1>8, <1>9 DEF TypeOK
  <2>2. Basics'  BY <1>5, <1>6, <1>8, <1>11 DEF SessionInv, Basics
  <2> QED  BY <1>7, <1>8, <2>1, <2>2 DEF SessionInv
<1> QED  BY <1>10, <1>11, <1>2 DEF TypeOK

LEMMA TimeKeeps ==
    ASSUME SessionInv, TimePasses
    PROVE  SessionInv'
<1>1. /\ UNCHANGED <<box, known, hasId, outdated, recorded, engine, handler, life, errors, cache, faults, blind, wish>>
      /\ recent' = FALSE
  BY DEF TimePasses
<1>2. UNCHANGED <<running, aborting, opens, cur, path, target>>  BY <1>1 DEF life, engine
<1>3. ~aborting => Driving'  BY <1>1, StillDriving
<1>4. TypeOK'  BY <1>1, <1>2 DEF SessionInv, TypeOK
<1>5. Basics'  BY <1>1, <1>2 DEF SessionInv, Basics
<1> QED  BY <1>2, <1>3, <1>4, <1>5 DEF SessionInv

LEMMA StutterKeeps ==
    ASSUME SessionInv, UNCHANGED vars
    PROVE  SessionInv'
<1>1. UNCHANGED <<box, known, hasId, outdated, recorded, engine, handler, life, healing, cache, faults, blind, wish>>
  BY DEF vars
<1>2. UNCHANGED <<running, aborting, opens, errors, recent, cur, path, target>>  BY <1>1 DEF life, healing, engine
<1>3. ~aborting => Driving'  BY <1>1, StillDriving
<1>4. TypeOK'  BY <1>1, <1>2 DEF SessionInv, TypeOK
<1>5. Basics'  BY <1>1, <1>2 DEF SessionInv, Basics
<1> QED  BY <1>2, <1>3, <1>4, <1>5 DEF SessionInv

LEMMA AbortKeeps ==
    ASSUME SessionInv, Abort \/ ThreadStops \/ AbortedHandler
    PROVE  SessionInv'
<1>1. /\ UNCHANGED <<box, known, hasId, outdated, recorded, engine, opens, healing, cache, faults, blind, wish>>
      /\ aborting' = TRUE /\ handler' \in {handler, 0} /\ opens # 0
      /\ running' \in {running, FALSE}
  <2>1. (aborting => opens # 0) /\ aborting \in BOOLEAN  BY DEF SessionInv, TypeOK, Basics
  <2>2. CASE Abort  BY <2>2 DEF Abort, SessionInv, TypeOK
  <2>3. CASE ThreadStops  BY <2>1, <2>3 DEF ThreadStops
  <2>4. CASE AbortedHandler  BY <2>1, <2>4 DEF AbortedHandler, life
  <2> QED  BY <2>2, <2>3, <2>4
<1>2. UNCHANGED <<errors, recent, cur, path, target>>  BY <1>1 DEF healing, engine
<1>3. TypeOK'  BY <1>1, <1>2 DEF SessionInv, TypeOK
<1>4. Basics'  BY <1>1, <1>2 DEF SessionInv, Basics
<1> QED  BY <1>1, <1>3, <1>4 DEF SessionInv

\* No handler runs in the sink: nothing leads on from it.
LEMMA NoSink ==
    ASSUME SessionInv, ~aborting, handler # 0
    PROVE  handler # 112
<1> SUFFICES ASSUME handler = 112 PROVE FALSE  OBVIOUS
<1>1. cur = 112 /\ Driving /\ 112 # 101  BY DEF SessionInv, Basics
<1>2. path # <<>>  BY <1>1 DEF Driving, AtRest
<1>3. path[1] \in LinkedTo(112)  BY <1>1, <1>2 DEF Driving, OnItsWay
<1> QED  BY <1>3, HandlersLinkTo

LEMMA NoLoop ==
    ASSUME NEW a \in Nodes
    PROVE  a \notin LinkedTo(a)
<1>1. ~LinkIs(a, a)  BY DEF LinkIs
<1> QED  BY <1>1, TheLinks

LEMMA RequestDrives ==
    ASSUME SessionInv, Plain, NEW n \in Checkpoints, Request(n)
    PROVE  /\ EngineOK' /\ Driving'
           /\ opens # 0 /\ ~aborting /\ wish' = n
           /\ UNCHANGED <<box, known, hasId, recorded, handler, running, aborting, opens, errors, recent,
                          cache, faults, blind, cur>>
<1>1. /\ opens # 0 /\ ~aborting /\ ~SkewedTo /\ FSMGoto(n) /\ wish' = n
      /\ UNCHANGED <<box, known, hasId, recorded, handler, running, aborting, opens, errors, recent,
                     cache, faults, blind>>
  BY DEF Request, Plain, life, healing, SessionInv, TypeOK
<1>2. /\ path' = (IF Route(cur, n) = <<>> THEN <<>> ELSE Tail(Route(cur, n)))
      /\ target' = (IF Route(cur, n) = <<>> THEN target ELSE n)
      /\ cur' = cur
  BY <1>1 DEF FSMGoto
<1>3. /\ cur \in Nodes /\ n \in Nodes /\ target \in Nodes /\ recorded \in States /\ n # 0
      /\ handler \in Handlers \cup {0} /\ (handler # 0 => cur = handler) /\ Driving
      /\ blind \in BOOLEAN
  BY <1>1, NodesAre DEF SessionInv, TypeOK, Basics, Checkpoints
<1>4. Recorded'  BY <1>1, <1>2, <1>3 DEF Driving, Recorded
<1>5. CASE Route(cur, n) = <<>>
  <2>1. cur = n \/ cur = 112  BY <1>3, <1>5, NoRoute
  <2>2. handler = 0
    <3>1. n \notin Handlers  BY NodesAre
    <3> QED  BY <1>1, <1>3, <2>1, <3>1, NoSink
  <2>3. path' = <<>> /\ target' = target  BY <1>2, <1>5
  <2>4. path' \in Seq(Nodes) /\ OnItsWay'  BY <2>3, EmptySeq DEF OnItsWay
  <2>5. AtRest'  BY <1>1, <1>2, <2>1, <2>2 DEF AtRest, Checkpoints
  <2>6. cur = 112 => blind  BY <1>3 DEF Driving, Placed, Driven
  <2>7. Asked'  BY <1>1, <1>2, <2>1, <2>2, <2>3, <2>6 DEF Asked
  <2>8. Placed'
    <3>1. ~SkewedTo'  BY <2>3 DEF SkewedTo
    <3> QED  BY <1>1, <1>2, <1>3, <2>2, <3>1 DEF Driving, Placed
  <2>9. EngineOK'  BY <1>1, <1>2, <1>3, <2>3, <2>4 DEF EngineOK
  <2> QED  BY <1>1, <1>2, <1>4, <2>4, <2>5, <2>7, <2>8, <2>9 DEF Driving
<1>6. CASE Route(cur, n) # <<>>
  <2>1. path' = Tail(Route(cur, n)) /\ target' = n  BY <1>2, <1>6
  <2>2. /\ path' \in Seq(Nodes) /\ path' # <<>> /\ Linked(path') /\ path'[Len(path')] = n
        /\ path'[1] \in LinkedTo(cur)
    BY <1>3, <1>6, <2>1, TailIs
  <2>3. OnItsWay'  BY <1>2, <2>1, <2>2 DEF OnItsWay
  <2>4. AtRest' /\ Asked'  BY <1>1, <2>1, <2>2 DEF AtRest, Asked
  <2>5. ~SkewedTo'
    <3>1. path'[1] # cur  BY <1>3, <2>2, NoLoop
    <3> QED  BY <1>2, <2>2, <3>1 DEF SkewedTo
  <2>6. Placed'  BY <1>1, <1>2, <1>3, <2>5 DEF Driving, Placed
  <2>7. EngineOK'  BY <1>1, <1>2, <1>3, <2>1, <2>2 DEF EngineOK
  <2> QED  BY <1>1, <1>2, <1>4, <2>3, <2>4, <2>6, <2>7 DEF Driving
<1> QED  BY <1>5, <1>6

LEMMA RequestKeeps ==
    ASSUME SessionInv, Plain, NEW n \in Checkpoints, Request(n), outdated' \in BOOLEAN
    PROVE  SessionInv'
<1>1. /\ EngineOK' /\ Driving' /\ opens # 0 /\ ~aborting /\ wish' = n
      /\ UNCHANGED <<box, known, hasId, recorded, handler, running, aborting, opens, errors, recent,
                     cache, faults, blind, cur>>
  BY RequestDrives
<1>2. TypeOK /\ Basics  BY DEF SessionInv
<1>3. /\ box' \in Machines /\ known' \in SUBSET Parts /\ hasId' \in BOOLEAN /\ running' \in BOOLEAN
      /\ aborting' \in BOOLEAN /\ errors' \in 0..MostErrors /\ recent' \in BOOLEAN /\ cache' = {}
      /\ opens' \in 0..MaxOpens /\ faults' \in 0..MaxFaults /\ blind' \in BOOLEAN
      /\ (~hasId' => box'.state = "none") /\ (handler' # 0 => cur' = handler')
  BY <1>1, <1>2 DEF TypeOK, Basics
<1> QED  BY <1>1, <1>3, Again

LEMMA OpenKeeps ==
    ASSUME SessionInv, Plain, Open
    PROVE  SessionInv'
<1>1. /\ opens = 0 /\ opens' = 1 /\ opens' \in 0..MaxOpens /\ aborting' = FALSE /\ running' = TRUE
      /\ FSMGoto(101) /\ wish' = 0
      /\ UNCHANGED <<box, known, hasId, outdated, recorded, handler, errors, recent, cache, faults, blind>>
  BY BoundsAssumption DEF Open, Plain, healing
<1>2. TypeOK /\ cur = 1 /\ path = <<>> /\ handler = 0 /\ wish = 0 /\ blind /\ ~aborting /\ cache = {}
      /\ (~hasId => box.state = "none")
  BY <1>1 DEF SessionInv, Basics
<1>3. Route(1, 101) = <<1, 100, 101>>  BY RouteAssumption
<1>4. Route(1, 101) # <<>>  BY <1>3
<1>6. 101 \in Nodes /\ 1 \in Nodes /\ 100 \in Nodes /\ 1 \notin Checkpoints /\ 1 \notin Handlers
  BY DEF Nodes, Checkpoints, Handlers
<1>10. Tail(Route(1, 101)) = <<100, 101>>
  <2> DEFINE r == <<1, 100, 101>>
             p == Tail(r)
  <2>1. r \in Seq(Nodes) /\ Len(r) = 3 /\ r[2] = 100 /\ r[3] = 101  BY <1>6
  <2> HIDE DEF r
  <2>2. p \in Seq(Nodes) /\ Len(p) = 2 /\ p[1] = 100 /\ p[2] = 101  BY <2>1
  <2> HIDE DEF p
  <2>3. p = <<100, 101>>  BY <2>2, TwoElements
  <2> QED  BY <1>3, <2>3 DEF p, r
<1>5. cur' = 1 /\ path' = <<100, 101>> /\ target' = 101  BY <1>1, <1>2, <1>4, <1>10 DEF FSMGoto
<1>7. path' \in Seq(Nodes) /\ path' # <<>> /\ Linked(path') /\ path'[Len(path')] = 101 /\ path'[1] \in LinkedTo(1)
  <2> DEFINE p == Tail(Route(1, 101))
  <2>1. p \in Seq(Nodes) /\ p # <<>> /\ Linked(p) /\ p[Len(p)] = 101 /\ p[1] \in LinkedTo(1)
    BY <1>4, <1>6, TailIs
  <2>2. p = path'  BY <1>5, <1>10
  <2> HIDE DEF p
  <2> QED  BY <2>1, <2>2
<1>8. EngineOK'  BY <1>1, <1>2, <1>5, <1>6, <1>7 DEF EngineOK, TypeOK
<1>9. Driving'
  BY <1>1, <1>2, <1>5, <1>6, <1>7 DEF Driving, OnItsWay, AtRest, Asked, Recorded, Placed
<1>11. /\ box' \in Machines /\ known' \in SUBSET Parts /\ hasId' \in BOOLEAN /\ outdated' \in BOOLEAN
       /\ errors' \in 0..MostErrors /\ recent' \in BOOLEAN /\ cache' = {} /\ faults' \in 0..MaxFaults
       /\ blind' \in BOOLEAN /\ (~hasId' => box'.state = "none")
  BY <1>1, <1>2 DEF TypeOK
<1>12. /\ running' \in BOOLEAN /\ aborting' \in BOOLEAN /\ wish' \in Checkpoints \cup {0} /\ opens' # 0
       /\ handler' = 0 /\ opens' \in 0..MaxOpens
  <2>1. handler' = 0  BY <1>1, <1>2
  <2>2. opens' # 0  BY <1>1
  <2>3. running' = TRUE /\ aborting' = FALSE /\ wish' = 0 /\ opens' \in 0..MaxOpens  BY <1>1
  <2> QED  BY <2>1, <2>2, <2>3
<1> QED  BY <1>8, <1>9, <1>11, <1>12, Again

LEMMA UpdateKeeps ==
    ASSUME SessionInv, Plain, Update
    PROVE  SessionInv' /\ handler' = 0 /\ cur' \in Checkpoints
<1>1. /\ opens # 0 /\ ~aborting /\ path = <<>> /\ handler = 0 /\ LogState = box.state /\ FSMSkew(NodeOf(LogState))
      /\ wish' = 0 /\ blind' = FALSE
      /\ UNCHANGED <<box, known, hasId, outdated, handler, running, aborting, opens, errors, recent, cache, faults>>
  BY DEF Update, Plain, life, healing
<1>2. TypeOK /\ cache = {} /\ (~hasId => box.state = "none") /\ box \in Machines  BY SessionIs
<1>3. LogState \in States
  BY <1>2, StatesAre, MachineIs DEF LogState
<1> DEFINE n == NodeOf(LogState)
<1>4. n \in Checkpoints /\ StateOf[n] = box.state  BY <1>1, <1>3, StatesAre
<1>5. FSMSkew(n)  BY <1>1
<1> HIDE DEF n
<1>6. /\ n \in 2..7 \cup {107} /\ n \in 2..7 /\ n \in Driven /\ n \notin Handlers /\ Leaves(n) = StateOf[n]
  BY <1>4 DEF Checkpoints, Driven, Handlers, Nodes, Leaves, StateOf
<1>7. ~blind' => box'.state = Leaves(n)  BY <1>1, <1>4, <1>6
<1>8. handler' = 0 /\ wish' \in {wish, 0}  BY <1>1
<1>9. EngineOK' /\ Driving'  BY <1>1, <1>5, <1>6, <1>7, <1>8, SkewDrives
<1>10. cur' = n  BY <1>5 DEF FSMSkew
<1> QED  BY <1>1, <1>2, <1>4, <1>8, <1>9, <1>10, Again DEF TypeOK

LEMMA CheckpointIs == {3, 4, 5, 6, 7} = Checkpoints
  BY DEF Checkpoints

LEMMA StepKeeps ==
    ASSUME SessionInv, Plain, [Next]_vars
    PROVE  SessionInv'
<1>1. CASE Continue  BY <1>1, ContinueKeeps
<1>2. CASE HandlerStep
  <2>1. CASE AbortedHandler  BY <2>1, AbortKeeps
  <2>2. CASE ~AbortedHandler  BY <1>2, <2>2, HandlersWork, HandlersKeep
  <2> QED  BY <2>1, <2>2
<1>3. CASE Open  BY <1>3, OpenKeeps
<1>4. CASE Close \/ Stop \/ Hibernate \/ Pause \/ Resume \/ Start
  <2>1. PICK n \in Checkpoints : Request(n) /\ outdated' \in {outdated, TRUE}
    BY <1>4, CheckpointIs DEF Close, Stop, Hibernate, Pause, Resume, Start
  <2>2. outdated' \in BOOLEAN  BY <2>1, SessionIs
  <2> QED  BY <2>1, <2>2, RequestKeeps
<1>5. CASE Update  BY <1>5, UpdateKeeps
<1>6. CASE Abort \/ ThreadStops  BY <1>6, AbortKeeps
<1>7. CASE ExternalChange  BY <1>7, ExternalKeeps
<1>8. CASE TimePasses  BY <1>8, TimeKeeps
<1>9. CASE CacheExpires  BY <1>9, SessionIs DEF CacheExpires
<1>10. CASE UNCHANGED vars  BY <1>10, StutterKeeps
<1> QED  BY <1>1, <1>2, <1>3, <1>4, <1>5, <1>6, <1>7, <1>8, <1>9, <1>10 DEF Next, ClientCall

LEMMA StartsRight ==
    ASSUME Init
    PROVE  SessionInv
<1>1. /\ hasId \in BOOLEAN /\ outdated \in BOOLEAN /\ recorded \in States /\ known \in SUBSET Parts
      /\ box \in Machines /\ (~hasId => box.state = "none")
  <2>1. CASE box = NoMachine /\ hasId = FALSE /\ recorded = "none" /\ known = {} /\ outdated = TRUE
    BY <2>1, NoMachineIs, StatesAre
  <2>2. ASSUME hasId = TRUE, outdated \in BOOLEAN, NEW s \in States, recorded \in {s, "poweroff"},
               box = (IF s = "none" THEN NoMachine ELSE [state |-> s, parts |-> Parts, log |-> s]),
               known = Parts
        PROVE  /\ hasId \in BOOLEAN /\ outdated \in BOOLEAN /\ recorded \in States /\ known \in SUBSET Parts
               /\ box \in Machines /\ (~hasId => box.state = "none")
    <3>1. s \in States \cup {"stuck"} /\ Parts \in SUBSET Parts  OBVIOUS
    <3>2. [state |-> s, parts |-> Parts, log |-> s] \in Machines  BY <3>1, Zenon DEF Machines
    <3> QED  BY <2>2, <3>2, NoMachineIs, StatesAre
  <2> QED  BY <2>1, <2>2 DEF Init
<1>2. /\ cur = 1 /\ path = <<>> /\ target = 1 /\ handler = 0 /\ running = FALSE /\ aborting = FALSE
      /\ errors = 0 /\ recent = FALSE /\ cache = {} /\ opens = 0 /\ faults = 0 /\ blind = TRUE /\ wish = 0
  BY DEF Init
<1>3. 1 \in Nodes /\ <<>> \in Seq(Nodes) /\ 1 \notin Checkpoints  BY EmptySeq DEF Nodes, Checkpoints
<1>4. 0 \in 0..MostErrors /\ 0 \in 0..MaxOpens /\ 0 \in 0..MaxFaults
  BY BoundsAssumption DEF MostErrors, SESSION_HEAL_TRIES
<1>5. TypeOK  BY <1>1, <1>2, <1>3, <1>4, NoCache DEF TypeOK
<1>6. Basics  BY <1>1, <1>2 DEF Basics
<1>7. Driving  BY <1>2, <1>3 DEF Driving, OnItsWay, AtRest, Asked, Recorded, Placed
<1> QED  BY <1>5, <1>6, <1>7 DEF SessionInv

\* Whatever the clients ask for, whatever fails and whoever changes the machine, the engine of a
\* session is on a walk to its target or at rest, the request is not forgotten, and where the
\* machine has been seen its state is the one that the next handler needs.
THEOREM AlwaysDriving ==
    ASSUME Plain
    PROVE  Spec => []SessionInv
<1>1. Init => SessionInv  BY StartsRight
<1>2. SessionInv /\ [Next]_vars => SessionInv'  BY StepKeeps
<1> QED  BY <1>1, <1>2, PTL DEF Spec

LEMMA AtCheckpoint ==
    ASSUME SessionInv, Rests, ~blind
    PROVE  cur \in Checkpoints /\ recorded = StateOf[cur] /\ box.state = StateOf[cur]
<1>1. Driving /\ path = <<>> /\ handler = 0  BY DEF SessionInv, Rests
<1>2. ~SkewedTo  BY <1>1 DEF SkewedTo
<1>3. cur \in Driven /\ box.state = Leaves(cur)  BY <1>1, <1>2 DEF Driving, Placed
<1>4. cur \in 3..7  BY <1>1, <1>3 DEF Driving, AtRest, Driven
<1>5. Leaves(cur) = StateOf[cur] /\ cur \in Checkpoints  BY <1>4 DEF Leaves, StateOf, Checkpoints
<1> QED  BY <1>1, <1>3, <1>5 DEF Driving, Recorded

\* The variables have their types: among others errorCount and the path, which the handlers and
\* the clients both write.
THEOREM TypeCorrect ==
    ASSUME Plain
    PROVE  Spec => []TypeOK
<1>1. SessionInv => TypeOK  BY DEF SessionInv
<1> QED  BY <1>1, AlwaysDriving, PTL

\* When the engine rests and nothing has happened behind its back, local "state" is the machine's
\* state: FSMEnteringState has recorded the last checkpoint, and no earlier one after it.
THEOREM RecordsWhatIs ==
    ASSUME Plain
    PROVE  Spec => []HonestState
<1>1. SessionInv => HonestState  BY AtCheckpoint DEF HonestState
<1> QED  BY <1>1, AlwaysDriving, PTL

\* ... and the machine is where the last client wanted it: neither the detour through the error
\* state nor CheckVMAPI's rerouting loses the target.
THEOREM EndsWhereAsked ==
    ASSUME Plain
    PROVE  Spec => []Obeys
<1>1. SessionInv => Obeys
  <2> SUFFICES ASSUME SessionInv, Rests, ~blind, wish # 0 PROVE cur = wish /\ box.state = StateOf[wish]
    BY DEF Obeys
  <2>1. cur = wish  BY DEF SessionInv, Driving, Asked, Rests
  <2> QED  BY <2>1, AtCheckpoint
<1> QED  BY <1>1, AlwaysDriving, PTL

(***************************************************************************)
(* The data of a machine that is resumed.                                  *)
(***************************************************************************)
LEMMA ErrorLands ==
    ASSUME NEW n, NEW b, NEW parts, NEW cost, ErrorsOccured(n, b, parts, cost)
    PROVE  cur' \in {112, 2}
  BY DEF ErrorsOccured, FSMSkew

LEMMA EndLands ==
    ASSUME NEW b, NEW parts, NEW cost
    PROVE  /\ ErrorOccured(b, parts, cost) => cur' \in {112, 2}
           /\ Completes(b, parts, cost) => cur' = cur
           /\ Created(b, parts, cost) => cur' = cur
<1>1. ErrorOccured(b, parts, cost) => cur' \in {112, 2}
  BY ErrorLands, Zenon DEF ErrorOccured
<1>2. Completes(b, parts, cost) => cur' = cur  BY DEF Completes, engine
<1>3. Created(b, parts, cost) => cur' = cur  BY DEF Created, engine
<1> QED  BY <1>1, <1>2, <1>3

\* Where a handler leaves the engine.
Landed == cur' \in {cur, 112, 2, 107} \cup Checkpoints

LEMMA CommandLands ==
    ASSUME NEW n, NEW outcomes, Handler(n, outcomes)
    PROVE  Landed
  BY EndLands DEF Handler, Landed

LEMMA SkewLands ==
    ASSUME NEW n \in {2, 107} \cup Checkpoints, FSMSkew(n)
    PROVE  Landed
  BY DEF FSMSkew, Landed

LEMMA UpdateLands ==
    ASSUME SessionInv, UpdateSession
    PROVE  Landed
<1>1. 3 \in Checkpoints  BY DEF Checkpoints
<1>2. CASE FSMSkew(3)  BY <1>1, <1>2, SkewLands
<1>3. ASSUME NEW s \in States, FSMSkew(NodeOf(s)) PROVE Landed
  BY <1>3, StatesAre, SkewLands
<1>4. CASE UNCHANGED engine  BY <1>4 DEF engine, Landed
<1> QED  BY <1>2, <1>3, <1>4 DEF UpdateSession

LEMMA CreateLands ==
    ASSUME CreateVM
    PROVE  Landed
<1>1. ASSUME NEW b, NEW parts, NEW cost, AddControllers(b, parts, cost) PROVE Landed
  <2>1. CASE Created(b, parts, cost)  BY <2>1, EndLands DEF Landed
  <2>2. ASSUME NEW r, NEW more,
               \/ r.ok /\ Created(r.box, parts, cost + r.fault)
               \/ /\ ~r.ok
                  /\ \E d \in Unregister(r.box) :
                        \/ d.ok /\ ErrorOccured(d.box, {}, cost + r.fault + d.fault)
                        \/ ~d.ok /\ ErrorsOccured(2, d.box, parts, cost + r.fault + d.fault)
        PROVE  Landed
    BY <2>2, EndLands, ErrorLands DEF Landed
  <2> QED  BY <1>1, <2>1, <2>2 DEF AddControllers
<1>2. ASSUME NEW b, NEW parts, NEW cost, ErrorOccured(b, parts, cost) PROVE Landed
  BY <1>2, EndLands DEF Landed
<1>3. CreateNew => Landed  BY <1>1, <1>2 DEF CreateNew
<1>4. CreateExisting => Landed  BY <1>1, <1>2 DEF CreateExisting
<1> QED  BY <1>3, <1>4 DEF CreateVM

LEMMA HandlersLand ==
    ASSUME SessionInv, HandlerStep, ~AbortedHandler
    PROVE  Landed
<1>1. CASE EmptyHandler  BY <1>1, EndLands DEF EmptyHandler, Landed
<1>2. CASE \/ ConfigNetwork \/ DownloadMedia \/ ConfigureVM \/ PauseVM \/ ResumeVM \/ SaveVMState
           \/ PoweroffVM \/ DiscardVMState
  BY <1>2, CommandLands
  DEF ConfigNetwork, DownloadMedia, ConfigureVM, PauseVM, ResumeVM, SaveVMState, PoweroffVM, DiscardVMState, Control
<1>3. CASE ConfigureVMBoot  BY <1>3, EndLands DEF ConfigureVMBoot, Mounts, Landed
<1>4. CASE ConfigureVMScratch  BY <1>4, EndLands DEF ConfigureVMScratch, Mounts, Landed
<1>5. CASE ConfigureVMAPI  BY <1>5, EndLands DEF ConfigureVMAPI, Landed
<1>6. CASE StartVM  BY <1>6, EndLands DEF StartVM, Landed
<1>7. CASE CheckVMAPI
  <2>1. CASE FSMSkew(107)  BY <2>1, SkewLands
  <2>2. CASE UNCHANGED engine  BY <2>2 DEF engine, Landed
  <2> QED  BY <1>7, <2>1, <2>2 DEF CheckVMAPI
<1>8. CASE ReleaseVMScratch \/ ReleaseVMBoot \/ ReleaseVMAPI
  BY <1>8, EndLands DEF ReleaseVMScratch, ReleaseVMBoot, ReleaseVMAPI, Release, Landed
<1>9. CASE DestroyVM  BY <1>9, EndLands, ErrorLands DEF DestroyVM, Landed
<1> QED
  BY <1>1, <1>2, <1>3, <1>4, <1>5, <1>6, <1>7, <1>8, <1>9, UpdateLands, CreateLands DEF HandlerStep

ReadyInv == ~aborting => Ready   \* ThreadStops ends a handler wherever it is

LEMMA ContinueReady ==
    ASSUME SessionInv, ReadyInv, Continue
    PROVE  ReadyInv'
<1>1. /\ running /\ handler = 0 /\ path # <<>> /\ cur' = path[Min(Stops)]
      /\ handler' = (IF path[Min(Stops)] \in Handlers THEN path[Min(Stops)] ELSE 0)
      /\ UNCHANGED <<outdated, life>>
  BY ContinueIs
<1> SUFFICES ASSUME ~aborting, handler' = 206 \/ (handler' = 0 /\ cur' \in {205, 211}) PROVE ~outdated
  BY <1>1 DEF ReadyInv, Ready, life
<1>2. Driving /\ path \in Seq(Nodes) /\ cur \in Nodes /\ Linked(path)
  BY <1>1 DEF SessionInv, TypeOK, Driving, OnItsWay
<1>3. {205, 206, 211} \subseteq Handlers  BY DEF Handlers, Nodes
<1>4. path[Min(Stops)] = 206  BY <1>1, <1>3
<1>5. \/ Min(Stops) = 1
      \/ Min(Stops) = 2 /\ path[1] \in 1..7 /\ path[2] \in LinkedTo(path[1])
  BY <1>1, <1>2, StopsSoon
<1>6. Min(Stops) = 1
  <2> SUFFICES ASSUME path[1] \in 1..7, 206 \in LinkedTo(path[1]) PROVE FALSE  BY <1>4, <1>5
  <2>1. path[1] \in Nodes /\ path[1] \notin {205, 211}  BY DEF Nodes
  <2> QED  BY <2>1, Link
<1>7. cur \in {205, 211}
  <2>1. path[1] = 206  BY <1>4, <1>6
  <2>2. path[1] \in LinkedTo(cur)  BY <1>1, <1>2, <2>1 DEF Driving, OnItsWay
  <2> QED  BY <1>2, <2>1, <2>2, Link
<1> QED  BY <1>1, <1>7 DEF ReadyInv, Ready

LEMMA HandlersReady ==
    ASSUME SessionInv, Plain, ReadyInv, HandlerStep, ~AbortedHandler
    PROVE  ReadyInv'
<1>1. handler # 0 /\ ~aborting /\ handler' = 0 /\ ~aborting'
  BY HandlersWork DEF Works, life
<1>2. cur = handler /\ outdated \in BOOLEAN  BY <1>1, SessionIs
<1> SUFFICES ASSUME cur' \in {205, 211} PROVE ~outdated'
  BY <1>1 DEF ReadyInv, Ready
<1>3. handler \in {205, 211}
  <2>1. cur' \in {cur, 112, 2, 107} \cup Checkpoints  BY HandlersLand DEF Landed
  <2>2. cur' \notin Checkpoints  BY DEF Checkpoints
  <2> QED  BY <1>2, <2>1, <2>2
<1>4. CASE handler = 205
  <2>1. ConfigureVMAPI
    BY <1>4 DEF HandlerStep, Runs, EmptyHandler, UpdateSession, CreateVM, ConfigNetwork, DownloadMedia, ConfigureVM,
         ConfigureVMBoot, ConfigureVMScratch, StartVM, PauseVM, ResumeVM, SaveVMState, PoweroffVM, DiscardVMState,
         CheckVMAPI, ReleaseVMScratch, ReleaseVMBoot, ReleaseVMAPI, DestroyVM, Handler, Control, Release
  <2>2. \A b, parts, cost : ErrorOccured(b, parts, cost) => cur' \in {112, 2}  BY EndLands
  <2>3. outdated' = FALSE  BY <2>1, <2>2 DEF ConfigureVMAPI
  <2> QED  BY <2>3
<1>5. CASE handler = 211
  <2>1. CheckVMAPI
    BY <1>5 DEF HandlerStep, Runs, EmptyHandler, UpdateSession, CreateVM, ConfigNetwork, DownloadMedia, ConfigureVM,
         ConfigureVMBoot, ConfigureVMScratch, StartVM, PauseVM, ResumeVM, SaveVMState, PoweroffVM, DiscardVMState,
         ConfigureVMAPI, ReleaseVMScratch, ReleaseVMBoot, ReleaseVMAPI, DestroyVM, Handler, Control, Release
  <2>2. ~FSMSkew(107)  BY DEF FSMSkew
  <2> QED  BY <2>1, <2>2 DEF CheckVMAPI
<1> QED  BY <1>3, <1>4, <1>5

LEMMA StartReady ==
    ASSUME SessionInv, Plain, "lateData" \notin Quirks, ReadyInv, Start
    PROVE  ReadyInv'
<1>1. 7 \in Checkpoints /\ Request(7)  BY DEF Checkpoints, Start
<1>2. ~aborting /\ handler' = handler /\ cur' = cur /\ aborting' = aborting  BY <1>1, RequestDrives
<1>3. CASE UNCHANGED outdated  BY <1>2, <1>3 DEF ReadyInv, Ready
<1>4. CASE ~Starting
  <2> SUFFICES ASSUME handler = 0, cur \in {205, 211} PROVE FALSE
    BY <1>2, <1>4 DEF ReadyInv, Ready, Starting
  <2>1. cur \in Nodes /\ path \in Seq(Nodes) /\ Driving  BY <1>2 DEF SessionInv, TypeOK
  <2>2. path # <<>>  BY <2>1 DEF Driving, AtRest
  <2>3. path[1] \in LinkedTo(cur)  BY <2>1, <2>2 DEF Driving, OnItsWay
  <2>4. path[1] = 206  BY <2>1, <2>3, Link
  <2> QED  BY <1>4, <2>1, <2>2, <2>4 DEF Starting
<1> QED  BY <1>3, <1>4 DEF Start

LEMMA StepReady ==
    ASSUME SessionInv, Plain, "lateData" \notin Quirks, ReadyInv, [Next]_vars
    PROVE  ReadyInv'
<1>1. CASE Continue  BY <1>1, ContinueReady
<1>2. CASE HandlerStep
  <2>1. CASE AbortedHandler  BY <2>1 DEF AbortedHandler, life, ReadyInv
  <2>2. CASE ~AbortedHandler  BY <1>2, <2>2, HandlersReady
  <2> QED  BY <2>1, <2>2
<1>3. CASE Open
  <2>1. opens = 0  BY <1>3 DEF Open, Plain
  <2>2. cur = 1 /\ handler = 0  BY <2>1 DEF SessionInv, Basics
  <2>3. cur' = cur /\ handler' = handler  BY <1>3 DEF Open, FSMGoto
  <2> QED  BY <2>2, <2>3 DEF ReadyInv, Ready
<1>4. CASE Close \/ Stop \/ Hibernate \/ Pause \/ Resume
  <2>1. PICK n \in Checkpoints : Request(n) /\ outdated' = outdated
    BY <1>4, CheckpointIs DEF Close, Stop, Hibernate, Pause, Resume
  <2>2. UNCHANGED <<cur, handler, aborting>>  BY <2>1, RequestDrives
  <2> QED  BY <2>1, <2>2 DEF ReadyInv, Ready
<1>5. CASE Start  BY <1>5, StartReady
<1>6. CASE Update
  <2>1. handler' = 0 /\ cur' \in Checkpoints  BY <1>6, UpdateKeeps
  <2> QED  BY <2>1 DEF ReadyInv, Ready, Checkpoints
<1>7. CASE Abort  BY <1>7 DEF Abort, ReadyInv
<1>8. CASE ThreadStops \/ ExternalChange \/ TimePasses \/ CacheExpires \/ UNCHANGED vars
  <2>1. UNCHANGED <<cur, outdated, aborting>> /\ (handler' = handler \/ aborting)
    BY <1>8 DEF ThreadStops, ExternalChange, TimePasses, CacheExpires, vars, engine, life
  <2> QED  BY <2>1 DEF ReadyInv, Ready
<1> QED  BY <1>1, <1>2, <1>3, <1>4, <1>5, <1>6, <1>7, <1>8 DEF Next, ClientCall

\* StartVM resumes a saved machine only with the user data that it was given: each way to it leads
\* through CheckVMAPI, which discards the state when the data are others.
THEOREM ResumedWithItsData ==
    ASSUME Plain, "lateData" \notin Quirks
    PROVE  Spec => ResumesItsData
<1>1. Init => ReadyInv  BY DEF Init, ReadyInv, Ready
<1>2. SessionInv /\ ReadyInv /\ [Next]_vars => ReadyInv'  BY StepReady
<1>3. ASSUME SessionInv, ReadyInv, [Next]_vars
      PROVE  [box.state = "saved" /\ box'.state = "running" /\ handler = 206 => ~outdated]_vars
  <2> SUFFICES ASSUME Next, box.state = "saved", box'.state = "running", handler = 206, aborting PROVE FALSE
    BY <1>3 DEF ReadyInv, Ready
  <2>2. box' # box  OBVIOUS
  <2>3. ExternalChange
    BY <2>2 DEF Next, ClientCall, Continue, HandlerStep, Runs, EmptyHandler, UpdateSession, CreateVM, ConfigNetwork,
         DownloadMedia, ConfigureVM, ConfigureVMBoot, ConfigureVMScratch, ConfigureVMAPI, StartVM, PauseVM, ResumeVM,
         SaveVMState, PoweroffVM, DiscardVMState, CheckVMAPI, ReleaseVMScratch, ReleaseVMBoot, ReleaseVMAPI,
         DestroyVM, Handler, Control, Release, AbortedHandler, Open, Close, Stop, Hibernate, Pause, Resume, Start,
         Request, Update, Abort, ThreadStops, TimePasses, CacheExpires
  <2>4. box \in Machines  BY <1>3, SessionIs
  <2>5. box' = [box EXCEPT !.state = "poweroff"]
    BY <2>3 DEF ExternalChange, Changes
  <2>6. "poweroff" \in States  BY StatesAre
  <2>7. box'.state = "poweroff"  BY <2>4, <2>5, <2>6, OtherState
  <2> QED  BY <2>7
<1> QED  BY <1>1, <1>2, <1>3, AlwaysDriving, PTL DEF Spec, ResumesItsData

(***************************************************************************)
(* The user's work.                                                        *)
(***************************************************************************)
\* A machine that is gone has no parts, and the scratch disk needs a controller.
Whole(b) ==
    /\ b \in Machines
    /\ "scratch" \in b.parts => "controllers" \in b.parts
    /\ b.state = "none" => b.parts = {}

\* A path leads through ReleaseVMScratch only where the machine is to be destroyed.
Spares == /\ target \in Checkpoints \cup {1, 101}
          /\ \A i \in 1..Len(path) : path[i] = 105 => target = 3

WorkInv == /\ Whole(box) /\ Spares /\ cache = {}
           /\ cur \in Nodes /\ path \in Seq(Nodes)

LEMMA SparingRoute ==
    ASSUME NEW a \in Nodes, NEW b \in Checkpoints \cup {1, 101}, Route(a, b) # <<>>,
           NEW i \in 1..Len(Route(a, b)), i > 1, Route(a, b)[i] = 105
    PROVE  b = 3
<1> DEFINE r == Route(a, b)
           n == Len(r)
<1>0. b \in Nodes /\ b \notin {104, 105, 207, 208}  BY DEF Checkpoints, Nodes
<1>1. /\ r \in Seq(Nodes) /\ n > 1 /\ r[1] = a /\ r[n] = b
      /\ \A k \in 1..(n - 1) : r[k + 1] \in LinkedTo(r[k])
      /\ \A k, l \in DOMAIN r : r[k] = r[l] => k = l
  BY <1>0, RouteAssumption DEF IsRoute
<1>2. i \in 1..n /\ i > 1 /\ r[i] = 105  OBVIOUS
<1> HIDE DEF r
<1>3. n \in Nat /\ i \in Nat /\ DOMAIN r = 1..n /\ \A k \in 1..n : r[k] \in Nodes  BY <1>1, <1>2
<1> HIDE DEF n
<1>4. r[i - 1] = 4
  <2>1. i - 1 \in 1..(n - 1) /\ (i - 1) + 1 = i /\ i - 1 \in 1..n  BY <1>2, <1>3
  <2>2. r[i] \in LinkedTo(r[i - 1])  BY <1>1, <2>1
  <2> QED  BY <1>2, <1>3, <2>1, <2>2, Link
<1>5. ASSUME NEW k \in 1..n, r[k] # b PROVE k + 1 \in 1..n /\ r[k + 1] \in LinkedTo(r[k])
  <2>1. k # n  BY <1>1, <1>5
  <2>2. k \in 1..(n - 1) /\ k + 1 \in 1..n  BY <1>3, <2>1
  <2> QED  BY <1>1, <2>2
<1>6. i + 1 \in 1..n /\ r[i + 1] = 207  BY <1>0, <1>2, <1>5, StepsLinkTo, HandlersLinkTo
<1>7. i + 2 \in 1..n /\ r[i + 2] = 208
  <2>1. (i + 1) + 1 \in 1..n /\ r[(i + 1) + 1] \in LinkedTo(207)  BY <1>0, <1>5, <1>6
  <2>2. (i + 1) + 1 = i + 2  BY <1>3
  <2> QED  BY <2>1, <2>2, StepsLinkTo
<1>8. i + 3 \in 1..n /\ r[i + 3] = 3
  <2>1. (i + 2) + 1 \in 1..n /\ r[(i + 2) + 1] \in LinkedTo(208)  BY <1>0, <1>5, <1>7
  <2>2. (i + 2) + 1 = i + 3  BY <1>3
  <2> QED  BY <2>1, <2>2, StepsLinkTo
<1> SUFFICES ASSUME b # 3 PROVE FALSE  OBVIOUS
<1>9. i + 4 \in 1..n /\ r[i + 4] = 104
  <2>1. (i + 3) + 1 \in 1..n /\ r[(i + 3) + 1] \in LinkedTo(3)  BY <1>5, <1>8
  <2>2. (i + 3) + 1 = i + 4  BY <1>3
  <2> QED  BY <2>1, <2>2, StatesLinkTo
<1>10. i + 5 \in 1..n /\ r[i + 5] = 4
  <2>1. (i + 4) + 1 \in 1..n /\ r[(i + 4) + 1] \in LinkedTo(104)  BY <1>0, <1>5, <1>9
  <2>2. (i + 4) + 1 = i + 5  BY <1>3
  <2> QED  BY <2>1, <2>2, HandlersLinkTo
<1>11. i - 1 \in 1..n /\ i - 1 # i + 5  BY <1>2, <1>3
<1>12. \A k, l \in 1..n : r[k] = r[l] => k = l
  <2> SUFFICES ASSUME NEW k \in 1..n, NEW l \in 1..n, r[k] = r[l] PROVE k = l  OBVIOUS
  <2>1. k \in DOMAIN r /\ l \in DOMAIN r  BY <1>3
  <2> QED  BY <1>1, <2>1
<1> QED  BY <1>4, <1>10, <1>11, <1>12

LEMMA GotoSpares ==
    ASSUME WorkInv, NEW n \in Checkpoints \cup {101}, FSMGoto(n)
    PROVE  Spares' /\ cur' \in Nodes /\ path' \in Seq(Nodes)
<1>0. n \in Nodes /\ cur \in Nodes  BY DEF WorkInv, Checkpoints, Nodes
<1>1. /\ path' = (IF Route(cur, n) = <<>> THEN <<>> ELSE Tail(Route(cur, n)))
      /\ target' = (IF Route(cur, n) = <<>> THEN target ELSE n)
      /\ cur' = cur
  BY DEF FSMGoto
<1>2. CASE Route(cur, n) = <<>>
  <2>1. path' = <<>> /\ target' = target  BY <1>1, <1>2
  <2>2. path' \in Seq(Nodes) /\ Len(path') = 0  BY <2>1, EmptySeq
  <2> QED  BY <1>0, <1>1, <2>1, <2>2 DEF WorkInv, Spares
<1>3. CASE Route(cur, n) # <<>>
  <2> DEFINE r == Route(cur, n)
             p == Tail(r)
  <2>1. r \in Seq(Nodes) /\ Len(r) > 1  BY <1>0, <1>3, RouteAssumption DEF IsRoute
  <2>2. \A i \in 1..Len(r) : i > 1 /\ r[i] = 105 => n = 3  BY <1>0, <1>3, SparingRoute
  <2> HIDE DEF r
  <2>3. p \in Seq(Nodes) /\ Len(p) = Len(r) - 1 /\ \A i \in 1..Len(p) : p[i] = r[i + 1]  BY <2>1
  <2> HIDE DEF p
  <2>4. ASSUME NEW i \in 1..Len(p), p[i] = 105 PROVE n = 3
    <3>1. i + 1 \in 1..Len(r) /\ i + 1 > 1 /\ r[i + 1] = 105  BY <2>1, <2>3, <2>4
    <3> QED  BY <2>2, <3>1
  <2>5. path' = p /\ target' = n  BY <1>1, <1>3 DEF p, r
  <2>6. \A i \in 1..Len(path') : path'[i] = 105 => target' = 3  BY <2>4, <2>5, Zenon
  <2>7. target' \in Checkpoints \cup {1, 101}  BY <2>5
  <2>8. Spares'  BY <2>6, <2>7 DEF Spares
  <2> QED  BY <1>0, <1>1, <2>3, <2>5, <2>8
<1> QED  BY <1>2, <1>3

LEMMA SkewSpares ==
    ASSUME WorkInv, NEW n \in Checkpoints \cup {2, 107}, FSMSkew(n)
    PROVE  Spares' /\ cur' \in Nodes /\ path' \in Seq(Nodes)
<1>0. n \in Nodes /\ n # 105 /\ target \in Checkpoints \cup {1, 101} /\ target \in Nodes
  BY DEF WorkInv, Spares, Checkpoints, Nodes
<1>1. cur' = n /\ path' = (IF path = <<>> THEN <<>> ELSE Route(n, target)) /\ target' = target
  BY DEF FSMSkew
<1>2. CASE path' = <<>>
  <2>1. path' \in Seq(Nodes) /\ Len(path') = 0  BY <1>2, EmptySeq
  <2> QED  BY <1>0, <1>1, <2>1 DEF Spares
<1>3. CASE path' # <<>>
  <2> DEFINE r == Route(n, target)
  <2>1. path' = r /\ r # <<>>  BY <1>1, <1>3
  <2>2. r \in Seq(Nodes) /\ Len(r) > 1 /\ r[1] = n  BY <1>0, <2>1, RouteAssumption DEF IsRoute
  <2>3. \A i \in 1..Len(r) : i > 1 /\ r[i] = 105 => target = 3  BY <1>0, <2>1, SparingRoute
  <2> HIDE DEF r
  <2>4. ASSUME NEW i \in 1..Len(r), r[i] = 105 PROVE target = 3
    <3>1. i # 1  BY <1>0, <2>2, <2>4
    <3>2. i > 1  BY <3>1, <2>2
    <3> QED  BY <2>3, <2>4, <3>2
  <2> QED  BY <1>0, <1>1, <2>1, <2>2, <2>4 DEF Spares
<1> QED  BY <1>2, <1>3

LEMMA ContinueSpares ==
    ASSUME WorkInv, Continue
    PROVE  /\ Spares' /\ cur' \in Nodes /\ path' \in Seq(Nodes) /\ handler = 0
           /\ handler' = 105 => target = 3
           /\ UNCHANGED <<box, cache>>
<1>1. /\ handler = 0 /\ path # <<>> /\ cur' = path[Min(Stops)] /\ target' = target
      /\ path' = SubSeq(path, Min(Stops) + 1, Len(path))
      /\ handler' = (IF path[Min(Stops)] \in Handlers THEN path[Min(Stops)] ELSE 0)
      /\ UNCHANGED <<box, cache>>
  BY ContinueIs
<1>2. path \in Seq(Nodes) /\ Spares  BY DEF WorkInv
<1> DEFINE k == Min(Stops)
           p == SubSeq(path, k + 1, Len(path))
<1>3. k \in 1..Len(path)  BY <1>1, <1>2, StopIs
<1> HIDE DEF k
<1>4. Len(path) \in Nat /\ k \in Nat /\ k <= Len(path) /\ k >= 1 /\ path[k] \in Nodes
  BY <1>2, <1>3
<1>5. p \in Seq(Nodes) /\ Len(p) = Len(path) - k /\ \A i \in 1..Len(p) : p[i] = path[k + i]
  <2>1. \A i \in (k + 1)..Len(path) : path[i] \in Nodes  BY <1>2, <1>4
  <2>2. p = [i \in 1..(Len(path) - k) |-> path[k + i]]  BY <1>4
  <2> QED  BY <1>4, <2>1, <2>2
<1> HIDE DEF p
<1>6. ASSUME NEW i \in 1..Len(p), p[i] = 105 PROVE target = 3
  <2>1. k + i \in 1..Len(path) /\ path[k + i] = 105  BY <1>4, <1>5, <1>6
  <2> QED  BY <1>2, <2>1 DEF Spares
<1>7. path' = p /\ cur' = path[k]  BY <1>1 DEF p, k
<1>8. Spares'
  <2>1. \A i \in 1..Len(path') : path'[i] = 105 => target' = 3  BY <1>1, <1>6, <1>7, Zenon
  <2> QED  BY <1>1, <1>2, <2>1 DEF Spares
<1>9. handler' = 105 => path[k] = 105  BY <1>1 DEF k
<1>10. path[k] = 105 => target = 3  BY <1>2, <1>3 DEF Spares
<1> QED  BY <1>1, <1>4, <1>5, <1>7, <1>8, <1>9, <1>10

\* What the machine may be after a handler: with its scratch disk, or released or destroyed.
Spared(b) ==
    /\ Whole(b)
    /\ "scratch" \in box.parts => "scratch" \in b.parts \/ handler \in {105, 208}

LEMMA WholeNone == Whole(NoMachine) /\ Whole(NewMachine)
  BY NoMachineIs DEF Whole, NoMachine, NewMachine

LEMMA WholeState ==
    ASSUME NEW b \in Machines, Whole(b), NEW s \in States \ {"none"}
    PROVE  /\ Whole(Becomes(b, s)) /\ Becomes(b, s).parts = b.parts
           /\ Whole([b EXCEPT !.state = s]) /\ [b EXCEPT !.state = s].parts = b.parts
           /\ Whole([b EXCEPT !.state = "stuck"])
<1> DEFINE on == Becomes(b, s)
           off == [b EXCEPT !.state = s]
           odd == [b EXCEPT !.state = "stuck"]
<1>1. on \in Machines /\ on.state = s /\ off \in Machines /\ off.state = s /\ odd \in Machines
  BY OtherState
<1>2. DOMAIN b = {"state", "parts", "log"}  BY MachineIs
<1>3. on.parts = b.parts /\ off.parts = b.parts /\ odd.parts = b.parts /\ odd.state = "stuck"
  BY <1>2 DEF Becomes
<1> HIDE DEF on, off, odd
<1>4. Whole(on) /\ Whole(off) /\ Whole(odd)  BY <1>1, <1>3 DEF Whole
<1> QED  BY <1>3, <1>4 DEF on, off, odd

LEMMA WholeParts ==
    ASSUME NEW b \in Machines, b.state # "none", NEW p \in SUBSET Parts, "scratch" \in p => "controllers" \in p
    PROVE  Whole([b EXCEPT !.parts = p]) /\ [b EXCEPT !.parts = p].parts = p
<1> DEFINE c == [b EXCEPT !.parts = p]
<1>1. c \in Machines /\ c.state = b.state  BY OtherParts
<1>2. c.parts = p  BY MachineIs
<1> HIDE DEF c
<1>3. Whole(c)  BY <1>1, <1>2 DEF Whole
<1> QED  BY <1>2, <1>3 DEF c

LEMMA CommandSpares ==
    ASSUME NEW b, NEW fits \in BOOLEAN, NEW after, NEW r \in Command(b, fits, after),
           Spared(b), fits => Spared(after)
    PROVE  Spared(r.box)
  BY CommandIs

LEMMA AttachSpares ==
    ASSUME NEW b, Spared(b), NEW medium \in Media, NEW r \in Attach(b, medium)
    PROVE  Spared(r.box)
<1>0. b \in Machines /\ b.parts \in SUBSET Parts  BY MachineIs DEF Spared, Whole
<1> DEFINE fits == b.state = "poweroff" /\ "controllers" \in b.parts
           p == b.parts \cup {medium}
           after == [b EXCEPT !.parts = p]
<1>1. r \in Command(b, fits, after) /\ fits \in BOOLEAN  BY Zenon DEF Attach
<1>2. p \in SUBSET Parts  BY <1>0 DEF Parts
<1>3. ASSUME fits PROVE Spared(after)
  <2>1. b.state # "none" /\ "controllers" \in p  BY <1>3
  <2>2. Whole(after) /\ after.parts = p  BY <1>0, <1>2, <2>1, WholeParts
  <2> HIDE DEF after
  <2> QED  BY <2>2 DEF Spared
<1> HIDE DEF fits, after
<1> QED  BY <1>1, <1>3, CommandSpares

LEMMA DetachSpares ==
    ASSUME NEW b, Spared(b), NEW medium \in Media, medium # "scratch" \/ handler = 105, NEW r \in Detach(b, medium)
    PROVE  Spared(r.box)
<1>0. b \in Machines /\ b.parts \in SUBSET Parts  BY MachineIs DEF Spared, Whole
<1> DEFINE fits == b.state = "poweroff" /\ "controllers" \in b.parts
           p == b.parts \ {medium}
           after == [b EXCEPT !.parts = p]
<1>1. r \in Command(b, fits, after) /\ fits \in BOOLEAN  BY Zenon DEF Detach
<1>2. p \in SUBSET Parts  BY <1>0
<1>3. ASSUME fits PROVE Spared(after)
  <2>1. b.state # "none" /\ "controllers" \in p  BY <1>3 DEF Media
  <2>2. Whole(after) /\ after.parts = p  BY <1>0, <1>2, <2>1, WholeParts
  <2> HIDE DEF after
  <2> QED  BY <2>2 DEF Spared
<1> HIDE DEF fits, after
<1> QED  BY <1>1, <1>3, CommandSpares

\* How a handler ends that started with the machine as it is.
SparedEnd ==
    /\ Whole(box')
    /\ "scratch" \in box.parts \ box'.parts => handler \in {105, 208} \/ cur' = 112
    /\ Spares' /\ cur' \in Nodes /\ path' \in Seq(Nodes)

LEMMA EngineSpares ==
    ASSUME WorkInv, UNCHANGED engine
    PROVE  Spares' /\ cur' \in Nodes /\ path' \in Seq(Nodes)
  BY DEF WorkInv, Spares, engine

LEMMA EndSpares ==
    ASSUME WorkInv, NEW b, Spared(b), NEW parts, NEW cost, Completes(b, parts, cost) \/ Created(b, parts, cost)
    PROVE  SparedEnd
<1>1. box' = b /\ UNCHANGED engine  BY DEF Completes, Created
<1> QED  BY <1>1, EngineSpares DEF Spared, SparedEnd

LEMMA ErrorSpares ==
    ASSUME WorkInv, NEW b, Spared(b), NEW n, NEW parts, NEW cost, ErrorsOccured(n, b, parts, cost)
    PROVE  SparedEnd
<1>1. CASE cur' = 112 /\ path' = <<>> /\ FatalErrorSink(b, parts, cost) /\ UNCHANGED <<target, recorded>>
  <2>1. PICK r \in Unregister(b) : box' = r.box  BY <1>1 DEF FatalErrorSink
  <2>2. r.box \in {b, NoMachine}  BY <2>1, UnregisterIs DEF Spared, Whole
  <2>3. Whole(box')  BY <2>1, <2>2, WholeNone DEF Spared
  <2>4. path' \in Seq(Nodes) /\ Len(path') = 0 /\ cur' \in Nodes  BY <1>1, EmptySeq DEF Nodes
  <2> QED  BY <1>1, <2>3, <2>4 DEF SparedEnd, WorkInv, Spares
<1>2. CASE FSMSkew(2) /\ box' = b
  BY <1>2, SkewSpares DEF Spared, SparedEnd
<1> QED  BY <1>1, <1>2 DEF ErrorsOccured

LEMMA ErrorSpares1 ==
    ASSUME WorkInv, NEW b, Spared(b), NEW parts, NEW cost, ErrorOccured(b, parts, cost)
    PROVE  SparedEnd
<1>1. ErrorsOccured(1, b, parts, cost)  BY Zenon DEF ErrorOccured
<1> QED  BY <1>1, ErrorSpares

LEMMA HandlerSpares ==
    ASSUME WorkInv, NEW n, NEW fits \in BOOLEAN, NEW after, fits => Spared(after),
           Handler(n, Command(box, fits, after))
    PROVE  SparedEnd
<1>1. PICK r \in Command(box, fits, after) : \/ r.ok /\ Completes(r.box, known, r.fault)
                                             \/ ~r.ok /\ ErrorOccured(r.box, known, r.fault)
  BY DEF Handler
<1>2. Spared(box)  BY DEF WorkInv, Spared
<1>3. Spared(r.box)  BY <1>1, <1>2, CommandSpares
<1> QED  BY <1>1, <1>3, EndSpares, ErrorSpares1

LEMMA ControlSpares ==
    ASSUME WorkInv, NEW n, NEW from, NEW to \in States \ {"none"}, Control(n, from, to)
    PROVE  SparedEnd
<1> DEFINE fits == box.state \in from
           after == Becomes(box, to)
<1>0. fits \in BOOLEAN  OBVIOUS
<1>1. Handler(n, Command(box, fits, after))  BY Zenon DEF Control
<1>2. Spared(after)
  <2>1. Whole(box) /\ box \in Machines  BY DEF WorkInv, Whole
  <2>2. Whole(after) /\ after.parts = box.parts  BY <2>1, WholeState
  <2> HIDE DEF after
  <2> QED  BY <2>2 DEF Spared
<1> HIDE DEF fits, after
<1> QED  BY <1>0, <1>1, <1>2, HandlerSpares

LEMMA SimpleSpares ==
    ASSUME WorkInv,
           \/ ConfigNetwork \/ DownloadMedia \/ ConfigureVM \/ PauseVM \/ ResumeVM \/ SaveVMState
           \/ PoweroffVM \/ DiscardVMState
    PROVE  SparedEnd
<1>0. Spared(box) /\ box \in Machines /\ Whole(box)  BY DEF WorkInv, Spared, Whole
<1>1. {"paused", "running", "saved", "poweroff"} \subseteq States \ {"none"}  BY StatesAre
<1>2. CASE ConfigNetwork \/ DownloadMedia \/ ConfigureVM
  <2>1. PICK n \in {210, 202, 201}, fits \in BOOLEAN : Handler(n, Command(box, fits, box))
    <3>1. CASE ConfigNetwork \/ DownloadMedia
      BY <3>1, Zenon DEF ConfigNetwork, DownloadMedia, Work
    <3>2. CASE ConfigureVM
      <4> DEFINE fits == box.state = "poweroff"
      <4>1. fits \in BOOLEAN /\ Handler(201, Command(box, fits, box))  BY <3>2, Zenon DEF ConfigureVM
      <4> HIDE DEF fits
      <4> QED  BY <4>1
    <3> QED  BY <1>2, <3>1, <3>2
  <2> QED  BY <1>0, <2>1, HandlerSpares
<1>3. CASE PauseVM  BY <1>1, <1>3, ControlSpares DEF PauseVM
<1>4. CASE ResumeVM  BY <1>1, <1>4, ControlSpares DEF ResumeVM
<1>5. CASE SaveVMState  BY <1>1, <1>5, ControlSpares DEF SaveVMState
<1>6. CASE PoweroffVM  BY <1>1, <1>6, ControlSpares DEF PoweroffVM
<1>7. CASE DiscardVMState
  <2> DEFINE fits == box.state = "saved"
             off == [box EXCEPT !.state = "poweroff"]
  <2>1. fits \in BOOLEAN /\ Handler(107, Command(box, fits, off))  BY <1>7, Zenon DEF DiscardVMState
  <2>2. Whole(off) /\ off.parts = box.parts  BY <1>0, <1>1, WholeState
  <2> HIDE DEF fits, off
  <2>3. Spared(off)  BY <2>2 DEF Spared
  <2> QED  BY <2>1, <2>3, HandlerSpares
<1> QED  BY <1>2, <1>3, <1>4, <1>5, <1>6, <1>7

LEMMA MediaSpares ==
    ASSUME WorkInv, ConfigureVMBoot \/ ConfigureVMScratch \/ ConfigureVMAPI
    PROVE  SparedEnd
<1>0. Spared(box)  BY DEF WorkInv, Spared
<1>1. {"boot", "scratch", "context"} \subseteq Media  BY DEF Media
<1>2. ASSUME NEW b, Spared(b), NEW medium \in Media, NEW a \in Attach(b, medium), NEW more, NEW less,
             \/ a.ok /\ Completes(a.box, more, a.fault)
             \/ ~a.ok /\ ErrorOccured(a.box, less, a.fault)
      PROVE  SparedEnd
  <2>1. Spared(a.box)  BY <1>2, AttachSpares
  <2> QED  BY <1>2, <2>1, EndSpares, ErrorSpares1
<1>3. ASSUME NEW medium \in Media, Mounts(medium) PROVE SparedEnd
  BY <1>0, <1>2, <1>3 DEF Mounts
<1>4. ASSUME NEW parts, NEW cost, Completes(box, parts, cost) \/ ErrorOccured(box, parts, cost)
      PROVE  SparedEnd
  BY <1>0, <1>4, EndSpares, ErrorSpares1
<1>5. CASE ConfigureVMBoot
  <2>1. ASSUME NEW r \in Detach(box, "boot"),
               \/ ~r.ok /\ ErrorOccured(r.box, known, r.fault)
               \/ /\ r.ok
                  /\ \E a \in Attach(r.box, "boot") :
                        \/ a.ok /\ Completes(a.box, known, a.fault)
                        \/ ~a.ok /\ ErrorOccured(a.box, known \ {"boot"}, a.fault)
        PROVE  SparedEnd
    <3>1. Spared(r.box)  BY <1>0, <1>1, <2>1, DetachSpares
    <3> QED  BY <1>1, <1>2, <2>1, <3>1, ErrorSpares1
  <2> QED  BY <1>1, <1>3, <1>4, <1>5, <2>1 DEF ConfigureVMBoot
<1>6. CASE ConfigureVMScratch
  BY <1>1, <1>3, <1>4, <1>6 DEF ConfigureVMScratch
<1>7. CASE ConfigureVMAPI
  <2>1. PICK r \in IF "context" \in known THEN Detach(box, "context") ELSE Nothing(box) :
            \/ ~r.ok /\ ErrorOccured(r.box, known, r.fault)
            \/ r.ok /\ ErrorOccured(r.box, known \ {"context"}, 1)
            \/ /\ r.ok
               /\ \E a \in Attach(r.box, "context") :
                     \/ a.ok /\ Completes(a.box, known \cup {"context"}, a.fault)
                     \/ ~a.ok /\ ErrorOccured(a.box, known \ {"context"}, a.fault)
    BY <1>7 DEF ConfigureVMAPI
  <2>2. Spared(r.box)
    <3>1. CASE "context" \in known  BY <1>0, <1>1, <2>1, <3>1, DetachSpares
    <3>2. CASE "context" \notin known
      <4>1. r = [box |-> box, ok |-> TRUE, fault |-> 0]  BY <2>1, <3>2 DEF Nothing
      <4> QED  BY <1>0, <4>1
    <3> QED  BY <3>1, <3>2
  <2> QED  BY <1>1, <1>2, <2>1, <2>2, ErrorSpares1
<1> QED  BY <1>5, <1>6, <1>7

LEMMA ReleaseSpares ==
    ASSUME WorkInv, ReleaseVMScratch \/ ReleaseVMBoot \/ ReleaseVMAPI
    PROVE  SparedEnd
<1>0. Spared(box)  BY DEF WorkInv, Spared
<1>1. PICK medium \in Media, n \in {105, 207, 209} : Release(n, medium) /\ (medium = "scratch" => n = 105)
  BY DEF ReleaseVMScratch, ReleaseVMBoot, ReleaseVMAPI, Media
<1>2. handler = n  BY <1>1 DEF Release, Runs
<1>3. ASSUME NEW r \in Detach(box, medium), NEW parts, Completes(r.box, parts, r.fault) PROVE SparedEnd
  <2>1. Spared(r.box)  BY <1>0, <1>1, <1>2, <1>3, DetachSpares
  <2> QED  BY <1>3, <2>1, EndSpares
<1> QED  BY <1>0, <1>1, <1>3, EndSpares DEF Release

LEMMA DestroySpares ==
    ASSUME WorkInv, DestroyVM
    PROVE  SparedEnd
<1>1. handler = 208  BY DEF DestroyVM, Runs
<1>2. PICK r \in Unregister(box) : \/ r.ok /\ Completes(r.box, {}, r.fault)
                                   \/ ~r.ok /\ ErrorsOccured(2, r.box, known, r.fault)
  BY DEF DestroyVM
<1>3. r.box \in {box, NoMachine} /\ Whole(box)  BY <1>2, UnregisterIs DEF WorkInv, Whole
<1>4. Spared(r.box)  BY <1>1, <1>3, WholeNone DEF Spared
<1> QED  BY <1>2, <1>4, EndSpares, ErrorSpares

LEMMA StartSpares ==
    ASSUME WorkInv, StartVM
    PROVE  SparedEnd
<1>0. Spared(box) /\ box \in Machines /\ Whole(box)  BY DEF WorkInv, Spared, Whole
<1> DEFINE fits == box.state \in {"poweroff", "saved"}
           on == Becomes(box, "running")
<1>1. PICK r \in Command(box, fits, on) :
          \/ ~r.ok /\ ErrorOccured(r.box, known, r.fault)
          \/ r.ok /\ \E i \in MachineInfo(r.box, hasId) :
                        Completes(r.box, IF i.ok THEN i.info.parts ELSE known, i.fault)
  BY DEF StartVM
<1>2. fits \in BOOLEAN  OBVIOUS
<1>3. Spared(on)
  <2>1. "running" \in States \ {"none"}  BY StatesAre
  <2>2. Whole(on) /\ on.parts = box.parts  BY <1>0, <2>1, WholeState
  <2> HIDE DEF on
  <2> QED  BY <2>2 DEF Spared
<1> HIDE DEF fits, on
<1>4. Spared(r.box)  BY <1>0, <1>1, <1>2, <1>3, CommandSpares
<1> QED  BY <1>1, <1>4, EndSpares, ErrorSpares1

\* A machine that is destroyed for want of its controllers has no scratch disk.
LEMMA ControllersSpare ==
    ASSUME WorkInv, NEW b, Spared(b), NEW parts, NEW cost, AddControllers(b, parts, cost),
           "controllers" \in parts \/ "scratch" \notin box.parts
    PROVE  SparedEnd
<1>0. b \in Machines /\ b.parts \in SUBSET Parts /\ Whole(b)  BY MachineIs DEF Spared, Whole
<1>1. CASE "controllers" \in parts
  <2>1. Created(b, parts, cost)  BY <1>1 DEF AddControllers
  <2> QED  BY <2>1, EndSpares
<1>2. CASE "controllers" \notin parts
  <2> DEFINE fits == b.state = "poweroff" /\ "controllers" \notin b.parts
             p == b.parts \cup {"controllers"}
             more == [b EXCEPT !.parts = p]
  <2>1. PICK r \in Command(b, fits, more) :
            \/ r.ok /\ Created(r.box, parts, cost + r.fault)
            \/ /\ ~r.ok
               /\ \E d \in Unregister(r.box) :
                     \/ d.ok /\ ErrorOccured(d.box, {}, cost + r.fault + d.fault)
                     \/ ~d.ok /\ ErrorsOccured(2, d.box, parts, cost + r.fault + d.fault)
    BY <1>2 DEF AddControllers
  <2>2. fits \in BOOLEAN  OBVIOUS
  <2>3. fits => Spared(more)
    <3> SUFFICES ASSUME fits PROVE Spared(more)  OBVIOUS
    <3>1. b.state # "none" /\ "controllers" \in p /\ p \in SUBSET Parts  BY <1>0 DEF Parts
    <3>2. Whole(more) /\ more.parts = p  BY <1>0, <3>1, WholeParts
    <3> HIDE DEF more
    <3> QED  BY <3>2 DEF Spared
  <2> HIDE DEF fits, more
  <2>4. Spared(r.box)  BY <2>1, <2>2, <2>3, CommandSpares
  <2>5. ASSUME NEW d \in Unregister(r.box) PROVE Spared(d.box)
    <3>1. d.box \in {r.box, NoMachine}  BY <2>4, UnregisterIs DEF Spared, Whole
    <3> QED  BY <1>2, <2>4, <3>1, WholeNone DEF Spared
  <2>6. CASE Created(r.box, parts, cost + r.fault)  BY <2>4, <2>6, EndSpares
  <2>7. ASSUME NEW d \in Unregister(r.box),
               \/ d.ok /\ ErrorOccured(d.box, {}, cost + r.fault + d.fault)
               \/ ~d.ok /\ ErrorsOccured(2, d.box, parts, cost + r.fault + d.fault)
        PROVE  SparedEnd
    BY <2>5, <2>7, ErrorSpares, ErrorSpares1
  <2> QED  BY <2>1, <2>6, <2>7
<1> QED  BY <1>1, <1>2

LEMMA CreateSpares ==
    ASSUME WorkInv, CreateVM
    PROVE  SparedEnd
<1>0. Spared(box) /\ box \in Machines /\ Whole(box) /\ cache = {}  BY DEF WorkInv, Spared, Whole
<1>1. CASE CreateNew
  <2>1. box.parts = {}  BY <1>0, <1>1 DEF CreateNew, Whole
  <2>2. Spared(NewMachine)  BY <2>1, WholeNone DEF Spared
  <2>3. \/ AddControllers(NewMachine, known, 0) \/ ErrorOccured(box, known, 1) \/ ErrorOccured(NewMachine, known, 1)
    BY <1>1 DEF CreateNew
  <2> QED  BY <1>0, <2>1, <2>2, <2>3, ControllersSpare, ErrorSpares1
<1>2. CASE CreateExisting
  <2>1. PICK i \in MachineInfo(box, hasId) : \/ AddControllers(box, i.info.parts, i.fault)
                                             \/ ErrorOccured(box, known, i.fault)
    BY <1>2 DEF CreateExisting
  <2>2. i.info.parts = box.parts  BY <1>0, <2>1, InfoIs
  <2>3. "controllers" \in i.info.parts \/ "scratch" \notin box.parts  BY <1>0, <2>2 DEF Whole
  <2> QED  BY <1>0, <2>1, <2>3, ControllersSpare, ErrorSpares1
<1> QED  BY <1>1, <1>2 DEF CreateVM

LEMMA OtherSpares ==
    ASSUME WorkInv, EmptyHandler \/ UpdateSession \/ CheckVMAPI
    PROVE  SparedEnd
<1>0. Spared(box) /\ box \in Machines /\ Whole(box) /\ cache = {}  BY DEF WorkInv, Spared, Whole
<1>1. CASE EmptyHandler
  BY <1>0, <1>1, EndSpares DEF EmptyHandler
<1>2. ASSUME box' = box, NEW n \in Checkpoints \cup {2, 107}, FSMSkew(n) PROVE SparedEnd
  BY <1>0, <1>2, SkewSpares DEF SparedEnd
<1>3. ASSUME box' = box, UNCHANGED engine PROVE SparedEnd
  BY <1>0, <1>3, EngineSpares DEF SparedEnd
<1>4. CASE UpdateSession
  <2>1. 3 \in Checkpoints /\ box' = box  BY <1>4 DEF Checkpoints, UpdateSession
  <2>2. ASSUME NEW s \in States, FSMSkew(NodeOf(s)) PROVE SparedEnd  BY <1>2, <2>1, <2>2, StatesAre
  <2> QED  BY <1>2, <1>3, <1>4, <2>1, <2>2 DEF UpdateSession
<1>5. CASE CheckVMAPI
  <2>1. box' = box /\ (FSMSkew(107) \/ UNCHANGED engine)  BY <1>5 DEF CheckVMAPI
  <2> QED  BY <1>2, <1>3, <2>1
<1> QED  BY <1>1, <1>4, <1>5

LEMMA HandlersSpare ==
    ASSUME WorkInv, HandlerStep
    PROVE  SparedEnd
<1>1. CASE AbortedHandler
  <2>1. box' = box /\ UNCHANGED engine  BY <1>1 DEF AbortedHandler
  <2> QED  BY <2>1, EngineSpares DEF SparedEnd, WorkInv
<1> QED
  BY <1>1, SimpleSpares, MediaSpares, ReleaseSpares, DestroySpares, StartSpares, CreateSpares, OtherSpares
  DEF HandlerStep

LEMMA HandlersCacheNothing ==
    ASSUME cache = {}, "cache" \notin Quirks, HandlerStep
    PROVE  cache' = {}
<1>1. \A i : Remember(i) => cache' = {}  BY DEF Remember
<1>2. CASE UpdateSession
  BY <1>1, <1>2 DEF UpdateSession
<1>3. CASE CreateVM
  BY <1>1, <1>3 DEF CreateVM, CreateNew, CreateExisting
<1>4. CASE StartVM
  BY <1>1, <1>4 DEF StartVM
<1>5. CASE HandlerStep /\ ~(UpdateSession \/ CreateVM \/ StartVM)
  BY <1>5 DEF HandlerStep, EmptyHandler, ConfigNetwork, DownloadMedia, ConfigureVM, ConfigureVMBoot,
       ConfigureVMScratch, ConfigureVMAPI, PauseVM, ResumeVM, SaveVMState, PoweroffVM, DiscardVMState, CheckVMAPI,
       ReleaseVMScratch, ReleaseVMBoot, ReleaseVMAPI, DestroyVM, Handler, Control, Release, AbortedHandler
<1> QED  BY <1>2, <1>3, <1>4, <1>5

\* A change behind the session's back leaves the machine whole.
LEMMA ExternalSpares ==
    ASSUME WorkInv, ExternalChange
    PROVE  Whole(box')
<1>0. box \in Machines /\ Whole(box)  BY DEF WorkInv, Whole
<1>1. PICK change \in Changes :
          box' = CASE change[2] = "none"  -> NoMachine
                   [] change[2] = "stuck" -> [box EXCEPT !.state = "stuck"]
                   [] change[1] = "saved" -> [box EXCEPT !.state = "poweroff"]
                   [] OTHER -> Becomes(box, change[2])
  BY DEF ExternalChange
<1>2. change[2] \in {"none", "stuck"} \cup {"paused", "poweroff", "saved", "running"}
  BY <1>1 DEF Changes
<1>3. {"paused", "poweroff", "saved", "running"} \subseteq States \ {"none"}  BY StatesAre
<1>4. Whole(NoMachine) /\ Whole([box EXCEPT !.state = "stuck"]) /\ Whole([box EXCEPT !.state = "poweroff"])
  BY <1>0, <1>3, WholeNone, WholeState
<1>5. \A s \in {"paused", "poweroff", "saved", "running"} : Whole(Becomes(box, s))
  BY <1>0, <1>3, WholeState
<1> QED  BY <1>1, <1>2, <1>4, <1>5

SparesWork ==
    /\ handler # 0 /\ handler' = 0 /\ "scratch" \in box.parts \ box'.parts =>
           handler \in {105, 208} \/ cur' = 112
    /\ handler' = 105 /\ handler # 105 => target = 3

LEMMA StepSpares ==
    ASSUME WorkInv, "cache" \notin Quirks, [Next]_vars
    PROVE  WorkInv' /\ SparesWork
<1>0. WorkInv /\ Whole(box) /\ cache = {}  BY DEF WorkInv
<1>1. CASE Continue
  <2>1. /\ Spares' /\ cur' \in Nodes /\ path' \in Seq(Nodes) /\ handler = 0
        /\ handler' = 105 => target = 3
        /\ UNCHANGED <<box, cache>>
    BY <1>0, <1>1, ContinueSpares
  <2> QED  BY <1>0, <2>1 DEF WorkInv, SparesWork
<1>2. CASE HandlerStep
  <2>1. SparedEnd /\ cache' = {}  BY <1>0, <1>2, HandlersSpare, HandlersCacheNothing
  <2>2. handler' = 0
    BY <1>2 DEF HandlerStep, EmptyHandler, UpdateSession, CreateVM, ConfigNetwork, DownloadMedia, ConfigureVM,
         ConfigureVMBoot, ConfigureVMScratch, ConfigureVMAPI, StartVM, PauseVM, ResumeVM, SaveVMState, PoweroffVM,
         DiscardVMState, CheckVMAPI, ReleaseVMScratch, ReleaseVMBoot, ReleaseVMAPI, DestroyVM, Handler, Control,
         Release, AbortedHandler
  <2> QED  BY <2>1, <2>2 DEF SparedEnd, WorkInv, SparesWork
<1>3. ASSUME NEW n \in Checkpoints \cup {101}, FSMGoto(n), UNCHANGED <<box, cache, handler>>
      PROVE  WorkInv' /\ SparesWork
  <2>1. Spares' /\ cur' \in Nodes /\ path' \in Seq(Nodes)  BY <1>0, <1>3, GotoSpares
  <2> QED  BY <1>0, <1>3, <2>1 DEF WorkInv, SparesWork
<1>4. CASE Open  BY <1>3, <1>4 DEF Open
<1>5. CASE Close \/ Stop \/ Hibernate \/ Pause \/ Resume \/ Start
  <2>1. PICK n \in Checkpoints : Request(n)
    BY <1>5, CheckpointIs DEF Close, Stop, Hibernate, Pause, Resume, Start
  <2> QED  BY <1>3, <2>1 DEF Request
<1>6. CASE Update
  <2>1. FSMSkew(NodeOf(LogState)) /\ UNCHANGED <<box, cache, handler>>  BY <1>6 DEF Update
  <2>2. LogState \in States  BY <1>0, StatesAre, MachineIs DEF LogState, Whole
  <2>3. NodeOf(LogState) \in Checkpoints  BY <2>2, StatesAre
  <2>4. Spares' /\ cur' \in Nodes /\ path' \in Seq(Nodes)  BY <1>0, <2>1, <2>3, SkewSpares
  <2> QED  BY <1>0, <2>1, <2>4 DEF WorkInv, SparesWork
<1>7. ASSUME UNCHANGED engine, Whole(box'), cache' = {}, handler' \in {handler, 0},
             handler' = handler \/ box' = box
      PROVE  WorkInv' /\ SparesWork
  <2>1. Spares' /\ cur' \in Nodes /\ path' \in Seq(Nodes)  BY <1>0, <1>7, EngineSpares
  <2> QED  BY <1>7, <2>1 DEF WorkInv, SparesWork
<1>8. CASE Abort \/ ThreadStops \/ TimePasses \/ CacheExpires \/ UNCHANGED vars
  <2>1. UNCHANGED <<engine, box>> /\ cache' = {} /\ handler' \in {handler, 0}
    BY <1>0, <1>8 DEF Abort, ThreadStops, TimePasses, CacheExpires, vars
  <2> QED  BY <1>0, <1>7, <2>1
<1>9. CASE ExternalChange
  <2>1. UNCHANGED <<engine, cache, handler>>  BY <1>9 DEF ExternalChange
  <2> QED  BY <1>0, <1>7, <1>9, <2>1, ExternalSpares
<1> QED  BY <1>1, <1>2, <1>4, <1>5, <1>6, <1>8, <1>9 DEF Next, ClientCall

\* The scratch disk is taken from the machine only by the handlers that release and destroy it, or
\* by the sink, and the release is entered only with the machine's destruction for a target.
THEOREM WorkIsKept ==
    ASSUME "cache" \notin Quirks
    PROVE  Spec => KeepsWork
<1>1. Init => WorkInv
  <2> SUFFICES ASSUME Init PROVE WorkInv  OBVIOUS
  <2>1. /\ cur = 1 /\ path = <<>> /\ target = 1 /\ cache = {} /\ Len(path) = 0 /\ path \in Seq(Nodes) /\ 1 \in Nodes
    BY EmptySeq DEF Init, Nodes
  <2>2. SessionInv  BY StartsRight
  <2>3. Whole(box)
    <3>1. CASE box = NoMachine  BY <3>1, WholeNone
    <3>2. ASSUME NEW s \in States, box = (IF s = "none" THEN NoMachine ELSE [state |-> s, parts |-> Parts, log |-> s])
          PROVE  Whole(box)
      <4>1. CASE s = "none"  BY <3>1, <3>2, <4>1
      <4>2. CASE s # "none"
        <5>1. box = [state |-> s, parts |-> Parts, log |-> s] /\ "controllers" \in Parts /\ box \in Machines
          BY <2>2, <3>2, <4>2, SessionIs DEF Parts
        <5> QED  BY <4>2, <5>1 DEF Whole
      <4> QED  BY <4>1, <4>2
    <3> QED  BY <3>1, <3>2 DEF Init
  <2> QED  BY <2>1, <2>3 DEF WorkInv, Spares
<1>2. WorkInv /\ [Next]_vars => WorkInv' /\ SparesWork  BY StepSpares
<1>3. SparesWork => [/\ handler # 0 /\ handler' = 0 /\ "scratch" \in box.parts \ box'.parts =>
                            handler \in {105, 208} \/ cur' = 112
                     /\ handler' = 105 /\ handler # 105 => target = 3]_vars
  BY DEF SparesWork
<1> QED  BY <1>1, <1>2, <1>3, PTL DEF Spec, KeepsWork

(***************************************************************************)
(* What the session knows of the media.                                    *)
(***************************************************************************)
\* Plain, and the machine neither vanishes at rest nor gets into a state of no checkpoint.
Queried == Quirks \subseteq {"lateData"}

Disks == {"boot", "scratch"}
Synced(b, parts) == b.state = "none" \/ parts \cap Disks = b.parts \cap Disks
\* Where the list may be stale: on the way to a query, and while a machine is taken apart.
Unqueried == cur \in {1, 2, 100, 102, 103, 105, 207} \/ handler \in {101, 208}
\* Where there is no machine to have media.
Bare == cur \in {3, 208} \/ handler = 104

Listed == ~Unqueried => IF Bare THEN known = {} ELSE Synced(box, known)

\* Where an engine is that has been opened.
Settled ==
    /\ opens # 0 /\ path = <<>> /\ handler = 0 => cur \in Checkpoints \cup {112}
    /\ cur = 101 => handler = 101
    /\ cur = 112 => errors > SESSION_HEAL_TRIES

MediaInv ==
    /\ box.state # "stuck"
    /\ ~hasId => known = {}
    /\ ~aborting => Settled /\ (errors <= SESSION_HEAL_TRIES => Listed)

LEMMA QueriedIsPlain == Queried => Plain /\ "gone" \notin Quirks /\ "stuck" \notin Quirks
  BY DEF Queried, Plain

\* Where Continue leads: to the first node of the path, or past it to the handler that follows.
LEMMA ContinueMoves ==
    ASSUME SessionInv, ~aborting, Continue
    PROVE  /\ handler = 0 /\ cur \in Nodes /\ cur' # 112
           /\ (cur' \in Handlers /\ handler' = cur') \/ (cur' \in Checkpoints /\ handler' = 0)
           /\ \E s \in Nodes : /\ s \in LinkedTo(cur) \/ (s = cur /\ cur \in 2..7 \cup {107})
                               /\ cur' = s \/ (s \in 1..7 /\ cur' \in Handlers \cap LinkedTo(s))
<1> DEFINE stop == Min(Stops)
<1>1. /\ handler = 0 /\ path # <<>> /\ cur' = path[stop]
      /\ handler' = (IF path[stop] \in Handlers THEN path[stop] ELSE 0)
  BY ContinueIs
<1>2. path \in Seq(Nodes) /\ cur \in Nodes /\ Driving  BY DEF SessionInv, TypeOK
<1>3. /\ Linked(path) /\ path[Len(path)] = target /\ target \in Checkpoints \cup {101}
      /\ path[1] \in LinkedTo(cur) \/ (path[1] = cur /\ cur \in 2..7 \cup {107})
  BY <1>1, <1>2 DEF Driving, OnItsWay
<1>4. /\ stop \in 1..Len(path) /\ (path[stop] \in Handlers \/ stop = Len(path))
  BY <1>1, <1>2, StopIs
<1>5. \/ stop = 1
      \/ stop = 2 /\ path[1] \in 1..7 /\ path[2] \in Handlers \cap LinkedTo(path[1])
  BY <1>1, <1>2, <1>3, StopsSoon
<1> HIDE DEF stop
<1>6. Len(path) \in Nat /\ path[1] \in Nodes /\ path[stop] \in Nodes  BY <1>2, <1>4
<1>7. cur' # 112
  <2> SUFFICES ASSUME path[stop] = 112 PROVE FALSE  BY <1>1
  <2>1. stop # Len(path)  BY <1>3 DEF Checkpoints
  <2>2. stop \in 1..(Len(path) - 1)  BY <1>4, <1>6, <2>1
  <2>3. path[stop + 1] \in LinkedTo(112)  BY <1>3, <2>2 DEF Linked
  <2> QED  BY <2>3, HandlersLinkTo
<1>8. (cur' \in Handlers /\ handler' = cur') \/ (cur' \in Checkpoints /\ handler' = 0)
  <2>1. 101 \in Handlers /\ Handlers \cap Checkpoints = {}  BY NodesAre
  <2> QED  BY <1>1, <1>3, <1>4, <2>1
<1>9. path[1] \in Nodes /\ (cur' = path[1] \/ (path[1] \in 1..7 /\ cur' \in Handlers \cap LinkedTo(path[1])))
  BY <1>1, <1>5, <1>6
<1> QED  BY <1>1, <1>2, <1>3, <1>7, <1>8, <1>9

LEMMA WalksOn ==
    ASSUME SessionInv, ~aborting, Continue, cur # 101
    PROVE  /\ (cur = 1 => cur' = 100) /\ (cur = 100 => cur' = 101)
           /\ (cur = 2 => cur' = 102) /\ (cur = 102 => cur' = 103) /\ (cur = 103 => cur' = 101)
           /\ Unqueried => Unqueried'
           /\ ~Unqueried /\ Bare => Bare'
           /\ ~Unqueried /\ ~Bare => ~Bare'
<1>1. /\ handler = 0 /\ cur \in Nodes /\ cur' # 112
      /\ (cur' \in Handlers /\ handler' = cur') \/ (cur' \in Checkpoints /\ handler' = 0)
  BY ContinueMoves
<1>2. PICK s \in Nodes : /\ s \in LinkedTo(cur) \/ (s = cur /\ cur \in 2..7 \cup {107})
                         /\ cur' = s \/ (s \in 1..7 /\ cur' \in Handlers \cap LinkedTo(s))
  BY ContinueMoves
<1>3. LinkIs(cur, s) \/ (s = cur /\ cur \in 2..7 \cup {107})  BY <1>1, <1>2, TheLinks
<1>4. cur' = s \/ (s \in 1..7 /\ cur' \in Handlers /\ LinkIs(s, cur'))  BY <1>2, TheLinks
<1>5. Handlers = 100..112 \cup 201..211 /\ Checkpoints = 3..7  BY DEF Handlers, Nodes, Checkpoints
<1>6. CASE cur' = s
  BY <1>1, <1>3, <1>5, <1>6 DEF LinkIs, Unqueried, Bare
<1>7. CASE s \in 1..7 /\ cur' \in Handlers /\ LinkIs(s, cur')
  BY <1>1, <1>3, <1>5, <1>7 DEF LinkIs, Unqueried, Bare
<1> QED  BY <1>4, <1>6, <1>7

LEMMA ContinueListed ==
    ASSUME SessionInv, MediaInv, Continue
    PROVE  MediaInv'
<1>1. UNCHANGED <<box, known, hasId, errors, opens, aborting>>  BY ContinueIs DEF life, healing
<1> SUFFICES ASSUME ~aborting PROVE Settled' /\ (errors <= SESSION_HEAL_TRIES => Listed')
  BY <1>1 DEF MediaInv
<1>2. /\ handler = 0 /\ cur' # 112
      /\ (cur' \in Handlers /\ handler' = cur') \/ (cur' \in Checkpoints /\ handler' = 0)
  BY ContinueMoves
<1>3. cur # 101  BY <1>2 DEF MediaInv, Settled
<1>4. Settled'
  <2>1. 101 \notin Checkpoints /\ 0 \notin Handlers  BY DEF Checkpoints, Handlers, Nodes
  <2> QED  BY <1>2, <2>1 DEF Settled
<1>5. ASSUME errors <= SESSION_HEAL_TRIES PROVE Listed'
  BY <1>1, <1>3, <1>5, WalksOn DEF MediaInv, Listed, Synced
<1> QED  BY <1>4, <1>5

\* What holds where a handler begins.
LEMMA ListedBefore ==
    ASSUME SessionInv, MediaInv, handler # 0, ~aborting
    PROVE  /\ cur = handler /\ handler # 112 /\ handler \in Handlers
           /\ handler # 101 => path # <<>>
           /\ handler # 100 /\ path # <<>> => target \in Checkpoints
           /\ errors <= SESSION_HEAL_TRIES /\ handler \notin {100, 101, 102, 103, 105, 207, 208} =>
                  IF handler = 104 THEN known = {} ELSE Synced(box, known)
<1>1. cur = handler /\ handler \in Handlers /\ Driving  BY SessionIs DEF SessionInv
<1>2. handler \notin 1..7  BY <1>1, NodesAre
<1>3. errors <= SESSION_HEAL_TRIES /\ handler \notin {100, 101, 102, 103, 105, 207, 208} =>
          IF handler = 104 THEN known = {} ELSE Synced(box, known)
  BY <1>1, <1>2 DEF MediaInv, Listed, Unqueried, Bare
<1>4. handler # 101 => path # <<>>  BY <1>1 DEF Driving, AtRest
<1>5. handler # 100 /\ path # <<>> => target \in Checkpoints  BY <1>1, <1>2 DEF Driving, OnItsWay
<1> QED  BY <1>1, <1>3, <1>4, <1>5, NoSink

LEMMA ErrorListed ==
    ASSUME SessionInv, MediaInv, ~aborting, ~aborting', handler \notin {0, 100, 101}, handler' = 0,
           NEW n \in {1, 2}, NEW b \in Machines, b.state # "stuck", NEW parts, ~hasId' => parts = {}, NEW cost,
           ErrorsOccured(n, b, parts, cost)
    PROVE  MediaInv'
<1>1. target \in Checkpoints /\ path # <<>>  BY ListedBefore
<1>2. CASE cur' = 112 /\ path' = <<>> /\ Counted(n) > SESSION_HEAL_TRIES /\ FatalErrorSink(b, parts, cost)
  <2>1. PICK r \in Unregister(b) : box' = r.box /\ known' \in {{}, parts}  BY <1>2 DEF FatalErrorSink
  <2>2. box' \in {b, NoMachine} /\ box'.state # "stuck"  BY <2>1, UnregisterIs, NoMachineIs
  <2>3. ~hasId' => known' = {}  BY <2>1
  <2>4. errors' > SESSION_HEAL_TRIES  BY <1>2 DEF ErrorsOccured
  <2>5. ~(errors' <= SESSION_HEAL_TRIES)
    <3>1. Counted(n) \in Nat /\ errors' = Counted(n)
      BY CountedIs DEF SessionInv, ErrorsOccured, MostErrors, SESSION_HEAL_TRIES
    <3> QED  BY <1>2, <3>1 DEF SESSION_HEAL_TRIES
  <2>6. Settled'  BY <1>2, <2>4 DEF Settled
  <2> QED  BY <2>2, <2>3, <2>5, <2>6 DEF MediaInv
<1>3. CASE FSMSkew(2) /\ box' = b /\ known' = parts
  <2>1. Route(2, target) # <<>>
    <3>1. 2 \in Nodes /\ target # 2  BY <1>1 DEF Nodes, Checkpoints
    <3> QED  BY <1>1, <3>1, RouteAssumption
  <2>2. cur' = 2 /\ path' # <<>>  BY <1>1, <1>3, <2>1 DEF FSMSkew
  <2> QED  BY <1>3, <2>2 DEF MediaInv, Settled, Listed, Unqueried
<1> QED  BY <1>2, <1>3 DEF ErrorsOccured

LEMMA ErrorListed1 ==
    ASSUME SessionInv, MediaInv, ~aborting, ~aborting', handler \notin {0, 100, 101}, handler' = 0,
           NEW b \in Machines, b.state # "stuck", NEW parts, ~hasId' => parts = {}, NEW cost,
           ErrorOccured(b, parts, cost)
    PROVE  MediaInv'
<1>1. ErrorsOccured(1, b, parts, cost) /\ 1 \in {1, 2}  BY Zenon DEF ErrorOccured
<1> QED  BY <1>1, ErrorListed

LEMMA EndListed ==
    ASSUME SessionInv, MediaInv, ~aborting, ~aborting', handler \notin {0, 101}, handler' = 0,
           NEW b, b.state # "stuck", NEW parts, ~hasId' => parts = {}, NEW cost,
           Completes(b, parts, cost) \/ Created(b, parts, cost),
           errors <= SESSION_HEAL_TRIES /\ handler \notin {100, 102, 103, 105, 207} =>
               IF handler = 208 THEN parts = {} ELSE Synced(b, parts)
    PROVE  MediaInv'
<1>1. box' = b /\ known' = parts /\ cur' = cur /\ path' = path /\ errors' = errors
  BY DEF Completes, Created, engine, healing
<1>2. cur = handler /\ handler # 112 /\ path # <<>> /\ handler \in Handlers  BY ListedBefore
<1>3. Settled'  BY <1>1, <1>2 DEF Settled
<1>4. handler \notin 1..7  BY <1>2, NodesAre
<1>5. errors <= SESSION_HEAL_TRIES => Listed'  BY <1>1, <1>2, <1>4 DEF Listed, Unqueried, Bare
<1> QED  BY <1>1, <1>3, <1>5 DEF MediaInv

\* What a command does that fits, and one that does not.
LEMMA CommandPays ==
    ASSUME NEW b, NEW fits \in BOOLEAN, NEW after, NEW r \in Command(b, fits, after)
    PROVE  ~r.ok => r.fault = (IF fits THEN 1 ELSE 0)
<1>1. CASE fits
  <2>1. \/ r = [box |-> after, ok |-> TRUE, fault |-> 0]
        \/ \E x \in {b, after} : r = [box |-> x, ok |-> FALSE, fault |-> 1]
    BY <1>1, Zenon DEF Command
  <2>2. CASE r = [box |-> after, ok |-> TRUE, fault |-> 0]
    BY <1>1, <2>2
  <2>3. ASSUME NEW x \in {b, after}, r = [box |-> x, ok |-> FALSE, fault |-> 1] PROVE r.fault = 1
    BY <2>3
  <2> QED  BY <1>1, <2>1, <2>2, <2>3
<1>2. CASE ~fits
  <2>1. r = [box |-> b, ok |-> FALSE, fault |-> 0]
    BY <1>2, Zenon DEF Command
  <2> QED  BY <1>2, <2>1
<1> QED  BY <1>1, <1>2

LEMMA PartsAre ==
    ASSUME NEW b \in Machines, NEW p
    PROVE  [b EXCEPT !.parts = p].parts = p
  BY MachineIs

LEMMA Mounted ==
    ASSUME NEW b \in Machines, NEW medium \in Media, NEW r \in Attach(b, medium)
    PROVE  /\ r.ok => r.box.parts = b.parts \cup {medium} /\ b.state = "poweroff"
           /\ ~r.ok /\ b.state = "poweroff" /\ "controllers" \in b.parts => r.fault = 1
           /\ "controllers" \in b.parts => "controllers" \in r.box.parts
<1> DEFINE fits == b.state = "poweroff" /\ "controllers" \in b.parts
           with == [b EXCEPT !.parts = b.parts \cup {medium}]
<1>1. r \in Command(b, fits, with) /\ fits \in BOOLEAN  BY Zenon DEF Attach
<1>2. with.parts = b.parts \cup {medium}  BY PartsAre
<1> HIDE DEF with
<1>3. fits => b.state = "poweroff"  OBVIOUS
<1>4. (b.state = "poweroff" /\ "controllers" \in b.parts) => fits  OBVIOUS
<1> HIDE DEF fits
<1>5. /\ r.ok => fits /\ r.box = with
      /\ r.box \in {b, with}
      /\ ~r.ok => r.fault = (IF fits THEN 1 ELSE 0)
  BY <1>1, CommandIs, CommandPays
<1> QED  BY <1>2, <1>3, <1>4, <1>5

LEMMA Dismounted ==
    ASSUME NEW b \in Machines, NEW medium \in Media, NEW r \in Detach(b, medium)
    PROVE  /\ r.ok => r.box.parts = b.parts \ {medium} /\ b.state = "poweroff"
           /\ ~r.ok /\ b.state = "poweroff" /\ "controllers" \in b.parts => r.fault = 1
           /\ "controllers" \in b.parts => "controllers" \in r.box.parts
<1> DEFINE fits == b.state = "poweroff" /\ "controllers" \in b.parts
           without == [b EXCEPT !.parts = b.parts \ {medium}]
<1>1. r \in Command(b, fits, without) /\ fits \in BOOLEAN  BY Zenon DEF Detach
<1>2. without.parts = b.parts \ {medium}  BY PartsAre
<1>0. medium # "controllers"  BY DEF Media
<1> HIDE DEF without
<1>3. fits => b.state = "poweroff"  OBVIOUS
<1>4. (b.state = "poweroff" /\ "controllers" \in b.parts) => fits  OBVIOUS
<1> HIDE DEF fits
<1>5. /\ r.ok => fits /\ r.box = without
      /\ r.box \in {b, without}
      /\ ~r.ok => r.fault = (IF fits THEN 1 ELSE 0)
  BY <1>1, CommandIs, CommandPays
<1> QED  BY <1>0, <1>2, <1>3, <1>4, <1>5

LEMMA DismountedAtAll ==
    ASSUME NEW b \in Machines, NEW medium \in Media, NEW r \in Detach(b, medium)
    PROVE  r.box.parts \in {b.parts, b.parts \ {medium}}
<1> DEFINE fits == b.state = "poweroff" /\ "controllers" \in b.parts
           without == [b EXCEPT !.parts = b.parts \ {medium}]
<1>1. r \in Command(b, fits, without) /\ fits \in BOOLEAN  BY Zenon DEF Detach
<1>2. without.parts = b.parts \ {medium}  BY PartsAre
<1> HIDE DEF without, fits
<1> QED  BY <1>1, <1>2, CommandIs

LEMMA MediaHeld ==
    ASSUME SessionInv, MediaInv
    PROVE  /\ box \in Machines /\ box.state # "stuck" /\ (~hasId => known = {} /\ box.state = "none")
           /\ cache = {} /\ TypeOK
  BY SessionIs DEF MediaInv

LEMMA EmptyListed ==
    ASSUME SessionInv, MediaInv, EmptyHandler
    PROVE  MediaInv'
<1>1. PICK n \in {100, 102, 103, 108} : Runs(n)  BY DEF EmptyHandler
<1>2. handler = n /\ ~aborting  BY <1>1 DEF Runs
<1>3. handler' = 0 /\ ~aborting' /\ hasId' = hasId /\ Completes(box, known, 0)
  BY <1>2 DEF EmptyHandler, life
<1>4. errors <= SESSION_HEAL_TRIES /\ handler \notin {100, 102, 103, 105, 207} =>
          handler # 208 /\ Synced(box, known)
  BY <1>2, ListedBefore
<1>5. handler \notin {0, 101}  BY <1>2
<1> QED  BY <1>2, <1>3, <1>4, <1>5, MediaHeld, EndListed

\* A handler that is one command, and leaves the parts alone.
LEMMA CommandListed ==
    ASSUME SessionInv, MediaInv, NEW n \in {106, 107, 109, 110, 111, 201, 202, 210}, NEW fits \in BOOLEAN,
           NEW after \in Machines, after.state # "stuck", after.parts = box.parts,
           fits => after = box \/ box.state # "none",
           Handler(n, Command(box, fits, after))
    PROVE  MediaInv'
<1>1. handler = n /\ ~aborting /\ handler' = 0 /\ ~aborting' /\ hasId' = hasId  BY DEF Handler, Runs, life
<1>2. PICK r \in Command(box, fits, after) : \/ r.ok /\ Completes(r.box, known, r.fault)
                                             \/ ~r.ok /\ ErrorOccured(r.box, known, r.fault)
  BY DEF Handler
<1>3. r.box \in {box, after} /\ (r.box # box => fits)  BY <1>2, CommandIs
<1>4. r.box \in Machines /\ r.box.state # "stuck" /\ r.box.parts = box.parts
  BY <1>3, MediaHeld
<1>5. errors <= SESSION_HEAL_TRIES => Synced(box, known)  BY <1>1, ListedBefore
<1>6. Synced(box, known) => Synced(r.box, known)  BY <1>3, <1>4 DEF Synced
<1> QED  BY <1>1, <1>2, <1>4, <1>5, <1>6, MediaHeld, EndListed, ErrorListed1

LEMMA ControlListed ==
    ASSUME SessionInv, MediaInv, NEW n \in {106, 109, 110, 111}, NEW from, "none" \notin from,
           NEW to \in States \ {"none"}, Control(n, from, to)
    PROVE  MediaInv'
<1> DEFINE fits == box.state \in from
           after == Becomes(box, to)
<1>1. fits \in BOOLEAN /\ (fits => box.state # "none")  OBVIOUS
<1>2. Handler(n, Command(box, fits, after))  BY Zenon DEF Control
<1>3. after \in Machines /\ after.state # "stuck"
  <2>1. to # "stuck"  BY StatesAre
  <2> QED  BY <2>1, MediaHeld, BecomesIs
<1>4. after.parts = box.parts  BY MediaHeld, MachineIs DEF Becomes
<1> HIDE DEF fits, after
<1> QED  BY <1>1, <1>2, <1>3, <1>4, CommandListed

LEMMA SimpleListed ==
    ASSUME SessionInv, MediaInv,
           \/ ConfigNetwork \/ DownloadMedia \/ ConfigureVM \/ PauseVM \/ ResumeVM \/ SaveVMState
           \/ PoweroffVM \/ DiscardVMState
    PROVE  MediaInv'
<1>0. box \in Machines /\ box.state # "stuck"  BY MediaHeld
<1>1. {"paused", "running", "saved", "poweroff"} \subseteq States \ {"none"}  BY StatesAre
<1>2. CASE ConfigNetwork \/ DownloadMedia \/ ConfigureVM
  <2>1. PICK n \in {210, 202, 201}, fits \in BOOLEAN : Handler(n, Command(box, fits, box))
    <3>1. CASE ConfigNetwork \/ DownloadMedia
      BY <3>1, Zenon DEF ConfigNetwork, DownloadMedia, Work
    <3>2. CASE ConfigureVM
      <4> DEFINE fits == box.state = "poweroff"
      <4>1. fits \in BOOLEAN /\ Handler(201, Command(box, fits, box))  BY <3>2, Zenon DEF ConfigureVM
      <4> HIDE DEF fits
      <4> QED  BY <4>1
    <3> QED  BY <1>2, <3>1, <3>2
  <2>2. n \in {106, 107, 109, 110, 111, 201, 202, 210}  OBVIOUS
  <2> QED  BY <1>0, <2>1, <2>2, CommandListed
<1>3. CASE PauseVM  BY <1>1, <1>3, ControlListed DEF PauseVM
<1>4. CASE ResumeVM  BY <1>1, <1>4, ControlListed DEF ResumeVM
<1>5. CASE SaveVMState  BY <1>1, <1>5, ControlListed DEF SaveVMState
<1>6. CASE PoweroffVM  BY <1>1, <1>6, ControlListed DEF PoweroffVM
<1>7. CASE DiscardVMState
  <2> DEFINE fits == box.state = "saved"
             off == [box EXCEPT !.state = "poweroff"]
  <2>1. fits \in BOOLEAN /\ Handler(107, Command(box, fits, off))  BY <1>7, Zenon DEF DiscardVMState
  <2>2. off \in Machines /\ off.state = "poweroff"  BY <1>0, <1>1, OtherState
  <2>3. off.parts = box.parts  BY <1>0, MachineIs
  <2>4. fits => box.state # "none"  OBVIOUS
  <2> HIDE DEF fits, off
  <2> QED  BY <2>1, <2>2, <2>3, <2>4, CommandListed
<1> QED  BY <1>2, <1>3, <1>4, <1>5, <1>6, <1>7

LEMMA ReleaseListed ==
    ASSUME SessionInv, MediaInv, ReleaseVMScratch \/ ReleaseVMBoot \/ ReleaseVMAPI
    PROVE  MediaInv'
<1>1. PICK medium \in Media, n \in {105, 207, 209} : Release(n, medium) /\ (n = 209 => medium = "context")
  BY DEF ReleaseVMScratch, ReleaseVMBoot, ReleaseVMAPI, Media
<1>2. handler = n /\ ~aborting /\ handler' = 0 /\ ~aborting' /\ hasId' = hasId  BY <1>1 DEF Release, Runs, life
<1>3. handler \notin {0, 101, 208}  BY <1>2
<1>4. errors <= SESSION_HEAL_TRIES /\ handler \notin {100, 102, 103, 105, 207} =>
          medium = "context" /\ Synced(box, known)
  BY <1>1, <1>2, ListedBefore
<1>5. CASE Completes(box, known, 0)  BY <1>2, <1>3, <1>4, <1>5, MediaHeld, EndListed
<1>6. ASSUME NEW b \in Machines, b.state = box.state, NEW parts, NEW cost, Completes(b, parts, cost),
             ~hasId => parts = {}, Synced(box, known) /\ medium = "context" => Synced(b, parts)
      PROVE  MediaInv'
  <2>1. b.state # "stuck" /\ (~hasId' => parts = {})  BY <1>2, <1>6, MediaHeld
  <2>2. errors <= SESSION_HEAL_TRIES /\ handler \notin {100, 102, 103, 105, 207} =>
            IF handler = 208 THEN parts = {} ELSE Synced(b, parts)
    BY <1>3, <1>4, <1>6
  <2> QED  BY <1>2, <1>3, <1>6, <2>1, <2>2, EndListed
<1>7. ASSUME NEW r \in Detach(box, medium),
             Completes(r.box, IF r.ok THEN known \ {medium} ELSE known, r.fault)
      PROVE  MediaInv'
  <2>1. r.box \in Machines /\ r.box.state = box.state  BY <1>7, MediaHeld, MountIs
  <2>2. CASE r.ok
    <3>1. r.box.parts = box.parts \ {medium}  BY <1>7, <2>2, MediaHeld, Dismounted
    <3>2. Synced(box, known) => Synced(r.box, known \ {medium})  BY <2>1, <3>1 DEF Synced
    <3>3. ~hasId => known \ {medium} = {}  BY MediaHeld
    <3> QED  BY <1>6, <1>7, <2>1, <2>2, <3>2, <3>3
  <2>3. CASE ~r.ok
    <3>1. r.box.parts \in {box.parts, box.parts \ {medium}}  BY <1>7, MediaHeld, DismountedAtAll
    <3>2. Synced(box, known) /\ medium = "context" => Synced(r.box, known)
      BY <2>1, <3>1 DEF Synced, Disks
    <3> QED  BY <1>6, <1>7, <2>1, <2>3, <3>2, MediaHeld
  <2> QED  BY <2>2, <2>3
<1> QED  BY <1>1, <1>5, <1>7 DEF Release

\* What a mount leaves of the machine and of the list.
LEMMA MountListed ==
    ASSUME SessionInv, MediaInv, ~aborting, ~aborting', handler \in {203, 204, 205}, handler' = 0, hasId' = hasId,
           NEW b \in Machines, b.state = box.state, NEW medium \in Media, NEW a \in Attach(b, medium),
           NEW more, NEW less,
           \/ a.ok /\ Completes(a.box, more, a.fault)
           \/ ~a.ok /\ ErrorOccured(a.box, less, a.fault),
           ~hasId => less = {},
           errors <= SESSION_HEAL_TRIES /\ box.state # "none" =>
               more \cap Disks = (b.parts \cup {medium}) \cap Disks
    PROVE  MediaInv'
<1>1. a.box \in Machines /\ a.box.state = box.state /\ a.box.state # "stuck"  BY MediaHeld, MountIs
<1>2. CASE a.ok /\ Completes(a.box, more, a.fault)
  <2>1. a.box.parts = b.parts \cup {medium} /\ b.state = "poweroff"  BY <1>2, Mounted
  <2>2. errors <= SESSION_HEAL_TRIES => Synced(a.box, more)  BY <2>1 DEF Synced
  <2>3. hasId'  BY <2>1, MediaHeld
  <2>4. handler \notin {0, 101, 208}  OBVIOUS
  <2> QED  BY <1>1, <1>2, <2>2, <2>3, <2>4, EndListed
<1>3. CASE ErrorOccured(a.box, less, a.fault)
  <2>1. handler \notin {0, 100, 101}  OBVIOUS
  <2> QED  BY <1>1, <1>3, <2>1, ErrorListed1
<1> QED  BY <1>2, <1>3

LEMMA MediaListed ==
    ASSUME SessionInv, MediaInv, ConfigureVMBoot \/ ConfigureVMScratch \/ ConfigureVMAPI
    PROVE  MediaInv'
<1>0. Media = {"boot", "scratch", "context"}  BY DEF Media
<1>1. handler \in {203, 204, 205} /\ ~aborting /\ handler' = 0 /\ ~aborting' /\ hasId' = hasId
  BY DEF ConfigureVMBoot, ConfigureVMScratch, ConfigureVMAPI, Runs, life
<1>2. handler \notin {0, 100, 101, 208, 104, 102, 103, 105, 207}  BY <1>1
<1>3. errors <= SESSION_HEAL_TRIES => Synced(box, known)
  <2>1. handler # 0 /\ handler # 104 /\ handler \notin {100, 101, 102, 103, 105, 207, 208}  BY <1>1
  <2> QED  BY <1>1, <2>1, ListedBefore
<1>4. /\ box \in Machines /\ box.state # "stuck" /\ (~hasId => known = {})
  BY MediaHeld
<1>5. ASSUME NEW medium \in Media, Mounts(medium) PROVE MediaInv'
  <2>1. errors <= SESSION_HEAL_TRIES /\ box.state # "none" =>
            (known \cup {medium}) \cap Disks = (box.parts \cup {medium}) \cap Disks
    BY <1>3 DEF Synced
  <2> QED  BY <1>1, <1>4, <1>5, <2>1, MountListed DEF Mounts
<1>6. ASSUME NEW cost, Completes(box, known, cost) PROVE MediaInv'
  BY <1>1, <1>2, <1>3, <1>4, <1>6, EndListed
<1>7. ASSUME NEW b \in Machines, b.state = box.state, NEW parts \in SUBSET known, NEW cost,
             ErrorOccured(b, parts, cost)
      PROVE  MediaInv'
  <2>1. ~hasId' => parts = {}  BY <1>1, <1>4
  <2> QED  BY <1>1, <1>2, <1>4, <1>7, <2>1, ErrorListed1
<1>8. CASE ConfigureVMBoot
  <2>1. ASSUME NEW r \in Detach(box, "boot"), "boot" \in known,
               \/ ~r.ok /\ ErrorOccured(r.box, known, r.fault)
               \/ /\ r.ok
                  /\ \E a \in Attach(r.box, "boot") :
                        \/ a.ok /\ Completes(a.box, known, a.fault)
                        \/ ~a.ok /\ ErrorOccured(a.box, known \ {"boot"}, a.fault)
        PROVE  MediaInv'
    <3>1. r.box \in Machines /\ r.box.state = box.state /\ known \in SUBSET known
      BY <1>0, <1>4, <2>1, MountIs
    <3>2. CASE ErrorOccured(r.box, known, r.fault)  BY <1>7, <3>1, <3>2
    <3>3. ASSUME r.ok, NEW a \in Attach(r.box, "boot"),
                 \/ a.ok /\ Completes(a.box, known, a.fault)
                 \/ ~a.ok /\ ErrorOccured(a.box, known \ {"boot"}, a.fault)
          PROVE  MediaInv'
      <4>1. r.box.parts = box.parts \ {"boot"}  BY <1>0, <1>4, <2>1, <3>3, Dismounted
      <4>2. errors <= SESSION_HEAL_TRIES /\ box.state # "none" =>
                known \cap Disks = (r.box.parts \cup {"boot"}) \cap Disks
        BY <1>3, <2>1, <4>1 DEF Synced, Disks
      <4>3. ~hasId => known \ {"boot"} = {}  BY <1>4
      <4> QED  BY <1>0, <1>1, <3>1, <3>3, <4>2, <4>3, MountListed
    <3> QED  BY <2>1, <3>2, <3>3
  <2> QED  BY <1>0, <1>5, <1>6, <1>8, <2>1 DEF ConfigureVMBoot
<1>9. CASE ConfigureVMScratch
  <2>1. known \in SUBSET known  OBVIOUS
  <2> QED  BY <1>0, <1>4, <1>5, <1>6, <1>7, <1>9, <2>1 DEF ConfigureVMScratch
<1>10. CASE ConfigureVMAPI
  <2>1. PICK r \in IF "context" \in known THEN Detach(box, "context") ELSE Nothing(box) :
            \/ ~r.ok /\ ErrorOccured(r.box, known, r.fault)
            \/ r.ok /\ ErrorOccured(r.box, known \ {"context"}, 1)
            \/ /\ r.ok
               /\ \E a \in Attach(r.box, "context") :
                     \/ a.ok /\ Completes(a.box, known \cup {"context"}, a.fault)
                     \/ ~a.ok /\ ErrorOccured(a.box, known \ {"context"}, a.fault)
    BY <1>10 DEF ConfigureVMAPI
  <2>2. /\ r.box \in Machines /\ r.box.state = box.state
        /\ r.ok => r.box.parts \in {box.parts, box.parts \ {"context"}}
    <3>1. CASE "context" \in known  BY <1>0, <1>4, <2>1, <3>1, MountIs, Dismounted
    <3>2. CASE "context" \notin known
      <4>1. r = [box |-> box, ok |-> TRUE, fault |-> 0]  BY <2>1, <3>2 DEF Nothing
      <4> QED  BY <1>4, <4>1
    <3> QED  BY <3>1, <3>2
  <2>3. known \in SUBSET known /\ known \ {"context"} \in SUBSET known  OBVIOUS
  <2>4. ASSUME r.ok, NEW a \in Attach(r.box, "context"),
               \/ a.ok /\ Completes(a.box, known \cup {"context"}, a.fault)
               \/ ~a.ok /\ ErrorOccured(a.box, known \ {"context"}, a.fault)
        PROVE  MediaInv'
    <3>1. errors <= SESSION_HEAL_TRIES /\ box.state # "none" =>
              (known \cup {"context"}) \cap Disks = (r.box.parts \cup {"context"}) \cap Disks
      BY <1>3, <2>2, <2>4 DEF Synced, Disks
    <3>2. ~hasId => known \ {"context"} = {}  BY <1>4
    <3> QED  BY <1>0, <1>1, <2>2, <2>4, <3>1, <3>2, MountListed
  <2> QED  BY <1>7, <2>1, <2>2, <2>3, <2>4
<1> QED  BY <1>8, <1>9, <1>10

LEMMA DestroyListed ==
    ASSUME SessionInv, MediaInv, DestroyVM
    PROVE  MediaInv'
<1>1. handler = 208 /\ ~aborting /\ handler' = 0 /\ ~aborting' /\ hasId' = hasId  BY DEF DestroyVM, Runs, life
<1>2. handler \notin {0, 101} /\ handler \notin {0, 100, 101}  BY <1>1
<1>3. PICK r \in Unregister(box) : \/ r.ok /\ Completes(r.box, {}, r.fault)
                                   \/ ~r.ok /\ ErrorsOccured(2, r.box, known, r.fault)
  BY DEF DestroyVM
<1>4. r.box \in Machines /\ r.box.state # "stuck"
  <2>1. r.box \in {box, NoMachine}  BY <1>3, MediaHeld, UnregisterIs
  <2> QED  BY <2>1, MediaHeld, NoMachineIs
<1>5. CASE Completes(r.box, {}, r.fault)
  BY <1>1, <1>2, <1>4, <1>5, EndListed
<1>6. CASE ErrorsOccured(2, r.box, known, r.fault)
  <2>1. 2 \in {1, 2} /\ (~hasId' => known = {})  BY <1>1, MediaHeld
  <2> QED  BY <1>1, <1>2, <1>4, <1>6, <2>1, ErrorListed
<1> QED  BY <1>3, <1>5, <1>6

LEMMA StartListed ==
    ASSUME SessionInv, MediaInv, StartVM
    PROVE  MediaInv'
<1>1. handler = 206 /\ ~aborting /\ handler' = 0 /\ ~aborting' /\ hasId' = hasId  BY DEF StartVM, Runs, life
<1>2. handler \notin {0, 101} /\ handler \notin {0, 100, 101}  BY <1>1
<1> DEFINE fits == box.state \in {"poweroff", "saved"}
           on == Becomes(box, "running")
<1>3. PICK r \in Command(box, fits, on) :
          \/ ~r.ok /\ ErrorOccured(r.box, known, r.fault)
          \/ r.ok /\ \E i \in MachineInfo(r.box, hasId) :
                        Completes(r.box, IF i.ok THEN i.info.parts ELSE known, i.fault)
  BY DEF StartVM
<1>4. fits \in BOOLEAN /\ (fits => box.state # "none")  OBVIOUS
<1>5. on \in Machines /\ on.state = "running" /\ on.parts = box.parts
  <2>1. "running" \in States  BY StatesAre
  <2>2. on \in Machines /\ on.state = "running"  BY <2>1, MediaHeld, BecomesIs, Zenon
  <2>3. on.parts = box.parts  BY MediaHeld, MachineIs DEF Becomes
  <2> QED  BY <2>2, <2>3
<1> HIDE DEF fits, on
<1>6. r.box \in {box, on} /\ (r.ok => fits /\ r.box = on)  BY <1>3, <1>4, CommandIs
<1>7. r.box \in Machines /\ r.box.state # "stuck"  BY <1>5, <1>6, MediaHeld
<1>8. CASE ErrorOccured(r.box, known, r.fault)
  BY <1>1, <1>2, <1>7, <1>8, MediaHeld, ErrorListed1
<1>9. errors <= SESSION_HEAL_TRIES => Synced(box, known)
  <2>1. handler # 0 /\ handler # 104 /\ handler \notin {100, 101, 102, 103, 105, 207, 208}  BY <1>1
  <2> QED  BY <1>1, <2>1, ListedBefore
<1>10. ASSUME r.ok, NEW parts \in {known, box.parts}, NEW cost, Completes(r.box, parts, cost) PROVE MediaInv'
  <2>1. hasId' /\ r.box.parts = box.parts /\ box.state # "none"  BY <1>1, <1>4, <1>5, <1>6, <1>10, MediaHeld
  <2>2. Synced(box, known) => Synced(r.box, parts)  BY <1>10, <2>1 DEF Synced
  <2> QED  BY <1>1, <1>2, <1>7, <1>9, <1>10, <2>1, <2>2, EndListed
<1>11. ASSUME r.ok, NEW i \in MachineInfo(r.box, hasId),
              Completes(r.box, IF i.ok THEN i.info.parts ELSE known, i.fault)
       PROVE  MediaInv'
  <2>1. i.info.parts = box.parts  BY <1>5, <1>6, <1>7, <1>11, MediaHeld, InfoIs
  <2>2. CASE i.ok  BY <1>10, <1>11, <2>1, <2>2
  <2>3. CASE ~i.ok  BY <1>10, <1>11, <2>3
  <2> QED  BY <2>2, <2>3
<1> QED  BY <1>3, <1>8, <1>11

\* The controllers are added to a machine whose media the session lists.
LEMMA ControllersListed ==
    ASSUME SessionInv, MediaInv, ~aborting, ~aborting', handler = 104, handler' = 0, hasId',
           NEW b \in Machines, b.state # "stuck", NEW parts, NEW cost,
           errors <= SESSION_HEAL_TRIES => parts \cap Disks = b.parts \cap Disks,
           AddControllers(b, parts, cost)
    PROVE  MediaInv'
<1>1. handler \notin {0, 101} /\ handler \notin {0, 100, 101}  OBVIOUS
<1>2. ASSUME NEW c \in Machines, c.state = b.state, c.parts \cap Disks = b.parts \cap Disks, NEW f,
             Created(c, parts, f)
      PROVE  MediaInv'
  <2>1. errors <= SESSION_HEAL_TRIES => Synced(c, parts)  BY <1>2 DEF Synced
  <2> QED  BY <1>1, <1>2, <2>1, EndListed
<1>3. CASE "controllers" \in parts
  <2>1. Created(b, parts, cost)  BY <1>3 DEF AddControllers
  <2> QED  BY <1>2, <2>1
<1>4. CASE "controllers" \notin parts
  <2> DEFINE fits == b.state = "poweroff" /\ "controllers" \notin b.parts
             p == b.parts \cup {"controllers"}
             more == [b EXCEPT !.parts = p]
  <2>1. PICK r \in Command(b, fits, more) :
            \/ r.ok /\ Created(r.box, parts, cost + r.fault)
            \/ /\ ~r.ok
               /\ \E d \in Unregister(r.box) :
                     \/ d.ok /\ ErrorOccured(d.box, {}, cost + r.fault + d.fault)
                     \/ ~d.ok /\ ErrorsOccured(2, d.box, parts, cost + r.fault + d.fault)
    BY <1>4 DEF AddControllers
  <2>2. fits \in BOOLEAN  OBVIOUS
  <2>3. more \in Machines /\ more.state = b.state
    <3>1. p \in SUBSET Parts  BY MachineIs DEF Parts
    <3> QED  BY <3>1, OtherParts
  <2>4. more.parts \cap Disks = b.parts \cap Disks
    <3>1. more.parts = p  BY PartsAre
    <3> QED  BY <3>1 DEF Disks
  <2> HIDE DEF fits, more
  <2>5. r.box \in {b, more}  BY <2>1, <2>2, CommandIs
  <2>6. r.box \in Machines /\ r.box.state = b.state /\ r.box.parts \cap Disks = b.parts \cap Disks
    BY <2>3, <2>4, <2>5
  <2>7. CASE Created(r.box, parts, cost + r.fault)  BY <1>2, <2>6, <2>7
  <2>8. ASSUME NEW d \in Unregister(r.box),
               \/ d.ok /\ ErrorOccured(d.box, {}, cost + r.fault + d.fault)
               \/ ~d.ok /\ ErrorsOccured(2, d.box, parts, cost + r.fault + d.fault)
        PROVE  MediaInv'
    <3>1. d.box \in {r.box, NoMachine} /\ d.box \in Machines  BY <2>6, <2>8, UnregisterIs
    <3>2. d.box.state # "stuck" /\ 2 \in {1, 2}  BY <2>6, <3>1, NoMachineIs
    <3>3. CASE ErrorOccured(d.box, {}, cost + r.fault + d.fault)
      BY <1>1, <3>1, <3>2, <3>3, ErrorListed1
    <3>4. CASE ErrorsOccured(2, d.box, parts, cost + r.fault + d.fault)
      BY <1>1, <3>1, <3>2, <3>4, ErrorListed
    <3> QED  BY <2>8, <3>3, <3>4
  <2> QED  BY <2>1, <2>7, <2>8
<1> QED  BY <1>3, <1>4

LEMMA CreateListed ==
    ASSUME SessionInv, MediaInv, Queried, CreateVM
    PROVE  MediaInv'
<1>1. handler = 104 /\ ~aborting /\ handler' = 0 /\ ~aborting'  BY DEF CreateVM, Runs, life
<1>2. handler \notin {0, 100, 101, 102, 103, 105, 207, 208}  BY <1>1
<1>3. box \in Machines /\ box.state # "stuck" /\ (~hasId => known = {} /\ box.state = "none") /\ cache = {}
  BY MediaHeld
<1>4. ASSUME NEW cost, ErrorOccured(box, known, cost), hasId' = hasId PROVE MediaInv'
  BY <1>1, <1>2, <1>3, <1>4, ErrorListed1
<1>5. CASE CreateNew
  <2>1. \/ hasId' = TRUE /\ AddControllers(NewMachine, known, 0)
        \/ ErrorOccured(box, known, 1) /\ hasId' = hasId
    BY <1>5 DEF CreateNew, Queried
  <2>2. CASE hasId' = TRUE /\ AddControllers(NewMachine, known, 0)
    <3>1. errors <= SESSION_HEAL_TRIES => known = {}  BY <1>1, <1>2, ListedBefore
    <3>2. NewMachine.parts \cap Disks = {}  BY DEF NewMachine, Disks
    <3>3. NewMachine.state # "stuck" /\ NewMachine \in Machines  BY NoMachineIs
    <3>4. errors <= SESSION_HEAL_TRIES => known \cap Disks = NewMachine.parts \cap Disks  BY <3>1, <3>2
    <3> QED  BY <1>1, <2>2, <3>3, <3>4, ControllersListed
  <2> QED  BY <1>4, <2>1, <2>2
<1>6. CASE CreateExisting
  <2>1. PICK i \in MachineInfo(box, hasId) :
            \/ hasId' = TRUE /\ AddControllers(box, i.info.parts, i.fault)
            \/ ErrorOccured(box, known, i.fault) /\ hasId' = hasId
    BY <1>6 DEF CreateExisting
  <2>2. i.info.parts = box.parts  BY <1>3, <2>1, InfoIs
  <2>3. CASE hasId' = TRUE /\ AddControllers(box, i.info.parts, i.fault)
    BY <1>1, <1>3, <2>2, <2>3, ControllersListed
  <2> QED  BY <1>4, <2>1, <2>3
<1> QED  BY <1>5, <1>6 DEF CreateVM

\* At a checkpoint the list is empty where there is no machine, and the machine's where there is.
LEMMA CheckpointListed ==
    ASSUME cur' \in Checkpoints, handler' = 0, box'.state # "stuck", ~hasId' => known' = {},
           ~aborting' /\ errors' <= SESSION_HEAL_TRIES =>
               IF cur' = 3 THEN known' = {} ELSE Synced(box', known')
    PROVE  MediaInv'
<1>1. cur' \notin {1, 2, 100, 102, 103, 105, 207, 208, 101, 112}  BY DEF Checkpoints
<1>2. Settled'  BY <1>1 DEF Settled
<1>3. ~aborting' /\ errors' <= SESSION_HEAL_TRIES => Listed'  BY <1>1 DEF Listed, Unqueried, Bare
<1> QED  BY <1>2, <1>3 DEF MediaInv

LEMMA UpdateSessionListed ==
    ASSUME SessionInv, MediaInv, UpdateSession
    PROVE  MediaInv'
<1>1. handler' = 0 /\ box' = box /\ hasId' = hasId /\ errors' = errors  BY DEF UpdateSession, healing
<1>2. /\ box \in Machines /\ box.state # "stuck" /\ (~hasId => known = {} /\ box.state = "none") /\ cache = {}
      /\ hasId \in BOOLEAN
  BY MediaHeld DEF TypeOK
<1>3. StateOf[3] = "none" /\ 3 \in Checkpoints  BY DEF StateOf, Checkpoints
<1>4. ASSUME NEW n \in Checkpoints, FSMSkew(n), ~hasId => known' = {},
             IF n = 3 THEN known' = {} ELSE known' = box.parts
      PROVE  MediaInv'
  <2>1. cur' = n  BY <1>4 DEF FSMSkew
  <2> QED  BY <1>1, <1>2, <1>4, <2>1, CheckpointListed DEF Synced
<1>5. CASE ~hasId /\ FSMSkew(3) /\ known' = known  BY <1>2, <1>3, <1>4, <1>5
<1>6. ASSUME hasId, NEW i \in MachineInfo(box, hasId), known' = Loaded(i),
             \/ ~i.ok /\ FSMSkew(3)
             \/ i.ok /\ i.info.state \in States /\ FSMSkew(NodeOf(i.info.state))
             \/ i.ok /\ i.info.state = "stuck"
      PROVE  MediaInv'
  <2>1. i.info.parts = box.parts /\ i.info.state = box.state /\ (i.ok => box.state # "none")
    BY <1>2, <1>6, InfoIs
  <2>2. CASE ~i.ok /\ FSMSkew(3)
    <3>1. known' = {}  BY <1>6, <2>2 DEF Loaded
    <3> QED  BY <1>3, <1>4, <2>2, <3>1
  <2>3. CASE i.ok /\ i.info.state \in States /\ FSMSkew(NodeOf(i.info.state))
    <3>1. known' = box.parts  BY <1>6, <2>1, <2>3 DEF Loaded
    <3>2. NodeOf(i.info.state) \in Checkpoints /\ NodeOf(i.info.state) # 3  BY <1>3, <2>1, <2>3, StatesAre
    <3> QED  BY <1>4, <1>6, <2>3, <3>1, <3>2
  <2> QED  BY <1>2, <1>6, <2>1, <2>2, <2>3
<1> QED  BY <1>5, <1>6 DEF UpdateSession

LEMMA CheckListed ==
    ASSUME SessionInv, MediaInv, CheckVMAPI
    PROVE  MediaInv'
<1>1. /\ handler = 211 /\ ~aborting /\ handler' = 0 /\ ~aborting'
      /\ UNCHANGED <<box, known, hasId, errors, opens>>
  BY DEF CheckVMAPI, Runs, life, healing
<1>2. target \in Checkpoints /\ path # <<>> /\ cur = 211
  <2>1. handler # 0 /\ handler # 101 /\ handler # 100  BY <1>1
  <2> QED  BY <1>1, <2>1, ListedBefore
<1>3. errors <= SESSION_HEAL_TRIES => Synced(box, known)
  <2>1. handler # 0 /\ handler # 104 /\ handler \notin {100, 101, 102, 103, 105, 207, 208}  BY <1>1
  <2> QED  BY <1>1, <2>1, ListedBefore
<1>4. cur' \in {107, 211} /\ path' # <<>>
  <2>1. CASE FSMSkew(107)
    <3>1. 107 \in Nodes /\ target # 107  BY <1>2 DEF Nodes, Checkpoints
    <3>2. Route(107, target) # <<>>  BY <1>2, <3>1, RouteAssumption
    <3> QED  BY <1>2, <2>1, <3>2 DEF FSMSkew
  <2>2. CASE UNCHANGED engine  BY <1>2, <2>2 DEF engine
  <2> QED  BY <2>1, <2>2 DEF CheckVMAPI
<1>5. Settled'  BY <1>4 DEF Settled
<1>6. errors <= SESSION_HEAL_TRIES => Listed'  BY <1>1, <1>3, <1>4 DEF Listed, Unqueried, Bare, Synced
<1> QED  BY <1>1, <1>5, <1>6 DEF MediaInv

LEMMA ExternalListed ==
    ASSUME SessionInv, MediaInv, Queried, ExternalChange
    PROVE  MediaInv'
<1>1. PICK change \in Changes :
          /\ box.state = change[1]
          /\ change[2] # "stuck" \/ "stuck" \in Quirks
          /\ box' = CASE change[2] = "none"  -> NoMachine
                      [] change[2] = "stuck" -> [box EXCEPT !.state = "stuck"]
                      [] change[1] = "saved" -> [box EXCEPT !.state = "poweroff"]
                      [] OTHER -> Becomes(box, change[2])
  BY DEF ExternalChange
<1>2. /\ change[1] \in {"running", "paused", "stuck", "saved", "poweroff"}
      /\ change[2] \in {"none"} \cup {"paused", "poweroff", "saved", "running"}
  BY <1>1, QueriedIsPlain DEF Changes
<1>3. UNCHANGED <<known, hasId, cur, path, handler, errors, opens, aborting>>
  BY DEF ExternalChange, engine, life, healing
<1>4. box \in Machines  BY MediaHeld
<1>5. {"paused", "poweroff", "saved", "running"} \subseteq States \ {"none"}  BY StatesAre
<1>6. /\ [box EXCEPT !.state = "poweroff"].state = "poweroff"
      /\ [box EXCEPT !.state = "poweroff"].parts = box.parts
  BY <1>4, <1>5, OtherState, MachineIs
<1>7. \A s \in {"paused", "poweroff", "saved", "running"} :
          Becomes(box, s).state = s /\ Becomes(box, s).parts = box.parts
  <2> SUFFICES ASSUME NEW s \in {"paused", "poweroff", "saved", "running"}
               PROVE  Becomes(box, s).state = s /\ Becomes(box, s).parts = box.parts
    OBVIOUS
  <2> QED  BY <1>4, <1>5, BecomesIs, MachineIs DEF Becomes
<1>8. box' = NoMachine \/ (box'.state # "stuck" /\ box'.parts = box.parts)
  BY <1>1, <1>2, <1>6, <1>7
<1>9. box'.state # "stuck" /\ (Synced(box, known) => Synced(box', known))
  <2>1. box.state # "none"  BY <1>1, <1>2
  <2> QED  BY <1>8, <2>1, NoMachineIs DEF Synced
<1>10. Settled' <=> Settled  BY <1>3 DEF Settled
<1>11. Listed => Listed'  BY <1>3, <1>9 DEF Listed, Unqueried, Bare
<1> QED  BY <1>3, <1>9, <1>10, <1>11 DEF MediaInv

LEMMA RequestListed ==
    ASSUME SessionInv, MediaInv, Plain, NEW n \in Checkpoints, Request(n)
    PROVE  MediaInv'
<1>1. /\ ~aborting /\ opens # 0
      /\ UNCHANGED <<box, known, hasId, handler, aborting, opens, errors, cur>>
  BY RequestDrives
<1>2. /\ path' = (IF Route(cur, n) = <<>> THEN <<>> ELSE Tail(Route(cur, n)))
      /\ cur \in Nodes
  BY DEF Request, FSMGoto, SessionInv, TypeOK
<1>3. Settled'
  <2> SUFFICES ASSUME path' = <<>> PROVE cur \in Checkpoints \cup {112}
    BY <1>1 DEF MediaInv, Settled
  <2>1. n \in Nodes  BY NodesAre
  <2>2. Route(cur, n) = <<>>  BY <1>2, <2>1, TailIs
  <2> QED  BY <1>2, <2>2, NoRoute
<1>4. Listed => Listed'  BY <1>1 DEF Listed, Unqueried, Bare, Synced
<1> QED  BY <1>1, <1>3, <1>4 DEF MediaInv

LEMMA OpenListed ==
    ASSUME SessionInv, MediaInv, Plain, Open
    PROVE  MediaInv'
<1>1. /\ opens = 0 /\ aborting' = FALSE /\ FSMGoto(101)
      /\ UNCHANGED <<box, known, hasId, handler, errors>>
  BY DEF Open, Plain, healing
<1>2. cur = 1 /\ path = <<>> /\ handler = 0  BY <1>1 DEF SessionInv, Basics
<1>3. cur' = 1 /\ path' # <<>>
  <2>0. Route(1, 101) = <<1, 100, 101>>  BY RouteAssumption
  <2>1. Route(1, 101) # <<>> /\ 1 \in Nodes /\ 101 \in Nodes  BY <2>0 DEF Nodes
  <2>2. Tail(Route(1, 101)) # <<>>  BY <2>1, TailIs
  <2> QED  BY <1>1, <1>2, <2>1, <2>2 DEF FSMGoto
<1>4. Settled' /\ Listed'  BY <1>3 DEF Settled, Listed, Unqueried
<1> QED  BY <1>1, <1>4 DEF MediaInv

\* update() knows where it is: without a log to go by there is no machine that it knew of.
LEMMA UpdateListed ==
    ASSUME SessionInv, MediaInv, Queried, Update
    PROVE  MediaInv'
<1>1. /\ opens # 0 /\ ~aborting /\ path = <<>> /\ handler = 0 /\ LogState = box.state
      /\ FSMSkew(NodeOf(LogState)) /\ (LogState # "none" \/ known = {})
      /\ UNCHANGED <<box, known, hasId, handler, errors>>
  BY QueriedIsPlain DEF Update, Plain, life, healing, SessionInv, TypeOK
<1>2. /\ box \in Machines /\ box.state # "stuck" /\ (~hasId => known = {})
  BY MediaHeld
<1>3. box.state \in States  BY <1>2, MachineIs
<1>4. NodeOf(box.state) \in Checkpoints /\ StateOf[NodeOf(box.state)] = box.state  BY <1>3, StatesAre
<1>5. cur' = NodeOf(box.state)  BY <1>1 DEF FSMSkew
<1>6. cur' = 3 <=> box.state = "none"  BY <1>4, <1>5 DEF StateOf, Checkpoints
<1>7. ASSUME errors <= SESSION_HEAL_TRIES, box.state # "none" PROVE Synced(box, known)
  <2>1. cur \in Checkpoints \cup {112} /\ (cur = 112 => errors > SESSION_HEAL_TRIES) /\ Listed
    BY <1>1, <1>7 DEF MediaInv, Settled
  <2>2. cur \in Checkpoints
    <3>1. errors \in Nat  BY MediaHeld DEF TypeOK
    <3> QED  BY <1>7, <2>1, <3>1 DEF SESSION_HEAL_TRIES
  <2>3. cur # 3
    <3> SUFFICES ASSUME cur = 3 PROVE FALSE  OBVIOUS
    <3>1. known = {}  BY <1>1, <2>1 DEF Listed, Unqueried, Bare
    <3>2. LogState = "none"  BY <3>1 DEF LogState, LogIsThere
    <3> QED  BY <1>1, <1>7, <3>2
  <2> QED  BY <1>1, <2>1, <2>2, <2>3 DEF Listed, Unqueried, Bare, Checkpoints
<1>8. errors <= SESSION_HEAL_TRIES => IF cur' = 3 THEN known = {} ELSE Synced(box, known)
  BY <1>1, <1>6, <1>7
<1> QED  BY <1>1, <1>2, <1>4, <1>5, <1>8, CheckpointListed

LEMMA StepListed ==
    ASSUME SessionInv, Queried, MediaInv, [Next]_vars
    PROVE  MediaInv'
<1>0. Plain  BY QueriedIsPlain
<1>1. CASE Continue  BY <1>1, ContinueListed
<1>2. CASE HandlerStep
  <2>1. CASE AbortedHandler
    BY <2>1 DEF AbortedHandler, life, MediaInv
  <2> QED
    BY <1>2, <2>1, EmptyListed, UpdateSessionListed, CreateListed, SimpleListed, MediaListed, StartListed,
       CheckListed, ReleaseListed, DestroyListed
    DEF HandlerStep
<1>3. CASE Open  BY <1>0, <1>3, OpenListed
<1>4. CASE Close \/ Stop \/ Hibernate \/ Pause \/ Resume \/ Start
  <2>1. PICK n \in Checkpoints : Request(n)
    BY <1>4, CheckpointIs DEF Close, Stop, Hibernate, Pause, Resume, Start
  <2> QED  BY <1>0, <2>1, RequestListed
<1>5. CASE Update  BY <1>5, UpdateListed
<1>6. CASE Abort \/ ThreadStops
  BY <1>6 DEF Abort, ThreadStops, MediaInv
<1>7. CASE ExternalChange  BY <1>7, ExternalListed
<1>8. CASE TimePasses \/ CacheExpires \/ UNCHANGED vars
  <2>1. UNCHANGED <<box, known, hasId, cur, path, handler, errors, opens, aborting>>
    BY <1>8 DEF TimePasses, CacheExpires, vars, engine, life, healing
  <2>2. Settled => Settled'  BY <2>1 DEF Settled
  <2>3. Listed => Listed'  BY <2>1 DEF Listed, Unqueried, Bare, Synced
  <2> QED  BY <2>1, <2>2, <2>3 DEF MediaInv
<1> QED  BY <1>1, <1>2, <1>3, <1>4, <1>5, <1>6, <1>7, <1>8 DEF Next, ClientCall

LEMMA StartsListed ==
    ASSUME Init
    PROVE  MediaInv
<1>1. cur = 1 /\ opens = 0 /\ handler = 0  BY DEF Init
<1>2. Settled /\ Listed  BY <1>1 DEF Settled, Listed, Unqueried
<1>3. box.state # "stuck" /\ (~hasId => known = {})
  <2>1. CASE box = NoMachine /\ known = {}  BY <2>1, NoMachineIs
  <2>2. ASSUME hasId = TRUE, NEW s \in States,
               box = (IF s = "none" THEN NoMachine ELSE [state |-> s, parts |-> Parts, log |-> s])
        PROVE  box.state # "stuck" /\ (~hasId => known = {})
    <3>1. s # "stuck"  BY StatesAre
    <3> QED  BY <2>2, <3>1, NoMachineIs
  <2> QED  BY <2>1, <2>2 DEF Init
<1> QED  BY <1>2, <1>3 DEF MediaInv

\* The session's list of the boot and the scratch medium is the machine's everywhere but on the
\* way to a query, while the machine is taken apart, and after the sink.
THEOREM AlwaysListed ==
    ASSUME Queried
    PROVE  Spec => [](SessionInv /\ MediaInv)
<1>1. Plain  BY QueriedIsPlain
<1>2. Init => SessionInv /\ MediaInv  BY StartsRight, StartsListed
<1>3. SessionInv /\ MediaInv /\ [Next]_vars => SessionInv' /\ MediaInv'
  BY <1>1, StepKeeps, StepListed
<1> QED  BY <1>2, <1>3, PTL DEF Spec

\* When ConfigureVMBoot and ConfigureVMScratch run on a machine that is off, what they go by is
\* what the machine has: no failed mount, no healing and no release leaves the list behind.
THEOREM MediaAreKnown ==
    ASSUME Queried
    PROVE  Spec => []KnowsItsMedia
<1>1. SessionInv /\ MediaInv => KnowsItsMedia
  <2> SUFFICES ASSUME SessionInv, MediaInv, handler \in {203, 204}, ~aborting, errors <= SESSION_HEAL_TRIES,
                      box.state = "poweroff"
               PROVE  known \cap {"boot", "scratch"} = box.parts \cap {"boot", "scratch"}
    BY DEF KnowsItsMedia
  <2>1. handler # 0 /\ handler # 104 /\ handler \notin {100, 101, 102, 103, 105, 207, 208}  OBVIOUS
  <2>2. Synced(box, known)  BY <2>1, ListedBefore
  <2> QED  BY <2>2 DEF Synced, Disks
<1> QED  BY <1>1, AlwaysListed, PTL

(***************************************************************************)
(* One fault is healed.                                                    *)
(***************************************************************************)
\* A machine to which the media can be attached, or none.
Fitted(b) == b.state = "none" \/ "controllers" \in b.parts
\* The sink is entered by a jump, never by a path, not even by an aborting session's rest of one.
NoSinkAhead == \A i \in 1..Len(path) : path[i] # 112

\* Before anything has failed there are no errors, and the machine has been seen by the time that
\* a handler depends on its state; after one fault there has been no error yet, or the last ones
\* are within the tries and the machine is seen again before the next handler that depends on it.
HealInv ==
    /\ cur = 112 => faults > 1
    /\ aborting => NoSinkAhead
    /\ faults <= 1 => Fitted(box)
    /\ ~aborting /\ faults = 0 => errors = 0 /\ (~blind \/ cur \in {1, 100} \/ handler = 101)
    /\ ~aborting /\ faults = 1 =>
           \/ errors = 0
           \/ errors <= SESSION_HEAL_TRIES /\ (~blind \/ cur \in {2, 102, 103} \/ handler = 101)

LEMMA NoSinkOnTheWay ==
    ASSUME SessionInv, ~aborting
    PROVE  NoSinkAhead
<1> SUFFICES ASSUME NEW i \in 1..Len(path), path[i] = 112 PROVE FALSE  BY DEF NoSinkAhead
<1>1. path \in Seq(Nodes) /\ Driving  BY DEF SessionInv, TypeOK
<1>2. Len(path) \in Nat /\ path # <<>>  BY <1>1
<1>3. Linked(path) /\ path[Len(path)] = target /\ target \in Checkpoints \cup {101}
  BY <1>1, <1>2 DEF Driving, OnItsWay
<1>4. i # Len(path)  BY <1>3 DEF Checkpoints
<1>5. i \in 1..(Len(path) - 1)  BY <1>2, <1>4
<1>6. path[i + 1] \in LinkedTo(112)  BY <1>3, <1>5 DEF Linked
<1> QED  BY <1>6, HandlersLinkTo

LEMMA HealHeld ==
    ASSUME SessionInv
    PROVE  faults \in Nat /\ errors \in Nat /\ blind \in BOOLEAN
  BY SessionIs DEF TypeOK

LEMMA CountedFirst ==
    ASSUME errors = 0, NEW n \in {1, 2}
    PROVE  Counted(n) <= SESSION_HEAL_TRIES /\ Counted(n) \in Nat
<1> DEFINE m == (IF recent THEN errors ELSE 0) + n
<1>1. MostErrors = 3 /\ m = n /\ SESSION_HEAL_TRIES = 2  BY DEF MostErrors, SESSION_HEAL_TRIES
<1>2. Counted(n) = Min({MostErrors, m})  BY DEF Counted
<1> HIDE DEF m
<1>3. {MostErrors, m} \in SUBSET Nat /\ {MostErrors, m} # {}  BY <1>1
<1>4. Min({MostErrors, m}) \in {MostErrors, m} /\ Min({MostErrors, m}) <= m  BY <1>3, MinIs
<1> QED  BY <1>1, <1>2, <1>3, <1>4

LEMMA ErrorHeals ==
    ASSUME SessionInv, MediaInv, HealInv, ~aborting, ~aborting', handler \notin {0, 100, 101, 102, 103},
           handler' = 0, NEW n \in {1, 2}, NEW b \in Machines, NEW parts, NEW cost \in Nat,
           ErrorsOccured(n, b, parts, cost),
           faults <= 1 /\ ~blind => cost > 0,
           faults + cost <= 1 => Fitted(b)
    PROVE  HealInv'
<1>1. faults \in Nat /\ blind \in BOOLEAN /\ cur = handler /\ handler \notin {1, 2}
  <2>1. cur = handler /\ handler \in Handlers  BY ListedBefore
  <2> QED  BY <2>1, HealHeld, NodesAre
<1>2. CASE faults + cost > 1
  <2>1. faults' \in Nat /\ faults' > 1
    <3>1. CASE FatalErrorSink(b, parts, cost)
      <4>1. PICK r \in Unregister(b) : Pays(cost + r.fault)  BY <3>1 DEF FatalErrorSink
      <4>2. r.fault \in {0, 1}  BY <4>1, UnregisterIs
      <4> QED  BY <1>1, <1>2, <4>1, <4>2 DEF Pays
    <3>2. CASE Pays(cost)  BY <1>1, <1>2, <3>2 DEF Pays
    <3> QED  BY <3>1, <3>2 DEF ErrorsOccured
  <2> QED  BY <2>1 DEF HealInv
<1>3. CASE ~(faults + cost > 1)
  <2>1. faults \in {0, 1} /\ cost \in {0, 1} /\ faults + cost <= 1  BY <1>1, <1>3
  <2>2. errors = 0 /\ (faults = 0 => cost = 1)
    <3>1. CASE faults = 0  BY <1>1, <2>1, <3>1 DEF HealInv
    <3>2. CASE faults = 1
      <4>1. blind  BY <1>1, <2>1, <3>2
      <4> QED  BY <1>1, <3>2, <4>1 DEF HealInv
    <3> QED  BY <2>1, <3>1, <3>2
  <2>3. Counted(n) <= SESSION_HEAL_TRIES /\ Counted(n) \in Nat  BY <2>2, CountedFirst
  <2>4. cur' = 2 /\ box' = b /\ Pays(cost) /\ errors' <= SESSION_HEAL_TRIES
    BY <2>3 DEF ErrorsOccured, FSMSkew, SESSION_HEAL_TRIES
  <2>5. faults' = 1  BY <2>1, <2>2, <2>4 DEF Pays
  <2> QED  BY <2>1, <2>4, <2>5 DEF HealInv
<1> QED  BY <1>2, <1>3

LEMMA ErrorHeals1 ==
    ASSUME SessionInv, MediaInv, HealInv, ~aborting, ~aborting', handler \notin {0, 100, 101, 102, 103},
           handler' = 0, NEW b \in Machines, NEW parts, NEW cost \in Nat,
           ErrorOccured(b, parts, cost),
           faults <= 1 /\ ~blind => cost > 0,
           faults + cost <= 1 => Fitted(b)
    PROVE  HealInv'
<1>1. ErrorsOccured(1, b, parts, cost) /\ 1 \in {1, 2}  BY Zenon DEF ErrorOccured
<1> QED  BY <1>1, ErrorHeals

LEMMA EndHeals ==
    ASSUME SessionInv, MediaInv, HealInv, ~aborting, ~aborting', handler \notin {0, 101},
           handler' = 0, NEW b, NEW parts, NEW cost \in Nat,
           Completes(b, parts, cost) \/ Created(b, parts, cost),
           faults + cost <= 1 => Fitted(b)
    PROVE  HealInv'
<1>1. box' = b /\ cur' = cur /\ errors' = errors /\ blind' = blind /\ Pays(cost)
  BY DEF Completes, Created, engine, healing
<1>2. faults' = faults + cost /\ faults \in Nat /\ cur # 112
  BY <1>1, HealHeld, ListedBefore DEF Pays
<1>3. faults' <= 1 => Fitted(box')  BY <1>1, <1>2
<1>4. faults' = 0 => faults = 0 /\ cost = 0  BY <1>2
<1>5. faults' = 1 => faults = 0 \/ faults = 1  BY <1>2
<1> QED  BY <1>1, <1>2, <1>3, <1>4, <1>5 DEF HealInv

LEMMA EmptyHeals ==
    ASSUME SessionInv, MediaInv, HealInv, EmptyHandler
    PROVE  HealInv'
<1>1. PICK n \in {100, 102, 103, 108} : Runs(n)  BY DEF EmptyHandler
<1>2. handler = n /\ ~aborting /\ handler' = 0 /\ ~aborting' /\ Completes(box, known, 0)
  BY <1>1 DEF EmptyHandler, Runs, life
<1>3. handler \notin {0, 101} /\ 0 \in Nat  BY <1>2
<1>4. faults + 0 <= 1 => Fitted(box)  BY HealHeld DEF HealInv
<1> QED  BY <1>2, <1>3, <1>4, EndHeals

LEMMA CommandHeals ==
    ASSUME SessionInv, MediaInv, HealInv, NEW n \in {106, 107, 109, 110, 111, 201, 202, 210}, NEW fits \in BOOLEAN,
           NEW after \in Machines, fits /\ Fitted(box) => Fitted(after),
           box.state \in Finds(n) => fits,
           Handler(n, Command(box, fits, after))
    PROVE  HealInv'
<1>1. handler = n /\ ~aborting /\ handler' = 0 /\ ~aborting'  BY DEF Handler, Runs, life
<1>2. PICK r \in Command(box, fits, after) : \/ r.ok /\ Completes(r.box, known, r.fault)
                                             \/ ~r.ok /\ ErrorOccured(r.box, known, r.fault)
  BY DEF Handler
<1>3. /\ r.box \in {box, after} /\ (r.box # box => fits) /\ r.fault \in {0, 1}
      /\ ~r.ok => r.fault = (IF fits THEN 1 ELSE 0)
  BY <1>2, CommandIs, CommandPays
<1>4. r.box \in Machines /\ r.fault \in Nat  BY <1>3, MediaHeld
<1>5. faults + r.fault <= 1 => Fitted(r.box)
  <2>1. faults + r.fault <= 1 => faults <= 1  BY <1>3, HealHeld
  <2> QED  BY <1>3, <2>1 DEF HealInv
<1>6. handler \notin {0, 101} /\ handler \notin {0, 100, 101, 102, 103}  BY <1>1
<1>7. CASE r.ok /\ Completes(r.box, known, r.fault)
  BY <1>1, <1>4, <1>5, <1>6, <1>7, EndHeals
<1>8. CASE ~r.ok /\ ErrorOccured(r.box, known, r.fault)
  <2>1. ~blind => r.fault > 0
    <3>1. ~blind => box.state \in Finds(n)  BY <1>1, <1>6, SessionIs
    <3> QED  BY <1>3, <1>8, <3>1
  <2> QED  BY <1>1, <1>4, <1>5, <1>6, <1>8, <2>1, ErrorHeals1
<1> QED  BY <1>2, <1>7, <1>8

LEMMA ControlHeals ==
    ASSUME SessionInv, MediaInv, HealInv, NEW n \in {106, 109, 110, 111}, NEW from, "none" \notin from,
           Finds(n) \subseteq from, NEW to \in States \ {"none"}, Control(n, from, to)
    PROVE  HealInv'
<1> DEFINE fits == box.state \in from
           after == Becomes(box, to)
<1>1. fits \in BOOLEAN /\ (box.state \in Finds(n) => fits) /\ (fits => box.state # "none")  OBVIOUS
<1>2. Handler(n, Command(box, fits, after))  BY Zenon DEF Control
<1>3. after \in Machines /\ after.state = to  BY MediaHeld, BecomesIs
<1>4. after.parts = box.parts  BY MediaHeld, MachineIs DEF Becomes
<1> HIDE DEF fits, after
<1>5. fits /\ Fitted(box) => Fitted(after)  BY <1>1, <1>4 DEF Fitted
<1> QED  BY <1>1, <1>2, <1>3, <1>5, CommandHeals

LEMMA SimpleHeals ==
    ASSUME SessionInv, MediaInv, HealInv,
           \/ ConfigNetwork \/ DownloadMedia \/ ConfigureVM \/ PauseVM \/ ResumeVM \/ SaveVMState
           \/ PoweroffVM \/ DiscardVMState
    PROVE  HealInv'
<1>0. box \in Machines  BY MediaHeld
<1>1. {"paused", "running", "saved", "poweroff"} \subseteq States \ {"none"}  BY StatesAre
<1>2. CASE ConfigNetwork \/ DownloadMedia \/ ConfigureVM
  <2>1. PICK n \in {210, 202, 201}, fits \in BOOLEAN :
            /\ Handler(n, Command(box, fits, box))
            /\ box.state \in Finds(n) => fits
    <3>1. CASE ConfigNetwork \/ DownloadMedia
      BY <3>1, Zenon DEF ConfigNetwork, DownloadMedia, Work
    <3>2. CASE ConfigureVM
      <4> DEFINE fits == box.state = "poweroff"
      <4>1. fits \in BOOLEAN /\ Handler(201, Command(box, fits, box))  BY <3>2, Zenon DEF ConfigureVM
      <4>2. box.state \in Finds(201) => fits  BY DEF Finds
      <4> HIDE DEF fits
      <4> QED  BY <4>1, <4>2
    <3> QED  BY <1>2, <3>1, <3>2
  <2>2. n \in {106, 107, 109, 110, 111, 201, 202, 210}  OBVIOUS
  <2> QED  BY <1>0, <2>1, <2>2, CommandHeals
<1>3. CASE PauseVM
  <2>1. Finds(110) \subseteq {"running"}  BY DEF Finds
  <2> QED  BY <1>1, <1>3, <2>1, ControlHeals DEF PauseVM
<1>4. CASE ResumeVM
  <2>1. Finds(111) \subseteq {"paused"}  BY DEF Finds
  <2> QED  BY <1>1, <1>4, <2>1, ControlHeals DEF ResumeVM
<1>5. CASE SaveVMState
  <2>1. Finds(109) \subseteq {"running", "paused"}  BY DEF Finds
  <2> QED  BY <1>1, <1>5, <2>1, ControlHeals DEF SaveVMState
<1>6. CASE PoweroffVM
  <2>1. Finds(106) \subseteq {"running", "paused", "stuck"}  BY DEF Finds
  <2> QED  BY <1>1, <1>6, <2>1, ControlHeals DEF PoweroffVM
<1>7. CASE DiscardVMState
  <2> DEFINE fits == box.state = "saved"
             off == [box EXCEPT !.state = "poweroff"]
  <2>1. fits \in BOOLEAN /\ Handler(107, Command(box, fits, off))  BY <1>7, Zenon DEF DiscardVMState
  <2>2. off \in Machines /\ off.state = "poweroff"  BY <1>0, <1>1, OtherState
  <2>3. off.parts = box.parts  BY <1>0, MachineIs
  <2>4. fits => box.state # "none"  OBVIOUS
  <2>5. box.state \in Finds(107) => fits  BY DEF Finds
  <2> HIDE DEF fits, off
  <2>6. fits /\ Fitted(box) => Fitted(off)  BY <2>3, <2>4 DEF Fitted
  <2> QED  BY <2>1, <2>2, <2>5, <2>6, CommandHeals
<1> QED  BY <1>2, <1>3, <1>4, <1>5, <1>6, <1>7

\* What is common to the ends of the handlers that mount and release.
LEMMA MountHeals ==
    ASSUME SessionInv, MediaInv, HealInv, ~aborting, ~aborting', handler \in {203, 204, 205}, handler' = 0,
           NEW b \in Machines, b.state = box.state, NEW parts, NEW cost \in Nat, NEW ok \in BOOLEAN,
           "controllers" \in box.parts => "controllers" \in b.parts,
           ~ok /\ box.state = "poweroff" /\ "controllers" \in box.parts => cost > 0,
           \/ ok /\ Completes(b, parts, cost)
           \/ ~ok /\ ErrorOccured(b, parts, cost)
    PROVE  HealInv'
<1>1. handler \notin {0, 101} /\ handler \notin {0, 100, 101, 102, 103}  OBVIOUS
<1>2. faults <= 1 => Fitted(box)  BY DEF HealInv
<1>3. faults + cost <= 1 => Fitted(b)
  <2>1. faults + cost <= 1 => faults <= 1  BY HealHeld
  <2> QED  BY <1>2, <2>1 DEF Fitted
<1>4. CASE ok /\ Completes(b, parts, cost)  BY <1>1, <1>3, <1>4, EndHeals
<1>5. CASE ~ok /\ ErrorOccured(b, parts, cost)
  <2>1. faults <= 1 /\ ~blind => cost > 0
    <3>1. ~blind => box.state \in Finds(handler)  BY <1>1, SessionIs
    <3>2. ~blind => box.state = "poweroff"  BY <3>1 DEF Finds
    <3> QED  BY <1>2, <1>5, <3>2 DEF Fitted
  <2> QED  BY <1>1, <1>3, <1>5, <2>1, ErrorHeals1
<1> QED  BY <1>4, <1>5

LEMMA AttachHeals ==
    ASSUME SessionInv, MediaInv, HealInv, ~aborting, ~aborting', handler \in {203, 204, 205}, handler' = 0,
           NEW b \in Machines, b.state = box.state, "controllers" \in box.parts => "controllers" \in b.parts,
           NEW medium \in Media, NEW a, a \in Attach(b, medium) \/ a \in Detach(b, medium),
           NEW more, NEW less,
           \/ a.ok /\ Completes(a.box, more, a.fault)
           \/ ~a.ok /\ ErrorOccured(a.box, less, a.fault)
    PROVE  HealInv'
<1>1. a.box \in Machines /\ a.box.state = b.state /\ a.fault \in Nat /\ a.ok \in BOOLEAN  BY MountIs
<1>2. /\ "controllers" \in b.parts => "controllers" \in a.box.parts
      /\ ~a.ok /\ b.state = "poweroff" /\ "controllers" \in b.parts => a.fault = 1
  BY Mounted, Dismounted
<1> QED  BY <1>1, <1>2, MountHeals

LEMMA MediaHeals ==
    ASSUME SessionInv, MediaInv, HealInv, ConfigureVMBoot \/ ConfigureVMScratch \/ ConfigureVMAPI
    PROVE  HealInv'
<1>0. Media = {"boot", "scratch", "context"}  BY DEF Media
<1>1. handler \in {203, 204, 205} /\ ~aborting /\ handler' = 0 /\ ~aborting'
  BY DEF ConfigureVMBoot, ConfigureVMScratch, ConfigureVMAPI, Runs, life
<1>2. box \in Machines  BY MediaHeld
<1>3. ASSUME NEW medium \in Media, Mounts(medium) PROVE HealInv'
  BY <1>1, <1>2, <1>3, AttachHeals DEF Mounts
<1>4. ASSUME Completes(box, known, 0) PROVE HealInv'
  BY <1>1, <1>2, <1>4, MountHeals
<1>5. ASSUME NEW b \in Machines, b.state = box.state, "controllers" \in box.parts => "controllers" \in b.parts,
             NEW parts, ErrorOccured(b, parts, 1)
      PROVE  HealInv'
  <2> DEFINE ok == FALSE
             cost == 1
  <2>1. ok \in BOOLEAN /\ cost \in Nat /\ cost > 0 /\ ~ok /\ ErrorOccured(b, parts, cost)  BY <1>5
  <2> HIDE DEF ok, cost
  <2> QED  BY <1>1, <1>5, <2>1, MountHeals
<1>6. CASE ConfigureVMBoot
  <2>1. ASSUME NEW r \in Detach(box, "boot"),
               \/ ~r.ok /\ ErrorOccured(r.box, known, r.fault)
               \/ /\ r.ok
                  /\ \E a \in Attach(r.box, "boot") :
                        \/ a.ok /\ Completes(a.box, known, a.fault)
                        \/ ~a.ok /\ ErrorOccured(a.box, known \ {"boot"}, a.fault)
        PROVE  HealInv'
    <3>1. r.box \in Machines /\ r.box.state = box.state  BY <1>0, <1>2, <2>1, MountIs
    <3>2. "controllers" \in box.parts => "controllers" \in r.box.parts
      BY <1>0, <1>2, <2>1, Dismounted
    <3>3. CASE ~r.ok /\ ErrorOccured(r.box, known, r.fault)
      BY <1>0, <1>1, <1>2, <2>1, <3>3, AttachHeals
    <3>4. ASSUME NEW a \in Attach(r.box, "boot"),
                 \/ a.ok /\ Completes(a.box, known, a.fault)
                 \/ ~a.ok /\ ErrorOccured(a.box, known \ {"boot"}, a.fault)
          PROVE  HealInv'
      BY <1>0, <1>1, <3>1, <3>2, <3>4, AttachHeals
    <3> QED  BY <2>1, <3>3, <3>4
  <2> QED  BY <1>0, <1>3, <1>4, <1>6, <2>1 DEF ConfigureVMBoot
<1>7. CASE ConfigureVMScratch
  BY <1>0, <1>2, <1>3, <1>4, <1>5, <1>7 DEF ConfigureVMScratch
<1>8. CASE ConfigureVMAPI
  <2>1. PICK r \in IF "context" \in known THEN Detach(box, "context") ELSE Nothing(box) :
            \/ ~r.ok /\ ErrorOccured(r.box, known, r.fault)
            \/ r.ok /\ ErrorOccured(r.box, known \ {"context"}, 1)
            \/ /\ r.ok
               /\ \E a \in Attach(r.box, "context") :
                     \/ a.ok /\ Completes(a.box, known \cup {"context"}, a.fault)
                     \/ ~a.ok /\ ErrorOccured(a.box, known \ {"context"}, a.fault)
    BY <1>8 DEF ConfigureVMAPI
  <2>2. /\ r.box \in Machines /\ r.box.state = box.state
        /\ "controllers" \in box.parts => "controllers" \in r.box.parts
        /\ r.ok \/ r \in Detach(box, "context")
    <3>1. CASE "context" \in known  BY <1>0, <1>2, <2>1, <3>1, MountIs, Dismounted
    <3>2. CASE "context" \notin known
      <4>1. r = [box |-> box, ok |-> TRUE, fault |-> 0]  BY <2>1, <3>2 DEF Nothing
      <4> QED  BY <1>2, <4>1
    <3> QED  BY <3>1, <3>2
  <2>3. CASE ~r.ok /\ ErrorOccured(r.box, known, r.fault)
    BY <1>0, <1>1, <1>2, <2>2, <2>3, AttachHeals
  <2>4. CASE ErrorOccured(r.box, known \ {"context"}, 1)
    BY <1>5, <2>2, <2>4
  <2>5. ASSUME NEW a \in Attach(r.box, "context"),
               \/ a.ok /\ Completes(a.box, known \cup {"context"}, a.fault)
               \/ ~a.ok /\ ErrorOccured(a.box, known \ {"context"}, a.fault)
        PROVE  HealInv'
    BY <1>0, <1>1, <2>2, <2>5, AttachHeals
  <2> QED  BY <2>1, <2>3, <2>4, <2>5
<1> QED  BY <1>6, <1>7, <1>8

LEMMA ReleaseHeals ==
    ASSUME SessionInv, MediaInv, HealInv, ReleaseVMScratch \/ ReleaseVMBoot \/ ReleaseVMAPI
    PROVE  HealInv'
<1>1. PICK medium \in Media, n \in {105, 207, 209} : Release(n, medium)
  BY DEF ReleaseVMScratch, ReleaseVMBoot, ReleaseVMAPI, Media
<1>2. handler = n /\ ~aborting /\ handler' = 0 /\ ~aborting'  BY <1>1 DEF Release, Runs, life
<1>3. handler \notin {0, 101} /\ box \in Machines  BY <1>2, MediaHeld
<1>4. faults <= 1 => Fitted(box)  BY DEF HealInv
<1>5. CASE Completes(box, known, 0)
  <2>1. faults + 0 <= 1 => Fitted(box)  BY <1>4, HealHeld
  <2> QED  BY <1>2, <1>3, <1>5, <2>1, EndHeals
<1>6. ASSUME NEW r \in Detach(box, medium), NEW parts, Completes(r.box, parts, r.fault)
      PROVE  HealInv'
  <2>1. r.fault \in {0, 1} /\ r.box.state = box.state  BY <1>3, <1>6, MountIs
  <2>2. "controllers" \in box.parts => "controllers" \in r.box.parts  BY <1>3, <1>6, Dismounted
  <2>3. faults + r.fault <= 1 => faults <= 1  BY <2>1, HealHeld
  <2>4. faults + r.fault <= 1 => Fitted(r.box)  BY <1>4, <2>1, <2>2, <2>3 DEF Fitted
  <2>5. r.fault \in Nat  BY <2>1
  <2> QED  BY <1>2, <1>3, <1>6, <2>4, <2>5, EndHeals
<1> QED  BY <1>1, <1>5, <1>6 DEF Release

LEMMA UnregisterPays ==
    ASSUME NEW b, NEW r \in Unregister(b), b.state \in {"poweroff", "saved"}, ~r.ok
    PROVE  r.fault = 1
<1> DEFINE fits == b.state \in {"poweroff", "saved"}
<1>1. fits \in BOOLEAN /\ fits /\ r \in Command(b, fits, NoMachine)  BY Zenon DEF Unregister
<1> HIDE DEF fits
<1> QED  BY <1>1, CommandPays

LEMMA NoneFitted == Fitted(NoMachine)
  BY NoMachineIs DEF Fitted

LEMMA DestroyHeals ==
    ASSUME SessionInv, MediaInv, HealInv, DestroyVM
    PROVE  HealInv'
<1>1. handler = 208 /\ ~aborting /\ handler' = 0 /\ ~aborting'  BY DEF DestroyVM, Runs, life
<1>2. handler \notin {0, 101} /\ handler \notin {0, 100, 101, 102, 103} /\ handler # 0  BY <1>1
<1>3. PICK r \in Unregister(box) : \/ r.ok /\ Completes(r.box, {}, r.fault)
                                   \/ ~r.ok /\ ErrorsOccured(2, r.box, known, r.fault)
  BY DEF DestroyVM
<1>4. r.box \in {box, NoMachine} /\ r.box \in Machines /\ r.fault \in {0, 1}
  BY <1>3, MediaHeld, UnregisterIs
<1>5. r.fault \in Nat /\ (faults + r.fault <= 1 => Fitted(r.box))
  <2>1. faults + r.fault <= 1 => faults <= 1  BY <1>4, HealHeld
  <2> QED  BY <1>4, <2>1, NoneFitted DEF HealInv
<1>6. CASE Completes(r.box, {}, r.fault)
  BY <1>1, <1>2, <1>5, <1>6, EndHeals
<1>7. CASE ~r.ok /\ ErrorsOccured(2, r.box, known, r.fault)
  <2>1. ~blind => r.fault > 0
    <3>1. ~blind => box.state = "poweroff"
      <4>1. ~blind => box.state \in Finds(handler)  BY <1>1, <1>2, SessionIs
      <4> QED  BY <1>1, <4>1 DEF Finds
    <3>2. ~blind => r.fault = 1  BY <1>3, <1>7, <3>1, UnregisterPays
    <3> QED  BY <3>2
  <2>2. 2 \in {1, 2}  OBVIOUS
  <2> QED  BY <1>1, <1>2, <1>4, <1>5, <1>7, <2>1, <2>2, ErrorHeals
<1> QED  BY <1>3, <1>6, <1>7

LEMMA StartHeals ==
    ASSUME SessionInv, MediaInv, HealInv, StartVM
    PROVE  HealInv'
<1>1. handler = 206 /\ ~aborting /\ handler' = 0 /\ ~aborting'  BY DEF StartVM, Runs, life
<1>2. handler \notin {0, 101} /\ handler \notin {0, 100, 101, 102, 103} /\ handler # 0  BY <1>1
<1> DEFINE fits == box.state \in {"poweroff", "saved"}
           on == Becomes(box, "running")
<1>3. PICK r \in Command(box, fits, on) :
          \/ ~r.ok /\ ErrorOccured(r.box, known, r.fault)
          \/ r.ok /\ \E i \in MachineInfo(r.box, hasId) :
                        Completes(r.box, IF i.ok THEN i.info.parts ELSE known, i.fault)
  BY DEF StartVM
<1>4. fits \in BOOLEAN /\ (fits => box.state # "none")  OBVIOUS
<1>5. on \in Machines /\ on.parts = box.parts
  <2>1. "running" \in States  BY StatesAre
  <2>2. on \in Machines  BY <2>1, MediaHeld, BecomesIs, Zenon
  <2>3. on.parts = box.parts  BY MediaHeld, MachineIs DEF Becomes
  <2> QED  BY <2>2, <2>3
<1>6. ~blind => fits
  <2>1. ~blind => box.state \in Finds(handler)  BY <1>1, <1>2, SessionIs
  <2> QED  BY <1>1, <2>1 DEF Finds
<1> HIDE DEF fits, on
<1>7. /\ r.box \in {box, on} /\ (r.box # box => fits) /\ r.fault \in {0, 1}
      /\ ~r.ok => r.fault = (IF fits THEN 1 ELSE 0)
  BY <1>3, <1>4, CommandIs, CommandPays
<1>8. r.box \in Machines /\ (faults <= 1 => Fitted(r.box))
  BY <1>4, <1>5, <1>7, MediaHeld DEF Fitted, HealInv
<1>9. CASE ~r.ok /\ ErrorOccured(r.box, known, r.fault)
  <2>1. ~blind => r.fault > 0  BY <1>6, <1>7, <1>9
  <2>2. r.fault \in Nat /\ (faults + r.fault <= 1 => Fitted(r.box))  BY <1>7, <1>8, HealHeld
  <2> QED  BY <1>1, <1>2, <1>8, <1>9, <2>1, <2>2, ErrorHeals1
<1>10. ASSUME NEW cost \in {0, 1}, NEW parts, Completes(r.box, parts, cost) PROVE HealInv'
  <2>1. cost \in Nat /\ (faults + cost <= 1 => Fitted(r.box))  BY <1>8, HealHeld
  <2> QED  BY <1>1, <1>2, <1>10, <2>1, EndHeals
<1>11. ASSUME NEW i \in MachineInfo(r.box, hasId),
              Completes(r.box, IF i.ok THEN i.info.parts ELSE known, i.fault)
       PROVE  HealInv'
  <2>1. i.fault \in {0, 1}  BY <1>8, <1>11, MediaHeld, InfoIs
  <2> QED  BY <1>10, <1>11, <2>1
<1> QED  BY <1>3, <1>9, <1>11

\* The controllers are added to a machine that has none, or are there already.
LEMMA ControllersHeal ==
    ASSUME SessionInv, MediaInv, HealInv, ~aborting, ~aborting', handler = 104, handler' = 0,
           NEW b \in Machines, NEW parts, NEW cost \in {0, 1},
           faults + cost <= 1 =>
               \/ "controllers" \in parts /\ Fitted(b)
               \/ b.state = "poweroff" /\ "controllers" \notin b.parts /\ "controllers" \notin parts,
           AddControllers(b, parts, cost)
    PROVE  HealInv'
<1>1. handler \notin {0, 101} /\ handler \notin {0, 100, 101, 102, 103}  OBVIOUS
<1>2. faults \in Nat  BY HealHeld
<1>3. CASE "controllers" \in parts
  <2>1. Created(b, parts, cost) /\ cost \in Nat  BY <1>3 DEF AddControllers
  <2>2. faults + cost <= 1 => Fitted(b)  BY <1>3
  <2> QED  BY <1>1, <2>1, <2>2, EndHeals
<1>4. CASE "controllers" \notin parts
  <2> DEFINE fits == b.state = "poweroff" /\ "controllers" \notin b.parts
             p == b.parts \cup {"controllers"}
             more == [b EXCEPT !.parts = p]
  <2>1. PICK r \in Command(b, fits, more) :
            \/ r.ok /\ Created(r.box, parts, cost + r.fault)
            \/ /\ ~r.ok
               /\ \E d \in Unregister(r.box) :
                     \/ d.ok /\ ErrorOccured(d.box, {}, cost + r.fault + d.fault)
                     \/ ~d.ok /\ ErrorsOccured(2, d.box, parts, cost + r.fault + d.fault)
    BY <1>4 DEF AddControllers
  <2>2. fits \in BOOLEAN /\ (faults + cost <= 1 => fits /\ b.state = "poweroff")  BY <1>4
  <2>3. more \in Machines /\ more.state = b.state
    <3>1. p \in SUBSET Parts  BY MachineIs DEF Parts
    <3> QED  BY <3>1, OtherParts
  <2>4. Fitted(more)
    <3>1. more.parts = p  BY PartsAre
    <3> QED  BY <3>1 DEF Fitted
  <2> HIDE DEF fits, more
  <2>5. /\ r.box \in {b, more} /\ (r.ok => r.box = more) /\ r.fault \in {0, 1}
        /\ ~r.ok => r.fault = (IF fits THEN 1 ELSE 0)
    BY <2>1, <2>2, CommandIs, CommandPays
  <2>6. r.box \in Machines /\ r.box.state = b.state  BY <2>3, <2>5
  <2>7. CASE r.ok /\ Created(r.box, parts, cost + r.fault)
    <3>1. Fitted(r.box) /\ cost + r.fault \in Nat  BY <2>4, <2>5, <2>7
    <3> QED  BY <1>1, <2>7, <3>1, EndHeals
  <2>8. ASSUME ~r.ok, NEW d \in Unregister(r.box),
               \/ d.ok /\ ErrorOccured(d.box, {}, cost + r.fault + d.fault)
               \/ ~d.ok /\ ErrorsOccured(2, d.box, parts, cost + r.fault + d.fault)
        PROVE  HealInv'
    <3> DEFINE total == cost + r.fault + d.fault
    <3>1. d.box \in {r.box, NoMachine} /\ d.box \in Machines /\ d.fault \in {0, 1} /\ (d.ok => d.box = NoMachine)
      BY <2>6, <2>8, UnregisterIs
    <3>2. faults + cost <= 1 => r.fault = 1  BY <2>2, <2>5, <2>8
    <3>3. faults + cost <= 1 /\ ~d.ok => d.fault = 1
      BY <2>2, <2>6, <2>8, UnregisterPays
    <3>4. total \in Nat /\ (faults <= 1 => total > 0)
      BY <1>2, <2>5, <3>1, <3>2
    <3>5. faults + total <= 1 => d.ok
      BY <1>2, <2>5, <3>1, <3>2, <3>3
    <3>6. faults + total <= 1 => Fitted(d.box)  BY <3>1, <3>5, NoneFitted
    <3>7. 2 \in {1, 2} /\ (faults <= 1 /\ ~blind => total > 0)  BY <3>4
    <3>8. \/ ErrorOccured(d.box, {}, total)
          \/ ErrorsOccured(2, d.box, parts, total)
      BY <2>8
    <3> HIDE DEF total
    <3>9. CASE ErrorOccured(d.box, {}, total)
      BY <1>1, <3>1, <3>4, <3>6, <3>7, <3>9, ErrorHeals1
    <3>10. CASE ErrorsOccured(2, d.box, parts, total)
      BY <1>1, <3>1, <3>4, <3>6, <3>7, <3>10, ErrorHeals
    <3> QED  BY <3>8, <3>9, <3>10
  <2> QED  BY <2>1, <2>7, <2>8
<1> QED  BY <1>3, <1>4

LEMMA CreateHeals ==
    ASSUME SessionInv, MediaInv, HealInv, Queried, CreateVM
    PROVE  HealInv'
<1>1. handler = 104 /\ ~aborting /\ handler' = 0 /\ ~aborting'  BY DEF CreateVM, Runs, life
<1>2. handler \notin {0, 100, 101, 102, 103, 105, 207, 208} /\ handler \notin {0, 100, 101, 102, 103}  BY <1>1
<1>3. box \in Machines /\ cache = {}  BY MediaHeld
<1>4. (~blind => box.state = "none") /\ faults \in Nat
  <2>1. ~blind => box.state \in Finds(handler)  BY <1>1, <1>2, SessionIs
  <2> QED  BY <1>1, <2>1, HealHeld DEF Finds
<1>5. faults <= 1 => Fitted(box)  BY DEF HealInv
<1>6. ASSUME NEW cost \in {0, 1}, ErrorOccured(box, known, cost), cost = 1 \/ box.state # "none" PROVE HealInv'
  <2>1. cost \in Nat /\ (faults + cost <= 1 => Fitted(box))  BY <1>4, <1>5
  <2>2. faults <= 1 /\ ~blind => cost > 0  BY <1>4, <1>6
  <2> QED  BY <1>1, <1>2, <1>3, <1>6, <2>1, <2>2, ErrorHeals1
<1>7. CASE CreateNew
  <2>1. \/ AddControllers(NewMachine, known, 0)
        \/ ErrorOccured(box, known, 1)
    BY <1>7 DEF CreateNew, Queried
  <2>2. CASE AddControllers(NewMachine, known, 0)
    <3>1. errors <= SESSION_HEAL_TRIES => known = {}  BY <1>1, <1>2, ListedBefore
    <3>2. faults <= 1 => errors <= SESSION_HEAL_TRIES
      BY <1>1, <1>4 DEF HealInv, SESSION_HEAL_TRIES
    <3>3. "controllers" \notin NewMachine.parts  BY DEF NewMachine
    <3>4. NewMachine \in Machines /\ NewMachine.state = "poweroff"  BY NoMachineIs
    <3>5. faults + 0 <= 1 => "controllers" \notin known  BY <1>4, <3>1, <3>2
    <3> QED  BY <1>1, <2>2, <3>3, <3>4, <3>5, ControllersHeal
  <2>3. CASE ErrorOccured(box, known, 1)  BY <1>6, <2>3
  <2> QED  BY <2>1, <2>2, <2>3
<1>8. CASE CreateExisting
  <2>1. PICK i \in MachineInfo(box, hasId) :
            \/ AddControllers(box, i.info.parts, i.fault)
            \/ ErrorOccured(box, known, i.fault)
    BY <1>8 DEF CreateExisting
  <2>2. i.info.parts = box.parts /\ i.fault \in {0, 1} /\ box.state # "none"
    BY <1>3, <1>8, <2>1, InfoIs DEF CreateExisting
  <2>3. CASE AddControllers(box, i.info.parts, i.fault)
    <3>1. faults + i.fault <= 1 => "controllers" \in i.info.parts /\ Fitted(box)
      BY <1>4, <1>5, <2>2 DEF Fitted
    <3> QED  BY <1>1, <1>3, <2>2, <2>3, <3>1, ControllersHeal
  <2> QED  BY <1>6, <2>1, <2>2, <2>3
<1> QED  BY <1>7, <1>8 DEF CreateVM

\* A step after which the machine has been seen, unless it has failed for the first time.
LEMMA SeenHeals ==
    ASSUME SessionInv, HealInv, ~aborting, ~aborting', box' = box, errors' = errors, cur' # 112,
           NEW cost \in {0, 1}, faults' = faults + cost, blind' => cost = 1
    PROVE  HealInv'
<1>1. faults \in Nat  BY HealHeld
<1>2. CASE cost = 0
  <2>1. faults' = faults /\ ~blind'  BY <1>1, <1>2
  <2> QED  BY <2>1 DEF HealInv, Fitted
<1>3. CASE cost = 1
  <2>1. faults' = faults + 1 /\ (faults' <= 1 => faults = 0 /\ faults' = 1)  BY <1>1, <1>3
  <2>2. faults <= 1 /\ faults = 0 => Fitted(box) /\ errors = 0  BY DEF HealInv
  <2>3. faults = 0 => faults <= 1  OBVIOUS
  <2> QED  BY <1>1, <2>1, <2>2, <2>3 DEF HealInv, Fitted
<1> QED  BY <1>2, <1>3

LEMMA UpdateSessionHeals ==
    ASSUME SessionInv, MediaInv, HealInv, UpdateSession
    PROVE  HealInv'
<1>1. ~aborting /\ ~aborting' /\ box' = box /\ errors' = errors  BY DEF UpdateSession, Runs, life, healing
<1>2. box \in Machines /\ box.state # "stuck" /\ cache = {} /\ faults \in Nat
  BY MediaHeld, HealHeld
<1>3. StateOf[3] = "none" /\ 3 \in Checkpoints /\ 112 \notin Checkpoints  BY DEF StateOf, Checkpoints
<1>4. CASE FSMSkew(3) /\ blind' = FALSE /\ Pays(0)
  <2>1. cur' # 112 /\ faults' = faults + 0  BY <1>3, <1>4 DEF FSMSkew, Pays
  <2>2. 0 \in {0, 1} /\ ~blind'  BY <1>4
  <2> QED  BY <1>1, <2>1, <2>2, SeenHeals
<1>5. ASSUME NEW i \in MachineInfo(box, hasId), Pays(i.fault),
             blind' = (IF i.ok THEN i.info.state = "stuck" ELSE i.fault = 1),
             \/ ~i.ok /\ FSMSkew(3)
             \/ i.ok /\ i.info.state \in States /\ FSMSkew(NodeOf(i.info.state))
             \/ i.ok /\ i.info.state = "stuck"
      PROVE  HealInv'
  <2>1. i.fault \in {0, 1} /\ i.info.state = box.state  BY <1>2, <1>5, InfoIs
  <2>2. cur' # 112
    <3>1. CASE FSMSkew(3)  BY <1>3, <3>1 DEF FSMSkew
    <3>2. CASE i.info.state \in States /\ FSMSkew(NodeOf(i.info.state))
      <4>1. NodeOf(i.info.state) \in Checkpoints  BY <3>2, StatesAre
      <4> QED  BY <1>3, <3>2, <4>1 DEF FSMSkew
    <3> QED  BY <1>2, <1>5, <2>1, <3>1, <3>2
  <2>3. blind' => i.fault = 1  BY <1>2, <1>5, <2>1
  <2>4. faults' = faults + i.fault  BY <1>5 DEF Pays
  <2> QED  BY <1>1, <2>1, <2>2, <2>3, <2>4, SeenHeals
<1> QED  BY <1>4, <1>5 DEF UpdateSession

LEMMA UpdateHeals ==
    ASSUME SessionInv, MediaInv, HealInv, Queried, Update
    PROVE  HealInv'
<1>1. /\ ~aborting /\ ~aborting' /\ box' = box /\ errors' = errors /\ ~blind' /\ faults' = faults
      /\ FSMSkew(NodeOf(LogState)) /\ LogState = box.state
  BY QueriedIsPlain DEF Update, Plain, life, healing
<1>2. box.state \in States /\ faults \in Nat  BY MediaHeld, MachineIs, HealHeld
<1>3. NodeOf(box.state) \in Checkpoints  BY <1>2, StatesAre
<1>4. cur' # 112  BY <1>1, <1>3 DEF FSMSkew, Checkpoints
<1>5. 0 \in {0, 1} /\ faults' = faults + 0  BY <1>1, <1>2
<1> QED  BY <1>1, <1>4, <1>5, SeenHeals

LEMMA ContinueHeals ==
    ASSUME SessionInv, MediaInv, HealInv, Continue
    PROVE  HealInv'
<1>1. UNCHANGED <<box, errors, faults, blind, aborting>> /\ handler = 0
  BY DEF Continue, life, healing
<1>2. CASE ~aborting
  <2>1. cur # 101  BY <1>1, <1>2 DEF MediaInv, Settled
  <2>2. /\ cur' # 112
        /\ (cur' \in Handlers /\ handler' = cur') \/ (cur' \in Checkpoints /\ handler' = 0)
    BY <1>2, ContinueMoves
  <2>3. /\ (cur = 1 => cur' = 100) /\ (cur = 100 => cur' = 101)
        /\ (cur = 2 => cur' = 102) /\ (cur = 102 => cur' = 103) /\ (cur = 103 => cur' = 101)
    BY <1>2, <2>1, WalksOn
  <2>4. cur' = 101 => handler' = 101  BY <2>2 DEF Checkpoints
  <2>5. /\ cur \in {1, 100} => cur' \in {1, 100} \/ handler' = 101
        /\ cur \in {2, 102, 103} => cur' \in {2, 102, 103} \/ handler' = 101
    BY <2>3, <2>4
  <2>6. ~aborting' /\ handler # 101  BY <1>1, <1>2
  <2> QED  BY <1>1, <1>2, <2>2, <2>5, <2>6 DEF HealInv, Fitted
<1>3. CASE aborting
  <2> DEFINE stop == Min(Stops)
  <2>1. /\ path # <<>> /\ cur' = path[stop] /\ path' = SubSeq(path, stop + 1, Len(path))
        /\ path \in Seq(Nodes)
    BY ContinueIs DEF SessionInv, TypeOK
  <2>2. stop \in 1..Len(path)  BY <2>1, StopIs
  <2> HIDE DEF stop
  <2>3. NoSinkAhead  BY <1>3 DEF HealInv
  <2>4. cur' # 112  BY <2>1, <2>2, <2>3 DEF NoSinkAhead
  <2>5. NoSinkAhead'
    <3> SUFFICES ASSUME NEW i \in 1..Len(path') PROVE path'[i] # 112  BY DEF NoSinkAhead
    <3>1. Len(path) \in Nat /\ stop \in Nat  BY <2>1, <2>2
    <3>2. Len(path') = Len(path) - stop  BY <2>1, <2>2, <3>1
    <3>3. path'[i] = path[stop + i] /\ stop + i \in 1..Len(path)  BY <2>1, <2>2, <3>1, <3>2
    <3> QED  BY <2>3, <3>3 DEF NoSinkAhead
  <2> QED  BY <1>1, <1>3, <2>4, <2>5 DEF HealInv, Fitted
<1> QED  BY <1>2, <1>3

LEMMA ExternalHeals ==
    ASSUME SessionInv, MediaInv, HealInv, Queried, ExternalChange
    PROVE  HealInv'
<1>1. PICK change \in Changes :
          /\ box.state = change[1]
          /\ change[2] # "stuck" \/ "stuck" \in Quirks
          /\ box' = CASE change[2] = "none"  -> NoMachine
                      [] change[2] = "stuck" -> [box EXCEPT !.state = "stuck"]
                      [] change[1] = "saved" -> [box EXCEPT !.state = "poweroff"]
                      [] OTHER -> Becomes(box, change[2])
  BY DEF ExternalChange
<1>2. /\ change[1] \in {"running", "paused", "stuck", "saved", "poweroff"}
      /\ change[2] \in {"none"} \cup {"paused", "poweroff", "saved", "running"}
  BY <1>1, QueriedIsPlain DEF Changes
<1>3. UNCHANGED <<cur, path, handler, errors, aborting>> /\ faults' = faults + 1 /\ faults \in Nat
  BY HealHeld DEF ExternalChange, engine, life, healing, Pays
<1>4. box \in Machines  BY MediaHeld
<1>5. [box EXCEPT !.state = "poweroff"].parts = box.parts  BY <1>4, MachineIs
<1>6. \A s \in {"paused", "poweroff", "saved", "running"} : Becomes(box, s).parts = box.parts
  BY <1>4, MachineIs DEF Becomes
<1>7. box' = NoMachine \/ box'.parts = box.parts  BY <1>1, <1>2, <1>5, <1>6
<1>8. Fitted(box) => Fitted(box')
  <2>1. box.state # "none"  BY <1>1, <1>2
  <2> QED  BY <1>7, <2>1, NoneFitted DEF Fitted
<1>9. faults' <= 1 => faults = 0 /\ faults' = 1  BY <1>3
<1>10. faults = 0 => Fitted(box) /\ (~aborting => errors = 0)
  <2>1. faults = 0 => faults <= 1  OBVIOUS
  <2> QED  BY <2>1 DEF HealInv
<1>11. (aborting => NoSinkAhead) => (aborting' => NoSinkAhead')  BY <1>3 DEF NoSinkAhead
<1> QED  BY <1>3, <1>8, <1>9, <1>10, <1>11 DEF HealInv

\* A step that leaves the engine's place, the machine and the counters alone.
LEMMA StillHeals ==
    ASSUME HealInv, ~aborting' => ~aborting, aborting' => NoSinkAhead',
           UNCHANGED <<box, errors, faults, blind>>, cur' # 112 \/ cur' = cur,
           ~aborting' => cur' = cur \/ cur \notin {1, 2, 100, 102, 103},
           ~aborting' => handler' = handler \/ handler # 101
    PROVE  HealInv'
  BY DEF HealInv, Fitted

LEMMA StepHeals ==
    ASSUME SessionInv, Queried, MediaInv, HealInv, [Next]_vars
    PROVE  HealInv'
<1>0. Plain  BY QueriedIsPlain
<1>1. CASE Continue  BY <1>1, ContinueHeals
<1>2. CASE HandlerStep
  <2>1. CASE AbortedHandler
    <3>1. UNCHANGED <<box, errors, faults, blind, cur, path, aborting>> /\ aborting
      BY <2>1 DEF AbortedHandler, engine, life, healing
    <3>2. NoSinkAhead'  BY <3>1 DEF HealInv, NoSinkAhead
    <3> QED  BY <3>1, <3>2, StillHeals
  <2>2. CASE CheckVMAPI
    <3>1. /\ handler = 211 /\ ~aborting /\ ~aborting' /\ UNCHANGED <<box, errors, faults, blind>>
          /\ cur' \in {107, cur}
      BY <2>2 DEF CheckVMAPI, Runs, life, healing, engine, FSMSkew
    <3>2. cur = 211  BY <3>1, SessionIs
    <3> QED  BY <3>1, <3>2, StillHeals
  <2> QED
    BY <1>2, <2>1, <2>2, EmptyHeals, UpdateSessionHeals, CreateHeals, SimpleHeals, MediaHeals, StartHeals,
       ReleaseHeals, DestroyHeals
    DEF HandlerStep
<1>3. CASE Open
  <2>1. opens = 0 /\ aborting' = FALSE /\ UNCHANGED <<box, errors, faults, blind, cur, handler>>
    BY <1>0, <1>3 DEF Open, Plain, healing, FSMGoto
  <2>2. ~aborting  BY <2>1 DEF SessionInv, Basics
  <2> QED  BY <2>1, <2>2, StillHeals
<1>4. CASE Close \/ Stop \/ Hibernate \/ Pause \/ Resume \/ Start
  <2>1. PICK n \in Checkpoints : Request(n)
    BY <1>4, CheckpointIs DEF Close, Stop, Hibernate, Pause, Resume, Start
  <2>2. ~aborting /\ ~aborting' /\ UNCHANGED <<box, errors, faults, blind, cur, handler>>
    BY <2>1 DEF Request, FSMGoto, life, healing
  <2> QED  BY <2>2, StillHeals
<1>5. CASE Update  BY <1>5, UpdateHeals
<1>6. CASE Abort
  <2>1. ~aborting /\ aborting' /\ UNCHANGED <<box, errors, faults, blind, cur, path>>
    BY <1>6 DEF Abort, engine, healing
  <2>2. NoSinkAhead'  BY <2>1, NoSinkOnTheWay DEF NoSinkAhead
  <2> QED  BY <2>1, <2>2, StillHeals
<1>7. CASE ThreadStops
  <2>1. aborting /\ aborting' /\ UNCHANGED <<box, errors, faults, blind, cur, path>>
    BY <1>7 DEF ThreadStops, engine, healing
  <2>2. NoSinkAhead'  BY <2>1 DEF HealInv, NoSinkAhead
  <2> QED  BY <2>1, <2>2, StillHeals
<1>8. CASE ExternalChange  BY <1>8, ExternalHeals
<1>9. CASE TimePasses \/ CacheExpires \/ UNCHANGED vars
  <2>1. UNCHANGED <<box, errors, faults, blind, cur, path, handler, aborting>>
    BY <1>9 DEF TimePasses, CacheExpires, vars, engine, life, healing
  <2>2. aborting' => NoSinkAhead'  BY <2>1 DEF HealInv, NoSinkAhead
  <2> QED  BY <2>1, <2>2, StillHeals
<1> QED  BY <1>1, <1>2, <1>3, <1>4, <1>5, <1>6, <1>7, <1>8, <1>9 DEF Next, ClientCall

LEMMA StartsHealed ==
    ASSUME Init
    PROVE  HealInv
<1>1. cur = 1 /\ faults = 0 /\ errors = 0 /\ ~aborting  BY DEF Init
<1>2. Fitted(box)
  <2>1. CASE box = NoMachine  BY <2>1, NoneFitted
  <2>2. ASSUME NEW s \in States, box = [state |-> s, parts |-> Parts, log |-> s] PROVE Fitted(box)
    BY <2>2 DEF Fitted, Parts
  <2> QED  BY <2>1, <2>2 DEF Init
<1> QED  BY <1>1, <1>2 DEF HealInv

\* One failure of a command at whatever point, or one change behind the session's back, never
\* brings the session to the sink: no handler finds a machine that refuses it, unless the state it
\* goes by is from before the fault.
THEOREM FaultIsHealed ==
    ASSUME Queried
    PROVE  Spec => []OneFaultIsHealed
<1>1. Plain  BY QueriedIsPlain
<1>2. Init => SessionInv /\ MediaInv /\ HealInv  BY StartsRight, StartsListed, StartsHealed
<1>3. SessionInv /\ MediaInv /\ HealInv /\ [Next]_vars => SessionInv' /\ MediaInv' /\ HealInv'
  BY <1>1, StepKeeps, StepListed, StepHeals
<1>4. HealInv => OneFaultIsHealed  BY DEF HealInv, OneFaultIsHealed
<1> QED  BY <1>2, <1>3, <1>4, PTL DEF Spec


(***************************************************************************)
(* The search for routes, in any finite graph.                             *)
(*                                                                         *)
(* findShortestPath recurses on the path it has come by, which visits no   *)
(* node twice and so is never longer than there are nodes.  Answers says   *)
(* what a call makes of the search that it is given; Found, what is true   *)
(* of it after some of the children.                                       *)
(***************************************************************************)
\* Induction on a natural number, for a set.
LEMMA UpFromZero ==
    ASSUME NEW S, 0 \in S, \A m \in Nat : m \in S => m + 1 \in S
    PROVE  \A m \in Nat : m \in S
<1> SUFFICES ASSUME NEW k \in Nat, k \notin S PROVE FALSE  OBVIOUS
<1> DEFINE T == {m \in Nat : m \notin S}
<1>1. T \subseteq Nat /\ T # {}  OBVIOUS
<1>2. PICK m \in T : \A j \in T : <<j, m>> \notin OpToRel(<, Nat)
  <2> HIDE DEF T
  <2> QED  BY <1>1, WFMin, NatLessThanWellFounded, Zenon
<1>3. m \in Nat /\ m \notin S /\ \A j \in Nat : j \notin S => ~(j < m)
  BY <1>2, Zenon DEF OpToRel
<1>4. m # 0  BY <1>3
<1>5. m - 1 \in Nat /\ m - 1 < m /\ (m - 1) + 1 = m  BY <1>3, <1>4, SMT
<1>6. m - 1 \in S  BY <1>3, <1>5, Zenon
<1> QED  BY <1>3, <1>5, <1>6, Zenon

\* The children of a node, one after the other.
Visits(find, here, goal, search, kids) ==
    FoldLeft(LAMBDA s, child : Visit(find, here, goal, s, child), search, kids)

\* P is the search before the first of n children, and after each.
Passes(find, here, goal, search, kids, n, P) ==
    /\ P[0] = search /\ \A i \in 1 .. n : P[i] = Visit(find, here, goal, P[i - 1], kids[i])
    /\ Visits(find, here, goal, search, kids) = P[n]

\* FoldLeft goes from one child to the next.
LEMMA VisitsAre ==
    ASSUME NEW find, NEW here, NEW goal, NEW search, NEW kids, NEW n \in Nat, DOMAIN kids = 1 .. n
    PROVE  \E P : Passes(find, here, goal, search, kids, n, P)
<1> DEFINE V(i, s) == Visit(find, here, goal, s, kids[i])
           Body(g, s) == IF s = {} THEN search ELSE V(Max(s), g[s \ {Max(s)}])
           S == {m \in Nat : \E g : g = [s \in SUBSET (1 .. m) |-> Body(g, s)]}
           it == CHOOSE g : g = [s \in SUBSET (1 .. n) |-> Body(g, s)]
<1>1. Visits(find, here, goal, search, kids) = it[1 .. n]
  <2>1. Visits(find, here, goal, search, kids)
        = (CHOOSE g : g = [s \in SUBSET (DOMAIN kids) |->
              IF s = {} THEN search ELSE Visit(find, here, goal, g[s \ {Max(s)}], kids[Max(s)])])[DOMAIN kids]
    BY Zenon DEF Visits, FoldLeft, MapThenFoldSet
  <2> QED  BY <2>1, Zenon
<1> HIDE DEF V
<1>2. 0 \in S
  <2> DEFINE g == [s \in SUBSET (1 .. 0) |-> search]
  <2>1. \A s \in SUBSET (1 .. 0) : s = {}  BY SMT
  <2>2. \A s \in SUBSET (1 .. 0) : Body(g, s) = search  BY <2>1, Zenon
  <2> HIDE DEF Body
  <2>3. g = [s \in SUBSET (1 .. 0) |-> Body(g, s)]  BY <2>2, Zenon
  <2> HIDE DEF g
  <2> QED  BY <2>3
<1>3. ASSUME NEW m \in Nat, m \in S PROVE m + 1 \in S
  <2>1. PICK g : g = [s \in SUBSET (1 .. m) |-> Body(g, s)]  BY <1>3, Zenon
  <2> DEFINE k == m + 1
             h == [s \in SUBSET (1 .. k) |-> IF k \in s THEN V(k, g[s \ {k}]) ELSE g[s]]
  <2>2. k \in Nat /\ \A i \in 1 .. k : i # k => i \in 1 .. m  BY SMT
  <2>3. \A i \in 1 .. m : i \in 1 .. k /\ i # k  BY SMT
  <2>4. \A i \in 1 .. k : i <= k /\ i \in Int  BY SMT
  <2>5. k >= k  BY SMT
  <2> HIDE DEF k
  <2>6. ASSUME NEW s \in SUBSET (1 .. k) PROVE h[s] = Body(h, s)
    <3>1. CASE s = {}
      <4>1. k \notin s /\ s \in SUBSET (1 .. m)  BY <3>1
      <4>2. h[s] = g[s]  BY <4>1, Zenon
      <4>3. g[s] = Body(g, s)  BY <2>1, <4>1, Zenon
      <4> QED  BY <3>1, <4>2, <4>3, Zenon
    <3>2. CASE k \in s
      <4>1. Max(s) = k
        <5>1. \A y \in s : k >= y  BY <2>4, <2>2, SMT
        <5>2. \A x \in s : (\A y \in s : x >= y) => x = k
          <6> SUFFICES ASSUME NEW x \in s, \A y \in s : x >= y PROVE x = k  OBVIOUS
          <6>1. x >= k /\ x <= k /\ x \in Int /\ k \in Int  BY <2>2, <2>4, <3>2, SMT
          <6> QED  BY <6>1, SMT
        <5> QED  BY <3>2, <5>1, <5>2, Zenon DEF Max
      <4>2. s \ {k} \in SUBSET (1 .. k) /\ k \notin s \ {k}  OBVIOUS
      <4>3. h[s \ {k}] = g[s \ {k}]  BY <4>2, Zenon
      <4>4. h[s] = V(k, g[s \ {k}])  BY <3>2, Zenon
      <4>5. Body(h, s) = V(k, h[s \ {k}])  BY <3>2, <4>1, Zenon
      <4> QED  BY <4>3, <4>4, <4>5
    <3>3. CASE k \notin s /\ s # {}
      <4>1. s \in SUBSET (1 .. m)  BY <2>2, <3>3
      <4> DEFINE x == Max(s)
      <4>2. s \ {x} \in SUBSET (1 .. k) /\ k \notin s \ {x}  BY <3>3
      <4>3. h[s] = g[s] /\ h[s \ {x}] = g[s \ {x}]  BY <3>3, <4>2, Zenon
      <4>4. g[s] = Body(g, s)  BY <2>1, <4>1, Zenon
      <4> QED  BY <3>3, <4>3, <4>4, Zenon
    <3> QED  BY <3>1, <3>2, <3>3
  <2>7. h = [s \in SUBSET (1 .. k) |-> Body(h, s)]
    <3> HIDE DEF Body
    <3> QED  BY <2>6, Zenon
  <2> HIDE DEF h, Body
  <2>8. k \in S  BY <2>2, <2>7
  <2> QED  BY <2>8 DEF k
<1>4. n \in S
  <2> HIDE DEF S
  <2> QED  BY <1>2, <1>3, UpFromZero, Zenon
<1>5. it = [s \in SUBSET (1 .. n) |-> Body(it, s)]
  <2>1. \E g : g = [s \in SUBSET (1 .. n) |-> Body(g, s)]  BY <1>4, Zenon
  <2> HIDE DEF Body
  <2> QED  BY <2>1, Zenon
<1> HIDE DEF it, S
<1> DEFINE P == [i \in 0 .. n |-> it[1 .. i]]
<1>6. P[0] = search
  <2>1. 1 .. 0 = {} /\ 0 \in 0 .. n  BY SMT
  <2>2. 1 .. 0 \in SUBSET (1 .. n)  BY <2>1
  <2>3. it[1 .. 0] = Body(it, 1 .. 0)  BY <1>5, <2>2, Zenon
  <2> QED  BY <2>1, <2>3, Zenon
<1>7. ASSUME NEW i \in 1 .. n PROVE P[i] = V(i, P[i - 1])
  <2> DEFINE s == 1 .. i
  <2>1. s \in SUBSET (1 .. n) /\ s # {} /\ i \in s /\ s \ {i} = 1 .. (i - 1) /\ i \in 0 .. n /\ i - 1 \in 0 .. n
    <3>1. s \in SUBSET (1 .. n) /\ i \in s /\ i \in 0 .. n /\ i - 1 \in 0 .. n  BY SMT
    <3>2. \A x : x \in s \ {i} <=> x \in 1 .. (i - 1)  BY SMT
    <3> QED  BY <3>1, <3>2
  <2>2. Max(s) = i
    <3>1. \A y \in s : i >= y  BY SMT
    <3>2. \A x \in s : (\A y \in s : x >= y) => x = i
      <4> SUFFICES ASSUME NEW x \in s, x >= i PROVE x = i  BY <2>1
      <4> QED  BY SMT
    <3> QED  BY <2>1, <3>1, <3>2, Zenon DEF Max
  <2>3. it[s] = Body(it, s)  BY <1>5, <2>1, Zenon
  <2>4. it[s] = V(i, it[1 .. (i - 1)])  BY <2>1, <2>2, <2>3, Zenon
  <2> QED  BY <2>1, <2>4, Zenon
<1>8. P[n] = Visits(find, here, goal, search, kids)
  <2>1. n \in 0 .. n  BY SMT
  <2> QED  BY <1>1, <2>1, Zenon
<1> HIDE DEF P
<1> QED  BY <1>6, <1>7, <1>8, Zenon DEF V, Passes

\* A path without a node twice is no longer than there are nodes.
LEMMA PathIs ==
    ASSUME NEW nodes, IsFiniteSet(nodes), NEW p \in Paths(nodes)
    PROVE  /\ p \in Seq(nodes) /\ Len(p) \in Nat /\ DOMAIN p = 1 .. Len(p) /\ Len(p) >= 1
           /\ Cardinality(nodes) \in Nat /\ Len(p) <= Cardinality(nodes)
           /\ Last(p) = p[Len(p)] /\ Last(p) \in nodes
           /\ \A i, j \in 1 .. Len(p) : p[i] = p[j] => i = j
<1>1. p \in Seq(nodes) /\ p # <<>> /\ IsInjective(p)  BY DEF Paths
<1> DEFINE n == Len(p)
<1>2. n \in Nat /\ p \in [1 .. n -> nodes] /\ DOMAIN p = 1 .. n  BY <1>1, LenProperties
<1>3. n >= 1
  <2>1. n # 0  BY <1>1, EmptySeq
  <2> HIDE DEF n
  <2> QED  BY <1>2, <2>1, SMT
<1> HIDE DEF n
<1>4. p \in Injection(1 .. n, nodes)  BY <1>1, <1>2 DEF Injection
<1>5. 0 + 1 \in Int /\ 1 \in Int /\ n \in Int /\ (1 > n => FALSE) /\ n - 1 + 1 = n  BY <1>2, <1>3, SMT
<1>6. Cardinality(1 .. n) = n  BY <1>5, FS_Interval
<1>7. n <= Cardinality(nodes)  BY <1>4, <1>6, FS_Injection
<1>8. Cardinality(nodes) \in Nat  BY FS_CardinalityType
<1>9. n \in 1 .. n  BY <1>2, <1>3, SMT
<1>10. Last(p) = p[n] /\ p[n] \in nodes  BY <1>2, <1>9, Zenon DEF Last, n
<1>11. \A i, j \in 1 .. n : p[i] = p[j] => i = j  BY <1>1, <1>2, Zenon DEF IsInjective
<1> QED  BY <1>1, <1>2, <1>3, <1>7, <1>8, <1>10, <1>11 DEF n

\* A path goes on to a child that is not on it.
LEMMA PathGoesOn ==
    ASSUME NEW nodes, IsFiniteSet(nodes), NEW here \in Paths(nodes), NEW child \in nodes, child \notin ToSet(here)
    PROVE  /\ Append(here, child) \in Paths(nodes) /\ Len(Append(here, child)) = Len(here) + 1
           /\ \A i \in 1 .. Len(here) : Append(here, child)[i] = here[i]
           /\ Append(here, child)[Len(here) + 1] = child
<1> DEFINE n == Len(here)
           p == Append(here, child)
<1>1. here \in Seq(nodes) /\ n \in Nat /\ DOMAIN here = 1 .. n /\ \A i, j \in 1 .. n : here[i] = here[j] => i = j
  BY PathIs
<1>2. /\ p \in Seq(nodes) /\ p # <<>> /\ Len(p) = n + 1
      /\ \A i \in 1 .. n : p[i] = here[i]
      /\ p[n + 1] = child
  BY <1>1, AppendProperties
<1>3. \A i \in 1 .. n : here[i] # child  BY <1>1 DEF ToSet
<1>4. DOMAIN p = 1 .. n + 1  BY <1>2, LenProperties
<1> HIDE DEF n, p
<1>5. ASSUME NEW i \in 1 .. n + 1, NEW j \in 1 .. n + 1, p[i] = p[j] PROVE i = j
  <2>1. CASE i \in 1 .. n /\ j \in 1 .. n  BY <1>1, <1>2, <1>5, <2>1
  <2>2. CASE i \notin 1 .. n
    <3>1. i = n + 1 /\ (j \in 1 .. n \/ j = n + 1)  BY <1>1, <2>2, SMT
    <3> QED  BY <1>2, <1>3, <1>5, <3>1
  <2>3. CASE j \notin 1 .. n
    <3>1. j = n + 1 /\ (i \in 1 .. n \/ i = n + 1)  BY <1>1, <2>3, SMT
    <3> QED  BY <1>2, <1>3, <1>5, <3>1
  <2> QED  BY <2>1, <2>2, <2>3
<1>6. IsInjective(p)  BY <1>4, <1>5, Zenon DEF IsInjective
<1>7. p \in Paths(nodes)  BY <1>2, <1>6 DEF Paths
<1> QED  BY <1>2, <1>7 DEF n, p

\* One call of the search, where find is the search from the children.
Call(links, goal, find, here) ==
    [search \in Searches(DOMAIN links) |->
        IF Clipped(here, search) THEN search
        ELSE [Visits(find, here, goal, search, links[Last(here)]) EXCEPT !.found = FALSE]]

\* What a call does depends only on what is found from the paths that are one node longer.
LEMMA CallIs ==
    ASSUME NEW links, NEW nodes, IsFiniteSet(nodes), links \in [nodes -> Seq(nodes)], NEW goal,
           NEW here \in Paths(nodes), NEW f, NEW g,
           \A child \in nodes : child \notin ToSet(here) => f[Append(here, child)] = g[Append(here, child)]
    PROVE  Call(links, goal, f, here) = Call(links, goal, g, here)
<1> DEFINE kids == links[Last(here)]
           n == Len(kids)
<1>1. Last(here) \in nodes  BY PathIs
<1>2. kids \in Seq(nodes) /\ DOMAIN links = nodes  BY <1>1
<1>3. n \in Nat /\ DOMAIN kids = 1 .. n /\ kids \in [1 .. n -> nodes]  BY <1>2, LenProperties
<1> HIDE DEF kids, n
<1>4. ASSUME NEW s, NEW i \in 1 .. n PROVE Visit(f, here, goal, s, kids[i]) = Visit(g, here, goal, s, kids[i])
  <2>1. kids[i] \in nodes  BY <1>3, <1>4
  <2>2. kids[i] \notin ToSet(here) => f[Append(here, kids[i])] = g[Append(here, kids[i])]  BY <2>1
  <2> QED  BY <2>2, Zenon DEF Visit
<1>5. ASSUME NEW search PROVE Visits(f, here, goal, search, kids) = Visits(g, here, goal, search, kids)
  <2>0. n \in Nat /\ DOMAIN kids = 1 .. n  BY <1>3
  <2>1. PICK P : Passes(f, here, goal, search, kids, n, P)
    BY <2>0, VisitsAre, Zenon
  <2>2. PICK Q : Passes(g, here, goal, search, kids, n, Q)
    BY <2>0, VisitsAre, Zenon
  <2> DEFINE S == {m \in Nat : m <= n => P[m] = Q[m]}
  <2>3. 0 \in S  BY <2>1, <2>2 DEF Passes
  <2>4. ASSUME NEW m \in Nat, m \in S PROVE m + 1 \in S
    <3>1. SUFFICES ASSUME m + 1 <= n PROVE P[m + 1] = Q[m + 1]  OBVIOUS
    <3>2. m + 1 \in 1 .. n /\ m <= n /\ (m + 1) - 1 = m  BY <1>3, <3>1, SMT
    <3>3. P[m] = Q[m]  BY <2>4, <3>2
    <3>4. P[m + 1] = Visit(f, here, goal, P[m], kids[m + 1])  BY <2>1, <3>2 DEF Passes
    <3>5. Q[m + 1] = Visit(g, here, goal, Q[m], kids[m + 1])  BY <2>2, <3>2 DEF Passes
    <3> QED  BY <1>4, <3>2, <3>3, <3>4, <3>5
  <2>5. n \in S
    <3> HIDE DEF S
    <3> QED  BY <1>3, <2>3, <2>4, UpFromZero, Zenon
  <2>6. n <= n  BY <1>3, SMT
  <2> QED  BY <2>1, <2>2, <2>5, <2>6 DEF Passes
<1> QED  BY <1>5, Zenon DEF Call, kids

\* The recursion of findShortestPath is well founded: one function satisfies it.
LEMMA FindUnfolds ==
    ASSUME NEW links, NEW nodes, IsFiniteSet(nodes), links \in [nodes -> Seq(nodes)], NEW goal
    PROVE  \A here \in Paths(nodes) : FindFrom(links, goal)[here] = Call(links, goal, FindFrom(links, goal), here)
<1> DEFINE By(f) == [here \in Paths(nodes) |-> Call(links, goal, f, here)]
           N == Cardinality(nodes)
           S == {m \in Nat : \E f : \A here \in Paths(nodes) : m + Len(here) > N => f[here] = By(f)[here]}
<1>1. DOMAIN links = nodes  OBVIOUS
<1>2. FindFrom(links, goal) = CHOOSE f : f = By(f)
  <2>1. FindFrom(links, goal)
        = CHOOSE f : f = [here \in Paths(DOMAIN links) |->
             [search \in Searches(DOMAIN links) |->
                IF Clipped(here, search) THEN search
                ELSE [FoldLeft(LAMBDA s, child : Visit(f, here, goal, s, child), search, links[Last(here)])
                        EXCEPT !.found = FALSE]]]
    BY Zenon DEF FindFrom
  <2> QED  BY <1>1, <2>1, Zenon DEF Call, Visits
<1>3. N \in Nat /\ \A here \in Paths(nodes) : Len(here) \in Nat /\ Len(here) <= N
  <2>1. N \in Nat  BY FS_CardinalityType
  <2> QED  BY <2>1, PathIs
<1>4. \A f : \A here \in Paths(nodes) : By(f)[here] = Call(links, goal, f, here)  OBVIOUS
<1> HIDE DEF By, N
<1>5. 0 \in S
  <2>1. \A here \in Paths(nodes) : ~(0 + Len(here) > N)  BY <1>3, SMT
  <2> QED  BY <2>1
<1>6. ASSUME NEW m \in Nat, m \in S PROVE m + 1 \in S
  <2>1. PICK f : \A here \in Paths(nodes) : m + Len(here) > N => f[here] = By(f)[here]  BY <1>6
  <2>2. ASSUME NEW here \in Paths(nodes), m + 1 + Len(here) > N PROVE By(f)[here] = By(By(f))[here]
    <3>1. ASSUME NEW child \in nodes, child \notin ToSet(here)
          PROVE  f[Append(here, child)] = By(f)[Append(here, child)]
      <4>1. Append(here, child) \in Paths(nodes) /\ Len(Append(here, child)) = Len(here) + 1  BY <3>1, PathGoesOn
      <4>2. m + Len(Append(here, child)) > N  BY <1>3, <2>2, <4>1, SMT
      <4> QED  BY <2>1, <4>1, <4>2
    <3>2. Call(links, goal, f, here) = Call(links, goal, By(f), here)  BY <3>1, CallIs
    <3> QED  BY <1>4, <3>2, Zenon
  <2>3. \E g : \A here \in Paths(nodes) : m + 1 + Len(here) > N => g[here] = By(g)[here]  BY <2>2, Zenon
  <2>4. m + 1 \in Nat  BY SMT
  <2> QED  BY <2>3, <2>4
<1>7. N + 1 \in S
  <2>1. N + 1 \in Nat  BY <1>3, SMT
  <2> HIDE DEF S
  <2> QED  BY <1>5, <1>6, <2>1, UpFromZero, Zenon
<1>8. PICK f : \A here \in Paths(nodes) : f[here] = By(f)[here]
  <2>1. PICK f : \A here \in Paths(nodes) : N + 1 + Len(here) > N => f[here] = By(f)[here]  BY <1>7
  <2>2. \A here \in Paths(nodes) : N + 1 + Len(here) > N  BY <1>3, SMT
  <2> QED  BY <2>1, <2>2, Zenon
<1>9. By(f) = By(By(f))
  <2>1. ASSUME NEW here \in Paths(nodes) PROVE By(f)[here] = By(By(f))[here]
    <3>1. ASSUME NEW child \in nodes, child \notin ToSet(here)
          PROVE  f[Append(here, child)] = By(f)[Append(here, child)]
      <4>1. Append(here, child) \in Paths(nodes)  BY <3>1, PathGoesOn
      <4> QED  BY <1>8, <4>1, Zenon
    <3>2. Call(links, goal, f, here) = Call(links, goal, By(f), here)  BY <3>1, CallIs
    <3> QED  BY <1>4, <3>2, Zenon
  <2>2. \A g : By(g) = [here \in Paths(nodes) |-> By(g)[here]]  BY Zenon DEF By
  <2>3. [here \in Paths(nodes) |-> By(f)[here]] = [here \in Paths(nodes) |-> By(By(f))[here]]  BY <2>1
  <2> QED  BY <2>2, <2>3, Zenon
<1>10. FindFrom(links, goal) = By(FindFrom(links, goal))
  <2>1. \E g : g = By(g)  BY <1>9, Zenon
  <2> QED  BY <1>2, <2>1, Zenon
<1> QED  BY <1>4, <1>10, Zenon

Walk(links, p) == \A i \in 1 .. Len(p) - 1 : p[i + 1] \in ToSet(links[p[i]])

\* The ways to go on from a path to the goal without visiting a node twice.
Ways(links, goal, here) ==
    {p \in Paths(DOMAIN links) : /\ Walk(links, p) /\ Len(p) > Len(here) /\ p[Len(p)] = goal
                                 /\ \A i \in 1 .. Len(here) : p[i] = here[i]}

\* What a call leaves of the search s: one that beats it, if there is any, and then the best of all.
Improves(links, goal, here, s, r) ==
    \/ r.clip = s.clip /\ r.best = s.best
    \/ r.clip < s.clip /\ Len(r.best) = r.clip + 1 /\ r.best \in Ways(links, goal, here)

Answers(links, goal, here, s, r) ==
    /\ r \in Searches(DOMAIN links) /\ ~r.found /\ Improves(links, goal, here, s, r)
    /\ \A p \in Ways(links, goal, here) : Len(p) > r.clip

\* A way goes on to a child of the last node and, unless it ends there, leads on from it.
LEMMA WaysAre ==
    ASSUME NEW links, NEW nodes, IsFiniteSet(nodes), links \in [nodes -> Seq(nodes)], NEW goal,
           NEW here \in Paths(nodes), NEW p \in Ways(links, goal, here)
    PROVE  /\ p \in Paths(nodes) /\ p \in Seq(nodes) /\ Walk(links, p) /\ Len(p) \in Nat /\ Len(p) > Len(here) /\ p[Len(p)] = goal
           /\ \A i \in 1 .. Len(here) : p[i] = here[i]
           /\ p[Len(here) + 1] \in nodes \ ToSet(here)
           /\ p[Len(here) + 1] \in ToSet(links[Last(here)])
           /\ p[Len(here) + 1] # goal => p \in Ways(links, goal, Append(here, p[Len(here) + 1]))
<1> DEFINE n == Len(here)
           c == p[n + 1]
<1>0. DOMAIN links = nodes  OBVIOUS
<1>1. /\ p \in Paths(nodes) /\ Walk(links, p) /\ Len(p) > n /\ p[Len(p)] = goal
      /\ \A i \in 1 .. n : p[i] = here[i]
  BY <1>0 DEF Ways
<1>2. p \in Seq(nodes) /\ Len(p) \in Nat /\ \A i, j \in 1 .. Len(p) : p[i] = p[j] => i = j
  BY <1>1, PathIs
<1>3. here \in Seq(nodes) /\ n \in Nat /\ n >= 1 /\ DOMAIN here = 1 .. n /\ Last(here) = here[n]
  BY PathIs
<1>4. n + 1 \in 1 .. Len(p) /\ n \in 1 .. Len(p) - 1 /\ n \in 1 .. n /\ \A i \in 1 .. n : i \in 1 .. Len(p) /\ i # n + 1
  BY <1>1, <1>2, <1>3, SMT
<1>5. c \in nodes
  <2>1. p \in [1 .. Len(p) -> nodes]  BY <1>2, LenProperties
  <2> QED  BY <1>4, <2>1
<1> HIDE DEF n
<1>6. c \notin ToSet(here)
  <2> SUFFICES ASSUME NEW i \in 1 .. n, here[i] = c PROVE FALSE  BY <1>3 DEF ToSet
  <2>1. p[i] = p[n + 1]  BY <1>1
  <2> QED  BY <1>2, <1>4, <2>1
<1>7. c \in ToSet(links[Last(here)])
  <2>1. p[n + 1] \in ToSet(links[p[n]])  BY <1>1, <1>4, Zenon DEF Walk
  <2>2. p[n] = here[n]  BY <1>1, <1>4
  <2> QED  BY <1>3, <2>1, <2>2
<1>8. ASSUME c # goal PROVE p \in Ways(links, goal, Append(here, c))
  <2> DEFINE next == Append(here, c)
  <2>1. Len(next) = n + 1 /\ (\A i \in 1 .. n : next[i] = here[i]) /\ next[n + 1] = c
    BY <1>5, <1>6, PathGoesOn DEF n
  <2> HIDE DEF next
  <2>2. Len(p) # n + 1  BY <1>1, <1>8
  <2>3. Len(p) > Len(next)  BY <1>1, <1>2, <1>3, <2>1, <2>2, SMT
  <2>4. ASSUME NEW i \in 1 .. Len(next) PROVE p[i] = next[i]
    <3>1. i \in 1 .. n \/ i = n + 1  BY <1>3, <2>1, SMT
    <3> QED  BY <1>1, <2>1, <3>1
  <2> QED  BY <1>0, <1>1, <2>3, <2>4 DEF Ways, next
<1> QED  BY <1>1, <1>2, <1>5, <1>6, <1>7, <1>8 DEF n

\* What leads on from the next node leads on from here.
LEMMA WaysOfChild ==
    ASSUME NEW links, NEW nodes, IsFiniteSet(nodes), links \in [nodes -> Seq(nodes)], NEW goal,
           NEW here \in Paths(nodes), NEW c \in nodes, c \notin ToSet(here)
    PROVE  \A p \in Ways(links, goal, Append(here, c)) : p \in Ways(links, goal, here) /\ Len(p) \in Nat /\ Len(p) > Len(here) + 1
<1> SUFFICES ASSUME NEW p \in Ways(links, goal, Append(here, c))
             PROVE  p \in Ways(links, goal, here) /\ Len(p) \in Nat /\ Len(p) > Len(here) + 1
  OBVIOUS
<1> DEFINE n == Len(here)
           next == Append(here, c)
<1>1. next \in Paths(nodes) /\ Len(next) = n + 1 /\ \A i \in 1 .. n : next[i] = here[i]  BY PathGoesOn
<1>2. n \in Nat  BY PathIs
<1>3. /\ p \in Paths(nodes) /\ Walk(links, p) /\ Len(p) \in Nat /\ Len(p) > Len(next) /\ p[Len(p)] = goal
      /\ \A i \in 1 .. Len(next) : p[i] = next[i]
  <2>1. \A q \in Paths(nodes) : \A w \in Ways(links, goal, q) :
          /\ w \in Paths(nodes) /\ Walk(links, w) /\ Len(w) \in Nat /\ Len(w) > Len(q) /\ w[Len(w)] = goal
          /\ \A i \in 1 .. Len(q) : w[i] = q[i]
    BY WaysAre
  <2> QED  BY <1>1, <2>1, Zenon
<1> HIDE DEF n, next
<1>4. Len(p) > n /\ Len(p) > n + 1  BY <1>1, <1>2, <1>3, SMT
<1>5. \A i \in 1 .. n : p[i] = here[i]
  <2>1. \A i \in 1 .. n : i \in 1 .. Len(next)  BY <1>1, <1>2, SMT
  <2> QED  BY <1>1, <1>3, <2>1
<1> QED  BY <1>3, <1>4, <1>5 DEF Ways, n

\* One step further is a way itself.
LEMMA StepIsWay ==
    ASSUME NEW links, NEW nodes, IsFiniteSet(nodes), links \in [nodes -> Seq(nodes)],
           NEW here \in Paths(nodes), Walk(links, here), NEW c \in nodes, c \notin ToSet(here),
           c \in ToSet(links[Last(here)])
    PROVE  /\ Walk(links, Append(here, c)) /\ Append(here, c) \in Paths(nodes)
           /\ Append(here, c) \in Ways(links, c, here)
<1> DEFINE n == Len(here)
           next == Append(here, c)
<1>1. /\ next \in Paths(nodes) /\ Len(next) = n + 1 /\ next[n + 1] = c
      /\ \A i \in 1 .. n : next[i] = here[i]
  BY PathGoesOn
<1>2. n \in Nat /\ n >= 1 /\ Last(here) = here[n]  BY PathIs
<1>3. Walk(links, here)  OBVIOUS
<1> HIDE DEF n, next
<1>4. ASSUME NEW i \in 1 .. n PROVE next[i + 1] \in ToSet(links[next[i]])
  <2>1. CASE i = n  BY <1>1, <1>2, <2>1
  <2>2. CASE i # n
    <3>1. i \in 1 .. n - 1 /\ i + 1 \in 1 .. n  BY <1>2, <2>2, SMT
    <3>2. here[i + 1] \in ToSet(links[here[i]])  BY <1>3, <3>1, Zenon DEF Walk, n
    <3> QED  BY <1>1, <3>1, <3>2
  <2> QED  BY <2>1, <2>2
<1>5. Len(next) - 1 = n /\ Len(next) > n  BY <1>1, <1>2, SMT
<1>6. Walk(links, next)  BY <1>4, <1>5, Zenon DEF Walk
<1> QED  BY <1>1, <1>5, <1>6 DEF Ways, n, next

\* After the first i children: what has been found is the best by way of them.
Found(links, goal, here, s, i, r) ==
    /\ r \in Searches(DOMAIN links)
    /\ r.found => r.clip = Len(here) /\ Len(r.best) = r.clip + 1 /\ r.best \in Ways(links, goal, here)
    /\ ~r.found => /\ r.clip > Len(here) /\ Improves(links, goal, here, s, r)
                   /\ \A p \in Ways(links, goal, here) :
                        (\E j \in 1 .. i : p[Len(here) + 1] = links[Last(here)][j]) => Len(p) > r.clip

LEMMA SearchIs ==
    ASSUME NEW nodes, NEW s \in Searches(nodes)
    PROVE  s.clip \in Nat /\ s.best \in Seq(nodes) /\ s.found \in BOOLEAN
BY DEF Searches

\* One more child.
LEMMA VisitFinds ==
    ASSUME NEW links, NEW nodes, IsFiniteSet(nodes), links \in [nodes -> Seq(nodes)], NEW goal \in nodes,
           NEW here \in Paths(nodes), Walk(links, here), NEW find,
           \A c \in ToSet(links[Last(here)]) : c \in nodes \ ToSet(here) =>
               \A s \in Searches(nodes) : ~s.found => Answers(links, goal, Append(here, c), s, find[Append(here, c)][s]),
           NEW s \in Searches(nodes), NEW i \in 1 .. Len(links[Last(here)]), NEW a,
           Found(links, goal, here, s, i - 1, a)
    PROVE  Found(links, goal, here, s, i, Visit(find, here, goal, a, links[Last(here)][i]))
<1> DEFINE kids == links[Last(here)]
           c == kids[i]
           r == Visit(find, here, goal, a, c)
           n == Len(here)
           W == Ways(links, goal, here)
<1>0. DOMAIN links = nodes  OBVIOUS
<1>1. n \in Nat /\ Last(here) \in nodes  BY PathIs
<1>2. kids \in Seq(nodes)  BY <1>1
<1>3. c \in nodes /\ c \in ToSet(kids)
  <2> HIDE DEF kids
  <2>1. Len(kids) \in Nat /\ DOMAIN kids = 1 .. Len(kids) /\ kids \in [1 .. Len(kids) -> nodes]  BY <1>2, LenProperties
  <2>2. i \in 1 .. Len(kids)  BY DEF kids
  <2> QED  BY <2>1, <2>2 DEF ToSet
<1>4. /\ a \in Searches(nodes)
      /\ a.found => a.clip = n /\ Len(a.best) = a.clip + 1 /\ a.best \in W
      /\ ~a.found => /\ a.clip > n /\ Improves(links, goal, here, s, a)
                     /\ \A p \in W : (\E j \in 1 .. i - 1 : p[n + 1] = kids[j]) => Len(p) > a.clip
  BY <1>0, Zenon DEF Found
<1>5. \A p \in W : /\ p[n + 1] \in nodes \ ToSet(here) /\ Len(p) \in Nat /\ Len(p) > n
                   /\ p[n + 1] # goal => p \in Ways(links, goal, Append(here, p[n + 1]))
  BY WaysAre
<1>6. i \in Nat /\ \A j \in 1 .. i : j \in 1 .. i - 1 \/ j = i
  <2>1. i \in Nat  BY <1>2, LenProperties
  <2> QED  BY <2>1, SMT
<1>7. \A s1 \in Searches(nodes) : s1.clip \in Nat /\ s1.best \in Seq(nodes) /\ s1.found \in BOOLEAN  BY SearchIs
<1>8. ASSUME c \notin ToSet(here), NEW s1 \in Searches(nodes), ~s1.found
      PROVE  Answers(links, goal, Append(here, c), s1, find[Append(here, c)][s1])
  BY <1>3, <1>8
<1>9. c \notin ToSet(here) => /\ Append(here, c) \in Ways(links, c, here) /\ Append(here, c) \in Seq(nodes)
                              /\ Len(Append(here, c)) = n + 1
  <2> SUFFICES ASSUME c \notin ToSet(here) PROVE /\ Append(here, c) \in Ways(links, c, here) /\ Append(here, c) \in Seq(nodes)
                                                 /\ Len(Append(here, c)) = n + 1
    OBVIOUS
  <2>1. Append(here, c) \in Ways(links, c, here)
    <3> HIDE DEF c
    <3> QED  BY <1>3, StepIsWay
  <2>2. here \in Seq(nodes)  BY PathIs
  <2> QED  BY <1>3, <2>1, <2>2, AppendProperties
<1>10. c \notin ToSet(here) => \A p \in Ways(links, goal, Append(here, c)) : p \in W /\ Len(p) \in Nat /\ Len(p) > n + 1
  <2> HIDE DEF c
  <2> QED  BY <1>3, WaysOfChild
<1> HIDE DEF kids, c, n, W
<1> DEFINE Done(x) == Found(links, goal, here, s, i, x)
<1>11. \A x : Done(x) <=>
         /\ x \in Searches(nodes)
         /\ x.found => x.clip = n /\ Len(x.best) = x.clip + 1 /\ x.best \in W
         /\ ~x.found => /\ x.clip > n /\ Improves(links, goal, here, s, x)
                        /\ \A p \in W : (\E j \in 1 .. i : p[n + 1] = kids[j]) => Len(p) > x.clip
  BY <1>0, Zenon DEF Found, n, W, kids
<1> HIDE DEF Done
<1>12. CASE a.found
  <2>1. r = a  BY <1>12, Zenon DEF Visit
  <2>2. Done(a)  BY <1>4, <1>11, <1>12, Zenon
  <2> QED  BY <2>1, <2>2 DEF Done, c, kids
<1>13. CASE ~a.found /\ c \in ToSet(here)
  <2>1. r = a  BY <1>13, Zenon DEF Visit
  <2>2. ASSUME NEW p \in W, NEW j \in 1 .. i, p[n + 1] = kids[j] PROVE Len(p) > a.clip
    <3>1. j # i  BY <1>5, <1>13, <2>2 DEF c
    <3> QED  BY <1>4, <1>6, <1>13, <2>2, <3>1, Zenon
  <2>3. Done(a)  BY <1>4, <1>11, <1>13, <2>2, Zenon
  <2> QED  BY <2>1, <2>3 DEF Done, c, kids
<1>14. CASE ~a.found /\ c \notin ToSet(here) /\ c = goal
  <2> DEFINE p == Append(here, c)
             x == [clip |-> n, best |-> p, found |-> TRUE]
  <2>1. r = x  BY <1>14, Zenon DEF Visit, n
  <2>2. x \in Searches(nodes)  BY <1>1, <1>9, <1>14 DEF Searches
  <2>3. p \in W  BY <1>9, <1>14 DEF W
  <2>4. x.found /\ x.clip = n /\ x.best = p  OBVIOUS
  <2>5. Len(p) = n + 1  BY <1>9, <1>14
  <2> HIDE DEF x, p
  <2>6. Done(x)  BY <1>11, <2>2, <2>3, <2>4, <2>5, Zenon
  <2> QED  BY <2>1, <2>6 DEF Done, c, kids
<1>15. CASE ~a.found /\ c \notin ToSet(here) /\ c # goal
  <2> DEFINE x == find[Append(here, c)][a]
  <2>1. r = x  BY <1>15, Zenon DEF Visit
  <2>2. Answers(links, goal, Append(here, c), a, x)  BY <1>4, <1>8, <1>15
  <2> HIDE DEF x
  <2>3. /\ x \in Searches(nodes) /\ ~x.found /\ Improves(links, goal, Append(here, c), a, x)
        /\ \A p \in Ways(links, goal, Append(here, c)) : Len(p) > x.clip
    BY <1>0, <2>2, Zenon DEF Answers
  <2>4. \/ x.clip = a.clip /\ x.best = a.best
        \/ x.clip < a.clip /\ Len(x.best) = x.clip + 1 /\ x.best \in Ways(links, goal, Append(here, c))
    BY <2>3, Zenon DEF Improves
  <2>5. x.clip \in Nat /\ a.clip \in Nat /\ s.clip \in Nat  BY <1>4, <1>7, <2>3
  <2>6. a.clip > n  BY <1>4, <1>15
  <2>7. x.clip > n /\ x.clip <= a.clip
    <3>1. CASE x.clip = a.clip  BY <2>5, <2>6, <3>1, SMT
    <3>2. CASE x.clip < a.clip /\ Len(x.best) = x.clip + 1 /\ x.best \in Ways(links, goal, Append(here, c))
      <4>1. Len(x.best) > n + 1  BY <1>10, <1>15, <3>2
      <4>2. x.clip < a.clip /\ x.clip + 1 > n + 1  BY <3>2, <4>1
      <4> QED  BY <1>1, <2>5, <4>2, SMT DEF n
    <3> QED  BY <2>4, <3>1, <3>2
  <2>8. Improves(links, goal, here, s, x)
    <3>1. \/ a.clip = s.clip /\ a.best = s.best
          \/ a.clip < s.clip /\ Len(a.best) = a.clip + 1 /\ a.best \in W
      BY <1>4, <1>15, Zenon DEF Improves, W
    <3>2. CASE x.clip = a.clip /\ x.best = a.best
      <4>1. \/ x.clip = s.clip /\ x.best = s.best
            \/ x.clip < s.clip /\ Len(x.best) = x.clip + 1 /\ x.best \in W
        BY <3>1, <3>2
      <4> QED  BY <4>1, Zenon DEF Improves, W
    <3>3. CASE x.clip < a.clip /\ Len(x.best) = x.clip + 1 /\ x.best \in Ways(links, goal, Append(here, c))
      <4>1. x.best \in W  BY <1>10, <1>15, <3>3
      <4>2. a.clip = s.clip \/ a.clip < s.clip  BY <3>1
      <4>3. x.clip < s.clip  BY <2>5, <3>3, <4>2, SMT
      <4> QED  BY <3>3, <4>1, <4>3, Zenon DEF Improves, W
    <3> QED  BY <2>4, <3>2, <3>3
  <2>9. ASSUME NEW p \in W, NEW j \in 1 .. i, p[n + 1] = kids[j] PROVE Len(p) > x.clip
    <3>1. CASE j = i
      <4>1. p[n + 1] = c  BY <2>9, <3>1 DEF c
      <4>2. p \in Ways(links, goal, Append(here, c))  BY <1>5, <1>15, <4>1
      <4> QED  BY <2>3, <4>2
    <3>2. CASE j # i
      <4>1. j \in 1 .. i - 1  BY <1>6, <3>2, Zenon
      <4>2. Len(p) > a.clip  BY <1>4, <1>15, <2>9, <4>1, Zenon
      <4>3. Len(p) \in Nat  BY <1>5
      <4> QED  BY <2>5, <2>7, <4>2, <4>3, SMT
    <3> QED  BY <3>1, <3>2
  <2>10. Done(x)  BY <1>11, <2>3, <2>7, <2>8, <2>9, Zenon
  <2> QED  BY <2>1, <2>10 DEF Done, c, kids
<1> QED  BY <1>4, <1>12, <1>13, <1>14, <1>15

\* A call whose own calls find the best finds the best.
LEMMA CallFinds ==
    ASSUME NEW links, NEW nodes, IsFiniteSet(nodes), links \in [nodes -> Seq(nodes)], NEW goal \in nodes,
           NEW here \in Paths(nodes), Walk(links, here), NEW find,
           \A c \in ToSet(links[Last(here)]) : c \in nodes \ ToSet(here) =>
               \A s \in Searches(nodes) : ~s.found => Answers(links, goal, Append(here, c), s, find[Append(here, c)][s]),
           NEW s \in Searches(nodes), ~s.found
    PROVE  Answers(links, goal, here, s, Call(links, goal, find, here)[s])
<1> DEFINE kids == links[Last(here)]
           m == Len(kids)
           n == Len(here)
           r == Call(links, goal, find, here)[s]
           W == Ways(links, goal, here)
<1>0. DOMAIN links = nodes  OBVIOUS
<1>1. n \in Nat /\ n >= 1 /\ Last(here) \in nodes  BY PathIs
<1>2. kids \in Seq(nodes)  BY <1>1
<1>3. m \in Nat /\ DOMAIN kids = 1 .. m  BY <1>2, LenProperties
<1>4. r = IF Clipped(here, s) THEN s ELSE [Visits(find, here, goal, s, kids) EXCEPT !.found = FALSE]
  BY <1>0, Zenon DEF Call
<1>5. s.clip \in Nat /\ s.best \in Seq(nodes)  BY SearchIs
<1>6. \A p \in W : /\ Len(p) \in Nat /\ Len(p) > n /\ p[n + 1] \in ToSet(kids)
  BY WaysAre
<1>7. ASSUME Clipped(here, s) PROVE Answers(links, goal, here, s, r)
  <2>1. n >= s.clip  BY <1>7 DEF Clipped
  <2>2. \A p \in W : Len(p) > s.clip
    <3> SUFFICES ASSUME NEW p \in W PROVE Len(p) > s.clip  OBVIOUS
    <3>1. Len(p) \in Nat /\ Len(p) > n  BY <1>6
    <3> HIDE DEF n
    <3> QED  BY <1>1, <1>5, <2>1, <3>1, SMT
  <2>3. r = s  BY <1>4, <1>7
  <2> QED  BY <1>0, <2>2, <2>3, Zenon DEF Answers, Improves
<1>8. ASSUME ~Clipped(here, s) PROVE Answers(links, goal, here, s, r)
  <2>1. n < s.clip
    <3>1. ~(n >= s.clip)  BY <1>8 DEF Clipped
    <3> HIDE DEF n
    <3> QED  BY <1>1, <1>5, <3>1, SMT
  <2> DEFINE F(i, x) == Found(links, goal, here, s, i, x)
  <2>2. F(0, s)
    <3>1. \A p \in W : ~(\E j \in 1 .. 0 : p[Len(here) + 1] = links[Last(here)][j])  OBVIOUS
    <3>2. s.clip > Len(here)  BY <1>1, <1>5, <2>1, SMT
    <3> QED  BY <1>0, <3>1, <3>2, Zenon DEF Found, Improves
  <2>3. PICK P : Passes(find, here, goal, s, kids, m, P)
    <3> HIDE DEF kids, m
    <3> QED  BY <1>3, VisitsAre, Zenon
  <2>4. /\ P[0] = s /\ \A i \in 1 .. m : P[i] = Visit(find, here, goal, P[i - 1], kids[i])
        /\ Visits(find, here, goal, s, kids) = P[m]
    BY <2>3, Zenon DEF Passes
  <2>5. ASSUME NEW i \in 1 .. m, NEW a, F(i - 1, a) PROVE F(i, Visit(find, here, goal, a, kids[i]))
    BY <2>5, VisitFinds
  <2> DEFINE S == {k \in Nat : k <= m => F(k, P[k])}
  <2> HIDE DEF F, kids, m
  <2>6. 0 \in S  BY <2>2, <2>4
  <2>7. ASSUME NEW k \in Nat, k \in S PROVE k + 1 \in S
    <3>1. SUFFICES ASSUME k + 1 <= m PROVE F(k + 1, P[k + 1])  OBVIOUS
    <3>2. k + 1 \in 1 .. m /\ k <= m /\ (k + 1) - 1 = k  BY <1>3, <3>1, SMT
    <3>3. F(k, P[k])  BY <2>7, <3>2
    <3>4. P[k + 1] = Visit(find, here, goal, P[k], kids[k + 1])  BY <2>4, <3>2
    <3> QED  BY <2>5, <3>2, <3>3, <3>4
  <2>8. m \in S
    <3> HIDE DEF S
    <3> QED  BY <1>3, <2>6, <2>7, UpFromZero, Zenon
  <2> DEFINE x == P[m]
             y == [x EXCEPT !.found = FALSE]
  <2>9. F(m, x)
    <3>1. m <= m  BY <1>3, SMT
    <3> QED  BY <2>8, <3>1
  <2> HIDE DEF x
  <2>10. /\ x \in Searches(nodes)
         /\ x.found => x.clip = n /\ Len(x.best) = x.clip + 1 /\ x.best \in W
         /\ ~x.found => /\ Improves(links, goal, here, s, x)
                        /\ \A p \in W : (\E j \in 1 .. m : p[n + 1] = kids[j]) => Len(p) > x.clip
    BY <1>0, <2>9, Zenon DEF Found, F, kids
  <2>11. r = y  BY <1>4, <1>8, <2>4, Zenon DEF x
  <2>12. y \in Searches(nodes) /\ y.clip = x.clip /\ y.best = x.best /\ ~y.found
    BY <2>10 DEF Searches
  <2>13. x.clip \in Nat  BY <2>10, SearchIs
  <2> HIDE DEF y
  <2>14. CASE x.found
    <3>1. x.clip < s.clip  BY <2>1, <2>10, <2>14
    <3>2. Improves(links, goal, here, s, y)  BY <2>10, <2>12, <2>14, <3>1, Zenon DEF Improves
    <3>3. \A p \in W : Len(p) > y.clip  BY <1>6, <2>10, <2>12, <2>14
    <3> QED  BY <1>0, <2>11, <2>12, <3>2, <3>3, Zenon DEF Answers
  <2>15. CASE ~x.found
    <3>1. Improves(links, goal, here, s, y)  BY <2>10, <2>12, <2>15, Zenon DEF Improves
    <3>2. ASSUME NEW p \in W PROVE Len(p) > y.clip
      <4>1. \E j \in 1 .. m : p[n + 1] = kids[j]  BY <1>3, <1>6 DEF ToSet
      <4> QED  BY <2>10, <2>12, <2>15, <4>1, Zenon
    <3> QED  BY <1>0, <2>11, <2>12, <3>1, <3>2, Zenon DEF Answers
  <2> QED  BY <2>14, <2>15
<1> QED  BY <1>7, <1>8

\* Every call does: by induction on how far its path may still grow.
LEMMA SearchFinds ==
    ASSUME NEW links, NEW nodes, IsFiniteSet(nodes), links \in [nodes -> Seq(nodes)], NEW goal \in nodes
    PROVE  \A here \in Paths(nodes) : Walk(links, here) =>
               \A s \in Searches(nodes) : ~s.found => Answers(links, goal, here, s, FindFrom(links, goal)[here][s])
<1> DEFINE find == FindFrom(links, goal)
           N == Cardinality(nodes)
           Good(here) == \A s \in Searches(nodes) : ~s.found => Answers(links, goal, here, s, find[here][s])
           S == {m \in Nat : \A here \in Paths(nodes) : Walk(links, here) /\ m + Len(here) > N => Good(here)}
<1>1. N \in Nat /\ \A here \in Paths(nodes) : Len(here) \in Nat /\ Len(here) <= N
  <2>1. N \in Nat  BY FS_CardinalityType
  <2> QED  BY <2>1, PathIs
<1>2. \A here \in Paths(nodes) : find[here] = Call(links, goal, find, here)  BY FindUnfolds
<1> HIDE DEF find, N
<1>3. 0 \in S
  <2>1. \A here \in Paths(nodes) : ~(0 + Len(here) > N)  BY <1>1, SMT
  <2> QED  BY <2>1
<1>4. ASSUME NEW m \in Nat, m \in S PROVE m + 1 \in S
  <2>1. ASSUME NEW here \in Paths(nodes), Walk(links, here), m + 1 + Len(here) > N PROVE Good(here)
    <3>1. ASSUME NEW c \in ToSet(links[Last(here)]), c \in nodes \ ToSet(here) PROVE Good(Append(here, c))
      <4>1. Append(here, c) \in Paths(nodes) /\ Walk(links, Append(here, c))  BY <2>1, <3>1, StepIsWay
      <4>2. Len(Append(here, c)) = Len(here) + 1  BY <3>1, PathGoesOn
      <4>3. m + Len(Append(here, c)) > N  BY <1>1, <2>1, <4>2, SMT
      <4> QED  BY <1>4, <4>1, <4>3
    <3>2. ASSUME NEW s \in Searches(nodes), ~s.found PROVE Answers(links, goal, here, s, Call(links, goal, find, here)[s])
      BY <2>1, <3>1, <3>2, CallFinds
    <3> QED  BY <1>2, <3>2, Zenon
  <2>2. m + 1 \in Nat  BY SMT
  <2> QED  BY <2>1, <2>2
<1>5. N + 1 \in S
  <2>1. N + 1 \in Nat  BY <1>1, SMT
  <2> HIDE DEF S
  <2> QED  BY <1>3, <1>4, <2>1, UpFromZero, Zenon
<1>6. \A here \in Paths(nodes) : N + 1 + Len(here) > N  BY <1>1, SMT
<1> QED  BY <1>5, <1>6, Zenon DEF find

(***************************************************************************)
(* The reference: the nodes within k links are those to which a walk leads *)
(* that has no more; and the shortest walk to a node visits none twice.    *)
(***************************************************************************)
\* The walks between two nodes of at most k links.
Walks(links, nodes, from, goal) ==
    {p \in Seq(nodes) : p # <<>> /\ Walk(links, p) /\ p[1] = from /\ p[Len(p)] = goal}
Near(links, nodes, from, k) == {x \in nodes : \E p \in Walks(links, nodes, from, x) : Len(p) <= k + 1}

LEMMA SeqIs ==
    ASSUME NEW S, NEW p \in Seq(S)
    PROVE  Len(p) \in Nat /\ DOMAIN p = 1 .. Len(p) /\ (\A i \in 1 .. Len(p) : p[i] \in S) /\ (p # <<>> <=> Len(p) >= 1)
<1>1. Len(p) \in Nat /\ DOMAIN p = 1 .. Len(p) /\ \A i \in 1 .. Len(p) : p[i] \in S  BY LenProperties
<1>2. p = <<>> <=> Len(p) = 0  BY EmptySeq
<1> QED  BY <1>1, <1>2, SMT

\* With no link a node is near only to itself.
LEMMA NearAtFirst ==
    ASSUME NEW links, NEW nodes, NEW from \in nodes
    PROVE  Near(links, nodes, from, 0) = {from}
<1>1. from \in Near(links, nodes, from, 0)
  <2> DEFINE p == <<from>>
  <2>1. p \in Seq(nodes) /\ p # <<>> /\ Len(p) = 1 /\ p[1] = from  OBVIOUS
  <2> HIDE DEF p
  <2>2. Walk(links, p)  BY <2>1 DEF Walk
  <2>3. p \in Walks(links, nodes, from, from)  BY <2>1, <2>2 DEF Walks
  <2>4. Len(p) <= 0 + 1  BY <2>1
  <2> QED  BY <2>3, <2>4, Zenon DEF Near
<1>2. ASSUME NEW x \in Near(links, nodes, from, 0) PROVE x = from
  <2>1. PICK p \in Walks(links, nodes, from, x) : Len(p) <= 0 + 1  BY Zenon DEF Near
  <2>2. p \in Seq(nodes) /\ p # <<>> /\ p[1] = from /\ p[Len(p)] = x  BY DEF Walks
  <2>3. Len(p) \in Nat /\ Len(p) >= 1  BY <2>2, SeqIs
  <2>4. Len(p) = 1
    <3> DEFINE n == Len(p)
    <3>1. n \in Nat /\ n >= 1 /\ n <= 0 + 1  BY <2>1, <2>3
    <3> HIDE DEF n
    <3>2. n = 1  BY <3>1, SMT
    <3> QED  BY <3>2 DEF n
  <2> QED  BY <2>2, <2>4
<1> QED  BY <1>1, <1>2

\* ... and with one more to what its links lead to.
LEMMA NearGrows ==
    ASSUME NEW links, NEW nodes, links \in [nodes -> Seq(nodes)], NEW from \in nodes, NEW k \in Nat
    PROVE  Near(links, nodes, from, k + 1)
           = Near(links, nodes, from, k) \cup UNION {ToSet(links[n]) : n \in Near(links, nodes, from, k)}
<1> DEFINE A == Near(links, nodes, from, k)
<1>1. ASSUME NEW x \in Near(links, nodes, from, k + 1), x \notin A PROVE \E n \in A : x \in ToSet(links[n])
  <2>1. PICK p \in Walks(links, nodes, from, x) : Len(p) <= k + 1 + 1  BY <1>1, Zenon DEF Near
  <2>2. p \in Seq(nodes) /\ p # <<>> /\ Walk(links, p) /\ p[1] = from /\ p[Len(p)] = x  BY DEF Walks
  <2>3. Len(p) \in Nat /\ \A i \in 1 .. Len(p) : p[i] \in nodes  BY <2>2, SeqIs
  <2>4. x \in nodes  BY <1>1 DEF Near
  <2>5. ~(Len(p) <= k + 1)  BY <1>1, <2>4, Zenon DEF Near
  <2>6. Len(p) = k + 2  BY <2>1, <2>3, <2>5, SMT
  <2> DEFINE q == SubSeq(p, 1, k + 1)
  <2>7. \A i \in 1 .. k + 1 : p[i] \in nodes /\ i \in 1 .. Len(p)  BY <2>3, <2>6, SMT
  <2>8. q \in Seq(nodes) /\ Len(q) = k + 1 /\ \A i \in 1 .. k + 1 : q[i] = p[i]
    <3>1. 1 \in Int /\ k + 1 \in Int /\ 1 <= k + 1 /\ k + 1 - 1 + 1 = k + 1 /\ \A i \in 1 .. k + 1 : 1 + i - 1 = i  BY SMT
    <3>2. /\ q \in Seq(nodes) /\ Len(q) = IF 1 <= k + 1 THEN k + 1 - 1 + 1 ELSE 0
          /\ \A i \in 1 .. k + 1 - 1 + 1 : q[i] = p[1 + i - 1]
      BY <2>7, <3>1, SubSeqProperties
    <3> QED  BY <3>1, <3>2
  <2> HIDE DEF q
  <2>9. \A i \in 1 .. Len(q) - 1 : i \in 1 .. k + 1 /\ i + 1 \in 1 .. k + 1 /\ i \in 1 .. Len(p) - 1  BY <2>6, <2>8, SMT
  <2>10. Walk(links, q)
    <3> SUFFICES ASSUME NEW i \in 1 .. Len(q) - 1 PROVE q[i + 1] \in ToSet(links[q[i]])  BY DEF Walk
    <3>1. p[i + 1] \in ToSet(links[p[i]])  BY <2>2, <2>9 DEF Walk
    <3> QED  BY <2>8, <2>9, <3>1
  <2>11. 1 \in 1 .. k + 1 /\ k + 1 \in 1 .. k + 1 /\ k + 1 \in 1 .. Len(p) - 1 /\ (k + 1) + 1 = Len(p)  BY <2>6, SMT
  <2>12. q # <<>>  BY <2>8, SeqIs, <2>11
  <2>13. q[1] = from /\ q[Len(q)] = p[k + 1]  BY <2>2, <2>8, <2>11
  <2>14. q \in Walks(links, nodes, from, p[k + 1])  BY <2>8, <2>10, <2>12, <2>13 DEF Walks
  <2>15. Len(q) <= k + 1  BY <2>8, <2>11, SMT
  <2>16. p[k + 1] \in A  BY <2>7, <2>11, <2>14, <2>15 DEF Near
  <2>17. p[(k + 1) + 1] \in ToSet(links[p[k + 1]])  BY <2>2, <2>11, Zenon DEF Walk
  <2> QED  BY <2>2, <2>11, <2>16, <2>17
<1>2. ASSUME NEW x \in A PROVE x \in Near(links, nodes, from, k + 1)
  <2>1. PICK p \in Walks(links, nodes, from, x) : Len(p) <= k + 1  BY Zenon DEF Near
  <2>2. Len(p) \in Nat  BY SeqIs DEF Walks
  <2>3. Len(p) <= k + 1 + 1  BY <2>1, <2>2, SMT
  <2> QED  BY <2>3 DEF Near
<1>3. ASSUME NEW n \in A, NEW x \in ToSet(links[n]) PROVE x \in Near(links, nodes, from, k + 1)
  <2>1. PICK p \in Walks(links, nodes, from, n) : Len(p) <= k + 1  BY Zenon DEF Near
  <2>2. p \in Seq(nodes) /\ p # <<>> /\ Walk(links, p) /\ p[1] = from /\ p[Len(p)] = n  BY DEF Walks
  <2>3. Len(p) \in Nat /\ Len(p) >= 1  BY <2>2, SeqIs
  <2>4. n \in nodes  BY DEF Near
  <2>5. x \in nodes
    <3>1. links[n] \in Seq(nodes)  BY <2>4
    <3> QED  BY <3>1, SeqIs DEF ToSet
  <2> DEFINE q == Append(p, x)
             m == Len(p)
  <2>6. /\ q \in Seq(nodes) /\ Len(q) = m + 1
        /\ \A i \in 1 .. m : q[i] = p[i]
        /\ q[m + 1] = x
    <3>1. p \in Seq(nodes)  BY <2>2
    <3> QED  BY <2>5, <3>1, AppendProperties
  <2> HIDE DEF q, m
  <2>7. m \in Nat /\ m >= 1 /\ q # <<>>
    <3>1. m \in Nat /\ m >= 1  BY <2>3 DEF m
    <3>2. m + 1 >= 1  BY <3>1, SMT
    <3> QED  BY <2>6, <3>1, <3>2, SeqIs
  <2>8. Walk(links, q)
    <3> SUFFICES ASSUME NEW i \in 1 .. Len(q) - 1 PROVE q[i + 1] \in ToSet(links[q[i]])  BY DEF Walk
    <3>1. CASE i = m  BY <2>2, <2>6, <2>7, <3>1 DEF m
    <3>2. CASE i # m
      <4>1. i \in 1 .. m - 1 /\ i \in 1 .. m /\ i + 1 \in 1 .. m  BY <2>6, <2>7, <3>2, SMT
      <4>2. p[i + 1] \in ToSet(links[p[i]])  BY <2>2, <4>1, Zenon DEF Walk, m
      <4> QED  BY <2>6, <4>1, <4>2
    <3> QED  BY <3>1, <3>2
  <2>9. q[1] = from /\ q[Len(q)] = x
    <3>1. 1 \in 1 .. m  BY <2>7, SMT
    <3> QED  BY <2>2, <2>6, <3>1
  <2>10. q \in Walks(links, nodes, from, x)  BY <2>6, <2>7, <2>8, <2>9 DEF Walks
  <2>11. Len(q) <= k + 1 + 1  BY <2>1, <2>6, <2>7, SMT DEF m
  <2> QED  BY <2>5, <2>10, <2>11 DEF Near
<1>4. \A x : x \in UNION {ToSet(links[n]) : n \in A} <=> \E n \in A : x \in ToSet(links[n])  OBVIOUS
<1> HIDE DEF A
<1>5. \A x : x \in Near(links, nodes, from, k + 1) <=> x \in A \cup UNION {ToSet(links[n]) : n \in A}
  BY <1>1, <1>2, <1>3, <1>4, Zenon
<1> QED  BY <1>5 DEF A

\* The layers of the reference are the nodes that are near.
LEMMA LayersAre ==
    ASSUME NEW links, NEW nodes, links \in [nodes -> Seq(nodes)], NEW from \in nodes
    PROVE  \A k \in Nat : Layer(links, from)[k] = Near(links, nodes, from, k)
<1> DEFINE Out(S) == UNION {ToSet(links[n]) : n \in S}
           By(f) == [k \in Nat |-> IF k = 0 THEN {from} ELSE f[k - 1] \cup Out(f[k - 1])]
           near == [k \in Nat |-> Near(links, nodes, from, k)]
           it == Layer(links, from)
<1>1. it = CHOOSE f : f = By(f)
  BY Zenon DEF Layer
<1> HIDE DEF Out
<1>2. near = By(near)
  <2>1. ASSUME NEW k \in Nat PROVE near[k] = By(near)[k]
    <3>1. CASE k = 0
      <4>1. Near(links, nodes, from, 0) = {from}  BY NearAtFirst
      <4> QED  BY <3>1, <4>1
    <3>2. CASE k # 0
      <4>1. k - 1 \in Nat /\ (k - 1) + 1 = k  BY <3>2, SMT
      <4>2. Near(links, nodes, from, (k - 1) + 1) = Near(links, nodes, from, k - 1) \cup Out(Near(links, nodes, from, k - 1))
        <5>1. \A m \in Nat : Near(links, nodes, from, m + 1) = Near(links, nodes, from, m) \cup Out(Near(links, nodes, from, m))
          BY NearGrows DEF Out
        <5> QED  BY <4>1, <5>1, Zenon
      <4> QED  BY <3>2, <4>1, <4>2
    <3> QED  BY <3>1, <3>2
  <2>2. near = [k \in Nat |-> near[k]] /\ By(near) = [k \in Nat |-> By(near)[k]]  BY Zenon
  <2> HIDE DEF near, By
  <2>3. [k \in Nat |-> near[k]] = [k \in Nat |-> By(near)[k]]  BY <2>1
  <2> QED  BY <2>2, <2>3, Zenon
<1>3. it = By(it)
  <2>1. \E f : f = By(f)  BY <1>2, Zenon
  <2> HIDE DEF By
  <2> QED  BY <1>1, <2>1, Zenon
<1> HIDE DEF it
<1> DEFINE S == {k \in Nat : it[k] = near[k]}
<1>4. \A f : By(f)[0] = {from} /\ \A k \in Nat : By(f)[k + 1] = f[k] \cup Out(f[k])
  <2> SUFFICES ASSUME NEW f PROVE By(f)[0] = {from} /\ \A k \in Nat : By(f)[k + 1] = f[k] \cup Out(f[k])  OBVIOUS
  <2>1. By(f)[0] = {from}  OBVIOUS
  <2>2. ASSUME NEW k \in Nat PROVE By(f)[k + 1] = f[k] \cup Out(f[k])
    <3>1. k + 1 \in Nat /\ k + 1 # 0 /\ (k + 1) - 1 = k  BY SMT
    <3>2. By(f)[k + 1] = f[(k + 1) - 1] \cup Out(f[(k + 1) - 1])  BY <3>1, Zenon
    <3> QED  BY <3>1, <3>2
  <2> QED  BY <2>1, <2>2
<1> HIDE DEF By, near
<1>5. 0 \in S  BY <1>2, <1>3, <1>4
<1>6. ASSUME NEW k \in Nat, k \in S PROVE k + 1 \in S
  <2>1. it[k] = near[k]  BY <1>6
  <2>2. it[k + 1] = it[k] \cup Out(it[k])  BY <1>3, <1>4, Zenon
  <2>3. near[k + 1] = near[k] \cup Out(near[k])  BY <1>2, <1>4, Zenon
  <2>4. it[k + 1] = near[k + 1]  BY <2>1, <2>2, <2>3, Zenon
  <2> QED  BY <2>4
<1>7. \A k \in Nat : k \in S
  <2> HIDE DEF S
  <2> QED  BY <1>5, <1>6, UpFromZero, Zenon
<1> QED  BY <1>7 DEF near, it

\* A walk that comes to a node twice can do without what it walks between.
LEMMA ShortCut ==
    ASSUME NEW links, NEW nodes, NEW from, NEW goal, NEW p \in Walks(links, nodes, from, goal),
           NEW i \in 1 .. Len(p), NEW j \in 1 .. Len(p), i < j, p[i] = p[j]
    PROVE  \E q \in Walks(links, nodes, from, goal) : Len(q) < Len(p)
<1> DEFINE m == Len(p)
           d == j - i
           n == m - d
           q == [x \in 1 .. n |-> IF x <= i THEN p[x] ELSE p[x + d]]
<1>1. p \in Seq(nodes) /\ p # <<>> /\ p[1] = from /\ p[m] = goal
      /\ \A x \in 1 .. m - 1 : p[x + 1] \in ToSet(links[p[x]])
  BY Zenon DEF Walks, Walk
<1>2. m \in Nat /\ \A x \in 1 .. m : p[x] \in nodes  BY <1>1, SeqIs
<1>3. i \in 1 .. m /\ j \in 1 .. m /\ i \in Nat /\ j \in Nat  BY <1>2, SMT
<1> HIDE DEF m
<1>4. /\ d \in Nat /\ d >= 1 /\ n \in Nat /\ n >= 1 /\ n < m /\ i <= n /\ i + d = j
      /\ 1 \in 1 .. n /\ n \in 1 .. n /\ 1 <= i /\ n + d = m
      /\ \A x \in 1 .. n : (x <= i => x \in 1 .. m) /\ (~(x <= i) => x + d \in 1 .. m)
  BY <1>2, <1>3, SMT
<1>5. \A x \in 1 .. n : q[x] = IF x <= i THEN p[x] ELSE p[x + d]  OBVIOUS
<1>6. q \in [1 .. n -> nodes]
  <2>1. \A x \in 1 .. n : (IF x <= i THEN p[x] ELSE p[x + d]) \in nodes  BY <1>2, <1>4
  <2> QED  BY <2>1
<1> HIDE DEF q, d, n
<1>7. q \in Seq(nodes) /\ Len(q) = n
  BY <1>4, <1>6, LenProperties, SMT
<1>8. q # <<>>  BY <1>4, <1>7, SeqIs
<1>9. q[1] = from  BY <1>1, <1>4, <1>5
<1>10. q[n] = goal
  <2>1. CASE n = i
    <3>1. j = m  BY <1>4, <2>1, SMT
    <3>2. q[n] = p[i]  BY <1>4, <1>5, <2>1
    <3> QED  BY <1>1, <3>1, <3>2
  <2>2. CASE n # i
    <3>1. ~(n <= i)  BY <1>3, <1>4, <2>2, SMT
    <3> QED  BY <1>1, <1>4, <1>5, <3>1
  <2> QED  BY <2>1, <2>2
<1>11. ASSUME NEW x \in 1 .. n - 1 PROVE q[x + 1] \in ToSet(links[q[x]])
  <2>0. x \in 1 .. n /\ x + 1 \in 1 .. n /\ x \in Nat  BY <1>4, SMT
  <2>1. CASE x < i
    <3>1. x <= i /\ x + 1 <= i /\ x \in 1 .. m - 1  BY <1>3, <1>4, <2>0, <2>1, SMT
    <3>2. q[x] = p[x] /\ q[x + 1] = p[x + 1]  BY <1>5, <2>0, <3>1
    <3> QED  BY <1>1, <3>1, <3>2
  <2>2. CASE x = i
    <3>1. x <= i /\ ~(x + 1 <= i) /\ (x + 1) + d = j + 1 /\ j \in 1 .. m - 1  BY <1>3, <1>4, <2>0, <2>2, SMT
    <3>2. q[x] = p[j] /\ q[x + 1] = p[j + 1]  BY <1>5, <2>0, <2>2, <3>1
    <3> QED  BY <1>1, <3>1, <3>2
  <2>3. CASE x > i
    <3>1. ~(x <= i) /\ ~(x + 1 <= i) /\ (x + 1) + d = (x + d) + 1 /\ x + d \in 1 .. m - 1  BY <1>3, <1>4, <2>0, <2>3, SMT
    <3>2. q[x] = p[x + d] /\ q[x + 1] = p[(x + d) + 1]  BY <1>5, <2>0, <3>1
    <3> QED  BY <1>1, <3>1, <3>2
  <2> QED  BY <1>3, <2>0, <2>1, <2>2, <2>3, SMT
<1>12. q \in Walks(links, nodes, from, goal)  BY <1>7, <1>8, <1>9, <1>10, <1>11 DEF Walks, Walk
<1> QED  BY <1>4, <1>7, <1>12 DEF m

\* A walk as short that visits no node twice: the shortest of all.
LEMMA SimpleWalk ==
    ASSUME NEW links, NEW nodes, NEW from, NEW goal, NEW p \in Walks(links, nodes, from, goal)
    PROVE  \E q \in Walks(links, nodes, from, goal) : q \in Paths(nodes) /\ Len(q) <= Len(p)
<1> DEFINE T == {m \in Nat : \E q \in Walks(links, nodes, from, goal) : Len(q) = m}
<1>1. \A q \in Walks(links, nodes, from, goal) : q \in Seq(nodes) /\ q # <<>> /\ Len(q) \in Nat /\ DOMAIN q = 1 .. Len(q)
  BY SeqIs DEF Walks
<1>2. T \subseteq Nat /\ Len(p) \in T  BY <1>1
<1>3. PICK m \in T : \A k \in T : <<k, m>> \notin OpToRel(<, Nat)
  <2>1. T # {}  BY <1>2
  <2> HIDE DEF T
  <2> QED  BY <1>2, <2>1, WFMin, NatLessThanWellFounded, Zenon
<1>4. m \in Nat /\ \A k \in T : ~(k < m)
  <2> HIDE DEF T
  <2> QED  BY <1>2, <1>3, Zenon DEF OpToRel
<1>5. PICK q \in Walks(links, nodes, from, goal) : Len(q) = m  BY Zenon
<1>6. ASSUME NEW q1 \in Walks(links, nodes, from, goal) PROVE ~(Len(q1) < m)
  <2>1. Len(q1) \in T  BY <1>1
  <2> QED  BY <1>4, <2>1
<1>7. ASSUME NEW i \in 1 .. m, NEW j \in 1 .. m, i < j PROVE q[i] # q[j]
  <2> SUFFICES ASSUME q[i] = q[j] PROVE FALSE  OBVIOUS
  <2>1. \E q1 \in Walks(links, nodes, from, goal) : Len(q1) < m  BY <1>5, <1>7, ShortCut
  <2> QED  BY <1>6, <2>1
<1>8. ASSUME NEW i \in 1 .. m, NEW j \in 1 .. m, q[i] = q[j] PROVE i = j
  <2>1. ~(i < j) /\ ~(j < i)  BY <1>7, <1>8
  <2> QED  BY <1>4, <2>1, SMT
<1>9. q \in Paths(nodes)  BY <1>1, <1>5, <1>8 DEF Paths, IsInjective
<1>10. m <= Len(p)  BY <1>1, <1>4, <1>6, SMT
<1> QED  BY <1>5, <1>9, <1>10

LEMMA AllWays ==
    ASSUME NEW links, NEW nodes, IsFiniteSet(nodes), links \in [nodes -> Seq(nodes)], NEW goal
    PROVE  \A q \in Paths(nodes) : \A w \in Ways(links, goal, q) :
             /\ w \in Paths(nodes) /\ w \in Seq(nodes) /\ Walk(links, w) /\ Len(w) \in Nat
             /\ Len(w) > Len(q) /\ w[Len(w)] = goal /\ \A i \in 1 .. Len(q) : w[i] = q[i]
  BY WaysAre

\* What findShortestPath answers is nothing or a way to the goal.
LEMMA RouteIsWay ==
    ASSUME NEW links, NEW nodes, IsFiniteSet(nodes), links \in [nodes -> Seq(nodes)],
           NEW from \in nodes, NEW goal \in nodes, FindShortestPath(links, from, goal) # <<>>
    PROVE  FindShortestPath(links, from, goal) \in Ways(links, goal, <<from>>)
<1> DEFINE N == Cardinality(nodes)
           s == Search(N)
           here == <<from>>
           r == FindFrom(links, goal)[here][s]
           route == FindShortestPath(links, from, goal)
<1>0. DOMAIN links = nodes  OBVIOUS
<1>1. N \in Nat  BY FS_CardinalityType
<1>2. s \in Searches(nodes) /\ ~s.found /\ s.clip = N /\ s.best = <<>>  BY <1>1 DEF Search, Searches
<1>3. here \in Seq(nodes) /\ here # <<>> /\ Len(here) = 1 /\ here[1] = from /\ DOMAIN here = 1 .. 1  OBVIOUS
<1>4. here \in Paths(nodes) /\ Walk(links, here)
  <2>1. IsInjective(here)  BY <1>3 DEF IsInjective
  <2>2. \A i \in 1 .. Len(here) - 1 : FALSE  BY <1>3
  <2> QED  BY <1>3, <2>1, <2>2 DEF Paths, Walk
<1>5. route = r.best  BY <1>0, Zenon DEF FindShortestPath
<1>6. Answers(links, goal, here, s, r)  BY <1>2, <1>4, SearchFinds
<1> HIDE DEF r, s, N
<1> QED  BY <1>2, <1>5, <1>6, Zenon DEF Answers, Improves

\* Of every graph: what findShortestPath answers is a route that none beats, and it
\* answers nothing just when there is no way, or none to go.
THEOREM ShortestIsFound ==
    ASSUME NEW links, NEW nodes, IsFiniteSet(nodes), links \in [nodes -> Seq(nodes)],
           NEW from \in nodes, NEW goal \in nodes
    PROVE  IsShortestRoute(links, from, goal, FindShortestPath(links, from, goal))
<1>a. \A q \in Paths(nodes) : \A w \in Ways(links, goal, q) :
         /\ w \in Paths(nodes) /\ w \in Seq(nodes) /\ Walk(links, w) /\ Len(w) \in Nat
         /\ Len(w) > Len(q) /\ w[Len(w)] = goal /\ \A i \in 1 .. Len(q) : w[i] = q[i]
  BY AllWays
<1> DEFINE N == Cardinality(nodes)
           s == Search(N)
           here == <<from>>
           r == FindFrom(links, goal)[here][s]
           W == Ways(links, goal, here)
           route == FindShortestPath(links, from, goal)
<1>0. DOMAIN links = nodes  OBVIOUS
<1>1. N \in Nat  BY FS_CardinalityType
<1>2. s \in Searches(nodes) /\ ~s.found /\ s.clip = N /\ s.best = <<>>  BY <1>1 DEF Search, Searches
<1>3. here \in Seq(nodes) /\ here # <<>> /\ Len(here) = 1 /\ here[1] = from /\ DOMAIN here = 1 .. 1  OBVIOUS
<1>4. here \in Paths(nodes) /\ Walk(links, here)
  <2>1. IsInjective(here)  BY <1>3 DEF IsInjective
  <2>2. \A i \in 1 .. Len(here) - 1 : FALSE  BY <1>3
  <2> QED  BY <1>3, <2>1, <2>2 DEF Paths, Walk
<1>5. route = r.best  BY <1>0, Zenon DEF FindShortestPath
<1>6. Answers(links, goal, here, s, r)  BY <1>2, <1>4, SearchFinds
<1> HIDE DEF r, s, N
<1>7. /\ r \in Searches(nodes)
      /\ \/ r.clip = N /\ r.best = <<>>
         \/ Len(r.best) = r.clip + 1 /\ r.best \in W
      /\ \A p \in W : Len(p) > r.clip
  BY <1>0, <1>2, <1>6, Zenon DEF Answers, Improves
<1>8. r.clip \in Nat  BY <1>7, SearchIs
<1>9. \A p \in W : /\ p \in Paths(nodes) /\ p \in Seq(nodes) /\ Walk(links, p) /\ Len(p) \in Nat /\ Len(p) > 1 /\ p[Len(p)] = goal
                   /\ p[1] = from
  <2> SUFFICES ASSUME NEW p \in W
               PROVE  /\ p \in Paths(nodes) /\ p \in Seq(nodes) /\ Walk(links, p) /\ Len(p) \in Nat /\ Len(p) > 1
                      /\ p[Len(p)] = goal /\ p[1] = from
    OBVIOUS
  <2>1. /\ p \in Paths(nodes) /\ p \in Seq(nodes) /\ Walk(links, p) /\ Len(p) \in Nat /\ Len(p) > Len(here) /\ p[Len(p)] = goal
        /\ \A i \in 1 .. Len(here) : p[i] = here[i]
    BY <1>a, <1>4, Zenon
  <2> HIDE DEF here
  <2>2. p[1] = from  BY <1>3, <2>1
  <2> QED  BY <1>3, <2>1, <2>2
\* What is near is reached by a way as short.
<1>10. ASSUME NEW k \in Nat, goal \in Layer(links, from)[k], goal # from
       PROVE  \E p \in W : Len(p) <= k + 1
  <2>1. goal \in Near(links, nodes, from, k)  BY <1>10, LayersAre
  <2>2. PICK q \in Walks(links, nodes, from, goal) : Len(q) <= k + 1  BY <2>1, Zenon DEF Near
  <2>3. PICK p \in Walks(links, nodes, from, goal) : p \in Paths(nodes) /\ Len(p) <= Len(q)  BY SimpleWalk, Zenon
  <2>4. p \in Seq(nodes) /\ q \in Seq(nodes) /\ Walk(links, p) /\ p # <<>> /\ p[1] = from /\ p[Len(p)] = goal  BY DEF Walks
  <2>5. Len(p) \in Nat /\ Len(q) \in Nat /\ Len(p) >= 1  BY <2>4, SeqIs
  <2>6. Len(p) # 1  BY <1>10, <2>4
  <2> DEFINE m == Len(p)
             l == Len(q)
  <2>7. m > 1 /\ m <= k + 1
    <3>1. m \in Nat /\ l \in Nat /\ m >= 1 /\ m # 1 /\ l <= k + 1 /\ m <= l  BY <2>2, <2>3, <2>5, <2>6
    <3> HIDE DEF m, l
    <3> QED  BY <3>1, SMT
  <2>8. \A i \in 1 .. Len(here) : p[i] = here[i]  BY <1>3, <2>4
  <2>9. p \in W  BY <1>0, <1>3, <2>3, <2>4, <2>7, <2>8 DEF Ways
  <2> QED  BY <2>7, <2>9
<1> DEFINE within == Layer(links, from)
<1>11. CASE r.clip = N /\ r.best = <<>>
  <2>1. goal = from \/ goal \notin within[N]
    <3> SUFFICES ASSUME goal # from, goal \in within[N] PROVE FALSE  OBVIOUS
    <3>1. PICK p \in W : Len(p) <= N + 1  BY <1>1, <1>10
    <3>2. Len(p) <= N /\ Len(p) \in Nat
      <4>1. p \in Paths(nodes)  BY <1>9
      <4> QED  BY <4>1, PathIs DEF N
    <3>3. Len(p) > N  BY <1>7, <1>11
    <3> QED  BY <1>1, <3>2, <3>3, SMT
  <2> QED  BY <1>0, <1>5, <1>11, <2>1, Zenon DEF IsShortestRoute, N
<1>12. CASE Len(r.best) = r.clip + 1 /\ r.best \in W
  <2> DEFINE best == r.best
             m == Len(best)
  <2>1. /\ best \in Paths(nodes) /\ best \in Seq(nodes) /\ Walk(links, best) /\ m \in Nat /\ m > 1 /\ best[m] = goal
        /\ best[1] = from
    BY <1>9, <1>12
  <2>2. m - 2 \in Nat /\ m - 2 + 1 = m - 1 /\ r.clip = m - 1 /\ 1 \in 1 .. m /\ m \in 1 .. m /\ 1 # m
    <3> DEFINE c == r.clip
    <3>1. m = c + 1 /\ c \in Nat /\ m \in Nat /\ m > 1  BY <1>8, <1>12, <2>1
    <3> HIDE DEF m, c
    <3>2. m - 2 \in Nat /\ m - 2 + 1 = m - 1 /\ c = m - 1 /\ 1 \in 1 .. m /\ m \in 1 .. m /\ 1 # m  BY <3>1, SMT
    <3> QED  BY <3>2 DEF c
  <2>3. goal # from
    <3>1. best[1] = best[m] => 1 = m  BY <2>1, <2>2, PathIs
    <3> QED  BY <2>1, <2>2, <3>1
  <2>4. goal \notin within[m - 2]
    <3> SUFFICES ASSUME goal \in within[m - 2] PROVE FALSE  OBVIOUS
    <3>1. PICK p \in W : Len(p) <= (m - 2) + 1  BY <1>10, <2>2, <2>3
    <3>2. Len(p) > r.clip /\ Len(p) \in Nat  BY <1>7, <1>9
    <3> QED  BY <1>8, <2>2, <3>1, <3>2, SMT
  <2>5. best # <<>>  BY <2>1 DEF Paths
  <2>6. \A i \in 1 .. (m - 1) : best[i + 1] \in ToSet(links[best[i]])  BY <2>1 DEF Walk
  <2>7. route = best  BY <1>5
  <2> HIDE DEF best
  <2> QED  BY <2>1, <2>4, <2>5, <2>6, <2>7, Zenon DEF IsShortestRoute
<1> QED  BY <1>7, <1>11, <1>12

(***************************************************************************)
(* The routes of a session.                                                *)
(***************************************************************************)
\* Where the engine is, and the state that update() may read from the log: nodes of the registry,
\* whatever happens.
OnGraph == box \in Machines /\ cur \in Nodes /\ path \in Seq(Nodes) /\ target \in Nodes

\* The registry is a function on its nodes ...
LEMMA RegistryIs ==
    ASSUME NEW S, \A n \in Nodes : Links[n] \in S
    PROVE  Links \in [Nodes -> S]
  BY ZenonT(60) DEF Links

\* ... of which there are finitely many.
LEMMA NodesAreFinite == IsFiniteSet(Nodes) /\ Links \in [Nodes -> Seq(Nodes)]
<1>1. IsFiniteSet(Nodes)
  <2> DEFINE A == 1..7
             B == 100..112
             C == 201..211
  <2>1. IsFiniteSet(A) /\ IsFiniteSet(B) /\ IsFiniteSet(C)
    <3>1. 1 \in Int /\ 7 \in Int /\ 100 \in Int /\ 112 \in Int /\ 201 \in Int /\ 211 \in Int  OBVIOUS
    <3> QED  BY <3>1, FS_Interval, Zenon
  <2>2. Nodes = (A \cup B) \cup C  BY DEF Nodes
  <2> HIDE DEF A, B, C
  <2>3. IsFiniteSet(A \cup B)  BY <2>1, FS_Union, Zenon
  <2>4. IsFiniteSet((A \cup B) \cup C)  BY <2>1, <2>3, FS_Union, Zenon
  <2> QED  BY <2>2, <2>4
<1>2. \A a, b, c, d, e, f \in Nodes :
          <<>> \in Seq(Nodes) /\ <<a>> \in Seq(Nodes) /\ <<a, b>> \in Seq(Nodes) /\ <<a, b, c, d, e, f>> \in Seq(Nodes)
  OBVIOUS
<1> DEFINE S == Seq(Nodes)
<1> HIDE DEF S
<1>3. \A n \in 1..7 : Links[n] \in S
  <2>1. {100, 102, 104, 105, 106, 107, 108, 109, 110, 111, 112, 211} \subseteq Nodes  BY DEF Nodes
  <2>2. /\ <<100>> \in S /\ <<102, 112>> \in S /\ <<104>> \in S
        /\ <<105, 108>> \in S /\ <<107, 211>> \in S /\ <<109, 111>> \in S
        /\ <<110, 106>> \in S
    BY <1>2, <2>1 DEF S
  <2>3. /\ Links[1] \in S /\ Links[2] \in S /\ Links[3] \in S
        /\ Links[4] \in S /\ Links[5] \in S /\ Links[6] \in S
        /\ Links[7] \in S
    BY <2>2, States17, SMTT(30)
  <2>4. \A n \in 1..7 : n \in {1, 2, 3, 4, 5, 6, 7}  OBVIOUS
  <2> QED  BY <2>3, <2>4
<1>4. \A n \in 100..112 : Links[n] \in S
  <2>1. {2, 3, 4, 5, 6, 7, 101, 103, 207, 209, 210} \subseteq Nodes  BY DEF Nodes
  <2>2. /\ <<101>> \in S /\ <<2, 3, 4, 5, 6, 7>> \in S /\ <<103>> \in S
        /\ <<4>> \in S /\ <<207>> \in S /\ <<209>> \in S
        /\ <<210>> \in S /\ <<5>> \in S /\ <<6>> \in S /\ <<7>> \in S
        /\ <<>> \in S
    BY <1>2, <2>1 DEF S
  <2>3. /\ Links[100] \in S /\ Links[101] \in S /\ Links[102] \in S
        /\ Links[103] \in S /\ Links[104] \in S /\ Links[105] \in S
        /\ Links[106] \in S /\ Links[107] \in S /\ Links[108] \in S
        /\ Links[109] \in S /\ Links[110] \in S /\ Links[111] \in S
        /\ Links[112] \in S
    BY <2>2, Handlers100, SixLinks, SMTT(30)
  <2>4. \A n \in 100..112 : n \in {100, 101, 102, 103, 104, 105, 106, 107, 108, 109, 110, 111, 112}  OBVIOUS
  <2> QED  BY <2>3, <2>4
<1>5. \A n \in 201..211 : Links[n] \in S
  <2>1. {3, 4, 7, 201, 202, 203, 204, 205, 206, 208} \subseteq Nodes  BY DEF Nodes
  <2>2. /\ <<202>> \in S /\ <<203>> \in S /\ <<204>> \in S
        /\ <<205>> \in S /\ <<206>> \in S /\ <<7>> \in S
        /\ <<208>> \in S /\ <<3>> \in S /\ <<4>> \in S
        /\ <<201>> \in S
    BY <1>2, <2>1 DEF S
  <2>3. /\ Links[201] \in S /\ Links[202] \in S /\ Links[203] \in S
        /\ Links[204] \in S /\ Links[205] \in S /\ Links[206] \in S
        /\ Links[207] \in S /\ Links[208] \in S /\ Links[209] \in S
        /\ Links[210] \in S /\ Links[211] \in S
    BY <2>2, Handlers200, SMTT(30)
  <2>4. \A n \in 201..211 : n \in {201, 202, 203, 204, 205, 206, 207, 208, 209, 210, 211}  OBVIOUS
  <2> QED  BY <2>3, <2>4
<1>6. \A n \in Nodes : Links[n] \in S  BY <1>3, <1>4, <1>5, Zenon DEF Nodes
<1>7. Links \in [Nodes -> S]  BY <1>6, RegistryIs
<1> QED  BY <1>1, <1>7 DEF S

LEMMA GotoOnGraph ==
    ASSUME OnGraph, NEW n \in Nodes, FSMGoto(n)
    PROVE  cur' \in Nodes /\ path' \in Seq(Nodes) /\ target' \in Nodes
<1>1. (IF Route(cur, n) = <<>> THEN <<>> ELSE Tail(Route(cur, n))) \in Seq(Nodes)  BY StripIs DEF OnGraph
<1> QED  BY <1>1 DEF OnGraph, FSMGoto

LEMMA SkewOnGraph ==
    ASSUME OnGraph, NEW n \in Nodes, FSMSkew(n)
    PROVE  cur' \in Nodes /\ path' \in Seq(Nodes) /\ target' \in Nodes
<1>1. Route(n, target) \in Seq(Nodes)
  <2>1. CASE Route(n, target) = <<>>  BY <2>1, EmptySeq
  <2>2. CASE Route(n, target) # <<>>  BY <2>2, RouteIs DEF OnGraph
  <2> QED  BY <2>1, <2>2
<1> QED  BY <1>1, EmptySeq DEF OnGraph, FSMSkew

LEMMA ContinueOnGraph ==
    ASSUME OnGraph, Continue
    PROVE  OnGraph'
<1> DEFINE k == Min(Stops)
           p == SubSeq(path, k + 1, Len(path))
<1>1. path # <<>> /\ cur' = path[k] /\ path' = p /\ UNCHANGED <<box, target>>  BY ContinueIs
<1>2. path \in Seq(Nodes)  BY DEF OnGraph
<1>3. k \in 1..Len(path)  BY <1>1, <1>2, StopIs
<1> HIDE DEF k
<1>4. Len(path) \in Nat /\ k \in Nat /\ path[k] \in Nodes  BY <1>2, <1>3
<1>5. p \in Seq(Nodes)
  <2>1. \A i \in (k + 1)..Len(path) : path[i] \in Nodes  BY <1>2, <1>4
  <2> QED  BY <1>2, <1>4, <2>1
<1> HIDE DEF p
<1> QED  BY <1>1, <1>4, <1>5 DEF OnGraph

LEMMA CommandOnGraph ==
    ASSUME NEW b \in Machines, NEW fits \in BOOLEAN, NEW after, fits => after \in Machines,
           NEW r \in Command(b, fits, after)
    PROVE  r.box \in Machines
  BY CommandIs

LEMMA EndOnGraph ==
    ASSUME OnGraph, NEW b \in Machines, NEW parts, NEW cost, Completes(b, parts, cost) \/ Created(b, parts, cost)
    PROVE  OnGraph'
  BY DEF OnGraph, Completes, Created, engine

LEMMA ErrorOnGraph ==
    ASSUME OnGraph, NEW b \in Machines, NEW n, NEW parts, NEW cost, ErrorsOccured(n, b, parts, cost)
    PROVE  OnGraph'
<1>1. CASE cur' = 112 /\ path' = <<>> /\ FatalErrorSink(b, parts, cost) /\ UNCHANGED <<target, recorded>>
  <2>1. PICK r \in Unregister(b) : box' = r.box  BY <1>1 DEF FatalErrorSink
  <2>2. box' \in Machines  BY <2>1, UnregisterIs
  <2>3. 112 \in Nodes  BY NodesAre
  <2> QED  BY <1>1, <2>2, <2>3, EmptySeq DEF OnGraph
<1>2. CASE FSMSkew(2) /\ box' = b
  <2>1. 2 \in Nodes  BY NodesAre
  <2>2. cur' \in Nodes /\ path' \in Seq(Nodes) /\ target' \in Nodes  BY <1>2, <2>1, SkewOnGraph
  <2> QED  BY <1>2, <2>2 DEF OnGraph
<1> QED  BY <1>1, <1>2 DEF ErrorsOccured

LEMMA ErrorOnGraph1 ==
    ASSUME OnGraph, NEW b \in Machines, NEW parts, NEW cost, ErrorOccured(b, parts, cost)
    PROVE  OnGraph'
<1>1. ErrorsOccured(1, b, parts, cost)  BY Zenon DEF ErrorOccured
<1> QED  BY <1>1, ErrorOnGraph

LEMMA HandlerOnGraph ==
    ASSUME OnGraph, NEW n, NEW fits \in BOOLEAN, NEW after, fits => after \in Machines,
           Handler(n, Command(box, fits, after))
    PROVE  OnGraph'
<1>1. PICK r \in Command(box, fits, after) : \/ r.ok /\ Completes(r.box, known, r.fault)
                                             \/ ~r.ok /\ ErrorOccured(r.box, known, r.fault)
  BY DEF Handler
<1>2. r.box \in Machines  BY <1>1, CommandOnGraph DEF OnGraph
<1> QED  BY <1>1, <1>2, EndOnGraph, ErrorOnGraph1

LEMMA ControlOnGraph ==
    ASSUME OnGraph, NEW n, NEW from, NEW to \in States, Control(n, from, to)
    PROVE  OnGraph'
<1> DEFINE fits == box.state \in from
           after == Becomes(box, to)
<1>0. fits \in BOOLEAN  OBVIOUS
<1>1. Handler(n, Command(box, fits, after))  BY Zenon DEF Control
<1>2. after \in Machines  BY BecomesIs DEF OnGraph
<1> HIDE DEF fits, after
<1> QED  BY <1>0, <1>1, <1>2, HandlerOnGraph

LEMMA SimpleOnGraph ==
    ASSUME OnGraph,
           \/ ConfigNetwork \/ DownloadMedia \/ ConfigureVM \/ PauseVM \/ ResumeVM \/ SaveVMState
           \/ PoweroffVM \/ DiscardVMState
    PROVE  OnGraph'
<1>0. box \in Machines  BY DEF OnGraph
<1>1. {"paused", "running", "saved", "poweroff"} \subseteq States  BY StatesAre
<1>2. CASE ConfigNetwork \/ DownloadMedia
  <2>1. PICK n \in {210, 202} : Handler(n, Command(box, TRUE, box))
    BY <1>2, Zenon DEF ConfigNetwork, DownloadMedia, Work
  <2> QED  BY <1>0, <2>1, HandlerOnGraph
<1>3. CASE ConfigureVM
  <2> DEFINE fits == box.state = "poweroff"
  <2>1. fits \in BOOLEAN /\ Handler(201, Command(box, fits, box))  BY <1>3, Zenon DEF ConfigureVM
  <2> HIDE DEF fits
  <2> QED  BY <1>0, <2>1, HandlerOnGraph
<1>4. CASE PauseVM  BY <1>1, <1>4, ControlOnGraph DEF PauseVM
<1>5. CASE ResumeVM  BY <1>1, <1>5, ControlOnGraph DEF ResumeVM
<1>6. CASE SaveVMState  BY <1>1, <1>6, ControlOnGraph DEF SaveVMState
<1>7. CASE PoweroffVM  BY <1>1, <1>7, ControlOnGraph DEF PoweroffVM
<1>8. CASE DiscardVMState
  <2> DEFINE fits == box.state = "saved"
             off == [box EXCEPT !.state = "poweroff"]
  <2>1. fits \in BOOLEAN /\ Handler(107, Command(box, fits, off))  BY <1>8, Zenon DEF DiscardVMState
  <2>2. off \in Machines  BY <1>0, <1>1, OtherState
  <2> HIDE DEF fits, off
  <2> QED  BY <2>1, <2>2, HandlerOnGraph
<1> QED  BY <1>2, <1>3, <1>4, <1>5, <1>6, <1>7, <1>8

LEMMA MediaOnGraph ==
    ASSUME OnGraph, ConfigureVMBoot \/ ConfigureVMScratch \/ ConfigureVMAPI
    PROVE  OnGraph'
<1>0. box \in Machines  BY DEF OnGraph
<1>1. {"boot", "scratch", "context"} \subseteq Media  BY DEF Media
<1>2. ASSUME NEW b \in Machines, NEW medium \in Media, NEW a \in Attach(b, medium), NEW more, NEW less,
             \/ a.ok /\ Completes(a.box, more, a.fault)
             \/ ~a.ok /\ ErrorOccured(a.box, less, a.fault)
      PROVE  OnGraph'
  <2>1. a.box \in Machines  BY <1>2, MountIs
  <2> QED  BY <1>2, <2>1, EndOnGraph, ErrorOnGraph1
<1>3. ASSUME NEW medium \in Media, Mounts(medium) PROVE OnGraph'
  BY <1>0, <1>2, <1>3 DEF Mounts
<1>4. ASSUME NEW parts, NEW cost, Completes(box, parts, cost) \/ ErrorOccured(box, parts, cost)
      PROVE  OnGraph'
  BY <1>0, <1>4, EndOnGraph, ErrorOnGraph1
<1>5. CASE ConfigureVMBoot
  <2>1. ASSUME NEW r \in Detach(box, "boot"),
               \/ ~r.ok /\ ErrorOccured(r.box, known, r.fault)
               \/ /\ r.ok
                  /\ \E a \in Attach(r.box, "boot") :
                        \/ a.ok /\ Completes(a.box, known, a.fault)
                        \/ ~a.ok /\ ErrorOccured(a.box, known \ {"boot"}, a.fault)
        PROVE  OnGraph'
    <3>1. r.box \in Machines  BY <1>0, <1>1, <2>1, MountIs
    <3> QED  BY <1>1, <1>2, <2>1, <3>1, ErrorOnGraph1
  <2> QED  BY <1>1, <1>3, <1>4, <1>5, <2>1 DEF ConfigureVMBoot
<1>6. CASE ConfigureVMScratch
  BY <1>1, <1>3, <1>4, <1>6 DEF ConfigureVMScratch
<1>7. CASE ConfigureVMAPI
  <2>1. PICK r \in IF "context" \in known THEN Detach(box, "context") ELSE Nothing(box) :
            \/ ~r.ok /\ ErrorOccured(r.box, known, r.fault)
            \/ r.ok /\ ErrorOccured(r.box, known \ {"context"}, 1)
            \/ /\ r.ok
               /\ \E a \in Attach(r.box, "context") :
                     \/ a.ok /\ Completes(a.box, known \cup {"context"}, a.fault)
                     \/ ~a.ok /\ ErrorOccured(a.box, known \ {"context"}, a.fault)
    BY <1>7 DEF ConfigureVMAPI
  <2>2. r.box \in Machines
    <3>1. CASE "context" \in known  BY <1>0, <1>1, <2>1, <3>1, MountIs
    <3>2. CASE "context" \notin known
      <4>1. r = [box |-> box, ok |-> TRUE, fault |-> 0]  BY <2>1, <3>2 DEF Nothing
      <4> QED  BY <1>0, <4>1
    <3> QED  BY <3>1, <3>2
  <2> QED  BY <1>1, <1>2, <2>1, <2>2, ErrorOnGraph1
<1> QED  BY <1>5, <1>6, <1>7

LEMMA ReleaseOnGraph ==
    ASSUME OnGraph, ReleaseVMScratch \/ ReleaseVMBoot \/ ReleaseVMAPI
    PROVE  OnGraph'
<1>0. box \in Machines  BY DEF OnGraph
<1>1. PICK medium \in Media, n \in {105, 207, 209} : Release(n, medium)
  BY DEF ReleaseVMScratch, ReleaseVMBoot, ReleaseVMAPI, Media
<1>2. ASSUME NEW r \in Detach(box, medium), NEW parts, Completes(r.box, parts, r.fault) PROVE OnGraph'
  <2>1. r.box \in Machines  BY <1>0, <1>2, MountIs
  <2> QED  BY <1>2, <2>1, EndOnGraph
<1> QED  BY <1>0, <1>1, <1>2, EndOnGraph DEF Release

LEMMA DestroyOnGraph ==
    ASSUME OnGraph, DestroyVM
    PROVE  OnGraph'
<1>1. PICK r \in Unregister(box) : \/ r.ok /\ Completes(r.box, {}, r.fault)
                                   \/ ~r.ok /\ ErrorsOccured(2, r.box, known, r.fault)
  BY DEF DestroyVM
<1>2. r.box \in Machines  BY <1>1, UnregisterIs DEF OnGraph
<1> QED  BY <1>1, <1>2, EndOnGraph, ErrorOnGraph

LEMMA StartOnGraph ==
    ASSUME OnGraph, StartVM
    PROVE  OnGraph'
<1> DEFINE fits == box.state \in {"poweroff", "saved"}
           on == Becomes(box, "running")
<1>1. PICK r \in Command(box, fits, on) :
          \/ ~r.ok /\ ErrorOccured(r.box, known, r.fault)
          \/ r.ok /\ \E i \in MachineInfo(r.box, hasId) :
                        Completes(r.box, IF i.ok THEN i.info.parts ELSE known, i.fault)
  BY DEF StartVM
<1>2. fits \in BOOLEAN /\ on \in Machines  BY StatesAre, BecomesIs DEF OnGraph
<1> HIDE DEF fits, on
<1>3. r.box \in Machines  BY <1>1, <1>2, CommandOnGraph DEF OnGraph
<1> QED  BY <1>1, <1>3, EndOnGraph, ErrorOnGraph1

LEMMA ControllersOnGraph ==
    ASSUME OnGraph, NEW b \in Machines, NEW parts, NEW cost, AddControllers(b, parts, cost)
    PROVE  OnGraph'
<1>1. CASE "controllers" \in parts
  <2>1. Created(b, parts, cost)  BY <1>1 DEF AddControllers
  <2> QED  BY <2>1, EndOnGraph
<1>2. CASE "controllers" \notin parts
  <2> DEFINE fits == b.state = "poweroff" /\ "controllers" \notin b.parts
             p == b.parts \cup {"controllers"}
             more == [b EXCEPT !.parts = p]
  <2>1. PICK r \in Command(b, fits, more) :
            \/ r.ok /\ Created(r.box, parts, cost + r.fault)
            \/ /\ ~r.ok
               /\ \E d \in Unregister(r.box) :
                     \/ d.ok /\ ErrorOccured(d.box, {}, cost + r.fault + d.fault)
                     \/ ~d.ok /\ ErrorsOccured(2, d.box, parts, cost + r.fault + d.fault)
    BY <1>2 DEF AddControllers
  <2>2. p \in SUBSET Parts  BY MachineIs DEF Parts
  <2> HIDE DEF p
  <2>3. fits \in BOOLEAN /\ more \in Machines  BY <2>2, OtherParts
  <2> HIDE DEF fits, more
  <2>4. r.box \in Machines  BY <2>1, <2>3, CommandOnGraph
  <2>5. CASE Created(r.box, parts, cost + r.fault)  BY <2>4, <2>5, EndOnGraph
  <2>6. ASSUME NEW d \in Unregister(r.box),
               \/ d.ok /\ ErrorOccured(d.box, {}, cost + r.fault + d.fault)
               \/ ~d.ok /\ ErrorsOccured(2, d.box, parts, cost + r.fault + d.fault)
        PROVE  OnGraph'
    <3>1. d.box \in Machines  BY <2>4, <2>6, UnregisterIs
    <3> QED  BY <2>6, <3>1, ErrorOnGraph, ErrorOnGraph1
  <2> QED  BY <2>1, <2>5, <2>6
<1> QED  BY <1>1, <1>2

LEMMA CreateOnGraph ==
    ASSUME OnGraph, CreateVM
    PROVE  OnGraph'
<1>0. box \in Machines /\ NewMachine \in Machines  BY NoMachineIs DEF OnGraph
<1>1. CASE CreateNew
  <2>1. \/ AddControllers(NewMachine, known, 0) \/ ErrorOccured(box, known, 1) \/ ErrorOccured(NewMachine, known, 1)
    BY <1>1 DEF CreateNew
  <2> QED  BY <1>0, <2>1, ControllersOnGraph, ErrorOnGraph1
<1>2. CASE CreateExisting
  <2>1. PICK i \in MachineInfo(box, hasId) : \/ AddControllers(box, i.info.parts, i.fault)
                                             \/ ErrorOccured(box, known, i.fault)
    BY <1>2 DEF CreateExisting
  <2> QED  BY <1>0, <2>1, ControllersOnGraph, ErrorOnGraph1
<1> QED  BY <1>1, <1>2 DEF CreateVM

LEMMA OtherOnGraph ==
    ASSUME OnGraph, EmptyHandler \/ UpdateSession \/ CheckVMAPI \/ AbortedHandler
    PROVE  OnGraph'
<1>1. ASSUME box' = box, NEW n \in Nodes, FSMSkew(n) PROVE OnGraph'
  BY <1>1, SkewOnGraph DEF OnGraph
<1>2. ASSUME box' = box, UNCHANGED engine PROVE OnGraph'
  BY <1>2 DEF OnGraph, engine
<1>3. CASE EmptyHandler
  BY <1>3, EndOnGraph DEF EmptyHandler, OnGraph
<1>4. CASE UpdateSession
  <2>1. 3 \in Nodes /\ box' = box  BY <1>4 DEF Nodes, UpdateSession
  <2>2. ASSUME NEW s \in States, FSMSkew(NodeOf(s)) PROVE OnGraph'
    <3>1. NodeOf(s) \in Nodes  BY StatesAre, NodesAre
    <3> QED  BY <1>1, <2>1, <2>2, <3>1
  <2> QED  BY <1>1, <1>2, <1>4, <2>1, <2>2 DEF UpdateSession
<1>5. CASE CheckVMAPI
  <2>1. box' = box /\ (FSMSkew(107) \/ UNCHANGED engine) /\ 107 \in Nodes  BY <1>5, NodesAre DEF CheckVMAPI
  <2> QED  BY <1>1, <1>2, <2>1
<1>6. CASE AbortedHandler
  BY <1>2, <1>6 DEF AbortedHandler
<1> QED  BY <1>3, <1>4, <1>5, <1>6

LEMMA HandlersOnGraph ==
    ASSUME OnGraph, HandlerStep
    PROVE  OnGraph'
  BY SimpleOnGraph, MediaOnGraph, ReleaseOnGraph, DestroyOnGraph, StartOnGraph, CreateOnGraph, OtherOnGraph
  DEF HandlerStep

LEMMA ExternalOnGraph ==
    ASSUME OnGraph, ExternalChange
    PROVE  OnGraph'
<1>0. box \in Machines  BY DEF OnGraph
<1>1. PICK change \in Changes :
          box' = CASE change[2] = "none"  -> NoMachine
                   [] change[2] = "stuck" -> [box EXCEPT !.state = "stuck"]
                   [] change[1] = "saved" -> [box EXCEPT !.state = "poweroff"]
                   [] OTHER -> Becomes(box, change[2])
  BY DEF ExternalChange
<1>2. change[2] \in {"none", "stuck"} \cup {"paused", "poweroff", "saved", "running"}
  BY <1>1 DEF Changes
<1>3. {"paused", "poweroff", "saved", "running"} \subseteq States  BY StatesAre
<1>4. NoMachine \in Machines /\ [box EXCEPT !.state = "stuck"] \in Machines /\ [box EXCEPT !.state = "poweroff"] \in Machines
  BY <1>0, <1>3, NoMachineIs, OtherState
<1>5. \A s \in {"paused", "poweroff", "saved", "running"} : Becomes(box, s) \in Machines
  BY <1>0, <1>3, BecomesIs
<1>6. box' \in Machines  BY <1>1, <1>2, <1>4, <1>5
<1> QED  BY <1>6 DEF OnGraph, ExternalChange, engine

LEMMA StepOnGraph ==
    ASSUME OnGraph, [Next]_vars
    PROVE  OnGraph'
<1>1. CASE Continue  BY <1>1, ContinueOnGraph
<1>2. CASE HandlerStep  BY <1>2, HandlersOnGraph
<1>3. ASSUME NEW n \in Nodes, FSMGoto(n), box' = box PROVE OnGraph'
  BY <1>3, GotoOnGraph DEF OnGraph
<1>4. CASE Open
  BY <1>3, <1>4, NodesAre DEF Open
<1>5. CASE Close \/ Stop \/ Hibernate \/ Pause \/ Resume \/ Start
  <2>1. PICK n \in Checkpoints : Request(n)
    BY <1>5, CheckpointIs DEF Close, Stop, Hibernate, Pause, Resume, Start
  <2> QED  BY <1>3, <2>1, NodesAre DEF Request
<1>6. CASE Update
  <2>1. FSMSkew(NodeOf(LogState)) /\ box' = box  BY <1>6 DEF Update
  <2>2. LogState \in States  BY StatesAre, MachineIs DEF LogState, OnGraph
  <2>3. NodeOf(LogState) \in Nodes  BY <2>2, StatesAre, NodesAre
  <2> QED  BY <2>1, <2>3, SkewOnGraph DEF OnGraph
<1>7. CASE Abort \/ ThreadStops \/ TimePasses \/ CacheExpires \/ UNCHANGED vars
  BY <1>7 DEF Abort, ThreadStops, TimePasses, CacheExpires, vars, OnGraph, engine
<1>8. CASE ExternalChange  BY <1>8, ExternalOnGraph
<1> QED  BY <1>1, <1>2, <1>4, <1>5, <1>6, <1>7, <1>8 DEF Next, ClientCall

\* The engine never leaves the registry: every node it is at, plans for or heads for is one of it.
THEOREM AlwaysOnGraph == Spec => []OnGraph
<1>1. Init => OnGraph
  <2> SUFFICES ASSUME Init PROVE OnGraph  OBVIOUS
  <2>1. SessionInv  BY StartsRight
  <2> QED  BY <2>1 DEF SessionInv, TypeOK, OnGraph
<1>2. OnGraph /\ [Next]_vars => OnGraph'  BY StepOnGraph
<1> QED  BY <1>1, <1>2, PTL DEF Spec

LEMMA MCRouteIs ==
    ASSUME NEW a \in Nodes, NEW b \in Nodes
    PROVE  MCRoute(a, b) = FindShortestPath(Links, a, b)
  BY Zenon DEF MCRoute, Routes

\* From every node of the registry to every other the engine plans a route that no other beats.
LEMMA AllWellRouted == WellRouted = Nodes
<1>1. ASSUME NEW a \in Nodes, NEW b \in Nodes PROVE IsShortestRoute(Links, a, b, MCRoute(a, b))
  <2>1. IsShortestRoute(Links, a, b, FindShortestPath(Links, a, b))  BY NodesAreFinite, ShortestIsFound
  <2> QED  BY <2>1, MCRouteIs
<1> QED  BY <1>1, Zenon DEF WellRouted

\* What VBoxSession asks of Route holds of findShortestPath: a walk along the links of the registry,
\* from the one node to the other, that passes no node twice.
THEOREM SearchGivesRoutes ==
    ASSUME NEW a \in Nodes, NEW b \in Nodes
    PROVE  MCRoute(a, b) = <<>> \/ IsRoute(MCRoute(a, b), a, b)
<1>0. \A q \in Paths(Nodes) : \A way \in Ways(Links, b, q) :
          /\ way \in Paths(Nodes) /\ way \in Seq(Nodes) /\ Walk(Links, way) /\ Len(way) \in Nat
          /\ Len(way) > Len(q) /\ way[Len(way)] = b /\ \A i \in 1..Len(q) : way[i] = q[i]
  BY NodesAreFinite, AllWays
<1> DEFINE route == MCRoute(a, b)
           here == <<a>>
<1>1. IsFiniteSet(Nodes) /\ Links \in [Nodes -> Seq(Nodes)] /\ DOMAIN Links = Nodes  BY NodesAreFinite
<1> SUFFICES ASSUME route # <<>> PROVE IsRoute(route, a, b)  OBVIOUS
<1>2. here \in Paths(Nodes) /\ Len(here) = 1 /\ here[1] = a  BY DEF Paths, IsInjective
<1>3. route \in Ways(Links, b, here)  BY <1>1, MCRouteIs, RouteIsWay
<1> HIDE DEF route, here
<1>4. /\ route \in Paths(Nodes) /\ route \in Seq(Nodes) /\ Walk(Links, route) /\ Len(route) \in Nat
      /\ Len(route) > 1 /\ route[Len(route)] = b /\ route[1] = a
  <2>1. /\ route \in Paths(Nodes) /\ route \in Seq(Nodes) /\ Walk(Links, route) /\ Len(route) \in Nat
        /\ Len(route) > Len(here) /\ route[Len(route)] = b /\ \A i \in 1..Len(here) : route[i] = here[i]
    BY <1>0, <1>2, <1>3, Zenon
  <2> QED  BY <1>2, <1>3, <2>1
<1>5. \A i, j \in DOMAIN route : route[i] = route[j] => i = j  BY <1>1, <1>4, PathIs
<1>6. ASSUME NEW i \in 1..(Len(route) - 1) PROVE route[i + 1] \in LinkedTo(route[i])
  <2>1. route[i + 1] \in ToSet(Links[route[i]])  BY <1>4, <1>6 DEF Walk
  <2> QED  BY <2>1, Zenon DEF ToSet, LinkedTo
<1> QED  BY <1>4, <1>5, <1>6, Zenon DEF IsRoute

\* From wherever a session is, whatever has happened to it, the engine finds a shortest route to
\* every node that can be reached.
THEOREM RoutesAreBest == Spec => []RoutesAreShortest
<1>1. OnGraph => RoutesAreShortest  BY AllWellRouted DEF OnGraph, RoutesAreShortest
<1> QED  BY <1>1, AlwaysOnGraph, PTL
=============================================================================

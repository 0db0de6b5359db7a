----------------------- MODULE SessionRegistryProofs -----------------------
(***************************************************************************)
(* Proofs about SessionRegistry: the threads of the sessions, the names of *)
(* the sessions on disk, and the sessions that loading keeps.              *)
(***************************************************************************)
EXTENDS SessionRegistry, SequenceTheorems, WellFoundedInduction, TLAPS

(***************************************************************************)
(* The map, the list and the objects.                                      *)
(***************************************************************************)
InList(open, o) == \E i \in DOMAIN open : open[i] = o

ObjectFields == {"instances", "run", "aborting", "creating", "name", "vm", "state"}
Full(r) == DOMAIN r = ObjectFields /\ r.run \in BOOLEAN /\ r.instances \in Nat

Map ==
    /\ sessions \subseteq Object /\ \A o, p \in sessions : Whose(o) = Whose(p) => o = p
    /\ \A o \in sessions : Whose(o) \in guids
    /\ DOMAIN files = Guid /\ guids \subseteq Guid
    /\ \A g \in Guid : Complete(files[g]) => g \in guids

Objects ==
    /\ DOMAIN obj = Object /\ \A o \in Object : obj[o] = NoObject \/ (Full(obj[o]) /\ Whose(o) \in guids)
    /\ \A o \in Object : o \in sessions \/ InList(openSessions, o) => Full(obj[o])
    /\ openSessions \in Seq(Object)

\* How far the application's calls are.
Calling ==
    /\ load.at # "no" => opening = Nothing /\ ~shut
    /\ opening # Nothing => /\ ~shut /\ <<opening[1], 0>> \in sessions
                            /\ ~obj[<<opening[1], 0>>].run
    /\ DOMAIN load = {"at", "it", "listed"} /\ load.at \in {"no", "list", "prune", "release"}
    /\ load.it \in Nat /\ (load.at = "release" => load.it > 0)
    /\ loads \in Nat /\ shut \in BOOLEAN /\ early \in BOOLEAN /\ sessionLoaded \in BOOLEAN

Shape == Map /\ Objects /\ Calling

LEMMA FirstIs ==
    ASSUME NEW S \in SUBSET Guid, S # {}
    PROVE  First(S) \in S
<1>1. \A g \in S : g \in Nat  BY BoundsAssumption, SMT DEF Guid
<1>2. PICK m \in S : \A k \in S : <<k, m>> \notin OpToRel(<, Nat)
  BY <1>1, WFMin, NatLessThanWellFounded, Zenon
<1>3. \A k \in S : ~(k < m)  BY <1>1, <1>2, Zenon DEF OpToRel
<1>4. \A k \in S : m <= k  BY <1>1, <1>3, SMT
<1> QED  BY <1>4, Zenon DEF First

LEMMA AfterIs ==
    ASSUME NEW S \in SUBSET Guid, NEW g
    PROVE  After(S, g) \in Nat
<1>1. MaxGuid + 1 \in Nat /\ \A h \in Guid : h \in Nat  BY BoundsAssumption, SMT DEF Guid
<1> DEFINE next == {h \in S : h > g}
<1>2. next # {} => First(next) \in Guid  BY FirstIs, Zenon
<1> HIDE DEF next
<1>3. After(S, g) = IF next = {} THEN MaxGuid + 1 ELSE First(next)  BY DEF After, next
<1> QED  BY <1>1, <1>2, <1>3

LEMMA ObjectIs ==
    ASSUME NEW o \in Object
    PROVE  Whose(o) \in Guid /\ o = <<Whose(o), o[2]>>
BY SMT DEF Object, Whose

LEMMA TheObjectIs ==
    ASSUME NEW g \in Known
    PROVE  TheObject(g) \in sessions /\ Whose(TheObject(g)) = g
<1>1. \E o \in sessions : Whose(o) = g  BY DEF Known
<1> QED  BY <1>1, Zenon DEF TheObject

\* A list without one of its places.
LEMMA WithoutIs ==
    ASSUME NEW open \in Seq(Object), NEW i \in 1 .. Len(open)
    PROVE  /\ Without(open, i) \in Seq(Object)
           /\ \A o : InList(Without(open, i), o) => InList(open, o)
           /\ \A o : InList(open, o) /\ o # open[i] => InList(Without(open, i), o)
<1> DEFINE a == SubSeq(open, 1, i - 1)
           b == SubSeq(open, i + 1, Len(open))
           w == a \o b
<1>0. Len(open) \in Nat /\ i \in Nat /\ i >= 1 /\ i <= Len(open) /\ DOMAIN open = 1 .. Len(open)
      /\ \A j \in 1 .. Len(open) : open[j] \in Object
  BY LenProperties, SMT
<1>1. a \in Seq(Object) /\ Len(a) = i - 1 /\ \A j \in 1 .. i - 1 : a[j] = open[j]
  <2>1. i - 1 \in Int /\ \A j \in 1 .. i - 1 : open[j] \in Object  BY <1>0, SMT
  <2> HIDE DEF a
  <2>2. /\ a \in Seq(Object) /\ Len(a) = IF 1 <= i - 1 THEN i - 1 - 1 + 1 ELSE 0
        /\ \A j \in 1 .. i - 1 - 1 + 1 : a[j] = open[1 + j - 1]
    BY <2>1, SubSeqProperties, SMT DEF a
  <2> QED  BY <1>0, <2>2, SMT
<1>2. b \in Seq(Object) /\ Len(b) = Len(open) - i /\ \A j \in 1 .. Len(open) - i : b[j] = open[i + j]
  <2>1. i + 1 \in Int /\ Len(open) \in Int /\ \A j \in i + 1 .. Len(open) : open[j] \in Object  BY <1>0, SMT
  <2> HIDE DEF b
  <2>2. /\ b \in Seq(Object) /\ Len(b) = IF i + 1 <= Len(open) THEN Len(open) - (i + 1) + 1 ELSE 0
        /\ \A j \in 1 .. Len(open) - (i + 1) + 1 : b[j] = open[(i + 1) + j - 1]
    BY <2>1, SubSeqProperties, SMT DEF b
  <2>3. Len(open) - (i + 1) + 1 = Len(open) - i
    /\ \A j \in 1 .. Len(open) - i : (i + 1) + j - 1 = i + j
    BY <1>0, SMT
  <2>4. Len(b) = Len(open) - i
    <3>1. Len(b) = IF i + 1 <= Len(open) THEN Len(open) - (i + 1) + 1 ELSE 0  BY <2>2
    <3>2. CASE i + 1 <= Len(open)  BY <2>3, <3>1, <3>2
    <3>3. CASE ~(i + 1 <= Len(open))
      <4>1. Len(open) \in Int /\ i \in Int /\ i <= Len(open)  BY <1>0, SMT
      <4> DEFINE n == Len(open)
      <4>2. n \in Int /\ i <= n /\ ~(i + 1 <= n)  BY <3>3, <4>1
      <4> HIDE DEF n
      <4>3. n - i = 0  BY <4>1, <4>2, SMT
      <4>4. Len(open) - i = 0  BY <4>3 DEF n
      <4> QED  BY <3>1, <3>3, <4>4
    <3> QED  BY <3>2, <3>3
  <2>5. \A j \in 1 .. Len(open) - i : b[j] = open[i + j]  BY <2>2, <2>3, Zenon
  <2> QED  BY <2>2, <2>4, <2>5
<1> HIDE DEF a, b
<1>3. /\ w \in Seq(Object) /\ Len(w) = Len(open) - 1
      /\ \A j \in 1 .. Len(open) - 1 : w[j] = IF j < i THEN open[j] ELSE open[j + 1]
  <2>1. /\ w \in Seq(Object) /\ Len(w) = Len(a) + Len(b)
        /\ \A j \in 1 .. Len(a) + Len(b) : w[j] = IF j <= Len(a) THEN a[j] ELSE b[j - Len(a)]
    BY <1>1, <1>2, ConcatProperties
  <2> HIDE DEF w
  <2>2. Len(w) = Len(open) - 1  BY <1>0, <1>1, <1>2, <2>1, SMT
  <2>3. ASSUME NEW j \in 1 .. Len(open) - 1 PROVE w[j] = IF j < i THEN open[j] ELSE open[j + 1]
    <3>1. w[j] = IF j <= Len(a) THEN a[j] ELSE b[j - Len(a)]
      <4>1. j \in 1 .. Len(a) + Len(b)  BY <1>0, <1>1, <1>2, <2>3, SMT
      <4> QED  BY <2>1, <4>1
    <3>2. CASE j < i
      <4>1. j <= Len(a) /\ j \in 1 .. i - 1  BY <1>0, <1>1, <2>3, <3>2, SMT
      <4> QED  BY <1>1, <3>1, <3>2, <4>1
    <3>3. CASE ~(j < i)
      <4>1. ~(j <= Len(a)) /\ j - Len(a) \in 1 .. Len(open) - i /\ i + (j - Len(a)) = j + 1
        BY <1>0, <1>1, <2>3, <3>3, SMT
      <4>2. b[j - Len(a)] = open[i + (j - Len(a))]  BY <1>2, <4>1, Zenon
      <4>3. b[j - Len(a)] = open[j + 1]  BY <4>1, <4>2
      <4> QED  BY <3>1, <3>3, <4>1, <4>3, Zenon
    <3> QED  BY <3>2, <3>3
  <2> QED  BY <2>1, <2>2, <2>3
<1>4. Without(open, i) = w  BY DEF Without, a, b
<1> HIDE DEF w
<1>5. DOMAIN w = 1 .. Len(open) - 1  BY <1>3, LenProperties
<1>6. ASSUME NEW o, InList(w, o) PROVE InList(open, o)
  BY <1>0, <1>3, <1>5, <1>6, SMT DEF InList
<1>7. ASSUME NEW o, InList(open, o), o # open[i] PROVE InList(w, o)
  <2>1. PICK j \in 1 .. Len(open) : open[j] = o  BY <1>0, <1>7 DEF InList
  <2>2. CASE j < i
    <3>1. j \in DOMAIN w /\ w[j] = o  BY <1>0, <1>3, <1>5, <2>1, <2>2, SMT
    <3> QED  BY <3>1 DEF InList
  <2>3. CASE j > i
    <3>1. j - 1 \in DOMAIN w /\ w[j - 1] = o  BY <1>0, <1>3, <1>5, <2>1, <2>3, SMT
    <3> QED  BY <3>1 DEF InList
  <2> QED  BY <1>0, <1>7, <2>1, <2>2, <2>3, SMT
<1> QED  BY <1>3, <1>4, <1>6, <1>7

LEMMA WithoutFirstIs ==
    ASSUME NEW open \in Seq(Object), NEW g
    PROVE  /\ WithoutFirst(open, g) \in Seq(Object)
           /\ \A o : InList(WithoutFirst(open, g), o) => InList(open, o)
           /\ \A o : InList(open, o) /\ Whose(o) # g => InList(WithoutFirst(open, g), o)
<1> DEFINE of == {i \in DOMAIN open : Whose(open[i]) = g}
<1>1. CASE of = {}
  <2>1. WithoutFirst(open, g) = open  BY <1>1, Zenon DEF WithoutFirst
  <2> QED  BY <2>1
<1>2. CASE of # {}
  <2>1. WithoutFirst(open, g) = Without(open, First(of))  BY <1>2, Zenon DEF WithoutFirst
  <2>2. DOMAIN open = 1 .. Len(open) /\ \A i \in DOMAIN open : i \in Nat  BY LenProperties, SMT
  <2>3. First(of) \in of
    <3>1. PICK m \in of : \A k \in of : <<k, m>> \notin OpToRel(<, Nat)
      BY <1>2, <2>2, WFMin, NatLessThanWellFounded, Zenon
    <3>2. \A k \in of : ~(k < m)  BY <2>2, <3>1, Zenon DEF OpToRel
    <3>3. \A k \in of : m <= k  BY <2>2, <3>2, SMT
    <3> HIDE DEF of
    <3> QED  BY <3>3, Zenon DEF First
  <2>4. First(of) \in 1 .. Len(open) /\ Whose(open[First(of)]) = g  BY <2>2, <2>3
  <2> HIDE DEF of
  <2>5. \A o : Whose(o) # g => o # open[First(of)]  BY <2>4
  <2> QED  BY <2>1, <2>4, <2>5, WithoutIs
<1> QED  BY <1>1, <1>2

LEMMA AppendIs ==
    ASSUME NEW open \in Seq(Object), NEW o \in Object
    PROVE  /\ Append(open, o) \in Seq(Object) /\ InList(Append(open, o), o)
           /\ \A p : InList(open, p) => InList(Append(open, o), p)
           /\ \A p : InList(Append(open, o), p) => InList(open, p) \/ p = o
<1> DEFINE a == Append(open, o)
<1>1. /\ a \in Seq(Object) /\ Len(a) = Len(open) + 1 /\ a[Len(open) + 1] = o
      /\ \A i \in 1 .. Len(open) : a[i] = open[i]
  BY AppendProperties
<1> HIDE DEF a
<1>2. /\ DOMAIN a = 1 .. Len(open) + 1 /\ DOMAIN open = 1 .. Len(open) /\ Len(open) \in Nat
  BY <1>1, LenProperties
<1>3. InList(a, o)  BY <1>1, <1>2, SMT DEF InList
<1>4. \A p : InList(open, p) => InList(a, p)  BY <1>1, <1>2, SMT DEF InList
<1>5. ASSUME NEW p, InList(a, p) PROVE InList(open, p) \/ p = o
  <2>1. PICK i \in 1 .. Len(open) + 1 : a[i] = p  BY <1>2, <1>5 DEF InList
  <2>2. CASE i \in 1 .. Len(open)  BY <1>1, <1>2, <2>1, <2>2 DEF InList
  <2>3. CASE i = Len(open) + 1  BY <1>1, <2>1, <2>3
  <2> QED  BY <1>2, <2>2, <2>3, SMT
<1> QED  BY <1>1, <1>3, <1>4, <1>5 DEF a

LEMMA EmptyList == <<>> \in Seq(Object) /\ \A o : ~InList(<<>>, o)
BY SMT DEF InList

(***************************************************************************)
(* What is done to an object.                                              *)
(***************************************************************************)
\* An object that is told to stop, or closed, and one that its thread works with.
Less(q, r) == /\ Full(q) /\ Full(r) /\ q.name = r.name /\ q.vm = r.vm /\ (q.run => r.run)
              /\ (q.instances > 0 => r.instances > 0)
Same(q, r) == Full(q) /\ q.name = r.name /\ (q.run <=> r.run) /\ q.instances = r.instances

LEMMA NoObjectIs ==
    NoObject.run = FALSE /\ NoObject.instances = 0 /\ ~Full(NoObject) /\ ~(NoObject.instances > 0)
BY SMT DEF NoObject, Full, ObjectFields

LEMMA StoppedIs ==
    ASSUME NEW r, Full(r)
    PROVE  /\ Less(Stopped(r), r) /\ Stopped(r).run = FALSE
           /\ Less(Aborted(r), r) /\ Aborted(r).run = FALSE
           /\ Less(Notified(r), r) /\ Notified(r).instances = r.instances
<1> DEFINE s == Stopped(r)
           a == Aborted(r)
<1>0. DOMAIN r = ObjectFields /\ r.run \in BOOLEAN /\ r.instances \in Nat  BY DEF Full
<1>1. /\ DOMAIN s = ObjectFields /\ s.run = FALSE /\ s.instances = r.instances
      /\ s.name = r.name /\ s.vm = r.vm
  BY <1>0, SMT DEF Stopped, ObjectFields
<1> HIDE DEF s
<1>2. a = [s EXCEPT !.aborting = TRUE]  BY DEF Aborted, s
<1>3. /\ DOMAIN a = ObjectFields /\ a.run = FALSE /\ a.instances = r.instances
      /\ a.name = r.name /\ a.vm = r.vm
  BY <1>1, <1>2, SMT DEF ObjectFields
<1> HIDE DEF a
<1>4. Less(s, r) /\ Less(a, r) /\ Less(r, r)  BY <1>0, <1>1, <1>3, Zenon DEF Less, Full
<1>5. Notified(r) = r \/ Notified(r) = s  BY Zenon DEF Notified, s
<1> QED  BY <1>1, <1>3, <1>4, <1>5 DEF s, a

LEMMA ClosedIs ==
    ASSUME NEW r, Full(r)
    PROVE  LET q == [Aborted(r) EXCEPT !.instances = 0]
           IN  Less(q, r) /\ q.run = FALSE /\ q.instances = 0
<1> DEFINE a == Aborted(r)
           q == [a EXCEPT !.instances = 0]
<1>1. Less(a, r) /\ a.run = FALSE  BY StoppedIs
<1> HIDE DEF a
<1>2. DOMAIN a = ObjectFields /\ a.name = r.name /\ a.vm = r.vm  BY <1>1 DEF Less, Full
<1>3. /\ DOMAIN q = ObjectFields /\ q.run = FALSE /\ q.instances = 0
      /\ q.name = r.name /\ q.vm = r.vm
  BY <1>1, <1>2, SMT DEF ObjectFields
<1> HIDE DEF q
<1>4. ~(q.instances > 0) /\ q.instances \in Nat  BY <1>3, SMT
<1>5. Less(q, r)  BY <1>3, <1>4, Zenon DEF Less, Full
<1> QED  BY <1>3, <1>5 DEF q, a

LEMMA DecrementIs ==
    ASSUME NEW r, Full(r), r.instances > 1
    PROVE  LET q == [r EXCEPT !.instances = @ - 1]
           IN  Less(q, r) /\ (q.run <=> r.run) /\ q.instances > 0
<1> DEFINE q == [r EXCEPT !.instances = @ - 1]
<1>0. DOMAIN r = ObjectFields /\ r.run \in BOOLEAN /\ r.instances \in Nat  BY DEF Full
<1>1. /\ DOMAIN q = ObjectFields /\ q.run = r.run /\ q.instances = r.instances - 1
      /\ q.name = r.name /\ q.vm = r.vm
  BY <1>0, SMT DEF ObjectFields
<1> HIDE DEF q
<1>2. q.instances \in Nat /\ q.instances > 0 /\ r.instances > 0  BY <1>0, <1>1, SMT
<1>3. Less(q, r)  BY <1>0, <1>1, <1>2, Zenon DEF Less, Full
<1> QED  BY <1>1, <1>2, <1>3 DEF q

LEMMA OpenedIs ==
    ASSUME NEW r, Full(r)
    PROVE  LET q == [r EXCEPT !.instances = @ + 1, !.run = TRUE, !.aborting = FALSE]
           IN  Full(q) /\ q.run = TRUE /\ q.instances > 0 /\ q.name = r.name /\ q.vm = r.vm
<1> DEFINE q == [r EXCEPT !.instances = @ + 1, !.run = TRUE, !.aborting = FALSE]
<1>0. DOMAIN r = ObjectFields /\ r.run \in BOOLEAN /\ r.instances \in Nat  BY DEF Full
<1>1. /\ DOMAIN q = ObjectFields /\ q.run = TRUE /\ q.instances = r.instances + 1
      /\ q.name = r.name /\ q.vm = r.vm
  BY <1>0, SMT DEF ObjectFields
<1> HIDE DEF q
<1>2. q.instances \in Nat /\ q.instances > 0  BY <1>0, <1>1, SMT
<1> QED  BY <1>1, <1>2, Zenon DEF Full, q

LEMMA MadeIs ==
    ASSUME NEW f
    PROVE  /\ Full(Made(f)) /\ Made(f).run = FALSE /\ Made(f).instances = 0 /\ ~(Made(f).instances > 0)
           /\ Made(f).name = f.name /\ Made(f).vm = f.vm
BY SMT DEF Made, Full, ObjectFields

LEMMA NamedIs ==
    ASSUME NEW r, Full(r), NEW n
    PROVE  Full([r EXCEPT !.name = n]) /\ [r EXCEPT !.name = n].name = n
<1> DEFINE q == [r EXCEPT !.name = n]
<1>0. DOMAIN r = ObjectFields /\ r.run \in BOOLEAN /\ r.instances \in Nat  BY DEF Full
<1>1. DOMAIN q = ObjectFields /\ q.run = r.run /\ q.instances = r.instances /\ q.name = n
  BY <1>0, SMT DEF ObjectFields
<1> HIDE DEF q
<1> QED  BY <1>0, <1>1, Zenon DEF Full, q

LEMMA FileIs ==
    /\ \A o, n : Complete([Stored(o) EXCEPT !.name = n]) /\ [Stored(o) EXCEPT !.name = n].name = n
    /\ \A n, v, s : LET f == [there |-> "yes", name |-> n, vm |-> v, state |-> s]
                    IN  Complete(f) /\ f.name = n
    /\ ~Complete(NoFile) /\ ~Complete(UuidOnly)
<1>1. ASSUME NEW o, NEW n
      PROVE  Complete([Stored(o) EXCEPT !.name = n]) /\ [Stored(o) EXCEPT !.name = n].name = n
  BY SMT DEF Complete, Stored
<1>2. ASSUME NEW n, NEW v, NEW s
      PROVE  LET f == [there |-> "yes", name |-> n, vm |-> v, state |-> s]
             IN  Complete(f) /\ f.name = n
  BY SMT DEF Complete
<1>3. ~Complete(NoFile) /\ ~Complete(UuidOnly)  BY SMT DEF Complete, NoFile, UuidOnly
<1> QED  BY <1>1, <1>2, <1>3

LEMMA KeptIs ==
    ASSUME NEW known, NEW open, NEW objs
    PROVE  /\ DOMAIN Kept(known, open, objs) = Object
           /\ \A p \in Object : \/ Kept(known, open, objs)[p] = objs[p]
                                \/ Kept(known, open, objs)[p] = NoObject
           /\ \A p \in Object : p \in known \/ InList(open, p) => Kept(known, open, objs)[p] = objs[p]
BY Zenon DEF Kept, Referred, InList

(***************************************************************************)
(* The invariant.                                                          *)
(***************************************************************************)
\* Where nothing was opened before the sessions were loaded: a thread runs for the
\* objects of the map that are open, which are in the list, and none when abort() was
\* called or sessions are loaded.
Opened ==
    ~early =>
      /\ \A o \in Object : obj[o].run => /\ InList(openSessions, o) /\ o \in sessions
                                         /\ obj[o].instances > 0 /\ ~shut
      /\ ~shut => \A o \in Object : obj[o].instances > 0 => obj[o].run
      /\ load.at # "no" => openSessions = <<>>

\* The map then has the sessions on disk, under their names, and the one that is being
\* opened, whose name no file has.
Distinct ==
    \A g, h \in Guid :
        (Complete(files[g]) /\ Complete(files[h]) /\ files[g].name = files[h].name) => g = h
Loaded == sessionLoaded \/ load.at # "no"

Named ==
    ~early =>
      /\ Distinct
      /\ ~shut =>
           /\ Loaded => \A g \in Guid : Complete(files[g]) => g \in Known
           /\ ~Loaded => sessions = {}
           /\ \A o \in sessions : \/ Complete(files[Whose(o)]) /\ files[Whose(o)].name = obj[o].name
                                  \/ opening # Nothing /\ o = <<opening[1], 0>>
           /\ opening # Nothing =>
                \A g \in Guid : Complete(files[g]) => files[g].name # opening[2]

\* While sessions are loaded, their objects have no threads, and those whose machine is
\* there all the while are among the machines that were listed.
Lasting ==
    /\ steady \subseteq Guid /\ \A g \in steady : Complete(files[g]) /\ (~shut => g \in Known)
    /\ load.at \in {"list", "prune"} =>
         \A o \in sessions : ~obj[o].run /\ (Whose(o) \in steady => obj[o].vm \in ListedVMs)
    /\ load.at = "prune" =>
         \A o \in sessions : Whose(o) \in steady => obj[o].vm \in load.listed

RegistryInv == Shape /\ Opened /\ Named /\ Lasting

LEMMA RegistryInit == Init => RegistryInv
<1> SUFFICES ASSUME Init PROVE RegistryInv  OBVIOUS
<1>1. PICK left \in Left :
        files = [g \in Guid |-> IF g \in left
                   THEN [there |-> "yes", name |-> FirstName[g], vm |-> g, state |-> "exists"]
                   ELSE NoFile]
        /\ guids = left
  BY Zenon DEF Init
<1>2. /\ sessions = {} /\ openSessions = <<>> /\ obj = [o \in Object |-> NoObject]
      /\ load = NoLoad /\ sessionLoaded = FALSE /\ opening = Nothing /\ shut = FALSE
      /\ loads = 0 /\ steady = {} /\ early = FALSE
  BY Zenon DEF Init
<1>3. left \subseteq Guid /\ \A g, h \in left : FirstName[g] = FirstName[h] => g = h
  BY LeftAssumption
<1>4. \A g \in left : files[g] = [there |-> "yes", name |-> FirstName[g], vm |-> g, state |-> "exists"]
  BY <1>1, <1>3, Zenon
<1>5. \A g \in left : Complete(files[g]) /\ files[g].name = FirstName[g]
  <2> SUFFICES ASSUME NEW g \in left PROVE Complete(files[g]) /\ files[g].name = FirstName[g]
    OBVIOUS
  <2> DEFINE f == [there |-> "yes", name |-> FirstName[g], vm |-> g, state |-> "exists"]
  <2>1. files[g] = f  BY <1>4
  <2>2. f.there = "yes" /\ f.name = FirstName[g]  OBVIOUS
  <2> HIDE DEF f
  <2> QED  BY <2>1, <2>2 DEF Complete
<1>6. \A g \in Guid : Complete(files[g]) => g \in left
  <2>1. \A g \in Guid : g \notin left => files[g] = NoFile  BY <1>1, Zenon
  <2> QED  BY <2>1, FileIs, Zenon
<1>7. Map
  BY <1>1, <1>2, <1>3, <1>6, Zenon DEF Map
<1>8. Objects
  BY <1>2, EmptyList, Zenon DEF Objects
<1>9. DOMAIN load = {"at", "it", "listed"} /\ load.at = "no" /\ load.it = 0
  BY <1>2 DEF NoLoad
<1>10. Calling
  <2>1. 0 \in Nat  OBVIOUS
  <2>2. load.at \in {"no", "list", "prune", "release"} /\ load.at # "release"  BY <1>9
  <2> QED  BY <1>2, <1>9, <2>1, <2>2, Zenon DEF Calling
<1>11. \A o \in Object : obj[o].run = FALSE /\ ~(obj[o].instances > 0)
  BY <1>2, NoObjectIs, Zenon
<1>12. Opened  BY <1>9, <1>11, Zenon DEF Opened
<1>13. Named
  <2>1. Distinct
    <3> SUFFICES ASSUME NEW g \in Guid, NEW h \in Guid, Complete(files[g]), Complete(files[h]),
                        files[g].name = files[h].name
                 PROVE  g = h
      BY DEF Distinct
    <3>1. g \in left /\ h \in left  BY <1>6
    <3>2. FirstName[g] = FirstName[h]  BY <1>5, <3>1
    <3> QED  BY <1>3, <3>1, <3>2
  <2>2. ~Loaded  BY <1>2, <1>9 DEF Loaded
  <2> QED  BY <1>2, <2>1, <2>2, Zenon DEF Named
<1>14. Lasting
  <2>1. load.at \notin {"list", "prune"} /\ load.at # "prune"  BY <1>9
  <2> QED  BY <1>2, <2>1, Zenon DEF Lasting
<1> QED  BY <1>7, <1>8, <1>10, <1>12, <1>13, <1>14, Zenon DEF RegistryInv, Shape

(***************************************************************************)
(* Sessions that are closed, deleted or released.                          *)
(***************************************************************************)
\* Objects of a session are told to stop, objects nobody refers to are gone.
Lessens(g) ==
    /\ sessions' \subseteq sessions /\ guids' = guids
    /\ openSessions' \in Seq(Object) /\ \A p : InList(openSessions', p) => InList(openSessions, p)
    /\ DOMAIN obj' = Object
    /\ \A p \in Object : \/ obj'[p] = obj[p] \/ (Whose(p) = g /\ Less(obj'[p], obj[p]))
                         \/ obj'[p] = NoObject /\ p \notin sessions' /\ ~InList(openSessions', p)
    /\ DOMAIN files' = Guid /\ \A h \in Guid : Complete(files'[h]) => files'[h] = files[h]

LEMMA LessensKeeps ==
    ASSUME Map, Objects, NEW g, Lessens(g)
    PROVE  Map' /\ Objects'
<1>1. Map'  BY Zenon DEF Map, Lessens
<1>2. ASSUME NEW p \in Object PROVE obj'[p] = NoObject \/ (Full(obj'[p]) /\ Whose(p) \in guids')
  BY NoObjectIs, Zenon DEF Objects, Lessens, Less
<1>3. ASSUME NEW p \in Object, p \in sessions' \/ InList(openSessions', p) PROVE Full(obj'[p])
  BY <1>3, Zenon DEF Objects, Lessens, Less
<1>4. Objects'  BY <1>2, <1>3, Zenon DEF Objects, Lessens
<1> QED  BY <1>1, <1>4

LEMMA DeletingIs ==
    ASSUME Map, NEW g \in Known, NEW open \in Seq(Object), NEW objs, DOMAIN objs = Object,
           Full(objs[TheObject(g)]), Deleting(g, open, objs)
    PROVE  /\ sessions' = sessions \ {TheObject(g)} /\ files' = [files EXCEPT ![g] = NoFile]
           /\ openSessions' \in Seq(Object) /\ \A p : InList(openSessions', p) => InList(open, p)
           /\ \A p : InList(open, p) /\ Whose(p) # g => InList(openSessions', p)
           /\ DOMAIN obj' = Object
           /\ \A p \in Object :
                \/ obj'[p] = objs[p] \/ (p = TheObject(g) /\ Less(obj'[p], objs[p]))
                \/ obj'[p] = NoObject /\ p \notin sessions' /\ ~InList(openSessions', p)
<1> DEFINE o    == TheObject(g)
           was  == \E i \in DOMAIN open : Whose(open[i]) = g
           left == WithoutFirst(open, g)
           told == IF was THEN [objs EXCEPT ![o] = Notified(@)] ELSE objs
<1>1. /\ sessions' = sessions \ {o} /\ openSessions' = left /\ obj' = Kept(sessions', left, told)
      /\ files' = [files EXCEPT ![g] = NoFile]
  BY Zenon DEF Deleting
<1>2. o \in Object /\ Less(Notified(objs[o]), objs[o])
  BY TheObjectIs, StoppedIs, Zenon DEF Map
<1> HIDE DEF o, was
<1>3. told[o] = objs[o] \/ Less(told[o], objs[o])
  <2>1. CASE was   BY <1>2, <2>1, Zenon
  <2>2. CASE ~was  BY <2>2
  <2> QED  BY <2>1, <2>2
<1>4. \A p \in Object : p # o => told[p] = objs[p]  BY Zenon
<1>5. /\ left \in Seq(Object) /\ \A p : InList(left, p) => InList(open, p)
      /\ \A p : InList(open, p) /\ Whose(p) # g => InList(left, p)
  BY WithoutFirstIs
<1> HIDE DEF told, left
<1>6. /\ DOMAIN obj' = Object
      /\ \A p \in Object : obj'[p] = told[p] \/ obj'[p] = NoObject
      /\ \A p \in Object : p \in sessions' \/ InList(left, p) => obj'[p] = told[p]
  BY <1>1, KeptIs
<1>7. ASSUME NEW p \in Object
      PROVE  \/ obj'[p] = objs[p] \/ (p = o /\ Less(obj'[p], objs[p]))
             \/ obj'[p] = NoObject /\ p \notin sessions' /\ ~InList(openSessions', p)
  <2>1. told[p] = objs[p] \/ (p = o /\ Less(told[p], objs[p]))
    BY <1>3, <1>4, Zenon
  <2>2. CASE obj'[p] = told[p]  BY <2>1, <2>2
  <2>3. CASE obj'[p] # told[p]  BY <1>1, <1>6, <2>3
  <2> QED  BY <2>2, <2>3
<1> QED  BY <1>1, <1>5, <1>6, <1>7 DEF o

LEMMA OpenOnesAreFull ==
    ASSUME Objects, NEW o \in Object, obj[o].instances > 0 \/ obj[o].run
    PROVE  Full(obj[o])
BY NoObjectIs, Zenon DEF Objects

\* The session is told to stop, and what was open stays open.
LEMMA CloseOneIs ==
    ASSUME Shape, NEW o \in Object, CloseOne(o), guids' = guids
    PROVE  /\ Lessens(Whose(o)) /\ files' = files /\ sessions' = sessions /\ openSessions' = openSessions
           /\ \A p \in Object : /\ obj'[p].run <=> obj[p].run
                                /\ obj'[p].instances > 0 <=> obj[p].instances > 0
                                /\ obj'[p].name = obj[p].name
<1> DEFINE q == [obj[o] EXCEPT !.instances = @ - 1]
<1>1. /\ obj[o].instances > 1 /\ obj' = [obj EXCEPT ![o] = q]
      /\ files' = files /\ sessions' = sessions /\ openSessions' = openSessions
  BY Zenon DEF CloseOne
<1>2. Map /\ Objects /\ DOMAIN obj = Object  BY DEF Shape, Objects
<1>3. Full(obj[o]) /\ obj[o].instances > 0
  <2>1. obj[o] # NoObject  BY <1>1, SMT DEF NoObject
  <2>2. Full(obj[o])  BY <1>2, <2>1 DEF Objects
  <2> QED  BY <1>1, <2>2, SMT DEF Full
<1>4. Less(q, obj[o]) /\ (q.run <=> obj[o].run) /\ q.instances > 0
  BY <1>1, <1>3, DecrementIs, Zenon
<1> HIDE DEF q
<1>5. obj'[o] = q /\ DOMAIN obj' = Object /\ \A p \in Object : p # o => obj'[p] = obj[p]
  BY <1>1, <1>2, Zenon
<1>6. \A p \in Object : obj'[p] = obj[p] \/ (Whose(p) = Whose(o) /\ Less(obj'[p], obj[p]))
  BY <1>4, <1>5, Zenon
<1>7. Lessens(Whose(o))
  BY <1>1, <1>2, <1>5, <1>6, Zenon DEF Lessens, Map, Objects
<1>8. \A p \in Object : /\ obj'[p].run <=> obj[p].run
                        /\ obj'[p].instances > 0 <=> obj[p].instances > 0
                        /\ obj'[p].name = obj[p].name
  BY <1>3, <1>4, <1>5, Zenon DEF Less
<1> QED  BY <1>1, <1>7, <1>8

LEMMA CloseLastIs ==
    ASSUME Shape, NEW o \in Object, CloseLast(o), guids' = guids
    PROVE  /\ Lessens(Whose(o)) /\ obj[o].instances > 0
           /\ obj'[o].run = FALSE /\ ~(obj'[o].instances > 0)
           /\ \A p \in Object : p # o => /\ obj'[p].run => obj[p].run
                                         /\ obj'[p].instances > 0 => obj[p].instances > 0
           /\ \A p \in Object : p # o /\ Whose(p) # Whose(o) /\ obj'[p] # NoObject => obj'[p] = obj[p]
           /\ \A p : InList(openSessions, p) /\ Whose(p) # Whose(o) => InList(openSessions', p)
           /\ \/ files' = files /\ sessions' = sessions
              \/ /\ Whose(o) \in Known /\ sessions' = sessions \ {TheObject(Whose(o))}
                 /\ files' = [files EXCEPT ![Whose(o)] = NoFile]
<1> DEFINE g == Whose(o)
           c == [Aborted(obj[o]) EXCEPT !.instances = 0]
           closed == [obj EXCEPT ![o] = c]
           left == WithoutFirst(openSessions, g)
<1>1. /\ obj[o].instances = 1
      /\ \/ g \in Known /\ Deleting(g, left, closed)
         \/ openSessions' = left /\ obj' = Kept(sessions, left, closed) /\ UNCHANGED <<sessions, files>>
  BY Zenon DEF CloseLast
<1>2. Map /\ Objects /\ DOMAIN obj = Object /\ openSessions \in Seq(Object)  BY DEF Shape, Objects
<1>3. obj[o].instances > 0 /\ Full(obj[o])
  <2>1. obj[o].instances > 0  BY <1>1, SMT
  <2> QED  BY <1>2, <2>1, OpenOnesAreFull
<1>4. Less(c, obj[o]) /\ c.run = FALSE /\ c.instances = 0 /\ ~(c.instances > 0)
  <2>1. Less(c, obj[o]) /\ c.run = FALSE /\ c.instances = 0  BY <1>3, ClosedIs, Zenon
  <2> HIDE DEF c
  <2>2. ~(c.instances > 0)  BY <2>1, SMT
  <2> QED  BY <2>1, <2>2
<1> HIDE DEF c
<1>5. closed[o] = c /\ DOMAIN closed = Object /\ \A p \in Object : p # o => closed[p] = obj[p]
  BY <1>2, Zenon
<1>6. /\ left \in Seq(Object) /\ \A p : InList(left, p) => InList(openSessions, p)
      /\ \A p : InList(openSessions, p) /\ Whose(p) # g => InList(left, p)
  BY <1>2, WithoutFirstIs
<1>7. \A p \in Object : closed[p] = obj[p] \/ (Whose(p) = g /\ Less(closed[p], obj[p]))
  BY <1>4, <1>5, Zenon
<1> HIDE DEF closed, left, g
<1>8. CASE g \in Known /\ Deleting(g, left, closed)
  <2> DEFINE t == TheObject(g)
  <2>1. t \in Object /\ Whose(t) = g /\ t \in sessions  BY <1>2, <1>8, TheObjectIs, Zenon DEF Map
  <2>2. Full(closed[t])
    <3>1. Full(obj[t])  BY <1>2, <2>1, Zenon DEF Objects
    <3> QED  BY <1>7, <2>1, <3>1, Zenon DEF Less
  <2>3. /\ sessions' = sessions \ {t} /\ files' = [files EXCEPT ![g] = NoFile]
        /\ openSessions' \in Seq(Object) /\ \A p : InList(openSessions', p) => InList(left, p)
        /\ \A p : InList(left, p) /\ Whose(p) # g => InList(openSessions', p)
        /\ DOMAIN obj' = Object
        /\ \A p \in Object :
             \/ obj'[p] = closed[p] \/ (p = t /\ Less(obj'[p], closed[p]))
             \/ obj'[p] = NoObject /\ p \notin sessions' /\ ~InList(openSessions', p)
    BY <1>2, <1>5, <1>6, <1>8, <2>2, DeletingIs
  <2> HIDE DEF t
  <2>4. \A p \in Object : \/ obj'[p] = obj[p] \/ (Whose(p) = g /\ Less(obj'[p], obj[p]))
                          \/ obj'[p] = NoObject /\ p \notin sessions' /\ ~InList(openSessions', p)
    <3> SUFFICES ASSUME NEW p \in Object,
                        obj'[p] = closed[p] \/ (p = t /\ Less(obj'[p], closed[p]))
                 PROVE  obj'[p] = obj[p] \/ (Whose(p) = g /\ Less(obj'[p], obj[p]))
      BY <2>3, Zenon
    <3>1. CASE obj'[p] = closed[p]  BY <1>7, <3>1
    <3>2. CASE p = t /\ Less(obj'[p], closed[p])
      BY <1>7, <2>1, <3>2, Zenon DEF Less
    <3> QED  BY <3>1, <3>2
  <2>5. DOMAIN files' = Guid /\ \A h \in Guid : Complete(files'[h]) => files'[h] = files[h]
    <3>1. DOMAIN files = Guid  BY <1>2 DEF Map
    <3>2. \A h \in Guid : files'[h] = NoFile \/ files'[h] = files[h]  BY <2>3, <3>1, Zenon
    <3> QED  BY <2>3, <3>1, <3>2, FileIs, Zenon
  <2>6. Lessens(g)
    BY <1>6, <2>3, <2>4, <2>5, Zenon DEF Lessens
  <2>7. obj'[o].run = FALSE /\ ~(obj'[o].instances > 0)
    BY <1>4, <1>5, <2>3, NoObjectIs, Zenon DEF Less, Full
  <2>8. \A p \in Object : p # o => /\ obj'[p].run => obj[p].run
                                   /\ obj'[p].instances > 0 => obj[p].instances > 0
    BY <1>5, <2>3, NoObjectIs, Zenon DEF Less
  <2>9. \A p \in Object : p # o /\ Whose(p) # g /\ obj'[p] # NoObject => obj'[p] = obj[p]
    BY <1>5, <2>1, <2>3, Zenon
  <2> QED  BY <1>3, <1>6, <1>8, <2>3, <2>6, <2>7, <2>8, <2>9, Zenon DEF g, t
<1>9. CASE openSessions' = left /\ obj' = Kept(sessions, left, closed) /\ UNCHANGED <<sessions, files>>
  <2>1. /\ DOMAIN obj' = Object
        /\ \A p \in Object : obj'[p] = closed[p] \/ obj'[p] = NoObject
        /\ \A p \in Object : p \in sessions \/ InList(left, p) => obj'[p] = closed[p]
    BY <1>9, KeptIs
  <2>2. \A p \in Object : \/ obj'[p] = obj[p] \/ (Whose(p) = g /\ Less(obj'[p], obj[p]))
                          \/ obj'[p] = NoObject /\ p \notin sessions' /\ ~InList(openSessions', p)
    <3> SUFFICES ASSUME NEW p \in Object
                 PROVE  \/ obj'[p] = obj[p] \/ (Whose(p) = g /\ Less(obj'[p], obj[p]))
                        \/ obj'[p] = NoObject /\ p \notin sessions' /\ ~InList(openSessions', p)
      OBVIOUS
    <3>1. CASE obj'[p] = closed[p]  BY <1>7, <3>1
    <3>2. CASE obj'[p] # closed[p]  BY <1>9, <2>1, <3>2
    <3> QED  BY <3>1, <3>2
  <2>3. Lessens(g)
    BY <1>2, <1>6, <1>9, <2>1, <2>2, Zenon DEF Lessens, Map
  <2>4. obj'[o].run = FALSE /\ ~(obj'[o].instances > 0)
    BY <1>4, <1>5, <2>1, NoObjectIs, Zenon
  <2>5. \A p \in Object : p # o => /\ obj'[p].run => obj[p].run
                                   /\ obj'[p].instances > 0 => obj[p].instances > 0
    BY <1>5, <2>1, NoObjectIs, Zenon
  <2>6. \A p \in Object : p # o /\ Whose(p) # g /\ obj'[p] # NoObject => obj'[p] = obj[p]
    BY <1>5, <2>1, Zenon
  <2> QED  BY <1>3, <1>6, <1>9, <2>3, <2>4, <2>5, <2>6, Zenon DEF g
<1> QED  BY <1>1, <1>8, <1>9

(***************************************************************************)
(* The application closes a session.                                       *)
(***************************************************************************)
LEMMA FreeIs ==
    ASSUME Calling, Free
    PROVE  load.at = "no" /\ opening = Nothing /\ ~shut /\ load.at \notin {"list", "prune"}
BY Zenon DEF Free, Calling

LEMMA CloseKeeps ==
    ASSUME RegistryInv, NEW o \in Object, Close(o)
    PROVE  RegistryInv'
<1> DEFINE g == Whose(o)
<1>1. /\ Map /\ Objects /\ Calling /\ Shape /\ Opened /\ Named /\ Lasting
  BY DEF RegistryInv, Shape
<1>2. /\ load.at = "no" /\ opening = Nothing /\ ~shut /\ load.at \notin {"list", "prune"}
  BY <1>1, FreeIs DEF Close
<1>3. /\ CloseOne(o) \/ CloseLast(o)
      /\ steady' = steady \ {g} /\ opening' = opening /\ shut' = shut /\ guids' = guids
      /\ early' = early /\ load' = load /\ sessionLoaded' = sessionLoaded /\ loads' = loads
  BY Zenon DEF Close, NotLoading
<1>4. /\ Lessens(g)
      /\ \/ files' = files /\ sessions' = sessions
         \/ /\ g \in Known /\ sessions' = sessions \ {TheObject(g)}
            /\ files' = [files EXCEPT ![g] = NoFile]
      /\ \A p \in Object : p # o => /\ obj'[p].run => obj[p].run
                                    /\ obj'[p].instances > 0 => obj[p].instances > 0
      /\ \A p : InList(openSessions, p) /\ Whose(p) # g => InList(openSessions', p)
  BY <1>1, <1>3, CloseOneIs, CloseLastIs, Zenon
<1>5. Map' /\ Objects'  BY <1>1, <1>4, LessensKeeps
<1>6. Calling'  BY <1>1, <1>2, <1>3, Zenon DEF Calling
<1>7. Opened'
  <2> SUFFICES ASSUME ~early' PROVE Opened'  BY DEF Opened
  <2>1. /\ \A p \in Object : obj[p].run => /\ InList(openSessions, p) /\ p \in sessions
                                           /\ obj[p].instances > 0
        /\ \A p \in Object : obj[p].instances > 0 => obj[p].run
    BY <1>1, <1>2, <1>3, Zenon DEF Opened
  <2>2. CASE CloseOne(o)
    <3>1. /\ sessions' = sessions /\ openSessions' = openSessions
          /\ \A p \in Object : /\ obj'[p].run <=> obj[p].run
                               /\ obj'[p].instances > 0 <=> obj[p].instances > 0
      BY <1>1, <1>3, <2>2, CloseOneIs, Zenon
    <3> QED  BY <1>2, <1>3, <2>1, <3>1, Zenon DEF Opened
  <2>3. CASE CloseLast(o)
    <3>1. /\ obj[o].instances > 0 /\ obj'[o].run = FALSE /\ ~(obj'[o].instances > 0)
          /\ \A p \in Object : p # o /\ Whose(p) # g /\ obj'[p] # NoObject => obj'[p] = obj[p]
      BY <1>1, <1>3, <2>3, CloseLastIs, Zenon
    <3>2. o \in sessions /\ obj[o].run  BY <2>1, <3>1
    <3>3. \A p \in sessions : p # o => Whose(p) # g  BY <1>1, <3>2, Zenon DEF Map
    <3>4. \A p \in sessions : p # o => p \in sessions'
      <4>1. g \in Known => TheObject(g) = o
        BY <1>1, <3>2, TheObjectIs, Zenon DEF Map
      <4> QED  BY <1>4, <4>1, Zenon
    <3>5. \A p \in Object : obj'[p].run => p # o /\ p \in sessions /\ Whose(p) # g
      BY <1>4, <2>1, <3>1, <3>3, Zenon
    <3>6. \A p \in Object : obj'[p].instances > 0 => p # o /\ p \in sessions /\ Whose(p) # g
      BY <1>4, <2>1, <3>1, <3>3, Zenon
    <3>7. \A p \in Object : obj'[p].run \/ obj'[p].instances > 0 => obj'[p] = obj[p]
      BY <3>1, <3>5, <3>6, NoObjectIs, Zenon
    <3>8. ASSUME NEW p \in Object, obj'[p].run
          PROVE  InList(openSessions', p) /\ p \in sessions' /\ obj'[p].instances > 0
      BY <1>4, <2>1, <3>4, <3>5, <3>7, <3>8, Zenon
    <3>9. ASSUME NEW p \in Object, obj'[p].instances > 0 PROVE obj'[p].run
      BY <2>1, <3>7, <3>9, Zenon
    <3> QED  BY <1>2, <1>3, <3>8, <3>9, Zenon DEF Opened
  <2> QED  BY <1>3, <2>2, <2>3
<1>8. \A h \in Guid : /\ Complete(files'[h]) => Complete(files[h]) /\ files'[h] = files[h]
                      /\ h \in Known /\ Complete(files'[h]) => h \in Known'
                      /\ h # g => files'[h] = files[h]
  <2>1. CASE files' = files /\ sessions' = sessions  BY <2>1 DEF Known
  <2>2. CASE /\ g \in Known /\ sessions' = sessions \ {TheObject(g)}
             /\ files' = [files EXCEPT ![g] = NoFile]
    <3>1. Whose(TheObject(g)) = g /\ DOMAIN files = Guid /\ g \in Guid
      BY <1>1, <2>2, TheObjectIs, ObjectIs, Zenon DEF Map
    <3>2. files'[g] = NoFile /\ \A h \in Guid : h # g => files'[h] = files[h]
      BY <2>2, <3>1, Zenon
    <3>3. \A h \in Known : h # g => h \in Known'
      BY <2>2, <3>1, Zenon DEF Known
    <3> QED  BY <3>2, <3>3, FileIs, Zenon
  <2> QED  BY <1>4, <2>1, <2>2
<1>9. Named'
  <2> SUFFICES ASSUME ~early' PROVE Named'  BY DEF Named
  <2>1. /\ Distinct
        /\ Loaded => \A h \in Guid : Complete(files[h]) => h \in Known
        /\ ~Loaded => sessions = {}
        /\ \A p \in sessions : Complete(files[Whose(p)]) /\ files[Whose(p)].name = obj[p].name
    BY <1>1, <1>2, <1>3, Zenon DEF Named
  <2>2. Distinct'  BY <1>8, <2>1, Zenon DEF Distinct
  <2>3. Loaded' = Loaded /\ sessions' \subseteq sessions
    BY <1>3, <1>4, Zenon DEF Loaded, Lessens
  <2>4. ASSUME NEW p \in sessions'
        PROVE  Complete(files'[Whose(p)]) /\ files'[Whose(p)].name = obj'[p].name
    <3>1. p \in Object /\ p \in sessions /\ Whose(p) \in Guid
      BY <1>1, <2>3, ObjectIs, Zenon DEF Map
    <3>2. obj'[p].name = obj[p].name
      BY <1>4, <2>4, <3>1, Zenon DEF Lessens, Less
    <3>3. files'[Whose(p)] = files[Whose(p)]
      <4>1. CASE files' = files  BY <4>1
      <4>2. CASE g \in Known /\ sessions' = sessions \ {TheObject(g)}
        <5>1. Whose(p) # g
          BY <1>1, <2>4, <3>1, <4>2, TheObjectIs, Zenon DEF Map
        <5> QED  BY <1>8, <3>1, <5>1
      <4> QED  BY <1>4, <4>1, <4>2
    <3> QED  BY <2>1, <3>1, <3>2, <3>3
  <2> QED  BY <1>2, <1>3, <1>8, <2>1, <2>2, <2>3, <2>4, Zenon DEF Named
<1>10. Lasting'
  <2>1. \A h \in steady' : h \in Guid /\ Complete(files'[h]) /\ h \in Known'
    BY <1>1, <1>2, <1>3, <1>8, Zenon DEF Lasting
  <2> QED  BY <1>2, <1>3, <2>1, Zenon DEF Lasting
<1> QED  BY <1>5, <1>6, <1>7, <1>9, <1>10 DEF RegistryInv, Shape

(***************************************************************************)
(* The application opens a session: of the map, or a new one.              *)
(***************************************************************************)
LEMMA OpensKeep ==
    ASSUME RegistryInv, NEW o \in sessions, NEW r, Full(r), Opens(o, r),
           load.at = "no", ~shut, opening' = Nothing,
           opening = Nothing \/ o = <<opening[1], 0>>,
           ~early => \A g \in Guid : g # Whose(o) /\ Complete(files[g]) => files[g].name # r.name,
           UNCHANGED <<sessions, shut, guids, steady, early>>, NotLoading
    PROVE  RegistryInv'
<1> DEFINE g == Whose(o)
           q == [r EXCEPT !.instances = @ + 1, !.run = TRUE, !.aborting = FALSE]
           f == [Stored(o) EXCEPT !.name = q.name]
<1>1. /\ Map /\ Objects /\ Calling /\ Opened /\ Named /\ Lasting
  BY DEF RegistryInv, Shape
<1>2. /\ obj' = [obj EXCEPT ![o] = q] /\ files' = [files EXCEPT ![g] = f]
      /\ openSessions' = Append(openSessions, o)
  BY Zenon DEF Opens
<1>3. Full(q) /\ q.run = TRUE /\ q.instances > 0 /\ q.name = r.name
  BY OpenedIs, Zenon
<1> HIDE DEF q
<1>4. Complete(f) /\ f.name = q.name  BY FileIs, Zenon
<1> HIDE DEF f
<1>5. o \in Object /\ g \in Guid /\ g \in guids
  BY <1>1, ObjectIs, Zenon DEF Map
<1>6. /\ DOMAIN obj' = Object /\ obj'[o] = q /\ \A p \in Object : p # o => obj'[p] = obj[p]
      /\ DOMAIN files' = Guid /\ files'[g] = f /\ \A h \in Guid : h # g => files'[h] = files[h]
  BY <1>1, <1>2, <1>5, Zenon DEF Map, Objects
<1>7. /\ openSessions' \in Seq(Object) /\ InList(openSessions', o)
      /\ \A p : InList(openSessions, p) => InList(openSessions', p)
      /\ \A p : InList(openSessions', p) => InList(openSessions, p) \/ p = o
  BY <1>1, <1>2, <1>5, AppendIs DEF Objects
<1>8. /\ sessions' = sessions /\ shut' = shut /\ guids' = guids /\ steady' = steady
      /\ early' = early /\ load' = load /\ sessionLoaded' = sessionLoaded /\ loads' = loads
  BY Zenon DEF NotLoading
<1>9. \A p \in sessions : p # o => Whose(p) # g /\ Whose(p) \in Guid /\ p \in Object
  BY <1>1, <1>5, ObjectIs, Zenon DEF Map
<1>10. Map'
  BY <1>1, <1>5, <1>6, <1>8, Zenon DEF Map
<1>11. Objects'
  BY <1>1, <1>3, <1>5, <1>6, <1>7, <1>8, Zenon DEF Objects
<1>12. Calling'
  BY <1>1, <1>8, Zenon DEF Calling
<1>13. Opened'
  <2> SUFFICES ASSUME ~early' PROVE Opened'  BY DEF Opened
  <2>0. ~early /\ ~shut /\ ~shut'  BY <1>8
  <2>1. /\ \A p \in Object : obj[p].run => /\ InList(openSessions, p) /\ p \in sessions
                                           /\ obj[p].instances > 0
        /\ \A p \in Object : obj[p].instances > 0 => obj[p].run
    BY <1>1, <2>0, Zenon DEF Opened
  <2>2. ASSUME NEW p \in Object, obj'[p].run
        PROVE  InList(openSessions', p) /\ p \in sessions' /\ obj'[p].instances > 0 /\ ~shut'
    BY <1>3, <1>6, <1>7, <1>8, <2>1, <2>2, <2>0, Zenon
  <2>3. ASSUME NEW p \in Object, obj'[p].instances > 0 PROVE obj'[p].run
    BY <1>3, <1>6, <2>1, <2>3, Zenon
  <2>4. load'.at = "no"  BY <1>8
  <2> QED  BY <2>2, <2>3, <2>4, Zenon DEF Opened
<1>14. Named'
  <2> SUFFICES ASSUME ~early' PROVE Named'  BY DEF Named
  <2>0. ~early /\ ~shut /\ ~shut'  BY <1>8
  <2>1. /\ Distinct
        /\ Loaded => \A h \in Guid : Complete(files[h]) => h \in Known
        /\ ~Loaded => sessions = {}
        /\ \A p \in sessions : \/ Complete(files[Whose(p)]) /\ files[Whose(p)].name = obj[p].name
                               \/ opening # Nothing /\ p = <<opening[1], 0>>
    BY <1>1, <2>0, Zenon DEF Named
  <2>2. /\ Loaded
        /\ \A p \in sessions : p # o => Complete(files[Whose(p)]) /\ files[Whose(p)].name = obj[p].name
        /\ \A h \in Guid : h # g /\ Complete(files[h]) => files[h].name # r.name
    BY <2>1, <2>0, Zenon
  <2>3. Distinct'
    <3> SUFFICES ASSUME NEW h \in Guid, NEW k \in Guid, Complete(files'[h]), Complete(files'[k]),
                        files'[h].name = files'[k].name, h # k
                 PROVE  FALSE
      BY Zenon DEF Distinct
    <3>1. CASE h = g   BY <1>3, <1>4, <1>6, <2>2, <3>1, Zenon
    <3>2. CASE k = g   BY <1>3, <1>4, <1>6, <2>2, <3>2, Zenon
    <3>3. CASE h # g /\ k # g  BY <1>6, <2>1, <3>3, Zenon DEF Distinct
    <3> QED  BY <3>1, <3>2, <3>3
  <2>4. Loaded' /\ Known' = Known  BY <1>8, <2>2, Zenon DEF Loaded, Known
  <2>5. g \in Known  BY DEF Known
  <2>6. \A h \in Guid : Complete(files'[h]) => h \in Known'
    BY <1>6, <2>2, <2>1, <2>4, <2>5, Zenon
  <2>7. \A p \in sessions' : Complete(files'[Whose(p)]) /\ files'[Whose(p)].name = obj'[p].name
    BY <1>4, <1>6, <1>8, <1>9, <2>2, Zenon
  <2> QED  BY <1>8, <2>3, <2>4, <2>6, <2>7, Zenon DEF Named
<1>15. Lasting'
  <2>1. \A h \in steady' : h \in Guid /\ Complete(files'[h]) /\ h \in Known'
    BY <1>1, <1>4, <1>6, <1>8, Zenon DEF Lasting, Known
  <2>2. load'.at \notin {"list", "prune"} /\ load'.at # "prune"  BY <1>8
  <2> QED  BY <2>1, <2>2, Zenon DEF Lasting
<1> QED  BY <1>10, <1>11, <1>12, <1>13, <1>14, <1>15 DEF RegistryInv, Shape

LEMMA OpenFoundKeeps ==
    ASSUME RegistryInv, NEW n, OpenFound(n)
    PROVE  RegistryInv'
<1> DEFINE o == TheObject(First(ByName(n)))
<1>1. /\ Map /\ Objects /\ Calling /\ Named
  BY DEF RegistryInv, Shape
<1>2. /\ load.at = "no" /\ opening = Nothing /\ ~shut
  BY <1>1, FreeIs DEF OpenFound
<1>3. ByName(n) # {} /\ Opens(o, obj[o]) /\ opening' = Nothing
      /\ UNCHANGED <<sessions, shut, guids, steady, early>> /\ NotLoading
  BY <1>2, Zenon DEF OpenFound
<1>4. \A g \in ByName(n) : g \in Guid /\ \E p \in sessions : Whose(p) = g /\ obj[p].name = n
  BY <1>1, ObjectIs, Zenon DEF ByName, Map
<1>5. First(ByName(n)) \in ByName(n)
  BY <1>3, <1>4, FirstIs, Zenon
<1>6. PICK p \in sessions : Whose(p) = First(ByName(n)) /\ obj[p].name = n
  BY <1>4, <1>5, Zenon
<1>7. o = p
  <2>1. First(ByName(n)) \in Known  BY <1>6, Zenon DEF Known
  <2> QED  BY <1>1, <1>6, <2>1, TheObjectIs, Zenon DEF Map
<1> HIDE DEF o
<1>8. o \in sessions /\ Full(obj[o])  BY <1>1, <1>6, <1>7, Zenon DEF Map, Objects
<1>9. ASSUME ~early, NEW g \in Guid, g # Whose(o), Complete(files[g])
      PROVE  files[g].name # obj[o].name
  <2>1. Complete(files[Whose(o)]) /\ files[Whose(o)].name = obj[o].name
    BY <1>2, <1>8, <1>9, <1>1, Zenon DEF Named
  <2>2. Whose(o) \in Guid  BY <1>1, <1>8, ObjectIs, Zenon DEF Map
  <2>3. Distinct  BY <1>1, <1>9, Zenon DEF Named
  <2> QED  BY <1>9, <2>1, <2>2, <2>3, Zenon DEF Distinct
<1> QED  BY <1>2, <1>3, <1>8, <1>9, OpensKeep

LEMMA OpenAllocatedKeeps ==
    ASSUME RegistryInv, OpenAllocated
    PROVE  RegistryInv'
<1> DEFINE o == <<opening[1], 0>>
           r == [obj[o] EXCEPT !.name = opening[2]]
<1>1. /\ Map /\ Objects /\ Calling /\ Named
  BY DEF RegistryInv, Shape
<1>2. opening # Nothing /\ Opens(o, r) /\ opening' = Nothing
      /\ UNCHANGED <<sessions, shut, guids, steady, early>> /\ NotLoading
  BY Zenon DEF OpenAllocated
<1>3. o \in sessions /\ ~shut /\ load.at = "no"
  BY <1>1, <1>2, Zenon DEF Calling
<1>4. Full(obj[o])  BY <1>1, <1>3, Zenon DEF Map, Objects
<1>5. Full(r) /\ r.name = opening[2]  BY <1>4, NamedIs, Zenon
<1> HIDE DEF r
<1>6. ASSUME ~early, NEW g \in Guid, Complete(files[g]) PROVE files[g].name # r.name
  BY <1>1, <1>2, <1>3, <1>5, <1>6, Zenon DEF Named
<1> QED  BY <1>2, <1>3, <1>5, <1>6, OpensKeep

\* The new session has an object that is not open, and a file with nothing in it.
LEMMA AllocateKeeps ==
    ASSUME RegistryInv, NEW n, Allocate(n)
    PROVE  RegistryInv'
<1> DEFINE m == Made([name |-> "", vm |-> 0, state |-> "missing"])
<1>1. /\ Map /\ Objects /\ Calling /\ Opened /\ Named /\ Lasting
  BY DEF RegistryInv, Shape
<1>2. /\ load.at = "no" /\ opening = Nothing /\ ~shut
  BY <1>1, FreeIs DEF Allocate
<1>3. PICK g \in Guid \ guids :
        /\ guids' = guids \cup {g}
        /\ files' = [files EXCEPT ![g] = UuidOnly]
        /\ sessions' = sessions \cup {<<g, 0>>}
        /\ obj' = [obj EXCEPT ![<<g, 0>>] = m]
        /\ opening' = <<g, n>>
  BY Zenon DEF Allocate
<1> DEFINE o == <<g, 0>>
<1>4. /\ ByName(n) = {} /\ early' = (early \/ ~sessionLoaded)
      /\ openSessions' = openSessions /\ shut' = shut /\ steady' = steady
      /\ load' = load /\ sessionLoaded' = sessionLoaded /\ loads' = loads
  BY Zenon DEF Allocate, NotLoading
<1>5. Full(m) /\ m.run = FALSE /\ ~(m.instances > 0)  BY MadeIs, Zenon
<1> HIDE DEF m
<1>6. o \in Object /\ Whose(o) = g /\ g \in Guid /\ g \notin guids
  <2>1. 0 \in 0 .. MaxLoads  BY BoundsAssumption, SMT
  <2> QED  BY <1>3, <2>1, SMT DEF Object, Whose
<1>7. opening' # Nothing /\ opening'[1] = g /\ opening'[2] = n
  BY <1>3, SMT DEF Nothing
<1> HIDE DEF o
<1>8. /\ guids' = guids \cup {g} /\ sessions' = sessions \cup {o}
      /\ DOMAIN obj' = Object /\ obj'[o] = m /\ \A p \in Object : p # o => obj'[p] = obj[p]
      /\ DOMAIN files' = Guid /\ files'[g] = UuidOnly
      /\ \A h \in Guid : h # g => files'[h] = files[h]
      /\ o = <<opening'[1], 0>>
  BY <1>1, <1>3, <1>6, <1>7, Zenon DEF Map, Objects, o
<1>9. \A p \in sessions : p \in Object /\ Whose(p) \in guids /\ Whose(p) # g /\ p # o /\ Whose(p) \in Guid
  BY <1>1, <1>6, ObjectIs, Zenon DEF Map
<1>10. \A h \in Guid : Complete(files'[h]) => h # g /\ files'[h] = files[h] /\ Complete(files[h])
  BY <1>8, FileIs, Zenon
<1>11. Map'
  BY <1>1, <1>6, <1>8, <1>9, <1>10, Zenon DEF Map
<1>12. Objects'
  BY <1>1, <1>4, <1>5, <1>6, <1>8, Zenon DEF Objects
<1>13. early' \in BOOLEAN /\ ~obj'[o].run /\ ~shut'
  <2>1. early \in BOOLEAN /\ sessionLoaded \in BOOLEAN  BY <1>1, Zenon DEF Calling
  <2>2. ~obj'[o].run  BY <1>5, <1>8
  <2>3. ~shut'  BY <1>2, <1>4
  <2> QED  BY <1>4, <2>1, <2>2, <2>3, Zenon
<1>14. Calling'
  <2>1. ~(load'.at # "no")  BY <1>2, <1>4
  <2>2. o \in sessions'  BY <1>8
  <2> QED  BY <1>1, <1>4, <1>8, <1>13, <2>1, <2>2, Zenon DEF Calling
<1>15. ~early' => ~early /\ sessionLoaded
  <2>1. early \in BOOLEAN /\ sessionLoaded \in BOOLEAN  BY <1>1, Zenon DEF Calling
  <2> QED  BY <1>4, <2>1, Zenon
<1>16. Opened'
  <2> SUFFICES ASSUME ~early' PROVE Opened'  BY DEF Opened
  <2>1. /\ \A p \in Object : obj[p].run => /\ InList(openSessions, p) /\ p \in sessions
                                           /\ obj[p].instances > 0
        /\ \A p \in Object : obj[p].instances > 0 => obj[p].run
    BY <1>1, <1>2, <1>15, Zenon DEF Opened
  <2>2. \A p \in Object : obj'[p].run \/ obj'[p].instances > 0 => p # o /\ obj'[p] = obj[p]
    BY <1>5, <1>8, Zenon
  <2>3. load'.at = "no"  BY <1>2, <1>4
  <2>4. ASSUME NEW p \in Object, obj'[p].run
        PROVE  InList(openSessions', p) /\ p \in sessions' /\ obj'[p].instances > 0
    BY <1>4, <1>8, <2>1, <2>2, <2>4, Zenon
  <2>5. ASSUME NEW p \in Object, obj'[p].instances > 0 PROVE obj'[p].run
    BY <2>1, <2>2, <2>5, Zenon
  <2> QED  BY <1>13, <2>3, <2>4, <2>5, Zenon DEF Opened
<1>17. Named'
  <2> SUFFICES ASSUME ~early' PROVE Named'  BY DEF Named
  <2>1. ~early /\ sessionLoaded /\ Loaded /\ Loaded'  BY <1>4, <1>15 DEF Loaded
  <2>2. /\ Distinct
        /\ \A h \in Guid : Complete(files[h]) => h \in Known
        /\ \A p \in sessions : Complete(files[Whose(p)]) /\ files[Whose(p)].name = obj[p].name
    BY <1>1, <1>2, <2>1, Zenon DEF Named
  <2>3. Distinct'  BY <1>10, <2>2, Zenon DEF Distinct
  <2>4. \A h \in Guid : Complete(files'[h]) => h \in Known'
    BY <1>8, <1>10, <2>2, Zenon DEF Known
  <2>5. ASSUME NEW p \in sessions', p # o
        PROVE  Complete(files'[Whose(p)]) /\ files'[Whose(p)].name = obj'[p].name
    BY <1>8, <1>9, <2>2, <2>5, Zenon
  <2>6. ASSUME NEW h \in Guid, Complete(files'[h]) PROVE files'[h].name # n
    <3>1. PICK p \in sessions : Whose(p) = h
      BY <1>10, <2>2, <2>6, Zenon DEF Known
    <3>2. obj[p].name # n  BY <1>4, Zenon DEF ByName
    <3> QED  BY <1>10, <2>2, <2>6, <3>1, <3>2
  <2> QED  BY <1>7, <1>8, <2>1, <2>3, <2>4, <2>5, <2>6, Zenon DEF Named
<1>18. Lasting'
  <2>1. \A h \in steady' : h \in Guid /\ Complete(files'[h]) /\ h \in Known'
    <3> SUFFICES ASSUME NEW h \in steady' PROVE h \in Guid /\ Complete(files'[h]) /\ h \in Known'
      OBVIOUS
    <3>1. h \in Guid /\ Complete(files[h]) /\ h \in Known
      BY <1>1, <1>2, <1>4, Zenon DEF Lasting
    <3>2. h # g  BY <1>1, <1>6, <3>1, Zenon DEF Map
    <3> QED  BY <1>8, <3>1, <3>2, Zenon DEF Known
  <2>2. load'.at \notin {"list", "prune"} /\ load'.at # "prune"  BY <1>2, <1>4
  <2> QED  BY <2>1, <2>2, Zenon DEF Lasting
<1> QED  BY <1>11, <1>12, <1>14, <1>16, <1>17, <1>18 DEF RegistryInv, Shape

(***************************************************************************)
(* Sessions are loaded.                                                    *)
(***************************************************************************)
LEMMA LoadFilesKeeps ==
    ASSUME RegistryInv, LoadFiles
    PROVE  RegistryInv'
<1> DEFINE new == {<<g, loads + 1>> : g \in {h \in Guid : Complete(files[h])}}
           objs == [o \in Object |-> IF o \in new THEN Made(files[Whose(o)]) ELSE obj[o]]
<1>1. /\ Map /\ Objects /\ Calling /\ Opened /\ Named /\ Lasting
  BY DEF RegistryInv, Shape
<1>2. /\ load.at = "no" /\ opening = Nothing /\ ~shut
  BY <1>1, FreeIs DEF LoadFiles
<1>3. /\ loads < MaxLoads /\ sessions' = new /\ obj' = Kept(new, openSessions, objs)
      /\ load' = [NoLoad EXCEPT !.at = "list"] /\ early' = (early \/ openSessions # <<>>)
      /\ steady' = {g \in Guid : Complete(files[g]) /\ files[g].vm \in ListedVMs}
      /\ files' = files /\ openSessions' = openSessions /\ sessionLoaded' = sessionLoaded
      /\ opening' = opening /\ shut' = shut /\ guids' = guids /\ loads' = loads
      /\ vms' = vms /\ hidden' = hidden
  BY Zenon DEF LoadFiles, NoMachine
<1>4. DOMAIN load' = {"at", "it", "listed"} /\ load'.at = "list" /\ load'.it = 0
  BY <1>3, SMT DEF NoLoad
<1>5. ASSUME NEW o \in new
      PROVE  o \in Object /\ Whose(o) \in Guid /\ Complete(files[Whose(o)]) /\ o = <<Whose(o), loads + 1>>
  <2>1. PICK g \in Guid : Complete(files[g]) /\ o = <<g, loads + 1>>  BY <1>5
  <2>2. loads + 1 \in 0 .. MaxLoads
    <3>1. loads \in Nat  BY <1>1 DEF Calling
    <3> QED  BY <1>3, <3>1, BoundsAssumption, SMT
  <2>3. Whose(o) = g /\ o \in Object  BY <2>1, <2>2, SMT DEF Object, Whose
  <2> QED  BY <2>1, <2>3
<1>6. \A g \in Guid : Complete(files[g]) => <<g, loads + 1>> \in new /\ Whose(<<g, loads + 1>>) = g
  BY SMT DEF Whose
<1>7. /\ DOMAIN obj' = Object
      /\ \A p \in Object : obj'[p] = objs[p] \/ obj'[p] = NoObject
      /\ \A p \in Object : p \in new \/ InList(openSessions, p) => obj'[p] = objs[p]
  <2> HIDE DEF objs, new
  <2> QED  BY <1>3, KeptIs
<1> HIDE DEF new
<1>8. \A p \in new : obj'[p] = Made(files[Whose(p)])
  BY <1>5, <1>7, Zenon
<1>9. \A p \in Object : p \notin new => objs[p] = obj[p]  BY Zenon
<1> HIDE DEF objs
<1>10. \A p \in Object : p \notin new => obj'[p] = obj[p] \/ obj'[p] = NoObject
  BY <1>7, <1>9, Zenon
<1>11. \A p \in new : /\ Full(obj'[p]) /\ obj'[p].run = FALSE /\ ~(obj'[p].instances > 0)
                      /\ obj'[p].name = files[Whose(p)].name /\ obj'[p].vm = files[Whose(p)].vm
  BY <1>8, MadeIs, Zenon
<1>12. Map'
  <2>1. \A o, p \in new : Whose(o) = Whose(p) => o = p  BY <1>5, Zenon
  <2> QED  BY <1>1, <1>3, <1>5, <2>1, Zenon DEF Map
<1>13. Objects'
  <2>1. ASSUME NEW p \in Object PROVE obj'[p] = NoObject \/ (Full(obj'[p]) /\ Whose(p) \in guids')
    <3>1. CASE p \in new     BY <1>1, <1>3, <1>5, <1>11, <3>1, Zenon DEF Map
    <3>2. CASE p \notin new  BY <1>1, <1>3, <1>10, <3>2, Zenon DEF Objects
    <3> QED  BY <3>1, <3>2
  <2>2. ASSUME NEW p \in Object, p \in sessions' \/ InList(openSessions', p) PROVE Full(obj'[p])
    <3>1. CASE p \in new     BY <1>11, <3>1
    <3>2. CASE p \notin new
      <4>1. InList(openSessions, p) /\ obj'[p] = obj[p]  BY <1>3, <1>7, <1>9, <2>2, <3>2, Zenon
      <4> QED  BY <1>1, <4>1, Zenon DEF Objects
    <3> QED  BY <3>1, <3>2
  <2> QED  BY <1>1, <1>3, <1>7, <2>1, <2>2, Zenon DEF Objects
<1>14. early' \in BOOLEAN /\ (~early' => ~early /\ openSessions = <<>>)
  <2>1. early \in BOOLEAN  BY <1>1 DEF Calling
  <2> QED  BY <1>3, <2>1, Zenon
<1>15. load'.at # "release" /\ load'.at # "prune" /\ load'.at \in {"no", "list", "prune", "release"} /\ load'.it \in Nat
  BY <1>4
<1>16. Calling'
  BY <1>1, <1>2, <1>3, <1>4, <1>14, <1>15, Zenon DEF Calling
<1>17. Opened'
  <2> SUFFICES ASSUME ~early' PROVE Opened'  BY DEF Opened
  <2>1. \A p \in Object : ~obj[p].run /\ ~(obj[p].instances > 0)
    BY <1>1, <1>2, <1>14, EmptyList, Zenon DEF Opened
  <2>2. \A p \in Object : ~obj'[p].run /\ ~(obj'[p].instances > 0)
    BY <1>10, <1>11, <2>1, NoObjectIs, Zenon
  <2> QED  BY <1>3, <1>14, <2>2, Zenon DEF Opened
<1>18. \A g \in Guid : Complete(files[g]) => g \in Known'
  BY <1>3, <1>6, Zenon DEF Known
<1>19. Named'
  <2> SUFFICES ASSUME ~early' PROVE Named'  BY DEF Named
  <2>1. Distinct'  BY <1>1, <1>3, <1>14, Zenon DEF Named, Distinct
  <2>2. Loaded'  BY <1>4 DEF Loaded
  <2>3. \A p \in sessions' : Complete(files'[Whose(p)]) /\ files'[Whose(p)].name = obj'[p].name
    BY <1>3, <1>5, <1>11, Zenon
  <2> QED  BY <1>2, <1>3, <1>18, <2>1, <2>2, <2>3, Zenon DEF Named
<1>20. Lasting'
  <2>1. \A g \in steady' : g \in Guid /\ Complete(files'[g]) /\ g \in Known'
    BY <1>3, <1>18, Zenon
  <2>2. \A p \in sessions' : ~obj'[p].run /\ (Whose(p) \in steady' => obj'[p].vm \in ListedVMs')
    <3>1. ListedVMs' = ListedVMs  BY <1>3, Zenon DEF ListedVMs
    <3> QED  BY <1>3, <1>11, <3>1, Zenon
  <2> QED  BY <1>15, <2>1, <2>2, Zenon DEF Lasting
<1> QED  BY <1>12, <1>13, <1>16, <1>17, <1>19, <1>20 DEF RegistryInv, Shape

\* Steps that only move on in the load.
LEMMA MovesKeep ==
    ASSUME RegistryInv, load.at # "no",
           UNCHANGED <<files, sessions, openSessions, obj>>, LoadOnly,
           DOMAIN load' = {"at", "it", "listed"}, load'.it \in Nat,
           load'.at \in {"no", "prune", "release"}, load'.at = "release" => load'.it > 0,
           load'.at = "prune" => \/ load.at = "list" /\ load'.listed = ListedVMs
                                 \/ load.at = "prune" /\ load'.listed = load.listed,
           sessionLoaded' \in BOOLEAN, loads' \in Nat, load'.at = "no" => sessionLoaded'
    PROVE  RegistryInv'
<1>1. /\ Map /\ Objects /\ Calling /\ Opened /\ Named /\ Lasting
  BY DEF RegistryInv, Shape
<1>2. /\ files' = files /\ sessions' = sessions /\ openSessions' = openSessions /\ obj' = obj
      /\ opening' = opening /\ shut' = shut /\ guids' = guids /\ steady' = steady /\ early' = early
      /\ vms' = vms /\ hidden' = hidden
  BY Zenon DEF LoadOnly, NoMachine
<1>3. opening = Nothing /\ ~shut  BY <1>1, Zenon DEF Calling
<1>4. Map' /\ Objects'  BY <1>1, <1>2, Zenon DEF Map, Objects
<1>5. load'.at \in {"no", "list", "prune", "release"} /\ load'.at # "list"  OBVIOUS
<1>6. Calling'  BY <1>1, <1>2, <1>3, <1>5, Zenon DEF Calling
<1>7. Opened'  BY <1>1, <1>2, Zenon DEF Opened
<1>8. Loaded /\ Loaded' /\ Known' = Known /\ ListedVMs' = ListedVMs
  BY <1>2, Zenon DEF Loaded, Known, ListedVMs
<1>9. Named'
  <2> SUFFICES ASSUME ~early' PROVE Named'  BY DEF Named
  <2>1. /\ Distinct
        /\ \A h \in Guid : Complete(files[h]) => h \in Known
        /\ \A p \in sessions : Complete(files[Whose(p)]) /\ files[Whose(p)].name = obj[p].name
    BY <1>1, <1>2, <1>3, <1>8, Zenon DEF Named
  <2> QED  BY <1>2, <1>3, <1>8, <2>1, Zenon DEF Named, Distinct
<1>10. Lasting'
  <2>1. \A h \in steady' : h \in Guid /\ Complete(files'[h]) /\ h \in Known'
    BY <1>1, <1>2, <1>3, <1>8, Zenon DEF Lasting
  <2>2. ASSUME load'.at = "prune", NEW p \in sessions'
        PROVE  /\ ~obj'[p].run
               /\ Whose(p) \in steady' => obj'[p].vm \in ListedVMs' /\ obj'[p].vm \in load'.listed
    <3>1. load.at \in {"list", "prune"}  BY <2>2
    <3>2. ~obj[p].run /\ (Whose(p) \in steady => obj[p].vm \in ListedVMs)
      BY <1>1, <1>2, <2>2, <3>1, Zenon DEF Lasting
    <3>3. load.at = "prune" /\ Whose(p) \in steady => obj[p].vm \in load.listed
      BY <1>1, <1>2, <2>2, Zenon DEF Lasting
    <3> QED  BY <1>2, <1>8, <2>2, <3>2, <3>3
  <2>3. load'.at \in {"list", "prune"} => load'.at = "prune"  BY <1>5
  <2> QED  BY <2>1, <2>2, <2>3, Zenon DEF Lasting
<1> QED  BY <1>4, <1>6, <1>7, <1>9, <1>10 DEF RegistryInv, Shape

LEMMA EndsIs ==
    ASSUME LoadEnds, loads \in Nat
    PROVE  /\ DOMAIN load' = {"at", "it", "listed"} /\ load'.at = "no" /\ load'.it = 0
           /\ sessionLoaded' = TRUE /\ loads' \in Nat
<1>1. load' = NoLoad /\ sessionLoaded' = TRUE /\ loads' = loads + 1  BY DEF LoadEnds
<1>2. DOMAIN load' = {"at", "it", "listed"} /\ load'.at = "no" /\ load'.it = 0
  BY <1>1, SMT DEF NoLoad
<1>3. loads' \in Nat  BY <1>1, SMT
<1> QED  BY <1>1, <1>2, <1>3

LEMMA GoesIs ==
    ASSUME Calling, NEW at, NEW it, LoadGoes(at, it)
    PROVE  /\ DOMAIN load' = {"at", "it", "listed"} /\ load'.at = at /\ load'.it = it
           /\ load'.listed = load.listed /\ sessionLoaded' = sessionLoaded /\ loads' = loads
<1>1. load' = [load EXCEPT !.at = at, !.it = it] /\ DOMAIN load = {"at", "it", "listed"}
  BY DEF LoadGoes, Calling
<1>2. /\ DOMAIN load' = {"at", "it", "listed"} /\ load'.at = at /\ load'.it = it
      /\ load'.listed = load.listed
  BY <1>1, SMT
<1> QED  BY <1>2 DEF LoadGoes

LEMMA KnownIs ==
    ASSUME Map
    PROVE  Known \in SUBSET Guid
BY ObjectIs, Zenon DEF Map, Known

LEMMA ListVMsKeeps ==
    ASSUME RegistryInv, ListVMs \/ ListFails
    PROVE  RegistryInv'
<1>1. Map /\ Calling  BY DEF RegistryInv, Shape
<1>2. load.at = "list" /\ loads \in Nat /\ sessionLoaded \in BOOLEAN
  BY <1>1, Zenon DEF ListVMs, ListFails, Calling
<1>3. CASE ListVMs
  <2>1. /\ load' = [at |-> "prune", it |-> After(Known, 0), listed |-> ListedVMs]
        /\ UNCHANGED <<files, sessions, openSessions, obj>> /\ LoadOnly
        /\ sessionLoaded' = sessionLoaded /\ loads' = loads
    BY <1>3, Zenon DEF ListVMs
  <2>2. /\ DOMAIN load' = {"at", "it", "listed"} /\ load'.at = "prune" /\ load'.it = After(Known, 0)
        /\ load'.listed = ListedVMs
    BY <2>1, SMT
  <2>3. load'.it \in Nat  BY <1>1, <2>2, KnownIs, AfterIs
  <2> QED  BY <1>2, <2>1, <2>2, <2>3, MovesKeep
<1>4. CASE ListFails
  <2>1. LoadEnds /\ UNCHANGED <<files, sessions, openSessions, obj>> /\ LoadOnly
    BY <1>4, Zenon DEF ListFails
  <2>2. /\ DOMAIN load' = {"at", "it", "listed"} /\ load'.at = "no" /\ load'.it \in Nat
        /\ sessionLoaded' = TRUE /\ loads' \in Nat
    BY <1>2, <2>1, EndsIs
  <2> QED  BY <1>2, <2>1, <2>2, MovesKeep
<1> QED  BY <1>3, <1>4

LEMMA PruneNextKeeps ==
    ASSUME RegistryInv, PruneNext
    PROVE  RegistryInv'
<1>1. Map /\ Calling  BY DEF RegistryInv, Shape
<1>2. /\ load.at = "prune" /\ UNCHANGED <<files, sessions, openSessions, obj>> /\ LoadOnly
      /\ LoadGoes("prune", After(Known, load.it)) \/ LoadGoes("release", 1)
  BY Zenon DEF PruneNext
<1>3. loads \in Nat /\ sessionLoaded \in BOOLEAN  BY <1>1 DEF Calling
<1>4. CASE LoadGoes("prune", After(Known, load.it))
  <2>1. /\ DOMAIN load' = {"at", "it", "listed"} /\ load'.at = "prune"
        /\ load'.it = After(Known, load.it)
        /\ load'.listed = load.listed /\ sessionLoaded' = sessionLoaded /\ loads' = loads
    BY <1>1, <1>4, GoesIs
  <2>2. load'.it \in Nat  BY <1>1, <2>1, KnownIs, AfterIs
  <2> QED  BY <1>2, <1>3, <2>1, <2>2, MovesKeep
<1>5. CASE LoadGoes("release", 1)
  <2>1. /\ DOMAIN load' = {"at", "it", "listed"} /\ load'.at = "release" /\ load'.it = 1
        /\ load'.listed = load.listed /\ sessionLoaded' = sessionLoaded /\ loads' = loads
    BY <1>1, <1>5, GoesIs
  <2>2. load'.it \in Nat /\ load'.it > 0  BY <2>1, SMT
  <2> QED  BY <1>2, <1>3, <2>1, <2>2, MovesKeep
<1> QED  BY <1>2, <1>4, <1>5

LEMMA ReleaseEndsKeeps ==
    ASSUME RegistryInv, ReleaseEnds
    PROVE  RegistryInv'
<1>1. loads \in Nat  BY DEF RegistryInv, Shape, Calling
<1>2. /\ load.at = "release" /\ LoadEnds
      /\ UNCHANGED <<files, sessions, openSessions, obj>> /\ LoadOnly
  BY Zenon DEF ReleaseEnds
<1>3. /\ DOMAIN load' = {"at", "it", "listed"} /\ load'.at = "no" /\ load'.it \in Nat
      /\ sessionLoaded' = TRUE /\ loads' \in Nat
  BY <1>1, <1>2, EndsIs
<1> QED  BY <1>2, <1>3, MovesKeep

LEMMA PruneKeeps ==
    ASSUME RegistryInv, Prune
    PROVE  RegistryInv'
<1> DEFINE g == load.it
           t == TheObject(g)
<1>1. /\ Map /\ Objects /\ Calling /\ Opened /\ Named /\ Lasting
  BY DEF RegistryInv, Shape
<1>2. /\ load.at = "prune" /\ g \in Known /\ Expired(g) /\ Deleting(g, openSessions, obj)
      /\ opening' = opening /\ shut' = shut /\ guids' = guids /\ steady' = steady /\ early' = early
      /\ vms' = vms /\ hidden' = hidden
  BY Zenon DEF Prune, LoadOnly, NoMachine
<1>3. opening = Nothing /\ ~shut  BY <1>1, <1>2, Zenon DEF Calling
<1>4. t \in sessions /\ Whose(t) = g /\ t \in Object /\ g \in Guid /\ Full(obj[t])
  BY <1>1, <1>2, TheObjectIs, ObjectIs, Zenon DEF Map, Objects
<1>5. \E at \in {"release", "prune"}, it \in Nat : LoadGoes(at, it) /\ (at = "release" => it > 0)
  <2> DEFINE left == Known \ {g}
  <2>1. IF left = {} THEN LoadGoes("release", 1) ELSE LoadGoes("prune", After(left, First(left)))
    BY Zenon DEF Prune
  <2>2. left \in SUBSET Guid  BY <1>1, KnownIs
  <2> HIDE DEF left
  <2>3. After(left, First(left)) \in Nat  BY <2>2, AfterIs
  <2>4. 1 \in Nat /\ 1 > 0 /\ "prune" # "release"  OBVIOUS
  <2> QED  BY <2>1, <2>3, <2>4, Zenon
<1>6. /\ DOMAIN load' = {"at", "it", "listed"} /\ load'.at \in {"release", "prune"}
      /\ load'.it \in Nat /\ (load'.at = "release" => load'.it > 0)
      /\ load'.listed = load.listed /\ sessionLoaded' = sessionLoaded /\ loads' = loads
  <2>1. PICK at \in {"release", "prune"}, it \in Nat : LoadGoes(at, it) /\ (at = "release" => it > 0)
    BY <1>5
  <2> QED  BY <1>1, <2>1, GoesIs
<1>7. /\ sessions' = sessions \ {t} /\ files' = [files EXCEPT ![g] = NoFile]
      /\ openSessions' \in Seq(Object) /\ \A p : InList(openSessions', p) => InList(openSessions, p)
      /\ DOMAIN obj' = Object
      /\ \A p \in Object :
           \/ obj'[p] = obj[p] \/ (p = t /\ Less(obj'[p], obj[p]))
           \/ obj'[p] = NoObject /\ p \notin sessions' /\ ~InList(openSessions', p)
  <2>1. DOMAIN obj = Object /\ openSessions \in Seq(Object)  BY <1>1 DEF Objects
  <2> QED  BY <1>1, <1>2, <1>4, <2>1, DeletingIs
<1> HIDE DEF t, g
<1>8. /\ DOMAIN files' = Guid /\ files'[g] = NoFile
      /\ \A h \in Guid : h # g => files'[h] = files[h]
      /\ \A h \in Guid : Complete(files'[h]) => h # g /\ files'[h] = files[h] /\ Complete(files[h])
  <2>1. /\ DOMAIN files' = Guid /\ files'[g] = NoFile
        /\ \A h \in Guid : h # g => files'[h] = files[h]
    BY <1>1, <1>4, <1>7, Zenon DEF Map
  <2> QED  BY <2>1, FileIs, Zenon
<1>9. Map' /\ Objects'
  <2>1. Lessens(g)  BY <1>2, <1>4, <1>7, <1>8, Zenon DEF Lessens
  <2> QED  BY <1>1, <2>1, LessensKeeps
<1>10. load'.at \in {"no", "list", "prune", "release"} /\ load'.at # "no" /\ load'.at # "list"
  BY <1>6
<1>11. Calling'
  BY <1>1, <1>2, <1>3, <1>6, <1>10, Zenon DEF Calling
<1>12. \A p \in sessions' : p \in sessions /\ Whose(p) # g /\ obj'[p] = obj[p] /\ p \in Object /\ Whose(p) \in Guid
  BY <1>1, <1>4, <1>7, ObjectIs, Zenon DEF Map
<1>13. Opened'
  <2> SUFFICES ASSUME ~early' PROVE Opened'  BY DEF Opened
  <2>1. ~early /\ load.at # "no"  BY <1>2
  <2>2. openSessions = <<>>  BY <1>1, <2>1, Zenon DEF Opened
  <2>3. \A p \in Object : ~obj[p].run /\ ~(obj[p].instances > 0)
    BY <1>1, <1>3, <2>1, <2>2, EmptyList, Zenon DEF Opened
  <2>4. \A p \in Object : ~obj'[p].run /\ ~(obj'[p].instances > 0)
    BY <1>7, <2>3, NoObjectIs, Zenon DEF Less
  <2>5. openSessions' = <<>>
    <3>1. \A p : ~InList(openSessions', p)  BY <1>7, <2>2, EmptyList
    <3>2. openSessions' = <<>> \/ \E i : i \in DOMAIN openSessions'
      <4>1. /\ Len(openSessions') \in Nat /\ DOMAIN openSessions' = 1 .. Len(openSessions')
            /\ openSessions' = <<>> <=> Len(openSessions') = 0
        BY <1>7, LenProperties, EmptySeq
      <4>2. Len(openSessions') # 0 => 1 \in DOMAIN openSessions'  BY <4>1, SMT
      <4> QED  BY <4>1, <4>2, Zenon
    <3> QED  BY <3>1, <3>2, Zenon DEF InList
  <2> QED  BY <2>4, <2>5, Zenon DEF Opened
<1>14. \A h \in Known : h # g => h \in Known'
  BY <1>4, <1>7, Zenon DEF Known
<1>15. Named'
  <2> SUFFICES ASSUME ~early' PROVE Named'  BY DEF Named
  <2>1. ~early /\ Loaded /\ Loaded'  BY <1>2, <1>10 DEF Loaded
  <2>2. /\ Distinct
        /\ \A h \in Guid : Complete(files[h]) => h \in Known
        /\ \A p \in sessions : Complete(files[Whose(p)]) /\ files[Whose(p)].name = obj[p].name
    BY <1>1, <1>3, <2>1, Zenon DEF Named
  <2>3. Distinct'  BY <1>8, <2>2, Zenon DEF Distinct
  <2>4. \A h \in Guid : Complete(files'[h]) => h \in Known'  BY <1>8, <1>14, <2>2
  <2>5. \A p \in sessions' : Complete(files'[Whose(p)]) /\ files'[Whose(p)].name = obj'[p].name
    BY <1>8, <1>12, <2>2, Zenon
  <2> QED  BY <1>2, <1>3, <2>1, <2>3, <2>4, <2>5, Zenon DEF Named
<1>16. g \notin steady
  BY <1>1, <1>2, <1>4, Zenon DEF Lasting, Expired, t, g
<1>17. Lasting'
  <2>1. \A h \in steady' : h \in Guid /\ Complete(files'[h]) /\ h \in Known'
    BY <1>1, <1>2, <1>3, <1>8, <1>14, <1>16, Zenon DEF Lasting
  <2>2. ASSUME NEW p \in sessions'
        PROVE  /\ ~obj'[p].run
               /\ Whose(p) \in steady' => obj'[p].vm \in ListedVMs' /\ obj'[p].vm \in load'.listed
    <3>1. ListedVMs' = ListedVMs  BY <1>2, Zenon DEF ListedVMs
    <3>2. load.at \in {"list", "prune"}  BY <1>2
    <3>3. /\ ~obj[p].run
          /\ Whose(p) \in steady => obj[p].vm \in ListedVMs /\ obj[p].vm \in load.listed
      BY <1>1, <1>2, <1>12, <3>2, Zenon DEF Lasting
    <3> QED  BY <1>2, <1>6, <1>12, <3>1, <3>3
  <2> QED  BY <2>1, <2>2, Zenon DEF Lasting
<1> QED  BY <1>9, <1>11, <1>13, <1>15, <1>17 DEF RegistryInv, Shape

\* Only sessions that were opened before sessions were loaded are released.
LEMMA ReleaseKeeps ==
    ASSUME RegistryInv, Release
    PROVE  RegistryInv'
<1> DEFINE o == openSessions[load.it]
           w == Without(openSessions, load.it)
           told == [obj EXCEPT ![o] = Notified(@)]
<1>1. /\ Map /\ Objects /\ Calling /\ Opened /\ Named /\ Lasting
  BY DEF RegistryInv, Shape
<1>2. /\ load.at = "release" /\ load.it <= Len(openSessions)
      /\ files' = files /\ sessions' = sessions
      /\ opening' = opening /\ shut' = shut /\ guids' = guids /\ steady' = steady /\ early' = early
      /\ \/ LoadGoes("release", load.it + 1) /\ openSessions' = openSessions /\ obj' = obj
         \/ /\ openSessions' = w /\ obj' = Kept(sessions, w, told)
            /\ LoadEnds \/ LoadGoes("release", 2)
  BY Zenon DEF Release, LoadOnly
<1>3. opening = Nothing /\ ~shut /\ load.it \in Nat /\ load.it > 0 /\ loads \in Nat /\ sessionLoaded \in BOOLEAN
  BY <1>1, <1>2, Zenon DEF Calling
<1>4. load.it \in 1 .. Len(openSessions) /\ o \in Object /\ InList(openSessions, o) /\ openSessions # <<>>
  <2>1. openSessions \in Seq(Object)  BY <1>1 DEF Objects
  <2>2. Len(openSessions) \in Nat /\ DOMAIN openSessions = 1 .. Len(openSessions)
        /\ \A i \in 1 .. Len(openSessions) : openSessions[i] \in Object
    BY <2>1, LenProperties, SMT
  <2>3. load.it \in 1 .. Len(openSessions)  BY <1>2, <1>3, <2>2, SMT
  <2>4. o \in Object /\ InList(openSessions, o)  BY <2>2, <2>3 DEF InList
  <2> QED  BY <2>3, <2>4, EmptyList
<1>5. early  BY <1>1, <1>2, <1>4, Zenon DEF Opened
<1>6. DOMAIN obj = Object /\ Full(obj[o]) /\ Whose(o) \in guids
  BY <1>1, <1>4, NoObjectIs, Zenon DEF Objects
<1>7. /\ w \in Seq(Object) /\ \A p : InList(w, p) => InList(openSessions, p)
  BY <1>1, <1>4, WithoutIs DEF Objects
<1>8. Less(Notified(obj[o]), obj[o])  BY <1>6, StoppedIs
<1>9. told[o] = Notified(obj[o]) /\ \A p \in Object : p # o => told[p] = obj[p]
  BY <1>4, <1>6, Zenon
<1> HIDE DEF o, told, w
<1>10. Lessens(Whose(o))
  <2>1. CASE openSessions' = openSessions /\ obj' = obj
    BY <1>1, <1>2, <2>1, Zenon DEF Lessens, Map, Objects
  <2>2. CASE openSessions' = w /\ obj' = Kept(sessions, w, told)
    <3>1. /\ DOMAIN obj' = Object
          /\ \A p \in Object : obj'[p] = told[p] \/ obj'[p] = NoObject
          /\ \A p \in Object : p \in sessions \/ InList(w, p) => obj'[p] = told[p]
      BY <2>2, KeptIs
    <3>2. \A p \in Object : \/ obj'[p] = obj[p] \/ (Whose(p) = Whose(o) /\ Less(obj'[p], obj[p]))
                            \/ obj'[p] = NoObject /\ p \notin sessions' /\ ~InList(openSessions', p)
      BY <1>2, <1>8, <1>9, <2>2, <3>1, Zenon
    <3> QED  BY <1>1, <1>2, <1>7, <2>2, <3>1, <3>2, Zenon DEF Lessens, Map
  <2> QED  BY <1>2, <2>1, <2>2
<1>11. Map' /\ Objects'  BY <1>1, <1>10, LessensKeeps
<1>12. /\ DOMAIN load' = {"at", "it", "listed"} /\ load'.at \in {"no", "release"}
       /\ load'.it \in Nat /\ (load'.at = "release" => load'.it > 0)
       /\ sessionLoaded' \in BOOLEAN /\ loads' \in Nat
  <2>1. CASE LoadGoes("release", load.it + 1)
    <3>1. /\ DOMAIN load' = {"at", "it", "listed"} /\ load'.at = "release" /\ load'.it = load.it + 1
          /\ sessionLoaded' = sessionLoaded /\ loads' = loads
      BY <1>1, <2>1, GoesIs
    <3>2. load'.it \in Nat /\ load'.it > 0  BY <1>3, <3>1, SMT
    <3> QED  BY <1>3, <3>1, <3>2
  <2>2. CASE LoadGoes("release", 2)
    <3>1. /\ DOMAIN load' = {"at", "it", "listed"} /\ load'.at = "release" /\ load'.it = 2
          /\ sessionLoaded' = sessionLoaded /\ loads' = loads
      BY <1>1, <2>2, GoesIs
    <3>2. load'.it \in Nat /\ load'.it > 0  BY <3>1, SMT
    <3> QED  BY <1>3, <3>1, <3>2
  <2>3. CASE LoadEnds
    <3>1. /\ DOMAIN load' = {"at", "it", "listed"} /\ load'.at = "no" /\ load'.it = 0
          /\ sessionLoaded' = TRUE /\ loads' \in Nat
      BY <1>3, <2>3, EndsIs
    <3> QED  BY <3>1
  <2> QED  BY <1>2, <2>1, <2>2, <2>3
<1>13. load'.at \in {"no", "list", "prune", "release"} /\ load'.at \notin {"list", "prune"} /\ load'.at # "prune"
  BY <1>12
<1>14. Calling'
  BY <1>1, <1>2, <1>3, <1>12, <1>13, Zenon DEF Calling
<1>15. early'  BY <1>2, <1>5
<1>16. Opened' /\ Named'  BY <1>15, Zenon DEF Opened, Named
<1>17. Lasting'
  <2>1. Known' = Known  BY <1>2 DEF Known
  <2>2. \A h \in steady' : h \in Guid /\ Complete(files'[h]) /\ h \in Known'
    BY <1>1, <1>2, <1>3, <2>1, Zenon DEF Lasting
  <2> QED  BY <1>13, <2>2, Zenon DEF Lasting
<1> QED  BY <1>11, <1>14, <1>16, <1>17 DEF RegistryInv, Shape

(***************************************************************************)
(* abort(), and a new process: the map and the list are empty.             *)
(***************************************************************************)
LEMMA AbortKeeps ==
    ASSUME RegistryInv, Abort
    PROVE  RegistryInv'
<1>1. /\ Map /\ Objects /\ Calling /\ Opened /\ Named /\ Lasting
  BY DEF RegistryInv, Shape
<1>2. load.at = "no" /\ opening = Nothing
  BY <1>1, FreeIs DEF Abort
<1>3. /\ shut' = TRUE /\ sessions' = {} /\ openSessions' = <<>> /\ steady' = {}
      /\ obj' = [o \in Object |-> IF InList(openSessions, o) THEN Aborted(obj[o])
                                  ELSE IF obj[o].run THEN obj[o] ELSE NoObject]
      /\ files' = files /\ opening' = opening /\ guids' = guids /\ early' = early
      /\ load' = load /\ sessionLoaded' = sessionLoaded /\ loads' = loads
  BY Zenon DEF Abort, NotLoading, InList
<1>4. ASSUME NEW o \in Object
      PROVE  /\ obj'[o] = NoObject \/ (Full(obj'[o]) /\ Whose(o) \in guids)
             /\ obj'[o].run => obj[o].run /\ ~InList(openSessions, o)
  <2>1. CASE InList(openSessions, o)
    <3>1. Full(obj[o]) /\ Whose(o) \in guids
      BY <1>1, <2>1, NoObjectIs, Zenon DEF Objects
    <3>2. obj'[o] = Aborted(obj[o])  BY <1>3, <2>1, Zenon
    <3>3. Less(Aborted(obj[o]), obj[o]) /\ Aborted(obj[o]).run = FALSE  BY <3>1, StoppedIs
    <3>4. Full(obj'[o]) /\ obj'[o].run = FALSE  BY <3>2, <3>3 DEF Less
    <3> QED  BY <2>1, <3>1, <3>4, Zenon
  <2>2. CASE ~InList(openSessions, o) /\ obj[o].run
    <3>1. obj'[o] = obj[o]  BY <1>3, <2>2, Zenon
    <3> QED  BY <1>1, <2>2, <3>1, Zenon DEF Objects
  <2>3. CASE ~InList(openSessions, o) /\ ~obj[o].run
    <3>1. obj'[o] = NoObject  BY <1>3, <2>3, Zenon
    <3> QED  BY <3>1, NoObjectIs
  <2> QED  BY <2>1, <2>2, <2>3
<1>5. Map'  BY <1>1, <1>3, Zenon DEF Map
<1>6. Objects'
  <2>1. DOMAIN obj' = Object  BY <1>3, Zenon
  <2> QED  BY <1>3, <1>4, <2>1, EmptyList, Zenon DEF Objects
<1>7. Calling'  BY <1>1, <1>2, <1>3, Zenon DEF Calling
<1>8. shut' /\ load'.at = "no" /\ load'.at \notin {"list", "prune"}
  BY <1>2, <1>3
<1>9. Opened'
  <2> SUFFICES ASSUME ~early' PROVE Opened'  BY DEF Opened
  <2>1. \A o \in Object : obj[o].run => InList(openSessions, o)
    BY <1>1, <1>3, Zenon DEF Opened
  <2>2. \A o \in Object : ~obj'[o].run  BY <1>4, <2>1
  <2> QED  BY <1>8, <2>2, Zenon DEF Opened
<1>10. Named'  BY <1>1, <1>3, <1>8, Zenon DEF Named, Distinct
<1>11. Lasting'  BY <1>3, <1>8, Zenon DEF Lasting
<1> QED  BY <1>5, <1>6, <1>7, <1>9, <1>10, <1>11 DEF RegistryInv, Shape

LEMMA NewProcessKeeps ==
    ASSUME RegistryInv, NewProcess
    PROVE  RegistryInv'
<1>1. Map /\ Objects /\ Calling /\ Named
  BY DEF RegistryInv, Shape
<1>2. /\ sessions' = {} /\ openSessions' = <<>> /\ obj' = [o \in Object |-> NoObject]
      /\ load' = NoLoad /\ sessionLoaded' = FALSE /\ opening' = Nothing /\ shut' = FALSE
      /\ loads' = 0 /\ steady' = {} /\ files' = files /\ guids' = guids /\ early' = early
  BY Zenon DEF NewProcess
<1>3. /\ DOMAIN load' = {"at", "it", "listed"} /\ load'.at = "no" /\ load'.it = 0
      /\ load'.at \in {"no", "list", "prune", "release"} /\ load'.at \notin {"list", "prune"}
      /\ load'.at # "release" /\ load'.at # "prune"
  <2>1. DOMAIN load' = {"at", "it", "listed"} /\ load'.at = "no" /\ load'.it = 0
    BY <1>2 DEF NoLoad
  <2> QED  BY <2>1
<1>4. Map'  BY <1>1, <1>2, Zenon DEF Map
<1>5. Objects'  BY <1>2, EmptyList, Zenon DEF Objects
<1>6. Calling'
  <2>1. 0 \in Nat  OBVIOUS
  <2>2. early \in BOOLEAN  BY <1>1 DEF Calling
  <2> QED  BY <1>2, <1>3, <2>1, <2>2, Zenon DEF Calling
<1>7. Opened'
  <2>1. \A o \in Object : ~obj'[o].run /\ ~(obj'[o].instances > 0)  BY <1>2, NoObjectIs, Zenon
  <2> QED  BY <1>3, <2>1, Zenon DEF Opened
<1>8. Named'
  <2>1. ~Loaded'  BY <1>2, <1>3 DEF Loaded
  <2> QED  BY <1>1, <1>2, <2>1, Zenon DEF Named, Distinct
<1>9. Lasting'  BY <1>2, <1>3, Zenon DEF Lasting
<1> QED  BY <1>4, <1>5, <1>6, <1>7, <1>8, <1>9 DEF RegistryInv, Shape

(***************************************************************************)
(* The threads of the sessions.                                            *)
(***************************************************************************)
\* A thread that works with its object, and may save it.
LEMMA ThreadKeeps ==
    ASSUME RegistryInv, NEW o \in Object, obj[o].run, NEW q, Same(q, obj[o]),
           obj' = [obj EXCEPT ![o] = q],
           NEW f, files' = files \/ (files' = [files EXCEPT ![Whose(o)] = f] /\ Complete(f) /\ f.name = q.name),
           SessionOnly, steady' = steady, ListedVMs \subseteq ListedVMs'
    PROVE  RegistryInv'
<1> DEFINE g == Whose(o)
<1>1. /\ Map /\ Objects /\ Calling /\ Opened /\ Named /\ Lasting
  BY DEF RegistryInv, Shape
<1>2. /\ sessions' = sessions /\ openSessions' = openSessions /\ opening' = opening /\ shut' = shut
      /\ guids' = guids /\ early' = early /\ load' = load /\ sessionLoaded' = sessionLoaded
      /\ loads' = loads
  BY Zenon DEF SessionOnly, NotLoading
<1>3. /\ obj[o] # NoObject /\ Full(obj[o]) /\ g \in guids /\ g \in Guid
  BY <1>1, NoObjectIs, ObjectIs, Zenon DEF Objects
<1>4. /\ Full(q) /\ q.name = obj[o].name /\ (q.run <=> obj[o].run) /\ q.instances = obj[o].instances
  BY DEF Same
<1>5. DOMAIN obj' = Object /\ obj'[o] = q /\ \A p \in Object : p # o => obj'[p] = obj[p]
  BY <1>1, Zenon DEF Objects
<1>6. /\ DOMAIN files' = Guid /\ \A h \in Guid : h # g => files'[h] = files[h]
      /\ files'[g] = files[g] \/ (Complete(files'[g]) /\ files'[g].name = obj[o].name)
  <2>1. DOMAIN files = Guid  BY <1>1 DEF Map
  <2>2. CASE files' = files  BY <2>1, <2>2
  <2>3. CASE files' = [files EXCEPT ![g] = f] /\ Complete(f) /\ f.name = q.name
    BY <1>3, <1>4, <2>1, <2>3, Zenon
  <2> QED  BY <2>2, <2>3
<1>7. Map'  BY <1>1, <1>2, <1>3, <1>6, Zenon DEF Map
<1>8. Objects'  BY <1>1, <1>2, <1>3, <1>4, <1>5, Zenon DEF Objects
<1>9. \A p \in Object : /\ obj'[p].run <=> obj[p].run
                        /\ obj'[p].instances = obj[p].instances /\ obj'[p].name = obj[p].name
  BY <1>4, <1>5, Zenon
<1>10. Calling'
  <2>1. opening # Nothing => /\ ~shut /\ <<opening[1], 0>> \in sessions
                             /\ ~obj'[<<opening[1], 0>>].run
    BY <1>1, <1>9, Zenon DEF Calling, Map
  <2> QED  BY <1>1, <1>2, <2>1, Zenon DEF Calling
<1>11. Opened'
  <2> SUFFICES ASSUME ~early' PROVE Opened'  BY DEF Opened
  <2>1. ~early  BY <1>2
  <2>2. /\ \A p \in Object : obj[p].run => /\ InList(openSessions, p) /\ p \in sessions
                                           /\ obj[p].instances > 0 /\ ~shut
        /\ ~shut => \A p \in Object : obj[p].instances > 0 => obj[p].run
        /\ load.at # "no" => openSessions = <<>>
    BY <1>1, <2>1, Zenon DEF Opened
  <2>3. ASSUME NEW p \in Object, obj'[p].run
        PROVE  InList(openSessions', p) /\ p \in sessions' /\ obj'[p].instances > 0 /\ ~shut'
    <3>1. obj[p].run /\ obj'[p].instances = obj[p].instances  BY <1>9, <2>3, Zenon
    <3> QED  BY <1>2, <2>2, <3>1
  <2>4. ASSUME ~shut', NEW p \in Object, obj'[p].instances > 0 PROVE obj'[p].run
    <3>1. ~shut /\ obj[p].instances > 0  BY <1>2, <1>9, <2>4
    <3>2. obj[p].run  BY <2>2, <3>1
    <3> QED  BY <1>9, <3>2, Zenon
  <2> QED  BY <1>2, <2>2, <2>3, <2>4, Zenon DEF Opened
<1>12. Named'
  <2> SUFFICES ASSUME ~early' PROVE Named'  BY DEF Named
  <2>1. ~early  BY <1>2
  <2>2. o \in sessions /\ ~shut  BY <1>1, <2>1, Zenon DEF Opened
  <2>3. opening # Nothing => o # <<opening[1], 0>>  BY <1>1, Zenon DEF Calling
  <2>4. /\ Distinct
        /\ Loaded => \A h \in Guid : Complete(files[h]) => h \in Known
        /\ ~Loaded => sessions = {}
        /\ \A p \in sessions : \/ Complete(files[Whose(p)]) /\ files[Whose(p)].name = obj[p].name
                               \/ opening # Nothing /\ p = <<opening[1], 0>>
        /\ opening # Nothing => \A h \in Guid : Complete(files[h]) => files[h].name # opening[2]
    BY <1>1, <2>1, <2>2, Zenon DEF Named
  <2>5. Complete(files[g]) /\ files[g].name = obj[o].name  BY <2>2, <2>3, <2>4, Zenon
  <2>6. \A h \in Guid : /\ Complete(files'[h]) <=> Complete(files[h])
                        /\ Complete(files[h]) => files'[h].name = files[h].name
    BY <1>6, <2>5, Zenon
  <2>7. Distinct'  BY <2>4, <2>6, Zenon DEF Distinct
  <2>8. Loaded' = Loaded /\ Known' = Known  BY <1>2, Zenon DEF Loaded, Known
  <2>9. ASSUME NEW p \in sessions
        PROVE  \/ Complete(files'[Whose(p)]) /\ files'[Whose(p)].name = obj'[p].name
               \/ opening # Nothing /\ p = <<opening[1], 0>>
    <3>1. p \in Object /\ Whose(p) \in Guid  BY <1>1, ObjectIs, Zenon DEF Map
    <3> QED  BY <1>9, <2>4, <2>6, <3>1, Zenon
  <2> QED  BY <1>2, <2>2, <2>4, <2>6, <2>7, <2>8, <2>9, Zenon DEF Named
<1>13. Lasting'
  <2>1. Known' = Known  BY <1>2, Zenon DEF Known
  <2>2. \A h \in steady' : h \in Guid /\ Complete(files'[h]) /\ (~shut' => h \in Known')
    BY <1>1, <1>2, <1>6, <2>1, Zenon DEF Lasting
  <2>3. ASSUME load'.at \in {"list", "prune"}, NEW p \in sessions'
        PROVE  /\ ~obj'[p].run /\ (Whose(p) \in steady' => obj'[p].vm \in ListedVMs')
               /\ load'.at = "prune" /\ Whose(p) \in steady' => obj'[p].vm \in load'.listed
    <3>1. p \in sessions /\ p \in Object /\ ~obj[p].run
      BY <1>1, <1>2, <2>3, Zenon DEF Lasting, Map
    <3>2. obj'[p] = obj[p]  BY <1>5, <3>1, Zenon
    <3> QED  BY <1>1, <1>2, <2>3, <3>1, <3>2, Zenon DEF Lasting
  <2> QED  BY <2>2, <2>3, Zenon DEF Lasting
<1> QED  BY <1>7, <1>8, <1>10, <1>11, <1>12, <1>13 DEF RegistryInv, Shape

\* A value that an object's thread changes is its own.
LEMMA WorksIs ==
    ASSUME NEW r, Full(r), NEW v
    PROVE  /\ Same([r EXCEPT !.state = v], r)
           /\ Same([r EXCEPT !.creating = v], r)
           /\ Same([r EXCEPT !.vm = v, !.creating = 0], r)
<1>0. DOMAIN r = ObjectFields /\ r.run \in BOOLEAN /\ r.instances \in Nat  BY DEF Full
<1> DEFINE a == [r EXCEPT !.state = v]
           b == [r EXCEPT !.creating = v]
           c == [r EXCEPT !.vm = v, !.creating = 0]
<1>1. DOMAIN a = ObjectFields /\ a.run = r.run /\ a.instances = r.instances /\ a.name = r.name
  BY <1>0, SMT DEF ObjectFields
<1>2. DOMAIN b = ObjectFields /\ b.run = r.run /\ b.instances = r.instances /\ b.name = r.name
  BY <1>0, SMT DEF ObjectFields
<1>3. DOMAIN c = ObjectFields /\ c.run = r.run /\ c.instances = r.instances /\ c.name = r.name
  BY <1>0, SMT DEF ObjectFields
<1> HIDE DEF a, b, c
<1>4. Same(a, r) /\ Same(b, r) /\ Same(c, r)  BY <1>0, <1>1, <1>2, <1>3, Zenon DEF Same, Full
<1> QED  BY <1>4 DEF a, b, c

LEMMA SavesIs ==
    ASSUME RegistryInv, NEW o \in Object, obj[o].run, NEW q, Same(q, obj[o]), Saves(o, q),
           SessionOnly, NoMachine, steady' = steady
    PROVE  RegistryInv'
<1> DEFINE f == [there |-> "yes", name |-> q.name, vm |-> q.vm, state |-> q.state]
<1>1. obj' = [obj EXCEPT ![o] = q] /\ files' = [files EXCEPT ![Whose(o)] = f]  BY DEF Saves
<1>2. Complete(f) /\ f.name = q.name  BY DEF Complete
<1> HIDE DEF f
<1>3. ListedVMs \subseteq ListedVMs'  BY Zenon DEF NoMachine, ListedVMs
<1> QED  BY <1>1, <1>2, <1>3, ThreadKeeps

\* VirtualBox has a machine, or none, for each name.
Names == DOMAIN vms = Name

LEMMA ThreadStepsKeep ==
    ASSUME RegistryInv, Names, NEW o \in Object, Update(o) \/ CreateVM(o) \/ RecordVM(o)
    PROVE  RegistryInv'
<1>1. obj[o].run  BY Zenon DEF Update, CreateVM, RecordVM
<1>2. Full(obj[o])  BY <1>1, OpenOnesAreFull DEF RegistryInv, Shape
<1>3. CASE Update(o)
  <2> DEFINE s == IF Lives(obj[o].vm) THEN "exists" ELSE "missing"
             q == [obj[o] EXCEPT !.state = s]
  <2>1. Saves(o, q) /\ SessionOnly /\ NoMachine /\ steady' = steady  BY <1>3, Zenon DEF Update
  <2> HIDE DEF s
  <2>2. Same(q, obj[o])  BY <1>2, WorksIs
  <2> HIDE DEF q
  <2> QED  BY <1>1, <2>1, <2>2, SavesIs
<1>4. CASE RecordVM(o)
  <2> DEFINE v == obj[o].creating
             q == [obj[o] EXCEPT !.vm = v, !.creating = 0]
  <2>1. Saves(o, q) /\ SessionOnly /\ NoMachine /\ steady' = steady  BY <1>4, Zenon DEF RecordVM
  <2> HIDE DEF v
  <2>2. Same(q, obj[o])  BY <1>2, WorksIs
  <2> HIDE DEF q
  <2> QED  BY <1>1, <2>1, <2>2, SavesIs
<1>5. CASE CreateVM(o)
  <2> DEFINE n == obj[o].name
  <2>1. /\ files' = files /\ steady' = steady /\ hidden' = hidden /\ SessionOnly
        /\ \/ obj' = [obj EXCEPT ![o].creating = vms[n]] /\ vms' = vms
           \/ /\ vms[n] = 0 /\ vms' = [vms EXCEPT ![n] = made + 1]
              /\ obj' = [obj EXCEPT ![o].creating = made + 1]
    BY <1>5, Zenon DEF CreateVM
  <2>2. ListedVMs \subseteq ListedVMs'
    <3>1. CASE vms' = vms  BY <2>1, <3>1, Zenon DEF ListedVMs
    <3>2. CASE vms[n] = 0 /\ vms' = [vms EXCEPT ![n] = made + 1]
      <4>1. \A m \in Name : vms[m] # 0 => vms'[m] = vms[m]
        BY <3>2, Zenon DEF Names
      <4> QED  BY <2>1, <4>1, Zenon DEF ListedVMs
    <3> QED  BY <2>1, <3>1, <3>2
  <2>3. PICK v : obj' = [obj EXCEPT ![o].creating = v]  BY <2>1
  <2> DEFINE q == [obj[o] EXCEPT !.creating = v]
  <2>4. obj' = [obj EXCEPT ![o] = q]  BY <2>3
  <2>5. Same(q, obj[o])  BY <1>2, WorksIs
  <2> HIDE DEF q
  <2> QED  BY <1>1, <2>1, <2>2, <2>4, <2>5, ThreadKeeps
<1> QED  BY <1>3, <1>4, <1>5

(***************************************************************************)
(* Machines that are destroyed, removed, hidden or shown.                  *)
(***************************************************************************)
LEMMA MachinesKeep ==
    ASSUME RegistryInv, NEW gone \in SUBSET Guid,
           UNCHANGED <<files, sessions, openSessions, obj, opening, shut, guids, early>>, NotLoading,
           steady' = steady \ gone,
           \A p \in sessions : Whose(p) \notin gone /\ obj[p].vm \in ListedVMs => obj[p].vm \in ListedVMs'
    PROVE  RegistryInv'
<1>1. /\ Map /\ Objects /\ Calling /\ Opened /\ Named /\ Lasting
  BY DEF RegistryInv, Shape
<1>2. /\ files' = files /\ sessions' = sessions /\ openSessions' = openSessions /\ obj' = obj
      /\ opening' = opening /\ shut' = shut /\ guids' = guids /\ early' = early
      /\ load' = load /\ sessionLoaded' = sessionLoaded /\ loads' = loads
  BY Zenon DEF NotLoading
<1>3. Map' /\ Objects'  BY <1>1, <1>2, Zenon DEF Map, Objects
<1>4. Calling'  BY <1>1, <1>2, SMT DEF Calling
<1>5. Opened'  BY <1>1, <1>2, SMT DEF Opened, InList
<1>6. Loaded' = Loaded /\ Known' = Known  BY <1>2, Zenon DEF Loaded, Known
<1>7. Named'  BY <1>1, <1>2, <1>6, SMT DEF Named, Distinct
<1>8. Lasting'
  <2>1. \A g \in steady' : g \in Guid /\ Complete(files'[g]) /\ (~shut' => g \in Known')
    BY <1>1, <1>2, <1>6, SMT DEF Lasting
  <2>2. ASSUME load'.at \in {"list", "prune"}, NEW p \in sessions'
        PROVE  ~obj'[p].run /\ (Whose(p) \in steady' => obj'[p].vm \in ListedVMs')
    BY <1>1, <1>2, <2>2, Zenon DEF Lasting
  <2>3. ASSUME load'.at = "prune", NEW p \in sessions', Whose(p) \in steady'
        PROVE  obj'[p].vm \in load'.listed
    BY <1>1, <1>2, <2>3, Zenon DEF Lasting
  <2> QED  BY <2>1, <2>2, <2>3, Zenon DEF Lasting
<1> QED  BY <1>3, <1>7, <1>8, <1>4, <1>5 DEF RegistryInv, Shape

LEMMA GoneKeeps ==
    ASSUME RegistryInv, NEW v,
           UNCHANGED <<files, sessions, openSessions, obj, opening, shut, guids, early>>, NotLoading,
           steady' = steady \ GoneWith(v), ListedVMs \ {v} \subseteq ListedVMs'
    PROVE  RegistryInv'
<1> DEFINE gone == GoneWith(v)
<1>1. gone \in SUBSET Guid
  BY ObjectIs, Zenon DEF GoneWith, RegistryInv, Shape, Map
<1>2. \A p \in sessions : Whose(p) \notin gone => obj[p].vm # v
  BY Zenon DEF GoneWith
<1> HIDE DEF gone
<1>3. steady' = steady \ gone  BY DEF gone
<1> QED  BY <1>1, <1>2, <1>3, MachinesKeep

LEMMA NoneGoneKeeps ==
    ASSUME RegistryInv,
           UNCHANGED <<files, sessions, openSessions, obj, opening, shut, guids, early>>, NotLoading,
           steady' = steady, ListedVMs \subseteq ListedVMs'
    PROVE  RegistryInv'
<1> DEFINE none == {}
<1>1. none \in SUBSET Guid /\ steady' = steady \ none  OBVIOUS
<1> HIDE DEF none
<1>2. \A p \in sessions : Whose(p) \notin none /\ obj[p].vm \in ListedVMs => obj[p].vm \in ListedVMs'
  OBVIOUS
<1> QED  BY <1>1, <1>2, MachinesKeep

LEMMA OthersKeep ==
    ASSUME RegistryInv, Names,
           (\E o \in Object : DestroyVM(o)) \/ (\E n \in Name : RemoveVM(n) \/ HideVM(n) \/ ShowVM(n))
    PROVE  RegistryInv'
<1>1. CASE \E o \in Object : DestroyVM(o)
  <2>1. PICK o \in Object : DestroyVM(o)  BY <1>1
  <2> DEFINE v == obj[o].vm
  <2>2. /\ vms' = [n \in Name |-> IF vms[n] = v THEN 0 ELSE vms[n]] /\ hidden' = hidden
        /\ steady' = steady \ GoneWith(v)
        /\ UNCHANGED <<files, sessions, openSessions, obj, opening, shut, guids, early>> /\ NotLoading
    BY <2>1, Zenon DEF DestroyVM, SessionOnly
  <2> HIDE DEF v
  <2>3. \A n \in Name : vms[n] # v => vms'[n] = vms[n]  BY <2>2, Zenon
  <2>4. ListedVMs \ {v} \subseteq ListedVMs'  BY <2>2, <2>3, Zenon DEF ListedVMs
  <2> QED  BY <2>2, <2>4, GoneKeeps
<1>2. ASSUME NEW n \in Name, RemoveVM(n) PROVE RegistryInv'
  <2> DEFINE v == vms[n]
  <2>1. /\ vms' = [vms EXCEPT ![n] = 0] /\ hidden' = hidden
        /\ steady' = steady \ GoneWith(v)
        /\ UNCHANGED <<files, sessions, openSessions, obj, opening, shut, guids, early>> /\ NotLoading
    BY <1>2, Zenon DEF RemoveVM, OutsideOnly
  <2>2. \A m \in Name : vms[m] # v => vms'[m] = vms[m]  BY <2>1, Zenon DEF Names
  <2> HIDE DEF v
  <2>3. ListedVMs \ {v} \subseteq ListedVMs'  BY <2>1, <2>2, Zenon DEF ListedVMs
  <2> QED  BY <2>1, <2>3, GoneKeeps
<1>3. ASSUME NEW n \in Name, HideVM(n) PROVE RegistryInv'
  <2> DEFINE v == vms[n]
  <2>1. /\ vms' = vms /\ hidden' = hidden \cup {n}
        /\ steady' = steady \ GoneWith(v)
        /\ UNCHANGED <<files, sessions, openSessions, obj, opening, shut, guids, early>> /\ NotLoading
    BY <1>3, Zenon DEF HideVM, OutsideOnly
  <2>2. \A m \in Name \ hidden : vms[m] # v => m \in Name \ hidden'  BY <2>1, Zenon
  <2> HIDE DEF v
  <2>3. ListedVMs \ {v} \subseteq ListedVMs'  BY <2>1, <2>2, Zenon DEF ListedVMs
  <2> QED  BY <2>1, <2>3, GoneKeeps
<1>4. ASSUME NEW n \in Name, ShowVM(n) PROVE RegistryInv'
  <2>1. /\ vms' = vms /\ hidden' = hidden \ {n} /\ steady' = steady
        /\ UNCHANGED <<files, sessions, openSessions, obj, opening, shut, guids, early>> /\ NotLoading
    BY <1>4, Zenon DEF ShowVM, OutsideOnly
  <2>2. ListedVMs \subseteq ListedVMs'  BY <2>1, Zenon DEF ListedVMs
  <2> QED  BY <2>1, <2>2, NoneGoneKeeps
<1> QED  BY <1>1, <1>2, <1>3, <1>4

(***************************************************************************)
(* Every step keeps the invariant.                                         *)
(***************************************************************************)
LEMMA NamesKeep == Names /\ [Next]_vars => Names'
<1> SUFFICES ASSUME Names, [Next]_vars PROVE Names'  OBVIOUS
<1>1. \/ vms' = vms
      \/ \E n : vms' = [vms EXCEPT ![n] = 0]
      \/ \E n : vms' = [vms EXCEPT ![n] = made + 1]
      \/ \E v : vms' = [n \in Name |-> IF vms[n] = v THEN 0 ELSE vms[n]]
  <2>1. CASE AppCalls
    BY <2>1, Zenon DEF AppCalls, OpenFound, Allocate, OpenRefused, Close, LoadFiles, Abort, NewProcess, NoMachine
  <2>2. CASE OpenAllocated  BY <2>2, Zenon DEF OpenAllocated, NoMachine
  <2>3. CASE LoadSteps
    BY <2>3, Zenon DEF LoadSteps, ListVMs, ListFails, Prune, PruneNext, Release, ReleaseEnds, LoadOnly, NoMachine
  <2>4. CASE SessionSteps
    BY <2>4, Zenon DEF SessionSteps, Update, CreateVM, RecordVM, DestroyVM, NoMachine
  <2>5. CASE OthersSteps  BY <2>5, Zenon DEF OthersSteps, RemoveVM, HideVM, ShowVM
  <2>6. CASE Dies  BY <2>6, Zenon DEF Dies, NewProcess, NoMachine
  <2>7. CASE UNCHANGED vars  BY <2>7, Zenon DEF vars
  <2> QED  BY <2>1, <2>2, <2>3, <2>4, <2>5, <2>6, <2>7 DEF Next
<1> QED  BY <1>1, Zenon DEF Names

LEMMA RegistryStep == RegistryInv /\ Names /\ [Next]_vars => RegistryInv'
<1> SUFFICES ASSUME RegistryInv, Names, [Next]_vars PROVE RegistryInv'  OBVIOUS
<1>1. CASE AppCalls
  <2>1. ASSUME NEW n \in Wanted, OpenFound(n) PROVE RegistryInv'  BY <2>1, OpenFoundKeeps
  <2>2. ASSUME NEW n \in Wanted, Allocate(n) PROVE RegistryInv'  BY <2>2, AllocateKeeps
  <2>3. ASSUME NEW n \in Wanted, OpenRefused(n) PROVE RegistryInv'
    BY <2>3, NewProcessKeeps DEF OpenRefused
  <2>4. ASSUME NEW o \in Object, Close(o) PROVE RegistryInv'  BY <2>4, CloseKeeps
  <2>5. CASE LoadFiles  BY <2>5, LoadFilesKeeps
  <2>6. CASE Abort      BY <2>6, AbortKeeps
  <2> QED  BY <1>1, <2>1, <2>2, <2>3, <2>4, <2>5, <2>6 DEF AppCalls
<1>2. CASE OpenAllocated  BY <1>2, OpenAllocatedKeeps
<1>3. CASE LoadSteps
  BY <1>3, ListVMsKeeps, PruneKeeps, PruneNextKeeps, ReleaseKeeps, ReleaseEndsKeeps DEF LoadSteps
<1>4. CASE SessionSteps
  <2>1. PICK o \in Object : Update(o) \/ CreateVM(o) \/ RecordVM(o) \/ DestroyVM(o)
    BY <1>4 DEF SessionSteps
  <2>2. CASE DestroyVM(o)  BY <2>2, OthersKeep
  <2>3. CASE Update(o) \/ CreateVM(o) \/ RecordVM(o)  BY <2>3, ThreadStepsKeep
  <2> QED  BY <2>1, <2>2, <2>3
<1>5. CASE OthersSteps  BY <1>5, OthersKeep DEF OthersSteps
<1>6. CASE Dies  BY <1>6, NewProcessKeeps DEF Dies
<1>7. CASE UNCHANGED vars
  <2>1. ListedVMs \subseteq ListedVMs'  BY <1>7, Zenon DEF vars, ListedVMs
  <2>2. /\ UNCHANGED <<files, sessions, openSessions, obj, opening, shut, guids, early>> /\ NotLoading
        /\ steady' = steady
    BY <1>7, Zenon DEF vars, NotLoading
  <2> QED  BY <2>1, <2>2, NoneGoneKeeps
<1> QED  BY <1>1, <1>2, <1>3, <1>4, <1>5, <1>6, <1>7 DEF Next

\* The map, the list, the files and the objects agree, for any number of sessions, names
\* and loads.
THEOREM Invariant == Spec => [](RegistryInv /\ Names)
<1>1. Init => RegistryInv /\ Names
  <2>1. Init => Names  BY Zenon DEF Init, Names
  <2> QED  BY <2>1, RegistryInit
<1>2. (RegistryInv /\ Names) /\ [Next]_vars => (RegistryInv /\ Names)'
  BY RegistryStep, NamesKeep
<1> QED  BY <1>1, <1>2, PTL DEF Spec

\* Every thread of a session is one that abort() will stop, in whichever order sessions
\* are opened, closed, loaded and deleted, provided that they are loaded first
\* (VBoxInstance::sessionOpen, sessionClose, sessionDelete, loadSessions, abort).
THEOREM NoThreadIsLost == Spec => []ThreadsAreOpen
<1>1. RegistryInv => ThreadsAreOpen
  BY Zenon DEF RegistryInv, Opened, ThreadsAreOpen, InList
<1> QED  BY <1>1, Invariant, PTL

\* No two files ever hold sessions of the same name, wherever the process dies: the
\* session that sessionOpen finds by its name is the one.
THEOREM NamesAreUnique == Spec => []OneSessionPerName
<1>1. RegistryInv => OneSessionPerName
  BY Zenon DEF RegistryInv, Named, Distinct, OneSessionPerName
<1> QED  BY <1>1, Invariant, PTL

\* loadSessions keeps each session whose machine VirtualBox has had since it began, in the
\* map and on disk, and so does everything that is called afterwards but its own closing.
THEOREM LoadingKeeps == Spec => []KeepsWhatLives
<1>1. RegistryInv => KeepsWhatLives
  BY Zenon DEF RegistryInv, Lasting, KeepsWhatLives
<1> QED  BY <1>1, Invariant, PTL
=============================================================================

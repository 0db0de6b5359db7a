---------------------------- MODULE ProgressProofs ----------------------------
(***************************************************************************)
(* Proofs about Progress: completion is told, and told once, and progress  *)
(* does not go back.                                                       *)
(***************************************************************************)
EXTENDS Progress, SequenceTheorems, WellFoundedInduction, TLAPS

(***************************************************************************)
(* Notices that tell completion, and what stands before the others.        *)
(***************************************************************************)
IsEnd(n, t) == n.kind = "event" /\ n.of = t /\ n.event = "completed"
Waits(s, t) == \E i \in DOMAIN s : IsEnd(s[i], t)

\* A sequence says so once of a task, or of none.
Once(s) == \A t \in Task : \A i, j \in DOMAIN s : IsEnd(s[i], t) /\ IsEnd(s[j], t) => i = j
IsList(s) == \E S : s \in Seq(S)

Quietly(s) == IsList(s) /\ \A t \in Task : ~Waits(s, t)

LEMMA ListIs ==
    ASSUME NEW s, IsList(s)
    PROVE  /\ Len(s) \in Nat /\ DOMAIN s = 1 .. Len(s)
           /\ s # <<>> => /\ IsList(Tail(s)) /\ Len(s) > 0 /\ Len(Tail(s)) = Len(s) - 1 /\ Head(s) = s[1]
                          /\ DOMAIN Tail(s) = 1 .. Len(s) - 1
                          /\ \A i \in DOMAIN Tail(s) : Tail(s)[i] = s[i + 1]
<1>1. PICK S : s \in Seq(S)  BY DEF IsList
<1>2. Len(s) \in Nat /\ DOMAIN s = 1 .. Len(s)  BY <1>1, LenProperties
<1>3. ASSUME s # <<>>
      PROVE  /\ IsList(Tail(s)) /\ Len(s) > 0 /\ Len(Tail(s)) = Len(s) - 1
             /\ DOMAIN Tail(s) = 1 .. Len(s) - 1
             /\ \A i \in DOMAIN Tail(s) : Tail(s)[i] = s[i + 1]
  <2> DEFINE u == Tail(s)
  <2>1. /\ u \in Seq(S) /\ Len(u) = Len(s) - 1
        /\ \A i \in 1 .. Len(u) : u[i] = s[i + 1]
    BY <1>1, <1>3, HeadTailProperties
  <2> HIDE DEF u
  <2>2. DOMAIN u = 1 .. Len(u) /\ Len(u) \in Nat  BY <2>1, LenProperties
  <2>3. Len(s) > 0  BY <1>2, <2>1, <2>2, SMT
  <2>4. IsList(u)  BY <2>1 DEF IsList
  <2> QED  BY <2>1, <2>2, <2>3, <2>4 DEF u
<1>4. Head(s) = s[1]  OBVIOUS
<1> QED  BY <1>2, <1>3, <1>4

LEMMA JoinedIs ==
    ASSUME NEW s, IsList(s), NEW u, IsList(u)
    PROVE  /\ IsList(s \o u) /\ DOMAIN (s \o u) = 1 .. Len(s) + Len(u)
           /\ \A i \in 1 .. Len(s) + Len(u) : (s \o u)[i] = IF i <= Len(s) THEN s[i] ELSE u[i - Len(s)]
<1>1. PICK S : s \in Seq(S)  BY DEF IsList
<1>2. PICK U : u \in Seq(U)  BY DEF IsList
<1> DEFINE B == S \cup U
<1>3. s \in Seq(B) /\ u \in Seq(B)
  <2>1. S \subseteq B /\ U \subseteq B  OBVIOUS
  <2> HIDE DEF B
  <2> QED  BY <1>1, <1>2, <2>1, SMT
<1> HIDE DEF B
<1> DEFINE j == s \o u
<1>4. /\ j \in Seq(B) /\ Len(j) = Len(s) + Len(u)
      /\ \A i \in 1 .. Len(s) + Len(u) : j[i] = IF i <= Len(s) THEN s[i] ELSE u[i - Len(s)]
  BY <1>3, ConcatProperties
<1> HIDE DEF j
<1>5. DOMAIN j = 1 .. Len(j)  BY <1>4, LenProperties
<1> QED  BY <1>4, <1>5 DEF IsList, j

LEMMA JoinedOnce ==
    ASSUME NEW s, IsList(s), Once(s), NEW u, IsList(u), Once(u),
           \A t \in Task : ~(Waits(s, t) /\ Waits(u, t))
    PROVE  /\ IsList(s \o u) /\ Once(s \o u)
           /\ \A t \in Task : Waits(s \o u, t) => Waits(s, t) \/ Waits(u, t)
<1> DEFINE j == s \o u
<1>1. /\ IsList(j) /\ DOMAIN j = 1 .. Len(s) + Len(u)
      /\ \A i \in 1 .. Len(s) + Len(u) : j[i] = IF i <= Len(s) THEN s[i] ELSE u[i - Len(s)]
  BY JoinedIs
<1> HIDE DEF j
<1>2. Len(s) \in Nat /\ DOMAIN s = 1 .. Len(s) /\ Len(u) \in Nat /\ DOMAIN u = 1 .. Len(u)
  BY ListIs
<1>3. ASSUME NEW i \in DOMAIN j
      PROVE  \/ i \in DOMAIN s /\ j[i] = s[i]
             \/ i > Len(s) /\ i - Len(s) \in DOMAIN u /\ j[i] = u[i - Len(s)]
  <2>1. CASE i <= Len(s)
    <3>1. i \in DOMAIN s  BY <1>1, <1>2, <1>3, <2>1, SMT
    <3> QED  BY <1>1, <1>3, <2>1, <3>1
  <2>2. CASE ~(i <= Len(s))
    <3>1. i > Len(s) /\ i - Len(s) \in DOMAIN u  BY <1>1, <1>2, <1>3, <2>2, SMT
    <3> QED  BY <1>1, <1>3, <2>2, <3>1
  <2> QED  BY <2>1, <2>2
<1>4. \A t \in Task : Waits(j, t) => Waits(s, t) \/ Waits(u, t)
  BY <1>3, Zenon DEF Waits
<1>5. ASSUME NEW t \in Task, NEW i \in DOMAIN j, NEW k \in DOMAIN j, IsEnd(j[i], t), IsEnd(j[k], t)
      PROVE  i = k
  <2>1. CASE i \in DOMAIN s /\ j[i] = s[i]
    <3>1. Waits(s, t)  BY <1>5, <2>1, Zenon DEF Waits
    <3>2. ~Waits(u, t)  BY <3>1
    <3>3. k \in DOMAIN s /\ j[k] = s[k]  BY <1>3, <1>5, <3>2, Zenon DEF Waits
    <3> QED  BY <1>5, <2>1, <3>3, Zenon DEF Once
  <2>2. CASE i > Len(s) /\ i - Len(s) \in DOMAIN u /\ j[i] = u[i - Len(s)]
    <3>1. Waits(u, t)  BY <1>5, <2>2, Zenon DEF Waits
    <3>2. ~Waits(s, t)  BY <3>1
    <3>3. k > Len(s) /\ k - Len(s) \in DOMAIN u /\ j[k] = u[k - Len(s)]
      BY <1>3, <1>5, <3>2, Zenon DEF Waits
    <3>4. i - Len(s) = k - Len(s)  BY <1>5, <2>2, <3>3, Zenon DEF Once
    <3> QED  BY <1>1, <1>2, <3>4, SMT
  <2> QED  BY <1>3, <2>1, <2>2
<1>6. Once(j)  BY <1>5 DEF Once
<1> QED  BY <1>1, <1>4, <1>6 DEF j

LEMMA TailOnce ==
    ASSUME NEW s, IsList(s), Once(s), s # <<>>
    PROVE  /\ IsList(Tail(s)) /\ Once(Tail(s))
           /\ \A t \in Task : Waits(Tail(s), t) => Waits(s, t)
           /\ \A t \in Task : IsEnd(Head(s), t) => Waits(s, t) /\ ~Waits(Tail(s), t)
<1> DEFINE u == Tail(s)
<1>1. /\ DOMAIN s = 1 .. Len(s) /\ Len(s) \in Nat /\ IsList(u) /\ Len(s) > 0 /\ Head(s) = s[1]
      /\ DOMAIN u = 1 .. Len(s) - 1 /\ \A i \in DOMAIN u : u[i] = s[i + 1]
  BY ListIs
<1> HIDE DEF u
<1>2. 1 \in DOMAIN s /\ \A i \in DOMAIN u : i + 1 \in DOMAIN s /\ i + 1 # 1
  BY <1>1, SMT
<1>3. \A t \in Task : Waits(u, t) => Waits(s, t)
  BY <1>1, <1>2, Zenon DEF Waits
<1>4. \A t \in Task : IsEnd(Head(s), t) => Waits(s, t) /\ ~Waits(u, t)
  BY <1>1, <1>2, Zenon DEF Waits, Once
<1>5. ASSUME NEW t \in Task, NEW i \in DOMAIN u, NEW k \in DOMAIN u, IsEnd(u[i], t), IsEnd(u[k], t)
      PROVE  i = k
  <2>1. i + 1 = k + 1  BY <1>1, <1>2, <1>5, Zenon DEF Once
  <2> QED  BY <1>1, <2>1, SMT
<1> QED  BY <1>1, <1>3, <1>4, <1>5 DEF Once, u

LEMMA QuietIsOnce ==
    ASSUME NEW s, Quietly(s)
    PROVE  IsList(s) /\ Once(s) /\ \A t \in Task : ~Waits(s, t)
BY Zenon DEF Quietly, Once, Waits

LEMMA PairIs ==
    ASSUME NEW a, NEW b
    PROVE  /\ IsList(<<>>) /\ DOMAIN <<>> = {}
           /\ IsList(<<a>>) /\ DOMAIN <<a>> = {1} /\ <<a>>[1] = a
           /\ IsList(<<a, b>>) /\ DOMAIN <<a, b>> = {1, 2} /\ <<a, b>>[1] = a /\ <<a, b>>[2] = b
<1> DEFINE S == {a, b}
<1>1. <<>> \in Seq(S) /\ <<a>> \in Seq(S) /\ <<a, b>> \in Seq(S)  OBVIOUS
<1>2. IsList(<<>>) /\ IsList(<<a>>) /\ IsList(<<a, b>>)  BY <1>1, Zenon DEF IsList
<1>3. DOMAIN <<>> = {} /\ DOMAIN <<a>> = {1} /\ DOMAIN <<a, b>> = {1, 2}  OBVIOUS
<1> QED  BY <1>2, <1>3

LEMMA QuietPair ==
    ASSUME NEW a, NEW b, \A t \in Task : ~IsEnd(a, t) /\ ~IsEnd(b, t)
    PROVE  Quietly(<<a>>) /\ Quietly(<<a, b>>)
<1>1. \A t \in Task : ~Waits(<<a>>, t)
  <2> SUFFICES ASSUME NEW t \in Task, NEW i \in DOMAIN <<a>>, IsEnd(<<a>>[i], t) PROVE FALSE
    BY Zenon DEF Waits
  <2>1. i = 1  BY PairIs
  <2>2. IsEnd(a, t)  BY <2>1, PairIs
  <2> QED  BY <2>2
<1>2. \A t \in Task : ~Waits(<<a, b>>, t)
  <2> SUFFICES ASSUME NEW t \in Task, NEW i \in DOMAIN <<a, b>>, IsEnd(<<a, b>>[i], t) PROVE FALSE
    BY Zenon DEF Waits
  <2>1. i = 1 \/ i = 2  BY PairIs
  <2>2. IsEnd(a, t) \/ IsEnd(b, t)  BY <2>1, PairIs
  <2> QED  BY <2>2
<1> QED  BY <1>1, <1>2, PairIs DEF Quietly

\* The other notices do not tell completion.
Others == {"started", "update", "completed", "failed", "lengthy"}

LEMMA QuietOnes ==
    /\ Quietly(<<>>)
    /\ \A k \in Others : \A t : Quietly(<<Notice(k, t)>>) /\ Quietly(ToParent(k, t))
    /\ \A k, l \in Others : \A t : Quietly(<<Notice(k, t), Notice(l, t)>>)
    /\ \A e \in {"started", "progress", "failed", "lengthyTask"} : \A t, v : Quietly(<<Event3(e, t, v)>>)
<1>1. Quietly(<<>>)  BY PairIs, Zenon DEF Quietly, Waits
<1>2. \A k \in Others : \A t, u : ~IsEnd(Notice(k, t), u)
  BY SMT DEF Notice, Others, IsEnd
<1>3. \A k \in Others : \A t : Quietly(<<Notice(k, t)>>)
  BY <1>2, QuietPair, Zenon
<1>4. \A k \in Others : \A t : Quietly(ToParent(k, t))
  BY <1>1, <1>3, Zenon DEF ToParent
<1>5. \A k, l \in Others : \A t : Quietly(<<Notice(k, t), Notice(l, t)>>)
  BY <1>2, QuietPair, Zenon
<1>6. \A e \in {"started", "progress", "failed", "lengthyTask"} : \A t, v, u : ~IsEnd(Event3(e, t, v), u)
  BY SMT DEF Event3, IsEnd
<1>7. \A e \in {"started", "progress", "failed", "lengthyTask"} : \A t, v : Quietly(<<Event3(e, t, v)>>)
  BY <1>6, QuietPair, Zenon
<1> QED  BY <1>1, <1>3, <1>4, <1>5, <1>7

(***************************************************************************)
(* The invariant: who waits to tell its completion is completed and has    *)
(* not told it, and waits for one notice only.                             *)
(***************************************************************************)
Told ==
    /\ IsList(notices) /\ Once(notices)
    /\ DOMAIN completed = Task /\ DOMAIN ended = Task
    /\ \A t \in Task : /\ ended[t] \in {0, 1}
                       /\ ended[t] = 1 => completed[t]
                       /\ Waits(notices, t) => completed[t] /\ ended[t] = 0

LEMMA ToldInit == Init => Told
<1> SUFFICES ASSUME Init PROVE Told  OBVIOUS
<1>1. /\ completed = [t \in Task |-> FALSE] /\ ended = [t \in Task |-> 0] /\ notices = <<>>
  BY Zenon DEF Init
<1>2. IsList(notices) /\ Once(notices) /\ \A t \in Task : ~Waits(notices, t)
  BY <1>1, QuietOnes, QuietIsOnce
<1>3. \A t \in Task : ended[t] = 0 /\ ended[t] # 1  BY <1>1
<1>4. DOMAIN completed = Task /\ DOMAIN ended = Task  BY <1>1, Zenon
<1> QED  BY <1>2, <1>3, <1>4, Zenon DEF Told

\* New notices that do not tell completion.
LEMMA QuietKeeps ==
    ASSUME Told, notices # <<>>, NEW new, Quietly(new), Gives(new), ended' = ended,
           DOMAIN completed' = Task, \A t \in Task : completed[t] => completed'[t]
    PROVE  Told'
<1>1. IsList(notices) /\ Once(notices)  BY DEF Told
<1> DEFINE u == Tail(notices)
<1>2. IsList(u) /\ Once(u) /\ \A t \in Task : Waits(u, t) => Waits(notices, t)
  BY <1>1, TailOnce
<1>3. IsList(new) /\ Once(new) /\ \A t \in Task : ~Waits(new, t)  BY QuietIsOnce
<1>4. notices' = new \o u  BY DEF Gives
<1> HIDE DEF u
<1>5. IsList(notices') /\ Once(notices') /\ \A t \in Task : Waits(notices', t) => Waits(notices, t)
  BY <1>2, <1>3, <1>4, JoinedOnce
<1> QED  BY <1>5, Zenon DEF Told

LEMMA CompletedKeeps ==
    ASSUME Told, notices # <<>>, NEW n, ~completed[n.of], NEW v, NEW w, NEW rest, Quietly(rest),
           Gives(<<Event3("progress", n.of, v), Event3("completed", n.of, w)>> \o rest),
           completed' = [completed EXCEPT ![n.of] = TRUE], ended' = ended
    PROVE  Told'
<1> DEFINE a == Event3("progress", n.of, v)
           b == Event3("completed", n.of, w)
           p == <<a, b>>
           new == p \o rest
           u == Tail(notices)
<1>1. IsList(notices) /\ Once(notices)  BY DEF Told
<1>2. IsList(u) /\ Once(u) /\ \A t \in Task : Waits(u, t) => Waits(notices, t)
  BY <1>1, TailOnce
<1>3. IsList(rest) /\ Once(rest) /\ \A t \in Task : ~Waits(rest, t)  BY QuietIsOnce
<1>4. \A t : ~IsEnd(a, t) /\ (IsEnd(b, t) => t = n.of)
  BY SMT DEF IsEnd, Event3
<1>5. notices' = new \o u  BY DEF Gives
<1> HIDE DEF a, b, u
<1>6. IsList(p) /\ DOMAIN p = {1, 2} /\ p[1] = a /\ p[2] = b
  BY PairIs
<1> HIDE DEF p
<1>7. Once(p) /\ \A t \in Task : Waits(p, t) => t = n.of
  <2>1. \A t, i : i \in DOMAIN p /\ IsEnd(p[i], t) => i = 2 /\ t = n.of
    BY <1>4, <1>6, Zenon
  <2>2. Once(p)  BY <2>1, SMT DEF Once
  <2>3. \A t \in Task : Waits(p, t) => t = n.of  BY <2>1, Zenon DEF Waits
  <2> QED  BY <2>2, <2>3
<1>8. IsList(new) /\ Once(new) /\ \A t \in Task : Waits(new, t) => t = n.of
  <2>1. /\ IsList(new) /\ Once(new) /\ \A t \in Task : Waits(new, t) => Waits(p, t) \/ Waits(rest, t)
    BY <1>3, <1>6, <1>7, JoinedOnce
  <2> QED  BY <1>3, <1>7, <2>1, Zenon
<1>9. \A t \in Task : t = n.of => ~Waits(notices, t) /\ ended[t] = 0
  <2>1. 0 # 1  OBVIOUS
  <2> QED  BY <2>1, Zenon DEF Told
<1> HIDE DEF new
<1>10. /\ IsList(notices') /\ Once(notices')
       /\ \A t \in Task : Waits(notices', t) => t = n.of \/ Waits(notices, t)
  <2>1. \A t \in Task : ~(Waits(new, t) /\ Waits(u, t))  BY <1>2, <1>8, <1>9, Zenon
  <2>2. /\ IsList(new \o u) /\ Once(new \o u)
        /\ \A t \in Task : Waits(new \o u, t) => Waits(new, t) \/ Waits(u, t)
    BY <1>2, <1>8, <2>1, JoinedOnce
  <2> QED  BY <1>2, <1>5, <1>8, <2>2
<1>11. DOMAIN completed' = Task /\ \A t \in Task : completed[t] \/ t = n.of => completed'[t]
  BY Zenon DEF Told
<1> QED  BY <1>9, <1>10, <1>11, Zenon DEF Told

LEMMA FireKeeps ==
    ASSUME Told, notices # <<>>, NEW n, n = Head(notices), FireEvent(n)
    PROVE  Told'
<1>1. /\ n.kind = "event" /\ notices' = Tail(notices) /\ completed' = completed
      /\ ended' = IF n.event = "completed" THEN [ended EXCEPT ![n.of] = @ + 1] ELSE ended
  BY Zenon DEF FireEvent, treeVars
<1>2. IsList(notices) /\ Once(notices)  BY DEF Told
<1> DEFINE u == Tail(notices)
<1>3. /\ IsList(u) /\ Once(u) /\ \A t \in Task : Waits(u, t) => Waits(notices, t)
      /\ \A t \in Task : IsEnd(n, t) => Waits(notices, t) /\ ~Waits(u, t)
  BY <1>2, TailOnce
<1>4. notices' = u  BY <1>1
<1> HIDE DEF u
<1>5. CASE n.event = "completed"
  <2>1. ended' = [ended EXCEPT ![n.of] = ended[n.of] + 1]  BY <1>1, <1>5
  <2>2. \A t \in Task : IsEnd(n, t) <=> t = n.of  BY <1>1, <1>5, Zenon DEF IsEnd
  <2>3. DOMAIN ended' = Task /\ \A t \in Task : ended'[t] = IF t = n.of THEN ended[t] + 1 ELSE ended[t]
    BY <2>1, Zenon DEF Told
  <2>4. ASSUME NEW t \in Task, t = n.of
        PROVE  ended'[t] = 1 /\ completed'[t] /\ ~Waits(notices', t)
    <3>1. Waits(notices, t) /\ ~Waits(u, t)  BY <1>3, <2>2, <2>4, Zenon
    <3>2. ended[t] = 0 /\ completed[t]  BY <3>1, Zenon DEF Told
    <3>3. ended'[t] = 0 + 1  BY <2>3, <2>4, <3>2
    <3>4. ended'[t] = 1  BY <3>3, SMT
    <3> QED  BY <1>1, <1>4, <3>1, <3>2, <3>4
  <2>5. ASSUME NEW t \in Task, t # n.of
        PROVE  ended'[t] = ended[t] /\ (Waits(notices', t) => Waits(notices, t))
    BY <1>3, <1>4, <2>3, <2>5, Zenon
  <2>6. ASSUME NEW t \in Task
        PROVE  /\ ended'[t] \in {0, 1}
               /\ ended'[t] = 1 => completed'[t]
               /\ Waits(notices', t) => completed'[t] /\ ended'[t] = 0
    <3>1. CASE t = n.of  BY <2>4, <3>1
    <3>2. CASE t # n.of  BY <1>1, <2>5, <3>2, Zenon DEF Told
    <3> QED  BY <3>1, <3>2
  <2> QED  BY <1>1, <1>3, <1>4, <2>3, <2>6, Zenon DEF Told
<1>6. CASE n.event # "completed"
  <2>1. ended' = ended  BY <1>1, <1>6
  <2> QED  BY <1>1, <1>3, <1>4, <2>1, Zenon DEF Told
<1> QED  BY <1>5, <1>6

LEMMA QuietJoined ==
    ASSUME NEW e \in {"started", "progress", "failed", "lengthyTask"}, NEW k \in Others, NEW t, NEW v
    PROVE  Quietly(<<Event3(e, t, v)>> \o ToParent(k, t))
<1> DEFINE a == <<Event3(e, t, v)>>
           b == ToParent(k, t)
<1>1. Quietly(a) /\ Quietly(b)  BY QuietOnes
<1> HIDE DEF a, b
<1>2. IsList(a) /\ Once(a) /\ IsList(b) /\ Once(b) /\ \A u \in Task : ~Waits(a, u) /\ ~Waits(b, u)
  BY <1>1, QuietIsOnce
<1>3. IsList(a \o b) /\ \A u \in Task : ~Waits(a \o b, u)
  BY <1>2, JoinedOnce
<1> QED  BY <1>3, Zenon DEF Quietly, a, b

LEMMA GiveKeeps ==
    ASSUME Told, Give
    PROVE  Told'
<1> DEFINE n == Head(notices)
<1>1. notices # <<>> /\ (NotifyStarted(n) \/ NotifyUpdate(n) \/ NotifyCompleted(n)
                         \/ NotifyFailed(n) \/ NotifyLengthyTask(n) \/ FireEvent(n))
  BY Zenon DEF Give
<1>2. CASE FireEvent(n)  BY <1>1, <1>2, FireKeeps
<1> HIDE DEF n
<1>3. DOMAIN completed = Task  BY DEF Told
<1>4. Quietly(<<>>)  BY QuietOnes
<1>5. ASSUME NEW new, Quietly(new), Gives(new), ended' = ended, completed' = completed PROVE Told'
  BY <1>1, <1>3, <1>5, QuietKeeps
<1>6. CASE NotifyStarted(n)
  <2> DEFINE new == <<Event3("started", n.of, 0)>> \o ToParent("started", n.of)
  <2>1. ended' = ended /\ completed' = completed /\ (Gives(<<>>) \/ Gives(new))
    BY <1>6, Zenon DEF NotifyStarted
  <2>2. Quietly(new)  BY QuietJoined DEF Others
  <2> HIDE DEF new
  <2> QED  BY <1>4, <1>5, <2>1, <2>2, Zenon
<1>7. CASE NotifyUpdate(n)
  <2> DEFINE v == GetProgress[n.of]
             new == <<Event3("progress", n.of, v)>> \o ToParent("update", n.of)
             one == <<Notice("completed", n.of)>>
  <2>1. ended' = ended /\ completed' = completed /\ (Gives(one) \/ Gives(new))
    BY <1>7, Zenon DEF NotifyUpdate, treeVars
  <2> HIDE DEF v
  <2>2. Quietly(new) /\ Quietly(one)  BY QuietJoined, QuietOnes DEF Others
  <2> HIDE DEF new, one
  <2> QED  BY <1>5, <2>1, <2>2, Zenon
<1>8. CASE NotifyFailed(n)
  <2> DEFINE new == <<Event3("failed", n.of, 0)>> \o ToParent("failed", n.of)
  <2>1. ended' = ended /\ completed' = completed /\ Gives(new)
    BY <1>8, Zenon DEF NotifyFailed, treeVars
  <2>2. Quietly(new)  BY QuietJoined DEF Others
  <2> HIDE DEF new
  <2> QED  BY <1>5, <2>1, <2>2, Zenon
<1>9. CASE NotifyLengthyTask(n)
  <2> DEFINE new == <<Event3("lengthyTask", n.of, 0)>> \o ToParent("lengthy", n.of)
  <2>1. ended' = ended /\ completed' = completed /\ Gives(new)
    BY <1>9, Zenon DEF NotifyLengthyTask, treeVars
  <2>2. Quietly(new)  BY QuietJoined DEF Others
  <2> HIDE DEF new
  <2> QED  BY <1>5, <2>1, <2>2, Zenon
<1>10. CASE NotifyCompleted(n)
  <2> DEFINE rest == ToParent("update", n.of)
  <2>1. /\ ended' = ended
        /\ \/ completed' = completed /\ Gives(<<>>)
           \/ /\ ~completed[n.of] /\ completed' = [completed EXCEPT ![n.of] = TRUE]
              /\ Gives(<<Event3("progress", n.of, Unit), Event3("completed", n.of, Unit)>> \o rest)
    BY <1>10, Zenon DEF NotifyCompleted
  <2>2. Quietly(rest)  BY QuietOnes DEF Others
  <2> HIDE DEF rest
  <2>3. CASE completed' = completed /\ Gives(<<>>)  BY <1>4, <1>5, <2>1, <2>3
  <2>4. CASE /\ ~completed[n.of] /\ completed' = [completed EXCEPT ![n.of] = TRUE]
             /\ Gives(<<Event3("progress", n.of, Unit), Event3("completed", n.of, Unit)>> \o rest)
    BY <1>1, <2>1, <2>2, <2>4, CompletedKeeps
  <2> QED  BY <2>1, <2>3, <2>4
<1> QED  BY <1>1, <1>2, <1>6, <1>7, <1>8, <1>9, <1>10 DEF n

(***************************************************************************)
(* Calls leave notices that tell nothing yet.                              *)
(***************************************************************************)
LEMMA QuietlyLeft ==
    ASSUME Told, Quietly(notices'), DOMAIN completed' = Task, DOMAIN ended' = Task,
           \A t \in Task : ended'[t] = 0 \/ (ended'[t] = ended[t] /\ (completed[t] => completed'[t]))
    PROVE  Told'
<1>1. IsList(notices') /\ Once(notices') /\ \A t \in Task : ~Waits(notices', t)
  BY QuietIsOnce
<1>2. 0 # 1 /\ 0 \in {0, 1}  OBVIOUS
<1>3. \A t \in Task : ended'[t] \in {0, 1} /\ (ended'[t] = 1 => completed'[t])
  BY <1>2, Zenon DEF Told
<1> QED  BY <1>1, <1>3, Zenon DEF Told

LEMMA SaysIs ==
    /\ \A t : Says(t, <<"started", "update">>) => Quietly(notices')
    /\ \A t : Says(t, <<"completed">>) => Quietly(notices')
    /\ \A t : Says(t, <<"lengthy">>) => Quietly(notices')
    /\ \A t : Says(t, <<"started">>) => Quietly(notices')
<1>1. ASSUME NEW t, Says(t, <<"started", "update">>) PROVE Quietly(notices')
  <2>1. notices' = <<Notice("started", t), Notice("update", t)>>
    BY <1>1, SMT DEF Says
  <2> QED  BY <2>1, QuietOnes DEF Others
<1>2. ASSUME NEW t, NEW k \in Others, Says(t, <<k>>) PROVE Quietly(notices')
  <2>1. notices' = <<Notice(k, t)>>  BY <1>2, SMT DEF Says
  <2> QED  BY <2>1, QuietOnes
<1> QED  BY <1>1, <1>2 DEF Others

LEMMA WorkKeeps ==
    ASSUME Told, NEW t \in Task, Work(t)
    PROVE  Told'
<1>1. DOMAIN completed = Task /\ DOMAIN ended = Task /\ Quietly(<<>>)
  BY QuietOnes DEF Told
<1>2. ASSUME Quietly(notices'), completed' = completed, ended' = ended PROVE Told'
  BY <1>1, <1>2, QuietlyLeft
<1>3. CASE Doing(t)
  <2>1. Says(t, <<"started", "update">>) /\ completed' = completed /\ ended' = ended
    BY <1>3, Zenon DEF Doing, treeVars
  <2> QED  BY <1>2, <2>1, SaysIs
<1>4. CASE Complete(t)
  <2>1. Says(t, <<"completed">>) /\ completed' = completed /\ ended' = ended
    BY <1>4, Zenon DEF Complete, treeVars
  <2> QED  BY <1>2, <2>1, SaysIs
<1>5. CASE MarkLengthy(t)
  <2>1. Says(t, <<"lengthy">>) /\ completed' = completed /\ ended' = ended
    BY <1>5, Zenon DEF MarkLengthy, treeVars
  <2> QED  BY <1>2, <2>1, SaysIs
<1>6. CASE Fail(t)
  <2> DEFINE a == <<Notice("failed", t)>>
             b == ToParent("update", t)
  <2>1. notices' = a \o b /\ completed' = [completed EXCEPT ![t] = TRUE] /\ ended' = ended
    BY <1>6, Zenon DEF Fail
  <2>2. Quietly(a) /\ Quietly(b)  BY QuietOnes DEF Others
  <2> HIDE DEF a, b
  <2>3. IsList(a \o b) /\ \A u \in Task : ~Waits(a \o b, u)
    BY <2>2, QuietIsOnce, JoinedOnce
  <2>4. Quietly(notices')  BY <2>1, <2>3, Zenon DEF Quietly
  <2>5. DOMAIN completed' = Task /\ \A u \in Task : completed[u] => completed'[u]
    BY <1>1, <2>1, Zenon
  <2> QED  BY <1>1, <2>1, <2>4, <2>5, QuietlyLeft
<1>7. CASE SetMax(t)
  <2>1. notices = <<>> /\ notices' = notices /\ completed' = completed /\ ended' = ended
    BY <1>7, Zenon DEF SetMax, Works, Turn
  <2> QED  BY <1>1, <1>2, <2>1
<1>8. CASE Done(t)
  <2>1. Says(t, <<"started", "update">>) /\ completed' = completed /\ ended' = ended
    BY <1>8, Zenon DEF Done
  <2> QED  BY <1>2, <2>1, SaysIs
<1>9. CASE \E c \in Task : Begin(t, c)
  <2>1. Says(t, <<"started", "update">>) /\ completed' = completed /\ ended' = ended
    BY <1>9, Zenon DEF Begin
  <2> QED  BY <1>2, <2>1, SaysIs
<1>10. CASE Update(t)
  <2>1. Says(t, <<"started", "update">>) /\ completed' = completed /\ ended' = ended
    BY <1>10, Zenon DEF Update
  <2> QED  BY <1>2, <2>1, SaysIs
<1>11. CASE Restart(t)
  <2> DEFINE ts == Restarted(t)
  <2>1. /\ notices = <<>> /\ notices' = notices
        /\ completed' = [u \in Task |-> completed[u] /\ u \notin ts]
        /\ ended' = [u \in Task |-> IF u \in ts THEN 0 ELSE ended[u]]
    BY <1>11, Zenon DEF Restart, Works, Turn
  <2> HIDE DEF ts
  <2>2. DOMAIN completed' = Task /\ DOMAIN ended' = Task  BY <2>1, Zenon
  <2>3. \A u \in Task : ended'[u] = 0 \/ (ended'[u] = ended[u] /\ (completed[u] => completed'[u]))
    BY <2>1, Zenon
  <2> QED  BY <1>1, <2>1, <2>2, <2>3, QuietlyLeft
<1> QED
  BY <1>3, <1>4, <1>5, <1>6, <1>7, <1>8, <1>9, <1>10, <1>11, Zenon DEF Work

LEMMA ToldStep == Told /\ [Next]_vars => Told'
<1> SUFFICES ASSUME Told, [Next]_vars PROVE Told'  OBVIOUS
<1>1. CASE Give  BY <1>1, GiveKeeps
<1>2. CASE Calls \/ Listens \/ UNCHANGED vars
  <2>1. notices' = notices /\ completed' = completed /\ ended' = ended
    BY <1>2, Zenon DEF Calls, Listens, treeVars, vars
  <2> QED  BY <2>1, Zenon DEF Told, Once, Waits
<1>3. CASE \E t \in Task : Work(t)  BY <1>3, WorkKeeps
<1> QED  BY <1>1, <1>2, <1>3 DEF Next

\* The completion of a task is told once at most between two restarts, in a tree of any
\* shape whose sub-tasks end in any order, whatever listeners do (FiniteTask::doing, done,
\* complete, fail, restart and the _notify functions).
THEOREM ToldOnce == Spec => []CompletedOnce
<1>1. Spec => []Told  BY ToldInit, ToldStep, PTL DEF Spec
<1>2. Told => CompletedOnce
  <2>1. 0 <= 1 /\ 1 <= 1  BY SMT
  <2> QED  BY <2>1, Zenon DEF Told, CompletedOnce
<1> QED  BY <1>1, <1>2, PTL

(***************************************************************************)
(* Completion is told.  What the tree is, and what waits to be given.      *)
(***************************************************************************)
Is(n, kind, t) == n.kind = kind /\ n.of = t
Pending(kind, t) == \E i \in DOMAIN notices : Is(notices[i], kind, t)

\* A finite task's steps are open, done, or sub-tasks of its own.
Steps(t) == {Open, Closed} \cup {u \in Task : parent[u] = t}

Tree ==
    /\ parent \in [Task -> Finite \cup {None}] /\ parent[Root] = None /\ \A t \in Task : parent[t] # t
    /\ started \in [Task -> BOOLEAN] /\ completed \in [Task -> BOOLEAN]
    /\ DOMAIN tasks = Task /\ \A t \in Task : tasks[t] \in Seq(Steps(t))
    /\ taskIndex \in [Task -> Nat]
    /\ IsList(notices)

(***************************************************************************)
(* Each task is deeper than its parent, and no deeper than operations have *)
(* been counted: what recursion goes down ends.                            *)
(***************************************************************************)
Deep ==
    /\ parent \in [Task -> Finite \cup {None}] /\ ops \in Nat /\ ops <= MaxOps
    /\ \A t \in Task : parent[t] # None => InUse(parent[t])
    /\ \E d \in [Task -> Nat] : \A t \in Task : d[t] <= ops /\ (parent[t] # None => d[parent[t]] < d[t])

LEMMA Induct ==
    ASSUME NEW S, 0 \in S, \A m \in Nat : m \in S => m + 1 \in S
    PROVE  \A m \in Nat : m \in S
<1> SUFFICES ASSUME NEW k \in Nat, k \notin S PROVE FALSE  OBVIOUS
<1> DEFINE T == {m \in Nat : m \notin S}
<1>1. T \subseteq Nat /\ T # {}  OBVIOUS
<1>2. PICK m \in T : \A j \in T : <<j, m>> \notin OpToRel(<, Nat)
  <2> HIDE DEF T
  <2> QED  BY <1>1, WFMin, NatLessThanWellFounded, Zenon
<1>3. m \in Nat /\ m \notin S /\ \A j \in Nat : j \notin S => ~(j < m)
  BY <1>2, Zenon DEF OpToRel
<1>4. m # 0  BY <1>3
<1>5. m - 1 \in Nat /\ m - 1 < m /\ (m - 1) + 1 = m  BY <1>3, <1>4, SMT
<1>6. m - 1 \in S  BY <1>3, <1>5, Zenon
<1> QED  BY <1>3, <1>5, <1>6, Zenon

\* What holds of a task when it holds of its sub-tasks holds of all.
LEMMA Upwards ==
    ASSUME Deep, NEW P, \A t \in Task : (\A s \in Task : parent[s] = t => s \in P) => t \in P
    PROVE  \A t \in Task : t \in P
<1>1. PICK d \in [Task -> Nat] : \A t \in Task : d[t] <= ops /\ (parent[t] # None => d[parent[t]] < d[t])
  BY Zenon DEF Deep
<1>2. ops \in Nat /\ ops <= MaxOps /\ MaxOps \in Nat  BY BoundAssumption DEF Deep
<1> DEFINE S == {m \in Nat : \A t \in Task : m + d[t] > MaxOps => t \in P}
<1>3. 0 \in S
  <2>1. \A t \in Task : d[t] <= ops /\ d[t] \in Nat  BY <1>1
  <2>2. \A t \in Task : ~(0 + d[t] > MaxOps)  BY <1>2, <2>1, SMT
  <2> QED  BY <2>2
<1>4. ASSUME NEW m \in Nat, m \in S PROVE m + 1 \in S
  <2> SUFFICES ASSUME NEW t \in Task, m + 1 + d[t] > MaxOps PROVE t \in P  BY SMT
  <2>1. ASSUME NEW s \in Task, parent[s] = t PROVE s \in P
    <3>1. t # None  BY RootAssumption, SMT
    <3>2. d[t] < d[s] /\ d[t] \in Nat /\ d[s] \in Nat  BY <1>1, <2>1, <3>1
    <3>3. m + d[s] > MaxOps  BY <1>2, <3>2, SMT
    <3> QED  BY <1>4, <3>3
  <2> QED  BY <2>1
<1>5. \A m \in Nat : m \in S
  <2> HIDE DEF S
  <2> QED  BY <1>3, <1>4, Induct, Zenon
<1>6. MaxOps + 1 \in S  BY <1>2, <1>5
<1> SUFFICES ASSUME NEW t \in Task PROVE t \in P  OBVIOUS
<1>7. d[t] \in Nat  BY <1>1
<1>8. MaxOps + 1 + d[t] > MaxOps  BY <1>2, <1>7, SMT
<1> QED  BY <1>6, <1>8

LEMMA DeepKeeps ==
    ASSUME Deep, parent' = parent, ops' = ops \/ (ops < MaxOps /\ ops' = ops + 1)
    PROVE  Deep'
<1>1. PICK d \in [Task -> Nat] : \A t \in Task : d[t] <= ops /\ (parent[t] # None => d[parent[t]] < d[t])
  BY Zenon DEF Deep
<1>2. ops \in Nat /\ ops <= MaxOps /\ MaxOps \in Nat  BY BoundAssumption DEF Deep
<1>3. ops' \in Nat /\ ops' <= MaxOps /\ ops <= ops'  BY <1>2, SMT
<1>4. \A t \in Task : d[t] <= ops'
  <2> SUFFICES ASSUME NEW t \in Task PROVE d[t] <= ops'  OBVIOUS
  <2>1. d[t] \in Nat /\ d[t] <= ops  BY <1>1
  <2> QED  BY <1>2, <1>3, <2>1, SMT
<1>5. \E c \in [Task -> Nat] : \A t \in Task : c[t] <= ops' /\ (parent'[t] # None => c[parent'[t]] < c[t])
  BY <1>1, <1>4, Zenon
<1>6. parent \in [Task -> Finite \cup {None}] /\ \A t \in Task : parent[t] # None => InUse(parent[t])
  BY Zenon DEF Deep
<1>7. \A t \in Task : parent'[t] # None => InUse(parent[t])'
  BY <1>6, Zenon DEF InUse
<1> QED  BY <1>3, <1>5, <1>6, <1>7, Zenon DEF Deep, Finite

LEMMA DeepBegin ==
    ASSUME Deep, NEW t \in Task, NEW c \in Task, Begin(t, c)
    PROVE  Deep'
<1>1. /\ t \in Finite /\ InUse(t) /\ ~InUse(c) /\ parent' = [parent EXCEPT ![c] = t]
      /\ ops < MaxOps /\ ops' = ops + 1
  BY Zenon DEF Begin, Works, Turn
<1>2. PICK d \in [Task -> Nat] : \A u \in Task : d[u] <= ops /\ (parent[u] # None => d[parent[u]] < d[u])
  BY Zenon DEF Deep
<1>3. /\ parent \in [Task -> Finite \cup {None}] /\ \A u \in Task : parent[u] # None => InUse(parent[u])
      /\ parent[c] = None /\ c # Root /\ c # t
  BY <1>1, Zenon DEF Deep, InUse
<1>4. ops \in Nat /\ MaxOps \in Nat  BY BoundAssumption DEF Deep
<1>5. parent' \in [Task -> Finite \cup {None}] /\ \A u \in Task : parent'[u] = IF u = c THEN t ELSE parent[u]
  BY <1>1, <1>3
<1> DEFINE e == [d EXCEPT ![c] = ops + 1]
<1>6. e \in [Task -> Nat] /\ \A u \in Task : e[u] = IF u = c THEN ops + 1 ELSE d[u]
  <2>1. ops + 1 \in Nat  BY <1>4, SMT
  <2> QED  BY <2>1
<1> HIDE DEF e
<1>7. ASSUME NEW u \in Task
      PROVE  e[u] <= ops' /\ (parent'[u] # None => e[parent'[u]] < e[u])
  <2>1. d[u] \in Nat /\ d[u] <= ops  BY <1>2
  <2>2. e[u] <= ops'  BY <1>1, <1>4, <1>6, <2>1, SMT
  <2>3. ASSUME parent'[u] # None PROVE e[parent'[u]] < e[u]
    <3>1. CASE u = c
      <4>1. e[t] = d[t] /\ d[t] \in Nat /\ d[t] <= ops /\ e[u] = ops + 1 /\ parent'[u] = t
        BY <1>2, <1>3, <1>5, <1>6, <3>1
      <4> QED  BY <1>4, <4>1, SMT
    <3>2. CASE u # c
      <4>1. parent'[u] = parent[u] /\ parent[u] # None /\ e[u] = d[u]  BY <1>5, <1>6, <2>3, <3>2
      <4>2. parent[u] \in Task  BY <1>3, <4>1 DEF Finite
      <4>3. parent[u] # c  BY <1>1, <1>3, <4>1, Zenon
      <4>4. e[parent[u]] = d[parent[u]]  BY <1>6, <4>2, <4>3
      <4> QED  BY <1>2, <4>1, <4>4
    <3> QED  BY <3>1, <3>2
  <2> QED  BY <2>2, <2>3
<1>8. \A u \in Task : parent'[u] # None => InUse(parent[u])'
  <2> SUFFICES ASSUME NEW u \in Task, parent'[u] # None, parent'[u] # Root PROVE parent'[parent'[u]] # None
    BY Zenon DEF InUse
  <2>1. c # None /\ t # None  BY RootAssumption, SMT
  <2>2. CASE u = c
    <3>1. parent'[u] = t  BY <1>5, <2>2
    <3>2. parent'[t] = parent[t] /\ parent[t] # None  BY <1>1, <1>3, <1>5, <3>1, Zenon DEF InUse
    <3> QED  BY <3>1, <3>2
  <2>3. CASE u # c
    <3>1. parent'[u] = parent[u] /\ parent[u] \in Task  BY <1>3, <1>5, <2>3 DEF Finite
    <3>2. InUse(parent[u])  BY <1>3, <3>1
    <3>3. parent[parent[u]] # None  BY <3>1, <3>2, Zenon DEF InUse
    <3>4. parent[u] # c  BY <1>1, <3>2, Zenon
    <3> QED  BY <1>5, <3>1, <3>3, <3>4, Zenon
  <2> QED  BY <2>2, <2>3
<1>9. ops' \in Nat /\ ops' <= MaxOps  BY <1>1, <1>4, SMT
<1> QED  BY <1>5, <1>6, <1>7, <1>8, <1>9, Zenon DEF Deep, Finite

LEMMA DeepStep == Deep /\ [Next]_vars => Deep'
<1> SUFFICES ASSUME Deep, [Next]_vars PROVE Deep'  OBVIOUS
<1>1. CASE \E t, c \in Task : Begin(t, c)  BY <1>1, DeepBegin
<1>2. CASE ~\E t, c \in Task : Begin(t, c)
  <2>1. CASE Give
    <3>1. ops' = ops  BY <2>1, Zenon DEF Give
    <3>2. parent' = parent
      BY <2>1, Zenon DEF Give, NotifyStarted, NotifyUpdate, NotifyCompleted, NotifyFailed, NotifyLengthyTask, FireEvent, treeVars
    <3> QED  BY <3>1, <3>2, DeepKeeps
  <2>2. CASE Calls \/ Listens \/ UNCHANGED vars
    <3>1. parent' = parent /\ (ops' = ops \/ (ops < MaxOps /\ ops' = ops + 1))
      BY <2>2, Zenon DEF Calls, Listens, treeVars, vars
    <3> QED  BY <3>1, DeepKeeps
  <2>3. CASE \E t \in Task : Work(t)
    <3>1. PICK t \in Task : Work(t)  BY <2>3
    <3>2. parent' = parent
      BY <1>2, <3>1, Zenon DEF Work, Doing, Complete, MarkLengthy, Fail, SetMax, Done, Update, Restart, treeVars
    <3>3. ops < MaxOps /\ ops' = ops + 1
      BY <1>2, <3>1, Zenon DEF Work, Doing, Complete, MarkLengthy, Fail, SetMax, Done, Update, Restart, Works, Turn
    <3> QED  BY <3>2, <3>3, DeepKeeps
  <2> QED  BY <2>1, <2>2, <2>3 DEF Next
<1> QED  BY <1>1, <1>2

LEMMA DeepInit == Init => Deep
<1> SUFFICES ASSUME Init PROVE Deep  OBVIOUS
<1>1. parent = [t \in Task |-> None] /\ ops = 0  BY Zenon DEF Init
<1> DEFINE d == [t \in Task |-> 0]
<1>2. d \in [Task -> Nat] /\ \A t \in Task : d[t] <= ops  BY <1>1, SMT
<1> HIDE DEF d
<1>3. ops \in Nat /\ ops <= MaxOps  BY <1>1, BoundAssumption, SMT
<1>4. parent \in [Task -> Finite \cup {None}] /\ \A t \in Task : parent[t] = None  BY <1>1
<1> QED  BY <1>2, <1>3, <1>4, Zenon DEF Deep

(***************************************************************************)
(* isCompleted.                                                            *)
(***************************************************************************)
\* The body of isCompleted, where f answers for the sub-tasks.
CompletedBy(f, t) ==
    \/ t \in Variable /\ VariableCompleted(t)
    \/ Kind[t] = "boolean" /\ BooleanCompleted(t)
    \/ t \in Finite /\ completed[t]
    \/ t \in Finite /\ started[t] /\ \A s \in Slots(t) : s # Closed => s # Open /\ f[s]

LEMMA SlotsAre ==
    ASSUME Tree, NEW t \in Task
    PROVE  /\ \A i \in DOMAIN tasks[t] : tasks[t][i] \in Slots(t)
           /\ \A s \in Slots(t) : \E i \in DOMAIN tasks[t] : s = tasks[t][i]
           /\ \A s \in Slots(t) : s # Open /\ s # Closed =>
                s \in Task /\ parent[s] = t /\ s # Root /\ s # t
<1>1. /\ \A i \in DOMAIN tasks[t] : tasks[t][i] \in Slots(t)
      /\ \A s \in Slots(t) : \E i \in DOMAIN tasks[t] : s = tasks[t][i]
  BY Zenon DEF Slots, Range
<1> DEFINE w == tasks[t]
           S == Steps(t)
<1>2. w \in Seq(S)  BY Zenon DEF Tree
<1> HIDE DEF w, S
<1>3. \A i \in DOMAIN w : w[i] \in S  BY <1>2, LenProperties, ElementOfSeq, SMT
<1>4. ASSUME NEW s \in Slots(t), s # Open, s # Closed
      PROVE  s \in Task /\ parent[s] = t /\ s # Root /\ s # t
  <2>1. s \in S  BY <1>1, <1>3, <1>4, Zenon DEF w
  <2>2. s \in Task /\ parent[s] = t  BY <1>4, <2>1, Zenon DEF S, Steps
  <2>3. t # None  BY RootAssumption, SMT
  <2>4. s # Root /\ s # t  BY <2>2, <2>3, Zenon DEF Tree
  <2> QED  BY <2>2, <2>4
<1> QED  BY <1>1, <1>4

LEMMA CompletedByAgrees ==
    ASSUME NEW t \in Task, NEW f, NEW g,
           t \in Finite => \A s \in Slots(t) : s # Open /\ s # Closed => f[s] = g[s]
    PROVE  CompletedBy(f, t) = CompletedBy(g, t)
<1>1. CASE t \in Finite
  <2>1. (\A s \in Slots(t) : s # Closed => s # Open /\ f[s]) <=> (\A s \in Slots(t) : s # Closed => s # Open /\ g[s])
    BY <1>1, Zenon
  <2> QED  BY <2>1, Zenon DEF CompletedBy
<1>2. CASE t \notin Finite  BY <1>2, Zenon DEF CompletedBy
<1> QED  BY <1>1, <1>2

LEMMA CompletedUnfolds ==
    ASSUME Tree, Deep
    PROVE  \A t \in Task : IsCompleted[t] = CompletedBy(IsCompleted, t)
<1>1. PICK d \in [Task -> Nat] : \A t \in Task : d[t] <= ops /\ (parent[t] # None => d[parent[t]] < d[t])
  BY Zenon DEF Deep
<1>2. ops \in Nat /\ ops <= MaxOps /\ MaxOps \in Nat  BY BoundAssumption DEF Deep
<1> DEFINE By(g) == [t \in Task |-> CompletedBy(g, t)]
           S == {m \in Nat : \E g : \A t \in Task : m + d[t] > MaxOps => g[t] = By(g)[t]}
<1>3. \A g : \A t \in Task : By(g)[t] = CompletedBy(g, t)  OBVIOUS
<1> HIDE DEF By
<1>4. ASSUME NEW g, NEW h, NEW t \in Task, \A s \in Slots(t) : s # Open /\ s # Closed => g[s] = h[s]
      PROVE  By(g)[t] = By(h)[t]
  <2>1. CompletedBy(g, t) = CompletedBy(h, t)  BY <1>4, CompletedByAgrees
  <2> QED  BY <1>3, <2>1
<1>5. 0 \in S
  <2>1. \A t \in Task : d[t] <= ops /\ d[t] \in Nat  BY <1>1
  <2>2. \A t \in Task : ~(0 + d[t] > MaxOps)  BY <1>2, <2>1, SMT
  <2> QED  BY <2>2
<1>6. ASSUME NEW m \in Nat, m \in S PROVE m + 1 \in S
  <2>1. PICK g : \A t \in Task : m + d[t] > MaxOps => g[t] = By(g)[t]  BY <1>6
  <2>2. ASSUME NEW t \in Task, m + 1 + d[t] > MaxOps PROVE By(g)[t] = By(By(g))[t]
    <3>1. ASSUME NEW s \in Slots(t), s # Open, s # Closed PROVE g[s] = By(g)[s]
      <4>1. s \in Task /\ parent[s] = t /\ t # None  BY <3>1, SlotsAre, RootAssumption
      <4>2. d[t] < d[s] /\ d[t] \in Nat /\ d[s] \in Nat  BY <1>1, <4>1
      <4>3. m + d[s] > MaxOps  BY <1>2, <2>2, <4>2, SMT
      <4> QED  BY <2>1, <4>1, <4>3
    <3> QED  BY <1>4, <3>1, Zenon
  <2>3. \E h : \A t \in Task : m + 1 + d[t] > MaxOps => h[t] = By(h)[t]  BY <2>2, Zenon
  <2>4. m + 1 \in Nat  BY SMT
  <2> QED  BY <2>3, <2>4
<1>7. \A m \in Nat : m \in S
  <2> HIDE DEF S
  <2> QED  BY <1>5, <1>6, Induct, Zenon
<1>8. MaxOps + 1 \in S  BY <1>2, <1>7
<1>9. PICK g : \A t \in Task : g[t] = By(g)[t]
  <2>1. PICK g : \A t \in Task : MaxOps + 1 + d[t] > MaxOps => g[t] = By(g)[t]  BY <1>8
  <2>2. ASSUME NEW t \in Task PROVE MaxOps + 1 + d[t] > MaxOps
    <3>1. d[t] \in Nat  BY <1>1
    <3> QED  BY <1>2, <3>1, SMT
  <2> QED  BY <2>1, <2>2, Zenon
<1>10. By(g) = By(By(g))
  <2>1. ASSUME NEW t \in Task PROVE By(g)[t] = By(By(g))[t]
    <3>1. \A s \in Slots(t) : s # Open /\ s # Closed => g[s] = By(g)[s]  BY <1>9, SlotsAre
    <3> QED  BY <1>4, <3>1, Zenon
  <2>2. \A f : By(f) = [t \in Task |-> By(f)[t]]  BY Zenon DEF By
  <2>3. [t \in Task |-> By(g)[t]] = [t \in Task |-> By(By(g))[t]]  BY <2>1
  <2> QED  BY <2>2, <2>3, Zenon
<1>11. \E f : f = By(f)  BY <1>10, Zenon
<1>12. IsCompleted = CHOOSE f : f = By(f)
  BY Zenon DEF IsCompleted, CompletedBy, By
<1>13. IsCompleted = By(IsCompleted)  BY <1>11, <1>12, Zenon
<1> QED  BY <1>3, <1>13, Zenon

\* A task whose steps are done counts as completed.
LEMMA StepsDoneIs ==
    ASSUME Tree, Deep, NEW t \in Finite, started[t], StepsDone(t)
    PROVE  IsCompleted[t]
<1>1. t \in Task  BY DEF Finite
<1>2. ASSUME NEW s \in Slots(t), s # Closed PROVE s # Open /\ IsCompleted[s]
  <2>1. s # Open /\ completed[s] /\ (s \in Variable => started[s])  BY <1>2, Zenon DEF StepsDone
  <2>2. s \in Task  BY <1>1, <1>2, <2>1, SlotsAre
  <2>3. s \in Variable \/ Kind[s] = "boolean" \/ s \in Finite
    BY <2>2, KindAssumption, SMT DEF Variable, Finite
  <2>4. CompletedBy(IsCompleted, s)
    BY <2>1, <2>3, Zenon DEF CompletedBy, VariableCompleted, BooleanCompleted
  <2> QED  BY <2>1, <2>2, <2>4, CompletedUnfolds
<1>3. CompletedBy(IsCompleted, t)  BY <1>2, Zenon DEF CompletedBy
<1> QED  BY <1>1, <1>3, CompletedUnfolds

(***************************************************************************)
(* The queue: what a notice leaves in its place.                           *)
(***************************************************************************)
In(s, kind, t) == \E i \in DOMAIN s : Is(s[i], kind, t)

LEMMA GivenIs ==
    ASSUME IsList(notices), notices # <<>>, NEW new, IsList(new), Gives(new)
    PROVE  /\ IsList(notices') /\ Len(new) \in Nat
           /\ \A i \in DOMAIN new : i \in DOMAIN notices' /\ notices'[i] = new[i] /\ i <= Len(new)
           /\ \A i \in DOMAIN notices : i \in Nat /\ (i # 1 => i - 1 + Len(new) \in DOMAIN notices' /\ notices'[i - 1 + Len(new)] = notices[i] /\ i > 1)
           /\ \A k \in DOMAIN notices' : \/ k \in DOMAIN new /\ notices'[k] = new[k]
                                         \/ \E i \in DOMAIN notices : i # 1 /\ k = i - 1 + Len(new) /\ notices'[k] = notices[i]
<1> DEFINE u == Tail(notices)
<1>1. /\ Len(notices) \in Nat /\ DOMAIN notices = 1 .. Len(notices) /\ IsList(u) /\ Len(notices) > 0
      /\ Len(u) = Len(notices) - 1 /\ DOMAIN u = 1 .. Len(notices) - 1
      /\ \A i \in DOMAIN u : u[i] = notices[i + 1]
  BY ListIs
<1>2. notices' = new \o u  BY DEF Gives
<1> HIDE DEF u
<1> DEFINE p == notices'
           q == notices
           m == Len(new)
<1>3. /\ IsList(p) /\ DOMAIN p = 1 .. m + Len(u)
      /\ \A i \in 1 .. m + Len(u) : p[i] = IF i <= m THEN new[i] ELSE u[i - m]
  BY <1>1, <1>2, JoinedIs
<1>4. m \in Nat /\ DOMAIN new = 1 .. m  BY ListIs
<1>5. DOMAIN q = 1 .. Len(u) + 1 /\ \A i \in 1 .. Len(u) : u[i] = q[i + 1]
  <2>1. Len(u) + 1 = Len(q) /\ DOMAIN u = 1 .. Len(u)  BY <1>1, SMT
  <2> QED  BY <1>1, <2>1, Zenon
<1>6. Len(u) \in Nat  BY <1>1, SMT
<1> HIDE DEF p, q, m
<1>7. \A i \in DOMAIN new : i \in DOMAIN p /\ p[i] = new[i] /\ i <= m
  BY <1>3, <1>4, <1>6, SMT
<1>8. \A i \in DOMAIN q : i \in Nat /\ (i # 1 => i - 1 + m \in DOMAIN p /\ p[i - 1 + m] = q[i] /\ i > 1)
  <2> SUFFICES ASSUME NEW i \in DOMAIN q
               PROVE  i \in Nat /\ (i # 1 => i - 1 + m \in DOMAIN p /\ p[i - 1 + m] = q[i] /\ i > 1)
    OBVIOUS
  <2>1. i \in Nat /\ (i # 1 => i > 1 /\ i - 1 \in 1 .. Len(u) /\ i - 1 + m \in 1 .. m + Len(u)
                               /\ ~(i - 1 + m <= m) /\ (i - 1 + m) - m = i - 1 /\ (i - 1) + 1 = i)
    BY <1>4, <1>5, <1>6, SMT
  <2>2. ASSUME i # 1 PROVE p[i - 1 + m] = q[i]
    <3>1. p[i - 1 + m] = u[(i - 1 + m) - m]  BY <1>3, <2>1, <2>2, Zenon
    <3>2. u[i - 1] = q[(i - 1) + 1]  BY <1>5, <2>1, <2>2, Zenon
    <3> QED  BY <2>1, <2>2, <3>1, <3>2
  <2> QED  BY <1>3, <2>1, <2>2, Zenon
<1>9. \A k \in DOMAIN p : \/ k \in DOMAIN new /\ p[k] = new[k]
                          \/ \E i \in DOMAIN q : i # 1 /\ k = i - 1 + m /\ p[k] = q[i]
  <2> SUFFICES ASSUME NEW k \in DOMAIN p, k \notin DOMAIN new
               PROVE  \E i \in DOMAIN q : i # 1 /\ k = i - 1 + m /\ p[k] = q[i]
    BY <1>7, Zenon
  <2> DEFINE i == k - m + 1
  <2>1. i \in DOMAIN q /\ i # 1 /\ k = i - 1 + m  BY <1>3, <1>4, <1>5, <1>6, SMT
  <2>2. p[i - 1 + m] = q[i]  BY <1>8, <2>1, Zenon
  <2> HIDE DEF i
  <2> QED  BY <2>1, <2>2, Zenon
<1> QED  BY <1>3, <1>4, <1>7, <1>8, <1>9 DEF p, q, m

\* What still waits once a notice has been given.
LEMMA PendingIs ==
    ASSUME IsList(notices), notices # <<>>, NEW new, IsList(new), Gives(new), NEW kind, NEW t
    PROVE  /\ In(new, kind, t) => Pending(kind, t)'
           /\ Pending(kind, t) /\ ~Is(Head(notices), kind, t) => Pending(kind, t)'
           /\ Pending(kind, t)' => Pending(kind, t) \/ In(new, kind, t)
           /\ Is(Head(notices), kind, t) => Pending(kind, t)
<1> DEFINE p == notices'
           q == notices
           m == Len(new)
<1>1. /\ \A i \in DOMAIN new : i \in DOMAIN p /\ p[i] = new[i]
      /\ \A i \in DOMAIN q : i # 1 => i - 1 + m \in DOMAIN p /\ p[i - 1 + m] = q[i]
      /\ \A k \in DOMAIN p : \/ k \in DOMAIN new /\ p[k] = new[k]
                             \/ \E i \in DOMAIN q : i # 1 /\ k = i - 1 + m /\ p[k] = q[i]
  BY GivenIs
<1>2. Head(q) = q[1] /\ 1 \in DOMAIN q
  <2>1. Len(q) > 0 /\ Len(q) \in Nat /\ DOMAIN q = 1 .. Len(q) /\ Head(q) = q[1]  BY ListIs
  <2> HIDE DEF q
  <2> QED  BY <2>1, SMT
<1>3. Pending(kind, t)' <=> \E i \in DOMAIN p : Is(p[i], kind, t)  BY Zenon DEF Pending, Is
<1>4. Pending(kind, t) <=> \E i \in DOMAIN q : Is(q[i], kind, t)  BY Zenon DEF Pending
<1> HIDE DEF p, q, m
<1>5. In(new, kind, t) => \E i \in DOMAIN p : Is(p[i], kind, t)  BY <1>1, Zenon DEF In
<1>6. (\E i \in DOMAIN q : Is(q[i], kind, t)) /\ ~Is(q[1], kind, t) => \E i \in DOMAIN p : Is(p[i], kind, t)
  BY <1>1, Zenon
<1>7. (\E i \in DOMAIN p : Is(p[i], kind, t)) => (\E i \in DOMAIN q : Is(q[i], kind, t)) \/ In(new, kind, t)
  BY <1>1, Zenon DEF In
<1> QED  BY <1>2, <1>3, <1>4, <1>5, <1>6, <1>7, Zenon DEF q

LEMMA OthersAre == \A k \in {"started", "update", "completed"} : k \in Others
BY SMT DEF Others

LEMMA InOnes ==
    /\ IsList(<<>>) /\ \A l, u : ~In(<<>>, l, u)
    /\ \A k, t : IsList(<<Notice(k, t)>>) /\ \A l, u : In(<<Notice(k, t)>>, l, u) <=> l = k /\ u = t
    /\ \A k, t : IsList(ToParent(k, t)) /\ \A l, u : In(ToParent(k, t), l, u) <=> parent[t] # None /\ l = k /\ u = parent[t]
    /\ \A e, t, v : IsList(<<Event3(e, t, v)>>) /\ \A l \in Others : \A u : ~In(<<Event3(e, t, v)>>, l, u)
<1>1. IsList(<<>>) /\ \A l, u : ~In(<<>>, l, u)  BY PairIs, Zenon DEF In
<1>2. \A n : IsList(<<n>>) /\ \A l, u : In(<<n>>, l, u) <=> Is(n, l, u)
  <2> SUFFICES ASSUME NEW n PROVE IsList(<<n>>) /\ \A l, u : In(<<n>>, l, u) <=> Is(n, l, u)
    OBVIOUS
  <2> DEFINE s == <<n>>
  <2>1. IsList(s) /\ DOMAIN s = {1} /\ s[1] = n  BY PairIs
  <2> HIDE DEF s
  <2>2. \A l, u : In(s, l, u) <=> Is(n, l, u)  BY <2>1, Zenon DEF In
  <2> QED  BY <2>1, <2>2 DEF s
<1>3. \A k, t, l, u : Is(Notice(k, t), l, u) <=> l = k /\ u = t  BY SMT DEF Is, Notice
<1>4. \A e, t, v : \A l \in Others : \A u : ~Is(Event3(e, t, v), l, u)  BY SMT DEF Is, Event3, Others
<1>5. \A k, t : IsList(<<Notice(k, t)>>) /\ \A l, u : In(<<Notice(k, t)>>, l, u) <=> l = k /\ u = t
  <2> SUFFICES ASSUME NEW k, NEW t
               PROVE  IsList(<<Notice(k, t)>>) /\ \A l, u : In(<<Notice(k, t)>>, l, u) <=> l = k /\ u = t
    BY Zenon
  <2> DEFINE n == Notice(k, t)
  <2>1. \A l, u : Is(n, l, u) <=> l = k /\ u = t  BY <1>3
  <2> HIDE DEF n
  <2>2. IsList(<<n>>) /\ \A l, u : In(<<n>>, l, u) <=> Is(n, l, u)  BY <1>2
  <2>3. IsList(<<n>>) /\ \A l, u : In(<<n>>, l, u) <=> l = k /\ u = t  BY <2>1, <2>2, Zenon
  <2> QED  BY <2>3 DEF n
<1>6. \A k, t : IsList(ToParent(k, t)) /\ \A l, u : In(ToParent(k, t), l, u) <=> parent[t] # None /\ l = k /\ u = parent[t]
  <2> SUFFICES ASSUME NEW k, NEW t
               PROVE  IsList(ToParent(k, t)) /\ \A l, u : In(ToParent(k, t), l, u) <=> parent[t] # None /\ l = k /\ u = parent[t]
    OBVIOUS
  <2>1. CASE parent[t] = None
    <3>1. ToParent(k, t) = <<>>  BY <2>1, Zenon DEF ToParent
    <3> QED  BY <1>1, <2>1, <3>1, Zenon
  <2>2. CASE parent[t] # None
    <3> DEFINE w == <<Notice(k, parent[t])>>
    <3>1. ToParent(k, t) = w  BY <2>2, Zenon DEF ToParent
    <3>2. IsList(w) /\ \A l, u : In(w, l, u) <=> l = k /\ u = parent[t]  BY <1>5
    <3> HIDE DEF w
    <3>3. IsList(w) /\ \A l, u : In(w, l, u) <=> parent[t] # None /\ l = k /\ u = parent[t]
      <4>1. parent[t] # None <=> TRUE  BY <2>2
      <4>2. ASSUME NEW l, NEW u PROVE In(w, l, u) <=> parent[t] # None /\ l = k /\ u = parent[t]
        BY <3>2, <4>1
      <4> QED  BY <3>2, <4>2, Zenon
    <3> QED  BY <3>1, <3>3
  <2> QED  BY <2>1, <2>2
<1>7. \A e, t, v : IsList(<<Event3(e, t, v)>>) /\ \A l \in Others : \A u : ~In(<<Event3(e, t, v)>>, l, u)
  BY <1>2, <1>4, Zenon
<1> QED  BY <1>1, <1>5, <1>6, <1>7

LEMMA InJoined ==
    ASSUME NEW a, IsList(a), NEW b, IsList(b)
    PROVE  IsList(a \o b) /\ \A l, u : In(a \o b, l, u) <=> In(a, l, u) \/ In(b, l, u)
<1> DEFINE j == a \o b
           m == Len(a)
           k == Len(b)
<1>1. /\ IsList(j) /\ DOMAIN j = 1 .. m + k
      /\ \A i \in 1 .. m + k : j[i] = IF i <= m THEN a[i] ELSE b[i - m]
  BY JoinedIs
<1>2. m \in Nat /\ DOMAIN a = 1 .. m /\ k \in Nat /\ DOMAIN b = 1 .. k  BY ListIs
<1> HIDE DEF j, m, k
<1>3. \A i \in DOMAIN a : i \in DOMAIN j /\ j[i] = a[i]  BY <1>1, <1>2, SMT
<1>4. \A i \in DOMAIN b : i + m \in DOMAIN j /\ j[i + m] = b[i]
  <2> SUFFICES ASSUME NEW i \in DOMAIN b PROVE i + m \in DOMAIN j /\ j[i + m] = b[i]  OBVIOUS
  <2>1. i + m \in 1 .. m + k /\ ~(i + m <= m) /\ (i + m) - m = i  BY <1>2, SMT
  <2> QED  BY <1>1, <2>1, Zenon
<1>5. \A i \in DOMAIN j : (i \in DOMAIN a /\ j[i] = a[i]) \/ (i - m \in DOMAIN b /\ j[i] = b[i - m])
  <2> SUFFICES ASSUME NEW i \in DOMAIN j
               PROVE  (i \in DOMAIN a /\ j[i] = a[i]) \/ (i - m \in DOMAIN b /\ j[i] = b[i - m])
    OBVIOUS
  <2>1. (i <= m /\ i \in DOMAIN a) \/ (~(i <= m) /\ i - m \in DOMAIN b)  BY <1>1, <1>2, SMT
  <2> QED  BY <1>1, <2>1, Zenon
<1>6. \A l, u : In(j, l, u) <=> In(a, l, u) \/ In(b, l, u)
  BY <1>3, <1>4, <1>5, Zenon DEF In
<1> QED  BY <1>1, <1>6 DEF j

\* An event, or two, and the parent's notice.
LEMMA PassedIs ==
    ASSUME NEW k, NEW t
    PROVE  /\ \A e, v : LET new == <<Event3(e, t, v)>> \o ToParent(k, t)
                        IN IsList(new) /\ \A l \in Others : \A u : In(new, l, u) <=> parent[t] # None /\ l = k /\ u = parent[t]
           /\ \A e, v, f, w : LET new == <<Event3(e, t, v), Event3(f, t, w)>> \o ToParent(k, t)
                        IN IsList(new) /\ \A l \in Others : \A u : In(new, l, u) <=> parent[t] # None /\ l = k /\ u = parent[t]
<1> DEFINE b == ToParent(k, t)
<1>1. IsList(b) /\ \A l, u : In(b, l, u) <=> parent[t] # None /\ l = k /\ u = parent[t]  BY InOnes
<1> HIDE DEF b
<1>2. ASSUME NEW a, IsList(a), \A l \in Others : \A u : ~In(a, l, u)
      PROVE  IsList(a \o b) /\ \A l \in Others : \A u : In(a \o b, l, u) <=> parent[t] # None /\ l = k /\ u = parent[t]
  BY <1>1, <1>2, InJoined, Zenon
<1>3. ASSUME NEW e, NEW v
      PROVE  IsList(<<Event3(e, t, v)>> \o b) /\ \A l \in Others : \A u : In(<<Event3(e, t, v)>> \o b, l, u) <=> parent[t] # None /\ l = k /\ u = parent[t]
  BY <1>2, InOnes, Zenon
<1>4. ASSUME NEW e, NEW v, NEW f, NEW w
      PROVE  /\ IsList(<<Event3(e, t, v), Event3(f, t, w)>> \o b)
             /\ \A l \in Others : \A u : In(<<Event3(e, t, v), Event3(f, t, w)>> \o b, l, u) <=> parent[t] # None /\ l = k /\ u = parent[t]
  <2> DEFINE x == Event3(e, t, v)
             y == Event3(f, t, w)
             a == <<x, y>>
  <2>1. \A l \in Others : \A u : ~Is(x, l, u) /\ ~Is(y, l, u)  BY SMT DEF Is, Event3, Others
  <2> HIDE DEF x, y
  <2>2. IsList(a) /\ DOMAIN a = {1, 2} /\ a[1] = x /\ a[2] = y  BY PairIs
  <2> HIDE DEF a
  <2>3. \A l \in Others : \A u : ~In(a, l, u)  BY <2>1, <2>2, Zenon DEF In
  <2>4. IsList(a \o b) /\ \A l \in Others : \A u : In(a \o b, l, u) <=> parent[t] # None /\ l = k /\ u = parent[t]
    BY <1>2, <2>2, <2>3
  <2> QED  BY <2>4 DEF a, x, y
<1> QED  BY <1>3, <1>4, Zenon DEF b

LEMMA SaidIs ==
    ASSUME NEW t, Says(t, <<"started", "update">>)
    PROVE  /\ IsList(notices') /\ DOMAIN notices' = {1, 2}
           /\ notices'[1] = Notice("started", t) /\ notices'[2] = Notice("update", t)
           /\ In(notices', "started", t) /\ In(notices', "update", t)
           /\ \A i \in DOMAIN notices' : \A u : Is(notices'[i], "started", u) => i = 1 /\ u = t
<1> DEFINE a == Notice("started", t)
           b == Notice("update", t)
           p == notices'
<1>1. p = <<a, b>>  BY SMT DEF Says
<1>2. \A u : (Is(a, "started", u) <=> u = t) /\ (Is(b, "update", u) <=> u = t) /\ ~Is(b, "started", u)
  BY SMT DEF Is, Notice
<1> HIDE DEF a, b, p
<1>3. IsList(p) /\ DOMAIN p = {1, 2} /\ p[1] = a /\ p[2] = b  BY <1>1, PairIs
<1>4. In(p, "started", t) /\ In(p, "update", t)
  <2>1. Is(p[1], "started", t) /\ Is(p[2], "update", t)  BY <1>2, <1>3
  <2> QED  BY <1>3, <2>1, Zenon DEF In
<1>5. \A i \in DOMAIN p : \A u : Is(p[i], "started", u) => i = 1 /\ u = t
  <2> SUFFICES ASSUME NEW i \in DOMAIN p, NEW u, Is(p[i], "started", u) PROVE i = 1 /\ u = t  BY Zenon
  <2>1. i = 1 \/ i = 2  BY <1>3
  <2>2. i # 2  BY <1>2, <1>3
  <2> QED  BY <1>2, <1>3, <2>1, <2>2
<1> QED  BY <1>3, <1>4, <1>5 DEF p, a, b

LEMMA NothingIn == \A k, u : ~In(<<>>, k, u)
BY InOnes

LEMMA NothingPends ==
    ASSUME notices = <<>>
    PROVE  \A k, t : ~Pending(k, t)
BY NothingIn, Zenon DEF Pending, In

LEMMA TailGiven ==
    ASSUME IsList(notices), notices # <<>>, notices' = Tail(notices)
    PROVE  Gives(<<>>)
<1> DEFINE w == Tail(notices)
<1>1. \E S : w \in Seq(S)
  <2>1. IsList(w)  BY ListIs
  <2> QED  BY <2>1 DEF IsList
<1> HIDE DEF w
<1>2. <<>> \o w = w  BY <1>1, ConcatEmptySeq
<1> QED  BY <1>2 DEF Gives, w

\* What an event and the notice to the parent are made of.
LEMMA PassesOn ==
    ASSUME NEW a, IsList(a), NEW k, NEW t
    PROVE  LET new == a \o ToParent(k, t)
           IN /\ IsList(new)
              /\ \A i \in DOMAIN new : (i \in DOMAIN a /\ new[i] = a[i]) \/ (parent[t] # None /\ new[i] = Notice(k, parent[t]))
<1> DEFINE b == ToParent(k, t)
           new == a \o b
<1>1. IsList(b) /\ \A i \in DOMAIN b : parent[t] # None /\ b[i] = Notice(k, parent[t])
  <2>1. CASE parent[t] = None
    <3>1. b = <<>>  BY <2>1, Zenon DEF ToParent
    <3> QED  BY <3>1, PairIs
  <2>2. CASE parent[t] # None
    <3> DEFINE n == Notice(k, parent[t])
               w == <<n>>
    <3>1. b = w  BY <2>2, Zenon DEF ToParent
    <3>2. IsList(w) /\ DOMAIN w = {1} /\ w[1] = n  BY PairIs
    <3> HIDE DEF w, n
    <3>3. \A i \in DOMAIN w : w[i] = n  BY <3>2
    <3> QED  BY <2>2, <3>1, <3>2, <3>3 DEF n
  <2> QED  BY <2>1, <2>2
<1> HIDE DEF b
<1>2. /\ IsList(new) /\ DOMAIN new = 1 .. Len(a) + Len(b)
      /\ \A i \in 1 .. Len(a) + Len(b) : new[i] = IF i <= Len(a) THEN a[i] ELSE b[i - Len(a)]
  BY <1>1, JoinedIs
<1>3. Len(a) \in Nat /\ DOMAIN a = 1 .. Len(a) /\ Len(b) \in Nat /\ DOMAIN b = 1 .. Len(b)  BY <1>1, ListIs
<1> HIDE DEF new
<1>4. ASSUME NEW i \in DOMAIN new
      PROVE  (i \in DOMAIN a /\ new[i] = a[i]) \/ (parent[t] # None /\ new[i] = Notice(k, parent[t]))
  <2>1. CASE i <= Len(a)
    <3>1. i \in DOMAIN a  BY <1>2, <1>3, <2>1, SMT
    <3> QED  BY <1>2, <2>1, <3>1
  <2>2. CASE ~(i <= Len(a))
    <3>1. i - Len(a) \in DOMAIN b  BY <1>2, <1>3, <2>2, SMT
    <3>2. new[i] = b[i - Len(a)]  BY <1>2, <2>2
    <3> QED  BY <1>1, <3>1, <3>2
  <2> QED  BY <2>1, <2>2
<1> QED  BY <1>2, <1>4 DEF new, b

\* A notice that tells progress.
IsProgress(n) == n.kind = "event" /\ n.event = "progress"

LEMMA OneEvent ==
    ASSUME NEW e, NEW t, NEW v, NEW k \in Others
    PROVE  LET new == <<Event3(e, t, v)>> \o ToParent(k, t)
           IN /\ IsList(new)
              /\ \A i \in DOMAIN new : /\ new[i].of = t \/ (parent[t] # None /\ new[i].of = parent[t])
                                       /\ IsProgress(new[i]) => i = 1 /\ e = "progress" /\ new[i].of = t /\ new[i].value = v
<1> DEFINE x == Event3(e, t, v)
           a == <<x>>
           new == a \o ToParent(k, t)
           y == Notice(k, parent[t])
<1>1. x.of = t /\ x.value = v /\ (IsProgress(x) => e = "progress") /\ y.of = parent[t]
  BY SMT DEF Event3, IsProgress, Notice
<1>2. ~IsProgress(y)  BY SMT DEF IsProgress, Notice, Others
<1> HIDE DEF x
<1>3. IsList(a) /\ DOMAIN a = {1} /\ a[1] = x  BY PairIs
<1> HIDE DEF a
<1>4. /\ IsList(new)
      /\ \A i \in DOMAIN new : (i \in DOMAIN a /\ new[i] = a[i]) \/ (parent[t] # None /\ new[i] = y)
  BY <1>3, PassesOn
<1> HIDE DEF new, y
<1>5. ASSUME NEW i \in DOMAIN new
      PROVE  /\ new[i].of = t \/ (parent[t] # None /\ new[i].of = parent[t])
             /\ IsProgress(new[i]) => i = 1 /\ e = "progress" /\ new[i].of = t /\ new[i].value = v
  <2>1. CASE i \in DOMAIN a /\ new[i] = a[i]
    <3>1. i = 1 /\ new[i] = x  BY <1>3, <2>1
    <3> QED  BY <1>1, <3>1
  <2>2. CASE parent[t] # None /\ new[i] = y  BY <1>1, <1>2, <2>2
  <2> QED  BY <1>4, <2>1, <2>2
<1> QED  BY <1>4, <1>5 DEF new, a, x

LEMMA TwoEvents ==
    ASSUME NEW t, NEW v, NEW w, NEW k \in Others
    PROVE  LET new == <<Event3("progress", t, v), Event3("completed", t, w)>> \o ToParent(k, t)
           IN /\ IsList(new)
              /\ \A i \in DOMAIN new : /\ new[i].of = t \/ (parent[t] # None /\ new[i].of = parent[t])
                                       /\ IsProgress(new[i]) => i = 1 /\ new[i].of = t /\ new[i].value = v
<1> DEFINE x == Event3("progress", t, v)
           z == Event3("completed", t, w)
           a == <<x, z>>
           new == a \o ToParent(k, t)
           y == Notice(k, parent[t])
<1>1. x.of = t /\ x.value = v /\ y.of = parent[t] /\ z.of = t
  BY SMT DEF Event3, Notice
<1>2. ~IsProgress(y) /\ ~IsProgress(z)  BY SMT DEF IsProgress, Notice, Others, Event3
<1> HIDE DEF x, z
<1>3. IsList(a) /\ DOMAIN a = {1, 2} /\ a[1] = x /\ a[2] = z  BY PairIs
<1> HIDE DEF a
<1>4. /\ IsList(new)
      /\ \A i \in DOMAIN new : (i \in DOMAIN a /\ new[i] = a[i]) \/ (parent[t] # None /\ new[i] = y)
  BY <1>3, PassesOn
<1> HIDE DEF new, y
<1>5. ASSUME NEW i \in DOMAIN new
      PROVE  /\ new[i].of = t \/ (parent[t] # None /\ new[i].of = parent[t])
             /\ IsProgress(new[i]) => i = 1 /\ new[i].of = t /\ new[i].value = v
  <2>1. CASE i \in DOMAIN a /\ new[i] = a[i]
    <3>1. (i = 1 /\ new[i] = x) \/ (i = 2 /\ new[i] = z)  BY <1>3, <2>1
    <3> QED  BY <1>1, <1>2, <3>1
  <2>2. CASE parent[t] # None /\ new[i] = y  BY <1>1, <1>2, <2>2
  <2> QED  BY <1>4, <2>1, <2>2
<1> QED  BY <1>4, <1>5 DEF new, a, x, z

LEMMA SeqIs ==
    ASSUME NEW S, NEW w \in Seq(S)
    PROVE  Len(w) \in Nat /\ DOMAIN w = 1 .. Len(w) /\ \A i \in DOMAIN w : w[i] \in S
BY LenProperties, ElementOfSeq, SMT

LEMMA StepIs ==
    ASSUME NEW t \in Task, NEW what, Step(t, what), DOMAIN tasks = Task, taskIndex \in [Task -> Nat],
           NEW S, tasks[t] \in Seq(S), what \in S
    PROVE  /\ DOMAIN tasks' = Task /\ taskIndex' \in [Task -> Nat]
           /\ \A u \in Task : u # t => tasks'[u] = tasks[u] /\ taskIndex'[u] = taskIndex[u]
           /\ tasks'[t] \in Seq(S) /\ Len(tasks'[t]) = Len(tasks[t])
           /\ \/ tasks'[t] = tasks[t] /\ taskIndex'[t] = taskIndex[t]
              \/ /\ taskIndex[t] + 1 \in DOMAIN tasks[t] /\ taskIndex'[t] = taskIndex[t] + 1
                 /\ \A i \in DOMAIN tasks[t] : tasks'[t][i] = IF i = taskIndex[t] + 1 THEN what ELSE tasks[t][i]
<1> DEFINE w == tasks[t]
           k == taskIndex[t]
<1>1. Len(w) \in Nat /\ DOMAIN w = 1 .. Len(w) /\ k \in Nat  BY SeqIs
<1>2. CASE k < Len(w)
  <2> DEFINE x == [w EXCEPT ![k + 1] = what]
             y == k + 1
  <2>1. tasks' = [tasks EXCEPT ![t] = x] /\ taskIndex' = [taskIndex EXCEPT ![t] = y]
    BY <1>2, Zenon DEF Step
  <2>2. y \in 1 .. Len(w) /\ y \in Nat  BY <1>1, <1>2, SMT
  <2>3. x \in Seq(S) /\ Len(x) = Len(w) /\ \A i \in 1 .. Len(w) : x[i] = IF i = y THEN what ELSE w[i]
    <3>1. w \in Seq(S)  OBVIOUS
    <3> HIDE DEF w, y
    <3>2. [w EXCEPT ![y] = what] \in Seq(S) /\ Len([w EXCEPT ![y] = what]) = Len(w)
          /\ \A i \in 1 .. Len(w) : [w EXCEPT ![y] = what][i] = IF i = y THEN what ELSE w[i]
      BY <2>2, <3>1, ExceptSeq
    <3> QED  BY <3>2 DEF y
  <2> HIDE DEF x, y
  <2>4. /\ DOMAIN tasks' = Task /\ taskIndex' \in [Task -> Nat] /\ tasks'[t] = x /\ taskIndex'[t] = y
        /\ \A u \in Task : u # t => tasks'[u] = tasks[u] /\ taskIndex'[u] = taskIndex[u]
    BY <2>1, <2>2
  <2> QED  BY <1>1, <2>2, <2>3, <2>4 DEF y
<1>3. CASE ~(k < Len(w))
  <2>1. tasks' = tasks /\ taskIndex' = taskIndex  BY <1>3, Zenon DEF Step
  <2> QED  BY <2>1
<1> QED  BY <1>2, <1>3

LEMMA ResizedIs ==
    ASSUME NEW S, Open \in S, NEW w \in Seq(S), NEW n \in Nat
    PROVE  /\ Resized(w, n) \in Seq(S) /\ Len(Resized(w, n)) = n
           /\ \A i \in 1 .. n : Resized(w, n)[i] = IF i <= Len(w) THEN w[i] ELSE Open
<1>1. Len(w) \in Nat /\ DOMAIN w = 1 .. Len(w) /\ \A i \in DOMAIN w : w[i] \in S  BY SeqIs
<1> DEFINE x == [i \in 1 .. n |-> IF i <= Len(w) THEN w[i] ELSE Open]
<1>2. \A i \in 1 .. n : x[i] = (IF i <= Len(w) THEN w[i] ELSE Open) /\ x[i] \in S
  BY <1>1, SMT
<1>3. x \in [1 .. n -> S]  BY <1>2
<1>4. x \in Seq(S) /\ Len(x) = n  BY <1>3, SMT
<1> QED  BY <1>2, <1>4 DEF Resized

LEMMA ReachIs ==
    ASSUME NEW t \in Task, NEW next, \A v \in Task : next[v] \subseteq Task
    PROVE  /\ t \in Reach(t, next) /\ Reach(t, next) \subseteq Task
           /\ \A v \in Reach(t, next) : next[v] \subseteq Reach(t, next)
           /\ \A S \in SUBSET Task : t \in S /\ (\A v \in S : next[v] \subseteq S) => Reach(t, next) \subseteq S
<1> DEFINE R == Reach(t, next)
<1>1. R = {u \in Task : \A S \in SUBSET Task : t \in S /\ (\A v \in S : next[v] \subseteq S) => u \in S}
  BY DEF Reach
<1> HIDE DEF R
<1>2. R \subseteq Task /\ t \in R
  BY <1>1
<1>3. \A S \in SUBSET Task : t \in S /\ (\A v \in S : next[v] \subseteq S) => R \subseteq S
  BY <1>1
<1>4. ASSUME NEW v \in R, NEW u \in next[v] PROVE u \in R
  <2>1. v \in Task /\ u \in Task  BY <1>2, <1>4
  <2>2. ASSUME NEW S \in SUBSET Task, t \in S, \A x \in S : next[x] \subseteq S PROVE u \in S
    <3>1. v \in S  BY <1>3, <2>2
    <3> QED  BY <1>4, <2>2, <3>1
  <2> QED  BY <1>1, <2>1, <2>2
<1> QED  BY <1>2, <1>3, <1>4 DEF R

\* What is restarted with a task.
LEMMA RestartedIs ==
    ASSUME NEW t \in Task
    PROVE  /\ t \in Restarted(t) /\ Restarted(t) \subseteq Task
           /\ \A v \in Restarted(t) : v \in Finite => \A s \in Slots(v) : s \in Task => s \in Restarted(t)
           /\ t \notin Finite => Restarted(t) = {t}
<1> DEFINE next == [v \in Task |-> IF v \in Finite THEN Slots(v) \cap Task ELSE {}]
           R == Reach(t, next)
<1>1. Restarted(t) = R  BY DEF Restarted
<1>2. \A v \in Task : next[v] = (IF v \in Finite THEN Slots(v) \cap Task ELSE {}) /\ next[v] \subseteq Task  OBVIOUS
<1> HIDE DEF next
<1>3. /\ t \in R /\ R \subseteq Task /\ \A v \in R : next[v] \subseteq R
      /\ \A S \in SUBSET Task : t \in S /\ (\A v \in S : next[v] \subseteq S) => R \subseteq S
  BY <1>2, ReachIs
<1> HIDE DEF R
<1>4. ASSUME NEW v \in R, v \in Finite, NEW s \in Slots(v), s \in Task PROVE s \in R
  BY <1>2, <1>3, <1>4
<1>5. ASSUME t \notin Finite PROVE R = {t}
  <2>1. next[t] = {}  BY <1>2, <1>5
  <2>2. R \subseteq {t}  BY <1>3, <2>1
  <2> QED  BY <1>3, <2>2
<1> QED  BY <1>1, <1>3, <1>4, <1>5

\* What restart() leaves of the tree.
LEMMA RestartIs ==
    ASSUME Tree, NEW t \in Task, Restart(t)
    PROVE  LET ts == Restarted(t)
           IN /\ notices = <<>> /\ notices' = notices /\ parent' = parent /\ t \in ts
              /\ t = Root \/ (t \in Variable /\ ts = {t} /\ retired' = retired)
              /\ t = Root => retired' = {u \in Task : parent[u] # None}
              /\ started' \in [Task -> BOOLEAN] /\ completed' \in [Task -> BOOLEAN] /\ taskIndex' \in [Task -> Nat]
              /\ \A u \in Task : /\ started'[u] <=> started[u] /\ (u \in ts => ~completed[u])
                                 /\ completed'[u] <=> completed[u] /\ u \notin ts
                                 /\ taskIndex'[u] = IF u \in ts THEN 0 ELSE taskIndex[u]
              /\ DOMAIN tasks' = Task /\ \A u \in Task : tasks'[u] \in Seq(Steps(u))
              /\ \A u \in Task : u \notin ts => tasks'[u] = tasks[u]
              /\ \A u \in Task : u \in ts /\ u # Root =>
                    /\ DOMAIN tasks'[u] = DOMAIN tasks[u]
                    /\ \A i \in DOMAIN tasks[u] : tasks'[u][i] = IF tasks[u][i] = Closed THEN Open ELSE tasks[u][i]
              /\ t = Root => /\ DOMAIN tasks'[t] = 1 .. Len(tasks'[t]) /\ Len(tasks'[t]) \in Nat
                             /\ \A i \in DOMAIN tasks'[t] :
                                  tasks'[t][i] = IF i \in DOMAIN tasks[t] /\ tasks[t][i] # Closed THEN tasks[t][i] ELSE Open
<1> DEFINE ts == Restarted(t)
           reset(u) == [i \in DOMAIN tasks[u] |-> IF tasks[u][i] = Closed THEN Open ELSE tasks[u][i]]
<1>1. /\ notices = <<>> /\ notices' = notices /\ parent' = parent /\ (t = Root \/ t \in Variable)
      /\ started' = [u \in Task |-> IF u \in ts THEN StartedAfter(u) ELSE started[u]]
      /\ completed' = [u \in Task |-> completed[u] /\ u \notin ts]
      /\ taskIndex' = [u \in Task |-> IF u \in ts THEN 0 ELSE taskIndex[u]]
      /\ retired' = IF t = Root THEN {u \in Task : parent[u] # None} ELSE retired
      /\ \E n \in 0 .. MaxSlots :
            tasks' = [u \in Task |-> IF u = Root /\ u = t THEN Resized(reset(u), n)
                                     ELSE IF u \in ts THEN reset(u) ELSE tasks[u]]
  BY Zenon DEF Restart, Works, Turn
<1>2. PICK n : n \in 0 .. MaxSlots /\ tasks' = [u \in Task |-> IF u = Root /\ u = t THEN Resized(reset(u), n)
                                                         ELSE IF u \in ts THEN reset(u) ELSE tasks[u]]
  BY <1>1
<1>3. n \in Nat  BY <1>2, BoundAssumption, SMT
<1>4. t \in ts /\ (t \notin Finite => ts = {t})
  BY RestartedIs
<1>5. ASSUME NEW u \in Task
      PROVE  /\ reset(u) \in Seq(Steps(u)) /\ DOMAIN reset(u) = DOMAIN tasks[u]
             /\ DOMAIN tasks[u] = 1 .. Len(tasks[u]) /\ Len(reset(u)) = Len(tasks[u]) /\ Len(tasks[u]) \in Nat
             /\ \A i \in DOMAIN tasks[u] : reset(u)[i] = IF tasks[u][i] = Closed THEN Open ELSE tasks[u][i]
  <2> DEFINE w == tasks[u]
             S == Steps(u)
             x == [i \in DOMAIN w |-> IF w[i] = Closed THEN Open ELSE w[i]]
  <2>1. w \in Seq(S) /\ Open \in S  BY Zenon DEF Tree, Steps
  <2> HIDE DEF w, S
  <2>2. Len(w) \in Nat /\ DOMAIN w = 1 .. Len(w) /\ \A i \in DOMAIN w : w[i] \in S  BY <2>1, SeqIs
  <2>3. x \in [1 .. Len(w) -> S]  BY <2>1, <2>2
  <2>4. x \in Seq(S) /\ Len(x) = Len(w)  BY <2>2, <2>3, SMT
  <2> QED  BY <2>2, <2>4 DEF w, S
<1>6. started \in [Task -> BOOLEAN] /\ completed \in [Task -> BOOLEAN] /\ taskIndex \in [Task -> Nat]
  BY Zenon DEF Tree
<1>7. t = Root \/ (t \in Variable /\ ts = {t} /\ retired' = retired)
  <2>1. t \in Variable => t \notin Finite  BY SMT DEF Variable, Finite
  <2> QED  BY <1>1, <1>4, <2>1
<1> HIDE DEF ts, reset
<1>8. /\ started' \in [Task -> BOOLEAN] /\ completed' \in [Task -> BOOLEAN] /\ taskIndex' \in [Task -> Nat]
      /\ \A u \in Task : /\ started'[u] <=> started[u] /\ (u \in ts => ~completed[u])
                         /\ completed'[u] <=> completed[u] /\ u \notin ts
                         /\ taskIndex'[u] = IF u \in ts THEN 0 ELSE taskIndex[u]
  <2>1. ASSUME NEW u \in Task
        PROVE  /\ started'[u] \in BOOLEAN /\ completed'[u] \in BOOLEAN /\ taskIndex'[u] \in Nat
               /\ started'[u] <=> started[u] /\ (u \in ts => ~completed[u])
               /\ completed'[u] <=> completed[u] /\ u \notin ts
               /\ taskIndex'[u] = IF u \in ts THEN 0 ELSE taskIndex[u]
    <3>1. started'[u] = (IF u \in ts THEN StartedAfter(u) ELSE started[u]) /\ completed'[u] = (completed[u] /\ u \notin ts)
      BY <1>1, Zenon
    <3>2. started[u] \in BOOLEAN /\ completed[u] \in BOOLEAN /\ taskIndex[u] \in Nat  BY <1>6
    <3>3. taskIndex'[u] = IF u \in ts THEN 0 ELSE taskIndex[u]  BY <1>1, Zenon
    <3>4. taskIndex'[u] \in Nat  BY <3>2, <3>3
    <3>5. CASE u \in ts
      <4>1. started'[u] = (started[u] /\ ~completed[u])  BY <3>1, <3>5, Zenon DEF StartedAfter
      <4> QED  BY <3>1, <3>2, <3>3, <3>4, <3>5, <4>1, Zenon
    <3>6. CASE u \notin ts
      <4>1. started'[u] = started[u]  BY <3>1, <3>6, Zenon
      <4> QED  BY <3>1, <3>2, <3>3, <3>4, <3>6, <4>1, Zenon
    <3> QED  BY <3>5, <3>6
  <2>2. /\ started' = [u \in Task |-> started'[u]] /\ completed' = [u \in Task |-> completed'[u]]
        /\ taskIndex' = [u \in Task |-> taskIndex'[u]]
    BY <1>1, Zenon
  <2>3. started' \in [Task -> BOOLEAN] /\ completed' \in [Task -> BOOLEAN] /\ taskIndex' \in [Task -> Nat]
    BY <2>1, <2>2, Zenon
  <2> QED  BY <2>1, <2>3, Zenon
<1>9. /\ DOMAIN tasks' = Task
      /\ \A u \in Task : u # Root \/ u # t => tasks'[u] = IF u \in ts THEN reset(u) ELSE tasks[u]
      /\ t = Root => tasks'[t] = Resized(reset(t), n)
  BY <1>2, Zenon
<1>10. ASSUME t = Root
       PROVE  /\ tasks'[t] \in Seq(Steps(t))
              /\ DOMAIN tasks'[t] = 1 .. Len(tasks'[t]) /\ Len(tasks'[t]) \in Nat
              /\ \A i \in DOMAIN tasks'[t] :
                    tasks'[t][i] = IF i \in DOMAIN tasks[t] /\ tasks[t][i] # Closed THEN tasks[t][i] ELSE Open
  <2> DEFINE x == Resized(reset(t), n)
             w == reset(t)
  <2>1. tasks'[t] = x  BY <1>9, <1>10
  <2>2. w \in Seq(Steps(t)) /\ Open \in Steps(t)  BY <1>5, Zenon DEF Steps
  <2>3. x \in Seq(Steps(t)) /\ Len(x) = n /\ \A i \in 1 .. n : x[i] = IF i <= Len(w) THEN w[i] ELSE Open
    BY <1>3, <2>2, ResizedIs
  <2>4. DOMAIN x = 1 .. n  BY <2>3, SeqIs
  <2>5. /\ DOMAIN tasks[t] = 1 .. Len(tasks[t]) /\ Len(w) = Len(tasks[t]) /\ Len(tasks[t]) \in Nat
        /\ \A i \in DOMAIN tasks[t] : w[i] = IF tasks[t][i] = Closed THEN Open ELSE tasks[t][i]
    BY <1>5
  <2> HIDE DEF x, w
  <2>6. ASSUME NEW i \in 1 .. n
        PROVE  x[i] = IF i \in DOMAIN tasks[t] /\ tasks[t][i] # Closed THEN tasks[t][i] ELSE Open
    <3>1. i <= Len(w) <=> i \in DOMAIN tasks[t]  BY <1>3, <2>5, <2>6, SMT
    <3> QED  BY <2>3, <2>5, <3>1
  <2> QED  BY <1>3, <2>1, <2>3, <2>4, <2>6
<1>11. \A u \in Task : tasks'[u] \in Seq(Steps(u))
  <2> SUFFICES ASSUME NEW u \in Task PROVE tasks'[u] \in Seq(Steps(u))  OBVIOUS
  <2>1. CASE u = Root /\ u = t  BY <1>10, <2>1
  <2>2. CASE u # Root \/ u # t  BY <1>5, <1>9, <2>2, Zenon DEF Tree
  <2> QED  BY <2>1, <2>2
<1>12. \A u \in Task : u \notin ts => tasks'[u] = tasks[u]  BY <1>4, <1>9, Zenon
<1>13. \A u \in Task : u \in ts /\ u # Root =>
          /\ DOMAIN tasks'[u] = DOMAIN tasks[u]
          /\ \A i \in DOMAIN tasks[u] : tasks'[u][i] = IF tasks[u][i] = Closed THEN Open ELSE tasks[u][i]
  <2> SUFFICES ASSUME NEW u \in Task, u \in ts, u # Root
               PROVE  /\ DOMAIN tasks'[u] = DOMAIN tasks[u]
                      /\ \A i \in DOMAIN tasks[u] : tasks'[u][i] = IF tasks[u][i] = Closed THEN Open ELSE tasks[u][i]
    OBVIOUS
  <2>1. tasks'[u] = reset(u)  BY <1>9
  <2> QED  BY <1>5, <2>1
<1> QED  BY <1>1, <1>4, <1>7, <1>8, <1>9, <1>10, <1>11, <1>12, <1>13 DEF ts

\* The tasks above and below one.
LEMMA FamilyIs ==
    ASSUME Tree, NEW t \in Task
    PROVE  /\ Restarted(t) \subseteq Family(t) /\ Family(t) \subseteq Task
           /\ \A u \in Restarted(t) : u = t \/ parent[u] # None
           /\ \A s \in Family(t) : parent[s] # None => parent[s] \in Family(t)
<1> DEFINE next == [v \in Task |-> IF v \in Finite THEN Slots(v) \cap Task ELSE {}]
           up   == [v \in Task |-> {parent[v]} \ {None}]
           A(u) == Reach(u, up)
<1>1. parent \in [Task -> Finite \cup {None}] /\ None \notin Task  BY RootAssumption, Zenon DEF Tree
<1>2. /\ Restarted(t) = Reach(t, next) /\ \A u : Ancestors(u) = A(u)  BY DEF Restarted, Ancestors
<1>3. \A v \in Task : next[v] = (IF v \in Finite THEN Slots(v) \cap Task ELSE {}) /\ next[v] \subseteq Task  OBVIOUS
<1>4. \A v \in Task : up[v] = {parent[v]} \ {None} /\ up[v] \subseteq Task  BY <1>1 DEF Finite
<1> HIDE DEF next, up
<1>5. \A S \in SUBSET Task : t \in S /\ (\A v \in S : next[v] \subseteq S) => Restarted(t) \subseteq S
  <2>1. \A v \in Task : next[v] \subseteq Task  BY <1>3
  <2> DEFINE R == Reach(t, next)
  <2>2. \A S \in SUBSET Task : t \in S /\ (\A v \in S : next[v] \subseteq S) => R \subseteq S  BY <2>1, ReachIs
  <2>3. Restarted(t) = R  BY <1>2
  <2> HIDE DEF R
  <2> QED  BY <2>2, <2>3
<1>6. \A u \in Task : /\ u \in A(u) /\ A(u) \subseteq Task /\ (\A v \in A(u) : up[v] \subseteq A(u))
                      /\ \A S \in SUBSET Task : u \in S /\ (\A v \in S : up[v] \subseteq S) => A(u) \subseteq S
  <2> SUFFICES ASSUME NEW u \in Task
               PROVE  /\ u \in A(u) /\ A(u) \subseteq Task /\ (\A v \in A(u) : up[v] \subseteq A(u))
                      /\ \A S \in SUBSET Task : u \in S /\ (\A v \in S : up[v] \subseteq S) => A(u) \subseteq S
    OBVIOUS
  <2>1. \A v \in Task : up[v] \subseteq Task  BY <1>4
  <2> QED  BY <2>1, ReachIs
<1> HIDE DEF A
<1>7. ASSUME NEW s \in Task, parent[s] # None
      PROVE  /\ parent[s] \in Task /\ A(parent[s]) \subseteq A(s) /\ A(s) \subseteq {s} \cup A(parent[s])
  <2>1. up[s] = {parent[s]} /\ parent[s] \in Task  BY <1>4, <1>7
  <2>2. parent[s] \in A(s) /\ A(s) \in SUBSET Task /\ A(parent[s]) \in SUBSET Task  BY <1>6, <2>1
  <2>3. A(parent[s]) \subseteq A(s)  BY <1>6, <2>1, <2>2
  <2> DEFINE S == {s} \cup A(parent[s])
  <2>4. S \in SUBSET Task /\ s \in S /\ \A v \in S : up[v] \subseteq S
    <3>1. parent[s] \in A(parent[s]) /\ \A v \in A(parent[s]) : up[v] \subseteq A(parent[s])  BY <1>6, <2>1
    <3> QED  BY <2>1, <2>2, <3>1
  <2>5. A(s) \subseteq S
    <3> HIDE DEF S
    <3> QED  BY <1>6, <2>4
  <2> QED  BY <2>1, <2>3, <2>5
<1>8. \A v \in Task : \A s \in next[v] : s \in Task /\ parent[s] = v /\ v # None
  <2> SUFFICES ASSUME NEW v \in Task, NEW s \in next[v] PROVE s \in Task /\ parent[s] = v /\ v # None  OBVIOUS
  <2>1. s \in Slots(v) /\ s \in Task  BY <1>3
  <2>2. s # Open /\ s # Closed  BY <2>1, RootAssumption
  <2> QED  BY <1>1, <2>1, <2>2, SlotsAre
<1>9. \A u \in Task : u \in Family(t) <=> u \in A(t) \/ t \in A(u)  BY <1>2 DEF Family
<1>10. Restarted(t) \subseteq Family(t)
  <2> DEFINE S == {u \in Task : t \in A(u)}
  <2>1. t \in S  BY <1>6
  <2>2. ASSUME NEW v \in S, NEW s \in next[v] PROVE s \in S
    <3>1. s \in Task /\ parent[s] = v /\ parent[s] # None  BY <1>8, <2>2
    <3> QED  BY <1>7, <2>2, <3>1
  <2>3. S \in SUBSET Task /\ \A u \in S : u \in Family(t)  BY <1>9
  <2> HIDE DEF S
  <2>4. Restarted(t) \subseteq S  BY <1>5, <2>1, <2>2, <2>3
  <2> QED  BY <2>3, <2>4
<1>11. \A u \in Restarted(t) : u = t \/ parent[u] # None
  <2> DEFINE S == {u \in Task : u = t \/ parent[u] # None}
  <2>1. S \in SUBSET Task /\ t \in S /\ \A v \in S : next[v] \subseteq S  BY <1>8
  <2>2. \A u \in S : u = t \/ parent[u] # None  OBVIOUS
  <2> HIDE DEF S
  <2>3. Restarted(t) \subseteq S  BY <1>5, <2>1
  <2> QED  BY <2>2, <2>3
<1>12. ASSUME NEW s \in Family(t), parent[s] # None PROVE parent[s] \in Family(t)
  <2>1. s \in Task  BY DEF Family
  <2>2. parent[s] \in Task /\ A(s) \subseteq {s} \cup A(parent[s])  BY <1>7, <1>12, <2>1
  <2>3. CASE s \in A(t)
    <3>1. up[s] \subseteq A(t) /\ up[s] = {parent[s]}  BY <1>4, <1>6, <1>12, <2>1, <2>3
    <3> QED  BY <1>9, <2>2, <3>1
  <2>4. CASE t \in A(s)
    <3>1. CASE t = s
      <4>1. t \in A(t)  BY <1>6
      <4> QED  BY <2>3, <3>1, <4>1
    <3>2. CASE t # s  BY <1>9, <2>2, <2>4, <3>2
    <3> QED  BY <3>1, <3>2
  <2> QED  BY <1>9, <2>1, <2>3, <2>4
<1>13. Family(t) \subseteq Task  BY DEF Family
<1> QED  BY <1>10, <1>11, <1>12, <1>13

(***************************************************************************)
(* What holds of a tree at any time, also while a sub-task of an earlier   *)
(* path is worked on.                                                      *)
(***************************************************************************)
\* A download never gets beyond its end.
Counted ==
    /\ max \in [Task -> Nat] /\ current \in [Task -> Nat] /\ \A t \in Task : current[t] <= max[t]
    /\ retired \subseteq Task

\* The sub-tasks of earlier paths keep their parents.
Left == \A t \in retired : t \in Task /\ parent[t] # None

\* Only a task in use starts, has steps, shows progress and is notified.
Used ==
    /\ DOMAIN shown = Task
    /\ \A t \in Task : ~InUse(t) => ~started[t] /\ tasks[t] = <<>> /\ shown[t] = 0
    /\ \A i \in DOMAIN notices : notices[i].of \in Task /\ InUse(notices[i].of)

\* A download starts before anything else is told, and has not ended then.
LoadsFirst == \A t \in Variable : \A i \in DOMAIN notices : Is(notices[i], "started", t) => i = 1 /\ ~completed[t]

\* A download that runs before its size is known: its progress is infinite.
Bad(v) == v \in Variable /\ started[v] /\ ~completed[v] /\ max[v] = 0

\* While a download runs whose size is not known, its own update is all that waits.
Sizeless ==
    \A v \in Variable : Bad(v) \/ Pending("started", v) =>
        /\ Pending("update", v) \/ Pending("completed", v)
        /\ \A u \in Task : Pending("update", u) \/ Pending("completed", u) => u = v

Ground  == Counted /\ Left /\ Used /\ LoadsFirst /\ Sizeless
BaseInv == Told /\ Tree /\ Deep /\ Ground

\* What a step leaves of the tree.
LEMMA TreeKeeps ==
    ASSUME Tree, parent' = parent, DOMAIN tasks' = Task, \A t \in Task : tasks'[t] \in Seq(Steps(t)),
           taskIndex' \in [Task -> Nat], IsList(notices'),
           started' \in [Task -> BOOLEAN], completed' \in [Task -> BOOLEAN]
    PROVE  Tree'
<1>1. parent \in [Task -> Finite \cup {None}] /\ parent[Root] = None /\ \A t \in Task : parent[t] # t
  BY Zenon DEF Tree
<1>2. \A t \in Task : Steps(t)' = Steps(t)  BY Zenon DEF Steps
<1> QED  BY <1>1, <1>2, Zenon DEF Tree, Finite

LEMMA TreeSame ==
    ASSUME Tree, parent' = parent, tasks' = tasks, taskIndex' = taskIndex, IsList(notices'),
           started' \in [Task -> BOOLEAN], completed' \in [Task -> BOOLEAN]
    PROVE  Tree'
<1>1. DOMAIN tasks = Task /\ taskIndex \in [Task -> Nat] /\ \A t \in Task : tasks[t] \in Seq(Steps(t))
  BY Zenon DEF Tree
<1> QED  BY <1>1, TreeKeeps, Zenon

LEMMA TreeDone ==
    ASSUME Tree, IsList(notices'), NEW t \in Task, Done(t)
    PROVE  Tree'
<1>1. Step(t, Closed) /\ parent' = parent /\ started' = started /\ completed' = completed
  BY Zenon DEF Done
<1>2. DOMAIN tasks = Task /\ taskIndex \in [Task -> Nat] /\ tasks[t] \in Seq(Steps(t)) /\ Closed \in Steps(t)
  BY Zenon DEF Tree, Steps
<1>3. /\ DOMAIN tasks' = Task /\ taskIndex' \in [Task -> Nat] /\ tasks'[t] \in Seq(Steps(t))
      /\ \A u \in Task : u # t => tasks'[u] = tasks[u]
  BY <1>1, <1>2, StepIs
<1>4. \A u \in Task : tasks'[u] \in Seq(Steps(u))  BY <1>3, Zenon DEF Tree
<1>5. started \in [Task -> BOOLEAN] /\ completed \in [Task -> BOOLEAN]  BY Zenon DEF Tree
<1> QED  BY <1>1, <1>3, <1>4, <1>5, TreeKeeps, Zenon

LEMMA TreeSetMax ==
    ASSUME Tree, IsList(notices'), NEW t \in Task, SetMax(t)
    PROVE  Tree'
<1>1. parent' = parent /\ started' = started /\ completed' = completed /\ taskIndex' = taskIndex
  BY Zenon DEF SetMax
<1>2. PICK n : n \in 1 .. MaxSlots /\ tasks' = [tasks EXCEPT ![t] = Resized(tasks[t], n)]
  BY Zenon DEF SetMax
<1>3. n \in Nat  BY <1>2, BoundAssumption, SMT
<1>4. DOMAIN tasks = Task /\ tasks[t] \in Seq(Steps(t)) /\ Open \in Steps(t)  BY Zenon DEF Tree, Steps
<1>5. Resized(tasks[t], n) \in Seq(Steps(t))  BY <1>3, <1>4, ResizedIs
<1>6. DOMAIN tasks' = Task /\ tasks'[t] \in Seq(Steps(t)) /\ \A u \in Task : u # t => tasks'[u] = tasks[u]
  BY <1>2, <1>4, <1>5
<1>7. \A u \in Task : tasks'[u] \in Seq(Steps(u))  BY <1>6, Zenon DEF Tree
<1>8. started \in [Task -> BOOLEAN] /\ completed \in [Task -> BOOLEAN] /\ taskIndex \in [Task -> Nat]  BY Zenon DEF Tree
<1> QED  BY <1>1, <1>6, <1>7, <1>8, TreeKeeps, Zenon

LEMMA TreeBegin ==
    ASSUME Tree, IsList(notices'), NEW t \in Task, NEW c \in Task, Begin(t, c)
    PROVE  Tree'
<1>1. /\ t \in Finite /\ Step(t, c) /\ parent' = [parent EXCEPT ![c] = t] /\ InUse(t) /\ ~InUse(c)
      /\ started' = started /\ completed' = completed
  BY Zenon DEF Begin, Works, Turn
<1>2. Tree  OBVIOUS
<1>3. parent[c] = None /\ c # Root /\ c # t  BY <1>1, Zenon DEF InUse
<1>4. \A u \in Task : parent'[u] = IF u = c THEN t ELSE parent[u]
  <2>1. parent \in [Task -> Finite \cup {None}]  BY <1>2, Zenon DEF Tree
  <2> QED  BY <1>1, <2>1
<1>5. \A u \in Task : Steps(u) \subseteq Steps(u)' /\ (u # t => Steps(u)' = Steps(u)) /\ c \in Steps(t)'
  <2>1. \A u \in Task : u # None  BY RootAssumption, SMT
  <2>2. \A u, x \in Task : parent[x] = u => parent'[x] = u  BY <1>3, <1>4, <2>1, Zenon
  <2>3. \A u, x \in Task : u # t /\ parent'[x] = u => parent[x] = u  BY <1>4, Zenon
  <2>4. parent'[c] = t  BY <1>4
  <2>5. \A u : Steps(u)' = {Open, Closed} \cup {x \in Task : parent'[x] = u}  BY Zenon DEF Steps
  <2>6. \A u : Steps(u) = {Open, Closed} \cup {x \in Task : parent[x] = u}  BY Zenon DEF Steps
  <2>7. \A u \in Task : Steps(u) \subseteq Steps(u)'  BY <2>2, <2>5, <2>6, Zenon
  <2>8. \A u \in Task : u # t => Steps(u)' = Steps(u)
    <3> SUFFICES ASSUME NEW u \in Task, u # t PROVE Steps(u)' = Steps(u)  OBVIOUS
    <3>1. {x \in Task : parent'[x] = u} = {x \in Task : parent[x] = u}  BY <2>2, <2>3
    <3> QED  BY <2>5, <2>6, <3>1
  <2>9. c \in Steps(t)'  BY <2>4, <2>5
  <2> QED  BY <2>7, <2>8, <2>9
<1>6. /\ DOMAIN tasks' = Task /\ taskIndex' \in [Task -> Nat] /\ tasks'[t] \in Seq(Steps(t)')
      /\ \A u \in Task : u # t => tasks'[u] = tasks[u]
  <2> DEFINE S == Steps(t)'
  <2>1. DOMAIN tasks = Task /\ taskIndex \in [Task -> Nat] /\ tasks[t] \in Seq(Steps(t))  BY <1>2, Zenon DEF Tree
  <2>2. Steps(t) \subseteq S /\ c \in S  BY <1>5
  <2> HIDE DEF S
  <2>3. tasks[t] \in Seq(S)  BY <2>1, <2>2, SMT
  <2>4. /\ DOMAIN tasks' = Task /\ taskIndex' \in [Task -> Nat] /\ tasks'[t] \in Seq(S)
        /\ \A u \in Task : u # t => tasks'[u] = tasks[u]
    BY <1>1, <2>1, <2>2, <2>3, StepIs
  <2> QED  BY <2>4 DEF S
<1>7. Tree'
  <2>1. parent \in [Task -> Finite \cup {None}] /\ parent[Root] = None /\ \A u \in Task : parent[u] # u
    BY <1>2, Zenon DEF Tree
  <2>2. parent' \in [Task -> Finite \cup {None}] /\ parent'[Root] = None /\ \A u \in Task : parent'[u] # u
    BY <1>1, <1>3, <1>4, <2>1, RootAssumption DEF Finite
  <2>3. started \in [Task -> BOOLEAN] /\ completed \in [Task -> BOOLEAN]  BY <1>2, Zenon DEF Tree
  <2>5. \A u \in Task : tasks'[u] \in Seq(Steps(u)')
    <3> SUFFICES ASSUME NEW u \in Task PROVE tasks'[u] \in Seq(Steps(u)')  OBVIOUS
    <3>1. CASE u = t  BY <1>6, <3>1
    <3>2. CASE u # t
      <4>1. tasks[u] \in Seq(Steps(u)) /\ Steps(u)' = Steps(u)  BY <1>2, <1>5, <3>2, Zenon DEF Tree
      <4> QED  BY <1>6, <3>2, <4>1
    <3> QED  BY <3>1, <3>2
  <2> QED  BY <1>1, <1>6, <2>2, <2>3, <2>5, Zenon DEF Tree, Finite
<1> QED  BY <1>7

LEMMA TreeRestart ==
    ASSUME Tree, IsList(notices'), NEW t \in Task, Restart(t)
    PROVE  Tree'
<1>1. /\ parent' = parent
      /\ started' \in [Task -> BOOLEAN] /\ completed' \in [Task -> BOOLEAN] /\ taskIndex' \in [Task -> Nat]
      /\ DOMAIN tasks' = Task /\ \A u \in Task : tasks'[u] \in Seq(Steps(u))
  BY RestartIs
<1> QED  BY <1>1, TreeKeeps, Zenon

LEMMA TreeStep ==
    ASSUME Tree, Told', [Next]_vars
    PROVE  Tree'
<1>1. IsList(notices')  BY DEF Told
<1>2. started \in [Task -> BOOLEAN] /\ completed \in [Task -> BOOLEAN]  BY Zenon DEF Tree
<1>3. ASSUME NEW f \in [Task -> BOOLEAN], NEW t PROVE [f EXCEPT ![t] = TRUE] \in [Task -> BOOLEAN]  OBVIOUS
<1>4. CASE Give
  <2> DEFINE n == Head(notices)
  <2>1. /\ parent' = parent /\ tasks' = tasks /\ taskIndex' = taskIndex
        /\ started' = started \/ started' = [started EXCEPT ![n.of] = TRUE]
        /\ completed' = completed \/ completed' = [completed EXCEPT ![n.of] = TRUE]
    BY <1>4, Zenon DEF Give, NotifyStarted, NotifyUpdate, NotifyCompleted, NotifyFailed, NotifyLengthyTask, FireEvent, treeVars
  <2>2. started' \in [Task -> BOOLEAN] /\ completed' \in [Task -> BOOLEAN]  BY <1>2, <1>3, <2>1
  <2> QED  BY <1>1, <2>1, <2>2, TreeSame
<1>5. CASE Calls \/ Listens \/ UNCHANGED vars
  <2>1. parent' = parent /\ started' = started /\ completed' = completed /\ tasks' = tasks /\ taskIndex' = taskIndex
    BY <1>5, Zenon DEF Calls, Listens, treeVars, vars
  <2> QED  BY <1>1, <1>2, <2>1, TreeSame
<1>6. CASE \E t \in Task : Work(t)
  <2>1. PICK t \in Task : Work(t)  BY <1>6
  <2>2. CASE Doing(t) \/ Complete(t) \/ MarkLengthy(t) \/ Update(t) \/ Fail(t)
    <3>1. /\ parent' = parent /\ started' = started /\ tasks' = tasks /\ taskIndex' = taskIndex
          /\ completed' = completed \/ completed' = [completed EXCEPT ![t] = TRUE]
      BY <2>2, Zenon DEF Doing, Complete, MarkLengthy, Update, Fail, treeVars
    <3>2. completed' \in [Task -> BOOLEAN]  BY <1>2, <1>3, <3>1
    <3> QED  BY <1>1, <1>2, <3>1, <3>2, TreeSame
  <2> QED  BY <1>1, <2>1, <2>2, TreeDone, TreeBegin, TreeSetMax, TreeRestart, Zenon DEF Work
<1> QED  BY <1>4, <1>5, <1>6 DEF Next

LEMMA SizelessKeeps ==
    ASSUME Sizeless,
           \A v \in Variable : Bad(v)' \/ Pending("started", v)' => Bad(v) \/ Pending("started", v),
           \A u \in Task : Pending("update", u)' \/ Pending("completed", u)' <=> Pending("update", u) \/ Pending("completed", u)
    PROVE  Sizeless'
<1>1. ASSUME NEW v \in Variable, Bad(v)' \/ Pending("started", v)'
      PROVE  /\ Pending("update", v)' \/ Pending("completed", v)'
             /\ \A u \in Task : Pending("update", u)' \/ Pending("completed", u)' => u = v
  <2>1. v \in Task  BY DEF Variable
  <2> QED  BY <1>1, <2>1, Zenon DEF Sizeless
<1> QED  BY <1>1, Zenon DEF Sizeless, Variable

LEMMA SizelessNone ==
    ASSUME \A v \in Variable : ~Bad(v)' /\ ~Pending("started", v)'
    PROVE  Sizeless'
BY Zenon DEF Sizeless, Variable

LEMMA NoneBad ==
    ASSUME Sizeless, notices = <<>>
    PROVE  \A v \in Task : ~Bad(v)
<1>1. \A v \in Variable : ~Bad(v)  BY NothingPends, Zenon DEF Sizeless
<1> QED  BY <1>1, Zenon DEF Bad

\* When a notice of an update finds its task not completed, every download that runs has a size.
LEMMA NoneBadAt ==
    ASSUME Sizeless, Tree, Deep, Counted, NEW u \in Task, Pending("update", u), ~IsCompleted[u]
    PROVE  \A v \in Task : ~Bad(v)
<1> SUFFICES ASSUME NEW v \in Task, Bad(v) PROVE FALSE  OBVIOUS
<1>1. v \in Variable /\ started[v] /\ max[v] = 0  BY DEF Bad
<1>2. u = v  BY <1>1, Zenon DEF Sizeless
<1>3. current[v] \in Nat /\ current[v] <= max[v]  BY DEF Counted
<1>4. current[v] = max[v]  BY <1>1, <1>3, SMT
<1>5. CompletedBy(IsCompleted, v)  BY <1>1, <1>4, Zenon DEF CompletedBy, VariableCompleted
<1> QED  BY <1>2, <1>5, CompletedUnfolds

\* What is given next.
LEMMA HeadIs ==
    ASSUME BaseInv, notices # <<>>
    PROVE  /\ IsList(notices) /\ 1 \in DOMAIN notices /\ Head(notices) = notices[1]
           /\ Head(notices).of \in Task /\ InUse(Head(notices).of)
           /\ parent[Head(notices).of] # None => parent[Head(notices).of] \in Task /\ InUse(parent[Head(notices).of])
<1>1. Tree /\ Deep /\ Used  BY DEF BaseInv, Ground
<1>2. IsList(notices)  BY <1>1, Zenon DEF Tree
<1>3. Len(notices) > 0 /\ Len(notices) \in Nat /\ DOMAIN notices = 1 .. Len(notices) /\ Head(notices) = notices[1]
  BY <1>2, ListIs
<1>4. 1 \in DOMAIN notices  BY <1>3, SMT
<1>5. Head(notices).of \in Task /\ InUse(Head(notices).of)  BY <1>1, <1>3, <1>4, Zenon DEF Used
<1> DEFINE t == Head(notices).of
<1>6. ASSUME parent[t] # None PROVE parent[t] \in Task /\ InUse(parent[t])
  <2>1. parent[t] \in Finite \cup {None}  BY <1>1, <1>5, Zenon DEF Tree
  <2>2. parent[t] \in Task  BY <1>6, <2>1 DEF Finite
  <2>3. InUse(parent[t])  BY <1>1, <1>5, <1>6, Zenon DEF Deep
  <2> QED  BY <2>2, <2>3
<1> QED  BY <1>2, <1>3, <1>4, <1>5, <1>6

LEMMA SizelessGiven ==
    ASSUME BaseInv, notices # <<>>, NEW new, IsList(new), Gives(new),
           \A v \in Variable : Bad(v)' => Bad(v) \/ Pending("started", v),
           \A v \in Variable : ~In(new, "started", v),
           \A u \in Task : Is(Head(notices), "update", u) \/ Is(Head(notices), "completed", u) =>
               In(new, "update", u) \/ In(new, "completed", u),
           \A u \in Task : In(new, "update", u) \/ In(new, "completed", u) => Pending("update", u) \/ Pending("completed", u)
    PROVE  Sizeless'
<1>1. IsList(notices)  BY HeadIs
<1>2. \A k, u : /\ In(new, k, u) => Pending(k, u)'
                /\ Pending(k, u) /\ ~Is(Head(notices), k, u) => Pending(k, u)'
                /\ Pending(k, u)' => Pending(k, u) \/ In(new, k, u)
  BY <1>1, PendingIs
<1>3. \A v \in Variable : Bad(v)' \/ Pending("started", v)' => Bad(v) \/ Pending("started", v)
  BY <1>2, Zenon
<1>4. \A u \in Task : Pending("update", u)' \/ Pending("completed", u)' <=> Pending("update", u) \/ Pending("completed", u)
  BY <1>2, Zenon
<1>5. Sizeless  BY DEF BaseInv, Ground
<1> QED  BY <1>3, <1>4, <1>5, SizelessKeeps

\* A download comes to its turn before anything else waits.
LEMMA NoStartBehind ==
    ASSUME BaseInv, notices # <<>>, Head(notices).kind # "started"
    PROVE  \A v \in Variable : ~Pending("started", v)
<1> SUFFICES ASSUME NEW v \in Variable, NEW i \in DOMAIN notices, Is(notices[i], "started", v) PROVE FALSE
  BY Zenon DEF Pending
<1>1. LoadsFirst  BY DEF BaseInv, Ground
<1>2. i = 1  BY <1>1, Zenon DEF LoadsFirst
<1>3. notices[1].kind = "started"  BY <1>2, Zenon DEF Is
<1> QED  BY <1>3, HeadIs

\* What a notice leaves.
LEMMA BaseGiven ==
    ASSUME BaseInv, notices # <<>>, NEW n, n = Head(notices), NEW new, IsList(new), Gives(new),
           parent' = parent, tasks' = tasks, retired' = retired, max' = max, current' = current,
           DOMAIN shown' = Task, \A t \in Task : t # n.of => started'[t] = started[t] /\ shown'[t] = shown[t],
           \A i \in DOMAIN new : new[i].of = n.of \/ (parent[n.of] # None /\ new[i].of = parent[n.of]),
           \A v \in Variable : ~In(new, "started", v)
    PROVE  (Counted /\ Left /\ Used /\ LoadsFirst)'
<1>1. Counted /\ Left /\ Used /\ LoadsFirst  BY DEF BaseInv, Ground
<1>2. /\ IsList(notices) /\ n.of \in Task /\ InUse(n.of)
      /\ parent[n.of] # None => parent[n.of] \in Task /\ InUse(parent[n.of])
  BY HeadIs
<1>3. \A k \in DOMAIN notices' : \/ k \in DOMAIN new /\ notices'[k] = new[k]
                                 \/ \E i \in DOMAIN notices : i # 1 /\ k = i - 1 + Len(new) /\ notices'[k] = notices[i]
  BY <1>2, GivenIs
<1>4. \A t : InUse(t)' <=> InUse(t)  BY Zenon DEF InUse
<1>5. (Counted /\ Left)'  BY <1>1, Zenon DEF Counted, Left
<1>6. Used'
  <2>1. \A k \in DOMAIN notices' : notices'[k].of \in Task /\ InUse(notices'[k].of)
    <3> SUFFICES ASSUME NEW k \in DOMAIN notices' PROVE notices'[k].of \in Task /\ InUse(notices'[k].of)  OBVIOUS
    <3>1. CASE k \in DOMAIN new /\ notices'[k] = new[k]
      <4>1. new[k].of = n.of \/ (parent[n.of] # None /\ new[k].of = parent[n.of])  BY <3>1
      <4> QED  BY <1>2, <3>1, <4>1
    <3>2. CASE \E i \in DOMAIN notices : notices'[k] = notices[i]  BY <1>1, <3>2, Zenon DEF Used
    <3> QED  BY <1>3, <3>1, <3>2
  <2>2. \A t \in Task : ~InUse(t) => ~started'[t] /\ tasks'[t] = <<>> /\ shown'[t] = 0
    <3> SUFFICES ASSUME NEW t \in Task, ~InUse(t) PROVE ~started'[t] /\ tasks'[t] = <<>> /\ shown'[t] = 0  OBVIOUS
    <3>1. t # n.of /\ ~started[t] /\ tasks[t] = <<>> /\ shown[t] = 0  BY <1>1, <1>2, Zenon DEF Used
    <3> QED  BY <3>1
  <2> QED  BY <1>4, <2>1, <2>2, Zenon DEF Used
<1>7. LoadsFirst'
  <2> SUFFICES ASSUME NEW v \in Variable, NEW k \in DOMAIN notices', Is(notices'[k], "started", v) PROVE FALSE
    BY Zenon DEF LoadsFirst, Variable, Is
  <2>1. CASE k \in DOMAIN new /\ notices'[k] = new[k]  BY <2>1, Zenon DEF In
  <2>2. CASE \E i \in DOMAIN notices : i # 1 /\ notices'[k] = notices[i]  BY <1>1, <2>2, Zenon DEF LoadsFirst
  <2> QED  BY <1>3, <2>1, <2>2
<1> QED  BY <1>5, <1>6, <1>7

LEMMA BaseStarted ==
    ASSUME BaseInv, notices # <<>>, NEW n, n = Head(notices), NotifyStarted(n)
    PROVE  Ground'
<1>1. /\ n.of \in Task /\ (parent[n.of] # None => parent[n.of] \in Task)
      /\ IsList(notices) /\ 1 \in DOMAIN notices /\ n = notices[1]
  BY HeadIs
<1>2. n.kind = "started" /\ (\A t : Is(n, "started", t) <=> t = n.of) /\ \A t : ~Is(n, "update", t) /\ ~Is(n, "completed", t)
  BY SMT DEF NotifyStarted, Is
<1>3. /\ parent' = parent /\ tasks' = tasks /\ retired' = retired /\ completed' = completed
      /\ max' = max /\ current' = current /\ shown' = shown
      /\ \/ started[n.of] /\ Gives(<<>>) /\ started' = started
         \/ /\ started' = [started EXCEPT ![n.of] = TRUE]
            /\ Gives(<<Event3("started", n.of, 0)>> \o ToParent("started", n.of))
  BY Zenon DEF NotifyStarted
<1>4. DOMAIN shown' = Task  BY <1>3, Zenon DEF BaseInv, Ground, Used
<1>5. CASE started[n.of] /\ Gives(<<>>) /\ started' = started
  <2> DEFINE new == <<>>
  <2>1. IsList(new) /\ DOMAIN new = {} /\ \A l, u : ~In(new, l, u)  BY InOnes, PairIs
  <2>2. Gives(new)  BY <1>5
  <2> HIDE DEF new
  <2>3. (Counted /\ Left /\ Used /\ LoadsFirst)'  BY <1>3, <1>4, <1>5, <2>1, <2>2, BaseGiven, Zenon
  <2>4. \A v : Bad(v)' <=> Bad(v)  BY <1>3, <1>5, Zenon DEF Bad, Variable
  <2>5. Sizeless'  BY <1>2, <2>1, <2>2, <2>4, SizelessGiven, Zenon
  <2> QED  BY <2>3, <2>5 DEF Ground
<1>6. CASE /\ started' = [started EXCEPT ![n.of] = TRUE]
           /\ Gives(<<Event3("started", n.of, 0)>> \o ToParent("started", n.of))
  <2> DEFINE t == n.of
             new == <<Event3("started", t, 0)>> \o ToParent("started", t)
  <2>1. IsList(new) /\ \A l \in Others : \A u : In(new, l, u) <=> parent[t] # None /\ l = "started" /\ u = parent[t]
    BY PassedIs
  <2>2. \A i \in DOMAIN new : new[i].of = t \/ (parent[t] # None /\ new[i].of = parent[t])
    BY OthersAre, OneEvent
  <2>3. Gives(new)  BY <1>6
  <2> HIDE DEF new
  <2>4. started \in [Task -> BOOLEAN] /\ parent \in [Task -> Finite \cup {None}]  BY Zenon DEF BaseInv, Tree
  <2>5. started'[t] /\ \A u \in Task : u # t => started'[u] = started[u]  BY <1>1, <1>6, <2>4 DEF t
  <2>6. \A v \in Variable : ~In(new, "started", v)
    <3> SUFFICES ASSUME NEW v \in Variable, In(new, "started", v) PROVE FALSE  OBVIOUS
    <3>1. v = parent[t] /\ parent[t] # None  BY <2>1, OthersAre
    <3>2. parent[t] \in Finite  BY <1>1, <2>4, <3>1 DEF t
    <3> QED  BY <3>1, <3>2, SMT DEF Finite, Variable
  <2>7. (Counted /\ Left /\ Used /\ LoadsFirst)'
    BY <1>3, <1>4, <2>1, <2>2, <2>3, <2>5, <2>6, BaseGiven, Zenon DEF t
  <2>8. Sizeless'
    <3>1. ASSUME NEW v \in Variable, Bad(v)' PROVE Bad(v) \/ Pending("started", v)
      <4>1. v \in Task /\ started'[v] /\ ~completed[v] /\ max[v] = 0  BY <1>3, <3>1, Zenon DEF Bad, Variable
      <4>2. CASE v = t
        <5>1. Is(notices[1], "started", v)  BY <1>1, <1>2, <4>2
        <5> QED  BY <1>1, <5>1, Zenon DEF Pending
      <4>3. CASE v # t
        <5>1. started[v]  BY <2>5, <4>1, <4>3, Zenon
        <5> QED  BY <4>1, <5>1, Zenon DEF Bad
      <4> QED  BY <4>2, <4>3
    <3>2. \A u : ~In(new, "update", u) /\ ~In(new, "completed", u)
      <4>1. "started" # "update" /\ "started" # "completed"  OBVIOUS
      <4> QED  BY <2>1, <4>1, OthersAre, Zenon
    <3> QED  BY <1>2, <2>1, <2>3, <2>6, <3>1, <3>2, SizelessGiven, Zenon
  <2> QED  BY <2>7, <2>8 DEF Ground
<1> QED  BY <1>3, <1>5, <1>6

LEMMA BaseUpdate ==
    ASSUME BaseInv, notices # <<>>, NEW n, n = Head(notices), NotifyUpdate(n)
    PROVE  Ground'
<1> DEFINE t == n.of
<1>1. /\ t \in Task /\ (parent[t] # None => parent[t] \in Task)
      /\ IsList(notices) /\ 1 \in DOMAIN notices /\ n = notices[1]
  BY HeadIs
<1>2. /\ n.kind = "update" /\ n.kind # "started"
      /\ \A u : (Is(n, "update", u) <=> u = t) /\ ~Is(n, "completed", u)
  BY SMT DEF NotifyUpdate, Is
<1>3. /\ parent' = parent /\ tasks' = tasks /\ retired' = retired /\ completed' = completed
      /\ max' = max /\ current' = current /\ shown' = shown /\ started' = started
      /\ Gives(IF IsCompleted[t] THEN <<Notice("completed", t)>>
               ELSE <<Event3("progress", t, GetProgress[t])>> \o ToParent("update", t))
  BY Zenon DEF NotifyUpdate, treeVars
<1>4. DOMAIN shown' = Task  BY <1>3, Zenon DEF BaseInv, Ground, Used
<1>5. Tree /\ Deep /\ Counted /\ Sizeless  BY DEF BaseInv, Ground
<1>6. Pending("update", t)
  <2>1. Is(notices[1], "update", t)  BY <1>1, <1>2
  <2> QED  BY <1>1, <2>1, Zenon DEF Pending
<1>7. \A v : Bad(v)' <=> Bad(v)  BY <1>3, Zenon DEF Bad, Variable
<1>8. CASE IsCompleted[t]
  <2> DEFINE x == Notice("completed", t)
             new == <<x>>
  <2>1. IsList(new) /\ DOMAIN new = {1} /\ new[1] = x /\ \A l, u : In(new, l, u) <=> l = "completed" /\ u = t
    BY InOnes, PairIs
  <2>2. Gives(new)  BY <1>3, <1>8
  <2>3. x.of = t  BY SMT DEF Notice
  <2> HIDE DEF new, x
  <2>4. \A i \in DOMAIN new : new[i].of = t  BY <2>1, <2>3
  <2>5. \A v : ~In(new, "started", v) /\ ~In(new, "update", v)
    <3>1. "started" # "completed" /\ "update" # "completed"  OBVIOUS
    <3> QED  BY <2>1, <3>1, Zenon
  <2>6. (Counted /\ Left /\ Used /\ LoadsFirst)'
    <3>1. \A u \in Task : started'[u] = started[u] /\ shown'[u] = shown[u]  BY <1>3
    <3>2. \A i \in DOMAIN new : new[i].of = n.of  BY <2>4
    <3> QED  BY <1>3, <1>4, <2>1, <2>2, <2>5, <3>1, <3>2, BaseGiven, Zenon
  <2>7. Sizeless'
    <3>1. \A u : In(new, "completed", u) <=> u = t
      <4> SUFFICES ASSUME NEW u PROVE In(new, "completed", u) <=> u = t  OBVIOUS
      <4>1. In(new, "completed", u) <=> "completed" = "completed" /\ u = t  BY <2>1
      <4> QED  BY <4>1
    <3> QED  BY <1>2, <1>6, <1>7, <2>1, <2>2, <2>5, <3>1, SizelessGiven, Zenon
  <2> QED  BY <2>6, <2>7 DEF Ground
<1>9. CASE ~IsCompleted[t]
  <2> DEFINE p == GetProgress[t]
             new == <<Event3("progress", t, p)>> \o ToParent("update", t)
  <2>1. IsList(new) /\ \A l \in Others : \A u : In(new, l, u) <=> parent[t] # None /\ l = "update" /\ u = parent[t]
    BY PassedIs
  <2>2. Gives(new)  BY <1>3, <1>9
  <2>3. \A v \in Task : ~Bad(v)  BY <1>1, <1>5, <1>6, <1>9, NoneBadAt
  <2> HIDE DEF p
  <2>4. \A i \in DOMAIN new : new[i].of = n.of \/ (parent[n.of] # None /\ new[i].of = parent[n.of])
    BY OthersAre, OneEvent
  <2> HIDE DEF new
  <2>5. \A v : ~In(new, "started", v)
    <3>1. "started" # "update"  OBVIOUS
    <3> QED  BY <2>1, <3>1, OthersAre, Zenon
  <2>6. (Counted /\ Left /\ Used /\ LoadsFirst)'
    <3>1. \A u \in Task : started'[u] = started[u] /\ shown'[u] = shown[u]  BY <1>3
    <3> QED  BY <1>3, <1>4, <2>1, <2>2, <2>4, <2>5, <3>1, BaseGiven, Zenon
  <2>7. Sizeless'
    <3>1. \A v \in Variable : ~Pending("started", v)'
      <4>1. \A v \in Variable : ~Pending("started", v)  BY <1>1, <1>2, NoStartBehind
      <4>2. \A k, u : Pending(k, u)' => Pending(k, u) \/ In(new, k, u)  BY <1>1, <2>1, <2>2, PendingIs
      <4> QED  BY <2>5, <4>1, <4>2, Zenon
    <3>2. \A v \in Variable : ~Bad(v)'  BY <1>7, <2>3 DEF Variable
    <3> QED  BY <3>1, <3>2, SizelessNone
  <2> QED  BY <2>6, <2>7 DEF Ground
<1> QED  BY <1>8, <1>9

LEMMA BaseCompleted ==
    ASSUME BaseInv, notices # <<>>, NEW n, n = Head(notices), NotifyCompleted(n)
    PROVE  Ground'
<1> DEFINE t == n.of
<1>1. /\ t \in Task /\ (parent[t] # None => parent[t] \in Task)
      /\ IsList(notices) /\ 1 \in DOMAIN notices /\ n = notices[1]
  BY HeadIs
<1>2. n.kind = "completed" /\ n.kind # "started" /\ Is(n, "completed", t)
  BY SMT DEF NotifyCompleted, Is
<1>3. /\ parent' = parent /\ tasks' = tasks /\ retired' = retired
      /\ max' = max /\ current' = current /\ shown' = shown /\ started' = started
      /\ \/ completed[t] /\ Gives(<<>>) /\ completed' = completed
         \/ /\ completed' = [completed EXCEPT ![t] = TRUE]
            /\ Gives(<<Event3("progress", t, Unit), Event3("completed", t, Unit)>> \o ToParent("update", t))
  BY Zenon DEF NotifyCompleted
<1>4. Sizeless /\ completed \in [Task -> BOOLEAN] /\ DOMAIN shown' = Task  BY <1>3, Zenon DEF BaseInv, Ground, Tree, Used
<1>5. \A u \in Task : started'[u] = started[u] /\ shown'[u] = shown[u]  BY <1>3
<1>6. Pending("completed", t)  BY <1>1, <1>2, Zenon DEF Pending
<1>7. \A v \in Variable : Bad(v) => v = t  BY <1>1, <1>4, <1>6, Zenon DEF Sizeless
<1>8. \A v \in Variable : ~Pending("started", v)  BY <1>1, <1>2, NoStartBehind
<1>9. CASE completed[t] /\ Gives(<<>>) /\ completed' = completed
  <2> DEFINE new == <<>>
  <2>1. IsList(new) /\ DOMAIN new = {} /\ \A l, u : ~In(new, l, u)  BY InOnes, PairIs
  <2>2. Gives(new)  BY <1>9
  <2> HIDE DEF new
  <2>3. (Counted /\ Left /\ Used /\ LoadsFirst)'  BY <1>3, <1>4, <1>5, <2>1, <2>2, BaseGiven, Zenon
  <2>4. \A v \in Variable : ~Bad(v)'
    <3>1. \A v : Bad(v)' <=> Bad(v)  BY <1>3, <1>9, Zenon DEF Bad, Variable
    <3> QED  BY <1>7, <1>9, <3>1, Zenon DEF Bad
  <2>5. \A v \in Variable : ~Pending("started", v)'
    <3>1. \A k, u : Pending(k, u)' => Pending(k, u) \/ In(new, k, u)  BY <1>1, <2>1, <2>2, PendingIs
    <3> QED  BY <1>8, <2>1, <3>1, Zenon
  <2>6. Sizeless'  BY <2>4, <2>5, SizelessNone
  <2> QED  BY <2>3, <2>6 DEF Ground
<1>10. CASE /\ completed' = [completed EXCEPT ![t] = TRUE]
            /\ Gives(<<Event3("progress", t, Unit), Event3("completed", t, Unit)>> \o ToParent("update", t))
  <2> DEFINE new == <<Event3("progress", t, Unit), Event3("completed", t, Unit)>> \o ToParent("update", t)
  <2>1. IsList(new) /\ \A l \in Others : \A u : In(new, l, u) <=> parent[t] # None /\ l = "update" /\ u = parent[t]
    BY PassedIs
  <2>2. \A i \in DOMAIN new : new[i].of = n.of \/ (parent[n.of] # None /\ new[i].of = parent[n.of])
    BY OthersAre, TwoEvents
  <2>3. Gives(new)  BY <1>10
  <2> HIDE DEF new
  <2>4. completed'[t] /\ \A u \in Task : u # t => completed'[u] = completed[u]  BY <1>1, <1>4, <1>10
  <2>5. \A v : ~In(new, "started", v)
    <3>1. "started" # "update"  OBVIOUS
    <3> QED  BY <2>1, <3>1, OthersAre, Zenon
  <2>6. (Counted /\ Left /\ Used /\ LoadsFirst)'
    BY <1>3, <1>4, <1>5, <2>1, <2>2, <2>3, <2>5, BaseGiven, Zenon
  <2>7. Sizeless'
    <3>1. ASSUME NEW v \in Variable, Bad(v)' PROVE FALSE
      <4>1. v \in Task /\ started[v] /\ ~completed'[v] /\ max[v] = 0  BY <1>3, <3>1, Zenon DEF Bad, Variable
      <4>2. v # t  BY <2>4, <4>1
      <4>3. ~completed[v]  BY <2>4, <4>1, <4>2
      <4> QED  BY <1>7, <4>1, <4>2, <4>3, Zenon DEF Bad
    <3>2. \A k, u : Pending(k, u)' => Pending(k, u) \/ In(new, k, u)  BY <1>1, <2>1, <2>3, PendingIs
    <3>3. \A v \in Variable : ~Pending("started", v)'  BY <1>8, <2>5, <3>2, Zenon
    <3> QED  BY <3>1, <3>3, SizelessNone
  <2> QED  BY <2>6, <2>7 DEF Ground
<1> QED  BY <1>3, <1>9, <1>10

LEMMA BaseOther ==
    ASSUME BaseInv, notices # <<>>, NEW n, n = Head(notices),
           NotifyFailed(n) \/ NotifyLengthyTask(n) \/ FireEvent(n)
    PROVE  Ground'
<1> DEFINE t == n.of
<1>1. /\ t \in Task /\ (parent[t] # None => parent[t] \in Task)
      /\ IsList(notices) /\ 1 \in DOMAIN notices /\ n = notices[1]
  BY HeadIs
<1>2. \A u : ~Is(n, "update", u) /\ ~Is(n, "completed", u)
  BY SMT DEF NotifyFailed, NotifyLengthyTask, FireEvent, Is
<1>3. /\ parent' = parent /\ tasks' = tasks /\ retired' = retired /\ completed' = completed
      /\ max' = max /\ current' = current /\ started' = started
      /\ shown' = shown \/ shown' = [shown EXCEPT ![t] = n.value]
  BY Zenon DEF NotifyFailed, NotifyLengthyTask, FireEvent, treeVars
<1>4. DOMAIN shown' = Task /\ \A u \in Task : u # t => started'[u] = started[u] /\ shown'[u] = shown[u]
  <2>1. DOMAIN shown = Task  BY Zenon DEF BaseInv, Ground, Used
  <2> QED  BY <1>3, <2>1
<1>5. \A v : Bad(v)' <=> Bad(v)  BY <1>3, Zenon DEF Bad, Variable
<1>6. ASSUME NEW new, IsList(new), Gives(new),
             \A u : ~In(new, "started", u) /\ ~In(new, "update", u) /\ ~In(new, "completed", u),
             \A i \in DOMAIN new : new[i].of = t \/ (parent[t] # None /\ new[i].of = parent[t])
      PROVE  Ground'
  <2>1. (Counted /\ Left /\ Used /\ LoadsFirst)'
    <3>1. \A u \in Task : u # n.of => started'[u] = started[u] /\ shown'[u] = shown[u]  BY <1>4 DEF t
    <3>2. \A i \in DOMAIN new : new[i].of = n.of \/ (parent[n.of] # None /\ new[i].of = parent[n.of])
      BY <1>6 DEF t
    <3>3. /\ parent' = parent /\ tasks' = tasks /\ retired' = retired /\ max' = max /\ current' = current
          /\ DOMAIN shown' = Task
      BY <1>3, <1>4
    <3>4. IsList(new) /\ Gives(new) /\ \A v \in Variable : ~In(new, "started", v)  BY <1>6
    <3> QED  BY <3>1, <3>2, <3>3, <3>4, BaseGiven, Zenon
  <2>2. Sizeless'  BY <1>2, <1>5, <1>6, SizelessGiven, Zenon
  <2> QED  BY <2>1, <2>2 DEF Ground
<1> HIDE DEF t
<1>7. ASSUME NEW e, NEW k \in Others, k \notin {"started", "update", "completed"},
             Gives(<<Event3(e, t, 0)>> \o ToParent(k, t))
      PROVE  Ground'
  <2> DEFINE new == <<Event3(e, t, 0)>> \o ToParent(k, t)
  <2>1. IsList(new) /\ \A l \in Others : \A u : In(new, l, u) <=> parent[t] # None /\ l = k /\ u = parent[t]
    BY PassedIs
  <2>2. \A i \in DOMAIN new : new[i].of = t \/ (parent[t] # None /\ new[i].of = parent[t])
    BY <1>7, OneEvent
  <2>3. Gives(new)  BY <1>7
  <2> HIDE DEF new
  <2>4. \A u : ~In(new, "started", u) /\ ~In(new, "update", u) /\ ~In(new, "completed", u)
    BY <1>7, <2>1, OthersAre, Zenon
  <2> QED  BY <1>6, <2>1, <2>2, <2>3, <2>4
<1>8. CASE NotifyFailed(n)
  <2>1. Gives(<<Event3("failed", t, 0)>> \o ToParent("failed", t))  BY <1>8, Zenon DEF NotifyFailed, t
  <2>2. "failed" \in Others /\ "failed" \notin {"started", "update", "completed"}  BY SMT DEF Others
  <2> QED  BY <1>7, <2>1, <2>2
<1>9. CASE NotifyLengthyTask(n)
  <2>1. Gives(<<Event3("lengthyTask", t, 0)>> \o ToParent("lengthy", t))  BY <1>9, Zenon DEF NotifyLengthyTask, t
  <2>2. "lengthy" \in Others /\ "lengthy" \notin {"started", "update", "completed"}  BY SMT DEF Others
  <2> QED  BY <1>7, <2>1, <2>2
<1>10. CASE FireEvent(n)
  <2> DEFINE new == <<>>
  <2>1. IsList(new) /\ DOMAIN new = {} /\ \A l, u : ~In(new, l, u)  BY InOnes, PairIs
  <2>2. Gives(new)
    <3>1. notices' = Tail(notices)  BY <1>10, Zenon DEF FireEvent
    <3> QED  BY <1>1, <3>1, TailGiven
  <2> HIDE DEF new
  <2> QED  BY <1>6, <2>1, <2>2
<1> QED  BY <1>8, <1>9, <1>10

LEMMA BaseGive ==
    ASSUME BaseInv, Give
    PROVE  Ground'
<1> DEFINE n == Head(notices)
<1>1. notices # <<>> /\ (NotifyStarted(n) \/ NotifyUpdate(n) \/ NotifyCompleted(n)
                         \/ NotifyFailed(n) \/ NotifyLengthyTask(n) \/ FireEvent(n))
  BY Zenon DEF Give
<1> HIDE DEF n
<1>2. n = Head(notices)  BY DEF n
<1> QED  BY <1>1, <1>2, BaseStarted, BaseUpdate, BaseCompleted, BaseOther

\* No download comes to run without a size by a call.
LEMMA NoneComesBad ==
    ASSUME BaseInv, notices = <<>>, started' = started,
           \A u \in Task : completed[u] => completed'[u],
           \A u \in Task : max'[u] = max[u] \/ max'[u] # 0
    PROVE  \A v \in Variable : ~Bad(v)'
<1> SUFFICES ASSUME NEW v \in Variable, Bad(v)' PROVE FALSE  OBVIOUS
<1>1. v \in Task /\ started[v] /\ ~completed[v] /\ max[v] = 0  BY Zenon DEF Bad, Variable
<1>2. Bad(v)  BY <1>1, Zenon DEF Bad
<1> QED  BY <1>1, <1>2, NoneBad DEF BaseInv, Ground

\* What doing, begin, done and an update of a download leave to be given.
LEMMA SizelessSaid ==
    ASSUME NEW t \in Task, Says(t, <<"started", "update">>), t \in Variable => ~completed'[t],
           \A v \in Variable : ~Bad(v)'
    PROVE  /\ Sizeless' /\ LoadsFirst'
           /\ \A i \in DOMAIN notices' : notices'[i].of = t /\ ~IsProgress(notices'[i])
<1> DEFINE a == Notice("started", t)
           b == Notice("update", t)
           p == notices'
<1>1. /\ a.of = t /\ b.of = t /\ ~IsProgress(a) /\ ~IsProgress(b)
      /\ \A u : ~Is(a, "update", u) /\ ~Is(a, "completed", u) /\ ~Is(b, "completed", u) /\ (Is(b, "update", u) => u = t)
  BY SMT DEF Notice, IsProgress, Is
<1>2. /\ DOMAIN p = {1, 2} /\ p[1] = a /\ p[2] = b /\ In(p, "update", t)
      /\ \A i \in DOMAIN p : \A u : Is(p[i], "started", u) => i = 1 /\ u = t
  BY SaidIs
<1>3. LoadsFirst'  BY <1>2, Zenon DEF LoadsFirst, Variable, Is
<1> HIDE DEF a, b
<1>4. \A k, u : Pending(k, u)' <=> In(p, k, u)  BY Zenon DEF Pending, In, Is
<1> HIDE DEF p
<1>5. \A i \in DOMAIN p : p[i] = a \/ p[i] = b  BY <1>2
<1>6. \A u : In(p, "update", u) \/ In(p, "completed", u) => u = t
  BY <1>1, <1>5, Zenon DEF In
<1>7. \A u : In(p, "started", u) => u = t
  <2>1. \A u : In(p, "started", u) => \E i \in DOMAIN p : Is(p[i], "started", u)  BY Zenon DEF In
  <2> QED  BY <1>2, <2>1
<1>8. ASSUME NEW v \in Variable, Bad(v)' \/ Pending("started", v)'
      PROVE  /\ Pending("update", v)' \/ Pending("completed", v)'
             /\ \A u \in Task : Pending("update", u)' \/ Pending("completed", u)' => u = v
  BY <1>2, <1>4, <1>6, <1>7, <1>8, Zenon
<1>9. Sizeless'  BY <1>8, Zenon DEF Sizeless, Variable
<1>10. \A i \in DOMAIN p : p[i].of = t /\ ~IsProgress(p[i])
  BY <1>1, <1>5, Zenon
<1> QED  BY <1>3, <1>9, <1>10 DEF p

\* Where nothing starts.
LEMMA NoneStarts ==
    ASSUME \A i \in DOMAIN notices' : \A u : ~Is(notices'[i], "started", u), \A v \in Variable : ~Bad(v)'
    PROVE  Sizeless' /\ LoadsFirst'
<1>1. \A v : ~Pending("started", v)'
  <2>1. \A v : Pending("started", v)' <=> In(notices', "started", v)  BY Zenon DEF Pending, In, Is
  <2> QED  BY <2>1, Zenon DEF In
<1>2. LoadsFirst'  BY Zenon DEF LoadsFirst, Variable, Is
<1> QED  BY <1>1, <1>2, SizelessNone

\* What complete and setLengthy leave.
LEMMA SizelessOne ==
    ASSUME NEW t \in Task, NEW k, k # "started", k # "event", Says(t, <<k>>), \A v \in Variable : ~Bad(v)'
    PROVE  /\ Sizeless' /\ LoadsFirst'
           /\ \A i \in DOMAIN notices' : notices'[i].of = t /\ ~IsProgress(notices'[i])
<1> DEFINE x == Notice(k, t)
           w == <<x>>
<1>1. notices' = w  BY SMT DEF Says
<1>2. x.of = t /\ ~IsProgress(x) /\ \A u : ~Is(x, "started", u)  BY SMT DEF Notice, IsProgress, Is
<1> HIDE DEF x
<1>3. DOMAIN w = {1} /\ w[1] = x  BY PairIs
<1> HIDE DEF w
<1>4. \A i \in DOMAIN notices' : notices'[i] = x  BY <1>1, <1>3
<1>5. Sizeless' /\ LoadsFirst'  BY <1>2, <1>4, NoneStarts
<1> QED  BY <1>2, <1>4, <1>5

\* What fail leaves: of the task, and of its parent.
LEMMA FailSays ==
    ASSUME NEW t \in Task, Fail(t)
    PROVE  \A i \in DOMAIN notices' :
              /\ notices'[i].of = t \/ (parent[t] # None /\ notices'[i].of = parent[t])
              /\ ~IsProgress(notices'[i]) /\ \A u : ~Is(notices'[i], "started", u)
<1> DEFINE x == Notice("failed", t)
           a == <<x>>
           new == a \o ToParent("update", t)
           y == Notice("update", parent[t])
<1>1. notices' = new  BY Zenon DEF Fail
<1>2. /\ x.of = t /\ ~IsProgress(x) /\ y.of = parent[t] /\ ~IsProgress(y)
      /\ \A u : ~Is(x, "started", u) /\ ~Is(y, "started", u)
  BY SMT DEF Notice, IsProgress, Is
<1> HIDE DEF x
<1>3. IsList(a) /\ DOMAIN a = {1} /\ a[1] = x  BY PairIs
<1> HIDE DEF a
<1>4. \A i \in DOMAIN new : (i \in DOMAIN a /\ new[i] = a[i]) \/ (parent[t] # None /\ new[i] = y)
  BY <1>3, PassesOn
<1> HIDE DEF new, y
<1>5. \A i \in DOMAIN notices' : notices'[i] = x \/ (parent[t] # None /\ notices'[i] = y)
  BY <1>1, <1>3, <1>4
<1> QED  BY <1>2, <1>5

\* What an update of a download makes of its counters.
LEMMA UpdateIs ==
    ASSUME Counted, NEW t \in Task, Update(t)
    PROVE  /\ Counted' /\ max'[t] # 0
           /\ current[t] # 0 => max'[t] = max[t] /\ current[t] <= current'[t]
           /\ \A u \in Task : u # t => max'[u] = max[u] /\ current'[u] = current[u]
<1>1. /\ max \in [Task -> Nat] /\ current \in [Task -> Nat] /\ \A u \in Task : current[u] <= max[u]
      /\ retired \subseteq Task /\ retired' = retired
  BY Zenon DEF Counted, Update
<1>2. PICK size \in IF current[t] = 0 THEN 1 .. MaxSize ELSE {max[t]} :
         \E pos \in current[t] .. size :
            max' = [max EXCEPT ![t] = size] /\ current' = [current EXCEPT ![t] = pos]
  BY Zenon DEF Update
<1>3. PICK pos \in current[t] .. size : max' = [max EXCEPT ![t] = size] /\ current' = [current EXCEPT ![t] = pos]
  BY <1>2
<1>4. max[t] \in Nat /\ current[t] \in Nat /\ current[t] <= max[t]  BY <1>1
<1>5. size \in Nat /\ size # 0 /\ (current[t] # 0 => size = max[t])
  <2>1. CASE current[t] = 0  BY <2>1, BoundAssumption, SMT
  <2>2. CASE current[t] # 0
    <3>1. size = max[t]  BY <2>2
    <3> QED  BY <1>4, <2>2, <3>1, SMT
  <2> QED  BY <2>1, <2>2
<1>6. pos \in Nat /\ current[t] <= pos /\ pos <= size  BY <1>4, <1>5, SMT
<1>7. /\ max' \in [Task -> Nat] /\ current' \in [Task -> Nat]
      /\ max'[t] = size /\ current'[t] = pos /\ \A u \in Task : u # t => max'[u] = max[u] /\ current'[u] = current[u]
  BY <1>1, <1>3, <1>5, <1>6
<1>8. \A u \in Task : current'[u] <= max'[u]  BY <1>1, <1>6, <1>7
<1>9. Counted'  BY <1>1, <1>7, <1>8, Zenon DEF Counted
<1> QED  BY <1>5, <1>6, <1>7, <1>9

\* What a call leaves: the tree may grow below the task that it works on.
LEMMA BaseCall ==
    ASSUME BaseInv, Counted', notices = <<>>, NEW t \in Task, InUse(t),
           retired' = retired, shown' = shown, started' = started,
           \A u \in Task : parent[u] # None => parent'[u] # None,
           \A u \in Task : u # t => tasks'[u] = tasks[u],
           \A i \in DOMAIN notices' : notices'[i].of = t \/ (parent[t] # None /\ notices'[i].of = parent[t])
    PROVE  (Left /\ Used)'
<1>1. Left /\ Used /\ Tree /\ Deep  BY DEF BaseInv, Ground
<1>2. \A u \in Task : InUse(u) => InUse(u)'  BY Zenon DEF InUse
<1>3. Left'  BY <1>1, Zenon DEF Left
<1>4. parent[t] # None => parent[t] \in Task /\ InUse(parent[t])
  <2>1. parent[t] \in Finite \cup {None}  BY <1>1, Zenon DEF Tree
  <2>2. parent[t] # None => InUse(parent[t])  BY <1>1, Zenon DEF Deep
  <2> QED  BY <2>1, <2>2 DEF Finite
<1>5. \A i \in DOMAIN notices' : notices'[i].of \in Task /\ (notices'[i].of = Root \/ parent'[notices'[i].of] # None)
  <2> SUFFICES ASSUME NEW i \in DOMAIN notices' PROVE notices'[i].of \in Task /\ (notices'[i].of = Root \/ parent'[notices'[i].of] # None)
    OBVIOUS
  <2> DEFINE u == notices'[i].of
  <2>1. u \in Task /\ InUse(u)  BY <1>4
  <2>2. u = Root \/ parent'[u] # None  BY <2>1, Zenon DEF InUse
  <2> QED  BY <2>1, <2>2
<1>6. \A u \in Task : ~(InUse(u)') => ~started'[u] /\ tasks'[u] = <<>> /\ shown'[u] = 0
  <2> SUFFICES ASSUME NEW u \in Task, ~(InUse(u)') PROVE ~started'[u] /\ tasks'[u] = <<>> /\ shown'[u] = 0
    OBVIOUS
  <2>1. ~InUse(u)  BY <1>2
  <2>2. u # t  BY <2>1
  <2> QED  BY <1>1, <2>1, <2>2, Zenon DEF Used
<1>7. DOMAIN shown' = Task  BY <1>1, Zenon DEF Used
<1> QED  BY <1>3, <1>5, <1>6, <1>7, Zenon DEF Used, InUse

LEMMA BasePlain ==
    ASSUME BaseInv, NEW t \in Task, Doing(t) \/ Complete(t) \/ MarkLengthy(t)
    PROVE  Ground'
<1>1. /\ notices = <<>> /\ InUse(t) /\ retired' = retired /\ parent' = parent /\ tasks' = tasks
      /\ started' = started /\ completed' = completed /\ max' = max /\ current' = current /\ shown' = shown
      /\ \/ Says(t, <<"started", "update">>) /\ (t \in Variable => ~completed[t])
         \/ Says(t, <<"completed">>) \/ Says(t, <<"lengthy">>)
  BY Zenon DEF Doing, Complete, MarkLengthy, Works, Turn, Runs, treeVars
<1>2. Counted  BY DEF BaseInv, Ground
<1>3. Counted'  BY <1>1, <1>2, Zenon DEF Counted
<1>4. \A v \in Variable : ~Bad(v)'  BY <1>1, NoneComesBad, Zenon
<1>5. Sizeless' /\ LoadsFirst' /\ \A i \in DOMAIN notices' : notices'[i].of = t
  <2>1. "completed" # "started" /\ "completed" # "event" /\ "lengthy" # "started" /\ "lengthy" # "event"  OBVIOUS
  <2> QED  BY <1>1, <1>4, <2>1, SizelessSaid, SizelessOne
<1>6. (Left /\ Used)'  BY <1>1, <1>3, <1>5, BaseCall, Zenon
<1> QED  BY <1>3, <1>5, <1>6 DEF Ground

LEMMA BaseUpdates ==
    ASSUME BaseInv, NEW t \in Task, Update(t)
    PROVE  Ground'
<1>1. /\ notices = <<>> /\ InUse(t) /\ retired' = retired /\ parent' = parent /\ tasks' = tasks
      /\ started' = started /\ completed' = completed /\ shown' = shown
      /\ Says(t, <<"started", "update">>) /\ (t \in Variable => ~completed[t])
  BY Zenon DEF Update, Works, Turn, Runs
<1>2. /\ Counted' /\ max'[t] # 0
      /\ \A u \in Task : u # t => max'[u] = max[u] /\ current'[u] = current[u]
  BY UpdateIs DEF BaseInv, Ground
<1>3. \A v \in Variable : ~Bad(v)'
  <2>1. \A u \in Task : max'[u] = max[u] \/ max'[u] # 0  BY <1>2
  <2> QED  BY <1>1, <2>1, NoneComesBad, Zenon
<1>4. Sizeless' /\ LoadsFirst' /\ \A i \in DOMAIN notices' : notices'[i].of = t
  BY <1>1, <1>3, SizelessSaid
<1>5. (Left /\ Used)'  BY <1>1, <1>2, <1>4, BaseCall, Zenon
<1> QED  BY <1>2, <1>4, <1>5 DEF Ground

LEMMA BaseFail ==
    ASSUME BaseInv, NEW t \in Task, Fail(t)
    PROVE  Ground'
<1>1. /\ notices = <<>> /\ InUse(t) /\ retired' = retired /\ parent' = parent /\ tasks' = tasks
      /\ started' = started /\ max' = max /\ current' = current /\ shown' = shown
      /\ completed' = [completed EXCEPT ![t] = TRUE]
  BY Zenon DEF Fail, Works, Turn
<1>2. Counted /\ completed \in [Task -> BOOLEAN]  BY Zenon DEF BaseInv, Ground, Tree
<1>3. Counted'  BY <1>1, <1>2, Zenon DEF Counted
<1>4. \A u \in Task : completed[u] => completed'[u]  BY <1>1, <1>2
<1>5. \A v \in Variable : ~Bad(v)'  BY <1>1, <1>4, NoneComesBad, Zenon
<1>6. Sizeless' /\ LoadsFirst'  BY <1>5, FailSays, NoneStarts
<1>7. (Left /\ Used)'  BY <1>1, <1>3, FailSays, BaseCall, Zenon
<1> QED  BY <1>3, <1>6, <1>7 DEF Ground

LEMMA BaseSetMax ==
    ASSUME BaseInv, NEW t \in Task, SetMax(t)
    PROVE  Ground'
<1>1. /\ notices = <<>> /\ notices' = notices /\ InUse(t) /\ retired' = retired /\ parent' = parent
      /\ started' = started /\ completed' = completed /\ max' = max /\ current' = current /\ shown' = shown
      /\ \A u \in Task : u # t => tasks'[u] = tasks[u]
  <2>1. /\ notices = <<>> /\ notices' = notices /\ InUse(t) /\ retired' = retired /\ parent' = parent
        /\ started' = started /\ completed' = completed /\ max' = max /\ current' = current /\ shown' = shown
        /\ \E n \in 1 .. MaxSlots : tasks' = [tasks EXCEPT ![t] = Resized(tasks[t], n)]
    BY Zenon DEF SetMax, Works, Turn
  <2>2. DOMAIN tasks = Task  BY Zenon DEF BaseInv, Tree
  <2> QED  BY <2>1, <2>2
<1>2. Counted  BY DEF BaseInv, Ground
<1>3. Counted'  BY <1>1, <1>2, Zenon DEF Counted
<1>4. \A v \in Variable : ~Bad(v)'  BY <1>1, NoneComesBad, Zenon
<1>5. DOMAIN notices' = {}  BY <1>1, PairIs
<1>6. Sizeless' /\ LoadsFirst'  BY <1>4, <1>5, NoneStarts
<1>7. (Left /\ Used)'  BY <1>1, <1>3, <1>5, BaseCall, Zenon
<1> QED  BY <1>3, <1>6, <1>7 DEF Ground

LEMMA BaseSteps ==
    ASSUME BaseInv, NEW t \in Task, Done(t) \/ \E c \in Task : Begin(t, c)
    PROVE  Ground'
<1>1. PICK what : Step(t, what) /\ (Done(t) \/ \E c \in Task : Begin(t, c))  BY Zenon DEF Done, Begin
<1>2. /\ notices = <<>> /\ InUse(t) /\ t \in Finite /\ Says(t, <<"started", "update">>)
      /\ retired' = retired /\ shown' = shown /\ started' = started /\ completed' = completed
      /\ max' = max /\ current' = current
  BY Zenon DEF Done, Begin, Works, Turn
<1>3. Counted /\ Tree  BY DEF BaseInv, Ground
<1>4. Counted'  BY <1>2, <1>3, Zenon DEF Counted
<1>5. \A u \in Task : u # t => tasks'[u] = tasks[u]
  <2>1. DOMAIN tasks = Task  BY <1>3, Zenon DEF Tree
  <2>2. tasks' = tasks \/ \E i : tasks' = [tasks EXCEPT ![t][i] = what]  BY <1>1, Zenon DEF Step
  <2> QED  BY <2>1, <2>2
<1>6. \A u \in Task : parent[u] # None => parent'[u] # None
  <2>1. CASE parent' = parent  BY <2>1
  <2>2. CASE \E c \in Task : Begin(t, c)
    <3>1. PICK c \in Task : Begin(t, c)  BY <2>2
    <3>2. parent' = [parent EXCEPT ![c] = t] /\ parent[c] = None  BY <3>1, Zenon DEF Begin, InUse
    <3>3. parent \in [Task -> Finite \cup {None}]  BY <1>3, Zenon DEF Tree
    <3> QED  BY <3>2, <3>3
  <2>3. CASE Done(t)  BY <2>1, <2>3, Zenon DEF Done
  <2> QED  BY <1>1, <2>2, <2>3
<1>7. \A v \in Variable : ~Bad(v)'  BY <1>2, NoneComesBad, Zenon
<1>8. Sizeless' /\ LoadsFirst' /\ \A i \in DOMAIN notices' : notices'[i].of = t
  <2>1. t \notin Variable  BY <1>2, SMT DEF Finite, Variable
  <2> QED  BY <1>2, <1>7, <2>1, SizelessSaid
<1>9. (Left /\ Used)'  BY <1>2, <1>4, <1>5, <1>6, <1>8, BaseCall, Zenon
<1> QED  BY <1>4, <1>8, <1>9 DEF Ground

LEMMA BaseRestart ==
    ASSUME BaseInv, NEW t \in Task, Restart(t)
    PROVE  Ground'
<1> DEFINE ts == Restarted(t)
<1>1. Tree /\ Counted /\ Left /\ Used /\ Sizeless  BY DEF BaseInv, Ground
<1>2. /\ notices = <<>> /\ notices' = notices /\ parent' = parent
      /\ t = Root \/ retired' = retired
      /\ t = Root => retired' = {u \in Task : parent[u] # None}
      /\ \A u \in Task : /\ started'[u] <=> started[u] /\ (u \in ts => ~completed[u])
                         /\ completed'[u] <=> completed[u] /\ u \notin ts
      /\ \A u \in Task : u \notin ts => tasks'[u] = tasks[u]
  BY <1>1, RestartIs
<1>3. /\ current' = [u \in Task |-> IF u \in ts THEN 0 ELSE current[u]] /\ max' = max /\ InUse(t)
      /\ shown' = [u \in Task |-> IF u \in Family(t) THEN 0 ELSE shown[u]]
  BY Zenon DEF Restart, Turn
<1>4. \A u \in ts : u = t \/ parent[u] # None  BY <1>1, FamilyIs
<1> HIDE DEF ts
<1>5. /\ retired \subseteq Task /\ max \in [Task -> Nat] /\ current \in [Task -> Nat]
      /\ \A u \in Task : current[u] <= max[u]
  BY <1>1, Zenon DEF Counted
<1>6. DOMAIN notices' = {}  BY <1>2, PairIs
<1>7. Counted'
  <2>1. \A u \in Task : current'[u] \in Nat /\ current'[u] <= max[u]
    <3> SUFFICES ASSUME NEW u \in Task PROVE current'[u] \in Nat /\ current'[u] <= max[u]  OBVIOUS
    <3>1. current'[u] = 0 \/ current'[u] = current[u]  BY <1>3
    <3>2. current[u] \in Nat /\ max[u] \in Nat /\ current[u] <= max[u]  BY <1>5
    <3> QED  BY <3>1, <3>2, SMT
  <2>2. current' = [u \in Task |-> current'[u]]  BY <1>3, Zenon
  <2>3. current' \in [Task -> Nat]  BY <2>1, <2>2, Zenon
  <2>4. retired' \subseteq Task  BY <1>2, <1>5
  <2> QED  BY <1>3, <1>5, <2>1, <2>3, <2>4, Zenon DEF Counted
<1>8. Left'
  <2>1. \A u \in retired' : u \in Task /\ parent[u] # None
    <3>1. CASE t = Root  BY <1>2, <3>1
    <3>2. CASE t # Root  BY <1>1, <1>2, <3>2, Zenon DEF Left
    <3> QED  BY <3>1, <3>2
  <2> QED  BY <1>2, <2>1, Zenon DEF Left
<1>9. Used'
  <2>1. ASSUME NEW u \in Task, ~InUse(u) PROVE ~started'[u] /\ tasks'[u] = <<>> /\ shown'[u] = 0
    <3>1. ~started[u] /\ tasks[u] = <<>> /\ shown[u] = 0  BY <1>1, <2>1, Zenon DEF Used
    <3>2. u \notin ts  BY <1>3, <1>4, <2>1, Zenon DEF InUse
    <3>3. ~started'[u] /\ tasks'[u] = <<>>  BY <1>2, <3>1, <3>2
    <3>4. shown'[u] = 0  BY <1>3, <3>1
    <3> QED  BY <3>3, <3>4
  <2>2. \A u : InUse(u)' <=> InUse(u)  BY <1>2, Zenon DEF InUse
  <2>3. DOMAIN shown' = Task  BY <1>3, Zenon
  <2> QED  BY <1>6, <2>1, <2>2, <2>3, Zenon DEF Used
<1>10. Sizeless' /\ LoadsFirst'
  <2>1. ASSUME NEW v \in Variable, Bad(v)' PROVE FALSE
    <3>1. v \in Task /\ started'[v] /\ ~completed'[v] /\ max[v] = 0  BY <1>3, <2>1, Zenon DEF Bad, Variable
    <3>2. Bad(v)  BY <1>2, <3>1, Zenon DEF Bad
    <3> QED  BY <1>1, <1>2, <3>1, <3>2, NoneBad
  <2> QED  BY <1>6, <2>1, NoneStarts
<1> QED  BY <1>7, <1>8, <1>9, <1>10 DEF Ground

LEMMA BaseStill ==
    ASSUME BaseInv, Calls \/ Listens \/ UNCHANGED vars
    PROVE  Ground'
<1>1. /\ parent' = parent /\ started' = started /\ completed' = completed /\ tasks' = tasks
      /\ max' = max /\ current' = current /\ notices' = notices /\ retired' = retired /\ shown' = shown
  BY Zenon DEF Calls, Listens, treeVars, vars
<1>2. Counted /\ Left /\ Used /\ LoadsFirst /\ Sizeless  BY DEF BaseInv, Ground
<1>3. Counted' /\ Left'  BY <1>1, <1>2, Zenon DEF Counted, Left
<1>4. Used'
  <2>1. \A u : InUse(u)' <=> InUse(u)  BY <1>1, Zenon DEF InUse
  <2> QED  BY <1>1, <1>2, <2>1, Zenon DEF Used
<1>5. LoadsFirst'  BY <1>1, <1>2, Zenon DEF LoadsFirst, Variable, Is
<1>6. Sizeless'
  <2>1. \A k, t : Pending(k, t)' <=> Pending(k, t)  BY <1>1, Zenon DEF Pending, Is
  <2>2. \A v : Bad(v)' <=> Bad(v)  BY <1>1, Zenon DEF Bad, Variable
  <2> QED  BY <1>2, <2>1, <2>2, SizelessKeeps, Zenon
<1> QED  BY <1>3, <1>4, <1>5, <1>6 DEF Ground

LEMMA BaseInit == Init => BaseInv
<1> SUFFICES ASSUME Init PROVE BaseInv  OBVIOUS
<1>1. /\ parent = [t \in Task |-> None] /\ started = [t \in Task |-> FALSE] /\ completed = [t \in Task |-> FALSE]
      /\ tasks = [t \in Task |-> <<>>] /\ taskIndex = [t \in Task |-> 0] /\ notices = <<>> /\ retired = {}
      /\ max = [t \in Task |-> 0] /\ current = [t \in Task |-> 0] /\ shown = [t \in Task |-> 0]
  BY Zenon DEF Init
<1>2. DOMAIN notices = {}  BY <1>1, PairIs
<1>3. Tree
  <2>1. \A t \in Task : t # None  BY RootAssumption, SMT
  <2>2. parent \in [Task -> Finite \cup {None}] /\ parent[Root] = None /\ \A t \in Task : parent[t] # t
    BY <1>1, <2>1, RootAssumption DEF Finite
  <2>3. \A t \in Task : tasks[t] \in Seq(Steps(t))
    <3>1. \A S : <<>> \in Seq(S)  OBVIOUS
    <3> QED  BY <1>1, <3>1, Zenon
  <2>4. started \in [Task -> BOOLEAN] /\ completed \in [Task -> BOOLEAN] /\ taskIndex \in [Task -> Nat] /\ DOMAIN tasks = Task
    BY <1>1
  <2>5. IsList(notices)  BY <1>1, InOnes
  <2> QED  BY <2>2, <2>3, <2>4, <2>5, Zenon DEF Tree
<1>4. Counted
  <2>1. max \in [Task -> Nat] /\ current \in [Task -> Nat] /\ \A t \in Task : current[t] <= max[t]  BY <1>1, SMT
  <2> QED  BY <1>1, <2>1, Zenon DEF Counted
<1>5. Left /\ LoadsFirst  BY <1>1, <1>2, Zenon DEF Left, LoadsFirst
<1>6. Used
  <2>1. \A t \in Task : ~started[t] /\ tasks[t] = <<>> /\ shown[t] = 0  BY <1>1
  <2> QED  BY <1>1, <1>2, <2>1, Zenon DEF Used
<1>7. Sizeless
  <2>1. \A v \in Variable : ~Bad(v) /\ ~Pending("started", v)
    <3>1. \A v \in Variable : ~started[v]  BY <1>1 DEF Variable
    <3> QED  BY <1>2, <3>1, Zenon DEF Bad, Pending
  <2> QED  BY <2>1, Zenon DEF Sizeless
<1> QED  BY <1>3, <1>4, <1>5, <1>6, <1>7, ToldInit, DeepInit DEF BaseInv, Ground

LEMMA BaseStep == BaseInv /\ [Next]_vars => BaseInv'
<1> SUFFICES ASSUME BaseInv, [Next]_vars PROVE BaseInv'  OBVIOUS
<1>1. Told /\ Deep /\ Tree  BY DEF BaseInv
<1>2. Told' /\ Deep'  BY <1>1, ToldStep, DeepStep
<1>3. Tree'  BY <1>1, <1>2, TreeStep
<1>4. Ground'
  <2>1. CASE Give  BY <2>1, BaseGive
  <2>2. CASE Calls \/ Listens \/ UNCHANGED vars  BY <2>2, BaseStill
  <2>3. CASE \E t \in Task : Work(t)
    <3>1. PICK t \in Task : Work(t)  BY <2>3
    <3> QED
      BY <3>1, BasePlain, BaseUpdates, BaseFail, BaseSetMax, BaseSteps, BaseRestart, Zenon DEF Work
  <2> QED  BY <2>1, <2>2, <2>3 DEF Next
<1> QED  BY <1>2, <1>3, <1>4 DEF BaseInv

(***************************************************************************)
(* What waits to be told, where no sub-task of an earlier path has been    *)
(* worked on since the last restart.                                       *)
(***************************************************************************)
\* While a sub-task is worked on, its parent has started, or will before the sub-task says anything.
Living ==
    /\ \A t \in Task : parent[t] # None /\ t \notin retired =>
          /\ parent[t] \notin retired
          /\ started[parent[t]] \/ Pending("started", parent[t])
    /\ \A i \in DOMAIN notices : notices[i].kind = "started" => notices[i].of \in Task \ retired

\* Who is about to start sends an update afterwards; a download starts first.
StartsFirst ==
    \A t \in Task : \A i \in DOMAIN notices : Is(notices[i], "started", t) =>
        /\ started[t] \/ \E j \in DOMAIN notices : j > i /\ Is(notices[j], "update", t)
        /\ t \in Variable => i = 1 /\ ~completed[t]

\* A task whose steps are done and that has not completed has been notified of it.
Due(t) == t \notin retired /\ tasks[t] # <<>> /\ StepsDone(t)
Owed ==
    \A t \in Finite : started[t] /\ Due(t) /\ ~completed[t] => Pending("update", t) \/ Pending("completed", t)

TellInv == Tree /\ Living /\ StartsFirst /\ Owed

LEMMA LivingIs ==
    /\ Living <=> /\ \A t \in Task : parent[t] # None /\ t \notin retired =>
                      parent[t] \notin retired /\ (started[parent[t]] \/ Pending("started", parent[t]))
                 /\ \A t : Pending("started", t) => t \in Task \ retired
    /\ Living' <=> /\ \A t \in Task : parent'[t] # None /\ t \notin retired' =>
                      parent'[t] \notin retired' /\ (started'[parent'[t]] \/ In(notices', "started", parent'[t]))
                  /\ \A t : Pending("started", t)' => t \in Task \ retired'
<1>1. (\A i \in DOMAIN notices : notices[i].kind = "started" => notices[i].of \in Task \ retired)
        <=> \A t : Pending("started", t) => t \in Task \ retired
  BY Zenon DEF Pending, Is
<1>2. (\A i \in DOMAIN notices' : notices'[i].kind = "started" => notices'[i].of \in Task \ retired')
        <=> \A t : Pending("started", t)' => t \in Task \ retired'
  BY Zenon DEF Pending, Is
<1>3. Living' <=> /\ \A t \in Task : parent'[t] # None /\ t \notin retired' =>
                      parent'[t] \notin retired' /\ (started'[parent'[t]] \/ In(notices', "started", parent'[t]))
                  /\ \A i \in DOMAIN notices' : notices'[i].kind = "started" => notices'[i].of \in Task \ retired'
  BY Zenon DEF Living, Pending, Is, In
<1> QED  BY <1>1, <1>2, <1>3, Zenon DEF Living

LEMMA StartsKeeps ==
    ASSUME StartsFirst, IsList(notices), notices # <<>>, NEW new, IsList(new), Gives(new),
           \A t \in Task : started[t] => started'[t],
           \A t \in Task : In(new, "started", t) =>
              /\ t \notin Variable
              /\ started'[t] \/ \E j \in DOMAIN notices : j # 1 /\ Is(notices[j], "update", t)
    PROVE  StartsFirst'
<1> DEFINE p == notices'
           q == notices
           m == Len(new)
<1>1. /\ m \in Nat
      /\ \A i \in DOMAIN new : i \in DOMAIN p /\ p[i] = new[i] /\ i <= m
      /\ \A i \in DOMAIN q : i \in Nat /\ (i # 1 => i - 1 + m \in DOMAIN p /\ p[i - 1 + m] = q[i] /\ i > 1)
      /\ \A k \in DOMAIN p : \/ k \in DOMAIN new /\ p[k] = new[k]
                             \/ \E i \in DOMAIN q : i # 1 /\ k = i - 1 + m /\ p[k] = q[i]
      /\ IsList(p)
  BY GivenIs
<1>2. DOMAIN new = 1 .. m  BY ListIs
<1> SUFFICES ASSUME NEW t \in Task, NEW k \in DOMAIN p, Is(p[k], "started", t)
             PROVE  /\ started'[t] \/ \E j \in DOMAIN p : j > k /\ Is(p[j], "update", t)
                    /\ t \in Variable => k = 1 /\ ~completed'[t]
  BY Zenon DEF StartsFirst, Is, Variable
<1> HIDE DEF p, m
<1>3. CASE k \in DOMAIN new /\ p[k] = new[k]
  <2>1. In(new, "started", t)  BY <1>3, Zenon DEF In
  <2>2. CASE started'[t]  BY <2>1, <2>2
  <2>3. CASE \E j \in DOMAIN q : j # 1 /\ Is(q[j], "update", t)
    <3>1. PICK j : j \in DOMAIN q /\ j # 1 /\ Is(q[j], "update", t)  BY <2>3
    <3> HIDE DEF q
    <3>2. j - 1 + m \in DOMAIN p /\ p[j - 1 + m] = q[j] /\ j > 1 /\ j \in Nat  BY <1>1, <3>1, Zenon
    <3>3. j - 1 + m > k  BY <1>1, <1>2, <1>3, <3>2, SMT
    <3> QED  BY <2>1, <3>1, <3>2, <3>3, Zenon
  <2> QED  BY <2>1, <2>2, <2>3, Zenon
<1>4. CASE \E i \in DOMAIN q : i # 1 /\ k = i - 1 + m /\ p[k] = q[i]
  <2>1. PICK i : i \in DOMAIN q /\ i # 1 /\ k = i - 1 + m /\ p[k] = q[i]  BY <1>4
  <2>2. /\ started[t] \/ \E j \in DOMAIN q : j > i /\ Is(q[j], "update", t)
        /\ t \notin Variable
    BY <2>1, Zenon DEF StartsFirst
  <2>3. CASE started[t]  BY <2>2, <2>3
  <2>4. CASE \E j \in DOMAIN q : j > i /\ Is(q[j], "update", t)
    <3>1. PICK j : j \in DOMAIN q /\ j > i /\ Is(q[j], "update", t)  BY <2>4
    <3> HIDE DEF q
    <3>2. i \in Nat /\ j \in Nat /\ i > 1  BY <1>1, <2>1, <3>1, Zenon
    <3>3. j # 1  BY <3>1, <3>2, SMT
    <3>4. j - 1 + m \in DOMAIN p /\ p[j - 1 + m] = q[j]  BY <1>1, <3>1, <3>3, Zenon
    <3>5. j - 1 + m > k  BY <1>1, <2>1, <3>1, <3>2, SMT
    <3> QED  BY <2>2, <3>1, <3>4, <3>5, Zenon
  <2> QED  BY <2>2, <2>3, <2>4
<1> QED  BY <1>1, <1>3, <1>4

LEMMA TellGiven ==
    ASSUME TellInv, notices # <<>>, NEW new, IsList(new), Gives(new),
           parent' = parent, tasks' = tasks, taskIndex' = taskIndex, retired' = retired,
           started' \in [Task -> BOOLEAN], completed' \in [Task -> BOOLEAN],
           \A t \in Task : started[t] \/ Is(Head(notices), "started", t) => started'[t],
           \A t : In(new, "started", t) =>
              /\ t \in Task /\ t \notin retired /\ t \notin Variable
              /\ started'[t] \/ \E j \in DOMAIN notices : j # 1 /\ Is(notices[j], "update", t),
           \A t \in Finite : started'[t] /\ Due(t)' /\ ~completed'[t] => Pending("update", t)' \/ Pending("completed", t)'
    PROVE  TellInv'
<1>1. IsList(notices)  BY Zenon DEF TellInv, Tree
<1>2. IsList(notices')  BY <1>1, GivenIs
<1>3. Tree'
  <2>1. parent \in [Task -> Finite \cup {None}] /\ parent[Root] = None /\ \A t \in Task : parent[t] # t
    BY Zenon DEF TellInv, Tree
  <2>2. DOMAIN tasks = Task /\ taskIndex \in [Task -> Nat] /\ \A t \in Task : tasks[t] \in Seq(Steps(t))
    BY Zenon DEF TellInv, Tree
  <2>3. \A t \in Task : Steps(t)' = Steps(t)  BY Zenon DEF Steps
  <2> QED  BY <1>2, <2>1, <2>2, <2>3, Zenon DEF Tree, Finite
<1>4. StartsFirst'
  BY <1>1, StartsKeeps, Zenon DEF TellInv
<1>5. Living'
  <2>1. ASSUME NEW t \in Task, parent[t] # None, t \notin retired
        PROVE  /\ parent[t] \notin retired
               /\ started'[parent[t]] \/ Pending("started", parent[t])'
    <3>1. parent[t] \in Task  BY <2>1, Zenon DEF TellInv, Tree, Finite
    <3>2. parent[t] \notin retired /\ (started[parent[t]] \/ Pending("started", parent[t]))
      BY <2>1, Zenon DEF TellInv, Living
    <3>3. Pending("started", parent[t]) /\ ~Is(Head(notices), "started", parent[t]) => Pending("started", parent[t])'
      BY <1>1, PendingIs
    <3> QED  BY <3>1, <3>2, <3>3, Zenon
  <2>9. \A u : Pending("started", u)' <=> In(notices', "started", u)  BY Zenon DEF Pending, In, Is
  <2>2. ASSUME NEW t, Pending("started", t)' PROVE t \in Task \ retired
    <3>1. Pending("started", t) \/ In(new, "started", t)  BY <1>1, <2>2, PendingIs
    <3> QED  BY <3>1, LivingIs, Zenon DEF TellInv
  <2> QED  BY <2>1, <2>2, <2>9, LivingIs, Zenon
<1>6. Owed'
  BY Zenon DEF Owed, Finite
<1> QED  BY <1>3, <1>4, <1>5, <1>6 DEF TellInv

\* What a notice that changes no task leaves owed.
LEMMA OwedKeeps ==
    ASSUME TellInv, notices # <<>>, NEW new, IsList(new), Gives(new),
           tasks' = tasks, started' = started, completed' = completed,
           \A t : ~In(new, "started", t), parent' = parent, taskIndex' = taskIndex, retired' = retired,
           \A t \in Task : ~Is(Head(notices), "started", t) \/ started[t],
           \A t \in Finite : started[t] /\ Due(t) /\ ~completed[t]
                             /\ (Is(Head(notices), "update", t) \/ Is(Head(notices), "completed", t))
                                => In(new, "update", t) \/ In(new, "completed", t)
    PROVE  TellInv'
<1>1. IsList(notices)  BY Zenon DEF TellInv, Tree
<1>2. started' \in [Task -> BOOLEAN] /\ completed' \in [Task -> BOOLEAN]  BY Zenon DEF TellInv, Tree
<1>3. ASSUME NEW t \in Finite, started'[t], Due(t)', ~completed'[t]
      PROVE  Pending("update", t)' \/ Pending("completed", t)'
  <2>1. started[t] /\ Due(t) /\ ~completed[t]  BY <1>3, Zenon DEF Due, StepsDone, Slots
  <2>2. Pending("update", t) \/ Pending("completed", t)  BY <2>1, Zenon DEF TellInv, Owed
  <2>3. \A k \in {"update", "completed"} : /\ Pending(k, t) /\ ~Is(Head(notices), k, t) => Pending(k, t)'
                                           /\ In(new, k, t) => Pending(k, t)'
    <3> SUFFICES ASSUME NEW k \in {"update", "completed"}
                 PROVE  /\ Pending(k, t) /\ ~Is(Head(notices), k, t) => Pending(k, t)'
                        /\ In(new, k, t) => Pending(k, t)'
      BY Zenon
    <3> QED  BY <1>1, PendingIs
  <2> QED  BY <2>1, <2>2, <2>3, Zenon
<1> QED  BY <1>2, <1>3, TellGiven, Zenon

\* When nothing waits, nothing is owed.
LEMMA NoneOwed ==
    ASSUME TellInv, notices = <<>>, NEW t \in Finite, started[t], Due(t)
    PROVE  completed[t]
<1>1. \A k, u : ~Pending(k, u)  BY InOnes, Zenon DEF Pending, In
<1> QED  BY <1>1, Zenon DEF TellInv, Owed

LEMMA TellStarted ==
    ASSUME TellInv, notices # <<>>, NEW n, n = Head(notices), NotifyStarted(n)
    PROVE  TellInv'
<1>1. IsList(notices)  BY Zenon DEF TellInv, Tree
<1>2. n.kind = "started" /\ \A k \in {"update", "completed"} : \A t : ~Is(n, k, t)
  BY Zenon, SMT DEF NotifyStarted, Is
<1>3. /\ parent' = parent /\ tasks' = tasks /\ taskIndex' = taskIndex /\ retired' = retired /\ completed' = completed
      /\ \/ started[n.of] /\ Gives(<<>>) /\ started' = started
         \/ /\ ~started[n.of] /\ started' = [started EXCEPT ![n.of] = TRUE]
            /\ Gives(<<Event3("started", n.of, 0)>> \o ToParent("started", n.of))
  BY Zenon DEF NotifyStarted
<1>4. \A t : Is(n, "started", t) <=> t = n.of  BY <1>2, Zenon DEF Is
<1>5. CASE started[n.of] /\ Gives(<<>>) /\ started' = started
  <2> DEFINE new == <<>>
  <2>1. IsList(new) /\ \A l, u : ~In(new, l, u)  BY InOnes
  <2>2. Gives(new)  BY <1>5
  <2> HIDE DEF new
  <2> QED  BY <1>2, <1>3, <1>4, <1>5, <2>1, <2>2, OwedKeeps, Zenon
<1>6. CASE /\ ~started[n.of] /\ started' = [started EXCEPT ![n.of] = TRUE]
           /\ Gives(<<Event3("started", n.of, 0)>> \o ToParent("started", n.of))
  <2> DEFINE t == n.of
             new == <<Event3("started", t, 0)>> \o ToParent("started", t)
  <2>1. IsList(new) /\ \A l \in Others : \A u : In(new, l, u) <=> parent[t] # None /\ l = "started" /\ u = parent[t]
    BY PassedIs
  <2>2. Gives(new)  BY <1>6
  <2> HIDE DEF new, t
  <2>3. started \in [Task -> BOOLEAN] /\ completed \in [Task -> BOOLEAN]  BY Zenon DEF TellInv, Tree
  <2>4. started' \in [Task -> BOOLEAN] /\ \A u \in Task : started'[u] <=> started[u] \/ u = t
    BY <1>6, <2>3 DEF t
  <2>5. Head(notices) = notices[1] /\ 1 \in DOMAIN notices
    <3>1. Len(notices) > 0 /\ Len(notices) \in Nat /\ DOMAIN notices = 1 .. Len(notices) /\ Head(notices) = notices[1]
      BY <1>1, ListIs
    <3> QED  BY <3>1, SMT
  <2>6. Is(notices[1], "started", t) /\ Pending("started", t)
    BY <1>2, <2>5, Zenon DEF t, Is, Pending
  <2>7. ASSUME NEW u, In(new, "started", u)
        PROVE  /\ u \in Task /\ u \notin retired /\ u \notin Variable
               /\ started'[u] \/ \E j \in DOMAIN notices : j # 1 /\ Is(notices[j], "update", u)
    <3>1. u = parent[t] /\ u # None  BY <2>1, <2>7, Zenon DEF Others
    <3>2. t \in Task /\ t \notin retired  BY <2>6, LivingIs, Zenon DEF TellInv
    <3>3. u \in Finite /\ u # t  BY <3>1, <3>2, Zenon DEF TellInv, Tree
    <3>4. u \in Task /\ u \notin Variable  BY <3>3, SMT DEF Finite, Variable
    <3>5. u \notin retired /\ (started[u] \/ Pending("started", u))  BY <3>1, <3>2, Zenon DEF TellInv, Living
    <3>6. ASSUME Pending("started", u), ~started[u]
          PROVE  \E j \in DOMAIN notices : j # 1 /\ Is(notices[j], "update", u)
      <4>1. PICK i : i \in DOMAIN notices /\ Is(notices[i], "started", u)  BY <3>6, Zenon DEF Pending
      <4>2. PICK j : j \in DOMAIN notices /\ j > i /\ Is(notices[j], "update", u)
        BY <3>4, <3>6, <4>1, Zenon DEF TellInv, StartsFirst
      <4>3. i \in Nat /\ i >= 1
        <5>1. DOMAIN notices = 1 .. Len(notices) /\ Len(notices) \in Nat  BY <1>1, ListIs
        <5> QED  BY <4>1, <5>1, SMT
      <4>4. j # 1
        <5>1. DOMAIN notices = 1 .. Len(notices) /\ Len(notices) \in Nat  BY <1>1, ListIs
        <5> QED  BY <4>2, <4>3, <5>1, SMT
      <4> QED  BY <4>2, <4>4, Zenon
    <3> QED  BY <2>4, <3>4, <3>5, <3>6, Zenon
  <2>8. ASSUME NEW u \in Finite, started'[u], Due(u)', ~completed'[u]
        PROVE  Pending("update", u)' \/ Pending("completed", u)'
    <3>1. u \in Task  BY DEF Finite
    <3>2. CASE u = t
      <4>1. ~started[u]  BY <1>6, <3>2 DEF t
      <4>2. PICK j : j \in DOMAIN notices /\ j > 1 /\ Is(notices[j], "update", u)
        BY <2>5, <2>6, <3>1, <3>2, <4>1, Zenon DEF TellInv, StartsFirst
      <4>3. Pending("update", u)  BY <4>2, Zenon DEF Pending
      <4> QED  BY <1>1, <1>2, <2>1, <2>2, <4>3, PendingIs
    <3>3. CASE u # t
      <4>1. started[u] /\ ~completed[u]  BY <1>3, <2>4, <2>8, <3>1, <3>3
      <4>2. ASSUME NEW s \in Slots(u), s # Closed
            PROVE  s # Open /\ completed[s] /\ (s \in Variable => started[s])
        <5>1. s # Open /\ completed[s] /\ (s \in Variable => started'[s])
          BY <1>3, <2>8, <4>2, Zenon DEF Due, StepsDone, Slots
        <5>2. s \in Task  BY <3>1, <4>2, <5>1, SlotsAre DEF TellInv
        <5>3. ASSUME s \in Variable PROVE s # t
          BY <2>5, <2>6, <5>1, <5>2, <5>3, Zenon DEF TellInv, StartsFirst
        <5> QED  BY <2>4, <5>1, <5>2, <5>3
      <4>3. Due(u)  BY <1>3, <2>8, <4>2, Zenon DEF Due, StepsDone
      <4>4. Pending("update", u) \/ Pending("completed", u)  BY <4>1, <4>3, Zenon DEF TellInv, Owed
      <4> QED  BY <1>1, <1>2, <2>1, <2>2, <4>4, PendingIs
    <3> QED  BY <3>2, <3>3
  <2>9. \A u \in Task : started[u] \/ Is(Head(notices), "started", u) => started'[u]
    BY <1>4, <2>4, Zenon DEF t
  <2> QED  BY <1>3, <2>1, <2>2, <2>3, <2>4, <2>7, <2>8, <2>9, TellGiven
<1> QED  BY <1>3, <1>5, <1>6

LEMMA TellUpdate ==
    ASSUME TellInv, Deep, notices # <<>>, NEW n, n = Head(notices), NotifyUpdate(n)
    PROVE  TellInv'
<1>1. IsList(notices)  BY Zenon DEF TellInv, Tree
<1>2. n.kind = "update" /\ \A t : ~Is(n, "started", t) /\ ~Is(n, "completed", t) /\ (Is(n, "update", t) <=> t = n.of)
  BY SMT DEF NotifyUpdate, Is
<1> DEFINE v == GetProgress[n.of]
           new == IF IsCompleted[n.of] THEN <<Notice("completed", n.of)>>
                  ELSE <<Event3("progress", n.of, v)>> \o ToParent("update", n.of)
<1>3. /\ parent' = parent /\ tasks' = tasks /\ taskIndex' = taskIndex /\ retired' = retired
      /\ completed' = completed /\ started' = started /\ Gives(new)
  BY Zenon DEF NotifyUpdate, treeVars
<1> HIDE DEF v
<1>4. IsList(new) /\ (\A t : ~In(new, "started", t)) /\ (IsCompleted[n.of] => In(new, "completed", n.of))
  <2>1. CASE IsCompleted[n.of]
    <3> DEFINE w == <<Notice("completed", n.of)>>
    <3>1. new = w  BY <2>1, Zenon
    <3>2. IsList(w) /\ \A l, u : In(w, l, u) <=> l = "completed" /\ u = n.of  BY InOnes
    <3>3. "started" # "completed"  OBVIOUS
    <3> HIDE DEF w, new
    <3>4. IsList(w) /\ (\A t : ~In(w, "started", t)) /\ In(w, "completed", n.of)
      <4>1. \A t : ~In(w, "started", t)  BY <3>2, <3>3, Zenon
      <4>2. In(w, "completed", n.of) <=> "completed" = "completed" /\ n.of = n.of  BY <3>2
      <4> QED  BY <3>2, <4>1, <4>2
    <3> QED  BY <3>1, <3>4
  <2>2. CASE ~IsCompleted[n.of]
    <3> DEFINE w == <<Event3("progress", n.of, v)>> \o ToParent("update", n.of)
    <3>1. new = w  BY <2>2, Zenon
    <3>2. IsList(w) /\ \A l \in Others : \A u : In(w, l, u) <=> parent[n.of] # None /\ l = "update" /\ u = parent[n.of]
      BY PassedIs
    <3>3. "started" # "update"  OBVIOUS
    <3> HIDE DEF w, new
    <3>4. IsList(w) /\ (\A t : ~In(w, "started", t))  BY <3>2, <3>3, OthersAre, Zenon
    <3> QED  BY <2>2, <3>1, <3>4
  <2> QED  BY <2>1, <2>2
<1> HIDE DEF new
<1>5. ASSUME NEW t \in Finite, started[t], Due(t), t = n.of PROVE In(new, "completed", t)
  BY <1>4, <1>5, StepsDoneIs DEF TellInv, Due
<1> QED  BY <1>1, <1>2, <1>3, <1>4, <1>5, OwedKeeps, Zenon

\* A notice that sets nothing.
LEMMA TellOther ==
    ASSUME TellInv, notices # <<>>, NEW n, n = Head(notices),
           NotifyFailed(n) \/ NotifyLengthyTask(n) \/ FireEvent(n)
    PROVE  TellInv'
<1>1. \A k \in {"started", "update", "completed"} : \A t : ~Is(n, k, t)
  BY SMT DEF NotifyFailed, NotifyLengthyTask, FireEvent, Is
<1>2. ASSUME NEW new, IsList(new), \A t : ~In(new, "started", t), Gives(new), UNCHANGED treeVars, retired' = retired
      PROVE  TellInv'
  <2>1. /\ parent' = parent /\ tasks' = tasks /\ taskIndex' = taskIndex
        /\ completed' = completed /\ started' = started
    BY <1>2, Zenon DEF treeVars
  <2> QED  BY <1>1, <1>2, <2>1, OwedKeeps, Zenon
<1>3. ASSUME NEW k, k # "started", NEW e, NEW v, Gives(<<Event3(e, n.of, v)>> \o ToParent(k, n.of)), UNCHANGED treeVars, retired' = retired
      PROVE  TellInv'
  <2> DEFINE new == <<Event3(e, n.of, v)>> \o ToParent(k, n.of)
  <2>1. IsList(new) /\ \A l \in Others : \A u : In(new, l, u) <=> parent[n.of] # None /\ l = k /\ u = parent[n.of]
    BY PassedIs
  <2>2. Gives(new)  BY <1>3
  <2> HIDE DEF new
  <2>3. \A t : ~In(new, "started", t)  BY <1>3, <2>1, OthersAre, Zenon
  <2> QED  BY <1>2, <1>3, <2>1, <2>2, <2>3
<1>4. CASE NotifyFailed(n)
  <2>1. Gives(<<Event3("failed", n.of, 0)>> \o ToParent("failed", n.of)) /\ UNCHANGED treeVars /\ retired' = retired
    BY <1>4, Zenon DEF NotifyFailed
  <2> QED  BY <1>3, <2>1
<1>5. CASE NotifyLengthyTask(n)
  <2>1. Gives(<<Event3("lengthyTask", n.of, 0)>> \o ToParent("lengthy", n.of)) /\ UNCHANGED treeVars /\ retired' = retired
    BY <1>5, Zenon DEF NotifyLengthyTask
  <2> QED  BY <1>3, <2>1
<1>6. CASE FireEvent(n)
  <2> DEFINE new == <<>>
             u == Tail(notices)
  <2>1. IsList(new) /\ \A t : ~In(new, "started", t)  BY InOnes
  <2>2. notices' = u /\ UNCHANGED treeVars /\ retired' = retired  BY <1>6, Zenon DEF FireEvent
  <2>3. \E S : u \in Seq(S)
    <3>1. IsList(u)  BY ListIs DEF TellInv, Tree
    <3> QED  BY <3>1 DEF IsList
  <2> HIDE DEF u
  <2>4. <<>> \o u = u  BY <2>3, ConcatEmptySeq
  <2>5. Gives(new)  BY <2>2, <2>4 DEF Gives, u
  <2> HIDE DEF new
  <2> QED  BY <1>2, <2>1, <2>2, <2>5
<1> QED  BY <1>4, <1>5, <1>6

LEMMA TellCompleted ==
    ASSUME TellInv, notices # <<>>, NEW n, n = Head(notices), NotifyCompleted(n)
    PROVE  TellInv'
<1>1. IsList(notices)  BY Zenon DEF TellInv, Tree
<1>2. n.kind = "completed" /\ \A t : ~Is(n, "started", t) /\ ~Is(n, "update", t) /\ (Is(n, "completed", t) <=> t = n.of)
  BY SMT DEF NotifyCompleted, Is
<1>3. /\ parent' = parent /\ tasks' = tasks /\ taskIndex' = taskIndex /\ retired' = retired /\ started' = started
      /\ \/ completed[n.of] /\ Gives(<<>>) /\ completed' = completed
         \/ /\ ~completed[n.of] /\ completed' = [completed EXCEPT ![n.of] = TRUE]
            /\ Gives(<<Event3("progress", n.of, Unit), Event3("completed", n.of, Unit)>> \o ToParent("update", n.of))
  BY Zenon DEF NotifyCompleted
<1>4. CASE completed[n.of] /\ Gives(<<>>) /\ completed' = completed
  <2> DEFINE new == <<>>
  <2>1. IsList(new) /\ \A l, u : ~In(new, l, u)  BY InOnes
  <2>2. Gives(new)  BY <1>4
  <2> HIDE DEF new
  <2> QED  BY <1>2, <1>3, <1>4, <2>1, <2>2, OwedKeeps, Zenon
<1>5. CASE /\ ~completed[n.of] /\ completed' = [completed EXCEPT ![n.of] = TRUE]
           /\ Gives(<<Event3("progress", n.of, Unit), Event3("completed", n.of, Unit)>> \o ToParent("update", n.of))
  <2> DEFINE t == n.of
             new == <<Event3("progress", t, Unit), Event3("completed", t, Unit)>> \o ToParent("update", t)
  <2>1. IsList(new) /\ \A l \in Others : \A u : In(new, l, u) <=> parent[t] # None /\ l = "update" /\ u = parent[t]
    BY PassedIs
  <2>2. Gives(new)  BY <1>5
  <2> HIDE DEF new, t
  <2>3. started \in [Task -> BOOLEAN] /\ completed \in [Task -> BOOLEAN]  BY Zenon DEF TellInv, Tree
  <2>4. completed' \in [Task -> BOOLEAN] /\ \A u \in Task : completed'[u] <=> completed[u] \/ u = t
    BY <1>5, <2>3 DEF t
  <2>5. \A u : ~In(new, "started", u)
    <3>1. "started" # "update"  OBVIOUS
    <3> QED  BY <2>1, <3>1, OthersAre, Zenon
  <2>6. ASSUME NEW u \in Finite, started'[u], Due(u)', ~completed'[u]
        PROVE  Pending("update", u)' \/ Pending("completed", u)'
    <3>1. u \in Task  BY DEF Finite
    <3>2. started[u] /\ ~completed[u] /\ u # t  BY <1>3, <2>4, <2>6, <3>1
    <3>3. ASSUME NEW s \in Slots(u), s # Closed
          PROVE  s # Open /\ s \in Task /\ parent[s] = u /\ completed'[s] /\ (s \in Variable => started[s])
      <4>1. s # Open /\ completed'[s] /\ (s \in Variable => started[s])
        BY <1>3, <2>6, <3>3, Zenon DEF Due, StepsDone, Slots
      <4> QED  BY <3>1, <3>3, <4>1, SlotsAre DEF TellInv
    <3>4. CASE \A s \in Slots(u) : s # Closed => s # t
      <4>1. Due(u)  BY <1>3, <2>4, <2>6, <3>3, <3>4, Zenon DEF Due, StepsDone
      <4>2. Pending("update", u) \/ Pending("completed", u)  BY <3>2, <4>1, Zenon DEF TellInv, Owed
      <4>3. ~Is(n, "update", u) /\ ~Is(n, "completed", u)  BY <1>2, <3>2, Zenon DEF t
      <4> QED  BY <1>1, <2>1, <2>2, <4>2, <4>3, PendingIs
    <3>5. ASSUME NEW s \in Slots(u), s # Closed, s = t PROVE Pending("update", u)'
      <4>1. parent[t] = u /\ u # None
        <5>1. u # None  BY <3>1, RootAssumption, SMT
        <5> QED  BY <3>3, <3>5, <5>1
      <4>2. In(new, "update", u)  BY <2>1, <4>1, OthersAre, Zenon
      <4> QED  BY <1>1, <2>1, <2>2, <4>2, PendingIs
    <3> QED  BY <3>4, <3>5, Zenon
  <2>7. \A u \in Task : started[u] \/ Is(Head(notices), "started", u) => started'[u]
    BY <1>2, <1>3, Zenon
  <2> QED  BY <1>3, <2>1, <2>2, <2>3, <2>4, <2>5, <2>6, <2>7, TellGiven
<1> QED  BY <1>3, <1>4, <1>5

LEMMA TellGive == TellInv /\ Deep /\ Give => TellInv'
<1> SUFFICES ASSUME TellInv, Deep, Give PROVE TellInv'  OBVIOUS
<1> DEFINE n == Head(notices)
<1>1. notices # <<>> /\ (NotifyStarted(n) \/ NotifyUpdate(n) \/ NotifyCompleted(n)
                         \/ NotifyFailed(n) \/ NotifyLengthyTask(n) \/ FireEvent(n))
  BY Zenon DEF Give
<1> QED  BY <1>1, TellStarted, TellUpdate, TellCompleted, TellOther, Zenon

\* A call that starts nothing over.
LEMMA TellCall ==
    ASSUME TellInv, notices = <<>>, Tree', Owed', retired' = retired, started' = started,
           \A u \in Task : parent'[u] = parent[u] \/ (parent'[u] \notin retired /\ In(notices', "started", parent'[u])),
           \/ \E t \in Task \ retired : Says(t, <<"started", "update">>) /\ (t \in Variable => ~completed'[t])
           \/ \A t : ~In(notices', "started", t)
    PROVE  TellInv'
<1>1. \A k, u : ~Pending(k, u)  BY InOnes, Zenon DEF Pending, In
<1>2. ASSUME NEW u, In(notices', "started", u) PROVE u \in Task \ retired
  <2>1. PICK t : t \in Task \ retired /\ Says(t, <<"started", "update">>)  BY <1>2
  <2>2. u = t  BY <1>2, <2>1, SaidIs, Zenon DEF In
  <2> QED  BY <2>1, <2>2
<1>3. \A k, u : Pending(k, u)' <=> In(notices', k, u)  BY Zenon DEF Pending, In, Is
<1>4. Living'
  <2>1. ASSUME NEW u \in Task, parent'[u] # None, u \notin retired
        PROVE  parent'[u] \notin retired /\ (started'[parent'[u]] \/ In(notices', "started", parent'[u]))
    BY <1>1, <2>1, Zenon DEF TellInv, Living
  <2> QED  BY <1>2, <1>3, <2>1, LivingIs, Zenon
<1>5. StartsFirst'
  <2> SUFFICES ASSUME NEW u \in Task, NEW i \in DOMAIN notices', Is(notices'[i], "started", u)
               PROVE  /\ started'[u] \/ \E j \in DOMAIN notices' : j > i /\ Is(notices'[j], "update", u)
                      /\ u \in Variable => i = 1 /\ ~completed'[u]
    BY Zenon DEF StartsFirst, Is, Variable
  <2>1. In(notices', "started", u)  BY Zenon DEF In
  <2>2. PICK t : t \in Task \ retired /\ Says(t, <<"started", "update">>) /\ (t \in Variable => ~completed'[t])  BY <2>1
  <2>3. i = 1 /\ u = t  BY <2>2, SaidIs, Zenon
  <2>4. 2 \in DOMAIN notices' /\ notices'[2] = Notice("update", t)  BY <2>2, SaidIs
  <2>5. 2 > 1 /\ Is(Notice("update", t), "update", t)  BY SMT DEF Is, Notice
  <2>6. \E j \in DOMAIN notices' : j > i /\ Is(notices'[j], "update", u)  BY <2>3, <2>4, <2>5
  <2> QED  BY <2>2, <2>3, <2>6
<1> QED  BY <1>4, <1>5 DEF TellInv

LEMMA TellPlain ==
    ASSUME TellInv, NEW t \in Task \ retired, Doing(t) \/ Complete(t) \/ MarkLengthy(t) \/ Update(t)
    PROVE  TellInv'
<1>1. /\ notices = <<>> /\ t \notin retired /\ retired' = retired /\ parent' = parent /\ tasks' = tasks
      /\ taskIndex' = taskIndex /\ started' = started /\ completed' = completed
      /\ (Runs(t) /\ Says(t, <<"started", "update">>)) \/ Says(t, <<"completed">>) \/ Says(t, <<"lengthy">>)
  BY Zenon DEF Doing, Complete, MarkLengthy, Update, Works, Turn, treeVars
<1>2. IsList(notices') /\ ((Runs(t) /\ Says(t, <<"started", "update">>)) \/ \A u : ~In(notices', "started", u))
  <2>1. CASE Runs(t) /\ Says(t, <<"started", "update">>)  BY <2>1, SaidIs
  <2>2. ASSUME NEW k, k # "started", Says(t, <<k>>) PROVE IsList(notices') /\ \A u : ~In(notices', "started", u)
    <3> DEFINE w == <<Notice(k, t)>>
    <3>1. notices' = w  BY <2>2, SMT DEF Says
    <3>2. IsList(w) /\ \A l, u : In(w, l, u) <=> l = k /\ u = t  BY InOnes
    <3> HIDE DEF w
    <3> QED  BY <2>2, <3>1, <3>2
  <2>3. "lengthy" # "started" /\ "completed" # "started"  OBVIOUS
  <2> QED  BY <1>1, <2>1, <2>2, <2>3
<1>3. Tree'
  <2>1. started \in [Task -> BOOLEAN] /\ completed \in [Task -> BOOLEAN] /\ Tree  BY Zenon DEF TellInv, Tree
  <2> QED  BY <1>1, <1>2, <2>1, TreeSame
<1>4. Owed'
  <2>1. \A u \in Finite : Due(u)' <=> Due(u)  BY <1>1, Zenon DEF Due, StepsDone, Slots
  <2>2. \A u \in Finite : started[u] /\ Due(u) => completed[u]  BY <1>1, NoneOwed, Zenon
  <2> QED  BY <1>1, <2>1, <2>2, Zenon DEF Owed, Finite
<1>5. \/ \E u \in Task \ retired : Says(u, <<"started", "update">>) /\ (u \in Variable => ~completed'[u])
      \/ \A u : ~In(notices', "started", u)
  <2>1. CASE \A u : ~In(notices', "started", u)  BY <2>1
  <2>2. CASE ~\A u : ~In(notices', "started", u)
    <3>1. Runs(t) /\ Says(t, <<"started", "update">>)  BY <1>2, <2>2
    <3> QED  BY <1>1, <3>1, Zenon DEF Runs
  <2> QED  BY <2>1, <2>2
<1> QED  BY <1>1, <1>3, <1>4, <1>5, TellCall

LEMMA TellDone ==
    ASSUME TellInv, NEW t \in Task \ retired, Done(t)
    PROVE  TellInv'
<1>1. /\ notices = <<>> /\ t \notin retired /\ t \in Finite /\ Step(t, Closed) /\ Says(t, <<"started", "update">>)
      /\ retired' = retired /\ parent' = parent /\ started' = started /\ completed' = completed
  BY Zenon DEF Done, Works, Turn
<1>2. Tree  BY DEF TellInv
<1>3. /\ DOMAIN tasks' = Task /\ taskIndex' \in [Task -> Nat] /\ tasks'[t] \in Seq(Steps(t))
      /\ \A u \in Task : u # t => tasks'[u] = tasks[u]
  <2>1. DOMAIN tasks = Task /\ taskIndex \in [Task -> Nat] /\ tasks[t] \in Seq(Steps(t)) /\ Closed \in Steps(t)
    BY <1>2, Zenon DEF Tree, Steps
  <2> QED  BY <1>1, <2>1, StepIs
<1>4. Tree'
  <2>1. IsList(notices')  BY <1>1, SaidIs
  <2> QED  BY <1>2, <2>1, TreeDone
<1>5. Owed'
  <2>1. ASSUME NEW u \in Finite, started'[u], Due(u)', ~completed'[u] PROVE Pending("update", u)'
    <3>1. CASE u = t
      <4>1. In(notices', "update", t)  BY <1>1, SaidIs
      <4> QED  BY <3>1, <4>1, Zenon DEF In, Pending, Is
    <3>2. CASE u # t
      <4>1. u \in Task /\ tasks'[u] = tasks[u]  BY <1>3, <3>2 DEF Finite
      <4>2. Due(u)  BY <1>1, <2>1, <4>1, Zenon DEF Due, StepsDone, Slots
      <4>3. completed[u]  BY <1>1, <2>1, <4>2, NoneOwed, Zenon
      <4> QED  BY <1>1, <2>1, <4>3
    <3> QED  BY <3>1, <3>2
  <2> QED  BY <2>1, Zenon DEF Owed, Finite
<1>6. t \notin Variable  BY <1>1, SMT DEF Finite, Variable
<1> QED  BY <1>1, <1>4, <1>5, <1>6, TellCall, Zenon

LEMMA TellBegin ==
    ASSUME TellInv, NEW t \in Task \ retired, NEW c \in Task, Begin(t, c)
    PROVE  TellInv'
<1>1. /\ notices = <<>> /\ t \notin retired /\ t \in Finite /\ Step(t, c) /\ Says(t, <<"started", "update">>)
      /\ parent' = [parent EXCEPT ![c] = t] /\ InUse(t) /\ ~InUse(c)
      /\ retired' = retired /\ started' = started /\ completed' = completed
  BY Zenon DEF Begin, Works, Turn
<1>2. Tree  BY DEF TellInv
<1>3. parent[c] = None /\ c # Root /\ c # t  BY <1>1, Zenon DEF InUse
<1>4. \A u \in Task : parent'[u] = IF u = c THEN t ELSE parent[u]
  <2>1. parent \in [Task -> Finite \cup {None}]  BY <1>2, Zenon DEF Tree
  <2> QED  BY <1>1, <2>1
<1>5. \A u \in Task : Steps(u) \subseteq Steps(u)' /\ (u # t => Steps(u)' = Steps(u)) /\ c \in Steps(t)'
  <2>1. \A u \in Task : u # None  BY RootAssumption, SMT
  <2>2. \A u, x \in Task : parent[x] = u => parent'[x] = u  BY <1>3, <1>4, <2>1, Zenon
  <2>3. \A u, x \in Task : u # t /\ parent'[x] = u => parent[x] = u  BY <1>4, Zenon
  <2>4. parent'[c] = t  BY <1>4
  <2>5. \A u : Steps(u)' = {Open, Closed} \cup {x \in Task : parent'[x] = u}  BY Zenon DEF Steps
  <2>6. \A u : Steps(u) = {Open, Closed} \cup {x \in Task : parent[x] = u}  BY Zenon DEF Steps
  <2>7. \A u \in Task : Steps(u) \subseteq Steps(u)'  BY <2>2, <2>5, <2>6, Zenon
  <2>8. \A u \in Task : u # t => Steps(u)' = Steps(u)
    <3> SUFFICES ASSUME NEW u \in Task, u # t PROVE Steps(u)' = Steps(u)  OBVIOUS
    <3>1. {x \in Task : parent'[x] = u} = {x \in Task : parent[x] = u}  BY <2>2, <2>3
    <3> QED  BY <2>5, <2>6, <3>1
  <2>9. c \in Steps(t)'  BY <2>4, <2>5
  <2> QED  BY <2>7, <2>8, <2>9
<1>6. /\ DOMAIN tasks' = Task /\ taskIndex' \in [Task -> Nat] /\ tasks'[t] \in Seq(Steps(t)')
      /\ \A u \in Task : u # t => tasks'[u] = tasks[u]
  <2> DEFINE S == Steps(t)'
  <2>1. DOMAIN tasks = Task /\ taskIndex \in [Task -> Nat] /\ tasks[t] \in Seq(Steps(t))  BY <1>2, Zenon DEF Tree
  <2>2. Steps(t) \subseteq S /\ c \in S  BY <1>5
  <2> HIDE DEF S
  <2>3. tasks[t] \in Seq(S)  BY <2>1, <2>2, SMT
  <2>4. /\ DOMAIN tasks' = Task /\ taskIndex' \in [Task -> Nat] /\ tasks'[t] \in Seq(S)
        /\ \A u \in Task : u # t => tasks'[u] = tasks[u]
    BY <1>1, <2>1, <2>2, <2>3, StepIs
  <2> QED  BY <2>4 DEF S
<1>7. Tree'
  <2>1. parent \in [Task -> Finite \cup {None}] /\ parent[Root] = None /\ \A u \in Task : parent[u] # u
    BY <1>2, Zenon DEF Tree
  <2>2. parent' \in [Task -> Finite \cup {None}] /\ parent'[Root] = None /\ \A u \in Task : parent'[u] # u
    BY <1>1, <1>3, <1>4, <2>1, RootAssumption DEF Finite
  <2>3. started \in [Task -> BOOLEAN] /\ completed \in [Task -> BOOLEAN]  BY <1>2, Zenon DEF Tree
  <2>4. IsList(notices')  BY <1>1, SaidIs
  <2>5. \A u \in Task : tasks'[u] \in Seq(Steps(u)')
    <3> SUFFICES ASSUME NEW u \in Task PROVE tasks'[u] \in Seq(Steps(u)')  OBVIOUS
    <3>1. CASE u = t  BY <1>6, <3>1
    <3>2. CASE u # t
      <4>1. tasks[u] \in Seq(Steps(u)) /\ Steps(u)' = Steps(u)  BY <1>2, <1>5, <3>2, Zenon DEF Tree
      <4> QED  BY <1>6, <3>2, <4>1
    <3> QED  BY <3>1, <3>2
  <2> QED  BY <1>1, <1>6, <2>2, <2>3, <2>4, <2>5, Zenon DEF Tree, Finite
<1>8. Owed'
  <2>1. ASSUME NEW u \in Finite, started'[u], Due(u)', ~completed'[u] PROVE Pending("update", u)'
    <3>1. CASE u = t
      <4>1. In(notices', "update", t)  BY <1>1, SaidIs
      <4> QED  BY <3>1, <4>1, Zenon DEF In, Pending, Is
    <3>2. CASE u # t
      <4>1. u \in Task /\ tasks'[u] = tasks[u]  BY <1>6, <3>2 DEF Finite
      <4>2. Due(u)  BY <1>1, <2>1, <4>1, Zenon DEF Due, StepsDone, Slots
      <4>3. completed[u]  BY <1>1, <2>1, <4>2, NoneOwed, Zenon
      <4> QED  BY <1>1, <2>1, <4>3
    <3> QED  BY <3>1, <3>2
  <2> QED  BY <2>1, Zenon DEF Owed, Finite
<1>9. t \notin Variable  BY <1>1, SMT DEF Finite, Variable
<1>10. \A u \in Task : parent'[u] = parent[u] \/ (parent'[u] \notin retired /\ In(notices', "started", parent'[u]))
  <2>1. In(notices', "started", t)  BY <1>1, SaidIs
  <2> QED  BY <1>1, <1>4, <2>1, Zenon
<1> QED  BY <1>1, <1>7, <1>8, <1>9, <1>10, TellCall, Zenon

LEMMA TellFail ==
    ASSUME TellInv, NEW t \in Task \ retired, Fail(t)
    PROVE  TellInv'
<1> DEFINE a == <<Notice("failed", t)>>
           b == ToParent("update", t)
<1>1. /\ notices = <<>> /\ t \notin retired /\ notices' = a \o b
      /\ completed' = [completed EXCEPT ![t] = TRUE]
      /\ retired' = retired /\ parent' = parent /\ started' = started /\ tasks' = tasks /\ taskIndex' = taskIndex
  BY Zenon DEF Fail, Works, Turn
<1>2. Tree  BY DEF TellInv
<1>3. /\ IsList(notices') /\ \A u : ~In(notices', "started", u)
      /\ parent[t] # None => In(notices', "update", parent[t])
  <2>1. /\ IsList(a) /\ \A l, u : In(a, l, u) <=> l = "failed" /\ u = t
        /\ IsList(b) /\ \A l, u : In(b, l, u) <=> parent[t] # None /\ l = "update" /\ u = parent[t]
    BY InOnes
  <2> HIDE DEF a, b
  <2>2. IsList(a \o b) /\ \A l, u : In(a \o b, l, u) <=> In(a, l, u) \/ In(b, l, u)  BY <2>1, InJoined
  <2>3. "started" # "failed" /\ "started" # "update"  OBVIOUS
  <2>4. \A u : ~In(a \o b, "started", u)  BY <2>1, <2>2, <2>3, Zenon
  <2>5. ASSUME parent[t] # None PROVE In(a \o b, "update", parent[t])  BY <2>1, <2>2, <2>5
  <2> QED  BY <1>1, <2>2, <2>4, <2>5
<1> HIDE DEF a, b
<1>4. started \in [Task -> BOOLEAN] /\ completed \in [Task -> BOOLEAN]  BY <1>2, Zenon DEF Tree
<1>5. completed' \in [Task -> BOOLEAN] /\ \A u \in Task : completed'[u] <=> completed[u] \/ u = t
  BY <1>1, <1>4
<1>6. Tree'  BY <1>1, <1>2, <1>3, <1>4, <1>5, TreeSame
<1>7. Owed'
  <2>1. ASSUME NEW u \in Finite, started'[u], Due(u)', ~completed'[u] PROVE Pending("update", u)'
    <3>1. u \in Task  BY DEF Finite
    <3>2. started[u] /\ ~completed[u]  BY <1>1, <1>5, <2>1, <3>1
    <3>3. ASSUME NEW s \in Slots(u), s # Closed
          PROVE  s # Open /\ s \in Task /\ parent[s] = u /\ completed'[s] /\ (s \in Variable => started[s])
      <4>1. s # Open /\ completed'[s] /\ (s \in Variable => started[s])
        BY <1>1, <2>1, <3>3, Zenon DEF Due, StepsDone, Slots
      <4> QED  BY <1>2, <3>1, <3>3, <4>1, SlotsAre
    <3>4. CASE \A s \in Slots(u) : s # Closed => s # t
      <4>1. Due(u)  BY <1>1, <1>5, <2>1, <3>3, <3>4, Zenon DEF Due, StepsDone
      <4> QED  BY <1>1, <3>2, <4>1, NoneOwed
    <3>5. ASSUME NEW s \in Slots(u), s # Closed, s = t PROVE Pending("update", u)'
      <4>1. parent[t] = u /\ u # None
        <5>1. u # None  BY <3>1, RootAssumption, SMT
        <5> QED  BY <3>3, <3>5, <5>1
      <4>2. In(notices', "update", u)  BY <1>3, <4>1
      <4> QED  BY <4>2, Zenon DEF In, Pending, Is
    <3> QED  BY <3>4, <3>5, Zenon
  <2> QED  BY <2>1, Zenon DEF Owed, Finite
<1> QED  BY <1>1, <1>3, <1>6, <1>7, TellCall, Zenon

LEMMA TellSetMax ==
    ASSUME TellInv, NEW t \in Task \ retired, SetMax(t)
    PROVE  TellInv'
<1>1. /\ notices = <<>> /\ notices' = notices /\ ~started[t]
      /\ retired' = retired /\ parent' = parent /\ started' = started /\ completed' = completed /\ taskIndex' = taskIndex
  BY Zenon DEF SetMax, Works, Turn
<1>2. Tree  BY DEF TellInv
<1>3. DOMAIN tasks' = Task /\ tasks'[t] \in Seq(Steps(t)) /\ \A u \in Task : u # t => tasks'[u] = tasks[u]
  <2>1. PICK n : n \in 1 .. MaxSlots /\ tasks' = [tasks EXCEPT ![t] = Resized(tasks[t], n)]
    BY Zenon DEF SetMax
  <2>2. n \in Nat  BY <2>1, BoundAssumption, SMT
  <2>3. DOMAIN tasks = Task /\ tasks[t] \in Seq(Steps(t)) /\ Open \in Steps(t)  BY <1>2, Zenon DEF Tree, Steps
  <2>4. Resized(tasks[t], n) \in Seq(Steps(t))  BY <2>2, <2>3, ResizedIs
  <2> QED  BY <2>1, <2>3, <2>4
<1>4. Tree'
  <2>1. IsList(notices')  BY <1>1, <1>2, Zenon DEF Tree
  <2> QED  BY <1>2, <2>1, TreeSetMax
<1>5. Owed'
  <2>1. ASSUME NEW u \in Finite, started'[u], Due(u)' PROVE completed'[u]
    <3>1. u \in Task /\ u # t /\ tasks'[u] = tasks[u]  BY <1>1, <1>3, <2>1 DEF Finite
    <3>2. Due(u)  BY <1>1, <2>1, <3>1, Zenon DEF Due, StepsDone, Slots
    <3> QED  BY <1>1, <2>1, <3>2, NoneOwed, Zenon
  <2> QED  BY <2>1, Zenon DEF Owed, Finite
<1> QED  BY <1>1, <1>4, <1>5, NothingIn, TellCall, Zenon

LEMMA TellInit == Init => TellInv
<1> SUFFICES ASSUME Init PROVE TellInv  OBVIOUS
<1>1. /\ parent = [t \in Task |-> None] /\ started = [t \in Task |-> FALSE] /\ completed = [t \in Task |-> FALSE]
      /\ tasks = [t \in Task |-> <<>>] /\ taskIndex = [t \in Task |-> 0] /\ notices = <<>> /\ retired = {}
  BY Zenon DEF Init
<1>2. \A k, u : ~In(notices, k, u)  BY <1>1, NothingIn
<1>3. IsList(notices)  BY <1>1, InOnes
<1>4. Tree
  <2>1. \A t \in Task : t # None  BY RootAssumption, SMT
  <2>2. parent \in [Task -> Finite \cup {None}] /\ parent[Root] = None /\ \A t \in Task : parent[t] # t
    BY <1>1, <2>1, RootAssumption DEF Finite
  <2>3. \A t \in Task : tasks[t] \in Seq(Steps(t))
    <3>1. \A S : <<>> \in Seq(S)  OBVIOUS
    <3> QED  BY <1>1, <3>1, Zenon
  <2>4. started \in [Task -> BOOLEAN] /\ completed \in [Task -> BOOLEAN] /\ taskIndex \in [Task -> Nat] /\ DOMAIN tasks = Task
    BY <1>1
  <2> QED  BY <1>3, <2>2, <2>3, <2>4, Zenon DEF Tree
<1>5. Living
  <2>1. \A t \in Task : parent[t] = None  BY <1>1
  <2> QED  BY <1>2, <2>1, LivingIs, Zenon DEF Pending, In
<1>6. StartsFirst  BY <1>2, Zenon DEF StartsFirst, In
<1>7. Owed
  <2>1. \A t \in Finite : ~started[t]  BY <1>1 DEF Finite
  <2> QED  BY <2>1, Zenon DEF Owed
<1> QED  BY <1>4, <1>5, <1>6, <1>7 DEF TellInv

\* A download is tried again.
LEMMA TellLoad ==
    ASSUME TellInv, NEW t \in Task, t # Root, Restart(t)
    PROVE  TellInv'
<1>1. Tree  BY DEF TellInv
<1>2. /\ notices = <<>> /\ notices' = notices /\ parent' = parent /\ t \in Variable /\ retired' = retired
      /\ \A u \in Task : u # t => /\ started'[u] <=> started[u]
                                  /\ tasks'[u] = tasks[u]
      /\ \A u \in Task : /\ completed'[u] => completed[u]
                         /\ u # t /\ completed[u] => completed'[u]
                         /\ started'[u] => started[u]
  <2> DEFINE ts == Restarted(t)
  <2>1. /\ notices = <<>> /\ notices' = notices /\ parent' = parent
        /\ t \in Variable /\ ts = {t} /\ retired' = retired
        /\ \A u \in Task : /\ started'[u] <=> started[u] /\ (u \in ts => ~completed[u])
                           /\ completed'[u] <=> completed[u] /\ u \notin ts
        /\ \A u \in Task : u \notin ts => tasks'[u] = tasks[u]
    BY <1>1, RestartIs
  <2> HIDE DEF ts
  <2> QED  BY <2>1
<1>3. IsList(notices')  BY <1>1, <1>2, Zenon DEF Tree
<1>4. Tree'  BY <1>1, <1>3, TreeRestart
<1>5. \A k, u : ~In(notices', k, u) /\ ~Pending(k, u)  BY <1>2, NothingIn, Zenon DEF Pending, In
<1>6. StartsFirst'  BY <1>5, Zenon DEF StartsFirst, In, Is
<1>7. Living'
  <2>1. ASSUME NEW u \in Task, parent'[u] # None, u \notin retired'
        PROVE  parent'[u] \notin retired' /\ started'[parent'[u]]
    <3>1. parent[u] \notin retired /\ started[parent[u]]
      BY <1>2, <1>5, <2>1, Zenon DEF TellInv, Living
    <3>2. parent[u] \in Finite
      <4>1. parent[u] \in Finite \cup {None}  BY <1>1, Zenon DEF Tree
      <4> QED  BY <1>2, <2>1, <4>1
    <3>3. parent[u] \in Task /\ parent[u] # t  BY <1>2, <3>2, SMT DEF Finite, Variable
    <3> QED  BY <1>2, <3>1, <3>3
  <2>2. \A u : Pending("started", u)' <=> In(notices', "started", u)  BY Zenon DEF Pending, In, Is
  <2> QED  BY <1>5, <2>1, <2>2, LivingIs, Zenon
<1>8. Owed'
  <2>1. ASSUME NEW u \in Finite, started'[u], Due(u)' PROVE completed'[u]
    <3>1. u \in Task /\ u # t  BY <1>2, SMT DEF Finite, Variable
    <3>2. started[u] /\ tasks'[u] = tasks[u]  BY <1>2, <2>1, <3>1
    <3>3. ASSUME NEW s \in Slots(u), s # Closed
          PROVE  s # Open /\ completed[s] /\ (s \in Variable => started[s])
      <4>1. s # Open /\ completed'[s] /\ (s \in Variable => started'[s])
        BY <2>1, <3>2, <3>3, Zenon DEF Due, StepsDone, Slots
      <4>2. s \in Task  BY <1>1, <3>1, <3>3, <4>1, SlotsAre
      <4> QED  BY <1>2, <4>1, <4>2, Zenon
    <3>4. Due(u)  BY <1>2, <2>1, <3>2, <3>3, Zenon DEF Due, StepsDone
    <3>5. completed[u]  BY <1>2, <3>2, <3>4, NoneOwed, Zenon
    <3> QED  BY <1>2, <3>1, <3>5
  <2> QED  BY <2>1, Zenon DEF Owed, Finite
<1> QED  BY <1>4, <1>6, <1>7, <1>8 DEF TellInv

\* A new path: whatever went on before, nothing of it is left to be told.
LEMMA TellRoot ==
    ASSUME BaseInv, BaseInv', Restart(Root)
    PROVE  TellInv'
<1> DEFINE ts == Restarted(Root)
<1>1. Tree /\ Used /\ Tree' /\ Root \in Task  BY RootAssumption DEF BaseInv, Ground, Finite
<1>2. /\ notices = <<>> /\ notices' = notices /\ parent' = parent /\ Root \in ts
      /\ retired' = {u \in Task : parent[u] # None}
      /\ \A u \in Task : /\ started'[u] <=> started[u] /\ (u \in ts => ~completed[u])
                         /\ completed'[u] <=> completed[u] /\ u \notin ts
      /\ DOMAIN tasks'[Root] = 1 .. Len(tasks'[Root]) /\ Len(tasks'[Root]) \in Nat
      /\ tasks'[Root] \in Seq(Steps(Root))
      /\ \A i \in DOMAIN tasks'[Root] :
            tasks'[Root][i] = IF i \in DOMAIN tasks[Root] /\ tasks[Root][i] # Closed THEN tasks[Root][i] ELSE Open
  BY <1>1, RestartIs
<1>3. \A s \in Slots(Root) : s \in Task => s \in ts
  BY <1>1, <1>2, RootAssumption, RestartedIs
<1> HIDE DEF ts
<1>4. \A k, u : ~In(notices', k, u)  BY <1>2, NothingIn
<1>5. StartsFirst'  BY <1>4, Zenon DEF StartsFirst, In, Is
<1>6. Living'
  <2>1. \A u : Pending("started", u)' <=> In(notices', "started", u)  BY Zenon DEF Pending, In, Is
  <2>2. \A u \in Task : parent'[u] # None => u \in retired'  BY <1>2
  <2> QED  BY <1>4, <2>1, <2>2, LivingIs, Zenon
<1>7. Owed'
  <2>1. ASSUME NEW u \in Finite, started'[u], Due(u)' PROVE FALSE
    <3>1. u \in Task /\ started[u] /\ parent[u] = None  BY <1>2, <2>1 DEF Due, Finite
    <3>2. u = Root  BY <1>1, <3>1, Zenon DEF Used, InUse
    <3>3. ASSUME NEW s, s \in Range(tasks'[u]), s # Closed PROVE s # Open /\ completed'[s]
      BY <2>1, <3>3, Zenon DEF Due, StepsDone, Slots
    <3>4. 1 \in DOMAIN tasks'[Root]
      <4>1. tasks'[Root] # <<>>  BY <2>1, <3>2 DEF Due
      <4> DEFINE w == tasks'[Root]
                 S == Steps(Root)
      <4>2. w \in Seq(S) /\ w # <<>>  BY <1>2, <4>1
      <4> HIDE DEF w, S
      <4>3. DOMAIN w = 1 .. Len(w) /\ Len(w) \in Nat /\ Len(w) # 0  BY <4>2, EmptySeq, LenProperties
      <4>4. 1 \in DOMAIN w  BY <4>3, SMT
      <4> QED  BY <4>4 DEF w
    <3> DEFINE s == tasks'[Root][1]
    <3>5. s \in Range(tasks'[u])  BY <3>2, <3>4, Zenon DEF Range
    <3>6. s = IF 1 \in DOMAIN tasks[Root] /\ tasks[Root][1] # Closed THEN tasks[Root][1] ELSE Open
      BY <1>2, <3>4, Zenon
    <3>7. s # Closed
      <4>1. Open # Closed  BY DEF Open, Closed
      <4> HIDE DEF s
      <4> QED  BY <3>6, <4>1
    <3>8. s # Open /\ completed'[s]  BY <3>3, <3>5, <3>7
    <3> HIDE DEF s
    <3>9. 1 \in DOMAIN tasks[Root] /\ s = tasks[Root][1]  BY <3>6, <3>8
    <3>10. s \in Slots(Root)  BY <1>1, <3>9, SlotsAre
    <3>11. s \in Task  BY <1>1, <3>7, <3>8, <3>10, SlotsAre
    <3>12. s \in ts  BY <1>3, <3>10, <3>11
    <3> QED  BY <1>2, <3>8, <3>11, <3>12
  <2> QED  BY <2>1, Zenon DEF Owed, Finite
<1> QED  BY <1>1, <1>5, <1>6, <1>7 DEF TellInv

\* What a step is after which no sub-task of an earlier path has been worked on.
LEMMA InTime ==
    ASSUME BaseInv, [Next]_vars, ~late'
    PROVE  \/ Restart(Root)
           \/ ~late /\ (Give \/ Calls \/ Listens \/ UNCHANGED vars)
           \/ ~late /\ \E t \in Task \ retired : Work(t) /\ (Restart(t) => t # Root)
<1>1. CASE Give  BY <1>1, Zenon DEF Give
<1>2. CASE Calls \/ Listens \/ UNCHANGED vars  BY <1>2, Zenon DEF Calls, Listens, vars
<1>3. CASE \E t \in Task : Work(t)
  <2>1. PICK t \in Task : Work(t)  BY <1>3
  <2>2. CASE Restart(t) /\ t = Root  BY <2>2
  <2>3. CASE ~(Restart(t) /\ t = Root)
    <3>1. late' = (late \/ t \in retired)
      <4>1. CASE Restart(t)
        <5>1. late' = (t # Root /\ (late \/ t \in retired))  BY <4>1, Zenon DEF Restart
        <5> QED  BY <2>3, <4>1, <5>1, Zenon
      <4>2. CASE ~Restart(t)
        BY <2>1, <4>2, Zenon DEF Work, Doing, Complete, MarkLengthy, Fail, SetMax, Done, Begin, Update, Works
      <4> QED  BY <4>1, <4>2
    <3>2. ~late /\ t \in Task \ retired  BY <3>1
    <3> QED  BY <2>1, <2>3, <3>2
  <2> QED  BY <2>2, <2>3
<1> QED  BY <1>1, <1>2, <1>3 DEF Next

LEMMA TellStill ==
    ASSUME TellInv, Calls \/ Listens \/ UNCHANGED vars
    PROVE  TellInv'
<1>1. /\ notices' = notices /\ parent' = parent /\ started' = started /\ completed' = completed
      /\ tasks' = tasks /\ taskIndex' = taskIndex /\ retired' = retired
  BY Zenon DEF Calls, Listens, treeVars, vars
<1>2. Tree'
  <2>1. Tree  BY DEF TellInv
  <2>2. started \in [Task -> BOOLEAN] /\ completed \in [Task -> BOOLEAN] /\ IsList(notices)  BY <2>1, Zenon DEF Tree
  <2> QED  BY <1>1, <2>1, <2>2, TreeSame
<1>3. \A k, t : Pending(k, t)' <=> Pending(k, t)  BY <1>1, Zenon DEF Pending, Is
<1>4. \A t : Due(t)' <=> Due(t)  BY <1>1, Zenon DEF Due, StepsDone, Slots
<1>5. Owed'
  <2>1. Owed  BY DEF TellInv
  <2> QED  BY <1>1, <1>3, <1>4, <2>1, Zenon DEF Owed, Finite
<1>6. Living'
  <2>1. \A t : Pending("started", t)' <=> In(notices', "started", t)  BY Zenon DEF Pending, In, Is
  <2>2. Living  BY DEF TellInv
  <2> QED  BY <1>1, <1>3, <2>1, <2>2, LivingIs, Zenon
<1>7. StartsFirst'
  <2>1. StartsFirst  BY DEF TellInv
  <2> QED  BY <1>1, <2>1 DEF StartsFirst, Is, Variable
<1> QED  BY <1>2, <1>5, <1>6, <1>7 DEF TellInv

LEMMA TellStep ==
    ASSUME BaseInv, BaseInv', ~late => TellInv, [Next]_vars, ~late'
    PROVE  TellInv'
<1>1. CASE Restart(Root)  BY <1>1, TellRoot
<1>2. CASE ~late /\ (Give \/ Calls \/ Listens \/ UNCHANGED vars)
  <2>1. TellInv /\ Deep  BY <1>2 DEF BaseInv
  <2> QED  BY <1>2, <2>1, TellGive, TellStill
<1>3. CASE ~late /\ \E t \in Task \ retired : Work(t) /\ (Restart(t) => t # Root)
  <2>1. PICK t \in Task \ retired : Work(t) /\ (Restart(t) => t # Root)  BY <1>3
  <2>2. TellInv  BY <1>3
  <2> QED
    BY <2>1, <2>2, TellPlain, TellFail, TellSetMax, TellDone, TellBegin, TellLoad, Zenon DEF Work
<1> QED  BY <1>1, <1>2, <1>3, InTime

LEMMA BaseAlways == Spec => []BaseInv
BY BaseInit, BaseStep, PTL DEF Spec

\* However the last step of a task ends, in the task itself or in a sub-task at any
\* depth, its completion has been told once no notice is left (FiniteTask::done, begin,
\* complete and fail with ProgressTask::_notifyUpdate and _notifyCompleted).  After
\* FSMGoto has restarted the tree this is so until a handler of the path before goes on
\* with a sub-task of its own, and again from the next restart.
THEOREM CompletionTold == Spec => []CompletionIsTold
<1> DEFINE Inv == ~late => TellInv
<1>1. Init => Inv  BY TellInit
<1>2. BaseInv /\ BaseInv' /\ Inv /\ [Next]_vars => Inv'  BY TellStep
<1>3. Inv => CompletionIsTold
  BY NoneOwed, Zenon DEF CompletionIsTold, Due
<1> HIDE DEF Inv
<1>4. Spec => []Inv  BY <1>1, <1>2, BaseAlways, PTL DEF Spec
<1> QED  BY <1>3, <1>4, PTL

(***************************************************************************)
(* Sums and quotients.                                                     *)
(***************************************************************************)
\* The sum of the first of them.
LEMMA TotalIs ==
    ASSUME NEW w, NEW n \in Nat, DOMAIN w = 1 .. n
    PROVE  \E P : /\ P[0] = 0 /\ \A i \in 1 .. n : P[i] = P[i - 1] + w[i]
                  /\ Total(w) = P[n]
<1> DEFINE Body(g, s) == IF s = {} THEN 0 ELSE g[s \ {Max(s)}] + w[Max(s)]
           S == {m \in Nat : \E g : g = [s \in SUBSET (1 .. m) |-> Body(g, s)]}
           it == CHOOSE g : g = [s \in SUBSET (1 .. n) |-> Body(g, s)]
<1>1. Total(w) = it[1 .. n]
  <2>1. Total(w) = (CHOOSE g : g = [s \in SUBSET (DOMAIN w) |-> IF s = {} THEN 0 ELSE g[s \ {Max(s)}] + w[Max(s)]])[DOMAIN w]
    BY Zenon DEF Total, FoldLeft, MapThenFoldSet
  <2> QED  BY <2>1, Zenon
<1>2. 0 \in S
  <2> DEFINE g == [s \in SUBSET (1 .. 0) |-> 0]
  <2>1. \A s \in SUBSET (1 .. 0) : s = {}  BY SMT
  <2>2. \A s \in SUBSET (1 .. 0) : Body(g, s) = 0  BY <2>1, Zenon
  <2> HIDE DEF Body
  <2>3. g = [s \in SUBSET (1 .. 0) |-> Body(g, s)]  BY <2>2, Zenon
  <2> HIDE DEF g
  <2> QED  BY <2>3
<1>3. ASSUME NEW m \in Nat, m \in S PROVE m + 1 \in S
  <2>1. PICK g : g = [s \in SUBSET (1 .. m) |-> Body(g, s)]  BY <1>3, Zenon
  <2> DEFINE k == m + 1
             h == [s \in SUBSET (1 .. k) |-> IF k \in s THEN g[s \ {k}] + w[k] ELSE g[s]]
  <2>2. k \in Nat /\ \A i \in 1 .. k : i # k => i \in 1 .. m  BY SMT
  <2>3. \A i \in 1 .. m : i \in 1 .. k /\ i # k  BY SMT
  <2>4. \A i \in 1 .. k : i <= k /\ i \in Int  BY SMT
  <2>5. k >= k  BY SMT
  <2> HIDE DEF k
  <2>6. ASSUME NEW s \in SUBSET (1 .. k) PROVE h[s] = Body(h, s)
    <3>1. CASE s = {}
      <4>1. k \notin s /\ s \in SUBSET (1 .. m)  BY <3>1
      <4>2. h[s] = g[s]  BY <4>1, Zenon
      <4>3. g[s] = Body(g, s)  BY <2>1, <4>1, Zenon
      <4> QED  BY <3>1, <4>2, <4>3, Zenon
    <3>2. CASE k \in s
      <4>1. Max(s) = k
        <5>1. \A y \in s : k >= y  BY <2>4, <2>2, SMT
        <5>2. \A x \in s : (\A y \in s : x >= y) => x = k
          <6> SUFFICES ASSUME NEW x \in s, \A y \in s : x >= y PROVE x = k  OBVIOUS
          <6>1. x >= k /\ x <= k /\ x \in Int /\ k \in Int  BY <2>2, <2>4, <3>2, SMT
          <6> QED  BY <6>1, SMT
        <5> QED  BY <3>2, <5>1, <5>2, Zenon DEF Max
      <4>2. s \ {k} \in SUBSET (1 .. k) /\ k \notin s \ {k}  OBVIOUS
      <4>3. h[s \ {k}] = g[s \ {k}]  BY <4>2, Zenon
      <4>4. h[s] = g[s \ {k}] + w[k]  BY <3>2, Zenon
      <4>5. Body(h, s) = h[s \ {k}] + w[k]  BY <3>2, <4>1, Zenon
      <4> QED  BY <4>3, <4>4, <4>5
    <3>3. CASE k \notin s /\ s # {}
      <4>1. s \in SUBSET (1 .. m)  BY <2>2, <3>3
      <4> DEFINE x == Max(s)
      <4>2. s \ {x} \in SUBSET (1 .. k) /\ k \notin s \ {x}  BY <3>3
      <4>3. h[s] = g[s] /\ h[s \ {x}] = g[s \ {x}]  BY <3>3, <4>2, Zenon
      <4>4. g[s] = Body(g, s)  BY <2>1, <4>1, Zenon
      <4> QED  BY <3>3, <4>3, <4>4, Zenon
    <3> QED  BY <3>1, <3>2, <3>3
  <2>7. h = [s \in SUBSET (1 .. k) |-> Body(h, s)]
    <3> HIDE DEF Body
    <3> QED  BY <2>6, Zenon
  <2> HIDE DEF h, Body
  <2>8. k \in S  BY <2>2, <2>7
  <2> QED  BY <2>8 DEF k
<1>4. n \in S
  <2> HIDE DEF S
  <2> QED  BY <1>2, <1>3, Induct, Zenon
<1>5. it = [s \in SUBSET (1 .. n) |-> Body(it, s)]
  <2>1. \E g : g = [s \in SUBSET (1 .. n) |-> Body(g, s)]  BY <1>4, Zenon
  <2> HIDE DEF Body
  <2> QED  BY <2>1, Zenon
<1> HIDE DEF it, S
<1> DEFINE P == [i \in 0 .. n |-> it[1 .. i]]
<1>6. P[0] = 0
  <2>1. 1 .. 0 = {} /\ 0 \in 0 .. n  BY SMT
  <2>2. 1 .. 0 \in SUBSET (1 .. n)  BY <2>1
  <2>3. it[1 .. 0] = Body(it, 1 .. 0)  BY <1>5, <2>2, Zenon
  <2> QED  BY <2>1, <2>3, Zenon
<1>7. ASSUME NEW i \in 1 .. n PROVE P[i] = P[i - 1] + w[i]
  <2> DEFINE s == 1 .. i
  <2>1. s \in SUBSET (1 .. n) /\ s # {} /\ i \in s /\ s \ {i} = 1 .. (i - 1) /\ i \in 0 .. n /\ i - 1 \in 0 .. n
    <3>1. s \in SUBSET (1 .. n) /\ i \in s /\ i \in 0 .. n /\ i - 1 \in 0 .. n  BY SMT
    <3>2. \A x : x \in s \ {i} <=> x \in 1 .. (i - 1)  BY SMT
    <3> QED  BY <3>1, <3>2
  <2>2. Max(s) = i
    <3>1. \A y \in s : i >= y  BY SMT
    <3>2. \A x \in s : (\A y \in s : x >= y) => x = i
      <4> SUFFICES ASSUME NEW x \in s, x >= i PROVE x = i  BY <2>1
      <4> QED  BY SMT
    <3> QED  BY <2>1, <3>1, <3>2, Zenon DEF Max
  <2>3. it[s] = Body(it, s)  BY <1>5, <2>1, Zenon
  <2>4. it[s] = it[1 .. (i - 1)] + w[i]  BY <2>1, <2>2, <2>3, Zenon
  <2> QED  BY <2>1, <2>4, Zenon
<1>8. P[n] = Total(w)
  <2>1. n \in 0 .. n  BY SMT
  <2> QED  BY <1>1, <2>1, Zenon
<1> HIDE DEF P
<1> QED  BY <1>6, <1>7, <1>8, Zenon

LEMMA TotalGrows ==
    ASSUME NEW v, NEW w, NEW n \in Nat, DOMAIN v = 1 .. n, DOMAIN w = 1 .. n,
           \A i \in 1 .. n : v[i] \in Nat /\ w[i] \in Nat /\ v[i] <= w[i]
    PROVE  Total(v) \in Nat /\ Total(w) \in Nat /\ Total(v) <= Total(w)
<1>1. PICK P : P[0] = 0 /\ (\A i \in 1 .. n : P[i] = P[i - 1] + v[i]) /\ Total(v) = P[n]  BY TotalIs
<1>2. PICK Q : Q[0] = 0 /\ (\A i \in 1 .. n : Q[i] = Q[i - 1] + w[i]) /\ Total(w) = Q[n]  BY TotalIs
<1> DEFINE S == {m \in Nat : m <= n => P[m] \in Nat /\ Q[m] \in Nat /\ P[m] <= Q[m]}
<1>3. 0 \in S  BY <1>1, <1>2, SMT
<1>4. ASSUME NEW m \in Nat, m \in S PROVE m + 1 \in S
  <2> SUFFICES ASSUME m + 1 <= n PROVE P[m + 1] \in Nat /\ Q[m + 1] \in Nat /\ P[m + 1] <= Q[m + 1]
    BY SMT
  <2> DEFINE k == m + 1
  <2>1. k \in 1 .. n /\ k - 1 = m /\ m <= n  BY SMT
  <2> HIDE DEF k
  <2>2. P[m] \in Nat /\ Q[m] \in Nat /\ P[m] <= Q[m]  BY <1>4, <2>1
  <2>3. P[k] = P[m] + v[k] /\ Q[k] = Q[m] + w[k] /\ v[k] \in Nat /\ w[k] \in Nat /\ v[k] <= w[k]
    BY <1>1, <1>2, <2>1, Zenon
  <2>4. P[k] \in Nat /\ Q[k] \in Nat /\ P[k] <= Q[k]  BY <2>2, <2>3, SMT
  <2> QED  BY <2>4 DEF k
<1>5. n \in S
  <2> HIDE DEF S
  <2> QED  BY <1>3, <1>4, Induct, Zenon
<1>6. n <= n  BY SMT
<1> QED  BY <1>1, <1>2, <1>5, <1>6

LEMMA TotalBounded ==
    ASSUME NEW w, NEW n \in Nat, DOMAIN w = 1 .. n, NEW b \in Nat,
           \A i \in 1 .. n : w[i] \in Nat /\ w[i] <= b
    PROVE  Total(w) \in Nat /\ Total(w) <= n * b
<1>1. PICK P : P[0] = 0 /\ (\A i \in 1 .. n : P[i] = P[i - 1] + w[i]) /\ Total(w) = P[n]  BY TotalIs
<1> DEFINE S == {m \in Nat : m <= n => P[m] \in Nat /\ P[m] <= m * b}
<1>2. 0 \in S  BY <1>1, SMT
<1>3. ASSUME NEW m \in Nat, m \in S PROVE m + 1 \in S
  <2> SUFFICES ASSUME m + 1 <= n PROVE P[m + 1] \in Nat /\ P[m + 1] <= (m + 1) * b
    BY SMT
  <2> DEFINE k == m + 1
  <2>1. k \in 1 .. n /\ k - 1 = m /\ m <= n  BY SMT
  <2>2. k * b = m * b + b  BY SMT
  <2>3. m * b \in Nat  BY SMT
  <2> HIDE DEF k
  <2>4. P[m] \in Nat /\ P[m] <= m * b  BY <1>3, <2>1
  <2>5. P[k] = P[m] + w[k] /\ w[k] \in Nat /\ w[k] <= b
    BY <1>1, <2>1, Zenon
  <2> DEFINE x == m * b
             y == k * b
  <2>6. x \in Nat /\ y = x + b /\ P[m] <= x  BY <2>2, <2>3, <2>4
  <2> HIDE DEF x, y
  <2>7. P[k] \in Nat /\ P[k] <= y  BY <2>4, <2>5, <2>6, SMT
  <2> QED  BY <2>7 DEF k, y
<1>4. n \in S
  <2> HIDE DEF S
  <2> QED  BY <1>2, <1>3, Induct, Zenon
<1>5. n <= n  BY SMT
<1> QED  BY <1>1, <1>4, <1>5

\* The quotient of a division, and what it keeps of an order.
LEMMA QuotientIs ==
    ASSUME NEW a \in Nat, NEW n \in Nat, n # 0
    PROVE  a \div n \in Nat /\ n * (a \div n) <= a /\ a < n * (a \div n) + n
BY SMT

LEMMA TimesOrder ==
    ASSUME NEW x \in Nat, NEW y \in Nat, NEW n \in Nat
    PROVE  n * x \in Nat /\ (x <= y => n * x <= n * y) /\ (x < y => n * x + n <= n * y) /\ n * 0 = 0 /\ 0 * x = 0 /\ n * x = x * n
<1>1. n * x \in Nat /\ n * 0 = 0 /\ 0 * x = 0 /\ n * x = x * n  BY SMT
<1>2. ASSUME x <= y PROVE n * x <= n * y
  <2> DEFINE d == y - x
  <2>1. d \in Nat /\ y = x + d  BY <1>2, SMT
  <2> HIDE DEF d
  <2>2. n * (x + d) = n * x + n * d /\ n * d \in Nat /\ n * x \in Nat  BY <2>1, SMT
  <2> QED  BY <2>1, <2>2, SMT
<1>3. ASSUME x < y PROVE n * x + n <= n * y
  <2> DEFINE d == y - x - 1
  <2>1. d \in Nat /\ y = (x + 1) + d  BY <1>3, SMT
  <2> HIDE DEF d
  <2>2. n * ((x + 1) + d) = n * x + n + n * d /\ n * d \in Nat /\ n * x \in Nat  BY <2>1, SMT
  <2> QED  BY <2>1, <2>2, SMT
<1> QED  BY <1>1, <1>2, <1>3

LEMMA QuotientGrows ==
    ASSUME NEW a \in Nat, NEW b \in Nat, a <= b, NEW n \in Nat, n # 0
    PROVE  a \div n <= b \div n
<1> DEFINE x == a \div n
           y == b \div n
<1>1. x \in Nat /\ n * x <= a /\ y \in Nat /\ b < n * y + n  BY QuotientIs
<1> HIDE DEF x, y
<1>2. x <= y
  <2> SUFFICES ASSUME y < x PROVE FALSE  BY <1>1, SMT
  <2>1. n * y + n <= n * x /\ n * y \in Nat /\ n * x \in Nat  BY <1>1, TimesOrder
  <2> QED  BY <1>1, <2>1, SMT
<1> QED  BY <1>2 DEF x, y

LEMMA QuotientBounded ==
    ASSUME NEW u \in Nat, NEW c \in Nat, NEW n \in Nat, n # 0, c <= n
    PROVE  (u * c) \div n \in Nat /\ (u * c) \div n <= u
<1> DEFINE a == u * c
           x == a \div n
<1>1. a \in Nat /\ a <= n * u  BY TimesOrder
<1> HIDE DEF a
<1>2. x \in Nat /\ n * x <= a  BY <1>1, QuotientIs
<1> HIDE DEF x
<1>3. x <= u
  <2> SUFFICES ASSUME u < x PROVE FALSE  BY <1>2, SMT
  <2>1. n * u + n <= n * x /\ n * u \in Nat /\ n * x \in Nat  BY <1>2, TimesOrder
  <2> QED  BY <1>1, <1>2, <2>1, SMT
<1> QED  BY <1>2, <1>3 DEF x, a

(***************************************************************************)
(* Progress does not go back.  How far a task has advanced: its progress,  *)
(* but nothing rather than infinite while the size of a download is not    *)
(* known.                                                                  *)
(***************************************************************************)
Worth(f, s) == IF s = Open THEN 0 ELSE IF s = Closed THEN Unit ELSE f[s]

\* Of a task in a given state, where f tells how far its sub-tasks are.
Advanced(f, t, done, begun, size, at, steps) ==
    IF done THEN Unit
    ELSE IF ~begun THEN 0
    ELSE IF t \in Variable THEN IF size = 0 THEN 0 ELSE (Unit * at) \div size
    ELSE IF t \in Finite THEN Total(Shares(f, steps))
    ELSE 0
AdvanceBy(f, t) == Advanced(f, t, completed[t], started[t], max[t], current[t], tasks[t])
Advance == CHOOSE f : f = [t \in Task |-> AdvanceBy(f, t)]

LEMMA SharesAre ==
    ASSUME NEW f, NEW steps
    PROVE  Shares(f, steps) = [i \in DOMAIN steps |-> Worth(f, steps[i]) \div Len(steps)]
BY Zenon DEF Shares, Worth

LEMMA AdvancedAgrees ==
    ASSUME NEW f, NEW g, NEW t, NEW done, NEW begun, NEW size, NEW at, NEW steps,
           t \in Finite => \A i \in DOMAIN steps : steps[i] # Open /\ steps[i] # Closed => f[steps[i]] = g[steps[i]]
    PROVE  Advanced(f, t, done, begun, size, at, steps) = Advanced(g, t, done, begun, size, at, steps)
<1>1. CASE t \in Finite
  <2>1. \A i \in DOMAIN steps : Worth(f, steps[i]) = Worth(g, steps[i])  BY <1>1, Zenon DEF Worth
  <2>2. Shares(f, steps) = Shares(g, steps)  BY <2>1, SharesAre, Zenon
  <2> QED  BY <2>2, Zenon DEF Advanced
<1>2. CASE t \notin Finite  BY <1>2, Zenon DEF Advanced
<1> QED  BY <1>1, <1>2

LEMMA AdvanceByAgrees ==
    ASSUME Tree, NEW t \in Task, NEW f, NEW g,
           t \in Finite => \A s \in Slots(t) : s # Open /\ s # Closed => f[s] = g[s]
    PROVE  AdvanceBy(f, t) = AdvanceBy(g, t)
<1>1. t \in Finite => \A i \in DOMAIN tasks[t] : tasks[t][i] # Open /\ tasks[t][i] # Closed => f[tasks[t][i]] = g[tasks[t][i]]
  BY SlotsAre, Zenon
<1> QED  BY <1>1, AdvancedAgrees DEF AdvanceBy

LEMMA AdvanceUnfolds ==
    Tree /\ Deep => /\ DOMAIN Advance = Task
                    /\ \A t \in Task : Advance[t] = AdvanceBy(Advance, t)
                    /\ Advance = [t \in Task |-> AdvanceBy(Advance, t)]
<1> SUFFICES ASSUME Tree, Deep
             PROVE  /\ DOMAIN Advance = Task
                    /\ \A t \in Task : Advance[t] = AdvanceBy(Advance, t)
                    /\ Advance = [t \in Task |-> AdvanceBy(Advance, t)]
  OBVIOUS
<1>1. PICK d \in [Task -> Nat] : \A t \in Task : d[t] <= ops /\ (parent[t] # None => d[parent[t]] < d[t])
  BY Zenon DEF Deep
<1>2. ops \in Nat /\ ops <= MaxOps /\ MaxOps \in Nat  BY BoundAssumption DEF Deep
<1> DEFINE By(g) == [t \in Task |-> AdvanceBy(g, t)]
           S == {m \in Nat : \E g : \A t \in Task : m + d[t] > MaxOps => g[t] = By(g)[t]}
<1>3. \A g : \A t \in Task : By(g)[t] = AdvanceBy(g, t)  OBVIOUS
<1> HIDE DEF By
<1>4. ASSUME NEW g, NEW h, NEW t \in Task, \A s \in Slots(t) : s # Open /\ s # Closed => g[s] = h[s]
      PROVE  By(g)[t] = By(h)[t]
  <2>1. AdvanceBy(g, t) = AdvanceBy(h, t)  BY <1>4, AdvanceByAgrees
  <2> QED  BY <1>3, <2>1
<1>5. 0 \in S
  <2>1. \A t \in Task : d[t] <= ops /\ d[t] \in Nat  BY <1>1
  <2>2. \A t \in Task : ~(0 + d[t] > MaxOps)  BY <1>2, <2>1, SMT
  <2> QED  BY <2>2
<1>6. ASSUME NEW m \in Nat, m \in S PROVE m + 1 \in S
  <2>1. PICK g : \A t \in Task : m + d[t] > MaxOps => g[t] = By(g)[t]  BY <1>6
  <2>2. ASSUME NEW t \in Task, m + 1 + d[t] > MaxOps PROVE By(g)[t] = By(By(g))[t]
    <3>1. ASSUME NEW s \in Slots(t), s # Open, s # Closed PROVE g[s] = By(g)[s]
      <4>1. s \in Task /\ parent[s] = t /\ t # None  BY <3>1, SlotsAre, RootAssumption
      <4>2. d[t] < d[s] /\ d[t] \in Nat /\ d[s] \in Nat  BY <1>1, <4>1
      <4>3. m + d[s] > MaxOps  BY <1>2, <2>2, <4>2, SMT
      <4> QED  BY <2>1, <4>1, <4>3
    <3> QED  BY <1>4, <3>1, Zenon
  <2>3. \E h : \A t \in Task : m + 1 + d[t] > MaxOps => h[t] = By(h)[t]  BY <2>2, Zenon
  <2>4. m + 1 \in Nat  BY SMT
  <2> QED  BY <2>3, <2>4
<1>7. \A m \in Nat : m \in S
  <2> HIDE DEF S
  <2> QED  BY <1>5, <1>6, Induct, Zenon
<1>8. MaxOps + 1 \in S  BY <1>2, <1>7
<1>9. PICK g : \A t \in Task : g[t] = By(g)[t]
  <2>1. PICK g : \A t \in Task : MaxOps + 1 + d[t] > MaxOps => g[t] = By(g)[t]  BY <1>8
  <2>2. ASSUME NEW t \in Task PROVE MaxOps + 1 + d[t] > MaxOps
    <3>1. d[t] \in Nat  BY <1>1
    <3> QED  BY <1>2, <3>1, SMT
  <2> QED  BY <2>1, <2>2, Zenon
<1>10. By(g) = By(By(g))
  <2>1. ASSUME NEW t \in Task PROVE By(g)[t] = By(By(g))[t]
    <3>1. \A s \in Slots(t) : s # Open /\ s # Closed => g[s] = By(g)[s]  BY <1>9, SlotsAre
    <3> QED  BY <1>4, <3>1, Zenon
  <2>2. \A f : By(f) = [t \in Task |-> By(f)[t]]  BY Zenon DEF By
  <2>3. [t \in Task |-> By(g)[t]] = [t \in Task |-> By(By(g))[t]]  BY <2>1
  <2> QED  BY <2>2, <2>3, Zenon
<1>11. \E f : f = By(f)  BY <1>10, Zenon
<1>12. Advance = CHOOSE f : f = By(f)
  BY Zenon DEF Advance, By
<1>13. Advance = By(Advance)  BY <1>11, <1>12, Zenon
<1> QED  BY <1>3, <1>13, Zenon DEF By

LEMMA AdvanceUnfoldsNext ==
    (Tree /\ Deep => /\ DOMAIN Advance = Task
                     /\ \A t \in Task : Advance[t] = AdvanceBy(Advance, t)
                     /\ Advance = [t \in Task |-> AdvanceBy(Advance, t)])'
BY AdvanceUnfolds, PTL

LEMMA WorthIs ==
    ASSUME NEW f, NEW s, s # Open /\ s # Closed => f[s] \in Nat /\ f[s] <= Unit
    PROVE  Worth(f, s) \in Nat /\ Worth(f, s) <= Unit
BY BoundAssumption, SMT DEF Worth

\* How far a finite task is, from how far each of its steps is.
LEMMA TotalOfSteps ==
    ASSUME NEW f, NEW v, NEW n \in Nat, Len(v) = n, DOMAIN v = 1 .. n,
           \A i \in 1 .. n : Worth(f, v[i]) \in Nat /\ Worth(f, v[i]) <= Unit
    PROVE  Total(Shares(f, v)) \in Nat /\ Total(Shares(f, v)) <= Unit
<1> DEFINE x == Shares(f, v)
           b == IF n = 0 THEN 0 ELSE Unit \div n
<1>1. x = [i \in 1 .. n |-> Worth(f, v[i]) \div n]  BY SharesAre
<1> HIDE DEF x
<1>2. b \in Nat /\ n * b <= Unit
  <2>1. Unit \in Nat  BY BoundAssumption
  <2>2. CASE n = 0
    <3>1. b = 0 /\ n * b = 0  BY <2>2, TimesOrder
    <3> QED  BY <2>1, <3>1, SMT
  <2>3. CASE n # 0  BY <2>1, <2>3, QuotientIs
  <2> QED  BY <2>2, <2>3
<1>3. ASSUME NEW i \in 1 .. n PROVE x[i] \in Nat /\ x[i] <= b
  <2>1. n # 0  BY <1>3, SMT
  <2>2. b = Unit \div n /\ x[i] = Worth(f, v[i]) \div n  BY <1>1, <1>3, <2>1
  <2>3. Worth(f, v[i]) \in Nat /\ Worth(f, v[i]) <= Unit /\ Unit \in Nat  BY <1>3, BoundAssumption
  <2> QED  BY <2>1, <2>2, <2>3, QuotientIs, QuotientGrows
<1>4. DOMAIN x = 1 .. n  BY <1>1
<1> HIDE DEF b
<1>5. Total(x) \in Nat /\ Total(x) <= n * b  BY <1>2, <1>3, <1>4, TotalBounded
<1>6. n * b \in Nat /\ Unit \in Nat  BY <1>2, BoundAssumption, TimesOrder
<1>7. Total(x) <= Unit  BY <1>2, <1>5, <1>6, SMT
<1> QED  BY <1>5, <1>7 DEF x

LEMMA TotalOfMore ==
    ASSUME NEW f, NEW v, NEW g, NEW w, NEW n \in Nat, Len(v) = n, DOMAIN v = 1 .. n, Len(w) = n, DOMAIN w = 1 .. n,
           \A i \in 1 .. n : Worth(f, v[i]) \in Nat /\ Worth(g, w[i]) \in Nat /\ Worth(f, v[i]) <= Worth(g, w[i])
    PROVE  Total(Shares(f, v)) <= Total(Shares(g, w))
<1> DEFINE x == Shares(f, v)
           y == Shares(g, w)
<1>1. x = [i \in 1 .. n |-> Worth(f, v[i]) \div n] /\ y = [i \in 1 .. n |-> Worth(g, w[i]) \div n]  BY SharesAre
<1> HIDE DEF x, y
<1>2. ASSUME NEW i \in 1 .. n PROVE x[i] \in Nat /\ y[i] \in Nat /\ x[i] <= y[i]
  <2>1. n # 0  BY <1>2, SMT
  <2>2. x[i] = Worth(f, v[i]) \div n /\ y[i] = Worth(g, w[i]) \div n  BY <1>1, <1>2
  <2>3. Worth(f, v[i]) \in Nat /\ Worth(g, w[i]) \in Nat /\ Worth(f, v[i]) <= Worth(g, w[i])  BY <1>2
  <2> QED  BY <2>1, <2>2, <2>3, QuotientIs, QuotientGrows
<1>3. DOMAIN x = 1 .. n /\ DOMAIN y = 1 .. n  BY <1>1
<1>4. Total(x) <= Total(y)  BY <1>2, <1>3, TotalGrows
<1> QED  BY <1>4 DEF x, y

LEMMA VariableAdvance ==
    ASSUME NEW size \in Nat, NEW at \in Nat, at <= size
    PROVE  LET x == IF size = 0 THEN 0 ELSE (Unit * at) \div size IN x \in Nat /\ x <= Unit
<1>1. Unit \in Nat  BY BoundAssumption
<1>2. CASE size = 0  BY <1>1, <1>2, SMT
<1>3. CASE size # 0  BY <1>1, <1>3, QuotientBounded
<1> QED  BY <1>2, <1>3

\* How far a task is, from how far its sub-tasks are.
LEMMA AdvancedBounded ==
    ASSUME NEW f, NEW t, NEW done \in BOOLEAN, NEW begun \in BOOLEAN, NEW size \in Nat, NEW at \in Nat, at <= size,
           NEW steps, NEW n \in Nat, Len(steps) = n, DOMAIN steps = 1 .. n,
           t \in Finite => \A i \in DOMAIN steps : steps[i] # Open /\ steps[i] # Closed => f[steps[i]] \in Nat /\ f[steps[i]] <= Unit
    PROVE  LET x == Advanced(f, t, done, begun, size, at, steps) IN x \in Nat /\ x <= Unit
<1> DEFINE x == Advanced(f, t, done, begun, size, at, steps)
<1>1. Unit \in Nat /\ Unit <= Unit /\ 0 \in Nat /\ 0 <= Unit  BY BoundAssumption, SMT
<1>2. CASE done
  <2>1. x = Unit  BY <1>2, Zenon DEF Advanced
  <2> QED  BY <1>1, <2>1
<1>3. CASE ~done /\ ~begun
  <2>1. x = 0  BY <1>3, Zenon DEF Advanced
  <2> QED  BY <1>1, <2>1
<1>4. CASE ~done /\ begun /\ t \in Variable
  <2>1. x = IF size = 0 THEN 0 ELSE (Unit * at) \div size  BY <1>4, Zenon DEF Advanced
  <2> QED  BY <2>1, VariableAdvance
<1>5. CASE ~done /\ begun /\ t \notin Variable /\ t \in Finite
  <2>1. x = Total(Shares(f, steps))  BY <1>5, Zenon DEF Advanced
  <2>2. \A i \in 1 .. n : Worth(f, steps[i]) \in Nat /\ Worth(f, steps[i]) <= Unit
    BY <1>5, WorthIs
  <2>3. Total(Shares(f, steps)) \in Nat /\ Total(Shares(f, steps)) <= Unit
    BY <2>2, TotalOfSteps
  <2> QED  BY <2>1, <2>3
<1>6. CASE ~done /\ begun /\ t \notin Variable /\ t \notin Finite
  <2>1. x = 0  BY <1>6, Zenon DEF Advanced
  <2> QED  BY <1>1, <2>1
<1> QED  BY <1>2, <1>3, <1>4, <1>5, <1>6

LEMMA StepsAre ==
    ASSUME Tree, NEW t \in Task
    PROVE  /\ Len(tasks[t]) \in Nat /\ DOMAIN tasks[t] = 1 .. Len(tasks[t])
           /\ \A i \in DOMAIN tasks[t] : tasks[t][i] # Open /\ tasks[t][i] # Closed =>
                tasks[t][i] \in Task /\ parent[tasks[t][i]] = t
           /\ \A i \in DOMAIN tasks[t] : tasks[t][i] \in Task => tasks[t][i] # Open /\ tasks[t][i] # Closed
<1>1. tasks[t] \in Seq(Steps(t))  BY Zenon DEF Tree
<1>2. Len(tasks[t]) \in Nat /\ DOMAIN tasks[t] = 1 .. Len(tasks[t])  BY <1>1, SeqIs
<1>3. Open \notin Task /\ Closed \notin Task  BY RootAssumption
<1> QED  BY <1>2, <1>3, SlotsAre

LEMMA AllStepsAre ==
    Tree =>
      \A t \in Task : /\ Len(tasks[t]) \in Nat /\ DOMAIN tasks[t] = 1 .. Len(tasks[t])
                     /\ \A i \in DOMAIN tasks[t] : tasks[t][i] # Open /\ tasks[t][i] # Closed =>
                          tasks[t][i] \in Task /\ parent[tasks[t][i]] = t
BY StepsAre

LEMMA StepsAreNext ==
    (Tree =>
      \A t \in Task : /\ Len(tasks[t]) \in Nat /\ DOMAIN tasks[t] = 1 .. Len(tasks[t])
                     /\ \A i \in DOMAIN tasks[t] : tasks[t][i] # Open /\ tasks[t][i] # Closed =>
                          tasks[t][i] \in Task /\ parent[tasks[t][i]] = t)'
BY AllStepsAre, PTL

LEMMA AdvanceBounded ==
    Tree /\ Deep /\ Counted => \A t \in Task : Advance[t] \in Nat /\ Advance[t] <= Unit
<1> SUFFICES ASSUME Tree, Deep, Counted PROVE \A t \in Task : Advance[t] \in Nat /\ Advance[t] <= Unit
  OBVIOUS
<1> DEFINE P == {t \in Task : Advance[t] \in Nat /\ Advance[t] <= Unit}
<1>1. ASSUME NEW t \in Task, \A s \in Task : parent[s] = t => s \in P PROVE t \in P
  <2>1. Advance[t] = Advanced(Advance, t, completed[t], started[t], max[t], current[t], tasks[t])
    BY AdvanceUnfolds DEF AdvanceBy
  <2>2. completed[t] \in BOOLEAN /\ started[t] \in BOOLEAN /\ max[t] \in Nat /\ current[t] \in Nat /\ current[t] <= max[t]
    BY Zenon DEF Tree, Counted
  <2>3. \A i \in DOMAIN tasks[t] : tasks[t][i] # Open /\ tasks[t][i] # Closed =>
           Advance[tasks[t][i]] \in Nat /\ Advance[tasks[t][i]] <= Unit
    BY <1>1, StepsAre
  <2>4. LET x == Advanced(Advance, t, completed[t], started[t], max[t], current[t], tasks[t]) IN x \in Nat /\ x <= Unit
    <3>1. Len(tasks[t]) \in Nat /\ DOMAIN tasks[t] = 1 .. Len(tasks[t])  BY StepsAre
    <3> QED  BY <2>2, <2>3, <3>1, AdvancedBounded
  <2> QED  BY <2>1, <2>4
<1>2. \A t \in Task : t \in P
  <2>1. \A t \in Task : (\A s \in Task : parent[s] = t => s \in P) => t \in P  BY <1>1
  <2> HIDE DEF P
  <2> QED  BY <2>1, Upwards
<1> QED  BY <1>2

LEMMA AdvanceBoundedNext ==
    (Tree /\ Deep /\ Counted => \A t \in Task : Advance[t] \in Nat /\ Advance[t] <= Unit)'
BY AdvanceBounded, PTL

\* What has not changed, in the task and below it.
Same(t) ==
    /\ completed'[t] = completed[t] /\ started'[t] = started[t] /\ max'[t] = max[t] /\ current'[t] = current[t]
    /\ tasks'[t] = tasks[t]

LEMMA AdvanceStays ==
    ASSUME Tree, Deep, Tree', Deep', NEW F \in SUBSET Task, \A t \in F : Same(t),
           \A t \in F : t \in Finite => \A i \in DOMAIN tasks[t] : tasks[t][i] \in Task => tasks[t][i] \in F
    PROVE  \A t \in F : Advance'[t] = Advance[t]
<1> DEFINE P == {t \in Task : t \in F => Advance'[t] = Advance[t]}
<1>1. ASSUME NEW t \in Task, \A s \in Task : parent[s] = t => s \in P PROVE t \in P
  <2> SUFFICES ASSUME t \in F PROVE Advance'[t] = Advance[t]  OBVIOUS
  <2> DEFINE f == Advance
             g == Advance'
  <2>1. /\ f[t] = Advanced(f, t, completed[t], started[t], max[t], current[t], tasks[t])
        /\ g[t] = Advanced(g, t, completed'[t], started'[t], max'[t], current'[t], tasks'[t])
    BY AdvanceUnfolds, AdvanceUnfoldsNext DEF AdvanceBy
  <2>2. Same(t)  OBVIOUS
  <2>3. t \in Finite => \A i \in DOMAIN tasks[t] : tasks[t][i] # Open /\ tasks[t][i] # Closed => f[tasks[t][i]] = g[tasks[t][i]]
    BY <1>1, StepsAre
  <2> HIDE DEF f, g
  <2>4. Advanced(f, t, completed[t], started[t], max[t], current[t], tasks[t])
          = Advanced(g, t, completed[t], started[t], max[t], current[t], tasks[t])
    BY <2>3, AdvancedAgrees
  <2>5. g[t] = Advanced(g, t, completed[t], started[t], max[t], current[t], tasks[t])
    BY <2>1, <2>2, Zenon DEF Same
  <2>6. g[t] = f[t]  BY <2>1, <2>4, <2>5, Zenon
  <2> QED  BY <2>6 DEF f, g
<1>2. \A t \in Task : t \in P
  <2> HIDE DEF P
  <2> QED  BY <1>1, Upwards
<1> QED  BY <1>2

\* A task goes on: its steps are done or begun, or stay.
Goes(t) ==
    /\ completed[t] => completed'[t]
    /\ started[t] /\ ~completed'[t] =>
          /\ started'[t]
          /\ t \in Variable /\ max[t] # 0 /\ current[t] # 0 => max'[t] = max[t] /\ current[t] <= current'[t]
          /\ t \in Finite =>
                /\ Len(tasks'[t]) = Len(tasks[t])
                /\ \A i \in DOMAIN tasks[t] : \/ tasks'[t][i] = tasks[t][i]
                                              \/ tasks'[t][i] = Closed
                                              \/ tasks[t][i] = Open
                                              \/ tasks[t][i] \in Task /\ Advance[tasks[t][i]] = 0

LEMMA AdvanceGrows ==
    ASSUME Tree, Deep, Counted, Tree', Deep', Counted', \A t \in Task : Goes(t)
    PROVE  \A t \in Task : Advance[t] <= Advance'[t]
<1> DEFINE f == Advance
           g == Advance'
           P == {t \in Task : f[t] <= g[t]}
<1>1. \A t \in Task : f[t] \in Nat /\ f[t] <= Unit /\ g[t] \in Nat /\ g[t] <= Unit
  BY AdvanceBounded, AdvanceBoundedNext
<1>2. \A t \in Task :
        /\ f[t] = Advanced(f, t, completed[t], started[t], max[t], current[t], tasks[t])
        /\ g[t] = Advanced(g, t, completed'[t], started'[t], max'[t], current'[t], tasks'[t])
  BY AdvanceUnfolds, AdvanceUnfoldsNext DEF AdvanceBy
<1>u. Unit \in Nat  BY BoundAssumption
<1> HIDE DEF f, g
<1>3. ASSUME NEW t \in Task, \A s \in Task : parent[s] = t => s \in P PROVE f[t] <= g[t]
  <2>1. Goes(t)  OBVIOUS
  <2>2. CASE completed'[t]
    <3>1. g[t] = Unit  BY <1>2, <2>2, Zenon DEF Advanced
    <3> QED  BY <1>1, <3>1
  <2>3. CASE ~completed'[t] /\ ~started[t]
    <3>1. f[t] = 0  BY <1>2, <2>1, <2>3, Zenon DEF Advanced, Goes
    <3> QED  BY <1>1, <3>1, SMT
  <2>4. CASE ~completed'[t] /\ started[t] /\ t \in Variable
    <3>1. /\ ~completed[t] /\ started'[t] /\ (max[t] # 0 /\ current[t] # 0 => max'[t] = max[t] /\ current[t] <= current'[t])
      BY <2>1, <2>4, Zenon DEF Goes
    <3>2. /\ f[t] = IF max[t] = 0 THEN 0 ELSE (Unit * current[t]) \div max[t]
          /\ g[t] = IF max'[t] = 0 THEN 0 ELSE (Unit * current'[t]) \div max'[t]
      BY <1>2, <2>4, <3>1, Zenon DEF Advanced
    <3>3. CASE max[t] = 0 \/ current[t] = 0
      <4>1. max[t] \in Nat  BY DEF Counted
      <4>2. Unit * 0 = 0  BY <1>u, SMT
      <4>3. max[t] # 0 => 0 \div max[t] = 0  BY <4>1, SMT
      <4>4. f[t] = 0  BY <3>2, <3>3, <4>2, <4>3
      <4> QED  BY <1>1, <4>4, SMT
    <3>4. CASE max[t] # 0 /\ current[t] # 0
      <4> DEFINE a == Unit * current[t]
                 b == Unit * current'[t]
      <4>1. current[t] \in Nat /\ current'[t] \in Nat /\ max[t] \in Nat  BY DEF Counted
      <4>2. a \in Nat /\ b \in Nat /\ a <= b  BY <1>u, <3>1, <3>4, <4>1, TimesOrder
      <4>3. f[t] = a \div max[t] /\ g[t] = b \div max[t]  BY <3>1, <3>2, <3>4
      <4> HIDE DEF a, b
      <4> QED  BY <3>4, <4>1, <4>2, <4>3, QuotientGrows
    <3> QED  BY <3>3, <3>4
  <2>5. CASE ~completed'[t] /\ started[t] /\ t \notin Variable /\ t \in Finite
    <3> DEFINE v == tasks[t]
               w == tasks'[t]
               n == Len(v)
    <3>1. /\ ~completed[t] /\ started'[t] /\ Len(w) = n
          /\ \A i \in DOMAIN v : w[i] = v[i] \/ w[i] = Closed \/ v[i] = Open \/ (v[i] \in Task /\ f[v[i]] = 0)
      BY <2>1, <2>5, Zenon DEF Goes, f
    <3>2. f[t] = Total(Shares(f, v)) /\ g[t] = Total(Shares(g, w))
      BY <1>2, <2>5, <3>1, Zenon DEF Advanced
    <3>3. /\ n \in Nat /\ DOMAIN v = 1 .. n
          /\ \A i \in DOMAIN v : v[i] # Open /\ v[i] # Closed => v[i] \in Task /\ parent[v[i]] = t
          /\ \A i \in DOMAIN v : v[i] \in Task => v[i] # Open /\ v[i] # Closed
      BY StepsAre
    <3>4. /\ DOMAIN w = 1 .. Len(w)
          /\ \A i \in DOMAIN w : w[i] # Open /\ w[i] # Closed => w[i] \in Task
      BY StepsAreNext
    <3>5. \A s \in Task : parent[s] = t => f[s] <= g[s]  BY <1>3
    <3> HIDE DEF v, w, n
    <3>6. ASSUME NEW i \in 1 .. n
          PROVE  Worth(f, v[i]) \in Nat /\ Worth(g, w[i]) \in Nat /\ Worth(f, v[i]) <= Worth(g, w[i])
      <4>1. i \in DOMAIN v /\ i \in DOMAIN w  BY <3>1, <3>3, <3>4, <3>6
      <4>2. /\ Worth(f, v[i]) \in Nat /\ Worth(f, v[i]) <= Unit
            /\ Worth(g, w[i]) \in Nat /\ Worth(g, w[i]) <= Unit
        BY <1>1, <3>3, <3>4, <4>1, WorthIs
      <4>3. CASE w[i] = v[i]
        <5>1. CASE v[i] = Open \/ v[i] = Closed
          <6>1. Worth(f, v[i]) = Worth(g, w[i])  BY <4>3, <5>1, Zenon DEF Worth
          <6> QED  BY <4>2, <6>1, SMT
        <5>2. CASE v[i] # Open /\ v[i] # Closed
          <6>1. v[i] \in Task /\ parent[v[i]] = t  BY <3>3, <4>1, <5>2
          <6>2. f[v[i]] <= g[v[i]]  BY <3>5, <6>1
          <6>3. Worth(f, v[i]) = f[v[i]] /\ Worth(g, w[i]) = g[v[i]]  BY <4>3, <5>2, Zenon DEF Worth
          <6> QED  BY <4>2, <6>2, <6>3
        <5> QED  BY <5>1, <5>2
      <4>4. CASE w[i] = Closed
        <5>1. Open # Closed  BY DEF Open, Closed
        <5>2. Worth(g, w[i]) = Unit  BY <4>4, <5>1, Zenon DEF Worth
        <5> QED  BY <4>2, <5>2
      <4>5. CASE v[i] = Open \/ (v[i] \in Task /\ f[v[i]] = 0)
        <5>1. Worth(f, v[i]) = 0  BY <3>3, <4>1, <4>5, Zenon DEF Worth
        <5> QED  BY <4>2, <5>1, SMT
      <4> QED  BY <3>1, <4>1, <4>3, <4>4, <4>5
    <3>7. Total(Shares(f, v)) <= Total(Shares(g, w))
      <4>1. Len(v) = n /\ Len(w) = n /\ DOMAIN w = 1 .. n  BY <3>1, <3>4 DEF n
      <4> QED  BY <3>3, <3>6, <4>1, TotalOfMore
    <3> QED  BY <3>2, <3>7
  <2>6. CASE ~completed'[t] /\ started[t] /\ t \notin Variable /\ t \notin Finite
    <3>1. ~completed[t]  BY <2>1, <2>6, Zenon DEF Goes
    <3>2. f[t] = 0  BY <1>2, <2>6, <3>1, Zenon DEF Advanced
    <3> QED  BY <1>1, <3>2, SMT
  <2> QED  BY <2>2, <2>3, <2>4, <2>5, <2>6
<1>4. \A t \in Task : t \in P
  <2>1. \A t \in Task : (\A s \in Task : parent[s] = t => s \in P) => t \in P  BY <1>3
  <2> HIDE DEF P
  <2> QED  BY <2>1, Upwards
<1> QED  BY <1>4 DEF f, g

LEMMA ProgressIs ==
    ASSUME Tree, Deep, \A v \in Task : ~Bad(v)
    PROVE  \A t \in Task : GetProgress[t] = Advance[t]
<1> DEFINE By(f) == [t \in Task |-> AdvanceBy(f, t)]
           Get(f) == [t \in Task |-> IF completed[t] THEN Unit
                                     ELSE IF ~started[t] THEN 0
                                     ELSE IF t \in Variable THEN VariableProgress(t)
                                     ELSE IF t \in Finite THEN Total(Shares(f, tasks[t]))
                                     ELSE BooleanProgress(t)]
<1>1. GetProgress = CHOOSE f : f = Get(f)  BY Zenon DEF GetProgress
<1>2. ASSUME NEW f PROVE Get(f) = By(f)
  <2>1. ASSUME NEW t \in Task PROVE Get(f)[t] = By(f)[t]
    <3>1. ~Bad(t)  OBVIOUS
    <3>2. CASE ~completed[t] /\ started[t] /\ t \in Variable
      <4>1. max[t] # 0  BY <3>1, <3>2, Zenon DEF Bad
      <4>2. VariableProgress(t) = (Unit * current[t]) \div max[t]  BY <4>1, Zenon DEF VariableProgress
      <4>3. Get(f)[t] = VariableProgress(t)  BY <3>2, Zenon
      <4>4. By(f)[t] = (Unit * current[t]) \div max[t]  BY <3>2, <4>1, Zenon DEF AdvanceBy, Advanced
      <4> QED  BY <4>2, <4>3, <4>4
    <3>3. CASE completed[t] \/ ~started[t] \/ t \notin Variable
      BY <3>3, Zenon DEF AdvanceBy, Advanced, BooleanProgress
    <3> QED  BY <3>2, <3>3
  <2>2. Get(f) = [t \in Task |-> Get(f)[t]] /\ By(f) = [t \in Task |-> By(f)[t]]  BY Zenon
  <2> HIDE DEF Get, By
  <2>3. [t \in Task |-> Get(f)[t]] = [t \in Task |-> By(f)[t]]  BY <2>1
  <2> QED  BY <2>2, <2>3, Zenon
<1>3. Advance = By(Advance)  BY AdvanceUnfolds
<1>4. \A f : \A t \in Task : By(f)[t] = AdvanceBy(f, t)  OBVIOUS
<1> HIDE DEF Get, By
<1>5. \E f : f = Get(f)  BY <1>2, <1>3, Zenon
<1>6. GetProgress = By(GetProgress)  BY <1>1, <1>2, <1>5, Zenon
<1> DEFINE P == {t \in Task : GetProgress[t] = Advance[t]}
<1>7. ASSUME NEW t \in Task, \A s \in Task : parent[s] = t => s \in P PROVE GetProgress[t] = Advance[t]
  <2>1. \A s \in Slots(t) : s # Open /\ s # Closed => GetProgress[s] = Advance[s]  BY <1>7, SlotsAre
  <2>2. AdvanceBy(GetProgress, t) = AdvanceBy(Advance, t)  BY <2>1, AdvanceByAgrees
  <2> QED  BY <1>3, <1>4, <1>6, <2>2, Zenon
<1>8. \A t \in Task : t \in P
  <2>1. \A t \in Task : (\A s \in Task : parent[s] = t => s \in P) => t \in P  BY <1>7
  <2> HIDE DEF P
  <2> QED  BY <2>1, Upwards
<1> QED  BY <1>8

(***************************************************************************)
(* What holds while progress is told, where no sub-task of an earlier path *)
(* has been worked on since the last restart.                              *)
(***************************************************************************)
\* The steps to come are open, or sub-tasks of an earlier path that count nothing.
Ahead ==
    \A t \in Finite : t \notin retired => \A i \in DOMAIN tasks[t] : i > taskIndex[t] =>
        tasks[t][i] = Open \/ (tasks[t][i] \in retired /\ Advance[tasks[t][i]] = 0)

\* What has been shown, and what is about to be, has been reached.
Reached ==
    /\ shown \in [Task -> Nat] /\ \A t \in Task : shown[t] <= Advance[t]
    /\ \A i \in DOMAIN notices : IsProgress(notices[i]) =>
          /\ i = 1 /\ notices[i].value \in Nat
          /\ shown[notices[i].of] <= notices[i].value /\ notices[i].value <= Advance[notices[i].of]

\* Nothing is told of earlier paths.
Alive == \A i \in DOMAIN notices : notices[i].of \in Task \ retired

GoInv == TellInv /\ Deep /\ Counted /\ Sizeless /\ Alive /\ Ahead /\ Reached

\* What follows once the tree has gone on.
LEMMA GoesOn ==
    ASSUME GoInv, Tree', Deep', Counted', retired' = retired,
           \A t \in Task : Goes(t), \A t \in retired : Same(t),
           \A t \in Finite : t \notin retired => \A i \in DOMAIN tasks'[t] : i > taskIndex'[t] =>
               tasks'[t][i] = Open \/ (i \in DOMAIN tasks[t] /\ i > taskIndex[t] /\ tasks'[t][i] = tasks[t][i])
    PROVE  /\ Ahead'
           /\ \A t \in Task : /\ Advance[t] <= Advance'[t] /\ Advance[t] \in Nat /\ Advance[t] <= Unit
                              /\ Advance'[t] \in Nat /\ Advance'[t] <= Unit
<1>1. Tree /\ Deep /\ Counted /\ Living /\ Ahead  BY DEF GoInv, TellInv
<1>2. \A t \in Task : Advance[t] <= Advance'[t]  BY <1>1, AdvanceGrows
<1>3. \A t \in Task : /\ Advance[t] \in Nat /\ Advance[t] <= Unit
                      /\ Advance'[t] \in Nat /\ Advance'[t] <= Unit
  BY <1>1, AdvanceBounded, AdvanceBoundedNext
<1>4. \A t \in retired : Advance'[t] = Advance[t]
  <2>1. retired \in SUBSET Task  BY <1>1 DEF Counted
  <2>2. ASSUME NEW t \in retired, t \in Finite, NEW i \in DOMAIN tasks[t], tasks[t][i] \in Task PROVE tasks[t][i] \in retired
    <3>1. parent[tasks[t][i]] = t  BY <1>1, <2>1, <2>2, StepsAre
    <3>2. t # None  BY <2>1, RootAssumption, SMT
    <3> QED  BY <1>1, <2>2, <3>1, <3>2, Zenon DEF Living
  <2> QED  BY <1>1, <2>1, <2>2, AdvanceStays
<1>5. Ahead'
  <2> SUFFICES ASSUME NEW t \in Finite, t \notin retired, NEW i \in DOMAIN tasks'[t], i > taskIndex'[t]
               PROVE  tasks'[t][i] = Open \/ (tasks'[t][i] \in retired /\ Advance'[tasks'[t][i]] = 0)
    BY Zenon DEF Ahead, Finite
  <2>1. CASE tasks'[t][i] = Open  BY <2>1
  <2>2. CASE i \in DOMAIN tasks[t] /\ i > taskIndex[t] /\ tasks'[t][i] = tasks[t][i]
    <3>1. tasks[t][i] = Open \/ (tasks[t][i] \in retired /\ Advance[tasks[t][i]] = 0)
      BY <1>1, <2>2, Zenon DEF Ahead
    <3> QED  BY <1>4, <2>2, <3>1, Zenon
  <2> QED  BY <2>1, <2>2
<1> QED  BY <1>2, <1>3, <1>5

\* What is given next.
LEMMA HeadAlive ==
    ASSUME GoInv, notices # <<>>
    PROVE  /\ IsList(notices) /\ 1 \in DOMAIN notices /\ Head(notices) = notices[1]
           /\ Head(notices).of \in Task \ retired
           /\ parent[Head(notices).of] # None => parent[Head(notices).of] \in Task \ retired
<1>1. Tree /\ Living /\ Alive  BY DEF GoInv, TellInv
<1>2. IsList(notices)  BY <1>1, Zenon DEF Tree
<1>3. Len(notices) > 0 /\ Len(notices) \in Nat /\ DOMAIN notices = 1 .. Len(notices) /\ Head(notices) = notices[1]
  BY <1>2, ListIs
<1>4. 1 \in DOMAIN notices  BY <1>3, SMT
<1>5. Head(notices).of \in Task \ retired  BY <1>1, <1>3, <1>4, Zenon DEF Alive
<1> DEFINE t == Head(notices).of
<1>6. ASSUME parent[t] # None PROVE parent[t] \in Task \ retired
  <2>1. parent \in [Task -> Finite \cup {None}] /\ t \in Task  BY <1>1, <1>5, Zenon DEF Tree
  <2>2. parent[t] \in Task
    <3>1. parent[t] \in Finite \cup {None}  BY <2>1
    <3> QED  BY <1>6, <3>1 DEF Finite
  <2>3. parent[t] \notin retired  BY <1>1, <1>5, <1>6, Zenon DEF Living
  <2> QED  BY <2>2, <2>3
<1> QED  BY <1>2, <1>3, <1>4, <1>5, <1>6

LEMMA GivenForward ==
    ASSUME GoInv, Tree', Deep', Counted', notices # <<>>, NEW new, IsList(new), Gives(new),
           retired' = retired, max' = max, current' = current, tasks' = tasks, taskIndex' = taskIndex,
           \A t \in Task : (completed[t] => completed'[t]) /\ (started[t] => started'[t]),
           \A t \in retired : completed'[t] = completed[t] /\ started'[t] = started[t],
           \A i \in DOMAIN new : new[i].of \in Task \ retired,
           shown' \in [Task -> Nat],
           \A t \in Task : shown'[t] <= Advance[t],
           \A i \in DOMAIN new : IsProgress(new[i]) =>
               /\ i = 1 /\ new[i].value \in Nat
               /\ new[i].value = Advance[new[i].of] \/ (new[i].value = Unit /\ completed'[new[i].of])
    PROVE  (Alive /\ Ahead /\ Reached)'
<1>1. Counted /\ Alive /\ Reached  BY DEF GoInv
<1>2. IsList(notices)  BY HeadAlive
<1>3. \A k \in DOMAIN notices' : \/ k \in DOMAIN new /\ notices'[k] = new[k]
                                 \/ \E i \in DOMAIN notices : i # 1 /\ k = i - 1 + Len(new) /\ notices'[k] = notices[i]
  BY <1>2, GivenIs
<1>4. Alive'
  <2>1. \A i \in DOMAIN notices : notices[i].of \in Task \ retired  BY <1>1, Zenon DEF Alive
  <2>2. \A k \in DOMAIN notices' : notices'[k].of \in Task \ retired  BY <1>3, <2>1, Zenon
  <2> QED  BY <2>2, Zenon DEF Alive
<1>5. ASSUME NEW t \in Task PROVE Goes(t)
  <2>1. current[t] <= current[t]
    <3>1. current[t] \in Nat  BY <1>1 DEF Counted
    <3> QED  BY <3>1, SMT
  <2> QED  BY <2>1, Zenon DEF Goes
<1>6. \A t \in retired : Same(t)  BY Zenon DEF Same
<1>7. /\ Ahead'
      /\ \A t \in Task : /\ Advance[t] <= Advance'[t] /\ Advance[t] \in Nat /\ Advance[t] <= Unit
                         /\ Advance'[t] \in Nat /\ Advance'[t] <= Unit
  BY <1>5, <1>6, GoesOn, Zenon
<1>8. \A t \in Task : shown'[t] <= Advance'[t]
  <2> SUFFICES ASSUME NEW t \in Task PROVE shown'[t] <= Advance'[t]  OBVIOUS
  <2>1. shown'[t] \in Nat /\ shown'[t] <= Advance[t]  OBVIOUS
  <2> QED  BY <1>7, <2>1, SMT
<1>9. \A t \in Task : completed'[t] => Advance'[t] = Unit
  <2> SUFFICES ASSUME NEW t \in Task, completed'[t] PROVE Advance'[t] = Unit  OBVIOUS
  <2>1. Advance'[t] = Advanced(Advance', t, completed'[t], started'[t], max'[t], current'[t], tasks'[t])
    BY AdvanceUnfoldsNext DEF AdvanceBy
  <2> QED  BY <2>1, Zenon DEF Advanced
<1>10. ASSUME NEW k \in DOMAIN notices', IsProgress(notices'[k])
       PROVE  /\ k = 1 /\ notices'[k].value \in Nat
              /\ shown'[notices'[k].of] <= notices'[k].value /\ notices'[k].value <= Advance'[notices'[k].of]
  <2>1. k \in DOMAIN new /\ notices'[k] = new[k]  BY <1>1, <1>3, <1>10, Zenon DEF Reached
  <2> DEFINE t == new[k].of
             x == new[k].value
  <2>2. t \in Task /\ k = 1 /\ x \in Nat /\ (x = Advance[t] \/ (x = Unit /\ completed'[t]))
    BY <1>10, <2>1, Zenon
  <2>3. shown'[t] \in Nat /\ shown'[t] <= Advance[t]  BY <2>2
  <2> HIDE DEF t, x
  <2>4. shown'[t] <= x /\ x <= Advance'[t]
    <3>1. CASE x = Advance[t]  BY <1>7, <2>2, <2>3, <3>1
    <3>2. CASE x = Unit /\ completed'[t]
      <4>1. Advance'[t] = Unit /\ Unit \in Nat  BY <1>9, <2>2, <3>2, BoundAssumption
      <4>2. Advance[t] \in Nat /\ Advance[t] <= Unit  BY <1>7, <2>2
      <4> QED  BY <2>3, <3>2, <4>1, <4>2, SMT
    <3> QED  BY <2>2, <3>1, <3>2
  <2> QED  BY <2>1, <2>2, <2>4 DEF t, x
<1>11. Reached'
  <2> DEFINE Q(k) == IsProgress(notices'[k]) => /\ k = 1 /\ notices'[k].value \in Nat
              /\ shown'[notices'[k].of] <= notices'[k].value /\ notices'[k].value <= Advance'[notices'[k].of]
  <2>1. \A k \in DOMAIN notices' : Q(k)  BY <1>10
  <2> QED  BY <1>8, <2>1, Zenon DEF Reached, IsProgress
<1> QED  BY <1>4, <1>7, <1>11

LEMMA ForwardStarted ==
    ASSUME GoInv, Tree', Deep', Counted', notices # <<>>, NEW n, n = Head(notices), NotifyStarted(n)
    PROVE  (Alive /\ Ahead /\ Reached)'
<1>1. /\ n.of \in Task \ retired /\ (parent[n.of] # None => parent[n.of] \in Task \ retired)
      /\ IsList(notices) /\ 1 \in DOMAIN notices /\ n = notices[1]
  BY HeadAlive
<1>3. /\ parent' = parent /\ tasks' = tasks /\ taskIndex' = taskIndex /\ retired' = retired /\ completed' = completed
      /\ max' = max /\ current' = current /\ shown' = shown
      /\ \/ started[n.of] /\ Gives(<<>>) /\ started' = started
         \/ /\ started' = [started EXCEPT ![n.of] = TRUE]
            /\ Gives(<<Event3("started", n.of, 0)>> \o ToParent("started", n.of))
  BY Zenon DEF NotifyStarted
<1>4. shown' \in [Task -> Nat] /\ \A t \in Task : shown'[t] <= Advance[t]  BY <1>3 DEF GoInv, Reached
<1>5. CASE started[n.of] /\ Gives(<<>>) /\ started' = started
  <2> DEFINE new == <<>>
  <2>1. IsList(new) /\ DOMAIN new = {} /\ \A l, u : ~In(new, l, u)  BY InOnes, PairIs
  <2>2. Gives(new)  BY <1>5
  <2> HIDE DEF new
  <2>3. (Alive /\ Ahead /\ Reached)'
    BY <1>3, <1>4, <1>5, <2>1, <2>2, GivenForward, Zenon
  <2> QED  BY <2>3
<1>6. CASE /\ started' = [started EXCEPT ![n.of] = TRUE]
           /\ Gives(<<Event3("started", n.of, 0)>> \o ToParent("started", n.of))
  <2> DEFINE t == n.of
             new == <<Event3("started", t, 0)>> \o ToParent("started", t)
  <2>1. IsList(new) /\ \A l \in Others : \A u : In(new, l, u) <=> parent[t] # None /\ l = "started" /\ u = parent[t]
    BY PassedIs
  <2>2. \A i \in DOMAIN new : /\ new[i].of = t \/ (parent[t] # None /\ new[i].of = parent[t])
                              /\ ~IsProgress(new[i])
    <3>1. "started" \in Others /\ "started" # "progress"  BY OthersAre
    <3> QED  BY <3>1, OneEvent
  <2>3. Gives(new)  BY <1>6
  <2> HIDE DEF new
  <2>4. started \in [Task -> BOOLEAN] /\ parent \in [Task -> Finite \cup {None}]  BY Zenon DEF GoInv, TellInv, Tree
  <2>5. started'[t] /\ \A u \in Task : u # t => started'[u] = started[u]  BY <1>1, <1>6, <2>4 DEF t
  <2>6. (Alive /\ Ahead /\ Reached)'
    <3>1. \A i \in DOMAIN new : new[i].of \in Task \ retired  BY <1>1, <2>2, Zenon
    <3>2. \A u \in Task : started[u] => started'[u]  BY <2>5, Zenon
    <3>3. \A u \in retired : u \in Task /\ u # t  BY <1>1 DEF GoInv, Counted
    <3>4. \A u \in retired : started'[u] = started[u]  BY <2>5, <3>3, Zenon
    <3> QED  BY <1>3, <1>4, <2>1, <2>2, <2>3, <3>1, <3>2, <3>4, GivenForward, Zenon
  <2> QED  BY <2>6
<1> QED  BY <1>3, <1>5, <1>6

LEMMA ForwardUpdate ==
    ASSUME GoInv, Tree', Deep', Counted', notices # <<>>, NEW n, n = Head(notices), NotifyUpdate(n)
    PROVE  (Alive /\ Ahead /\ Reached)'
<1> DEFINE t == n.of
<1>1. /\ t \in Task \ retired /\ (parent[t] # None => parent[t] \in Task \ retired)
      /\ IsList(notices) /\ 1 \in DOMAIN notices /\ n = notices[1]
  BY HeadAlive
<1>2. /\ n.kind = "update" /\ n.kind # "started"
      /\ \A u : (Is(n, "update", u) <=> u = t) /\ ~Is(n, "completed", u)
  BY SMT DEF NotifyUpdate, Is
<1>3. /\ parent' = parent /\ tasks' = tasks /\ taskIndex' = taskIndex /\ retired' = retired /\ completed' = completed
      /\ max' = max /\ current' = current /\ shown' = shown /\ started' = started
      /\ Gives(IF IsCompleted[t] THEN <<Notice("completed", t)>>
               ELSE <<Event3("progress", t, GetProgress[t])>> \o ToParent("update", t))
  BY Zenon DEF NotifyUpdate, treeVars
<1>4. shown' \in [Task -> Nat] /\ \A u \in Task : shown'[u] <= Advance[u]  BY <1>3 DEF GoInv, Reached
<1>5. Tree /\ Deep /\ Counted /\ Sizeless  BY DEF GoInv, TellInv
<1>6. Pending("update", t)
  <2>1. Is(notices[1], "update", t)  BY <1>1, <1>2
  <2> QED  BY <1>1, <2>1, Zenon DEF Pending
<1> HIDE DEF t
<1>8. CASE IsCompleted[t]
  <2> DEFINE x == Notice("completed", t)
             new == <<x>>
  <2>1. IsList(new) /\ DOMAIN new = {1} /\ new[1] = x /\ \A l, u : In(new, l, u) <=> l = "completed" /\ u = t
    BY InOnes, PairIs
  <2>2. Gives(new)  BY <1>3, <1>8
  <2>3. x.of = t /\ ~IsProgress(x)  BY SMT DEF Notice, IsProgress
  <2> HIDE DEF new, x
  <2>4. \A i \in DOMAIN new : new[i].of \in Task \ retired /\ ~IsProgress(new[i])  BY <1>1, <2>1, <2>3
  <2>5. (Alive /\ Ahead /\ Reached)'
    BY <1>3, <1>4, <2>1, <2>2, <2>4, GivenForward, Zenon
  <2> QED  BY <2>5
<1>9. CASE ~IsCompleted[t]
  <2> DEFINE p == GetProgress[t]
             new == <<Event3("progress", t, p)>> \o ToParent("update", t)
  <2>1. IsList(new) /\ \A l \in Others : \A u : In(new, l, u) <=> parent[t] # None /\ l = "update" /\ u = parent[t]
    BY PassedIs
  <2>2. Gives(new)  BY <1>3, <1>9
  <2>3. \A v \in Task : ~Bad(v)  BY <1>1, <1>5, <1>6, <1>9, NoneBadAt
  <2>4. p = Advance[t] /\ p \in Nat  BY <1>1, <1>5, <2>3, ProgressIs, AdvanceBounded
  <2> HIDE DEF p
  <2>5. \A i \in DOMAIN new : /\ new[i].of = t \/ (parent[t] # None /\ new[i].of = parent[t])
                              /\ IsProgress(new[i]) => i = 1 /\ new[i].of = t /\ new[i].value = p
    BY OthersAre, OneEvent
  <2> HIDE DEF new
  <2>6. \A i \in DOMAIN new : /\ new[i].of \in Task \ retired
                              /\ IsProgress(new[i]) => i = 1 /\ new[i].value \in Nat /\ new[i].value = Advance[new[i].of]
    BY <1>1, <2>4, <2>5
  <2>7. (Alive /\ Ahead /\ Reached)'
    BY <1>3, <1>4, <2>1, <2>2, <2>6, GivenForward, Zenon
  <2> QED  BY <2>7
<1> QED  BY <1>8, <1>9

LEMMA ForwardCompleted ==
    ASSUME GoInv, Tree', Deep', Counted', notices # <<>>, NEW n, n = Head(notices), NotifyCompleted(n)
    PROVE  (Alive /\ Ahead /\ Reached)'
<1> DEFINE t == n.of
<1>1. /\ t \in Task \ retired /\ (parent[t] # None => parent[t] \in Task \ retired)
      /\ IsList(notices) /\ 1 \in DOMAIN notices /\ n = notices[1]
  BY HeadAlive
<1>3. /\ parent' = parent /\ tasks' = tasks /\ taskIndex' = taskIndex /\ retired' = retired
      /\ max' = max /\ current' = current /\ shown' = shown /\ started' = started
      /\ \/ completed[t] /\ Gives(<<>>) /\ completed' = completed
         \/ /\ completed' = [completed EXCEPT ![t] = TRUE]
            /\ Gives(<<Event3("progress", t, Unit), Event3("completed", t, Unit)>> \o ToParent("update", t))
  BY Zenon DEF NotifyCompleted
<1>4. shown' \in [Task -> Nat] /\ \A u \in Task : shown'[u] <= Advance[u]  BY <1>3 DEF GoInv, Reached
<1>5. completed \in [Task -> BOOLEAN] /\ retired \subseteq Task  BY Zenon DEF GoInv, TellInv, Tree, Counted
<1> HIDE DEF t
<1>9. CASE completed[t] /\ Gives(<<>>) /\ completed' = completed
  <2> DEFINE new == <<>>
  <2>1. IsList(new) /\ DOMAIN new = {} /\ \A l, u : ~In(new, l, u)  BY InOnes, PairIs
  <2>2. Gives(new)  BY <1>9
  <2> HIDE DEF new
  <2>3. (Alive /\ Ahead /\ Reached)'
    BY <1>3, <1>4, <1>9, <2>1, <2>2, GivenForward, Zenon
  <2> QED  BY <2>3
<1>10. CASE /\ completed' = [completed EXCEPT ![t] = TRUE]
            /\ Gives(<<Event3("progress", t, Unit), Event3("completed", t, Unit)>> \o ToParent("update", t))
  <2> DEFINE new == <<Event3("progress", t, Unit), Event3("completed", t, Unit)>> \o ToParent("update", t)
  <2>1. IsList(new) /\ \A l \in Others : \A u : In(new, l, u) <=> parent[t] # None /\ l = "update" /\ u = parent[t]
    BY PassedIs
  <2>2. \A i \in DOMAIN new : /\ new[i].of = t \/ (parent[t] # None /\ new[i].of = parent[t])
                              /\ IsProgress(new[i]) => i = 1 /\ new[i].of = t /\ new[i].value = Unit
    BY OthersAre, TwoEvents
  <2>3. Gives(new)  BY <1>10
  <2> HIDE DEF new
  <2>4. completed'[t] /\ \A u \in Task : u # t => completed'[u] = completed[u]  BY <1>1, <1>5, <1>10
  <2>5. (Alive /\ Ahead /\ Reached)'
    <3>1. \A i \in DOMAIN new : /\ new[i].of \in Task \ retired
                                /\ IsProgress(new[i]) => i = 1 /\ new[i].value \in Nat /\ new[i].value = Unit /\ completed'[new[i].of]
      BY <1>1, <2>2, <2>4, BoundAssumption
    <3>2. \A u \in Task : completed[u] => completed'[u]  BY <2>4, Zenon
    <3>3. \A u \in retired : completed'[u] = completed[u]  BY <1>1, <1>5, <2>4
    <3> QED  BY <1>3, <1>4, <2>1, <2>3, <3>1, <3>2, <3>3, GivenForward, Zenon
  <2> QED  BY <2>5
<1> QED  BY <1>3, <1>9, <1>10

LEMMA ForwardOther ==
    ASSUME GoInv, Tree', Deep', Counted', notices # <<>>, NEW n, n = Head(notices),
           NotifyFailed(n) \/ NotifyLengthyTask(n) \/ FireEvent(n)
    PROVE  (Alive /\ Ahead /\ Reached)'
<1> DEFINE t == n.of
<1>1. /\ t \in Task \ retired /\ (parent[t] # None => parent[t] \in Task \ retired)
      /\ IsList(notices) /\ 1 \in DOMAIN notices /\ n = notices[1]
  BY HeadAlive
<1>3. /\ parent' = parent /\ tasks' = tasks /\ taskIndex' = taskIndex /\ retired' = retired /\ completed' = completed
      /\ max' = max /\ current' = current /\ started' = started
  BY Zenon DEF NotifyFailed, NotifyLengthyTask, FireEvent, treeVars
<1>4. shown \in [Task -> Nat] /\ \A u \in Task : shown[u] <= Advance[u]  BY DEF GoInv, Reached
<1>6. ASSUME NEW new, IsList(new), Gives(new),
             \A i \in DOMAIN new : new[i].of \in Task \ retired /\ ~IsProgress(new[i]),
             shown' \in [Task -> Nat], \A u \in Task : shown'[u] <= Advance[u]
      PROVE  (Alive /\ Ahead /\ Reached)'
  BY <1>3, <1>6, GivenForward, Zenon
<1> HIDE DEF t
<1>7. ASSUME NEW e, e # "progress", NEW k \in Others,
             Gives(<<Event3(e, t, 0)>> \o ToParent(k, t)), shown' = shown
      PROVE  (Alive /\ Ahead /\ Reached)'
  <2> DEFINE new == <<Event3(e, t, 0)>> \o ToParent(k, t)
  <2>1. IsList(new) /\ \A l \in Others : \A u : In(new, l, u) <=> parent[t] # None /\ l = k /\ u = parent[t]
    BY PassedIs
  <2>2. \A i \in DOMAIN new : /\ new[i].of = t \/ (parent[t] # None /\ new[i].of = parent[t])
                              /\ ~IsProgress(new[i])
    BY <1>7, OneEvent
  <2>3. Gives(new)  BY <1>7
  <2> HIDE DEF new
  <2>5. \A i \in DOMAIN new : new[i].of \in Task \ retired /\ ~IsProgress(new[i])  BY <1>1, <2>2, Zenon
  <2> QED  BY <1>4, <1>6, <1>7, <2>1, <2>3, <2>5
<1>8. CASE NotifyFailed(n)
  <2>1. Gives(<<Event3("failed", t, 0)>> \o ToParent("failed", t)) /\ shown' = shown
    BY <1>8, Zenon DEF NotifyFailed, t
  <2>2. "failed" # "progress" /\ "failed" \in Others  BY SMT DEF Others
  <2> QED  BY <1>7, <2>1, <2>2
<1>9. CASE NotifyLengthyTask(n)
  <2>1. Gives(<<Event3("lengthyTask", t, 0)>> \o ToParent("lengthy", t)) /\ shown' = shown
    BY <1>9, Zenon DEF NotifyLengthyTask, t
  <2>2. "lengthyTask" # "progress" /\ "lengthy" \in Others  BY SMT DEF Others
  <2> QED  BY <1>7, <2>1, <2>2
<1>10. CASE FireEvent(n)
  <2> DEFINE new == <<>>
  <2>1. IsList(new) /\ DOMAIN new = {} /\ \A l, u : ~In(new, l, u)  BY InOnes, PairIs
  <2>2. /\ notices' = Tail(notices) /\ n.kind = "event"
        /\ shown' = IF n.event = "progress" THEN [shown EXCEPT ![t] = n.value] ELSE shown
    BY <1>10, Zenon DEF FireEvent, t
  <2>5. Gives(new)  BY <1>1, <2>2, TailGiven
  <2> HIDE DEF new
  <2>6. n.event = "progress" => n.value \in Nat /\ n.value <= Advance[t]
    <3> SUFFICES ASSUME n.event = "progress" PROVE n.value \in Nat /\ n.value <= Advance[t]  OBVIOUS
    <3>1. IsProgress(notices[1])  BY <1>1, <2>2, Zenon DEF IsProgress
    <3>2. notices[1].value \in Nat /\ notices[1].value <= Advance[notices[1].of]
      BY <1>1, <3>1, Zenon DEF GoInv, Reached
    <3> QED  BY <1>1, <3>2 DEF t
  <2>7. shown' \in [Task -> Nat] /\ \A u \in Task : shown'[u] <= Advance[u]
    <3>1. CASE n.event = "progress"
      <4> DEFINE x == n.value
      <4>1. x \in Nat /\ x <= Advance[t] /\ shown' = [shown EXCEPT ![t] = x]  BY <2>2, <2>6, <3>1
      <4> HIDE DEF x
      <4>2. t \in Task  BY <1>1
      <4>3. shown' \in [Task -> Nat] /\ shown'[t] = x /\ \A u \in Task : u # t => shown'[u] = shown[u]
        BY <1>4, <4>1, <4>2
      <4> QED  BY <1>4, <4>1, <4>3
    <3>2. CASE n.event # "progress"  BY <1>4, <2>2, <3>2
    <3> QED  BY <3>1, <3>2
  <2> QED  BY <1>6, <2>1, <2>5, <2>7
<1> QED  BY <1>8, <1>9, <1>10

\* What a notice leaves.
LEMMA ForwardGive ==
    ASSUME GoInv, Tree', Deep', Counted', Give
    PROVE  (Alive /\ Ahead /\ Reached)'
<1> DEFINE n == Head(notices)
<1>1. notices # <<>> /\ (NotifyStarted(n) \/ NotifyUpdate(n) \/ NotifyCompleted(n)
                         \/ NotifyFailed(n) \/ NotifyLengthyTask(n) \/ FireEvent(n))
  BY Zenon DEF Give
<1> HIDE DEF n
<1>2. n = Head(notices)  BY DEF n
<1> QED  BY <1>1, <1>2, ForwardStarted, ForwardUpdate, ForwardCompleted, ForwardOther

LEMMA GoesSame ==
    ASSUME Counted, NEW u \in Task, completed[u] => completed'[u], started[u] => started'[u],
           max'[u] = max[u], current'[u] = current[u], tasks'[u] = tasks[u]
    PROVE  Goes(u)
<1>1. current[u] <= current[u]
  <2>1. current[u] \in Nat  BY DEF Counted
  <2> QED  BY <2>1, SMT
<1> QED  BY <1>1, Zenon DEF Goes

\* A call that lets the tree go on.
LEMMA CallForward ==
    ASSUME GoInv, Tree', Deep', Counted', notices = <<>>, retired' = retired, shown' = shown,
           \A i \in DOMAIN notices' : notices'[i].of \in Task \ retired /\ ~IsProgress(notices'[i]),
           \A u \in Task : Goes(u), \A u \in retired : Same(u),
           \A u \in Finite : u \notin retired => \A i \in DOMAIN tasks'[u] : i > taskIndex'[u] =>
               tasks'[u][i] = Open \/ (i \in DOMAIN tasks[u] /\ i > taskIndex[u] /\ tasks'[u][i] = tasks[u][i])
    PROVE  (Alive /\ Ahead /\ Reached)'
<1>1. Reached  BY DEF GoInv
<1>2. Alive'  BY Zenon DEF Alive
<1>3. /\ Ahead'
      /\ \A t \in Task : /\ Advance[t] <= Advance'[t] /\ Advance[t] \in Nat /\ Advance[t] <= Unit
                         /\ Advance'[t] \in Nat /\ Advance'[t] <= Unit
  BY GoesOn, Zenon
<1>4. shown \in [Task -> Nat] /\ \A t \in Task : shown[t] <= Advance[t]  BY <1>1 DEF Reached
<1>5. \A t \in Task : shown'[t] <= Advance'[t]
  <2> SUFFICES ASSUME NEW t \in Task PROVE shown'[t] <= Advance'[t]  OBVIOUS
  <2>1. shown'[t] \in Nat /\ shown'[t] <= Advance[t]  BY <1>4
  <2> QED  BY <1>3, <2>1, SMT
<1>6. Reached'
  <2>1. shown' \in [Task -> Nat]  BY <1>4
  <2> QED  BY <1>5, <2>1, Zenon DEF Reached, IsProgress
<1> QED  BY <1>2, <1>3, <1>6

\* Whom the notices of a call are of.
LEMMA SaysOf ==
    ASSUME NEW t \in Task,
           Says(t, <<"started", "update">>) \/ Says(t, <<"completed">>) \/ Says(t, <<"lengthy">>)
    PROVE  \A i \in DOMAIN notices' : notices'[i].of = t /\ ~IsProgress(notices'[i])
<1>1. \A i \in DOMAIN notices' : \E k \in {"started", "update", "completed", "lengthy"} : notices'[i] = Notice(k, t)
  BY SMT DEF Says
<1>2. \A k \in {"started", "update", "completed", "lengthy"} : Notice(k, t).of = t /\ ~IsProgress(Notice(k, t))
  BY SMT DEF Notice, IsProgress
<1> QED  BY <1>1, <1>2, Zenon

LEMMA ForwardPlain ==
    ASSUME GoInv, Tree', Deep', Counted', NEW t \in Task \ retired, Doing(t) \/ Complete(t) \/ MarkLengthy(t)
    PROVE  (Alive /\ Ahead /\ Reached)'
<1>1. /\ notices = <<>> /\ t \in Task \ retired /\ retired' = retired /\ parent' = parent /\ tasks' = tasks
      /\ taskIndex' = taskIndex /\ started' = started /\ completed' = completed /\ max' = max /\ current' = current
      /\ shown' = shown
      /\ Says(t, <<"started", "update">>) \/ Says(t, <<"completed">>) \/ Says(t, <<"lengthy">>)
  BY Zenon DEF Doing, Complete, MarkLengthy, Works, Turn, treeVars
<1>2. Counted  BY DEF GoInv
<1>4. \A i \in DOMAIN notices' : notices'[i].of \in Task \ retired /\ ~IsProgress(notices'[i])
  BY <1>1, SaysOf
<1>5. \A u \in Task : Goes(u)  BY <1>1, <1>2, GoesSame, Zenon
<1>6. \A u \in retired : Same(u)  BY <1>1, Zenon DEF Same
<1> QED  BY <1>1, <1>4, <1>5, <1>6, CallForward, Zenon

LEMMA ForwardUpdates ==
    ASSUME GoInv, Tree', Deep', Counted', NEW t \in Task \ retired, Update(t)
    PROVE  (Alive /\ Ahead /\ Reached)'
<1>1. /\ notices = <<>> /\ t \in Task \ retired /\ t \in Variable /\ retired' = retired /\ parent' = parent /\ tasks' = tasks
      /\ taskIndex' = taskIndex /\ started' = started /\ completed' = completed /\ shown' = shown
      /\ Says(t, <<"started", "update">>)
  BY Zenon DEF Update, Works, Turn
<1>2. /\ Counted /\ (current[t] # 0 => max'[t] = max[t] /\ current[t] <= current'[t])
      /\ \A u \in Task : u # t => max'[u] = max[u] /\ current'[u] = current[u]
  BY <1>1, UpdateIs DEF GoInv
<1>11. \A i \in DOMAIN notices' : notices'[i].of \in Task \ retired /\ ~IsProgress(notices'[i])
  BY <1>1, SaysOf
<1>12. ASSUME NEW u \in Task PROVE Goes(u)
  <2>1. CASE u = t
    <3>1. t \notin Finite  BY <1>1, SMT DEF Finite, Variable
    <3> QED  BY <1>1, <1>2, <2>1, <3>1, Zenon DEF Goes
  <2>2. CASE u # t  BY <1>1, <1>2, <2>2, GoesSame, Zenon
  <2> QED  BY <2>1, <2>2
<1>13. \A u \in retired : Same(u)
  <2>1. \A u \in retired : u \in Task /\ u # t  BY <1>1, <1>2 DEF Counted
  <2> QED  BY <1>1, <1>2, <2>1, Zenon DEF Same
<1> QED  BY <1>1, <1>11, <1>12, <1>13, CallForward, Zenon

LEMMA ForwardFail ==
    ASSUME GoInv, Tree', Deep', Counted', NEW t \in Task \ retired, Fail(t)
    PROVE  (Alive /\ Ahead /\ Reached)'
<1>1. /\ notices = <<>> /\ t \in Task \ retired /\ retired' = retired /\ parent' = parent /\ tasks' = tasks
      /\ taskIndex' = taskIndex /\ started' = started /\ max' = max /\ current' = current /\ shown' = shown
      /\ completed' = [completed EXCEPT ![t] = TRUE]
  BY Zenon DEF Fail, Works, Turn
<1>2. Counted /\ Tree /\ Living  BY DEF GoInv, TellInv
<1>3. /\ completed \in [Task -> BOOLEAN] /\ parent \in [Task -> Finite \cup {None}] /\ retired \subseteq Task
  BY <1>2, Zenon DEF Tree, Counted
<1>4. completed'[t] /\ \A u \in Task : u # t => completed'[u] = completed[u]  BY <1>1, <1>3
<1>6. parent[t] # None => parent[t] \in Task \ retired
  <2> SUFFICES ASSUME parent[t] # None PROVE parent[t] \in Task \ retired  OBVIOUS
  <2>1. parent[t] \in Finite  BY <1>3
  <2>2. parent[t] \notin retired  BY <1>1, <1>2, Zenon DEF Living
  <2> QED  BY <2>1, <2>2 DEF Finite
<1>11. \A i \in DOMAIN notices' : notices'[i].of \in Task \ retired /\ ~IsProgress(notices'[i])
  BY <1>1, <1>6, FailSays, Zenon
<1>13. \A u \in Task : Goes(u)
  <2>1. \A u \in Task : completed[u] => completed'[u]  BY <1>4, Zenon
  <2> QED  BY <1>1, <1>2, <2>1, GoesSame, Zenon
<1>14. \A u \in retired : Same(u)
  <2>1. \A u \in retired : u \in Task /\ u # t  BY <1>1, <1>3
  <2> QED  BY <1>1, <1>4, <2>1, Zenon DEF Same
<1> QED  BY <1>1, <1>11, <1>13, <1>14, CallForward, Zenon

LEMMA ForwardSetMax ==
    ASSUME GoInv, Tree', Deep', Counted', NEW t \in Task \ retired, SetMax(t)
    PROVE  (Alive /\ Ahead /\ Reached)'
<1>1. /\ notices = <<>> /\ notices' = notices /\ t \in Task \ retired /\ t \in Finite /\ ~started[t]
      /\ retired' = retired /\ parent' = parent /\ started' = started /\ completed' = completed
      /\ taskIndex' = taskIndex /\ max' = max /\ current' = current /\ shown' = shown
  BY Zenon DEF SetMax, Works, Turn
<1>2. Counted /\ Tree  BY DEF GoInv, TellInv
<1>3. retired \subseteq Task
  BY <1>2, Zenon DEF Counted
<1>4. PICK n \in Nat : tasks' = [tasks EXCEPT ![t] = Resized(tasks[t], n)]
  <2>1. PICK n \in 1 .. MaxSlots : tasks' = [tasks EXCEPT ![t] = Resized(tasks[t], n)]
    BY Zenon DEF SetMax
  <2>2. n \in Nat  BY BoundAssumption, SMT
  <2> QED  BY <2>1, <2>2
<1> DEFINE x == Resized(tasks[t], n)
<1>5. DOMAIN tasks = Task /\ tasks[t] \in Seq(Steps(t)) /\ Open \in Steps(t)  BY <1>2, Zenon DEF Tree, Steps
<1>6. x \in Seq(Steps(t)) /\ Len(x) = n /\ \A i \in 1 .. n : x[i] = IF i <= Len(tasks[t]) THEN tasks[t][i] ELSE Open
  BY <1>5, ResizedIs
<1>7. DOMAIN x = 1 .. n  BY <1>6, SeqIs
<1> HIDE DEF x
<1>8. tasks'[t] = x /\ \A u \in Task : u # t => tasks'[u] = tasks[u]  BY <1>4, <1>5 DEF x
<1>10. \A i \in DOMAIN notices' : notices'[i].of \in Task \ retired /\ ~IsProgress(notices'[i])
  <2>1. DOMAIN notices' = {}  BY <1>1, PairIs
  <2> QED  BY <2>1
<1>12. ASSUME NEW u \in Task PROVE Goes(u)
  <2>1. CASE u = t  BY <1>1, <2>1, Zenon DEF Goes
  <2>2. CASE u # t  BY <1>1, <1>2, <1>8, <2>2, GoesSame, Zenon
  <2> QED  BY <2>1, <2>2
<1>13. \A u \in retired : Same(u)
  <2>1. \A u \in retired : u \in Task /\ u # t  BY <1>1, <1>3
  <2> QED  BY <1>1, <1>8, <2>1, Zenon DEF Same
<1>14. ASSUME NEW u \in Finite, NEW i \in DOMAIN tasks'[u], i > taskIndex'[u]
       PROVE  tasks'[u][i] = Open \/ (i \in DOMAIN tasks[u] /\ i > taskIndex[u] /\ tasks'[u][i] = tasks[u][i])
  <2>1. u \in Task  BY DEF Finite
  <2>2. CASE u = t
    <3>1. i \in 1 .. n /\ i > taskIndex[t] /\ tasks'[u][i] = IF i <= Len(tasks[t]) THEN tasks[t][i] ELSE Open
      BY <1>1, <1>6, <1>7, <1>8, <1>14, <2>2
    <3>2. Len(tasks[t]) \in Nat /\ DOMAIN tasks[t] = 1 .. Len(tasks[t])  BY <1>5, SeqIs
    <3>3. i <= Len(tasks[t]) => i \in DOMAIN tasks[t]  BY <3>1, <3>2, SMT
    <3> QED  BY <2>2, <3>1, <3>3
  <2>3. CASE u # t
    <3>1. tasks'[u] = tasks[u] /\ taskIndex'[u] = taskIndex[u]  BY <1>1, <1>8, <2>1, <2>3
    <3> QED  BY <1>14, <3>1
  <2> QED  BY <2>2, <2>3
<1> QED  BY <1>1, <1>10, <1>12, <1>13, <1>14, CallForward, Zenon

\* The step that done and begin take replaces one that counts nothing.
LEMMA StepForward ==
    ASSUME GoInv, Tree', Deep', Counted', NEW t \in Finite, NEW what, t \in Task \ retired, Step(t, what),
           notices = <<>>, Says(t, <<"started", "update">>), retired' = retired, shown' = shown,
           started' = started, completed' = completed, max' = max, current' = current
    PROVE  (Alive /\ Ahead /\ Reached)'
<1>1. Counted /\ Tree /\ Ahead  BY DEF GoInv, TellInv
<1>2. retired \subseteq Task
  BY <1>1, Zenon DEF Counted
<1>3. /\ \A u \in Task : u # t => tasks'[u] = tasks[u] /\ taskIndex'[u] = taskIndex[u]
      /\ Len(tasks'[t]) = Len(tasks[t]) /\ DOMAIN tasks'[t] = DOMAIN tasks[t] /\ taskIndex[t] \in Nat
      /\ DOMAIN tasks[t] = 1 .. Len(tasks[t])
      /\ \/ tasks'[t] = tasks[t] /\ taskIndex'[t] = taskIndex[t]
         \/ /\ taskIndex[t] + 1 \in DOMAIN tasks[t] /\ taskIndex'[t] = taskIndex[t] + 1
            /\ \A i \in DOMAIN tasks[t] : tasks'[t][i] = IF i = taskIndex[t] + 1 THEN what ELSE tasks[t][i]
  <2> DEFINE S == Steps(t) \cup {what}
  <2>1. DOMAIN tasks = Task /\ taskIndex \in [Task -> Nat] /\ tasks[t] \in Seq(Steps(t))  BY <1>1, Zenon DEF Tree
  <2>2. Steps(t) \subseteq S /\ what \in S  OBVIOUS
  <2> HIDE DEF S
  <2>3. tasks[t] \in Seq(S)  BY <2>1, <2>2, SMT
  <2>4. /\ \A u \in Task : u # t => tasks'[u] = tasks[u] /\ taskIndex'[u] = taskIndex[u]
        /\ tasks'[t] \in Seq(S) /\ Len(tasks'[t]) = Len(tasks[t])
        /\ \/ tasks'[t] = tasks[t] /\ taskIndex'[t] = taskIndex[t]
           \/ /\ taskIndex[t] + 1 \in DOMAIN tasks[t] /\ taskIndex'[t] = taskIndex[t] + 1
              /\ \A i \in DOMAIN tasks[t] : tasks'[t][i] = IF i = taskIndex[t] + 1 THEN what ELSE tasks[t][i]
    BY <2>1, <2>2, <2>3, StepIs
  <2>5. DOMAIN tasks'[t] = 1 .. Len(tasks'[t]) /\ DOMAIN tasks[t] = 1 .. Len(tasks[t])  BY <2>3, <2>4, SeqIs
  <2> QED  BY <2>1, <2>4, <2>5
<1>4. ASSUME NEW i \in DOMAIN tasks[t], i > taskIndex[t]
      PROVE  tasks[t][i] = Open \/ (tasks[t][i] \in Task /\ Advance[tasks[t][i]] = 0)
  <2>1. tasks[t][i] = Open \/ (tasks[t][i] \in retired /\ Advance[tasks[t][i]] = 0)
    BY <1>1, <1>4, Zenon DEF Ahead
  <2> QED  BY <1>2, <2>1
<1>6. \A i \in DOMAIN notices' : notices'[i].of \in Task \ retired /\ ~IsProgress(notices'[i])
  BY SaysOf
<1>7. ASSUME NEW u \in Task PROVE Goes(u)
  <2>1. CASE u = t
    <3>1. \A i \in DOMAIN tasks[u] : \/ tasks'[u][i] = tasks[u][i]
                                     \/ tasks[u][i] = Open
                                     \/ tasks[u][i] \in Task /\ Advance[tasks[u][i]] = 0
      <4> SUFFICES ASSUME NEW i \in DOMAIN tasks[t]
                   PROVE  \/ tasks'[t][i] = tasks[t][i]
                          \/ tasks[t][i] = Open
                          \/ tasks[t][i] \in Task /\ Advance[tasks[t][i]] = 0
        BY <2>1
      <4>1. CASE i = taskIndex[t] + 1
        <5>1. i > taskIndex[t]  BY <1>3, <4>1, SMT
        <5> QED  BY <1>4, <5>1
      <4>2. CASE i # taskIndex[t] + 1  BY <1>3, <4>2
      <4> QED  BY <4>1, <4>2
    <3>2. Len(tasks'[u]) = Len(tasks[u])  BY <1>3, <2>1
    <3>3. t \notin Variable  BY SMT DEF Finite, Variable
    <3> QED  BY <2>1, <3>1, <3>2, <3>3, Zenon DEF Goes
  <2>2. CASE u # t  BY <1>1, <1>3, <2>2, GoesSame, Zenon
  <2> QED  BY <2>1, <2>2
<1>8. \A u \in retired : Same(u)
  <2>1. \A u \in retired : u \in Task /\ u # t  BY <1>2
  <2> QED  BY <1>3, <2>1, Zenon DEF Same
<1>9. ASSUME NEW u \in Finite, NEW i \in DOMAIN tasks'[u], i > taskIndex'[u]
      PROVE  tasks'[u][i] = Open \/ (i \in DOMAIN tasks[u] /\ i > taskIndex[u] /\ tasks'[u][i] = tasks[u][i])
  <2>1. u \in Task  BY DEF Finite
  <2>2. CASE u = t
    <3>1. CASE tasks'[t] = tasks[t] /\ taskIndex'[t] = taskIndex[t]  BY <1>9, <2>2, <3>1
    <3>2. CASE /\ taskIndex'[t] = taskIndex[t] + 1
               /\ \A j \in DOMAIN tasks[t] : tasks'[t][j] = IF j = taskIndex[t] + 1 THEN what ELSE tasks[t][j]
      <4>1. i \in DOMAIN tasks[t]  BY <1>3, <1>9, <2>2
      <4>2. i > taskIndex[t] /\ i # taskIndex[t] + 1  BY <1>3, <1>9, <2>2, <3>2, <4>1, SMT
      <4> QED  BY <2>2, <3>2, <4>1, <4>2
    <3> QED  BY <1>3, <3>1, <3>2
  <2>3. CASE u # t
    <3>1. tasks'[u] = tasks[u] /\ taskIndex'[u] = taskIndex[u]  BY <1>3, <2>1, <2>3
    <3> QED  BY <1>9, <3>1
  <2> QED  BY <2>2, <2>3
<1> QED  BY <1>6, <1>7, <1>8, <1>9, CallForward, Zenon

LEMMA ForwardStep ==
    ASSUME GoInv, Tree', Deep', Counted', NEW t \in Task \ retired, Done(t) \/ \E c \in Task : Begin(t, c)
    PROVE  (Alive /\ Ahead /\ Reached)'
<1>1. PICK what : Step(t, what) /\ (Done(t) \/ \E c \in Task : Begin(t, c))  BY Zenon DEF Done, Begin
<1>2. /\ notices = <<>> /\ t \in Task \ retired /\ t \in Finite /\ Says(t, <<"started", "update">>)
      /\ retired' = retired /\ shown' = shown /\ started' = started /\ completed' = completed
      /\ max' = max /\ current' = current
  BY Zenon DEF Done, Begin, Works, Turn
<1> QED  BY <1>1, <1>2, StepForward

LEMMA TotalOfNothing ==
    ASSUME NEW f, NEW v, NEW n \in Nat, Len(v) = n, DOMAIN v = 1 .. n,
           \A i \in 1 .. n : Worth(f, v[i]) = 0
    PROVE  Total(Shares(f, v)) = 0
<1> DEFINE x == Shares(f, v)
<1>1. x = [i \in 1 .. n |-> Worth(f, v[i]) \div n]  BY SharesAre
<1> HIDE DEF x
<1>2. ASSUME NEW i \in 1 .. n PROVE x[i] \in Nat /\ x[i] <= 0
  <2>1. n # 0  BY <1>2, SMT
  <2>2. x[i] = 0 \div n  BY <1>1, <1>2
  <2>3. 0 \div n = 0  BY <2>1, SMT
  <2> QED  BY <2>2, <2>3, SMT
<1>3. DOMAIN x = 1 .. n  BY <1>1
<1>4. 0 \in Nat  BY SMT
<1>5. Total(x) \in Nat /\ Total(x) <= n * 0  BY <1>2, <1>3, <1>4, TotalBounded
<1>6. n * 0 = 0  BY SMT
<1>7. Total(x) = 0  BY <1>5, <1>6, SMT
<1> QED  BY <1>7 DEF x

LEMMA RestartZero ==
    ASSUME Tree, Deep, Counted, Tree', Deep', NEW t \in Task, Restart(t)
    PROVE  \A u \in Restarted(t) : Advance'[u] = 0
<1> DEFINE ts == Restarted(t)
           g  == Advance'
<1>1. /\ t = Root \/ (t \in Variable /\ ts = {t})
      /\ \A u \in Task : completed'[u] <=> completed[u] /\ u \notin ts
      /\ \A u \in Task : u \in ts /\ u # Root =>
            /\ DOMAIN tasks'[u] = DOMAIN tasks[u]
            /\ \A i \in DOMAIN tasks[u] : tasks'[u][i] = IF tasks[u][i] = Closed THEN Open ELSE tasks[u][i]
      /\ t = Root => \A i \in DOMAIN tasks'[t] :
            tasks'[t][i] = IF i \in DOMAIN tasks[t] /\ tasks[t][i] # Closed THEN tasks[t][i] ELSE Open
  BY RestartIs
<1>2. /\ current' = [u \in Task |-> IF u \in ts THEN 0 ELSE current[u]] /\ max' = max
  BY Zenon DEF Restart
<1>3. ts \subseteq Task /\ \A v \in ts : v \in Finite => \A s \in Slots(v) : s \in Task => s \in ts  BY RestartedIs
<1>4. \A u \in Task : g[u] = Advanced(g, u, completed'[u], started'[u], max'[u], current'[u], tasks'[u])
  BY AdvanceUnfoldsNext DEF AdvanceBy
<1> HIDE DEF ts, g
<1>5. max \in [Task -> Nat]  BY DEF Counted
<1> DEFINE P == {u \in Task : u \in ts => g[u] = 0}
<1>6. ASSUME NEW u \in Task, \A s \in Task : parent[s] = u => s \in P PROVE u \in P
  <2> SUFFICES ASSUME u \in ts PROVE g[u] = 0  OBVIOUS
  <2>1. ~completed'[u] /\ current'[u] = 0 /\ max'[u] = max[u] /\ max[u] \in Nat  BY <1>1, <1>2, <1>5
  <2>2. CASE ~started'[u]  BY <1>4, <2>1, <2>2, Zenon DEF Advanced
  <2>3. CASE started'[u] /\ u \in Variable
    <3>1. g[u] = IF max[u] = 0 THEN 0 ELSE (Unit * 0) \div max[u]  BY <1>4, <2>1, <2>3, Zenon DEF Advanced
    <3>2. Unit * 0 = 0  BY BoundAssumption, SMT
    <3>3. max[u] # 0 => 0 \div max[u] = 0  BY <2>1, SMT
    <3> QED  BY <3>1, <3>2, <3>3
  <2>4. CASE started'[u] /\ u \notin Variable /\ u \notin Finite  BY <1>4, <2>1, <2>4, Zenon DEF Advanced
  <2>5. CASE started'[u] /\ u \notin Variable /\ u \in Finite
    <3> DEFINE w == tasks'[u]
               n == Len(w)
    <3>1. g[u] = Total(Shares(g, w))  BY <1>4, <2>1, <2>5, Zenon DEF Advanced
    <3>2. n \in Nat /\ DOMAIN w = 1 .. n  BY StepsAreNext
    <3>3. \A i \in DOMAIN w : w[i] = Open \/ (i \in DOMAIN tasks[u] /\ w[i] = tasks[u][i] /\ w[i] # Closed)
      <4>1. CASE u # Root  BY <1>1, <2>5, <4>1
      <4>2. CASE u = Root
        <5>1. t = Root
          <6>1. u \notin Variable  BY <2>5
          <6> QED  BY <1>1, <4>2, <6>1
        <5> QED  BY <1>1, <4>2, <5>1
      <4> QED  BY <4>1, <4>2
    <3> HIDE DEF w, n
    <3>4. ASSUME NEW i \in 1 .. n PROVE Worth(g, w[i]) = 0
      <4>1. i \in DOMAIN w  BY <3>2
      <4>2. CASE w[i] = Open  BY <4>2, Zenon DEF Worth
      <4>3. CASE w[i] # Open
        <5>1. i \in DOMAIN tasks[u] /\ w[i] = tasks[u][i] /\ w[i] # Closed  BY <3>3, <4>1, <4>3
        <5>2. w[i] \in Task /\ parent[w[i]] = u  BY <4>3, <5>1, StepsAre
        <5>3. w[i] \in Slots(u)  BY <5>1, SlotsAre
        <5>4. w[i] \in ts  BY <1>3, <2>5, <5>2, <5>3
        <5>5. g[w[i]] = 0  BY <1>6, <5>2, <5>4
        <5> QED  BY <4>3, <5>1, <5>5, Zenon DEF Worth
      <4> QED  BY <4>2, <4>3
    <3>5. n = Len(w)  BY DEF n
    <3>6. Total(Shares(g, w)) = 0  BY <3>2, <3>4, <3>5, TotalOfNothing
    <3> QED  BY <3>1, <3>6
  <2> QED  BY <2>2, <2>3, <2>4, <2>5
<1>7. \A u \in Task : u \in P
  <2>1. \A u \in Task : (\A s \in Task : parent[s] = u => s \in P) => u \in P  BY <1>6
  <2> HIDE DEF P
  <2> QED  BY <2>1, Upwards
<1> QED  BY <1>3, <1>7 DEF ts, g

\* Outside the family of the restarted task nothing changes.
LEMMA RestartElsewhere ==
    ASSUME Tree, Deep, Tree', Deep', NEW t \in Task, Restart(t)
    PROVE  \A u \in Task : u \notin Family(t) => Advance'[u] = Advance[u]
<1> DEFINE ts == Restarted(t)
           F  == Task \ Family(t)
<1>1. /\ started' = [u \in Task |-> IF u \in ts THEN StartedAfter(u) ELSE started[u]]
      /\ completed' = [u \in Task |-> completed[u] /\ u \notin ts]
      /\ current' = [u \in Task |-> IF u \in ts THEN 0 ELSE current[u]] /\ max' = max
  BY Zenon DEF Restart
<1>2. \A u \in Task : u \notin ts => tasks'[u] = tasks[u]  BY RestartIs
<1>3. ts \subseteq Family(t) /\ \A s \in Family(t) : parent[s] # None => parent[s] \in Family(t)  BY FamilyIs
<1> HIDE DEF ts
<1>4. completed \in [Task -> BOOLEAN] /\ started \in [Task -> BOOLEAN]  BY Zenon DEF Tree
<1>5. \A u \in F : Same(u)
  <2> SUFFICES ASSUME NEW u \in F PROVE Same(u)  OBVIOUS
  <2>1. u \in Task /\ u \notin ts  BY <1>3
  <2>2. completed'[u] = completed[u]
    <3>1. completed'[u] = (completed[u] /\ u \notin ts) /\ completed[u] \in BOOLEAN  BY <1>1, <1>4, <2>1
    <3> QED  BY <2>1, <3>1
  <2>3. started'[u] = started[u] /\ max'[u] = max[u]  BY <1>1, <2>1, Zenon
  <2>4. current'[u] = current[u]  BY <1>1, <2>1
  <2> QED  BY <1>2, <2>1, <2>2, <2>3, <2>4, Zenon DEF Same
<1>6. ASSUME NEW u \in F, u \in Finite, NEW i \in DOMAIN tasks[u], tasks[u][i] \in Task PROVE tasks[u][i] \in F
  <2>1. u \in Task /\ u # None  BY RootAssumption, SMT
  <2>2. tasks[u][i] # Open /\ tasks[u][i] # Closed  BY <1>6, <2>1, StepsAre
  <2>3. parent[tasks[u][i]] = u  BY <1>6, <2>1, <2>2, StepsAre
  <2> QED  BY <1>3, <1>6, <2>1, <2>3
<1>7. F \in SUBSET Task  OBVIOUS
<1> HIDE DEF F
<1>8. \A u \in F : Advance'[u] = Advance[u]  BY <1>5, <1>6, <1>7, AdvanceStays
<1> QED  BY <1>8 DEF F

\* A download is tried again.
LEMMA RestartLoad ==
    ASSUME GoInv, Tree', Deep', Counted', NEW t \in Task \ retired, t # Root, Restart(t)
    PROVE  (Alive /\ Ahead /\ Reached)'
<1>1. Tree /\ Deep /\ Counted /\ Living /\ Ahead /\ Reached /\ t \in Task  BY DEF GoInv, TellInv
<1>2. /\ notices = <<>> /\ notices' = notices /\ t \in Variable /\ retired' = retired
      /\ \A u \in Task : u # t => tasks'[u] = tasks[u] /\ taskIndex'[u] = taskIndex[u]
      /\ started' = [u \in Task |-> IF u = t THEN StartedAfter(u) ELSE started[u]]
      /\ completed' = [u \in Task |-> completed[u] /\ u # t]
      /\ current' = [u \in Task |-> IF u = t THEN 0 ELSE current[u]] /\ max' = max
  <2> DEFINE ts == Restarted(t)
  <2>1. /\ notices = <<>> /\ notices' = notices /\ t \in Variable /\ ts = {t} /\ retired' = retired
        /\ \A u \in Task : taskIndex'[u] = IF u \in ts THEN 0 ELSE taskIndex[u]
        /\ \A u \in Task : u \notin ts => tasks'[u] = tasks[u]
    BY <1>1, RestartIs
  <2>2. /\ started' = [u \in Task |-> IF u \in ts THEN StartedAfter(u) ELSE started[u]]
        /\ completed' = [u \in Task |-> completed[u] /\ u \notin ts]
        /\ current' = [u \in Task |-> IF u \in ts THEN 0 ELSE current[u]] /\ max' = max
    BY Zenon DEF Restart
  <2> HIDE DEF ts
  <2>3. \A u : u \in ts <=> u = t  BY <2>1
  <2> QED  BY <2>1, <2>2, <2>3
<1>3. shown' = [u \in Task |-> IF u \in Family(t) THEN 0 ELSE shown[u]]  BY Zenon DEF Restart
<1>4. retired \subseteq Task /\ completed \in [Task -> BOOLEAN]  BY <1>1, Zenon DEF Counted, Tree
<1>5. DOMAIN notices' = {}  BY <1>2, PairIs
<1>6. \A s \in retired : Advance'[s] = Advance[s]
  <2>1. ASSUME NEW s \in retired PROVE Same(s)
    <3>1. s \in Task /\ s # t  BY <1>4
    <3>2. completed'[s] = completed[s]
      <4>1. completed'[s] = (completed[s] /\ s # t) /\ completed[s] \in BOOLEAN  BY <1>2, <1>4, <3>1
      <4> QED  BY <3>1, <4>1
    <3>3. started'[s] = started[s] /\ max'[s] = max[s] /\ current'[s] = current[s]  BY <1>2, <3>1
    <3> QED  BY <1>2, <3>1, <3>2, <3>3, Zenon DEF Same
  <2>2. ASSUME NEW s \in retired, s \in Finite, NEW j \in DOMAIN tasks[s], tasks[s][j] \in Task
        PROVE  tasks[s][j] \in retired
    <3>1. s \in Task /\ s # None  BY <1>4, RootAssumption, SMT
    <3>2. tasks[s][j] # Open /\ tasks[s][j] # Closed  BY <1>1, <2>2, <3>1, StepsAre
    <3>3. parent[tasks[s][j]] = s  BY <1>1, <2>2, <3>1, <3>2, StepsAre
    <3> QED  BY <1>1, <2>2, <3>1, <3>3, Zenon DEF Living
  <2> QED  BY <1>1, <1>4, <2>1, <2>2, AdvanceStays
<1>7. Ahead'
  <2> SUFFICES ASSUME NEW u \in Finite, u \notin retired', NEW i \in DOMAIN tasks'[u], i > taskIndex'[u]
               PROVE  tasks'[u][i] = Open \/ (tasks'[u][i] \in retired' /\ Advance'[tasks'[u][i]] = 0)
    BY Zenon DEF Ahead, Finite
  <2>1. u \in Task /\ u # t  BY <1>2, SMT DEF Finite, Variable
  <2>2. tasks'[u] = tasks[u] /\ taskIndex'[u] = taskIndex[u]  BY <1>2, <2>1
  <2>3. i \in DOMAIN tasks[u] /\ i > taskIndex[u]  BY <2>2
  <2>4. tasks[u][i] = Open \/ (tasks[u][i] \in retired /\ Advance[tasks[u][i]] = 0)
    BY <1>1, <1>2, <2>3, Zenon DEF Ahead
  <2> QED  BY <1>2, <1>6, <2>2, <2>4
<1>8. shown' \in [Task -> Nat] /\ \A u \in Task : shown'[u] <= Advance'[u]
  <2>1. shown \in [Task -> Nat] /\ \A u \in Task : shown[u] <= Advance[u]  BY <1>1 DEF Reached
  <2>2. ASSUME NEW u \in Task PROVE shown'[u] \in Nat /\ shown'[u] <= Advance'[u]
    <3>1. CASE u \in Family(t)
      <4>1. shown'[u] = 0  BY <1>3, <3>1
      <4>2. Advance'[u] \in Nat  BY AdvanceBoundedNext
      <4> QED  BY <4>1, <4>2, SMT
    <3>2. CASE u \notin Family(t)
      <4>1. shown'[u] = shown[u]  BY <1>3, <3>2
      <4>2. Advance'[u] = Advance[u]  BY <1>1, <3>2, RestartElsewhere
      <4> QED  BY <2>1, <4>1, <4>2
    <3> QED  BY <3>1, <3>2
  <2>3. shown' = [u \in Task |-> shown'[u]]  BY <1>3, Zenon
  <2>4. shown' \in [Task -> Nat]  BY <2>2, <2>3, Zenon
  <2> QED  BY <2>2, <2>4
<1>9. Reached' /\ Alive'  BY <1>5, <1>8, Zenon DEF Reached, IsProgress, Alive
<1> QED  BY <1>7, <1>9

\* Whatever is in use is below the root.
LEMMA FamilyOfRoot ==
    ASSUME Tree, Deep, NEW u \in Task, InUse(u)
    PROVE  u \in Family(Root)
<1> DEFINE up == [v \in Task |-> {parent[v]} \ {None}]
<1>1. Root \in Task  BY RootAssumption DEF Finite
<1>2. \A v \in Task : up[v] = {parent[v]} \ {None}  OBVIOUS
<1>3. Ancestors(u) = Reach(u, up)  BY DEF Ancestors
<1> HIDE DEF up
<1>4. ASSUME NEW S \in SUBSET Task, u \in S, \A v \in S : up[v] \subseteq S, Root \notin S PROVE FALSE
  <2>1. PICK d \in [Task -> Nat] : \A t \in Task : parent[t] # None => d[parent[t]] < d[t]  BY Zenon DEF Deep
  <2> DEFINE U == {v \in S : InUse(v)}
             M == {m \in Nat : \A v \in U : m <= d[v]}
  <2>2. ASSUME NEW v \in U PROVE parent[v] \in U /\ d[parent[v]] \in Nat /\ d[v] \in Nat /\ d[parent[v]] < d[v]
    <3>1. v \in Task /\ v # Root /\ InUse(v) /\ v \in S  BY <1>4
    <3>2. parent[v] # None  BY <3>1, Zenon DEF InUse
    <3>3. up[v] = {parent[v]} \ {None} /\ up[v] \subseteq S  BY <1>2, <1>4, <3>1
    <3>4. parent[v] \in S  BY <3>2, <3>3
    <3>5. InUse(parent[v])  BY <3>1, <3>2, Zenon DEF Deep
    <3>6. parent[v] \in Task  BY <3>4
    <3>7. d[parent[v]] \in Nat /\ d[v] \in Nat /\ d[parent[v]] < d[v]  BY <2>1, <3>1, <3>2, <3>6
    <3> QED  BY <3>4, <3>5, <3>7
  <2>3. u \in U /\ d[u] \in Nat  BY <1>4
  <2>4. \A v \in U : d[v] \in Nat  BY <2>2
  <2> HIDE DEF U
  <2>5. 0 \in M  BY <2>4, SMT
  <2>6. ASSUME NEW m \in Nat, m \in M PROVE m + 1 \in M
    <3>1. ASSUME NEW v \in U PROVE m + 1 <= d[v]
      <4>1. parent[v] \in U /\ d[parent[v]] \in Nat /\ d[v] \in Nat /\ d[parent[v]] < d[v]  BY <2>2
      <4>2. m <= d[parent[v]]  BY <2>6, <4>1
      <4> QED  BY <4>1, <4>2, SMT
    <3> QED  BY <3>1
  <2>7. \A m \in Nat : m \in M
    <3> HIDE DEF M
    <3> QED  BY <2>5, <2>6, Induct
  <2>8. d[u] + 1 <= d[u]
    <3>1. d[u] + 1 \in Nat  BY <2>3, SMT
    <3>2. d[u] + 1 \in M  BY <2>7, <3>1
    <3> QED  BY <2>3, <3>2
  <2> QED  BY <2>3, <2>8, SMT
<1>5. Root \in Reach(u, up)  BY <1>1, <1>4, Zenon DEF Reach
<1> QED  BY <1>3, <1>5, Zenon DEF Family

\* A new path: nothing has been shown of it, and its steps are to come.
LEMMA RestartRoot ==
    ASSUME BaseInv, Tree', Deep', Counted', Restart(Root)
    PROVE  (Alive /\ Ahead /\ Reached)'
<1> DEFINE ts == Restarted(Root)
<1>1. Tree /\ Deep /\ Counted /\ Used /\ Root \in Task /\ \A u \in Task : u # None
  BY RootAssumption, SMT DEF BaseInv, Ground, Finite
<1>2. /\ notices = <<>> /\ notices' = notices /\ Root \in ts
      /\ retired' = {u \in Task : parent[u] # None}
      /\ \A u \in Task : u \notin ts => tasks'[u] = tasks[u]
      /\ \A i \in DOMAIN tasks'[Root] :
            tasks'[Root][i] = IF i \in DOMAIN tasks[Root] /\ tasks[Root][i] # Closed THEN tasks[Root][i] ELSE Open
  BY <1>1, RestartIs
<1>3. shown' = [u \in Task |-> IF u \in Family(Root) THEN 0 ELSE shown[u]]  BY Zenon DEF Restart
<1>4. (\A s \in Slots(Root) : s \in Task => s \in ts) /\ \A u \in ts : u = Root \/ parent[u] # None
  BY <1>1, <1>2, RootAssumption, RestartedIs, FamilyIs
<1>5. \A u \in ts : Advance'[u] = 0  BY <1>1, RestartZero
<1> HIDE DEF ts
<1>6. DOMAIN notices' = {}  BY <1>2, PairIs
<1>7. Ahead'
  <2> SUFFICES ASSUME NEW u \in Finite, u \notin retired', NEW i \in DOMAIN tasks'[u], i > taskIndex'[u]
               PROVE  tasks'[u][i] = Open \/ (tasks'[u][i] \in retired' /\ Advance'[tasks'[u][i]] = 0)
    BY Zenon DEF Ahead, Finite
  <2>1. u \in Task  BY DEF Finite
  <2>2. parent[u] = None  BY <1>2, <2>1
  <2>3. u = Root
    <3> SUFFICES ASSUME u # Root PROVE FALSE  OBVIOUS
    <3>1. tasks[u] = <<>>  BY <1>1, <2>1, <2>2, Zenon DEF Used, InUse
    <3>2. u \notin ts  BY <1>4, <2>2
    <3>3. tasks'[u] = <<>>  BY <1>2, <2>1, <3>1, <3>2
    <3> QED  BY <3>3, PairIs
  <2>4. tasks'[u][i] = IF i \in DOMAIN tasks[u] /\ tasks[u][i] # Closed THEN tasks[u][i] ELSE Open
    BY <1>2, <2>3
  <2>5. CASE tasks'[u][i] = Open  BY <2>5
  <2>6. CASE tasks'[u][i] # Open
    <3> DEFINE s == tasks[u][i]
    <3>1. i \in DOMAIN tasks[u] /\ s # Closed /\ tasks'[u][i] = s /\ s # Open  BY <2>4, <2>6
    <3>2. s \in Task /\ parent[s] = u /\ s \in Slots(u)  BY <1>1, <2>1, <3>1, StepsAre, SlotsAre
    <3> HIDE DEF s
    <3>3. s \in retired'  BY <1>1, <1>2, <2>1, <3>2
    <3>4. s \in ts  BY <1>4, <2>3, <3>2
    <3> QED  BY <1>5, <3>1, <3>3, <3>4
  <2> QED  BY <2>5, <2>6
<1>8. shown' = [u \in Task |-> 0]
  <2>1. ASSUME NEW u \in Task PROVE shown'[u] = 0
    <3>1. CASE u \in Family(Root)  BY <1>3, <3>1
    <3>2. CASE u \notin Family(Root)
      <4>1. ~InUse(u)  BY <1>1, <3>2, FamilyOfRoot
      <4>2. shown[u] = 0  BY <1>1, <4>1, Zenon DEF Used
      <4> QED  BY <1>3, <3>2, <4>2
    <3> QED  BY <3>1, <3>2
  <2> QED  BY <1>3, <2>1
<1>9. shown' \in [Task -> Nat] /\ \A u \in Task : shown'[u] <= Advance'[u]
  <2>1. \A u \in Task : Advance'[u] \in Nat  BY AdvanceBoundedNext
  <2> QED  BY <1>8, <2>1, SMT
<1>10. Reached' /\ Alive'  BY <1>6, <1>9, Zenon DEF Reached, IsProgress, Alive
<1> QED  BY <1>7, <1>10

LEMMA ForwardStill ==
    ASSUME GoInv, Tree', Deep', Counted', Calls \/ Listens \/ UNCHANGED vars
    PROVE  (Alive /\ Ahead /\ Reached)'
<1>1. /\ started' = started /\ completed' = completed /\ tasks' = tasks /\ taskIndex' = taskIndex
      /\ max' = max /\ current' = current /\ notices' = notices /\ retired' = retired /\ shown' = shown
  BY Zenon DEF Calls, Listens, treeVars, vars
<1>2. Tree /\ Deep /\ Counted /\ Alive /\ Ahead /\ Reached  BY DEF GoInv, TellInv
<1>3. Alive'  BY <1>1, <1>2, Zenon DEF Alive
<1>5. \A t \in Task : Advance'[t] = Advance[t]
  <2> DEFINE F == Task
  <2>1. F \in SUBSET Task /\ \A t \in F : t \in Finite => \A i \in DOMAIN tasks[t] : tasks[t][i] \in Task => tasks[t][i] \in F
    OBVIOUS
  <2>2. \A t \in F : Same(t)  BY <1>1, Zenon DEF Same
  <2>3. \A t \in F : Advance'[t] = Advance[t]
    <3> HIDE DEF F
    <3> QED  BY <1>2, <2>1, <2>2, AdvanceStays
  <2> QED  BY <2>3
<1>6. retired \subseteq Task  BY <1>2, Zenon DEF Counted
<1>7. Ahead'
  <2> SUFFICES ASSUME NEW t \in Finite, t \notin retired, NEW i \in DOMAIN tasks[t], i > taskIndex[t]
               PROVE  tasks[t][i] = Open \/ (tasks[t][i] \in retired /\ Advance'[tasks[t][i]] = 0)
    BY <1>1, Zenon DEF Ahead, Finite
  <2>1. tasks[t][i] = Open \/ (tasks[t][i] \in retired /\ Advance[tasks[t][i]] = 0)  BY <1>2, Zenon DEF Ahead
  <2> QED  BY <1>5, <1>6, <2>1
<1>8. Reached'
  <2>1. shown' \in [Task -> Nat] /\ \A t \in Task : shown'[t] <= Advance'[t]  BY <1>1, <1>2, <1>5 DEF Reached
  <2>2. ASSUME NEW i \in DOMAIN notices, IsProgress(notices[i])
        PROVE  /\ i = 1 /\ notices[i].value \in Nat
               /\ shown[notices[i].of] <= notices[i].value /\ notices[i].value <= Advance'[notices[i].of]
    <3>1. /\ i = 1 /\ notices[i].value \in Nat
          /\ shown[notices[i].of] <= notices[i].value /\ notices[i].value <= Advance[notices[i].of]
      BY <1>2, <2>2, Zenon DEF Reached
    <3>2. notices[i].of \in Task  BY <1>2 DEF Alive
    <3> QED  BY <1>5, <3>1, <3>2
  <2> DEFINE Q(i) == IsProgress(notices[i]) => /\ i = 1 /\ notices[i].value \in Nat
               /\ shown[notices[i].of] <= notices[i].value /\ notices[i].value <= Advance'[notices[i].of]
  <2>3. \A i \in DOMAIN notices : Q(i)  BY <2>2
  <2> QED  BY <1>1, <2>1, <2>3, Zenon DEF Reached, IsProgress
<1> QED  BY <1>3, <1>7, <1>8

LEMMA GoInit == Init => GoInv
<1> SUFFICES ASSUME Init PROVE GoInv  OBVIOUS
<1>1. TellInv /\ Deep /\ Tree /\ Counted /\ Sizeless  BY TellInit, BaseInit DEF BaseInv, Ground
<1>2. /\ tasks = [t \in Task |-> <<>>] /\ notices = <<>> /\ shown = [t \in Task |-> 0]
  BY Zenon DEF Init
<1>3. DOMAIN notices = {}  BY <1>2, PairIs
<1>4. Alive  BY <1>3, Zenon DEF Alive
<1>5. Ahead
  <2>1. \A t \in Finite : DOMAIN tasks[t] = {}
    <3>1. \A t \in Finite : tasks[t] = <<>>  BY <1>2 DEF Finite
    <3> QED  BY <3>1, PairIs
  <2> QED  BY <2>1, Zenon DEF Ahead
<1>6. Reached
  <2>1. shown \in [Task -> Nat]  BY <1>2
  <2>2. \A t \in Task : shown[t] <= Advance[t]
    <3> SUFFICES ASSUME NEW t \in Task PROVE shown[t] <= Advance[t]  OBVIOUS
    <3>1. Advance[t] \in Nat /\ shown[t] = 0  BY <1>1, <1>2, AdvanceBounded
    <3> QED  BY <3>1, SMT
  <2> QED  BY <1>3, <2>1, <2>2, Zenon DEF Reached
<1> QED  BY <1>1, <1>4, <1>5, <1>6 DEF GoInv

LEMMA GoStep ==
    ASSUME BaseInv, BaseInv', ~late => GoInv, [Next]_vars, ~late'
    PROVE  GoInv'
<1>1. Deep' /\ Counted' /\ Sizeless' /\ Tree'  BY DEF BaseInv, Ground
<1>2. TellInv'
  <2>1. ~late => TellInv  BY DEF GoInv
  <2> QED  BY <2>1, TellStep
<1>3. (Alive /\ Ahead /\ Reached)'
  <2>1. CASE Restart(Root)  BY <1>1, <2>1, RestartRoot
  <2>2. CASE ~late /\ (Give \/ Calls \/ Listens \/ UNCHANGED vars)  BY <1>1, <2>2, ForwardGive, ForwardStill
  <2>3. CASE ~late /\ \E t \in Task \ retired : Work(t) /\ (Restart(t) => t # Root)
    <3>1. PICK t \in Task \ retired : Work(t) /\ (Restart(t) => t # Root)  BY <2>3
    <3>2. GoInv  BY <2>3
    <3> QED
      BY <1>1, <3>1, <3>2, ForwardPlain, ForwardFail, ForwardSetMax, ForwardStep, ForwardUpdates, RestartLoad, Zenon DEF Work
  <2> QED  BY <2>1, <2>2, <2>3, InTime
<1> QED  BY <1>1, <1>2, <1>3 DEF GoInv

\* The progress of a task that anybody sees never goes back nor beyond 1.0, in trees of
\* any shape and depth, until something below the task is restarted (getProgress and
\* _notifyUpdate of each kind of task, restart).  After FSMGoto has restarted the tree
\* this is so until a handler of the path before goes on with a sub-task of its own, and
\* again from the next restart: what such a handler reports counts in the old steps of
\* the root, which the new path's replace.
THEOREM ProgressGoesOn == Spec => NeverBackwards
<1> DEFINE Inv == ~late => GoInv
           Forward == \A t \in Task : shown'[t] # shown[t] /\ notices # <<>> /\ ~late
                                        => shown[t] <= shown'[t] /\ shown'[t] <= Unit
<1>1. Init => Inv  BY GoInit
<1>2. BaseInv /\ BaseInv' /\ Inv /\ [Next]_vars => Inv'  BY GoStep
<1>3. Inv /\ [Next]_vars => Forward \/ UNCHANGED vars
  <2> SUFFICES ASSUME GoInv, Next, NEW t \in Task, shown'[t] # shown[t], notices # <<>>
               PROVE  shown[t] <= shown'[t] /\ shown'[t] <= Unit
    BY Zenon
  <2> DEFINE n == Head(notices)
  <2>1. CASE \E u \in Task : Work(u)
    BY <2>1, Zenon DEF Work, Doing, Complete, MarkLengthy, Fail, SetMax, Done, Begin, Update, Restart, Works, Turn
  <2>2. CASE Calls \/ Listens  BY <2>2, Zenon DEF Calls, Listens
  <2>3. CASE Give
    <3>1. n.kind = "event" /\ n.event = "progress" /\ shown' = [shown EXCEPT ![n.of] = n.value]
      BY <2>3, Zenon DEF Give, NotifyStarted, NotifyUpdate, NotifyCompleted, NotifyFailed, NotifyLengthyTask, FireEvent
    <3>2. n = notices[1] /\ 1 \in DOMAIN notices /\ n.of \in Task  BY HeadAlive
    <3> HIDE DEF n
    <3>3. shown \in [Task -> Nat] /\ Reached /\ Counted /\ Deep /\ Tree  BY DEF GoInv, Reached, TellInv
    <3>4. IsProgress(notices[1])  BY <3>1, <3>2, Zenon DEF IsProgress
    <3>5. notices[1].value \in Nat /\ shown[notices[1].of] <= notices[1].value /\ notices[1].value <= Advance[notices[1].of]
      BY <3>2, <3>3, <3>4, Zenon DEF Reached
    <3>6. Advance[n.of] \in Nat /\ Advance[n.of] <= Unit /\ Unit \in Nat
      BY <3>2, <3>3, AdvanceBounded, BoundAssumption
    <3>7. t = n.of /\ shown'[t] = n.value  BY <3>1, <3>2, <3>3
    <3>8. shown[t] <= n.value /\ n.value <= Advance[n.of] /\ n.value \in Nat  BY <3>2, <3>5, <3>7
    <3> QED  BY <3>6, <3>7, <3>8, SMT
  <2> QED  BY <2>1, <2>2, <2>3 DEF Next
<1> HIDE DEF Inv
<1>4. Spec => []Inv  BY <1>1, <1>2, BaseAlways, PTL DEF Spec
<1>5. Spec => [][Forward]_vars  BY <1>3, <1>4, PTL DEF Spec
<1> QED  BY <1>5 DEF NeverBackwards
===============================================================================

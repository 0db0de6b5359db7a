-------------------------- MODULE DaemonCtlProofs --------------------------
(***************************************************************************)
(* Proofs about DaemonCtl and ThinIPC, for every number of processes and   *)
(* every size of a datagram.                                               *)
(***************************************************************************)
EXTENDS DaemonCtl, SequenceTheorems, TLAPS

-----------------------------------------------------------------------------
(* The processes of the daemon *)

Live == {"starting", "serving", "ending"}

\* The inductive invariant: one daemon lives at a time, the lock file names it once it serves,
\* and its parent remembers it.
PidInv ==
    /\ daemon \in [Pid -> Live \cup {"no", "zombie", "gone"}] /\ parent \in [Pid -> Client \cup {"none"}]
    /\ lock \in Pid \cup {0} /\ currDaemonPid \in [Client -> Pid \cup {0}]
    /\ \A p, q \in Pid : daemon[p] \in Live /\ daemon[q] \in Live => p = q
    /\ \A p \in Pid : daemon[p] \in {"serving", "ending"} => lock = p
    /\ \A p \in Pid : daemon[p] \in Live /\ parent[p] \in Client => currDaemonPid[parent[p]] = p
    /\ \A p \in Pid : daemon[p] = "no" => parent[p] = "none"

\* A step that starts no daemon, where one may end.
LEMMA NoneStarts ==
    ASSUME PidInv, daemon' \in [Pid -> Live \cup {"no", "zombie", "gone"}], UNCHANGED <<lock, parent, currDaemonPid>>,
           \A p \in Pid : daemon'[p] = daemon[p] \/ daemon'[p] \in {"zombie", "gone"} \/ (daemon[p] = "serving" /\ daemon'[p] = "ending")
    PROVE  PidInv'
  BY DEF PidInv, Live

LEMMA PidInit == Init => PidInv
<1>1. SUFFICES ASSUME Init PROVE PidInv
  OBVIOUS
<1>2. 1 \in Pid /\ 0 \notin Pid
  BY PortAssumption DEF Pid
<1>3. currDaemonPid = [c \in Client |-> 0] /\ parent = [p \in Pid |-> "none"]
  BY <1>1 DEF Init
<1>4. CASE lock = 0 /\ daemon = [p \in Pid |-> "no"]
  BY <1>3, <1>4 DEF PidInv, Live
<1>5. CASE lock = 1 /\ daemon = [p \in Pid |-> IF p = 1 THEN "serving" ELSE "no"]
  BY <1>2, <1>3, <1>5, PortAssumption DEF PidInv, Live
<1>6. QED
  BY <1>1, <1>4, <1>5 DEF Init

\* No second daemon is started while one starts, and none that has a port is missed.
LEMMA StartsPid ==
    ASSUME PidInv, "startTwice" \notin Quirks, NEW c \in Client, Starts(c)
    PROVE  PidInv'
<1> DEFINE p == CHOOSE q \in Fresh : TRUE
<1>1. 0 \notin Pid
  BY DEF Pid
<1>2. \A q \in Pid : daemon[q] \notin Live
  BY <1>1 DEF Starts, IsDaemonRunning, PidInv, Live
<1>3. p \in Fresh
  BY DEF Starts
<1>4. /\ daemon' = [daemon EXCEPT ![p] = "starting"] /\ parent' = [parent EXCEPT ![p] = c]
      /\ currDaemonPid' = [currDaemonPid EXCEPT ![c] = p] /\ UNCHANGED lock
  BY DEF Starts
<1> HIDE DEF p
<1>5. p \in Pid
  BY <1>3 DEF Fresh
<1>6. QED
  BY <1>1, <1>2, <1>4, <1>5 DEF PidInv, Live

LEMMA PidNext ==
    ASSUME PidInv, "startTwice" \notin Quirks, [Next]_vars
    PROVE  PidInv'
<1>1. CASE UNCHANGED daemonVars
  BY <1>1 DEF PidInv, daemonVars
<1>2. ASSUME NEW c \in Client, Starts(c)
      PROVE  PidInv'
  BY <1>2, StartsPid
<1>3. ASSUME NEW c \in Client, Reaps(c)
      PROVE  PidInv'
  <2>1. daemon' \in [Pid -> Live \cup {"no", "zombie", "gone"}] /\ \A p \in Pid : daemon'[p] = daemon[p] \/ daemon'[p] = "gone"
    BY <1>3 DEF Reaps, PidInv, Live
  <2>2. QED
    BY <1>3, <2>1, NoneStarts DEF Reaps
<1>4. ASSUME NEW p \in Pid, DaemonUp(p)
      PROVE  PidInv'
  BY <1>4 DEF DaemonUp, PidInv, Live, Serving
<1>5. ASSUME NEW p \in Pid, DaemonAnswers(p)
      PROVE  PidInv'
  <2> DEFINE now == IF IsWhole(Daemon) /\ Received(Daemon).what = "stop" THEN "ending" ELSE daemon[p]
  <2>1. daemon[p] = "serving" /\ daemon' = [daemon EXCEPT ![p] = now] /\ UNCHANGED <<lock, parent, currDaemonPid>>
    BY <1>5 DEF DaemonAnswers, PidInv
  <2>2. now \in {"serving", "ending"}
    BY <2>1
  <2> HIDE DEF now
  <2>3. daemon' \in [Pid -> Live \cup {"no", "zombie", "gone"}]
        /\ \A q \in Pid : daemon'[q] = daemon[q] \/ (daemon[q] = "serving" /\ daemon'[q] = "ending")
    BY <2>1, <2>2 DEF PidInv, Live
  <2>4. QED
    BY <2>1, <2>3, NoneStarts
<1>6. Ended(1) \notin Live /\ \A p \in Pid : Ended(p) \in {"zombie", "gone"}
  BY DEF Ended, Live
<1>7. ASSUME NEW p \in Pid, DaemonEnds(p)
      PROVE  PidInv'
  BY <1>6, <1>7 DEF DaemonEnds, PidInv, Live
<1>8. ASSUME NEW p \in Pid, DaemonCrashes(p)
      PROVE  PidInv'
  <2>1. daemon' = [daemon EXCEPT ![p] = Ended(p)] /\ UNCHANGED <<lock, parent, currDaemonPid>>
    BY <1>8 DEF DaemonCrashes
  <2>2. daemon' \in [Pid -> Live \cup {"no", "zombie", "gone"}] /\ \A q \in Pid : daemon'[q] = daemon[q] \/ daemon'[q] \in {"zombie", "gone"}
    BY <1>6, <2>1 DEF PidInv, Live
  <2>3. QED
    BY <2>1, <2>2, NoneStarts
<1>9. ASSUME NEW c \in Client, Requests(c) \/ Stops(c) \/ ClientSends(c) \/ Waits(c) \/ ClientReceives(c) \/ TakesAnswer(c)
      PROVE  UNCHANGED daemonVars
  BY <1>9 DEF Requests, Stops, Asks, ClientSends, Waits, ClientReceives, TakesAnswer
<1>10. ASSUME NEW p \in Pid, DaemonReceives(p) \/ DaemonSends(p)
       PROVE  UNCHANGED daemonVars
  BY <1>10 DEF DaemonReceives, DaemonSends
<1>11. QED
  BY <1>1, <1>2, <1>3, <1>4, <1>5, <1>7, <1>8, <1>9, <1>10 DEF Next, ClientNext, DaemonNext, vars

-----------------------------------------------------------------------------
(* The calls *)

Call == [at : {"no", "send", "recv", "reap"}, what : {"stop", "none"} \cup UNION {KindsOf[c] : c \in Client}]

CallsOK == call \in [Client -> Call]

LEMMA CallsInit == Init => CallsOK
  BY DEF Init, CallsOK, Call, Idle

\* A client that goes on, and one that makes a call, leave the calls of the others alone.
LEMMA GoesOn ==
    ASSUME CallsOK, NEW c \in Client, NEW at \in {"no", "send", "recv", "reap"}, Goes(c, at)
    PROVE  CallsOK' /\ call'[c].at = at /\ \A d \in Client \ {c} : call'[d] = call[d]
<1>1. call[c] \in Call
  BY DEF CallsOK
<1> DEFINE r == [call[c] EXCEPT !.at = at]
<1>2. r \in Call /\ r.at = at
  BY <1>1 DEF Call
<1>3. call' = [call EXCEPT ![c] = r]
  BY DEF Goes
<1> HIDE DEF r
<1>4. QED
  BY <1>2, <1>3 DEF CallsOK

LEMMA CallsSet ==
    ASSUME CallsOK, NEW c \in Client, NEW r \in Call, call' = [call EXCEPT ![c] = r]
    PROVE  CallsOK' /\ call'[c] = r /\ \A d \in Client \ {c} : call'[d] = call[d]
  BY DEF CallsOK

LEMMA IdleIsACall == Idle \in Call
  BY DEF Idle, Call

\* What a step makes of the calls, and that only a client that waits for its child is done with that.
LEMMA CallsNext ==
    ASSUME CallsOK, [Next]_vars
    PROVE  CallsOK' /\ \A c \in Client : call[c].at = "reap" => call'[c] = call[c] \/ Reaps(c)
<1>1. ASSUME NEW c \in Client, NEW what \in {"stop"} \cup UNION {KindsOf[d] : d \in Client}, Asks(c, what)
      PROVE  CallsOK' /\ call[c].at # "reap" /\ \A d \in Client \ {c} : call'[d] = call[d]
  <2> DEFINE r == [at |-> "send", what |-> what]
  <2>1. r \in Call
    BY DEF Call
  <2>2. call[c].at = "no" /\ call' = [call EXCEPT ![c] = r]
    BY <1>1 DEF Asks, Idle
  <2> HIDE DEF r
  <2>3. QED
    BY <2>1, <2>2, CallsSet
<1>2. ASSUME NEW c \in Client, Requests(c) \/ Stops(c)
      PROVE  CallsOK' /\ call[c].at # "reap" /\ \A d \in Client \ {c} : call'[d] = call[d]
  <2>1. PICK what \in {"stop"} \cup KindsOf[c] : Asks(c, what)
    BY <1>2 DEF Requests, Stops
  <2>2. what \in {"stop"} \cup UNION {KindsOf[d] : d \in Client}
    OBVIOUS
  <2>3. QED
    BY <1>1, <2>1, <2>2
<1>3. ASSUME NEW c \in Client, Waits(c)
      PROVE  CallsOK' /\ call[c].at # "reap" /\ \A d \in Client \ {c} : call'[d] = call[d]
  <2>1. call[c].at = "send" /\ (Goes(c, "recv") \/ Returns(c))
    BY <1>3 DEF Waits
  <2>2. QED
    BY <2>1, GoesOn, CallsSet, IdleIsACall DEF Returns
<1>4. ASSUME NEW c \in Client, TakesAnswer(c)
      PROVE  CallsOK' /\ call[c].at # "reap" /\ \A d \in Client \ {c} : call'[d] = call[d]
  <2>1. call[c].at = "recv" /\ (Goes(c, "reap") \/ Returns(c))
    BY <1>4 DEF TakesAnswer
  <2>2. QED
    BY <2>1, GoesOn, CallsSet, IdleIsACall DEF Returns
<1>5. ASSUME NEW c \in Client, Reaps(c)
      PROVE  CallsOK' /\ \A d \in Client \ {c} : call'[d] = call[d]
  BY <1>5, CallsSet, IdleIsACall DEF Reaps, Returns
<1>6. ASSUME NEW c \in Client, ClientSends(c) \/ ClientReceives(c) \/ Starts(c)
      PROVE  UNCHANGED call
  BY <1>6 DEF ClientSends, ClientReceives, Starts, callVars
<1>7. ASSUME NEW p \in Pid, DaemonNext(p) \/ DaemonCrashes(p)
      PROVE  UNCHANGED call
  BY <1>7 DEF DaemonNext, DaemonUp, DaemonReceives, DaemonAnswers, DaemonSends, DaemonEnds, DaemonCrashes, callVars
<1>8. CASE UNCHANGED call
  BY <1>8 DEF CallsOK
<1>9. CASE \E c \in Client : Requests(c) \/ Stops(c) \/ Waits(c) \/ TakesAnswer(c) \/ Reaps(c)
  BY <1>2, <1>3, <1>4, <1>5, <1>9
<1>10. QED
  BY <1>6, <1>7, <1>8, <1>9 DEF Next, ClientNext, vars, callVars

-----------------------------------------------------------------------------
(* daemonStop *)

\* A process that waits for its child finds the one it started last, and no other lives.
LEMMA ReapLeavesNone ==
    ASSUME PidInv, NEW c \in Client, Reaps(c), NEW p \in Pid, parent[p] = c
    PROVE  daemon'[p] \in {"zombie", "gone"}
<1>1. c # "none" /\ p # 0
  BY PortAssumption DEF Pid
<1>2. daemon[p] \notin Live
  <2>1. SUFFICES ASSUME daemon[p] \in Live
                 PROVE  FALSE
    OBVIOUS
  <2>2. currDaemonPid[c] = p
    BY <2>1 DEF PidInv
  <2>3. daemon[p] = "zombie"
    BY <1>1, <2>1, <2>2 DEF Reaps, Live
  <2>4. QED
    BY <2>1, <2>3 DEF Live
<1>3. daemon[p] \in {"zombie", "gone"}
  BY <1>1, <1>2 DEF PidInv
<1>4. daemon \in [Pid -> Live \cup {"no", "zombie", "gone"}]
  BY DEF PidInv
<1>5. UNCHANGED daemon \/ \E q \in Pid : daemon' = [daemon EXCEPT ![q] = "gone"]
  BY DEF Reaps, PidInv
<1>6. QED
  BY <1>3, <1>4, <1>5

\* Where the need for a daemon is not checked again while one starts, a daemonStop that has
\* succeeded leaves none of the daemons that its process has started.
THEOREM NoChildIsLeft ==
    ASSUME "startTwice" \notin Quirks
    PROVE  Spec => StopLeavesNoChild
<1>1. PidInv /\ CallsOK /\ [Next]_vars =>
          [\A c \in Client : (call[c].at = "reap" /\ call'[c] = Idle) =>
               \A p \in Pid : parent[p] = c => daemon'[p] \in {"zombie", "gone"}]_vars
  <2>1. SUFFICES ASSUME PidInv, CallsOK, [Next]_vars,
                        NEW c \in Client, call[c].at = "reap", call'[c] = Idle, NEW p \in Pid, parent[p] = c
                 PROVE  daemon'[p] \in {"zombie", "gone"}
    OBVIOUS
  <2>2. Reaps(c)
    BY <2>1, CallsNext DEF Idle
  <2>3. QED
    BY <2>1, <2>2, ReapLeavesNone
<1>2. PidInv /\ [Next]_vars => PidInv'
  BY PidNext
<1>3. CallsOK /\ [Next]_vars => CallsOK'
  BY CallsNext
<1>4. QED
  BY <1>1, <1>2, <1>3, PidInit, CallsInit, PTL DEF Spec, StopLeavesNoChild

-----------------------------------------------------------------------------
(* Datagrams *)

Kind    == {"stop", "none"} \cup UNION {KindsOf[c] : c \in Client}
Request == [by : Client, n : Nat, what : Kind, size : (1 .. MaxShort) \ {Capacity}]

\* A place in a message, and the words there: what putChunk sends, and getChunk takes, at once.
Place   == {x \in [msg : Request, pos : Nat] : x.pos < x.msg.size}
Between == [msg |-> NoMessage, pos |-> 0]
Step(x) == IF x.pos = 0 THEN Least(x.msg.size, Capacity - 1) ELSE Least(x.msg.size - x.pos, Capacity)
Cut(x)  == [from |-> x.msg.by,
            words |-> (IF x.pos = 0 THEN <<Size(x.msg.size)>> ELSE <<>>) \o Words(x.msg, x.pos + 1, x.pos + Step(x))]
Cuts    == {Cut(x) : x \in Place}
AWord   == {Word(m, i) : m \in Request, i \in Nat} \cup {Size(n) : n \in Nat} \cup {Junk}

\* The place where a datagram begins and the one where it ends, by its words, and whether that is
\* where a message does.
At(d)     == LET w == d.words[Len(d.words)] IN
             [msg |-> w.of, pos |-> IF d.words[1].kind = "size" THEN 0 ELSE d.words[1].n - 1]
Till(d)   == LET w == d.words[Len(d.words)] IN [msg |-> w.of, pos |-> w.n]
Before(d) == IF At(d).pos = 0 THEN Between ELSE At(d)
After(d)  == IF Till(d).pos = Till(d).msg.size THEN Between ELSE Till(d)

LEMMA StepFits ==
    ASSUME NEW x \in Place
    PROVE  /\ Step(x) \in Nat /\ Step(x) >= 1 /\ x.pos + Step(x) <= x.msg.size
           /\ x.msg.size \in Nat /\ x.msg.size >= 1 /\ x.msg.size <= MaxShort /\ x.msg.size # Capacity
           /\ x.msg \in Request /\ x.pos \in Nat /\ x.pos < x.msg.size
<1>1. x.msg \in Request /\ x.pos \in Nat /\ x.pos < x.msg.size
  BY DEF Place
<1>2. x.msg.size \in Nat /\ x.msg.size >= 1 /\ x.msg.size <= MaxShort /\ x.msg.size # Capacity
  BY <1>1, CapacityAssumption DEF Request
<1> DEFINE s == x.msg.size
<1>3. s \in Nat /\ s >= 1 /\ x.pos \in Nat /\ x.pos < s
  BY <1>1, <1>2
<1>4. Step(x) = IF x.pos = 0 THEN IF s < Capacity - 1 THEN s ELSE Capacity - 1
                ELSE IF s - x.pos < Capacity THEN s - x.pos ELSE Capacity
  BY DEF Step, Least
<1> HIDE DEF s
<1>5. Step(x) \in Nat /\ Step(x) >= 1 /\ x.pos + Step(x) <= s
  BY <1>3, <1>4, CapacityAssumption
<1>6. QED
  BY <1>1, <1>2, <1>5 DEF s

LEMMA WordFields ==
    ASSUME NEW m, NEW i
    PROVE  Word(m, i).kind = "word" /\ Word(m, i).of = m /\ Word(m, i).n = i
  BY DEF Word

LEMMA SizeFields ==
    ASSUME NEW i
    PROVE  Size(i).kind = "size" /\ Size(i).n = i
  BY DEF Size

\* The words of a message, from one to another.
LEMMA WordsAre ==
    ASSUME NEW m \in Request, NEW a \in Nat, NEW k \in Nat
    PROVE  /\ Words(m, a + 1, a + k) \in Seq(AWord) /\ Len(Words(m, a + 1, a + k)) = k
           /\ \A i \in 1 .. k : Words(m, a + 1, a + k)[i] = Word(m, a + i)
<1>1. (a + k) - (a + 1) + 1 = k
  OBVIOUS
<1>2. Words(m, a + 1, a + k) = [i \in 1 .. k |-> Word(m, (a + 1) + i - 1)]
  BY <1>1 DEF Words
<1>3. \A i \in 1 .. k : (a + 1) + i - 1 = a + i /\ a + i \in Nat
  OBVIOUS
<1>4. \A i \in 1 .. k : Word(m, (a + 1) + i - 1) = Word(m, a + i) /\ Word(m, a + i) \in AWord
  BY <1>3 DEF AWord
<1> DEFINE w == [i \in 1 .. k |-> Word(m, (a + 1) + i - 1)]
<1>5. w \in [1 .. k -> AWord] /\ \A i \in 1 .. k : w[i] = Word(m, a + i)
  BY <1>4
<1> HIDE DEF w
<1>6. w \in Seq(AWord) /\ Len(w) = k
  BY <1>5
<1>7. QED
  BY <1>2, <1>5, <1>6 DEF w

\* What a datagram holds.
LEMMA CutWords ==
    ASSUME NEW x \in Place
    PROVE  /\ Cut(x).from = x.msg.by /\ Cut(x).words \in Seq(AWord)
           /\ x.pos = 0 => /\ Len(Cut(x).words) = Step(x) + 1 /\ Cut(x).words[1] = Size(x.msg.size)
                           /\ \A i \in 1 .. Step(x) : Cut(x).words[i + 1] = Word(x.msg, i)
           /\ x.pos # 0 => /\ Len(Cut(x).words) = Step(x)
                           /\ \A i \in 1 .. Step(x) : Cut(x).words[i] = Word(x.msg, x.pos + i)
<1> DEFINE first == IF x.pos = 0 THEN <<Size(x.msg.size)>> ELSE <<>>
           rest == Words(x.msg, x.pos + 1, x.pos + Step(x))
<1>1. x.msg \in Request /\ x.pos \in Nat /\ Step(x) \in Nat /\ Step(x) >= 1 /\ x.msg.size \in Nat
  BY StepFits
<1>2. rest \in Seq(AWord) /\ Len(rest) = Step(x) /\ \A i \in 1 .. Step(x) : rest[i] = Word(x.msg, x.pos + i)
  BY <1>1, WordsAre
<1>3. Cut(x).from = x.msg.by /\ Cut(x).words = first \o rest
  BY DEF Cut
<1>4. CASE x.pos = 0
  <2>1. Size(x.msg.size) \in AWord
    BY <1>1 DEF AWord
  <2>2. first = <<Size(x.msg.size)>>
    BY <1>4
  <2>3. first \in Seq(AWord) /\ Len(first) = 1 /\ first[1] = Size(x.msg.size)
    BY <2>1, <2>2
  <2> HIDE DEF first, rest
  <2>4. /\ first \o rest \in Seq(AWord) /\ Len(first \o rest) = Len(first) + Len(rest)
        /\ \A i \in 1 .. Len(first) + Len(rest) : (first \o rest)[i] = IF i <= Len(first) THEN first[i] ELSE rest[i - Len(first)]
    BY <1>2, <2>3, ConcatProperties
  <2>5. /\ first \o rest \in Seq(AWord) /\ Len(first \o rest) = 1 + Step(x)
        /\ \A i \in 1 .. 1 + Step(x) : (first \o rest)[i] = IF i <= 1 THEN first[i] ELSE rest[i - 1]
    BY <1>2, <2>3, <2>4
  <2>6. (first \o rest)[1] = Size(x.msg.size)
    BY <1>1, <2>3, <2>5
  <2>7. ASSUME NEW i \in 1 .. Step(x) PROVE (first \o rest)[i + 1] = Word(x.msg, i)
    <3>1. i + 1 \in 1 .. 1 + Step(x) /\ ~(i + 1 <= 1) /\ (i + 1) - 1 = i /\ x.pos + i = i
      BY <1>1, <1>4
    <3>2. (first \o rest)[i + 1] = rest[i]
      BY <2>5, <3>1
    <3>3. QED
      BY <1>2, <3>1, <3>2
  <2>8. QED
    BY <1>1, <1>3, <1>4, <2>5, <2>6, <2>7
<1>5. CASE x.pos # 0
  <2>1. first = <<>>
    BY <1>5
  <2> HIDE DEF first, rest
  <2>2. first \o rest = rest
    BY <1>2, <2>1, ConcatEmptySeq
  <2>3. QED
    BY <1>2, <1>3, <1>5, <2>2
<1>6. QED
  BY <1>4, <1>5

\* A datagram names the place it is cut at.
LEMMA AtTill ==
    ASSUME NEW x \in Place
    PROVE  At(Cut(x)) = x /\ Till(Cut(x)) = [msg |-> x.msg, pos |-> x.pos + Step(x)] /\ Cut(x).from = x.msg.by
<1> DEFINE w == Cut(x).words
<1>1. Step(x) \in Nat /\ Step(x) >= 1 /\ x.pos \in Nat
  BY StepFits
<1>2. w[Len(w)] = Word(x.msg, x.pos + Step(x))
  <2>1. CASE x.pos = 0
    <3>1. Len(w) = Step(x) + 1 /\ w[Step(x) + 1] = Word(x.msg, Step(x))
      BY <1>1, <2>1, CutWords
    <3>2. x.pos + Step(x) = Step(x)
      BY <1>1, <2>1
    <3>3. QED
      BY <3>1, <3>2
  <2>2. CASE x.pos # 0
    BY <1>1, <2>2, CutWords
  <2>3. QED
    BY <2>1, <2>2
<1>3. w[1] = IF x.pos = 0 THEN Size(x.msg.size) ELSE Word(x.msg, x.pos + 1)
  BY <1>1, CutWords
<1>4. x = [msg |-> x.msg, pos |-> x.pos]
  BY DEF Place
<1>5. Cut(x).from = x.msg.by
  BY CutWords
<1> HIDE DEF w
<1>6. w[Len(w)].of = x.msg /\ w[Len(w)].n = x.pos + Step(x)
  BY <1>2, WordFields
<1>7. (IF w[1].kind = "size" THEN 0 ELSE w[1].n - 1) = x.pos
  <2>1. CASE x.pos = 0
    BY <1>3, <2>1, SizeFields
  <2>2. CASE x.pos # 0
    <3>1. w[1].kind = "word" /\ w[1].n = x.pos + 1
      BY <1>3, <2>2, WordFields
    <3>2. QED
      BY <1>1, <3>1
  <2>3. QED
    BY <2>1, <2>2
<1>8. At(Cut(x)) = x /\ Till(Cut(x)) = [msg |-> x.msg, pos |-> x.pos + Step(x)]
  BY <1>4, <1>6, <1>7 DEF At, Till, w
<1>9. QED
  BY <1>5, <1>8

LEMMA CutPlaces ==
    ASSUME NEW x \in Place
    PROVE  /\ Before(Cut(x)) = IF x.pos = 0 THEN Between ELSE x
           /\ After(Cut(x)) = IF x.pos + Step(x) = x.msg.size THEN Between ELSE [msg |-> x.msg, pos |-> x.pos + Step(x)]
  BY AtTill DEF Before, After

-----------------------------------------------------------------------------
(* recv: what a receiver that takes the datagrams of a message in their order holds *)

AReceiver == [size : Int, pos : Nat, data : Seq(AWord), port : Client \cup {"none"}, done : BOOLEAN]
Holds(r)  == IF r.done \/ r.pos = 0 THEN Between ELSE [msg |-> r.data[1].of, pos |-> r.pos]

\* The message that a receiver has begun with, or has, and how far it is.
Holding(r) == r.done \/ r.pos # 0
Held(r)    == [msg |-> r.data[1].of, pos |-> IF r.done THEN r.data[1].of.size ELSE r.pos]

Receiving(r) ==
    /\ r \in AReceiver
    /\ r.done => /\ r.data[1].of \in Request /\ r.port = r.data[1].of.by
                 /\ r.data = Words(r.data[1].of, 1, r.data[1].of.size)
    /\ ~r.done /\ r.pos # 0 => /\ r.data[1].of \in Request /\ r.size = r.data[1].of.size /\ r.pos < r.size
                               /\ r.data = Words(r.data[1].of, 1, r.pos)

LEMMA WordsFromOne ==
    ASSUME NEW m \in Request, NEW k \in Nat
    PROVE  /\ Words(m, 1, k) \in Seq(AWord) /\ Len(Words(m, 1, k)) = k
           /\ \A i \in 1 .. k : Words(m, 1, k)[i] = Word(m, i)
           /\ k >= 1 => Words(m, 1, k)[1].of = m
<1>1. 0 + 1 = 1 /\ 0 + k = k /\ \A i \in 1 .. k : 0 + i = i
  OBVIOUS
<1>2. /\ Words(m, 1, k) \in Seq(AWord) /\ Len(Words(m, 1, k)) = k
      /\ \A i \in 1 .. k : Words(m, 1, k)[i] = Word(m, i)
  BY <1>1, WordsAre
<1>3. k >= 1 => 1 \in 1 .. k
  OBVIOUS
<1>4. QED
  BY <1>2, <1>3, WordFields

LEMMA WordsGoOn ==
    ASSUME NEW m \in Request, NEW a \in Nat, NEW k \in Nat
    PROVE  Words(m, 1, a) \o Words(m, a + 1, a + k) = Words(m, 1, a + k)
<1> DEFINE u == Words(m, 1, a)
           v == Words(m, a + 1, a + k)
           w == Words(m, 1, a + k)
<1>1. u \in Seq(AWord) /\ Len(u) = a /\ \A i \in 1 .. a : u[i] = Word(m, i)
  BY WordsFromOne
<1>2. v \in Seq(AWord) /\ Len(v) = k /\ \A i \in 1 .. k : v[i] = Word(m, a + i)
  BY WordsAre
<1>3. w \in Seq(AWord) /\ Len(w) = a + k /\ \A i \in 1 .. a + k : w[i] = Word(m, i)
  BY WordsFromOne
<1> HIDE DEF u, v, w
<1>4. /\ u \o v \in Seq(AWord) /\ Len(u \o v) = Len(u) + Len(v)
      /\ \A i \in 1 .. Len(u) + Len(v) : (u \o v)[i] = IF i <= Len(u) THEN u[i] ELSE v[i - Len(u)]
  BY <1>1, <1>2, ConcatProperties
<1>5. ASSUME NEW i \in 1 .. a + k
      PROVE  (u \o v)[i] = w[i]
  <2>1. CASE i <= a
    BY <1>1, <1>2, <1>3, <1>4, <2>1
  <2>2. CASE ~(i <= a)
    <3>1. i - a \in 1 .. k /\ a + (i - a) = i
      BY <2>2
    <3>2. (u \o v)[i] = v[i - a]
      BY <1>1, <1>2, <1>4, <2>2
    <3>3. QED
      BY <1>2, <1>3, <3>1, <3>2
  <2>3. QED
    BY <2>1, <2>2
<1>6. u \o v = w
  BY <1>1, <1>2, <1>3, <1>4, <1>5, SeqEqual
<1>7. QED
  BY <1>6 DEF u, v, w

\* The words that follow the size in the first datagram, and those of each that follows.
LEMMA BufferFirst ==
    ASSUME NEW x \in Place, x.pos = 0
    PROVE  Buffer(Cut(x), 2, Step(x) + 1) = Words(x.msg, 1, Step(x))
<1> DEFINE k == Step(x)
           w == Cut(x).words
           b == [i \in 1 .. k |-> IF 2 + i - 1 <= Len(w) THEN w[2 + i - 1] ELSE Junk]
<1>1. k \in Nat /\ x.msg \in Request
  BY StepFits
<1>2. Len(w) = k + 1 /\ \A i \in 1 .. k : w[i + 1] = Word(x.msg, i)
  BY CutWords
<1> HIDE DEF k, w
<1>3. (k + 1) - 2 + 1 = k
  BY <1>1
<1>4. \A i \in 1 .. k : 2 + i - 1 = i + 1 /\ 2 + i - 1 <= Len(w)
  BY <1>1, <1>2
<1>5. \A i \in 1 .. k : b[i] = Word(x.msg, i)
  BY <1>2, <1>4
<1>6. b = [i \in 1 .. k |-> Word(x.msg, 1 + i - 1)]
  <2>1. \A i \in 1 .. k : 1 + i - 1 = i
    BY <1>1
  <2>2. QED
    BY <1>5, <2>1
<1>7. k - 1 + 1 = k
  BY <1>1
<1>8. QED
  BY <1>3, <1>6, <1>7 DEF Buffer, Words, k, w

LEMMA BufferNext ==
    ASSUME NEW x \in Place, x.pos # 0
    PROVE  Buffer(Cut(x), 1, Step(x)) = Words(x.msg, x.pos + 1, x.pos + Step(x))
<1> DEFINE k == Step(x)
           w == Cut(x).words
           b == [i \in 1 .. k |-> IF 1 + i - 1 <= Len(w) THEN w[1 + i - 1] ELSE Junk]
           a == x.pos
<1>1. k \in Nat /\ x.msg \in Request /\ a \in Nat
  BY StepFits
<1>2. Len(w) = k /\ \A i \in 1 .. k : w[i] = Word(x.msg, a + i)
  BY CutWords
<1> HIDE DEF k, w, a
<1>3. k - 1 + 1 = k
  BY <1>1
<1>4. \A i \in 1 .. k : 1 + i - 1 = i /\ 1 + i - 1 <= Len(w)
  BY <1>1, <1>2
<1>5. \A i \in 1 .. k : b[i] = Word(x.msg, a + i)
  BY <1>2, <1>4
<1>6. b = [i \in 1 .. k |-> Word(x.msg, (a + 1) + i - 1)]
  <2>1. \A i \in 1 .. k : (a + 1) + i - 1 = a + i
    BY <1>1
  <2>2. QED
    BY <1>5, <2>1
<1>7. (a + k) - (a + 1) + 1 = k
  BY <1>1
<1>8. QED
  BY <1>3, <1>6, <1>7 DEF Buffer, Words, k, w, a

LEMMA SizesAreInts == \A n \in Nat : n \in Int
  OBVIOUS

\* A receiver that waits for the first datagram of a message and gets it.
LEMMA TakesFirst ==
    ASSUME NEW r, Receiving(r), ~r.done, NEW x \in Place, x.pos = 0
    PROVE  LET s == PutFirst(r, Cut(x), x.msg.size) IN
             Receiving(s) /\ Holds(s) = After(Cut(x)) /\ Holding(s) /\ Held(s) = [msg |-> x.msg, pos |-> x.pos + Step(x)]
<1> DEFINE m == x.msg
           k == Step(x)
           s == PutFirst(r, Cut(x), m.size)
<1>1. /\ k \in Nat /\ k >= 1 /\ m.size \in Nat /\ m.size >= 1 /\ m \in Request /\ m.size # Capacity
      /\ Cut(x).from = m.by /\ m.by \in Client /\ r \in AReceiver
  BY StepFits, CutWords DEF Receiving, Request
<1>2. Words(m, 1, k) \in Seq(AWord) /\ Words(m, 1, k)[1].of = m
  BY <1>1, WordsFromOne
<1>3. After(Cut(x)) = IF k = m.size THEN Between ELSE [msg |-> m, pos |-> k]
  BY <1>1, CutPlaces
<1>4. k = IF m.size < Capacity - 1 THEN m.size ELSE Capacity - 1
  BY DEF Step, Least
<1>5. Buffer(Cut(x), 2, k + 1) = Words(m, 1, k)
  BY BufferFirst
<1>6. x.pos + Step(x) = k
  BY <1>1
<1> HIDE DEF m, k
<1>7. CASE m.size < Capacity
  <2>1. k = m.size /\ m.size > 0 /\ m.size <= Capacity
    BY <1>1, <1>4, <1>7, CapacityAssumption
  <2>2. s = [r EXCEPT !.size = m.size, !.data = Words(m, 1, k), !.port = m.by, !.done = TRUE]
    BY <1>1, <1>5, <2>1 DEF PutFirst
  <2>3. s.size = m.size /\ s.data = Words(m, 1, k) /\ s.port = m.by /\ s.done = TRUE /\ s.pos = r.pos
    BY <1>1, <2>2 DEF AReceiver
  <2> HIDE DEF s
  <2>4. s \in AReceiver
    BY <1>1, <1>2, <2>2, SizesAreInts, Zenon DEF AReceiver
  <2>5. Receiving(s)
    BY <1>1, <1>2, <2>1, <2>3, <2>4 DEF Receiving
  <2>6. Held(s) = [msg |-> m, pos |-> k]
    BY <1>2, <2>1, <2>3 DEF Held
  <2>7. QED
    BY <1>3, <1>6, <2>1, <2>3, <2>5, <2>6 DEF Holds, Holding, s, m
<1>8. CASE ~(m.size < Capacity)
  <2>1. k = Capacity - 1 /\ ~(m.size <= Capacity) /\ k < m.size /\ k # 0 /\ k + 1 = Capacity
    BY <1>1, <1>4, <1>8, CapacityAssumption
  <2>2. s = [r EXCEPT !.size = m.size, !.data = Words(m, 1, k), !.port = m.by, !.pos = k]
    BY <1>1, <1>5, <2>1 DEF PutFirst
  <2>3. s.size = m.size /\ s.data = Words(m, 1, k) /\ s.port = m.by /\ s.pos = k /\ ~s.done
    BY <1>1, <2>2 DEF AReceiver
  <2> HIDE DEF s
  <2>4. s \in AReceiver
    BY <1>1, <1>2, <2>2, SizesAreInts, Zenon DEF AReceiver
  <2>5. Receiving(s)
    BY <1>1, <1>2, <2>1, <2>3, <2>4 DEF Receiving
  <2>6. Holds(s) = [msg |-> m, pos |-> k]
    BY <1>2, <2>1, <2>3 DEF Holds
  <2>7. k # m.size /\ Holding(s) /\ Held(s) = [msg |-> m, pos |-> k]
    BY <1>1, <1>2, <2>1, <2>3 DEF Holding, Held
  <2>8. QED
    BY <1>3, <1>6, <2>5, <2>6, <2>7 DEF s, m
<1>9. QED
  BY <1>7, <1>8

\* A receiver that has begun with a message and gets its next datagram.
LEMMA TakesNext ==
    ASSUME NEW r, Receiving(r), ~r.done, NEW x \in Place, x.pos # 0, Holds(r) = x
    PROVE  LET s == PutNext(r, Cut(x)) IN
             Receiving(s) /\ Holds(s) = After(Cut(x)) /\ Holding(s) /\ Held(s) = [msg |-> x.msg, pos |-> x.pos + Step(x)]
<1> DEFINE m == x.msg
           k == Step(x)
           a == x.pos
           s == PutNext(r, Cut(x))
<1>1. /\ k \in Nat /\ k >= 1 /\ m.size \in Nat /\ m.size >= 1 /\ m \in Request /\ a \in Nat /\ a < m.size
      /\ Cut(x).from = m.by /\ m.by \in Client /\ r \in AReceiver
  BY StepFits, CutWords DEF Receiving, Request
<1>2. r.pos # 0
  BY DEF Holds, Between
<1>3. r.pos = a /\ r.data[1].of = m /\ r.size = m.size /\ r.data = Words(m, 1, a)
  BY <1>2 DEF Holds, Receiving
<1>4. After(Cut(x)) = IF a + k = m.size THEN Between ELSE [msg |-> m, pos |-> a + k]
  BY CutPlaces
<1>5. k = IF m.size - a < Capacity THEN m.size - a ELSE Capacity
  BY DEF Step, Least
<1>6. r.data \o Buffer(Cut(x), 1, k) = Words(m, 1, a + k)
  <2>1. Buffer(Cut(x), 1, k) = Words(m, a + 1, a + k)
    BY BufferNext
  <2> HIDE DEF m, k, a
  <2>2. QED
    BY <1>1, <1>3, <2>1, WordsGoOn
<1>7. a + k \in Nat /\ a + k >= 1
  BY <1>1
<1>8. Words(m, 1, a + k) \in Seq(AWord) /\ Words(m, 1, a + k)[1].of = m
  BY <1>1, <1>7, WordsFromOne
<1> HIDE DEF m, k, a
<1>9. CASE m.size - a <= Capacity
  <2>1. k = m.size - a /\ a + k = m.size
    BY <1>1, <1>5, <1>9, CapacityAssumption
  <2>2. s = [r EXCEPT !.data = Words(m, 1, a + k), !.port = m.by, !.done = TRUE]
    BY <1>1, <1>3, <1>6, <1>9, <2>1 DEF PutNext
  <2>3. s.size = m.size /\ s.data = Words(m, 1, m.size) /\ s.port = m.by /\ s.done = TRUE /\ s.pos = a
    BY <1>1, <1>3, <2>1, <2>2 DEF AReceiver
  <2> HIDE DEF s
  <2>4. s \in AReceiver
    BY <1>1, <1>8, <2>2, SizesAreInts, Zenon DEF AReceiver
  <2>5. Receiving(s)
    BY <1>1, <1>8, <2>1, <2>3, <2>4 DEF Receiving
  <2>6. Holding(s) /\ Held(s) = [msg |-> m, pos |-> a + k]
    BY <1>8, <2>1, <2>3 DEF Holding, Held
  <2>7. QED
    BY <1>4, <2>1, <2>3, <2>5, <2>6 DEF Holds, s, m, a, k
<1>10. CASE ~(m.size - a <= Capacity)
  <2>1. k = Capacity /\ a + k # m.size /\ a + k < m.size /\ a + k # 0
    BY <1>1, <1>5, <1>10, CapacityAssumption
  <2>2. s = [r EXCEPT !.data = Words(m, 1, a + k), !.port = m.by, !.pos = a + k]
    BY <1>1, <1>3, <1>6, <1>10, <2>1 DEF PutNext
  <2>3. s.size = m.size /\ s.data = Words(m, 1, a + k) /\ s.port = m.by /\ s.pos = a + k /\ ~s.done
    BY <1>1, <1>3, <2>2 DEF AReceiver
  <2> HIDE DEF s
  <2>4. s \in AReceiver
    BY <1>1, <1>7, <1>8, <2>2, SizesAreInts, Zenon DEF AReceiver
  <2>5. Receiving(s)
    BY <1>1, <1>8, <2>1, <2>3, <2>4 DEF Receiving
  <2>6. Holds(s) = [msg |-> m, pos |-> a + k]
    BY <1>8, <2>1, <2>3 DEF Holds
  <2>7. Holding(s) /\ Held(s) = [msg |-> m, pos |-> a + k]
    BY <1>8, <2>1, <2>3 DEF Holding, Held
  <2>8. QED
    BY <1>4, <2>1, <2>5, <2>6, <2>7 DEF s, m, a, k
<1>11. QED
  BY <1>9, <1>10

-----------------------------------------------------------------------------
(* The datagrams that wait for the daemon *)

\* Each goes on where the one before it has ended, the first where the receiver is: h; and where the
\* last one has ended.
Linked(h, q) ==
    /\ q # <<>> => Before(q[1]) = h
    /\ \A i \in 1 .. Len(q) - 1 : Before(q[i + 1]) = After(q[i])
Front(h, q) == IF q = <<>> THEN h ELSE After(q[Len(q)])

LEMMA LinkedAppend ==
    ASSUME NEW h, NEW q \in Seq(Cuts), NEW d \in Cuts, Linked(h, q), Before(d) = Front(h, q)
    PROVE  Append(q, d) \in Seq(Cuts) /\ Linked(h, Append(q, d)) /\ Front(h, Append(q, d)) = After(d)
<1> DEFINE r == Append(q, d)
<1>1. /\ r \in Seq(Cuts) /\ r # <<>> /\ Len(r) = Len(q) + 1 /\ r[Len(q) + 1] = d
      /\ \A i \in 1 .. Len(q) : r[i] = q[i]
  BY AppendProperties
<1>2. Len(q) \in Nat /\ (q # <<>> => Len(q) >= 1) /\ (q = <<>> => Len(q) = 0)
  BY LenProperties, EmptySeq
<1> HIDE DEF r
<1>3. Before(r[1]) = h
  <2>1. CASE q = <<>>
    BY <1>1, <1>2, <2>1 DEF Front
  <2>2. CASE q # <<>>
    <3>1. 1 \in 1 .. Len(q)
      BY <1>2, <2>2
    <3>2. r[1] = q[1]
      BY <1>1, <3>1
    <3>3. QED
      BY <2>2, <3>2 DEF Linked
  <2>3. QED
    BY <2>1, <2>2
<1>4. ASSUME NEW i \in 1 .. Len(r) - 1
      PROVE  Before(r[i + 1]) = After(r[i])
  <2>1. i \in 1 .. Len(q) /\ q # <<>>
    BY <1>1, <1>2
  <2>2. CASE i = Len(q)
    BY <1>1, <2>1, <2>2 DEF Front
  <2>3. CASE i # Len(q)
    <3>1. i \in 1 .. Len(q) - 1 /\ i + 1 \in 1 .. Len(q)
      BY <1>2, <2>1, <2>3
    <3>2. r[i + 1] = q[i + 1] /\ r[i] = q[i]
      BY <1>1, <2>1, <3>1
    <3>3. QED
      BY <3>1, <3>2 DEF Linked
  <2>4. QED
    BY <2>2, <2>3
<1>5. r[Len(r)] = d
  BY <1>1
<1>6. QED
  BY <1>1, <1>3, <1>4, <1>5 DEF Linked, Front, r

LEMMA LinkedTail ==
    ASSUME NEW h, NEW q \in Seq(Cuts), q # <<>>, Linked(h, q)
    PROVE  /\ Head(q) \in Cuts /\ Before(Head(q)) = h /\ Tail(q) \in Seq(Cuts)
           /\ Linked(After(Head(q)), Tail(q)) /\ Front(After(Head(q)), Tail(q)) = Front(h, q)
<1> DEFINE t == Tail(q)
<1>1. /\ Head(q) \in Cuts /\ t \in Seq(Cuts) /\ Len(t) = Len(q) - 1
      /\ \A i \in 1 .. Len(t) : t[i] = q[i + 1]
  BY HeadTailProperties
<1>2. Head(q) = q[1]
  OBVIOUS
<1>3. Len(q) \in Nat /\ Len(q) >= 1 /\ (t = <<>> => Len(t) = 0) /\ (t # <<>> => Len(t) >= 1) /\ Len(t) \in Nat
  <2>1. Len(q) \in Nat /\ Len(q) \in Nat \ {0}
    BY EmptySeq
  <2>2. Len(t) \in Nat /\ (t # <<>> => Len(t) \in Nat \ {0}) /\ (t = <<>> => Len(t) = 0)
    BY <1>1, LenProperties, EmptySeq
  <2>3. QED
    BY <2>1, <2>2
<1> HIDE DEF t
<1>4. t # <<>> => Before(t[1]) = After(q[1])
  <2>1. SUFFICES ASSUME t # <<>> PROVE Before(t[1]) = After(q[1])
    OBVIOUS
  <2>2. 1 \in 1 .. Len(t) /\ 1 \in 1 .. Len(q) - 1
    BY <1>1, <1>3, <2>1
  <2>3. t[1] = q[1 + 1] /\ Before(q[1 + 1]) = After(q[1])
    BY <1>1, <2>2 DEF Linked
  <2>4. QED
    BY <2>3
<1>5. ASSUME NEW i \in 1 .. Len(t) - 1
      PROVE  Before(t[i + 1]) = After(t[i])
  <2>1. i \in 1 .. Len(t) /\ i + 1 \in 1 .. Len(t) /\ i + 1 \in 1 .. Len(q) - 1
    BY <1>1, <1>3
  <2>2. t[i] = q[i + 1] /\ t[i + 1] = q[(i + 1) + 1]
    BY <1>1, <2>1
  <2>3. QED
    BY <2>1, <2>2 DEF Linked
<1>6. Front(After(q[1]), t) = Front(h, q)
  <2>1. CASE t = <<>>
    <3>1. Len(q) = 1
      BY <1>1, <1>3, <2>1
    <3>2. QED
      BY <2>1, <3>1 DEF Front
  <2>2. CASE t # <<>>
    <3>1. Len(t) \in 1 .. Len(t) /\ Len(t) + 1 = Len(q)
      BY <1>1, <1>3, <2>2
    <3>2. t[Len(t)] = q[Len(q)]
      BY <1>1, <3>1
    <3>3. QED
      BY <2>2, <3>2 DEF Front
  <2>3. QED
    BY <2>1, <2>2
<1>7. QED
  BY <1>1, <1>2, <1>4, <1>5, <1>6 DEF Linked, t

-----------------------------------------------------------------------------
(* What the daemon takes for a message *)

Message == [by : Port \cup {"none"}, n : Nat, what : Kind \cup {"ok", "error"}, size : Nat]
Sending == [to : Port \cup {"none"}, msg : Message, size : Int, pos : Nat]
Mid(c)  == out[c].pos > 0 /\ ~Sent(c)
Rest(c) == [msg |-> out[c].msg, pos |-> out[c].pos]

\* A client that has not sent the whole of a request is in its call, and alone with a request of
\* several datagrams.
SendersOK ==
    /\ out \in [Port -> Sending] /\ calls \in [Client -> Nat]
    /\ \A c \in Client : ~Sent(c) =>
          /\ call[c].at = "send" /\ out[c].to = Daemon
          /\ Rest(c) \in Place /\ out[c].msg.by = c /\ out[c].size = out[c].msg.size
          /\ out[c].pos = 0 \/ out[c].msg.size > Capacity
    /\ \A c, d \in Client : c # d /\ ~Sent(c) /\ ~Sent(d) => out[c].msg.size < Capacity
    /\ ~Sent(Daemon) => out[Daemon].to \in Client

\* What waits for the daemon and what it has received go on from each other, up to the client that
\* is in the middle of a message.
QueueOK ==
    /\ inbox = [p \in Port |-> inbox[p]] /\ in = [p \in Port |-> in[p]]
    /\ inbox[Daemon] \in Seq(Cuts) /\ Receiving(in[Daemon])
    /\ Linked(Holds(in[Daemon]), inbox[Daemon])
    /\ \A c \in Client : Mid(c) => Front(Holds(in[Daemon]), inbox[Daemon]) = Rest(c)
    /\ Front(Holds(in[Daemon]), inbox[Daemon]) # Between => \E c \in Client : Mid(c)

\* The inductive invariant: it holds as long as no part of a message was dropped.
InOrder == lost \/ (taken /\ SendersOK /\ QueueOK)

LEMMA ShortIs ==
    ASSUME NEW n \in Nat, n <= 2 * (MaxShort + 1)
    PROVE  Short(n) \in Int /\ (n <= MaxShort => Short(n) = n) /\ (n > MaxShort => Short(n) <= 0)
  BY CapacityAssumption DEF Short

LEMMA PortsAre == /\ Daemon \in Port /\ Daemon \notin Client
                  /\ \A c \in Client : c \in Port /\ c # Daemon /\ c # "none"
  BY PortAssumption

LEMMA InOrderInit == Init => InOrder
<1>1. SUFFICES ASSUME Init PROVE InOrder
  OBVIOUS
<1>2. NoMessage \in Message
  BY DEF NoMessage, Message, Kind
<1>3. NotSending \in Sending /\ NotSending.pos = 0 /\ NotSending.size = 0
  BY <1>2 DEF NotSending, Sending
<1>4. Reset \in AReceiver /\ Holds(Reset) = Between /\ ~Reset.done /\ Reset.pos = 0
  BY EmptySeq DEF Reset, AReceiver, Holds
<1>5. taken /\ inbox = [p \in Port |-> <<>>] /\ out = [p \in Port |-> NotSending] /\ in = [p \in Port |-> Reset]
      /\ calls = [c \in Client |-> 0]
  BY <1>1 DEF Init, IPCInit
<1>6. \A p \in Port : Sent(p)
  <2>1. SUFFICES ASSUME NEW p \in Port PROVE Sent(p)
    OBVIOUS
  <2>2. out[p].pos = 0 /\ out[p].size = 0
    BY <1>3, <1>5, <2>1
  <2>3. out[p].pos >= out[p].size
    BY <2>2
  <2>4. QED
    BY <2>3 DEF Sent
<1>7. SendersOK
  BY <1>3, <1>5, <1>6, PortsAre DEF SendersOK
<1>8. inbox[Daemon] = <<>> /\ in[Daemon] = Reset
  BY <1>5, PortsAre
<1>9. Receiving(Reset)
  BY <1>4 DEF Receiving
<1>10. inbox[Daemon] \in Seq(Cuts) /\ Linked(Between, inbox[Daemon]) /\ Front(Between, inbox[Daemon]) = Between
  BY <1>8, EmptySeq DEF Linked, Front
<1>11. \A c \in Client : ~Mid(c)
  BY <1>6, PortsAre DEF Mid
<1>12. inbox = [p \in Port |-> inbox[p]] /\ in = [p \in Port |-> in[p]]
  BY <1>5
<1>13. QED
  BY <1>4, <1>5, <1>7, <1>8, <1>9, <1>10, <1>11, <1>12 DEF InOrder, QueueOK

\* One chunk of a client's request.
LEMMA ChunkGoes ==
    ASSUME SendersOK, NEW c \in Client, ~Sent(c), out' = [out EXCEPT ![c].pos = @ + Chunk(out[c])],
           UNCHANGED <<call, calls>>
    PROVE  /\ SendersOK' /\ \A p \in Port \ {c} : out'[p] = out[p]
           /\ Rest(c) \in Place /\ Datagram(c) = Cut(Rest(c))
           /\ Rest(c)' = [msg |-> Rest(c).msg, pos |-> Rest(c).pos + Step(Rest(c))]
           /\ (Mid(c))' => After(Cut(Rest(c))) = Rest(c)'
           /\ ~(Mid(c))' => After(Cut(Rest(c))) = Between
           /\ ~SeveralDatagrams(out[c].msg.size) => out[c].pos = 0 /\ ~(Mid(c))'
<1> DEFINE m == out[c].msg
           a == out[c].pos
           k == Chunk(out[c])
           x == Rest(c)
<1>1. /\ call[c].at = "send" /\ out[c].to = Daemon /\ x \in Place /\ m.by = c /\ out[c].size = m.size
      /\ a = 0 \/ m.size > Capacity
      /\ out \in [Port -> Sending] /\ out[c] \in Sending /\ c \in Port
  BY PortsAre DEF SendersOK
<1>2. x.msg = m /\ x.pos = a
  BY DEF Rest
<1>3. k = Step(x)
  BY <1>1, <1>2 DEF Chunk, Step
<1>4. /\ k \in Nat /\ k >= 1 /\ a + k <= m.size /\ m.size \in Nat /\ m.size >= 1 /\ m.size <= MaxShort
      /\ m.size # Capacity /\ m \in Request /\ a \in Nat /\ a < m.size
  BY <1>1, <1>2, <1>3, StepFits
<1>5. k = IF a = 0 THEN IF m.size < Capacity - 1 THEN m.size ELSE Capacity - 1
          ELSE IF m.size - a < Capacity THEN m.size - a ELSE Capacity
  BY <1>2, <1>3 DEF Step, Least
<1>6. Datagram(c) = Cut(x)
  BY <1>1, <1>2, <1>3 DEF Datagram, Cut
<1>7. After(Cut(x)) = IF a + k = m.size THEN Between ELSE [msg |-> m, pos |-> a + k]
  BY <1>1, <1>2, <1>3, CutPlaces
<1> DEFINE s == [out[c] EXCEPT !.pos = a + k]
<1>8. out' = [out EXCEPT ![c] = s]
  OBVIOUS
<1> HIDE DEF k
<1>9. a + k \in Nat
  BY <1>4
<1>10. s \in Sending /\ s.to = Daemon /\ s.msg = m /\ s.size = m.size /\ s.pos = a + k
  <2>1. s \in Sending
    BY <1>1, <1>9 DEF Sending
  <2>2. s.to = out[c].to /\ s.msg = out[c].msg /\ s.size = out[c].size /\ s.pos = a + k
    BY <1>1 DEF Sending
  <2>3. QED
    BY <1>1, <2>1, <2>2
<1> HIDE DEF s
<1>11. out' \in [Port -> Sending] /\ out'[c] = s /\ \A p \in Port \ {c} : out'[p] = out[p]
  BY <1>1, <1>8, <1>10
<1>12. Sent(c)' <=> a + k = m.size
  <2>1. out'[c].pos = a + k /\ out'[c].size = m.size
    BY <1>10, <1>11
  <2>2. QED
    BY <1>4, <2>1 DEF Sent
<1>13. Rest(c)' = [msg |-> m, pos |-> a + k] /\ ((Mid(c))' <=> ~Sent(c)')
  <2>1. out'[c].pos = a + k /\ out'[c].msg = m
    BY <1>10, <1>11
  <2>2. a + k > 0
    BY <1>4
  <2>3. QED
    BY <2>1, <2>2 DEF Rest, Mid
<1>14. ~Sent(c)' => m.size > Capacity
  BY <1>4, <1>5, <1>12, <1>1, CapacityAssumption
<1>15. ~Sent(c)' => Rest(c)' \in Place
  BY <1>4, <1>9, <1>12, <1>13 DEF Place
<1>16. \A p \in Port \ {c} : Sent(p)' = Sent(p) /\ Rest(p)' = Rest(p)
  BY <1>11 DEF Sent, Rest
<1>17. SendersOK'
  <2>1. ASSUME NEW d \in Client, ~Sent(d)'
        PROVE  /\ call'[d].at = "send" /\ out'[d].to = Daemon
               /\ Rest(d)' \in Place /\ out'[d].msg.by = d /\ out'[d].size = out'[d].msg.size
               /\ out'[d].pos = 0 \/ out'[d].msg.size > Capacity
    <3>1. CASE d = c
      BY <1>1, <1>10, <1>11, <1>14, <1>15, <2>1, <3>1
    <3>2. CASE d # c
      <4>1. ~Sent(d) /\ Rest(d)' = Rest(d) /\ out'[d] = out[d]
        BY <1>11, <1>16, <2>1, <3>2, PortsAre
      <4>2. QED
        BY <4>1 DEF SendersOK
    <3>3. QED
      BY <3>1, <3>2
  <2>2. ASSUME NEW d \in Client, NEW e \in Client, d # e, ~Sent(d)', ~Sent(e)'
        PROVE  out'[d].msg.size < Capacity
    <3>1. ~Sent(d) /\ ~Sent(e) /\ out'[d].msg = out[d].msg
      BY <1>10, <1>11, <1>16, <2>2, PortsAre
    <3>2. QED
      BY <2>2, <3>1 DEF SendersOK
  <2>3. ~Sent(Daemon)' => out'[Daemon].to \in Client
    <3>1. Sent(Daemon)' = Sent(Daemon) /\ out'[Daemon] = out[Daemon]
      BY <1>11, <1>16, PortsAre
    <3>2. QED
      BY <3>1 DEF SendersOK
  <2>4. calls' \in [Client -> Nat]
    BY DEF SendersOK
  <2>5. QED
    BY <1>11, <2>1, <2>2, <2>3, <2>4 DEF SendersOK
<1>18. ~SeveralDatagrams(m.size) => a = 0 /\ Sent(c)'
  <2>1. Short(m.size) = m.size
    BY <1>4, CapacityAssumption, ShortIs
  <2>2. SUFFICES ASSUME m.size < Capacity PROVE a = 0 /\ Sent(c)'
    BY <1>4, <2>1, CapacityAssumption DEF SeveralDatagrams
  <2>3. a = 0
    BY <1>1, <1>4, <2>2, CapacityAssumption
  <2>4. k = m.size
    BY <1>4, <1>5, <2>2, <2>3, CapacityAssumption
  <2>5. QED
    BY <1>4, <1>12, <2>3, <2>4
<1>19. QED
  BY <1>1, <1>2, <1>3, <1>6, <1>7, <1>11, <1>12, <1>13, <1>17, <1>18

\* A chunk that a client sends is the next one for the daemon; one that goes nowhere was a message.
LEMMA ChunkQueued ==
    ASSUME SendersOK, QueueOK, NEW c \in Client, ~Sent(c), out' = [out EXCEPT ![c].pos = @ + Chunk(out[c])],
           UNCHANGED <<call, calls, in>>,
           \/ inbox' = [inbox EXCEPT ![Daemon] = Append(@, Datagram(c))]
           \/ UNCHANGED inbox /\ ~SeveralDatagrams(out[c].msg.size)
    PROVE  QueueOK'
<1> DEFINE q == inbox[Daemon]
           h == Holds(in[Daemon])
           d == Datagram(c)
<1>1. /\ \A p \in Port \ {c} : out'[p] = out[p]
      /\ Rest(c) \in Place /\ d = Cut(Rest(c))
      /\ (Mid(c))' => After(d) = Rest(c)'
      /\ ~(Mid(c))' => After(d) = Between
      /\ ~SeveralDatagrams(out[c].msg.size) => out[c].pos = 0 /\ ~(Mid(c))'
  BY ChunkGoes
<1>2. \A e \in Client \ {c} : ~Mid(e) /\ ~(Mid(e))'
  <2>1. SUFFICES ASSUME NEW e \in Client \ {c} PROVE ~Mid(e) /\ ~(Mid(e))'
    OBVIOUS
  <2>2. out'[e] = out[e] /\ ((Mid(e))' <=> Mid(e))
    BY <1>1, <2>1, PortsAre DEF Mid, Sent
  <2>3. ASSUME Mid(e) PROVE FALSE
    <3>1. ~Sent(e) /\ out[e].pos # 0 /\ e # c
      BY <2>3 DEF Mid
    <3>2. out[e].msg.size < Capacity /\ out[e].msg.size > Capacity
      BY <3>1 DEF SendersOK
    <3>3. out[e].msg.size \in Nat
      BY PortsAre DEF SendersOK, Sending, Message
    <3>4. QED
      BY <3>2, <3>3, CapacityAssumption
  <2>4. QED
    BY <2>2, <2>3
<1>3. q \in Seq(Cuts) /\ Linked(h, q) /\ (Mid(c) => Front(h, q) = Rest(c)) /\ (~Mid(c) => Front(h, q) = Between)
  BY <1>2 DEF QueueOK
<1>4. Mid(c) <=> out[c].pos # 0
  <2>1. out[c].pos \in Nat
    BY PortsAre DEF SendersOK, Sending
  <2>2. QED
    BY <2>1 DEF Mid
<1>5. inbox = [p \in Port |-> inbox[p]] /\ in = [p \in Port |-> in[p]] /\ Receiving(in[Daemon])
  BY DEF QueueOK
<1>6. CASE inbox' = [inbox EXCEPT ![Daemon] = Append(@, d)]
  <2>1. Before(d) = Front(h, q)
    <3>1. Before(d) = IF Rest(c).pos = 0 THEN Between ELSE Rest(c)
      BY <1>1, CutPlaces
    <3>2. Rest(c).pos = out[c].pos
      BY DEF Rest
    <3>3. QED
      BY <1>3, <1>4, <3>1, <3>2
  <2>2. inbox' = [p \in Port |-> inbox'[p]] /\ inbox'[Daemon] = Append(q, d)
    BY <1>5, <1>6, PortsAre
  <2>3. d \in Cuts
    BY <1>1 DEF Cuts
  <2> HIDE DEF d, q, h
  <2>4. Append(q, d) \in Seq(Cuts) /\ Linked(h, Append(q, d)) /\ Front(h, Append(q, d)) = After(d)
    BY <1>3, <2>1, <2>3, LinkedAppend
  <2>5. Holds(in[Daemon])' = h /\ in' = in
    BY DEF h, Holds
  <2>6. /\ inbox'[Daemon] \in Seq(Cuts) /\ Linked(Holds(in[Daemon])', inbox'[Daemon])
        /\ Front(Holds(in[Daemon])', inbox'[Daemon]) = After(d)
    BY <2>2, <2>4, <2>5
  <2>7. \A e \in Client : (Mid(e))' => e = c
    BY <1>2
  <2>8. QED
    BY <1>1, <1>5, <2>2, <2>5, <2>6, <2>7 DEF QueueOK
<1>7. CASE UNCHANGED inbox /\ ~SeveralDatagrams(out[c].msg.size)
  <2>1. ~Mid(c) /\ ~(Mid(c))'
    BY <1>1, <1>4, <1>7
  <2>2. \A e \in Client : ~(Mid(e))'
    BY <1>2, <2>1
  <2>3. Front(h, q) = Between
    BY <1>3, <2>1
  <2>4. Holds(in[Daemon])' = h
    BY DEF h, Holds
  <2>5. QED
    BY <1>3, <1>5, <1>7, <2>2, <2>3, <2>4 DEF QueueOK
<1>8. QED
  BY <1>6, <1>7

\* What leaves the daemon's port and the clients that are in the middle of a message alone.
LEMMA QueueFrame ==
    ASSUME QueueOK, inbox' = [p \in Port |-> inbox'[p]], in' = [p \in Port |-> in'[p]],
           inbox'[Daemon] = inbox[Daemon], in'[Daemon] = in[Daemon],
           \A c \in Client : ((Mid(c))' <=> Mid(c)) /\ (Mid(c) => Rest(c)' = Rest(c))
    PROVE  QueueOK'
<1>1. Holds(in[Daemon])' = Holds(in[Daemon])
  BY DEF Holds
<1>2. QED
  BY <1>1 DEF QueueOK

\* The daemon reads the datagram that waited longest.
LEMMA DaemonReads ==
    ASSUME QueueOK, RecvChunk(Daemon)
    PROVE  /\ QueueOK' /\ inbox'[Daemon] = Tail(inbox[Daemon]) /\ inbox[Daemon] # <<>>
           /\ \E x \in Place : /\ Head(inbox[Daemon]) = Cut(x) /\ Holding(in'[Daemon])
                              /\ Held(in'[Daemon]) = [msg |-> x.msg, pos |-> x.pos + Step(x)]
<1> DEFINE q == inbox[Daemon]
           r == in[Daemon]
           d == Head(q)
           s == in'[Daemon]
<1>1. /\ ~r.done /\ q # <<>> /\ inbox' = [inbox EXCEPT ![Daemon] = Tail(@)] /\ out' = out
      /\ IF r.pos = 0 THEN \E size \in SizesRead(d.words[1]) : in' = [in EXCEPT ![Daemon] = PutFirst(@, d, size)]
         ELSE in' = [in EXCEPT ![Daemon] = PutNext(@, d)]
  BY DEF RecvChunk
<1>2. /\ q \in Seq(Cuts) /\ Receiving(r) /\ Linked(Holds(r), q)
      /\ inbox = [p \in Port |-> inbox[p]] /\ in = [p \in Port |-> in[p]]
  BY DEF QueueOK
<1>3. /\ inbox' = [p \in Port |-> inbox'[p]] /\ inbox'[Daemon] = Tail(q) /\ in' = [p \in Port |-> in'[p]]
      /\ IF r.pos = 0 THEN \E size \in SizesRead(d.words[1]) : s = PutFirst(r, d, size) ELSE s = PutNext(r, d)
  BY <1>1, <1>2, PortsAre
<1> HIDE DEF q, r, s, d
<1>4. /\ d \in Cuts /\ Before(d) = Holds(r) /\ Tail(q) \in Seq(Cuts)
      /\ Linked(After(d), Tail(q)) /\ Front(After(d), Tail(q)) = Front(Holds(r), q)
  BY <1>1, <1>2, LinkedTail DEF d
<1>5. PICK x \in Place : d = Cut(x)
  BY <1>4 DEF Cuts
<1>6. Holds(r) = IF x.pos = 0 THEN Between ELSE x
  BY <1>4, <1>5, CutPlaces
<1>7. Receiving(s) /\ Holds(s) = After(d) /\ Holding(s) /\ Held(s) = [msg |-> x.msg, pos |-> x.pos + Step(x)]
  <2>1. CASE x.pos = 0
    <3>1. Holds(r) = Between
      BY <1>6, <2>1
    <3>2. r.pos = 0
      BY <1>1, <3>1 DEF Holds, Between
    <3>3. PICK size \in SizesRead(d.words[1]) : s = PutFirst(r, d, size)
      BY <1>3, <3>2
    <3>4. d.words[1] = Size(x.msg.size)
      BY <1>5, <2>1, CutWords
    <3>5. size = x.msg.size
      BY <3>3, <3>4, SizeFields DEF SizesRead
    <3>6. QED
      BY <1>1, <1>2, <1>5, <2>1, <3>3, <3>5, TakesFirst
  <2>2. CASE x.pos # 0
    <3>1. Holds(r) = x
      BY <1>6, <2>2
    <3>2. r.pos # 0
      BY <2>2, <3>1 DEF Holds, Between
    <3>3. s = PutNext(r, d)
      BY <1>3, <3>2
    <3>4. QED
      BY <1>1, <1>2, <1>5, <2>2, <3>1, <3>3, TakesNext
  <2>3. QED
    BY <2>1, <2>2
<1>8. \A c \in Client : ((Mid(c))' <=> Mid(c)) /\ Rest(c)' = Rest(c)
  BY <1>1 DEF Mid, Sent, Rest
<1>9. Front(Holds(s), inbox'[Daemon]) = Front(Holds(r), q) /\ Linked(Holds(s), inbox'[Daemon])
  BY <1>3, <1>4, <1>7
<1>10. Holds(in[Daemon])' = Holds(s)
  BY DEF Holds, s
<1>11. QueueOK'
  BY <1>3, <1>4, <1>7, <1>8, <1>9, <1>10 DEF QueueOK, q, r, s
<1>12. QED
  BY <1>1, <1>3, <1>5, <1>7, <1>11 DEF q, s, d

\* A receiver that has a whole message is ready for the next one.
LEMMA DaemonResets ==
    ASSUME QueueOK, in[Daemon].done, in' = [in EXCEPT ![Daemon] = Reset], UNCHANGED inbox,
           \A c \in Client : out'[c] = out[c]
    PROVE  QueueOK'
<1>1. Reset \in AReceiver /\ Holds(Reset) = Between /\ Receiving(Reset)
  <2>1. Reset \in AReceiver /\ ~Reset.done /\ Reset.pos = 0
    BY EmptySeq DEF Reset, AReceiver
  <2>2. QED
    BY <2>1 DEF Holds, Receiving
<1>2. Holds(in[Daemon]) = Between
  BY DEF Holds
<1>3. in' = [p \in Port |-> in'[p]] /\ in'[Daemon] = Reset
  BY PortsAre DEF QueueOK
<1>4. \A c \in Client : ((Mid(c))' <=> Mid(c)) /\ Rest(c)' = Rest(c)
  BY DEF Mid, Sent, Rest
<1>5. Holds(in[Daemon])' = Between
  BY <1>1, <1>3 DEF Holds
<1>6. QED
  BY <1>1, <1>2, <1>3, <1>4, <1>5 DEF QueueOK

\* A port that is closed and opened again has nothing, and nobody in the middle of a message.
LEMMA PortCloses ==
    ASSUME SendersOK, QueueOK, PortClosed, ~lost'
    PROVE  QueueOK'
<1>1. Reset \in AReceiver /\ Holds(Reset) = Between /\ Receiving(Reset)
  <2>1. Reset \in AReceiver /\ ~Reset.done /\ Reset.pos = 0
    BY EmptySeq DEF Reset, AReceiver
  <2>2. QED
    BY <2>1 DEF Holds, Receiving
<1>2. /\ inbox' = [p \in Port |-> inbox'[p]] /\ inbox'[Daemon] = <<>>
      /\ in' = [p \in Port |-> in'[p]] /\ in'[Daemon] = Reset
  BY PortsAre DEF PortClosed, QueueOK
<1>3. \A c \in Client : out'[c] = out[c]
  BY PortsAre DEF PortClosed, SendersOK
<1>4. \A c \in Client : ~(Mid(c))'
  BY <1>3 DEF PortClosed, Mid, Sent
<1>5. Holds(in[Daemon])' = Between
  BY <1>1, <1>2 DEF Holds
<1>6. <<>> \in Seq(Cuts) /\ Linked(Between, <<>>) /\ Front(Between, <<>>) = Between
  BY EmptySeq DEF Linked, Front
<1>7. QED
  BY <1>1, <1>2, <1>4, <1>5, <1>6 DEF QueueOK

\* What the calls of the clients change, where none that is sending changes its own.
LEMMA SendersFrame ==
    ASSUME SendersOK, out' \in [Port -> Sending], calls' \in [Client -> Nat],
           \A c \in Client : out'[c] = out[c] /\ (~Sent(c) => call'[c] = call[c]),
           ~Sent(Daemon)' => out'[Daemon].to \in Client
    PROVE  SendersOK'
<1>1. \A c \in Client : Sent(c)' = Sent(c) /\ Rest(c)' = Rest(c)
  BY DEF Sent, Rest
<1>2. ASSUME NEW d \in Client, ~Sent(d)'
      PROVE  /\ call'[d].at = "send" /\ out'[d].to = Daemon
             /\ Rest(d)' \in Place /\ out'[d].msg.by = d /\ out'[d].size = out'[d].msg.size
             /\ out'[d].pos = 0 \/ out'[d].msg.size > Capacity
  BY <1>1, <1>2 DEF SendersOK
<1>3. ASSUME NEW d \in Client, NEW e \in Client, d # e, ~Sent(d)', ~Sent(e)'
      PROVE  out'[d].msg.size < Capacity
  BY <1>1, <1>3 DEF SendersOK
<1>4. QED
  BY <1>2, <1>3 DEF SendersOK

\* A client begins with a request.
LEMMA AsksInOrder ==
    ASSUME SizesFit, "interleave" \notin Quirks, CallsOK, SendersOK, QueueOK,
           NEW c \in Client, NEW what \in KindsOf[c] \cup {"stop"}, Asks(c, what)
    PROVE  SendersOK' /\ QueueOK'
<1> DEFINE size == SizeOf[what]
           m == [by |-> c, n |-> calls[c] + 1, what |-> what, size |-> size]
           s == [to |-> Daemon, msg |-> m, size |-> Short(size), pos |-> 0]
<1>1. size \in Nat /\ size # Capacity /\ size <= 2 * (MaxShort + 1)
  BY DEF SizesFit
<1>2. Short(size) \in Int /\ (size <= MaxShort => Short(size) = size) /\ (size > MaxShort => Short(size) <= 0)
  BY <1>1, ShortIs
<1>3. what \in Kind
  BY DEF Kind
<1>4. out \in [Port -> Sending] /\ calls \in [Client -> Nat] /\ calls[c] + 1 \in Nat /\ c \in Port /\ Daemon \in Port
  BY PortsAre DEF SendersOK
<1>5. /\ call[c].at = "no" /\ calls' = [calls EXCEPT ![c] = @ + 1] /\ UNCHANGED <<inbox, in, losses, lost, late, daemonVars>>
      /\ call' = [call EXCEPT ![c] = [at |-> "send", what |-> what]]
      /\ AloneWithIt(c, size) /\ out' = [out EXCEPT ![c] = [to |-> Daemon, msg |-> m, size |-> Short(m.size), pos |-> 0]]
  BY DEF Asks, Sends, Idle
<1>6. m.size = size /\ m.by = c
  OBVIOUS
<1>7. m \in Message
  BY <1>1, <1>3, <1>4 DEF Message
<1>8. s.to = Daemon /\ s.msg = m /\ s.size = Short(size) /\ s.pos = 0
  OBVIOUS
<1>9. s \in Sending
  BY <1>2, <1>4, <1>7 DEF Sending
<1>10. size \in (1 .. MaxShort) \ {Capacity} => m \in Request
  BY <1>3, <1>4 DEF Request
<1> HIDE DEF m
<1>11. out' = [out EXCEPT ![c] = s]
  BY <1>5, <1>6
<1> HIDE DEF s, size
<1>12. out' \in [Port -> Sending] /\ out'[c] = s /\ \A p \in Port \ {c} : out'[p] = out[p]
  BY <1>4, <1>9, <1>11
<1>13. Sent(c)
  BY <1>5 DEF SendersOK
<1>14. ~Sent(c)' => Short(size) = size /\ size \in (1 .. MaxShort) \ {Capacity}
  <2>1. out'[c].pos = 0 /\ out'[c].size = Short(size)
    BY <1>8, <1>12
  <2>2. ~Sent(c)' => Short(size) > 0
    BY <1>2, <2>1 DEF Sent
  <2>3. QED
    BY <1>1, <1>2, <2>2, CapacityAssumption
<1>15. \A d \in Client \ {c} : out'[d] = out[d] /\ Sent(d)' = Sent(d) /\ Rest(d)' = Rest(d) /\ (Mid(d))' = Mid(d)
  BY <1>12, PortsAre DEF Sent, Rest, Mid
<1>16. \A d \in Client \ {c} : call'[d] = call[d]
  BY <1>5 DEF CallsOK
<1>17. call'[c].at = "send"
  BY <1>5 DEF CallsOK
<1>18. SendersOK'
  <2>1. ASSUME ~Sent(c)'
        PROVE  Rest(c)' \in Place /\ out'[c].msg.by = c /\ out'[c].size = out'[c].msg.size
    <3>1. m \in Request /\ Short(size) = size /\ size >= 1
      BY <1>10, <1>14, <2>1
    <3>2. Rest(c)' = [msg |-> m, pos |-> 0]
      BY <1>8, <1>12 DEF Rest
    <3>3. Rest(c)' \in Place
      BY <1>1, <1>6, <3>1, <3>2 DEF Place
    <3>4. QED
      BY <1>6, <1>8, <1>12, <3>1, <3>3
  <2>2. ASSUME NEW d \in Client, ~Sent(d)'
        PROVE  /\ call'[d].at = "send" /\ out'[d].to = Daemon
               /\ Rest(d)' \in Place /\ out'[d].msg.by = d /\ out'[d].size = out'[d].msg.size
               /\ out'[d].pos = 0 \/ out'[d].msg.size > Capacity
    <3>1. CASE d = c
      BY <1>8, <1>12, <1>17, <2>1, <2>2, <3>1
    <3>2. CASE d # c
      BY <1>15, <1>16, <2>2, <3>2 DEF SendersOK
    <3>3. QED
      BY <3>1, <3>2
  <2>3. ASSUME NEW d \in Client \ {c}, ~Sent(c)', ~Sent(d)'
        PROVE  size < Capacity /\ out[d].msg.size < Capacity
    <3>1. ~Sent(d)
      BY <1>15, <2>3
    <3>2. ~SeveralDatagrams(size) /\ ~SeveralDatagrams(out[d].msg.size)
      BY <1>5, <3>1 DEF AloneWithIt
    <3>3. Rest(d) \in Place /\ Rest(d).msg = out[d].msg
      BY <3>1 DEF SendersOK, Rest
    <3>4. out[d].msg.size \in Nat /\ out[d].msg.size <= MaxShort
      BY <3>3, StepFits
    <3>5. Short(out[d].msg.size) = out[d].msg.size
      BY <3>4, ShortIs, CapacityAssumption
    <3>6. Short(size) = size
      BY <1>14, <2>3
    <3>7. ~(size >= Capacity) /\ ~(out[d].msg.size >= Capacity)
      BY <3>2, <3>5, <3>6 DEF SeveralDatagrams
    <3>8. QED
      BY <1>1, <3>4, <3>7, CapacityAssumption
  <2>4. ASSUME NEW d \in Client, NEW e \in Client, d # e, ~Sent(d)', ~Sent(e)'
        PROVE  out'[d].msg.size < Capacity
    <3>1. CASE d = c
      BY <1>6, <1>8, <1>12, <2>3, <2>4, <3>1
    <3>2. CASE d # c /\ e = c
      BY <1>15, <2>3, <2>4, <3>2
    <3>3. CASE d # c /\ e # c
      BY <1>15, <2>4, <3>3 DEF SendersOK
    <3>4. QED
      BY <3>1, <3>2, <3>3
  <2>5. ~Sent(Daemon)' => out'[Daemon].to \in Client
    <3>1. out'[Daemon] = out[Daemon] /\ Sent(Daemon)' = Sent(Daemon)
      BY <1>12, PortsAre DEF Sent
    <3>2. QED
      BY <3>1 DEF SendersOK
  <2>6. calls' \in [Client -> Nat]
    BY <1>4, <1>5
  <2>7. QED
    BY <1>12, <2>2, <2>4, <2>5, <2>6 DEF SendersOK
<1>19. ~Mid(c) /\ ~(Mid(c))'
  <2>1. out'[c].pos = 0
    BY <1>8, <1>12
  <2>2. ~(out'[c].pos > 0)
    BY <2>1
  <2>3. QED
    BY <1>13, <2>2 DEF Mid
<1>20. \A d \in Client : ((Mid(d))' <=> Mid(d)) /\ (Mid(d) => Rest(d)' = Rest(d))
  BY <1>15, <1>19
<1>21. inbox' = inbox /\ in' = in
  BY <1>5
<1>22. QueueOK'
  BY <1>20, <1>21, QueueFrame DEF QueueOK
<1>23. QED
  BY <1>18, <1>22

\* What a client does besides asking and sending.
LEMMA ClientInOrder ==
    ASSUME CallsOK, SendersOK, QueueOK, NEW c \in Client,
           Waits(c) \/ ClientReceives(c) \/ TakesAnswer(c) \/ Reaps(c) \/ Starts(c)
    PROVE  SendersOK' /\ QueueOK'
<1>1. out' = out /\ calls' = calls /\ (~Sent(c) => call' = call)
  BY DEF Waits, ClientReceives, TakesAnswer, Reaps, Starts, ipcVars, callVars, RecvChunk, SendersOK
<1>2. \A d \in Client \ {c} : call'[d] = call[d]
  BY DEF Waits, ClientReceives, TakesAnswer, Reaps, Starts, ipcVars, callVars, Goes, Returns, CallsOK
<1>3. SendersOK'
  <2>1. ~Sent(Daemon)' => out'[Daemon].to \in Client
    BY <1>1 DEF SendersOK, Sent
  <2>2. out' \in [Port -> Sending] /\ calls' \in [Client -> Nat]
    BY <1>1 DEF SendersOK
  <2>3. \A d \in Client : out'[d] = out[d] /\ (~Sent(d) => call'[d] = call[d])
    BY <1>1, <1>2
  <2>4. QED
    BY <2>1, <2>2, <2>3, SendersFrame
<1>4. inbox' = [p \in Port |-> inbox'[p]] /\ inbox'[Daemon] = inbox[Daemon]
  BY PortsAre DEF Waits, ClientReceives, TakesAnswer, Reaps, Starts, ipcVars, callVars, RecvChunk, QueueOK
<1>5. in' = [p \in Port |-> in'[p]] /\ in'[Daemon] = in[Daemon]
  BY PortsAre DEF Waits, ClientReceives, TakesAnswer, Reaps, Starts, ipcVars, callVars, RecvChunk, QueueOK
<1>6. \A d \in Client : ((Mid(d))' <=> Mid(d)) /\ Rest(d)' = Rest(d)
  BY <1>1 DEF Mid, Sent, Rest
<1>7. QED
  BY <1>3, <1>4, <1>5, <1>6, QueueFrame

LEMMA SendsInOrder ==
    ASSUME SendersOK, QueueOK, NEW c \in Client, ClientSends(c), ~lost'
    PROVE  SendersOK' /\ QueueOK'
<1>1. /\ ~Sent(c) /\ out' = [out EXCEPT ![c].pos = @ + Chunk(out[c])] /\ UNCHANGED <<call, calls, in>>
      /\ \/ inbox' = [inbox EXCEPT ![out[c].to] = Append(@, Datagram(c))]
         \/ UNCHANGED inbox /\ lost' = (lost \/ SeveralDatagrams(out[c].msg.size))
  BY DEF ClientSends, SendChunk, SendChunkToNobody, callVars
<1>2. out[c].to = Daemon
  BY <1>1 DEF SendersOK
<1>3. QED
  BY <1>1, <1>2, ChunkGoes, ChunkQueued

\* What the daemon does.
LEMMA DaemonInOrder ==
    ASSUME taken, SendersOK, QueueOK, NEW p \in Pid, DaemonNext(p) \/ DaemonCrashes(p), ~lost'
    PROVE  taken' /\ SendersOK' /\ QueueOK'
<1>1. CASE DaemonUp(p)
  BY <1>1 DEF DaemonUp, ipcVars, callVars, SendersOK, QueueOK, Sent, Rest, Place, Holds, Receiving, Mid
<1>2. CASE DaemonReceives(p)
  <2>1. QueueOK' /\ UNCHANGED <<out, call, calls, taken>>
    BY <1>2, DaemonReads DEF DaemonReceives, RecvChunk, callVars, daemonVars
  <2>2. ~Sent(Daemon)' => out'[Daemon].to \in Client
    BY <2>1 DEF SendersOK, Sent
  <2>3. out' \in [Port -> Sending] /\ calls' \in [Client -> Nat]
    BY <2>1 DEF SendersOK
  <2>4. QED
    BY <2>1, <2>2, <2>3, SendersFrame
<1>3. CASE DaemonAnswers(p)
  <2> DEFINE m == Received(Daemon)
             ok == IsWhole(Daemon)
             a == [by |-> Daemon, n |-> IF ok THEN m.n ELSE 0, what |-> IF ok THEN "ok" ELSE "error", size |-> IF ok THEN 2 ELSE 1]
             s == [to |-> in[Daemon].port, msg |-> a, size |-> Short(a.size), pos |-> 0]
  <2>1. /\ in[Daemon].done /\ taken' = (taken /\ ok) /\ UNCHANGED <<inbox, call, calls>>
        /\ in' = [in EXCEPT ![Daemon] = Reset] /\ out' = [out EXCEPT ![Daemon] = s]
    BY <1>3 DEF DaemonAnswers, Sends, callVars
  <2>2. ok /\ m \in Request /\ in[Daemon].port = m.by
    BY <2>1 DEF QueueOK, Receiving, IsWhole, Received
  <2>3. m.n \in Nat /\ m.by \in Client
    BY <2>2 DEF Request
  <2>4. a = [by |-> Daemon, n |-> m.n, what |-> "ok", size |-> 2]
    BY <2>2
  <2> HIDE DEF m, ok
  <2>5. a \in Message /\ a.size = 2
    BY <2>3, <2>4, PortsAre DEF Message
  <2> HIDE DEF a
  <2>6. Short(a.size) \in Int
    BY <2>5, CapacityAssumption DEF Short
  <2>7. s \in Sending /\ s.to \in Client
    BY <2>2, <2>3, <2>5, <2>6, PortsAre DEF Sending
  <2> HIDE DEF s
  <2>8. out' \in [Port -> Sending] /\ out'[Daemon] = s /\ \A c \in Client : out'[c] = out[c]
    BY <2>1, <2>7, PortsAre DEF SendersOK
  <2>9. SendersOK'
    <3>1. calls' \in [Client -> Nat] /\ \A c \in Client : call'[c] = call[c]
      BY <2>1 DEF SendersOK
    <3>2. QED
      BY <2>7, <2>8, <3>1, SendersFrame
  <2>10. QueueOK'
    BY <2>1, <2>8, DaemonResets
  <2>11. QED
    BY <2>1, <2>2, <2>9, <2>10
<1>4. CASE DaemonSends(p)
  <2> DEFINE s == [out[Daemon] EXCEPT !.pos = @ + Chunk(out[Daemon])]
             to == out[Daemon].to
  <2>1. /\ ~Sent(Daemon) /\ out' = [out EXCEPT ![Daemon] = s] /\ UNCHANGED <<call, calls, in, taken>>
        /\ \/ inbox' = [inbox EXCEPT ![to] = Append(@, Datagram(Daemon))]
           \/ UNCHANGED inbox
    BY <1>4 DEF DaemonSends, SendChunk, callVars, daemonVars
  <2>2. to \in Client /\ out[Daemon] \in Sending
    BY <2>1, PortsAre DEF SendersOK
  <2>3. Chunk(out[Daemon]) \in Nat
    <3> DEFINE n == out[Daemon].size
               b == out[Daemon].pos
    <3>1. n \in Int /\ b \in Nat /\ b < n
      BY <2>1, <2>2 DEF Sent, Sending
    <3>2. Chunk(out[Daemon]) = IF b = 0 THEN IF n < Capacity - 1 THEN n ELSE Capacity - 1
                               ELSE IF n - b < Capacity THEN n - b ELSE Capacity
      BY DEF Chunk, Least
    <3> HIDE DEF n, b
    <3>3. QED
      BY <3>1, <3>2, CapacityAssumption
  <2>4. out[Daemon].pos + Chunk(out[Daemon]) \in Nat
    BY <2>2, <2>3 DEF Sending
  <2>5. s \in Sending /\ s.to = to
    <3>1. s.to = to
      BY <2>2 DEF Sending
    <3>2. s \in Sending
      BY <2>2, <2>4 DEF Sending
    <3>3. QED
      BY <3>1, <3>2
  <2> HIDE DEF s
  <2>6. out' \in [Port -> Sending] /\ out'[Daemon] = s /\ \A c \in Client : out'[c] = out[c]
    BY <2>1, <2>5, PortsAre DEF SendersOK
  <2>7. SendersOK'
    <3>1. calls' \in [Client -> Nat] /\ \A c \in Client : call'[c] = call[c]
      BY <2>1 DEF SendersOK
    <3>2. QED
      BY <2>2, <2>5, <2>6, <3>1, SendersFrame
  <2> HIDE DEF to
  <2>8. inbox' = [q \in Port |-> inbox'[q]] /\ inbox'[Daemon] = inbox[Daemon]
    BY <2>1, <2>2, PortsAre DEF QueueOK
  <2>9. \A c \in Client : ((Mid(c))' <=> Mid(c)) /\ Rest(c)' = Rest(c)
    BY <2>6 DEF Mid, Sent, Rest
  <2>10. in' = [q \in Port |-> in'[q]] /\ in'[Daemon] = in[Daemon]
    BY <2>1 DEF QueueOK
  <2>11. QED
    BY <2>1, <2>7, <2>8, <2>9, <2>10, QueueFrame
<1>5. CASE DaemonEnds(p) \/ DaemonCrashes(p)
  <2>1. PortClosed /\ UNCHANGED <<call, calls, taken>>
    BY <1>5 DEF DaemonEnds, DaemonCrashes, callVars
  <2>2. NotSending \in Sending /\ NotSending.pos = 0 /\ NotSending.size = 0
    <3>1. NoMessage \in Message
      BY DEF NoMessage, Message, Kind
    <3>2. QED
      BY <3>1 DEF NotSending, Sending
  <2>3. out' \in [Port -> Sending] /\ out'[Daemon] = NotSending /\ \A c \in Client : out'[c] = out[c]
    BY <2>1, <2>2, PortsAre DEF PortClosed, SendersOK
  <2>4. Sent(Daemon)'
    <3>1. out'[Daemon].pos >= out'[Daemon].size
      BY <2>2, <2>3
    <3>2. QED
      BY <3>1 DEF Sent
  <2>5. SendersOK'
    <3>1. calls' \in [Client -> Nat] /\ \A c \in Client : call'[c] = call[c]
      BY <2>1 DEF SendersOK
    <3>2. QED
      BY <2>3, <2>4, <3>1, SendersFrame
  <2>6. QED
    BY <2>1, <2>5, PortCloses
<1>6. QED
  BY <1>1, <1>2, <1>3, <1>4, <1>5 DEF DaemonNext

\* Nothing that was lost is found again.
LEMMA StaysLost ==
    ASSUME lost, [Next]_vars
    PROVE  lost'
<1>1. ASSUME NEW c \in Client, Requests(c) \/ Starts(c) \/ Stops(c) \/ ClientNext(c)
      PROVE  lost'
  BY <1>1 DEF Requests, Stops, Asks, Starts, ClientNext, ClientSends, Waits, ClientReceives, TakesAnswer, Reaps,
              SendChunk, SendChunkToNobody, RecvChunk, ipcVars
<1>2. ASSUME NEW p \in Pid, DaemonNext(p) \/ DaemonCrashes(p)
      PROVE  lost'
  BY <1>2 DEF DaemonNext, DaemonCrashes, DaemonUp, DaemonReceives, DaemonAnswers, DaemonSends, DaemonEnds,
              SendChunk, RecvChunk, PortClosed, ipcVars
<1>3. QED
  BY <1>1, <1>2 DEF Next, vars, ipcVars

LEMMA InOrderNext ==
    ASSUME SizesFit, "interleave" \notin Quirks, CallsOK, InOrder, [Next]_vars
    PROVE  InOrder'
<1>1. SUFFICES ASSUME ~lost' PROVE (taken /\ SendersOK /\ QueueOK)'
  BY DEF InOrder
<1>2. ~lost /\ taken /\ SendersOK /\ QueueOK
  BY <1>1, StaysLost DEF InOrder
<1>3. ASSUME NEW c \in Client, NEW what \in KindsOf[c] \cup {"stop"}, Asks(c, what)
      PROVE  (taken /\ SendersOK /\ QueueOK)'
  BY <1>2, <1>3, AsksInOrder DEF Asks, daemonVars
<1>4. ASSUME NEW c \in Client, ClientSends(c)
      PROVE  (taken /\ SendersOK /\ QueueOK)'
  BY <1>1, <1>2, <1>4, SendsInOrder DEF ClientSends, daemonVars
<1>5. ASSUME NEW c \in Client, Waits(c) \/ ClientReceives(c) \/ TakesAnswer(c) \/ Reaps(c) \/ Starts(c)
      PROVE  (taken /\ SendersOK /\ QueueOK)'
  <2>1. taken' = taken
    BY <1>5 DEF Waits, ClientReceives, TakesAnswer, Reaps, Starts, daemonVars
  <2>2. QED
    BY <1>2, <1>5, <2>1, ClientInOrder
<1>6. ASSUME NEW p \in Pid, DaemonNext(p) \/ DaemonCrashes(p)
      PROVE  (taken /\ SendersOK /\ QueueOK)'
  BY <1>1, <1>2, <1>6, DaemonInOrder
<1>7. CASE UNCHANGED vars
  BY <1>2, <1>7 DEF vars, ipcVars, callVars, daemonVars, SendersOK, QueueOK, Sent, Rest, Place, Holds, Receiving, Mid
<1>8. ASSUME NEW c \in Client, Requests(c) \/ Stops(c)
      PROVE  \E what \in KindsOf[c] \cup {"stop"} : Asks(c, what)
  BY <1>8 DEF Requests, Stops
<1>9. QED
  BY <1>3, <1>4, <1>5, <1>6, <1>7, <1>8 DEF Next, ClientNext

\* As long as no part of a message of several datagrams is dropped, and no two processes send such
\* messages at once, whatever the daemon takes for a message is one, whole and in its order.
THEOREM EveryMessageIsWhole ==
    ASSUME SizesFit, "interleave" \notin Quirks
    PROVE  Spec => []WholeMessages
<1>1. CallsOK /\ InOrder /\ [Next]_vars => CallsOK' /\ InOrder'
  BY CallsNext, InOrderNext
<1>2. InOrder => WholeMessages
  BY DEF InOrder, WholeMessages
<1>3. QED
  BY <1>1, <1>2, CallsInit, InOrderInit, PTL DEF Spec

-----------------------------------------------------------------------------
(* The answers *)

\* What the daemon sends back, in one datagram.
Answer   == {a \in Message : a.by = Daemon /\ a.size = 2}
Reply(a) == [from |-> Daemon, words |-> <<Size(2)>> \o Words(a, 1, 2)]
Replies  == {Reply(a) : a \in Answer}
Num(d)   == d.words[2].of.n

\* The first of two places of a client's requests comes first.
Earlier(x, y) == x.msg.n < y.msg.n \/ (x.msg = y.msg /\ x.pos <= y.pos)

\* The calls of a client that took an answer, and the numbers of its requests that are on their way
\* and of the answers that are.
Answered(c) == calls[c] - late[c] - (IF call[c].at \in {"send", "recv"} THEN 1 ELSE 0)
Given(c)    == IF in[c].done THEN {in[c].data[1].of.n} ELSE {}
Waiting(c)  == {Num(inbox[c][i]) : i \in 1 .. Len(inbox[c])}
Leaving(c)  == IF ~Sent(Daemon) /\ out[Daemon].to = c THEN {out[Daemon].msg.n} ELSE {}
Answers(c)  == Given(c) \cup Waiting(c) \cup Leaving(c)
HeldBy(c)   == IF Holding(in[Daemon]) /\ Held(in[Daemon]).msg.by = c THEN {Held(in[Daemon])} ELSE {}
FromC(c)    == {i \in 1 .. Len(inbox[Daemon]) : inbox[Daemon][i].from = c}
Left(c)     == IF Sent(c) THEN {} ELSE {Rest(c)}
Wanted(c)   == {x.msg.n : x \in HeldBy(c) \cup {At(inbox[Daemon][i]) : i \in FromC(c)} \cup Left(c)}

\* Every port but the daemon's gets answers, each in one datagram.
RepliesOK ==
    /\ late \in [Client -> Nat]
    /\ ~Sent(Daemon) => out[Daemon].msg \in Answer /\ out[Daemon].size = 2 /\ out[Daemon].pos = 0
    /\ \A c \in Client :
          /\ inbox[c] \in Seq(Replies)
          /\ DOMAIN in[c] = {"size", "pos", "data", "port", "done"} /\ in[c].pos = 0
          /\ in[c].done => in[c].data[1].of \in Answer /\ call[c].at = "recv"
          /\ ~Sent(c) => out[c].msg.n = calls[c]

\* The answers that are on their way to a client come in the order of its requests.
RepliesInTurn(c) ==
    /\ \A i, j \in 1 .. Len(inbox[c]) : i < j => Num(inbox[c][i]) < Num(inbox[c][j])
    /\ \A g \in Given(c) : \A n \in Waiting(c) \cup Leaving(c) : g < n
    /\ \A l \in Leaving(c) : \A n \in Waiting(c) : n < l

\* The requests of a client that are on their way come in their order.
AsksInTurn(c) ==
    /\ \A i, j \in FromC(c) : i < j => Earlier(Till(inbox[Daemon][i]), At(inbox[Daemon][j]))
    /\ \A h \in HeldBy(c) : \A i \in FromC(c) : Earlier(h, At(inbox[Daemon][i]))
    /\ \A l \in Left(c) : \A h \in HeldBy(c) : Earlier(h, l)
    /\ \A l \in Left(c) : \A i \in FromC(c) : Earlier(Till(inbox[Daemon][i]), l)

\* Every answer comes before every request, and both after what was answered before.
Lags(c) ==
    /\ \A a \in Answers(c) : Answered(c) < a /\ a <= calls[c] /\ \A w \in Wanted(c) : a < w
    /\ \A w \in Wanted(c) : Answered(c) < w /\ w <= calls[c]

\* A message that has ended comes before every other, and what comes before a place comes before
\* what follows it.
LEMMA EndedEarlier ==
    ASSUME NEW x, NEW y \in Place, x.pos = x.msg.size, Earlier(x, y)
    PROVE  x.msg.n < y.msg.n
<1>1. y.pos < y.msg.size /\ y.pos \in Nat /\ y.msg.size \in Nat
  BY StepFits
<1>2. QED
  BY <1>1 DEF Earlier

LEMMA EarlierGoesOn ==
    ASSUME NEW x, NEW y, NEW z, Earlier(x, y), z.msg = y.msg,
           x.pos \in Nat, y.pos \in Nat, z.pos \in Nat, y.pos <= z.pos
    PROVE  Earlier(x, z)
  BY DEF Earlier

\* An answer, as it is sent and as it is received.
LEMMA ReplyIs ==
    ASSUME NEW a \in Answer, Capacity > 2
    PROVE  /\ Len(Reply(a).words) = 3 /\ Reply(a).words[1] = Size(2) /\ Reply(a).words[2] = Word(a, 1)
           /\ Num(Reply(a)) = a.n /\ a.n \in Nat /\ a \in Message
<1> DEFINE S == {Size(2), Word(a, 1), Word(a, 2)}
           t == [i \in 1 .. 2 |-> Word(a, 1 + i - 1)]
<1>1. Words(a, 1, 2) = t
  BY DEF Words
<1>2. t \in Seq(S) /\ Len(t) = 2 /\ t[1] = Word(a, 1)
  <2>1. \A i \in 1 .. 2 : i = 1 \/ i = 2
    OBVIOUS
  <2>2. Word(a, 1 + 1 - 1) = Word(a, 1) /\ Word(a, 1 + 2 - 1) = Word(a, 2)
    OBVIOUS
  <2>3. t[1] = Word(a, 1) /\ t[2] = Word(a, 2)
    BY <2>2
  <2>4. t \in [1 .. 2 -> S]
    BY <2>1, <2>2
  <2>5. QED
    BY <2>3, <2>4
<1> DEFINE f == <<Size(2)>>
<1>3. f \in Seq(S) /\ Len(f) = 1 /\ f[1] = Size(2)
  OBVIOUS
<1>4. Reply(a).words = f \o t
  BY <1>1 DEF Reply
<1> HIDE DEF S, t, f
<1>5. /\ Len(f \o t) = Len(f) + Len(t)
      /\ \A i \in 1 .. Len(f) + Len(t) : (f \o t)[i] = IF i <= Len(f) THEN f[i] ELSE t[i - Len(f)]
  BY <1>2, <1>3, ConcatProperties
<1>6. Len(f \o t) = 3 /\ (f \o t)[1] = Size(2) /\ (f \o t)[2] = Word(a, 1)
  <2>1. Len(f) + Len(t) = 3 /\ 1 \in 1 .. 3 /\ 2 \in 1 .. 3 /\ 1 <= Len(f) /\ ~(2 <= Len(f)) /\ 2 - Len(f) = 1
    BY <1>2, <1>3
  <2>2. QED
    BY <1>2, <1>3, <1>5, <2>1
<1>7. Word(a, 1).of = a
  BY WordFields
<1>8. a.n \in Nat /\ a \in Message
  BY DEF Answer, Message
<1>9. QED
  BY <1>4, <1>6, <1>7, <1>8 DEF Num

LEMMA ReplySent ==
    ASSUME NEW a, out[Daemon].msg = a, out[Daemon].size = 2, out[Daemon].pos = 0, Capacity > 2
    PROVE  Chunk(out[Daemon]) = 2 /\ Datagram(Daemon) = Reply(a)
<1>1. ~(Capacity - 1 < 2)
  BY CapacityAssumption
<1>2. Chunk(out[Daemon]) = 2
  BY <1>1, CapacityAssumption DEF Chunk, Least
<1>3. out[Daemon].pos + 1 = 1 /\ out[Daemon].pos + Chunk(out[Daemon]) = 2
  BY <1>2
<1>4. QED
  BY <1>2, <1>3 DEF Datagram, Reply

LEMMA ReplyTaken ==
    ASSUME NEW a \in Answer, NEW r, Capacity > 2,
           DOMAIN r = {"size", "pos", "data", "port", "done"}, r.pos = 0,
           NEW size \in SizesRead(Reply(a).words[1]), NEW s, s = PutFirst(r, Reply(a), size)
    PROVE  DOMAIN s = {"size", "pos", "data", "port", "done"} /\ s.pos = 0 /\ s.done /\ s.data[1].of = a
<1> DEFINE w == Reply(a).words
           b == [i \in 1 .. 2 |-> IF 2 + i - 1 <= Len(w) THEN w[2 + i - 1] ELSE Junk]
<1>1. Len(w) = 3 /\ w[1] = Size(2) /\ w[2] = Word(a, 1)
  BY ReplyIs
<1>2. size = 2
  BY <1>1, SizeFields DEF SizesRead
<1> HIDE DEF w
<1>3. b[1] = w[2]
  BY <1>1
<1>4. b[1].of = a
  BY <1>1, <1>3, WordFields
<1>5. Buffer(Reply(a), 2, 2 + 1) = b
  BY DEF Buffer, w
<1> HIDE DEF b
<1>6. 2 <= Capacity /\ 2 > 0
  BY CapacityAssumption
<1>7. s = [r EXCEPT !.size = 2, !.data = b, !.port = Reply(a).from, !.done = TRUE]
  BY <1>2, <1>5, <1>6 DEF PutFirst
<1>8. DOMAIN s = DOMAIN r /\ s.pos = 0 /\ s.data = b /\ s.done = TRUE
  BY <1>7
<1>9. QED
  BY <1>4, <1>8

\* What becomes of the answers to a client: they stay or go, the daemon's next one comes, the one
\* that waited longest is taken, or the daemon begins with another.
LEMMA RepliesStay ==
    ASSUME NEW c \in Client, RepliesInTurn(c), inbox'[c] = inbox[c],
           Given(c)' \subseteq Given(c), Leaving(c)' \subseteq Leaving(c)
    PROVE  RepliesInTurn(c)' /\ Answers(c)' \subseteq Answers(c)
<1>1. Waiting(c)' = Waiting(c)
  BY DEF Waiting
<1>2. QED
  BY <1>1 DEF RepliesInTurn, Answers

LEMMA ReplyComes ==
    ASSUME NEW c \in Client, RepliesInTurn(c), NEW a \in Answer, Capacity > 2, inbox[c] \in Seq(Replies),
           inbox'[c] = Append(inbox[c], Reply(a)), Given(c)' = Given(c), Leaving(c) = {a.n}, Leaving(c)' = {}
    PROVE  RepliesInTurn(c)' /\ Answers(c)' \subseteq Answers(c) /\ inbox'[c] \in Seq(Replies)
<1> DEFINE q == inbox[c]
           r == inbox'[c]
<1>1. Reply(a) \in Replies /\ Num(Reply(a)) = a.n
  BY ReplyIs DEF Replies
<1>2. /\ r \in Seq(Replies) /\ Len(r) = Len(q) + 1 /\ r[Len(q) + 1] = Reply(a)
      /\ \A i \in 1 .. Len(q) : r[i] = q[i]
  BY <1>1, AppendProperties
<1>3. Len(q) \in Nat
  BY LenProperties
<1>4. \A i \in 1 .. Len(q) : Num(q[i]) \in Waiting(c) /\ Num(q[i]) < a.n
  BY DEF Waiting, RepliesInTurn
<1>5. \A i, j \in 1 .. Len(q) : i < j => Num(q[i]) < Num(q[j])
  BY DEF RepliesInTurn
<1> HIDE DEF q, r
<1>6. ASSUME NEW i \in 1 .. Len(r)
      PROVE  i = Len(q) + 1 \/ i \in 1 .. Len(q)
  BY <1>2, <1>3
<1>7. ASSUME NEW i \in 1 .. Len(r), NEW j \in 1 .. Len(r), i < j
      PROVE  Num(r[i]) < Num(r[j])
  <2>1. i \in 1 .. Len(q)
    BY <1>2, <1>3, <1>7
  <2>2. CASE j \in 1 .. Len(q)
    BY <1>2, <1>5, <1>7, <2>1, <2>2
  <2>3. CASE j = Len(q) + 1
    BY <1>1, <1>2, <1>4, <2>1, <2>3
  <2>4. QED
    BY <1>6, <2>2, <2>3
<1>8. Waiting(c)' \subseteq Waiting(c) \cup {a.n}
  <2>1. SUFFICES ASSUME NEW i \in 1 .. Len(r) PROVE Num(r[i]) \in Waiting(c) \cup {a.n}
    BY DEF Waiting, r
  <2>2. QED
    BY <1>1, <1>2, <1>4, <1>6
<1>9. \A g \in Given(c)' : \A n \in Waiting(c)' \cup Leaving(c)' : g < n
  BY <1>8 DEF RepliesInTurn
<1>10. QED
  BY <1>2, <1>7, <1>8, <1>9 DEF RepliesInTurn, Answers, r

LEMMA ReplyIsTaken ==
    ASSUME NEW c \in Client, RepliesInTurn(c), Capacity > 2, inbox[c] \in Seq(Replies), inbox[c] # <<>>,
           inbox'[c] = Tail(inbox[c]), Given(c)' = {Num(Head(inbox[c]))}, Leaving(c)' = Leaving(c)
    PROVE  RepliesInTurn(c)' /\ Answers(c)' \subseteq Answers(c) /\ inbox'[c] \in Seq(Replies)
<1> DEFINE q == inbox[c]
           r == inbox'[c]
           g == Num(Head(q))
<1>1. r \in Seq(Replies) /\ Len(r) = Len(q) - 1 /\ \A i \in 1 .. Len(r) : r[i] = q[i + 1]
  BY HeadTailProperties
<1>2. Head(q) = q[1]
  OBVIOUS
<1>3. Len(q) \in Nat /\ Len(q) >= 1
  <2>1. Len(q) \in Nat \ {0}
    BY EmptySeq
  <2>2. QED
    BY <2>1
<1>4. \A i \in 1 .. Len(q) : Num(q[i]) \in Waiting(c)
  BY DEF Waiting
<1>5. \A i, j \in 1 .. Len(q) : i < j => Num(q[i]) < Num(q[j])
  BY DEF RepliesInTurn
<1> HIDE DEF q, r
<1>6. g = Num(q[1]) /\ g \in Waiting(c)
  BY <1>2, <1>3, <1>4
<1>7. ASSUME NEW i \in 1 .. Len(r)
      PROVE  i + 1 \in 1 .. Len(q) /\ 1 \in 1 .. Len(q) /\ 1 < i + 1 /\ Num(r[i]) = Num(q[i + 1])
  BY <1>1, <1>3
<1>8. \A i, j \in 1 .. Len(r) : i < j => Num(r[i]) < Num(r[j])
  <2>1. SUFFICES ASSUME NEW i \in 1 .. Len(r), NEW j \in 1 .. Len(r), i < j PROVE Num(r[i]) < Num(r[j])
    OBVIOUS
  <2>2. i + 1 < j + 1
    BY <1>1, <1>3, <2>1
  <2>3. QED
    BY <1>5, <1>7, <2>2
<1> HIDE DEF g
<1>9. ASSUME NEW n \in Waiting(c)'
      PROVE  n \in Waiting(c) /\ g < n
  <2>1. PICK i \in 1 .. Len(r) : n = Num(r[i])
    BY DEF Waiting, r
  <2>2. QED
    BY <1>4, <1>5, <1>6, <1>7, <2>1
<1>10. \A l \in Leaving(c)' : g < l /\ \A n \in Waiting(c)' : n < l
  BY <1>6, <1>9 DEF RepliesInTurn
<1>11. Given(c)' = {g}
  BY DEF g, q
<1>12. QED
  BY <1>1, <1>6, <1>8, <1>9, <1>10, <1>11 DEF RepliesInTurn, Answers, r

LEMMA ReplyBegins ==
    ASSUME NEW c \in Client, RepliesInTurn(c), inbox'[c] = inbox[c], Given(c)' = Given(c), Leaving(c) = {},
           NEW n, Leaving(c)' = {n}, \A a \in Answers(c) : a < n
    PROVE  RepliesInTurn(c)' /\ Answers(c)' \subseteq Answers(c) \cup {n}
<1>1. Waiting(c)' = Waiting(c)
  BY DEF Waiting
<1>2. QED
  BY <1>1 DEF RepliesInTurn, Answers

\* What becomes of the requests of a client: they stay or go, the next part of one comes, the part
\* that waited longest is taken, or the client begins with another.
LEMMA AsksStay ==
    ASSUME NEW c \in Client, AsksInTurn(c), inbox'[Daemon] = inbox[Daemon],
           HeldBy(c)' \subseteq HeldBy(c), Left(c)' \subseteq Left(c)
    PROVE  AsksInTurn(c)' /\ Wanted(c)' \subseteq Wanted(c)
<1>1. FromC(c)' = FromC(c)
  BY DEF FromC
<1>2. AsksInTurn(c)'
  BY <1>1 DEF AsksInTurn
<1>3. Wanted(c)' \subseteq Wanted(c)
  BY <1>1 DEF Wanted
<1>4. QED
  BY <1>2, <1>3

LEMMA AskBegins ==
    ASSUME NEW c \in Client, AsksInTurn(c), inbox'[Daemon] = inbox[Daemon], inbox[Daemon] \in Seq(Cuts),
           HeldBy(c)' = HeldBy(c), NEW x, Left(c)' \subseteq {x}, \A w \in Wanted(c) : w < x.msg.n
    PROVE  AsksInTurn(c)' /\ Wanted(c)' \subseteq Wanted(c) \cup {x.msg.n}
<1>1. FromC(c)' = FromC(c)
  BY DEF FromC
<1>2. \A h \in HeldBy(c) : h.msg.n \in Wanted(c)
  BY DEF Wanted
<1>3. \A i \in FromC(c) : At(inbox[Daemon][i]).msg.n \in Wanted(c) /\ Till(inbox[Daemon][i]).msg = At(inbox[Daemon][i]).msg
  BY DEF Wanted, Till, At
<1>4. AsksInTurn(c)'
  <2>1. \A h \in HeldBy(c) : Earlier(h, x)
    BY <1>2 DEF Earlier
  <2>2. \A i \in FromC(c) : Earlier(Till(inbox[Daemon][i]), x)
    BY <1>3 DEF Earlier
  <2>3. \A i, j \in FromC(c)' : i < j => Earlier(Till(inbox'[Daemon][i]), At(inbox'[Daemon][j]))
    BY <1>1 DEF AsksInTurn
  <2>4. \A h \in HeldBy(c)' : \A i \in FromC(c)' : Earlier(h, At(inbox'[Daemon][i]))
    BY <1>1 DEF AsksInTurn
  <2>5. QED
    BY <1>1, <2>1, <2>2, <2>3, <2>4 DEF AsksInTurn
<1>5. Wanted(c)' \subseteq Wanted(c) \cup {x.msg.n}
  BY <1>1 DEF Wanted
<1>6. QED
  BY <1>4, <1>5

LEMMA PartComes ==
    ASSUME NEW c \in Client, AsksInTurn(c), inbox[Daemon] \in Seq(Cuts), NEW x \in Place, HeldBy(c)' = HeldBy(c),
           \A h \in HeldBy(c) : h.pos \in Nat, inbox'[Daemon] = Append(inbox[Daemon], Cut(x)),
           IF x.msg.by = c THEN Left(c) = {x} /\ Left(c)' \subseteq {[msg |-> x.msg, pos |-> x.pos + Step(x)]}
                           ELSE Left(c)' \subseteq Left(c)
    PROVE  AsksInTurn(c)' /\ Wanted(c)' \subseteq Wanted(c)
<1> DEFINE q == inbox[Daemon]
           r == inbox'[Daemon]
           d == Cut(x)
           y == [msg |-> x.msg, pos |-> x.pos + Step(x)]
<1>1. At(d) = x /\ Till(d) = y /\ d.from = x.msg.by /\ d \in Cuts
  BY AtTill DEF Cuts
<1>2. r \in Seq(Cuts) /\ Len(r) = Len(q) + 1 /\ r[Len(q) + 1] = d /\ \A i \in 1 .. Len(q) : r[i] = q[i]
  BY <1>1, AppendProperties
<1>3. Len(q) \in Nat
  BY LenProperties
<1>4. x.pos \in Nat /\ y.pos \in Nat /\ x.pos <= y.pos /\ y.msg = x.msg /\ Earlier(x, y) /\ Earlier(y, y)
  BY StepFits DEF Earlier
<1>5. ASSUME NEW i \in 1 .. Len(q)
      PROVE  Till(q[i]).pos \in Nat
  <2>1. q[i] \in Cuts
    BY <1>5, ElementOfSeq
  <2>2. PICK z \in Place : q[i] = Cut(z)
    BY <2>1 DEF Cuts
  <2>3. z.pos + Step(z) \in Nat
    BY StepFits
  <2>4. QED
    BY <2>2, <2>3, AtTill
<1> HIDE DEF d, y
<1>6. FromC(c)' = FromC(c) \cup (IF x.msg.by = c THEN {Len(q) + 1} ELSE {})
  <2>1. FromC(c)' = {i \in 1 .. Len(r) : r[i].from = c} /\ FromC(c) = {i \in 1 .. Len(q) : q[i].from = c}
    BY DEF FromC
  <2> HIDE DEF q, r
  <2>2. \A i \in 1 .. Len(r) : i = Len(q) + 1 \/ i \in 1 .. Len(q)
    BY <1>2, <1>3
  <2>3. Len(q) + 1 \in 1 .. Len(r) /\ \A i \in 1 .. Len(q) : i \in 1 .. Len(r)
    BY <1>2, <1>3
  <2>4. QED
    BY <1>1, <1>2, <2>1, <2>2, <2>3
<1>7. \A i \in FromC(c) : i \in 1 .. Len(q) /\ r[i] = q[i] /\ i < Len(q) + 1 /\ ~(Len(q) + 1 < i) /\ i # Len(q) + 1
  BY <1>2, <1>3 DEF FromC
<1>8. CASE x.msg.by # c
  <2>1. FromC(c)' = FromC(c) /\ \A i \in FromC(c) : r[i] = q[i]
    BY <1>6, <1>7, <1>8
  <2>2. AsksInTurn(c)'
    BY <1>8, <2>1 DEF AsksInTurn
  <2>3. Wanted(c)' \subseteq Wanted(c)
    BY <1>8, <2>1 DEF Wanted
  <2>4. QED
    BY <2>2, <2>3
<1>9. CASE x.msg.by = c
  <2>1. FromC(c)' = FromC(c) \cup {Len(q) + 1} /\ Left(c) = {x} /\ Left(c)' \subseteq {y} /\ HeldBy(c)' = HeldBy(c)
    BY <1>6, <1>9 DEF y
  <2> DEFINE e == Len(q) + 1
  <2>2. r[e] = d /\ e \notin FromC(c) /\ \A i \in FromC(c) : ~(e < i) /\ i < e
    BY <1>2, <1>7
  <2>3. ~(e < e)
    BY <1>3
  <2> HIDE DEF q, r, e
  <2>4. \A i \in FromC(c) : Earlier(Till(q[i]), x) /\ Earlier(Till(q[i]), y)
    <3>1. SUFFICES ASSUME NEW i \in FromC(c) PROVE Earlier(Till(q[i]), x) /\ Earlier(Till(q[i]), y)
      OBVIOUS
    <3>2. Earlier(Till(q[i]), x)
      BY <2>1 DEF AsksInTurn, q
    <3>3. Till(q[i]).pos \in Nat
      BY <1>5, <1>7
    <3>4. QED
      BY <1>4, <3>2, <3>3, EarlierGoesOn
  <2>5. \A h \in HeldBy(c) : Earlier(h, x) /\ Earlier(h, y)
    <3>1. SUFFICES ASSUME NEW h \in HeldBy(c) PROVE Earlier(h, x) /\ Earlier(h, y)
      OBVIOUS
    <3>2. Earlier(h, x)
      BY <2>1 DEF AsksInTurn
    <3>3. QED
      BY <1>4, <3>2, EarlierGoesOn
  <2>6. \A i, j \in FromC(c)' : i < j => Earlier(Till(r[i]), At(r[j]))
    <3>1. SUFFICES ASSUME NEW i \in FromC(c)', NEW j \in FromC(c)', i < j PROVE Earlier(Till(r[i]), At(r[j]))
      OBVIOUS
    <3>2. i \in FromC(c)
      BY <2>1, <2>2, <2>3, <3>1 DEF e
    <3>3. CASE j \in FromC(c)
      BY <1>7, <3>1, <3>2, <3>3 DEF AsksInTurn, q
    <3>4. CASE j = e
      BY <1>1, <1>7, <2>2, <2>4, <3>2, <3>4
    <3>5. QED
      BY <2>1, <3>3, <3>4 DEF e
  <2>7. \A h \in HeldBy(c)' : \A i \in FromC(c)' : Earlier(h, At(r[i]))
    <3>1. SUFFICES ASSUME NEW h \in HeldBy(c), NEW i \in FromC(c)' PROVE Earlier(h, At(r[i]))
      BY <2>1
    <3>2. CASE i \in FromC(c)
      BY <1>7, <3>2 DEF AsksInTurn, q
    <3>3. CASE i = e
      BY <1>1, <2>2, <2>5, <3>3
    <3>4. QED
      BY <2>1, <3>2, <3>3 DEF e
  <2>8. \A l \in Left(c)' : \A i \in FromC(c)' : Earlier(Till(r[i]), l)
    <3>1. SUFFICES ASSUME NEW i \in FromC(c)' PROVE Earlier(Till(r[i]), y)
      BY <2>1
    <3>2. CASE i \in FromC(c)
      BY <1>7, <2>4, <3>2
    <3>3. CASE i = e
      BY <1>1, <1>4, <2>2, <3>3
    <3>4. QED
      BY <2>1, <3>2, <3>3 DEF e
  <2>9. \A l \in Left(c)' : \A h \in HeldBy(c)' : Earlier(h, l)
    BY <2>1, <2>5
  <2>10. AsksInTurn(c)'
    BY <2>6, <2>7, <2>8, <2>9 DEF AsksInTurn, r
  <2>11. Wanted(c)' \subseteq Wanted(c)
    <3>1. \A i \in FromC(c)' : At(r[i]) = x \/ (i \in FromC(c) /\ At(r[i]) = At(q[i]))
      BY <1>1, <1>7, <2>1, <2>2 DEF e
    <3>2. ASSUME NEW z \in HeldBy(c)' \cup {At(r[i]) : i \in FromC(c)'} \cup Left(c)'
          PROVE  z.msg.n \in Wanted(c)
      <4>1. x.msg.n \in Wanted(c)
        BY <2>1 DEF Wanted
      <4>2. CASE z \in HeldBy(c)'
        BY <2>1, <4>2 DEF Wanted
      <4>3. CASE z \in Left(c)'
        BY <1>4, <2>1, <4>1, <4>3
      <4>4. CASE \E i \in FromC(c)' : z = At(r[i])
        BY <3>1, <4>1, <4>4 DEF Wanted, q
      <4>5. QED
        BY <3>2, <4>2, <4>3, <4>4
    <3>3. QED
      BY <3>2 DEF Wanted, r
  <2>12. QED
    BY <2>10, <2>11
<1>10. QED
  BY <1>8, <1>9

LEMMA PartIsTaken ==
    ASSUME NEW c \in Client, AsksInTurn(c), inbox[Daemon] \in Seq(Cuts), inbox[Daemon] # <<>>,
           NEW x \in Place, Head(inbox[Daemon]) = Cut(x), inbox'[Daemon] = Tail(inbox[Daemon]), Left(c)' = Left(c),
           HeldBy(c)' = IF x.msg.by = c THEN {[msg |-> x.msg, pos |-> x.pos + Step(x)]} ELSE {}
    PROVE  AsksInTurn(c)' /\ Wanted(c)' \subseteq Wanted(c)
<1> DEFINE q == inbox[Daemon]
           r == inbox'[Daemon]
           y == [msg |-> x.msg, pos |-> x.pos + Step(x)]
<1>1. r \in Seq(Cuts) /\ Len(r) = Len(q) - 1 /\ \A i \in 1 .. Len(r) : r[i] = q[i + 1]
  BY HeadTailProperties
<1>2. q[1] = Cut(x)
  OBVIOUS
<1>3. Len(q) \in Nat /\ Len(q) >= 1
  <2>1. Len(q) \in Nat \ {0}
    BY EmptySeq
  <2>2. QED
    BY <2>1
<1>4. At(q[1]) = x /\ Till(q[1]) = y /\ q[1].from = x.msg.by
  BY <1>2, AtTill
<1>5. FromC(c)' = {i \in 1 .. Len(r) : r[i].from = c} /\ FromC(c) = {i \in 1 .. Len(q) : q[i].from = c}
  BY DEF FromC
<1> HIDE DEF q, r, y
<1>6. ASSUME NEW i \in FromC(c)'
      PROVE  i + 1 \in FromC(c) /\ r[i] = q[i + 1] /\ i \in Nat /\ 1 < i + 1
  <2>1. i \in 1 .. Len(r) /\ r[i].from = c
    BY <1>5
  <2>2. r[i] = q[i + 1] /\ i + 1 \in 1 .. Len(q) /\ i \in Nat /\ 1 < i + 1
    BY <1>1, <1>3, <2>1
  <2>3. QED
    BY <1>5, <2>1, <2>2
<1>7. x.msg.by = c => 1 \in FromC(c)
  BY <1>3, <1>4, <1>5
<1>8. \A h \in HeldBy(c)' : h = y /\ x.msg.by = c
  BY DEF y
<1>9. \A i, j \in FromC(c) : i < j => Earlier(Till(q[i]), At(q[j]))
  BY DEF AsksInTurn, q
<1>10. \A i, j \in FromC(c)' : i < j => Earlier(Till(r[i]), At(r[j]))
  <2>1. SUFFICES ASSUME NEW i \in FromC(c)', NEW j \in FromC(c)', i < j PROVE Earlier(Till(r[i]), At(r[j]))
    OBVIOUS
  <2>2. i + 1 < j + 1
    BY <1>6, <2>1
  <2>3. QED
    BY <1>6, <1>9, <2>2
<1>11. \A h \in HeldBy(c)' : \A i \in FromC(c)' : Earlier(h, At(r[i]))
  BY <1>4, <1>6, <1>7, <1>8, <1>9
<1>12. \A l \in Left(c)' : \A i \in FromC(c)' : Earlier(Till(r[i]), l)
  <2>1. \A l \in Left(c) : \A i \in FromC(c) : Earlier(Till(q[i]), l)
    BY DEF AsksInTurn, q
  <2>2. QED
    BY <1>6, <2>1
<1>13. \A l \in Left(c)' : \A h \in HeldBy(c)' : Earlier(h, l)
  <2>1. \A l \in Left(c) : \A i \in FromC(c) : Earlier(Till(q[i]), l)
    BY DEF AsksInTurn, q
  <2>2. QED
    BY <1>4, <1>7, <1>8, <2>1
<1>14. AsksInTurn(c)'
  BY <1>10, <1>11, <1>12, <1>13 DEF AsksInTurn, r
<1>15. Wanted(c)' \subseteq Wanted(c)
  <2>1. ASSUME NEW z \in HeldBy(c)' \cup {At(r[i]) : i \in FromC(c)'} \cup Left(c)'
        PROVE  z.msg.n \in Wanted(c)
    <3>1. CASE z \in HeldBy(c)'
      <4>1. z.msg = At(q[1]).msg /\ 1 \in FromC(c)
        BY <1>4, <1>7, <1>8, <3>1 DEF y
      <4>2. QED
        BY <4>1 DEF Wanted, q
    <3>2. CASE z \in Left(c)'
      BY <3>2 DEF Wanted
    <3>3. CASE \E i \in FromC(c)' : z = At(r[i])
      <4>1. PICK i \in FromC(c)' : z = At(r[i])
        BY <3>3
      <4>2. z = At(q[i + 1]) /\ i + 1 \in FromC(c)
        BY <1>6, <4>1
      <4>3. QED
        BY <4>2 DEF Wanted, q
    <3>4. QED
      BY <2>1, <3>1, <3>2, <3>3
  <2>2. QED
    BY <2>1 DEF Wanted, r
<1>16. QED
  BY <1>14, <1>15

\* The numbers, and how they follow each other when the state of a client changes.
LEMMA NumbersAre ==
    ASSUME SendersOK, QueueOK, RepliesOK, Capacity > 2, NEW c \in Client
    PROVE  /\ Answers(c) \subseteq Nat /\ Wanted(c) \subseteq Nat /\ Answered(c) \in Int
           /\ calls[c] \in Nat /\ Answered(c) <= calls[c]
           /\ \A h \in HeldBy(c) : h.pos \in Nat /\ h.msg \in Request
           /\ \A i \in FromC(c) : At(inbox[Daemon][i]) \in Place
           /\ Left(c) \subseteq Place
<1>1. calls[c] \in Nat /\ late[c] \in Nat
  BY DEF SendersOK, RepliesOK
<1>2. Answered(c) \in Int /\ Answered(c) <= calls[c]
  BY <1>1 DEF Answered
<1>3. Answers(c) \subseteq Nat
  <2>1. Given(c) \subseteq Nat
    BY DEF Given, RepliesOK, Answer, Message
  <2>2. Leaving(c) \subseteq Nat
    BY DEF Leaving, RepliesOK, Answer, Message
  <2>3. ASSUME NEW i \in 1 .. Len(inbox[c])
        PROVE  Num(inbox[c][i]) \in Nat
    <3>1. inbox[c][i] \in Replies
      BY <2>3, ElementOfSeq DEF RepliesOK
    <3>2. PICK a \in Answer : inbox[c][i] = Reply(a)
      BY <3>1 DEF Replies
    <3>3. QED
      BY <3>2, ReplyIs
  <2>4. Waiting(c) \subseteq Nat
    BY <2>3 DEF Waiting
  <2>5. QED
    BY <2>1, <2>2, <2>4 DEF Answers
<1>4. \A h \in HeldBy(c) : h.pos \in Nat /\ h.msg \in Request
  <2>1. SUFFICES ASSUME Holding(in[Daemon]) PROVE Held(in[Daemon]).pos \in Nat /\ Held(in[Daemon]).msg \in Request
    BY DEF HeldBy
  <2>2. in[Daemon].data[1].of \in Request /\ in[Daemon].pos \in Nat
    BY <2>1 DEF Holding, QueueOK, Receiving, AReceiver
  <2>3. in[Daemon].data[1].of.size \in Nat
    BY <2>2 DEF Request
  <2>4. QED
    BY <2>2, <2>3 DEF Held
<1>5. \A i \in FromC(c) : At(inbox[Daemon][i]) \in Place
  <2>1. SUFFICES ASSUME NEW i \in 1 .. Len(inbox[Daemon]) PROVE At(inbox[Daemon][i]) \in Place
    BY DEF FromC
  <2>2. inbox[Daemon][i] \in Cuts
    BY <2>1, ElementOfSeq DEF QueueOK
  <2>3. QED
    BY <2>2, AtTill DEF Cuts
<1>6. Left(c) \subseteq Place
  BY DEF Left, SendersOK
<1>7. Wanted(c) \subseteq Nat
  <2>1. \A m \in Request : m.n \in Nat
    BY DEF Request
  <2>2. \A x \in Place : x.msg.n \in Nat
    BY <2>1 DEF Place
  <2>3. QED
    BY <1>4, <1>5, <1>6, <2>1, <2>2 DEF Wanted
<1>8. QED
  BY <1>1, <1>2, <1>3, <1>4, <1>5, <1>6, <1>7

Turn(c) == RepliesInTurn(c) /\ AsksInTurn(c) /\ Lags(c)

LEMMA LagsStay ==
    ASSUME NEW c \in Client, Lags(c), Answers(c)' \subseteq Answers(c), Wanted(c)' \subseteq Wanted(c),
           Answered(c)' = Answered(c), calls'[c] = calls[c]
    PROVE  Lags(c)'
  BY DEF Lags

LEMMA LagsWhenAsking ==
    ASSUME NEW c \in Client, Lags(c), Answers(c) \subseteq Nat, Wanted(c) \subseteq Nat, calls[c] \in Nat,
           Answered(c) \in Int, Answered(c) <= calls[c],
           Answers(c)' \subseteq Answers(c), Wanted(c)' \subseteq Wanted(c) \cup {calls[c] + 1},
           Answered(c)' = Answered(c), calls'[c] = calls[c] + 1
    PROVE  Lags(c)'
<1>1. \A a \in Answers(c) : Answered(c) < a /\ a <= calls[c] + 1 /\ a < calls[c] + 1 /\ \A w \in Wanted(c) : a < w
  BY DEF Lags
<1>2. \A w \in Wanted(c) : Answered(c) < w /\ w <= calls[c] + 1
  BY DEF Lags
<1>3. Answered(c) < calls[c] + 1 /\ calls[c] + 1 <= calls[c] + 1
  OBVIOUS
<1>4. QED
  BY <1>1, <1>2, <1>3 DEF Lags

LEMMA LagsWhenAnswering ==
    ASSUME NEW c \in Client, Lags(c), NEW n \in Wanted(c),
           Answers(c)' \subseteq Answers(c) \cup {n}, Wanted(c)' \subseteq Wanted(c), \A w \in Wanted(c)' : n < w,
           Answered(c)' = Answered(c), calls'[c] = calls[c]
    PROVE  Lags(c)'
  BY DEF Lags

LEMMA LagsWhenTaken ==
    ASSUME NEW c \in Client, Lags(c), Answers(c) \subseteq Nat, Wanted(c) \subseteq Nat, Answered(c) \in Int,
           NEW g \in Answers(c), Answers(c)' \subseteq Answers(c), \A a \in Answers(c)' : g < a,
           Wanted(c)' \subseteq Wanted(c), Answered(c)' = Answered(c) + 1, calls'[c] = calls[c]
    PROVE  Lags(c)'
<1>1. g \in Nat /\ Answered(c) + 1 <= g
  BY DEF Lags
<1>2. \A a \in Answers(c)' : Answered(c) + 1 < a /\ a <= calls[c] /\ \A w \in Wanted(c)' : a < w
  <2>1. SUFFICES ASSUME NEW a \in Answers(c)' PROVE Answered(c) + 1 < a /\ a <= calls[c] /\ \A w \in Wanted(c)' : a < w
    OBVIOUS
  <2>2. a \in Nat /\ g < a
    BY <2>1
  <2>3. Answered(c) + 1 < a
    BY <1>1, <2>2
  <2>4. QED
    BY <2>3 DEF Lags
<1>3. \A w \in Wanted(c)' : Answered(c) + 1 < w /\ w <= calls[c]
  <2>1. SUFFICES ASSUME NEW w \in Wanted(c)' PROVE Answered(c) + 1 < w /\ w <= calls[c]
    OBVIOUS
  <2>2. w \in Nat /\ g < w /\ w <= calls[c]
    BY <2>1 DEF Lags
  <2>3. QED
    BY <1>1, <2>2
<1>4. QED
  BY <1>2, <1>3 DEF Lags

LEMMA TurnStays ==
    ASSUME NEW c \in Client, Turn(c), inbox'[c] = inbox[c], inbox'[Daemon] = inbox[Daemon],
           Given(c)' \subseteq Given(c), Leaving(c)' \subseteq Leaving(c), HeldBy(c)' \subseteq HeldBy(c),
           Left(c)' \subseteq Left(c), Answered(c)' = Answered(c), calls'[c] = calls[c]
    PROVE  Turn(c)'
<1>1. RepliesInTurn(c)' /\ Answers(c)' \subseteq Answers(c)
  BY RepliesStay DEF Turn
<1>2. AsksInTurn(c)' /\ Wanted(c)' \subseteq Wanted(c)
  BY AsksStay DEF Turn
<1>3. QED
  BY <1>1, <1>2, LagsStay DEF Turn

\* What these are made of.
LEMMA SameParts ==
    ASSUME NEW c \in Client
    PROVE  /\ in'[c] = in[c] => Given(c)' = Given(c)
           /\ in'[Daemon] = in[Daemon] => HeldBy(c)' = HeldBy(c)
           /\ out'[Daemon] = out[Daemon] => Leaving(c)' = Leaving(c)
           /\ out'[c] = out[c] => Left(c)' = Left(c)
           /\ calls'[c] = calls[c] /\ late'[c] = late[c] /\ call'[c] = call[c] => Answered(c)' = Answered(c)
<1>1. in'[Daemon] = in[Daemon] => HeldBy(c)' = HeldBy(c)
  BY DEF HeldBy, Holding, Held
<1>2. out'[c] = out[c] => Left(c)' = Left(c)
  BY DEF Left, Sent, Rest
<1>3. out'[Daemon] = out[Daemon] => Leaving(c)' = Leaving(c)
  BY DEF Leaving, Sent
<1>4. QED
  BY <1>1, <1>2, <1>3 DEF Given, Answered

\* A client begins with a request.
LEMMA AsksTurn ==
    ASSUME Capacity > 2, CallsOK, SendersOK, QueueOK, RepliesOK, \A d \in Client : Turn(d),
           NEW c \in Client, NEW what, Asks(c, what)
    PROVE  RepliesOK' /\ \A d \in Client : Turn(d)'
<1> DEFINE m == [by |-> c, n |-> calls[c] + 1, what |-> what, size |-> SizeOf[what]]
           s == [to |-> Daemon, msg |-> m, size |-> Short(m.size), pos |-> 0]
           new == [at |-> "send", what |-> what]
<1>1. /\ call[c] = Idle /\ calls' = [calls EXCEPT ![c] = @ + 1] /\ UNCHANGED <<inbox, in, late>>
      /\ call' = [call EXCEPT ![c] = new] /\ out' = [out EXCEPT ![c] = s]
  BY DEF Asks, Sends
<1>2. new.at = "send" /\ s.msg = m /\ m.n = calls[c] + 1
  OBVIOUS
<1> HIDE DEF m, s, new
<1>3. out'[c] = s /\ \A p \in Port \ {c} : out'[p] = out[p]
  BY <1>1, PortsAre DEF SendersOK
<1>4. /\ calls'[c] = calls[c] + 1 /\ calls[c] \in Nat /\ late[c] \in Nat
      /\ \A d \in Client \ {c} : calls'[d] = calls[d]
  BY <1>1 DEF SendersOK, RepliesOK
<1>5. call'[c].at = "send" /\ call[c].at = "no" /\ \A d \in Client \ {c} : call'[d] = call[d]
  BY <1>1, <1>2 DEF CallsOK, Idle
<1>6. Sent(c) /\ ~in[c].done
  BY <1>5 DEF SendersOK, RepliesOK
<1>7. \A d \in Client : Given(d)' = Given(d) /\ HeldBy(d)' = HeldBy(d) /\ Leaving(d)' = Leaving(d)
  BY <1>1, <1>3, SameParts, PortsAre
<1>8. RepliesOK'
  <2>1. ~Sent(Daemon)' => out'[Daemon].msg \in Answer /\ out'[Daemon].size = 2 /\ out'[Daemon].pos = 0
    BY <1>3, PortsAre DEF RepliesOK, Sent
  <2>2. ASSUME NEW d \in Client
        PROVE  (in'[d].done => in'[d].data[1].of \in Answer /\ call'[d].at = "recv") /\ (~Sent(d)' => out'[d].msg.n = calls'[d])
    <3>1. CASE d = c
      BY <1>1, <1>2, <1>3, <1>4, <1>6, <3>1
    <3>2. CASE d # c
      <4>1. out'[d] = out[d]
        BY <1>3, <3>2, PortsAre
      <4>2. QED
        BY <1>1, <1>4, <1>5, <3>2, <4>1 DEF RepliesOK, Sent
    <3>3. QED
      BY <3>1, <3>2
  <2>3. QED
    BY <1>1, <2>1, <2>2 DEF RepliesOK
<1>9. ASSUME NEW d \in Client \ {c}
      PROVE  Turn(d)'
  <2>1. Left(d)' = Left(d) /\ Answered(d)' = Answered(d) /\ calls'[d] = calls[d]
    BY <1>1, <1>3, <1>4, <1>5, SameParts, PortsAre
  <2>2. QED
    BY <1>1, <1>7, <2>1, TurnStays
<1>10. Turn(c)'
  <2>1. /\ Answers(c) \subseteq Nat /\ Wanted(c) \subseteq Nat /\ Answered(c) \in Int
        /\ calls[c] \in Nat /\ Answered(c) <= calls[c]
    BY NumbersAre
  <2>2. Answered(c)' = Answered(c)
    BY <1>1, <1>4, <1>5 DEF Answered
  <2>3. RepliesInTurn(c)' /\ Answers(c)' \subseteq Answers(c)
    BY <1>1, <1>7, RepliesStay DEF Turn
  <2> DEFINE x == Rest(c)'
  <2>4. x.msg.n = calls[c] + 1
    BY <1>2, <1>3 DEF Rest
  <2>5. Left(c)' \subseteq {x}
    BY DEF Left
  <2>6. \A w \in Wanted(c) : w < calls[c] + 1
    BY <2>1 DEF Turn, Lags
  <2>7. inbox[Daemon] \in Seq(Cuts) /\ inbox'[Daemon] = inbox[Daemon]
    BY <1>1 DEF QueueOK
  <2> HIDE DEF x
  <2>8. AsksInTurn(c)' /\ Wanted(c)' \subseteq Wanted(c) \cup {calls[c] + 1}
    BY <1>7, <2>4, <2>5, <2>6, <2>7, AskBegins DEF Turn
  <2>9. Lags(c)'
    BY <1>4, <2>1, <2>2, <2>3, <2>8, LagsWhenAsking DEF Turn
  <2>10. QED
    BY <2>3, <2>8, <2>9 DEF Turn
<1>11. QED
  BY <1>8, <1>9, <1>10

\* A client sends a chunk.
LEMMA SendsTurn ==
    ASSUME Capacity > 2, SendersOK, QueueOK, RepliesOK, \A d \in Client : Turn(d),
           NEW c \in Client, ClientSends(c), ~lost'
    PROVE  RepliesOK' /\ \A d \in Client : Turn(d)'
<1> DEFINE x == Rest(c)
<1>1. /\ ~Sent(c) /\ out' = [out EXCEPT ![c].pos = @ + Chunk(out[c])] /\ UNCHANGED <<call, calls, late, in>>
      /\ \/ inbox' = [inbox EXCEPT ![out[c].to] = Append(@, Datagram(c))]
         \/ UNCHANGED inbox /\ lost' = (lost \/ SeveralDatagrams(out[c].msg.size))
  BY DEF ClientSends, SendChunk, SendChunkToNobody, callVars
<1>2. out[c].to = Daemon /\ x.msg.by = c
  BY <1>1 DEF SendersOK, Rest
<1>3. /\ \A p \in Port \ {c} : out'[p] = out[p]
      /\ x \in Place /\ Datagram(c) = Cut(x)
      /\ Rest(c)' = [msg |-> x.msg, pos |-> x.pos + Step(x)]
  BY <1>1, ChunkGoes
<1>4. /\ \A d \in Client : inbox'[d] = inbox[d]
      /\ inbox'[Daemon] = Append(inbox[Daemon], Cut(x)) \/ inbox'[Daemon] = inbox[Daemon]
  BY <1>1, <1>2, <1>3, PortsAre DEF QueueOK
<1>5. \A d \in Client : /\ Given(d)' = Given(d) /\ HeldBy(d)' = HeldBy(d) /\ Leaving(d)' = Leaving(d)
                        /\ Answered(d)' = Answered(d) /\ calls'[d] = calls[d]
  BY <1>1, <1>3, SameParts, PortsAre
<1>6. \A d \in Client \ {c} : Left(d)' = Left(d)
  BY <1>3, SameParts, PortsAre
<1>7. Left(c) = {x} /\ Left(c)' \subseteq {[msg |-> x.msg, pos |-> x.pos + Step(x)]}
  BY <1>1, <1>3 DEF Left
<1>8. RepliesOK'
  <2>1. ~Sent(Daemon)' => out'[Daemon].msg \in Answer /\ out'[Daemon].size = 2 /\ out'[Daemon].pos = 0
    BY <1>3, PortsAre DEF RepliesOK, Sent
  <2>2. ASSUME NEW d \in Client, ~Sent(d)'
        PROVE  out'[d].msg.n = calls'[d]
    <3>1. CASE d = c
      <4>1. out'[c].msg = out[c].msg
        BY <1>3 DEF Rest
      <4>2. QED
        BY <1>1, <3>1, <4>1 DEF RepliesOK
    <3>2. CASE d # c
      <4>1. out'[d] = out[d]
        BY <1>3, <3>2, PortsAre
      <4>2. QED
        BY <1>1, <2>2, <4>1 DEF RepliesOK, Sent
    <3>3. QED
      BY <3>1, <3>2
  <2>3. QED
    BY <1>1, <1>4, <2>1, <2>2 DEF RepliesOK
<1>9. ASSUME NEW d \in Client
      PROVE  Turn(d)'
  <2>1. RepliesInTurn(d)' /\ Answers(d)' \subseteq Answers(d)
    BY <1>4, <1>5, RepliesStay DEF Turn
  <2>2. CASE inbox'[Daemon] = Append(inbox[Daemon], Cut(x))
    <3>1. inbox[Daemon] \in Seq(Cuts) /\ \A h \in HeldBy(d) : h.pos \in Nat
      BY NumbersAre DEF QueueOK
    <3>2. IF x.msg.by = d THEN Left(d) = {x} /\ Left(d)' \subseteq {[msg |-> x.msg, pos |-> x.pos + Step(x)]}
                          ELSE Left(d)' \subseteq Left(d)
      BY <1>2, <1>6, <1>7
    <3> HIDE DEF x
    <3>3. AsksInTurn(d)' /\ Wanted(d)' \subseteq Wanted(d)
      BY <1>3, <1>5, <2>2, <3>1, <3>2, PartComes DEF Turn
    <3>4. QED
      BY <1>5, <2>1, <3>3, LagsStay DEF Turn
  <2>3. CASE inbox'[Daemon] = inbox[Daemon] /\ inbox' # [inbox EXCEPT ![Daemon] = Append(@, Datagram(c))]
    <3>1. ~SeveralDatagrams(out[c].msg.size)
      BY <1>1, <1>2, <2>3
    <3>2. ~(Mid(c))'
      BY <1>1, <3>1, ChunkGoes
    <3>3. Rest(c)'.pos > 0
      BY <1>3, StepFits
    <3>4. Sent(c)'
      BY <3>2, <3>3 DEF Mid, Rest
    <3>5. Left(d)' \subseteq Left(d)
      BY <1>6, <3>4 DEF Left
    <3>6. QED
      BY <1>4, <1>5, <2>3, <3>5, TurnStays
  <2>4. QED
    BY <1>1, <1>2, <1>3, <1>4, <2>2, <2>3, PortsAre DEF QueueOK
<1>10. QED
  BY <1>8, <1>9

\* What a client does besides.
LEMMA WaitsTurn ==
    ASSUME Capacity > 2, CallsOK, SendersOK, QueueOK, RepliesOK, \A d \in Client : Turn(d),
           NEW c \in Client, Waits(c)
    PROVE  RepliesOK' /\ \A d \in Client : Turn(d)'
<1>1. /\ call[c].at = "send" /\ UNCHANGED <<inbox, out, calls>>
      /\ \/ Goes(c, "recv") /\ in' = [in EXCEPT ![c] = Reset] /\ UNCHANGED late
         \/ Returns(c) /\ late' = [late EXCEPT ![c] = @ + 1] /\ UNCHANGED in
  BY DEF Waits
<1>2. \A d \in Client \ {c} : call'[d] = call[d] /\ late'[d] = late[d] /\ in'[d] = in[d]
  BY <1>1, GoesOn, CallsSet, IdleIsACall, PortsAre DEF Returns, RepliesOK, QueueOK
<1>3. in'[Daemon] = in[Daemon] /\ late' \in [Client -> Nat]
  BY <1>1, PortsAre DEF RepliesOK, QueueOK
<1>4. Answered(c)' = Answered(c)
  <2>1. calls[c] \in Nat /\ late[c] \in Nat
    BY DEF SendersOK, RepliesOK
  <2>2. CASE Goes(c, "recv") /\ UNCHANGED late
    <3>1. call'[c].at = "recv"
      BY <2>2, GoesOn
    <3>2. QED
      BY <1>1, <2>2, <3>1 DEF Answered
  <2>3. CASE Returns(c) /\ late' = [late EXCEPT ![c] = @ + 1]
    <3>1. call'[c] = Idle
      BY <2>3, CallsSet, IdleIsACall DEF Returns
    <3>2. call'[c].at = "no"
      BY <3>1 DEF Idle
    <3>3. late'[c] = late[c] + 1
      BY <2>3 DEF RepliesOK
    <3>4. QED
      BY <1>1, <2>1, <3>2, <3>3 DEF Answered
  <2>4. QED
    BY <1>1, <2>2, <2>3
<1>5. ~in[c].done
  BY <1>1 DEF RepliesOK
<1>6. DOMAIN in'[c] = {"size", "pos", "data", "port", "done"} /\ in'[c].pos = 0 /\ ~in'[c].done
  <2>1. CASE in' = [in EXCEPT ![c] = Reset]
    <3>1. in'[c] = Reset
      BY <2>1, PortsAre DEF QueueOK
    <3>2. QED
      BY <3>1 DEF Reset
  <2>2. CASE UNCHANGED in
    BY <1>5, <2>2 DEF RepliesOK
  <2>3. QED
    BY <1>1, <2>1, <2>2
<1>7. RepliesOK'
  <2>1. ASSUME NEW d \in Client
        PROVE  /\ DOMAIN in'[d] = {"size", "pos", "data", "port", "done"} /\ in'[d].pos = 0
               /\ in'[d].done => in'[d].data[1].of \in Answer /\ call'[d].at = "recv"
    BY <1>2, <1>6 DEF RepliesOK
  <2>2. QED
    BY <1>1, <1>3, <2>1 DEF RepliesOK, Sent
<1>8. ASSUME NEW d \in Client
      PROVE  Turn(d)'
  <2>1. Given(d)' \subseteq Given(d)
    BY <1>2, <1>6, SameParts DEF Given
  <2>2. HeldBy(d)' = HeldBy(d) /\ Leaving(d)' = Leaving(d) /\ Left(d)' = Left(d)
    BY <1>1, <1>3, SameParts
  <2>3. Answered(d)' = Answered(d)
    BY <1>1, <1>2, <1>4, SameParts
  <2>4. QED
    BY <1>1, <2>1, <2>2, <2>3, TurnStays
<1>9. QED
  BY <1>7, <1>8

LEMMA ReceivesTurn ==
    ASSUME Capacity > 2, CallsOK, SendersOK, QueueOK, RepliesOK, \A d \in Client : Turn(d),
           NEW c \in Client, ClientReceives(c)
    PROVE  RepliesOK' /\ \A d \in Client : Turn(d)'
<1> DEFINE q == inbox[c]
           b == Head(q)
<1>1. /\ call[c].at = "recv" /\ UNCHANGED <<out, call, calls, late>> /\ ~in[c].done /\ q # <<>>
      /\ inbox' = [inbox EXCEPT ![c] = Tail(@)]
      /\ in[c].pos = 0 => \E size \in SizesRead(b.words[1]) : in' = [in EXCEPT ![c] = PutFirst(@, b, size)]
  BY DEF ClientReceives, RecvChunk, callVars
<1>2. q \in Seq(Replies) /\ in[c].pos = 0 /\ DOMAIN in[c] = {"size", "pos", "data", "port", "done"}
  BY DEF RepliesOK
<1>3. PICK size \in SizesRead(b.words[1]) : in' = [in EXCEPT ![c] = PutFirst(@, b, size)]
  BY <1>1, <1>2
<1>4. PICK a \in Answer : b = Reply(a)
  <2>1. b \in Replies
    BY <1>1, <1>2, HeadTailProperties
  <2>2. QED
    BY <2>1 DEF Replies
<1> HIDE DEF b
<1>5. in'[c] = PutFirst(in[c], b, size) /\ \A p \in Port \ {c} : in'[p] = in[p]
  BY <1>3, PortsAre DEF QueueOK
<1>6. inbox'[c] = Tail(q) /\ \A p \in Port \ {c} : inbox'[p] = inbox[p]
  BY <1>1, PortsAre DEF QueueOK
<1>7. DOMAIN in'[c] = {"size", "pos", "data", "port", "done"} /\ in'[c].pos = 0 /\ in'[c].done /\ in'[c].data[1].of = a
  <2>1. size \in SizesRead(Reply(a).words[1]) /\ in'[c] = PutFirst(in[c], Reply(a), size)
    BY <1>3, <1>4, <1>5
  <2> DEFINE r == in[c]
             s == in'[c]
  <2>2. DOMAIN r = {"size", "pos", "data", "port", "done"} /\ r.pos = 0
    BY <1>2
  <2>3. s = PutFirst(r, Reply(a), size)
    BY <2>1
  <2> HIDE DEF r, s
  <2>4. DOMAIN s = {"size", "pos", "data", "port", "done"} /\ s.pos = 0 /\ s.done /\ s.data[1].of = a
    BY <2>1, <2>2, <2>3, ReplyTaken
  <2>5. QED
    BY <2>4 DEF s
<1>8. Given(c)' = {Num(Head(q))}
  <2>1. Num(b) = a.n
    BY <1>4, ReplyIs
  <2>2. QED
    BY <1>7, <2>1 DEF Given, b
<1>9. \A d \in Client : /\ HeldBy(d)' = HeldBy(d) /\ Leaving(d)' = Leaving(d) /\ Left(d)' = Left(d)
                        /\ Answered(d)' = Answered(d) /\ calls'[d] = calls[d]
  BY <1>1, <1>5, SameParts, PortsAre
<1>10. RepliesInTurn(c)' /\ Answers(c)' \subseteq Answers(c) /\ inbox'[c] \in Seq(Replies)
  <2>1. Leaving(c)' = Leaving(c) /\ RepliesInTurn(c)
    BY <1>9 DEF Turn
  <2> HIDE DEF q
  <2>2. QED
    BY <1>1, <1>2, <1>6, <1>8, <2>1, ReplyIsTaken DEF q
<1>11. RepliesOK'
  <2>1. ASSUME NEW d \in Client
        PROVE  /\ inbox'[d] \in Seq(Replies)
               /\ DOMAIN in'[d] = {"size", "pos", "data", "port", "done"} /\ in'[d].pos = 0
               /\ in'[d].done => in'[d].data[1].of \in Answer /\ call'[d].at = "recv"
    <3>1. CASE d = c
      BY <1>1, <1>7, <1>10, <3>1
    <3>2. CASE d # c
      <4>1. inbox'[d] = inbox[d] /\ in'[d] = in[d]
        BY <1>5, <1>6, <3>2, PortsAre
      <4>2. QED
        BY <1>1, <4>1 DEF RepliesOK
    <3>3. QED
      BY <3>1, <3>2
  <2>2. QED
    BY <1>1, <2>1 DEF RepliesOK, Sent
<1>12. ASSUME NEW d \in Client \ {c}
       PROVE  Turn(d)'
  <2>1. inbox'[d] = inbox[d] /\ inbox'[Daemon] = inbox[Daemon] /\ Given(d)' = Given(d)
    BY <1>5, <1>6, SameParts, PortsAre
  <2>2. QED
    BY <1>9, <2>1, TurnStays
<1>13. Turn(c)'
  <2>1. inbox'[Daemon] = inbox[Daemon]
    BY <1>6, PortsAre
  <2>2. AsksInTurn(c)' /\ Wanted(c)' \subseteq Wanted(c)
    BY <1>9, <2>1, AsksStay DEF Turn
  <2>3. QED
    BY <1>9, <1>10, <2>2, LagsStay DEF Turn
<1>14. QED
  BY <1>11, <1>12, <1>13

LEMMA TakesTurn ==
    ASSUME Capacity > 2, CallsOK, SendersOK, QueueOK, RepliesOK, \A d \in Client : Turn(d),
           NEW c \in Client, TakesAnswer(c)
    PROVE  RepliesOK' /\ \A d \in Client : Turn(d)'
<1> DEFINE g == in[c].data[1].of.n
<1>1. /\ call[c].at = "recv" /\ in[c].done /\ (Goes(c, "reap") \/ Returns(c))
      /\ in' = [in EXCEPT ![c] = Reset] /\ UNCHANGED <<inbox, out, calls, late>>
  BY DEF TakesAnswer
<1>2. call'[c].at \in {"no", "reap"} /\ \A d \in Client \ {c} : call'[d] = call[d]
  BY <1>1, GoesOn, CallsSet, IdleIsACall DEF Returns, Idle
<1>3. in'[c] = Reset /\ \A p \in Port \ {c} : in'[p] = in[p]
  BY <1>1, PortsAre DEF QueueOK
<1>4. DOMAIN in'[c] = {"size", "pos", "data", "port", "done"} /\ in'[c].pos = 0 /\ ~in'[c].done
  BY <1>3 DEF Reset
<1>5. \A d \in Client : HeldBy(d)' = HeldBy(d) /\ Leaving(d)' = Leaving(d) /\ Left(d)' = Left(d)
  BY <1>1, <1>3, SameParts, PortsAre
<1>6. RepliesOK'
  <2>1. ASSUME NEW d \in Client
        PROVE  /\ DOMAIN in'[d] = {"size", "pos", "data", "port", "done"} /\ in'[d].pos = 0
               /\ in'[d].done => in'[d].data[1].of \in Answer /\ call'[d].at = "recv"
    BY <1>2, <1>3, <1>4, PortsAre DEF RepliesOK
  <2>2. QED
    BY <1>1, <2>1 DEF RepliesOK, Sent
<1>7. ASSUME NEW d \in Client \ {c}
      PROVE  Turn(d)'
  <2>1. Given(d)' = Given(d) /\ Answered(d)' = Answered(d)
    BY <1>1, <1>2, <1>3, SameParts, PortsAre
  <2>2. QED
    BY <1>1, <1>5, <2>1, TurnStays
<1>8. Turn(c)'
  <2>1. Given(c) = {g} /\ Given(c)' = {}
    BY <1>1, <1>4 DEF Given
  <2>2. Waiting(c)' = Waiting(c)
    BY <1>1 DEF Waiting
  <2>3. g \in Answers(c) /\ Answers(c)' \subseteq Answers(c)
    BY <1>5, <2>1, <2>2 DEF Answers
  <2>4. \A a \in Answers(c)' : g < a
    BY <1>5, <2>1, <2>2 DEF Answers, Turn, RepliesInTurn
  <2>5. RepliesInTurn(c)'
    BY <1>1, <1>5, <2>1, RepliesStay DEF Turn
  <2>6. AsksInTurn(c)' /\ Wanted(c)' \subseteq Wanted(c)
    BY <1>1, <1>5, AsksStay DEF Turn
  <2>7. Answered(c)' = Answered(c) + 1
    <3>1. calls[c] \in Nat /\ late[c] \in Nat
      BY DEF SendersOK, RepliesOK
    <3>2. QED
      BY <1>1, <1>2, <3>1 DEF Answered
  <2>8. Answers(c) \subseteq Nat /\ Wanted(c) \subseteq Nat /\ Answered(c) \in Int
    BY NumbersAre
  <2> HIDE DEF g
  <2>9. Lags(c)'
    BY <1>1, <2>3, <2>4, <2>6, <2>7, <2>8, LagsWhenTaken DEF Turn
  <2>10. QED
    BY <2>5, <2>6, <2>9 DEF Turn
<1>9. QED
  BY <1>7, <1>8, <1>6

\* Whatever leaves the ports and the numbers alone, and ends the wait for a child at most.
LEMMA QuietTurn ==
    ASSUME RepliesOK, \A d \in Client : Turn(d), UNCHANGED <<ipcVars, calls, late>>,
           \A d \in Client : call'[d] = call[d] \/ (call[d].at = "reap" /\ call'[d].at = "no")
    PROVE  RepliesOK' /\ \A d \in Client : Turn(d)'
<1>1. UNCHANGED <<inbox, in, out>>
  BY DEF ipcVars
<1>2. ASSUME NEW d \in Client
      PROVE  Turn(d)' /\ (in'[d].done => in'[d].data[1].of \in Answer /\ call'[d].at = "recv")
  <2>1. /\ Given(d)' = Given(d) /\ HeldBy(d)' = HeldBy(d) /\ Leaving(d)' = Leaving(d) /\ Left(d)' = Left(d)
    BY <1>1, SameParts
  <2>2. Answered(d)' = Answered(d)
    BY DEF Answered
  <2>3. in'[d].done => in'[d].data[1].of \in Answer /\ call'[d].at = "recv"
    BY <1>1 DEF RepliesOK
  <2>4. QED
    BY <1>1, <2>1, <2>2, <2>3, TurnStays
<1>3. QED
  BY <1>1, <1>2 DEF RepliesOK, Sent

\* The daemon reads a datagram.
LEMMA ReadsTurn ==
    ASSUME Capacity > 2, SendersOK, QueueOK, RepliesOK, \A d \in Client : Turn(d), NEW p \in Pid, DaemonReceives(p)
    PROVE  RepliesOK' /\ \A d \in Client : Turn(d)'
<1>1. RecvChunk(Daemon) /\ UNCHANGED <<out, call, calls, late>>
  BY DEF DaemonReceives, RecvChunk, callVars
<1>2. inbox'[Daemon] = Tail(inbox[Daemon]) /\ inbox[Daemon] # <<>> /\ inbox[Daemon] \in Seq(Cuts)
  BY <1>1, DaemonReads DEF QueueOK
<1>3. PICK x \in Place : /\ Head(inbox[Daemon]) = Cut(x) /\ Holding(in'[Daemon])
                         /\ Held(in'[Daemon]) = [msg |-> x.msg, pos |-> x.pos + Step(x)]
  BY <1>1, DaemonReads
<1>4. \A d \in Client : inbox'[d] = inbox[d] /\ in'[d] = in[d]
  BY <1>1, PortsAre DEF RecvChunk, QueueOK
<1>5. RepliesOK'
  BY <1>1, <1>4 DEF RepliesOK, Sent
<1>6. ASSUME NEW d \in Client
      PROVE  Turn(d)'
  <2>1. /\ Given(d)' = Given(d) /\ Leaving(d)' = Leaving(d) /\ Left(d)' = Left(d)
        /\ Answered(d)' = Answered(d) /\ calls'[d] = calls[d]
    BY <1>1, <1>4, SameParts
  <2>2. HeldBy(d)' = IF x.msg.by = d THEN {[msg |-> x.msg, pos |-> x.pos + Step(x)]} ELSE {}
    <3> DEFINE r == in'[Daemon]
    <3>1. HeldBy(d)' = IF Holding(r) /\ Held(r).msg.by = d THEN {Held(r)} ELSE {}
      BY DEF HeldBy, Holding, Held
    <3> HIDE DEF r
    <3>2. Holding(r) /\ Held(r) = [msg |-> x.msg, pos |-> x.pos + Step(x)] /\ Held(r).msg = x.msg
      BY <1>3 DEF r
    <3>3. QED
      BY <3>1, <3>2
  <2>3. RepliesInTurn(d)' /\ Answers(d)' \subseteq Answers(d)
    BY <1>4, <2>1, RepliesStay DEF Turn
  <2>4. AsksInTurn(d)' /\ Wanted(d)' \subseteq Wanted(d)
    BY <1>2, <1>3, <2>1, <2>2, PartIsTaken DEF Turn
  <2>5. QED
    BY <2>1, <2>3, <2>4, LagsStay DEF Turn
<1>7. QED
  BY <1>5, <1>6

\* The daemon begins with an answer.
LEMMA AnswersTurn ==
    ASSUME Capacity > 2, SendersOK, QueueOK, RepliesOK, \A d \in Client : Turn(d), NEW p \in Pid, DaemonAnswers(p)
    PROVE  RepliesOK' /\ \A d \in Client : Turn(d)'
<1> DEFINE r == in[Daemon]
           m == r.data[1].of
           ok == IsWhole(Daemon)
           a == [by |-> Daemon, n |-> IF ok THEN Received(Daemon).n ELSE 0, what |-> IF ok THEN "ok" ELSE "error", size |-> IF ok THEN 2 ELSE 1]
           s == [to |-> r.port, msg |-> a, size |-> Short(a.size), pos |-> 0]
<1>1. /\ r.done /\ Sent(Daemon) /\ UNCHANGED <<inbox, call, calls, late>>
      /\ in' = [in EXCEPT ![Daemon] = Reset] /\ out' = [out EXCEPT ![Daemon] = s]
  BY DEF DaemonAnswers, Sends, callVars
<1>2. ok /\ m \in Request /\ r.port = m.by /\ Received(Daemon) = m
  BY <1>1 DEF QueueOK, Receiving, IsWhole, Received
<1>3. m.n \in Nat /\ m.by \in Client /\ m.size \in Nat
  BY <1>2 DEF Request
<1>4. Held(r) = [msg |-> m, pos |-> m.size] /\ Holding(r)
  BY <1>1 DEF Held, Holding
<1> HIDE DEF m, r, ok
<1>5. a = [by |-> Daemon, n |-> m.n, what |-> "ok", size |-> 2]
  BY <1>2
<1>6. a \in Answer /\ a.size = 2 /\ a.n = m.n
  BY <1>3, <1>5, PortsAre DEF Answer, Message
<1>7. s.to = m.by /\ s.msg = a /\ s.pos = 0 /\ s.size = 2
  <2>1. Short(a.size) = 2
    BY <1>6, CapacityAssumption DEF Short
  <2>2. QED
    BY <1>2, <2>1
<1> HIDE DEF a, s
<1>8. out'[Daemon] = s /\ \A d \in Client : out'[d] = out[d]
  BY <1>1, PortsAre DEF SendersOK
<1>9. in'[Daemon] = Reset /\ \A d \in Client : in'[d] = in[d]
  BY <1>1, PortsAre DEF QueueOK
<1>10. RepliesOK'
  <2>1. out'[Daemon].msg \in Answer /\ out'[Daemon].size = 2 /\ out'[Daemon].pos = 0
    BY <1>6, <1>7, <1>8
  <2>2. QED
    BY <1>1, <1>8, <1>9, <2>1 DEF RepliesOK, Sent
<1>11. ASSUME NEW d \in Client
       PROVE  Turn(d)'
  <2>1. /\ Given(d)' = Given(d) /\ Left(d)' = Left(d) /\ Answered(d)' = Answered(d) /\ calls'[d] = calls[d]
    BY <1>1, <1>8, <1>9, SameParts
  <2>2. HeldBy(d)' = {}
    <3>1. ~Holding(in'[Daemon])
      BY <1>9 DEF Holding, Reset
    <3>2. QED
      BY <3>1 DEF HeldBy, Holding
  <2>3. Leaving(d) = {} /\ Leaving(d)' = IF m.by = d THEN {m.n} ELSE {}
    <3>1. out'[Daemon].pos = 0 /\ out'[Daemon].size = 2 /\ out'[Daemon].to = m.by /\ out'[Daemon].msg.n = m.n
      BY <1>6, <1>7, <1>8
    <3>2. ~Sent(Daemon)'
      BY <3>1 DEF Sent
    <3>3. QED
      BY <1>1, <3>1, <3>2 DEF Leaving
  <2>4. AsksInTurn(d)' /\ Wanted(d)' \subseteq Wanted(d)
    <3>1. inbox'[Daemon] = inbox[Daemon] /\ HeldBy(d)' \subseteq HeldBy(d) /\ Left(d)' \subseteq Left(d)
      BY <1>1, <2>1, <2>2
    <3>2. QED
      BY <3>1, AsksStay DEF Turn
  <2>5. CASE m.by # d
    <3>1. inbox'[d] = inbox[d] /\ Given(d)' \subseteq Given(d) /\ Leaving(d)' \subseteq Leaving(d)
      BY <1>1, <2>1, <2>3, <2>5
    <3>2. RepliesInTurn(d)' /\ Answers(d)' \subseteq Answers(d)
      BY <3>1, RepliesStay DEF Turn
    <3>3. QED
      BY <2>1, <2>4, <3>2, LagsStay DEF Turn
  <2>6. CASE m.by = d
    <3> DEFINE h == [msg |-> m, pos |-> m.size]
    <3>1. h \in HeldBy(d) /\ h.msg = m /\ h.pos = m.size
      BY <1>4, <2>6 DEF HeldBy, r
    <3>2. m.n \in Wanted(d)
      BY <3>1 DEF Wanted
    <3> HIDE DEF h
    <3>3. \A n \in Answers(d) : n < m.n
      BY <3>2 DEF Turn, Lags
    <3>4. \A w \in Wanted(d)' : m.n < w
      <4>1. FromC(d)' = FromC(d)
        BY <1>1 DEF FromC
      <4>2. \A i \in FromC(d) : m.n < At(inbox[Daemon][i]).msg.n
        <5>1. SUFFICES ASSUME NEW i \in FromC(d) PROVE m.n < At(inbox[Daemon][i]).msg.n
          OBVIOUS
        <5>2. At(inbox[Daemon][i]) \in Place /\ Earlier(h, At(inbox[Daemon][i]))
          BY <3>1, NumbersAre DEF Turn, AsksInTurn
        <5>3. QED
          BY <3>1, <5>2, EndedEarlier
      <4>3. \A l \in Left(d) : m.n < l.msg.n
        <5>1. SUFFICES ASSUME NEW l \in Left(d) PROVE m.n < l.msg.n
          OBVIOUS
        <5>2. l \in Place /\ Earlier(h, l)
          BY <3>1, NumbersAre DEF Turn, AsksInTurn
        <5>3. QED
          BY <3>1, <5>2, EndedEarlier
      <4>4. QED
        BY <1>1, <2>1, <2>2, <4>1, <4>2, <4>3 DEF Wanted
    <3>5. inbox'[d] = inbox[d] /\ Leaving(d)' = {m.n}
      BY <1>1, <2>3, <2>6
    <3>6. RepliesInTurn(d)' /\ Answers(d)' \subseteq Answers(d) \cup {m.n}
      BY <2>1, <2>3, <3>3, <3>5, ReplyBegins DEF Turn
    <3>7. QED
      BY <2>1, <2>4, <3>2, <3>4, <3>6, LagsWhenAnswering DEF Turn
  <2>7. QED
    BY <2>5, <2>6
<1>12. QED
  BY <1>10, <1>11

\* The daemon sends an answer.
LEMMA RepliesTurn ==
    ASSUME Capacity > 2, SendersOK, QueueOK, RepliesOK, \A d \in Client : Turn(d), NEW p \in Pid, DaemonSends(p)
    PROVE  RepliesOK' /\ \A d \in Client : Turn(d)'
<1> DEFINE to == out[Daemon].to
           a == out[Daemon].msg
           s == [out[Daemon] EXCEPT !.pos = @ + Chunk(out[Daemon])]
<1>1. /\ ~Sent(Daemon) /\ out' = [out EXCEPT ![Daemon] = s] /\ UNCHANGED <<call, calls, late, in>>
      /\ \/ inbox' = [inbox EXCEPT ![to] = Append(@, Datagram(Daemon))]
         \/ UNCHANGED inbox
  BY DEF DaemonSends, SendChunk, callVars
<1>2. to \in Client /\ out[Daemon] \in Sending /\ a \in Answer /\ out[Daemon].size = 2 /\ out[Daemon].pos = 0
  BY <1>1, PortsAre DEF SendersOK, RepliesOK
<1>3. Chunk(out[Daemon]) = 2 /\ Datagram(Daemon) = Reply(a)
  BY <1>2, ReplySent
<1>4. s.pos = 2 /\ s.size = 2
  BY <1>2, <1>3 DEF Sending
<1> HIDE DEF s
<1>5. out'[Daemon] = s /\ \A d \in Client : out'[d] = out[d]
  BY <1>1, PortsAre DEF SendersOK
<1>6. Sent(Daemon)'
  <2>1. out'[Daemon].pos >= out'[Daemon].size
    BY <1>4, <1>5
  <2>2. QED
    BY <2>1 DEF Sent
<1>7. \A d \in Client : Leaving(d)' = {} /\ Leaving(d) = IF to = d THEN {a.n} ELSE {}
  BY <1>1, <1>6 DEF Leaving
<1> HIDE DEF to, a
<1>8. /\ inbox'[Daemon] = inbox[Daemon] /\ \A d \in Client \ {to} : inbox'[d] = inbox[d]
      /\ inbox'[to] = inbox[to] \/ inbox'[to] = Append(inbox[to], Reply(a))
  BY <1>1, <1>2, <1>3, PortsAre DEF QueueOK
<1>9. \A d \in Client : /\ Given(d)' = Given(d) /\ HeldBy(d)' = HeldBy(d) /\ Left(d)' = Left(d)
                        /\ Answered(d)' = Answered(d) /\ calls'[d] = calls[d]
  BY <1>1, <1>5, SameParts
<1>10. ASSUME NEW d \in Client
       PROVE  RepliesInTurn(d)' /\ Answers(d)' \subseteq Answers(d) /\ inbox'[d] \in Seq(Replies)
  <2>1. RepliesInTurn(d) /\ inbox[d] \in Seq(Replies) /\ Given(d)' = Given(d) /\ Leaving(d)' = {}
    BY <1>7, <1>9 DEF Turn, RepliesOK
  <2>2. CASE inbox'[d] = inbox[d]
    BY <2>1, <2>2, RepliesStay
  <2>3. CASE d = to /\ inbox'[to] = Append(inbox[to], Reply(a))
    <3>1. Leaving(d) = {a.n} /\ inbox'[d] = Append(inbox[d], Reply(a))
      BY <1>7, <2>3
    <3>2. QED
      BY <1>2, <2>1, <3>1, ReplyComes
  <2>4. QED
    BY <1>8, <2>2, <2>3
<1>11. RepliesOK'
  BY <1>1, <1>5, <1>6, <1>10 DEF RepliesOK, Sent
<1>12. ASSUME NEW d \in Client
       PROVE  Turn(d)'
  <2>1. AsksInTurn(d)' /\ Wanted(d)' \subseteq Wanted(d)
    BY <1>8, <1>9, AsksStay DEF Turn
  <2>2. QED
    BY <1>9, <1>10, <2>1, LagsStay DEF Turn
<1>13. QED
  BY <1>11, <1>12

\* The daemon's port is closed.
LEMMA ClosesTurn ==
    ASSUME SendersOK, QueueOK, RepliesOK, \A d \in Client : Turn(d), PortClosed, UNCHANGED callVars
    PROVE  RepliesOK' /\ \A d \in Client : Turn(d)'
<1>1. /\ inbox'[Daemon] = <<>> /\ in'[Daemon] = Reset /\ out'[Daemon] = NotSending /\ UNCHANGED <<call, calls, late>>
      /\ \A d \in Client : inbox'[d] = inbox[d] /\ in'[d] = in[d] /\ out'[d] = out[d]
  BY PortsAre DEF PortClosed, QueueOK, SendersOK, callVars
<1>2. Sent(Daemon)'
  <2>1. out'[Daemon].pos = 0 /\ out'[Daemon].size = 0
    BY <1>1 DEF NotSending
  <2>2. out'[Daemon].pos >= out'[Daemon].size
    BY <2>1
  <2>3. QED
    BY <2>2 DEF Sent
<1>3. RepliesOK'
  BY <1>1, <1>2 DEF RepliesOK, Sent
<1>4. ASSUME NEW d \in Client
      PROVE  Turn(d)'
  <2>1. Given(d)' = Given(d) /\ Left(d)' = Left(d) /\ Answered(d)' = Answered(d) /\ calls'[d] = calls[d]
    BY <1>1, SameParts
  <2>2. Leaving(d)' = {}
    BY <1>2 DEF Leaving
  <2>3. HeldBy(d)' = {}
    <3>1. ~Holding(in'[Daemon])
      BY <1>1 DEF Holding, Reset
    <3>2. QED
      BY <3>1 DEF HeldBy, Holding
  <2>4. FromC(d)' = {}
    <3>1. Len(inbox'[Daemon]) = 0
      BY <1>1
    <3>2. QED
      BY <3>1 DEF FromC
  <2>5. RepliesInTurn(d)' /\ Answers(d)' \subseteq Answers(d)
    BY <1>1, <2>1, <2>2, RepliesStay DEF Turn
  <2>6. AsksInTurn(d)' /\ Wanted(d)' \subseteq Wanted(d)
    BY <2>1, <2>3, <2>4 DEF AsksInTurn, Wanted
  <2>7. QED
    BY <2>1, <2>5, <2>6, LagsStay DEF Turn
<1>5. QED
  BY <1>3, <1>4

InTurn == lost \/ (RepliesOK /\ \A c \in Client : Turn(c))

LEMMA InTurnInit == Init => InTurn
<1>1. SUFFICES ASSUME Init PROVE InTurn
  OBVIOUS
<1>2. /\ inbox = [p \in Port |-> <<>>] /\ out = [p \in Port |-> NotSending] /\ in = [p \in Port |-> Reset]
      /\ calls = [c \in Client |-> 0] /\ late = [c \in Client |-> 0] /\ call = [c \in Client |-> Idle]
  BY <1>1 DEF Init, IPCInit
<1>3. /\ NotSending.pos = 0 /\ NotSending.size = 0 /\ Idle.at = "no"
      /\ DOMAIN Reset = {"size", "pos", "data", "port", "done"} /\ Reset.pos = 0 /\ ~Reset.done
  BY DEF NotSending, Idle, Reset
<1>4. \A p \in Port : Sent(p)
  <2>1. SUFFICES ASSUME NEW p \in Port PROVE Sent(p)
    OBVIOUS
  <2>2. out[p].pos = 0 /\ out[p].size = 0
    BY <1>2, <1>3, <2>1
  <2>3. out[p].pos >= out[p].size
    BY <2>2
  <2>4. QED
    BY <2>3 DEF Sent
<1>5. \A p \in Port : inbox[p] = <<>> /\ in[p] = Reset /\ Len(inbox[p]) = 0
  BY <1>2
<1>6. RepliesOK
  <2>1. \A c \in Client : inbox[c] \in Seq(Replies)
    BY <1>5, EmptySeq, PortsAre
  <2>2. QED
    BY <1>2, <1>3, <1>4, <1>5, <2>1, PortsAre DEF RepliesOK
<1>7. ASSUME NEW c \in Client
      PROVE  Turn(c)
  <2>1. Given(c) = {} /\ Left(c) = {}
    BY <1>3, <1>4, <1>5, PortsAre DEF Given, Left
  <2>2. Waiting(c) = {} /\ FromC(c) = {} /\ 1 .. Len(inbox[c]) = {}
    BY <1>5, PortsAre DEF Waiting, FromC
  <2>3. Leaving(c) = {}
    BY <1>4, PortsAre DEF Leaving
  <2>4. HeldBy(c) = {}
    BY <1>3, <1>5, PortsAre DEF HeldBy, Holding
  <2>5. QED
    BY <2>1, <2>2, <2>3, <2>4 DEF Turn, RepliesInTurn, AsksInTurn, Lags, Answers, Wanted
<1>8. QED
  BY <1>6, <1>7 DEF InTurn

LEMMA InTurnNext ==
    ASSUME SizesFit, "interleave" \notin Quirks, Capacity > 2, CallsOK, InOrder, InTurn, [Next]_vars
    PROVE  InTurn'
<1> DEFINE Goal == RepliesOK' /\ \A d \in Client : Turn(d)'
<1>1. SUFFICES ASSUME ~lost' PROVE Goal
  BY DEF InTurn
<1>2. ~lost /\ SendersOK /\ QueueOK /\ RepliesOK /\ \A d \in Client : Turn(d)
  BY <1>1, StaysLost DEF InOrder, InTurn
<1> HIDE DEF Goal
<1>3. ASSUME NEW c \in Client, Requests(c) \/ Stops(c)
      PROVE  Goal
  BY <1>2, <1>3, AsksTurn DEF Requests, Stops, Goal
<1>4. ASSUME NEW c \in Client, ClientSends(c)
      PROVE  Goal
  BY <1>1, <1>2, <1>4, SendsTurn DEF Goal
<1>5. ASSUME NEW c \in Client, Waits(c) \/ ClientReceives(c) \/ TakesAnswer(c)
      PROVE  Goal
  BY <1>2, <1>5, WaitsTurn, ReceivesTurn, TakesTurn DEF Goal
<1>6. ASSUME NEW c \in Client, Reaps(c)
      PROVE  Goal
  <2>1. UNCHANGED <<ipcVars, calls, late>> /\ call[c].at = "reap" /\ call' = [call EXCEPT ![c] = Idle]
    BY <1>6 DEF Reaps, Returns
  <2>2. call'[c] = Idle /\ \A d \in Client \ {c} : call'[d] = call[d]
    BY <2>1 DEF CallsOK
  <2>3. Idle.at = "no"
    BY DEF Idle
  <2>4. QED
    BY <1>2, <2>1, <2>2, <2>3, QuietTurn DEF Goal
<1>7. ASSUME NEW c \in Client, Starts(c)
      PROVE  Goal
  BY <1>2, <1>7, QuietTurn DEF Starts, callVars, Goal
<1>8. ASSUME NEW p \in Pid, DaemonUp(p)
      PROVE  Goal
  BY <1>2, <1>8, QuietTurn DEF DaemonUp, callVars, Goal
<1>9. ASSUME NEW p \in Pid, DaemonReceives(p) \/ DaemonAnswers(p) \/ DaemonSends(p)
      PROVE  Goal
  BY <1>2, <1>9, ReadsTurn, AnswersTurn, RepliesTurn DEF Goal
<1>10. ASSUME NEW p \in Pid, DaemonEnds(p) \/ DaemonCrashes(p)
       PROVE  Goal
  BY <1>2, <1>10, ClosesTurn DEF DaemonEnds, DaemonCrashes, Goal
<1>11. CASE UNCHANGED vars
  BY <1>2, <1>11, QuietTurn DEF vars, callVars, Goal
<1>12. QED
  BY <1>3, <1>4, <1>5, <1>6, <1>7, <1>8, <1>9, <1>10, <1>11 DEF Next, ClientNext, DaemonNext

\* Where an answer fits into one datagram: a client takes the answer to its own request or to one
\* that it gave up, and lags behind by no more than the requests it gave up.
THEOREM AnswersDoNotRunAway ==
    ASSUME SizesFit, "interleave" \notin Quirks, Capacity > 2
    PROVE  Spec => []AnswersLag
<1>1. CallsOK /\ InOrder /\ InTurn /\ [Next]_vars => CallsOK' /\ InOrder' /\ InTurn'
  BY CallsNext, InOrderNext, InTurnNext
<1>2. InOrder /\ InTurn => AnswersLag
  <2>1. SUFFICES ASSUME InOrder, InTurn, ~lost, NEW c \in Client, in[c].done
                 PROVE  Received(c).n <= calls[c] /\ calls[c] <= Received(c).n + late[c]
    BY DEF AnswersLag
  <2> DEFINE g == Received(c).n
  <2>2. SendersOK /\ RepliesOK /\ Turn(c) /\ call[c].at = "recv"
    BY <2>1 DEF InOrder, InTurn, RepliesOK
  <2>3. g \in Answers(c)
    BY <2>1 DEF Answers, Given, Received
  <2>4. g \in Nat
    BY <2>1, <2>2 DEF RepliesOK, Answer, Message, Received
  <2> HIDE DEF g
  <2>5. Answered(c) < g /\ g <= calls[c]
    BY <2>2, <2>3 DEF Turn, Lags
  <2>6. Answered(c) = calls[c] - late[c] - 1
    BY <2>2 DEF Answered
  <2>7. calls[c] \in Nat /\ late[c] \in Nat
    BY <2>2 DEF SendersOK, RepliesOK
  <2>8. calls[c] <= g + late[c]
    BY <2>4, <2>5, <2>6, <2>7
  <2>9. QED
    BY <2>5, <2>8 DEF g
<1>3. QED
  BY <1>1, <1>2, CallsInit, InOrderInit, InTurnInit, PTL DEF Spec
=============================================================================

--------------------------- MODULE SimpleFSMProofs ---------------------------
(***************************************************************************)
(* Proofs about SimpleFSM, for every registry, every set of clients and    *)
(* every choice of the calls they make.  EngineInv carries the wakeups and *)
(* the thread's life; PathInv, the path and its target.                    *)
(***************************************************************************)
EXTENDS SimpleFSM, SequenceTheorems, TLAPS

-----------------------------------------------------------------------------
(* Type correctness *)

LEMMA ThreadFacts ==
    /\ Worker \in Threads /\ Worker \notin Clients
    /\ Owner \in Threads /\ Owner \in Clients /\ Owner # Worker
    /\ \A c \in Clients : c \in Threads /\ c # Worker
    /\ Free \notin Threads
  BY ThreadAssumption DEF Threads

\* A thread that moves to a label of its kind keeps the program counters typed.
LEMMA WorkerMoves ==
    ASSUME PcOK, NEW from, NEW to \in WorkerLabels, Moves(Worker, from, to)
    PROVE  PcOK'
  BY ThreadFacts DEF PcOK, Moves

LEMMA ClientMoves ==
    ASSUME PcOK, NEW c \in Clients, NEW from, NEW to \in ClientLabels, Moves(c, from, to)
    PROVE  PcOK'
  BY ThreadFacts DEF PcOK, Moves

\* The labels of a steering call are shared by both kinds of thread, and the
\* label it returns to is one of the caller's kind.
LEMMA SteerMoves ==
    ASSUME PcOK, NEW t \in Threads, NEW from, NEW to \in SteerLabels \cup {Home(t)},
           Moves(t, from, to)
    PROVE  PcOK'
<1>1. SteerLabels \subseteq ClientLabels /\ SteerLabels \subseteq WorkerLabels
  BY DEF ClientLabels, WorkerLabels
<1>2. "idle" \in ClientLabels /\ "hRun" \in WorkerLabels
  BY DEF ClientLabels, WorkerLabels, LoopLabels
<1>3. CASE t = Worker
  BY <1>1, <1>2, <1>3, WorkerMoves DEF Home
<1>4. CASE t \in Clients
  BY <1>1, <1>2, <1>4, ClientMoves, ThreadFacts DEF Home
<1>5. QED
  BY <1>3, <1>4 DEF Threads

\* The arguments of a call are well typed after it returned, too.
LEMMA ForgetType ==
    ASSUME DataOK, NEW t \in Threads, Forget(t)
    PROVE  /\ arg' \in [Threads -> Nodes \cup Ids]
           /\ strip' \in [Threads -> {0, 1}]
           /\ plan' \in [Threads -> Seq(Nodes)]
  BY RegistryAssumption DEF DataOK, Forget

\* A route without its first components is a sequence of nodes.
LEMMA StripType ==
    ASSUME NEW r \in Seq(Nodes), NEW k \in {0, 1}
    PROVE  SubSeq(r, 1 + k, Len(r)) \in Seq(Nodes)
  BY SubSeqProperties

\* Popping a path yields a node and a path.
LEMMA PopType ==
    ASSUME NEW p \in Seq(Nodes), p # <<>>
    PROVE  Head(p) \in Nodes /\ Tail(p) \in Seq(Nodes)
  OBVIOUS

LEMMA InitType == Init => TypeOK
<1> SUFFICES ASSUME Init PROVE PcOK /\ DataOK
  BY DEF TypeOK
<1>1. "idle" \in ClientLabels /\ "none" \in WorkerLabels
  BY DEF ClientLabels, WorkerLabels
<1>2. PcOK
  BY <1>1, ThreadFacts DEF Init, PcOK
<1>3. DataOK
  <2>1. /\ arg \in [Threads -> Nodes \cup Ids]
        /\ strip \in [Threads -> {0, 1}]
        /\ plan \in [Threads -> Seq(Nodes)]
    BY RegistryAssumption DEF Init
  <2>2. path \in Seq(Nodes)
    BY DEF Init
  <2>3. QED
    BY <2>1, <2>2, RegistryAssumption DEF Init, DataOK
<1>4. QED
  BY <1>2, <1>3

LEMMA GotoType ==
    ASSUME TypeOK, NEW t \in Threads, Goto(t)
    PROVE  TypeOK'
<1> SUFFICES PcOK' /\ DataOK'
  BY DEF TypeOK
<1>0. PcOK /\ DataOK
  BY DEF TypeOK
<1> USE <1>0, ThreadFacts DEF steering, engine, lifeline
<1>1. CASE GotoLock(t)
  <2>1. PcOK'
    BY <1>1, SteerMoves DEF GotoLock, SteerLabels, GotoLabels
  <2>2. DataOK'
    BY <1>1 DEF GotoLock, DataOK
  <2>3. QED
    BY <2>1, <2>2
<1>2. CASE GotoPlan(t)
  <2>1. PcOK'
    BY <1>2, SteerMoves DEF GotoPlan, SteerLabels, GotoLabels
  <2>2. DataOK'
    BY <1>2, RouteAssumption DEF GotoPlan, DataOK
  <2>3. QED
    BY <2>1, <2>2
<1>3. CASE GotoAssign(t)
  <2>1. PcOK'
    BY <1>3, SteerMoves DEF GotoAssign, SteerLabels, GotoLabels
  <2>2. DataOK'
    <3>1. path' \in Seq(Nodes)
      <4>1. plan[t] \in Seq(Nodes) /\ strip[t] \in {0, 1}
        BY DEF DataOK
      <4>2. SubSeq(plan[t], 1 + strip[t], Len(plan[t])) \in Seq(Nodes)
        BY <4>1, StripType
      <4>3. QED
        BY <1>3, <4>2 DEF GotoAssign
    <3>2. plan' \in [Threads -> Seq(Nodes)]
      BY <1>3 DEF GotoAssign, DataOK
    <3>3. QED
      BY <1>3, <3>1, <3>2 DEF GotoAssign, DataOK
  <2>3. QED
    BY <2>1, <2>2
<1>4. CASE GotoTarget(t)
  <2>1. PcOK'
    BY <1>4, SteerMoves DEF GotoTarget, SteerLabels, GotoLabels
  <2>2. DataOK'
    BY <1>4 DEF GotoTarget, DataOK
  <2>3. QED
    BY <2>1, <2>2
<1>5. CASE GotoWake(t)
  <2>1. PcOK'
    BY <1>5, SteerMoves DEF GotoWake, SteerLabels, GotoLabels
  <2>2. DataOK'
    BY <1>5 DEF GotoWake, DataOK
  <2>3. QED
    BY <2>1, <2>2
<1>6. CASE GotoNotify(t)
  <2>0. "gDone" \in ClientLabels \cap WorkerLabels /\ "pWait" \in WorkerLabels
    BY DEF ClientLabels, WorkerLabels, LoopLabels, SteerLabels, GotoLabels
  <2>1. PcOK'
    BY <1>6, <2>0 DEF GotoNotify, PcOK, At
  <2>2. DataOK'
    BY <1>6 DEF GotoNotify, DataOK
  <2>3. QED
    BY <2>1, <2>2
<1>7. CASE GotoDone(t)
  <2>1. PcOK'
    BY <1>7, SteerMoves DEF GotoDone
  <2>2. DataOK'
    BY <1>7, ForgetType DEF GotoDone, DataOK
  <2>3. QED
    BY <2>1, <2>2
<1>8. QED
  BY <1>1, <1>2, <1>3, <1>4, <1>5, <1>6, <1>7 DEF Goto

LEMMA SkewType ==
    ASSUME TypeOK, NEW t \in Threads, Skew(t)
    PROVE  TypeOK'
<1> SUFFICES PcOK' /\ DataOK'
  BY DEF TypeOK
<1>0. PcOK /\ DataOK
  BY DEF TypeOK
<1> USE <1>0, ThreadFacts DEF steering, engine, lifeline
<1>1. CASE SkewCur(t)
  <2>1. PcOK'
    BY <1>1, SteerMoves DEF SkewCur, SteerLabels, SkewLabels
  <2>2. DataOK'
    BY <1>1, ForgetType DEF SkewCur, DataOK
  <2>3. QED
    BY <2>1, <2>2
<1>2. CASE SkewTest(t)
  <2>1. PcOK'
    BY <1>2, SteerMoves DEF SkewTest, SteerLabels, GotoLabels
  <2>2. DataOK'
    <3>1. CASE path = <<>>
      BY <1>2, <3>1, ForgetType DEF SkewTest, DataOK
    <3>2. CASE path # <<>>
      <4>1. /\ arg' \in [Threads -> Nodes \cup Ids]
            /\ strip' \in [Threads -> {0, 1}]
        BY <1>2, <3>2 DEF SkewTest, DataOK
      <4>2. QED
        BY <1>2, <3>2, <4>1 DEF SkewTest, DataOK
    <3>3. QED
      BY <3>1, <3>2
  <2>3. QED
    BY <2>1, <2>2
<1>3. QED
  BY <1>1, <1>2 DEF Skew

LEMMA JumpType ==
    ASSUME TypeOK, Jump
    PROVE  TypeOK'
<1> SUFFICES PcOK' /\ DataOK'
  BY DEF TypeOK
<1>0. PcOK /\ DataOK
  BY DEF TypeOK
<1> USE <1>0, ThreadFacts DEF steering, engine, lifeline
<1>1. CASE JumpLock
  <2>1. PcOK'
    BY <1>1, WorkerMoves DEF JumpLock, WorkerLabels, JumpLabels
  <2>2. DataOK'
    BY <1>1 DEF JumpLock, DataOK
  <2>3. QED
    BY <2>1, <2>2
<1>2. CASE JumpCur
  <2>1. PcOK'
    BY <1>2, WorkerMoves DEF JumpCur, WorkerLabels, LoopLabels, JumpLabels
  <2>2. DataOK'
    BY <1>2, ForgetType, RegistryAssumption DEF JumpCur, DataOK
  <2>3. QED
    BY <2>1, <2>2
<1>3. CASE JumpRun
  <2>1. PcOK'
    BY <1>3, WorkerMoves DEF JumpRun, WorkerLabels, LoopLabels
  <2>2. DataOK'
    BY <1>3 DEF JumpRun, DataOK
  <2>3. QED
    BY <2>1, <2>2
<1>4. QED
  BY <1>1, <1>2, <1>3 DEF Jump

LEMMA LoopType ==
    ASSUME TypeOK, LoopStep
    PROVE  TypeOK'
<1> SUFFICES PcOK' /\ DataOK'
  BY DEF TypeOK
<1>0. PcOK /\ DataOK
  BY DEF TypeOK
<1> USE <1>0, ThreadFacts DEF steering, engine, lifeline
<1>1. CASE WorkerStarts
  <2>1. PcOK'
    BY <1>1, WorkerMoves DEF WorkerStarts, WorkerLabels, LoopLabels
  <2>2. DataOK'
    BY <1>1 DEF WorkerStarts, DataOK
  <2>3. QED
    BY <2>1, <2>2
<1>2. CASE LoopTest
  <2>1. PcOK'
    BY <1>2, WorkerMoves DEF LoopTest, WorkerLabels, LoopLabels, LoopExit
  <2>2. DataOK'
    BY <1>2 DEF LoopTest, DataOK
  <2>3. QED
    BY <2>1, <2>2
<1>3. CASE ContinuePop
  <2>0. "crashed" \in ClientLabels \cap WorkerLabels
    BY DEF ClientLabels, WorkerLabels
  <2>1. PcOK'
    BY <1>3, WorkerMoves, <2>0 DEF ContinuePop, WorkerLabels, LoopLabels, PcOK
  <2>2. DataOK'
    BY <1>3, PopType DEF ContinuePop, DataOK
  <2>3. QED
    BY <2>1, <2>2
<1>4. CASE ContinueSkip
  <2>1. PcOK'
    BY <1>4, WorkerMoves DEF ContinueSkip, WorkerLabels, LoopLabels
  <2>2. DataOK'
    BY <1>4 DEF ContinueSkip, DataOK
  <2>3. QED
    BY <2>1, <2>2
<1>5. CASE ContinuePass
  <2>1. PcOK'
    BY <1>5, WorkerMoves DEF ContinuePass, WorkerLabels, LoopLabels
  <2>2. DataOK'
    BY <1>5 DEF ContinuePass, DataOK
  <2>3. QED
    BY <2>1, <2>2
<1>6. CASE ContinueNext
  <2>1. PcOK'
    BY <1>6, WorkerMoves DEF ContinueNext, WorkerLabels, LoopLabels
  <2>2. DataOK'
    BY <1>6, PopType DEF ContinueNext, DataOK
  <2>3. QED
    BY <2>1, <2>2
<1>7. CASE ContinueCur
  <2>1. PcOK'
    BY <1>7, WorkerMoves DEF ContinueCur, WorkerLabels, LoopLabels
  <2>2. DataOK'
    BY <1>7 DEF ContinueCur, DataOK
  <2>3. QED
    BY <2>1, <2>2
<1>8. CASE ContinueEnter
  <2>1. PcOK'
    BY <1>8, WorkerMoves DEF ContinueEnter, WorkerLabels, LoopLabels
  <2>2. DataOK'
    BY <1>8 DEF ContinueEnter, DataOK
  <2>3. QED
    BY <2>1, <2>2
<1>9. CASE ContinueDone
  <2>1. PcOK'
    BY <1>9, WorkerMoves DEF ContinueDone, WorkerLabels, LoopLabels
  <2>2. DataOK'
    BY <1>9 DEF ContinueDone, DataOK
  <2>3. QED
    BY <2>1, <2>2
<1>10. CASE LoopNotify
  <2>0. {"none", "pTest"} \subseteq WorkerLabels /\ "wTest" \in ClientLabels
    BY DEF ClientLabels, WaitLabels, WorkerLabels, LoopLabels
  <2>1. PcOK'
    BY <1>10, WorkerMoves, <2>0 DEF LoopNotify, LoopExit, PcOK
  <2>2. DataOK'
    BY <1>10 DEF LoopNotify, DataOK
  <2>3. QED
    BY <2>1, <2>2
<1>11. CASE PauseTest
  <2>1. PcOK'
    BY <1>11, WorkerMoves DEF PauseTest, WorkerLabels, LoopLabels
  <2>2. DataOK'
    BY <1>11 DEF PauseTest, DataOK
  <2>3. QED
    BY <2>1, <2>2
<1>12. CASE PauseWait
  <2>1. PcOK'
    BY <1>12, WorkerMoves DEF PauseWait, WorkerLabels, LoopLabels
  <2>2. DataOK'
    BY <1>12 DEF PauseWait, DataOK
  <2>3. QED
    BY <2>1, <2>2
<1>13. CASE PauseInterrupted
  <2>1. PcOK'
    BY <1>13, WorkerMoves DEF PauseInterrupted, WorkerLabels, LoopLabels
  <2>2. DataOK'
    BY <1>13 DEF PauseInterrupted, DataOK
  <2>3. QED
    BY <2>1, <2>2
<1>14. CASE PauseReset
  <2>1. PcOK'
    BY <1>14, WorkerMoves DEF PauseReset, WorkerLabels, LoopLabels
  <2>2. DataOK'
    BY <1>14 DEF PauseReset, DataOK
  <2>3. QED
    BY <2>1, <2>2
<1>15. QED
  BY <1>1, <1>2, <1>3, <1>4, <1>5, <1>6, <1>7, <1>8, <1>9, <1>10, <1>11, <1>12, <1>13,
     <1>14 DEF LoopStep

LEMMA HandlerType ==
    ASSUME TypeOK, HandlerEnds
    PROVE  TypeOK'
<1> SUFFICES PcOK' /\ DataOK'
  BY DEF TypeOK
<1>0. PcOK /\ DataOK
  BY DEF TypeOK
<1> USE <1>0, ThreadFacts DEF steering, engine, lifeline
<1>1. CASE HandlerReturns
  <2>1. PcOK'
    BY <1>1, WorkerMoves DEF HandlerReturns, WorkerLabels, LoopLabels
  <2>2. DataOK'
    BY <1>1 DEF HandlerReturns, DataOK
  <2>3. QED
    BY <2>1, <2>2
<1>2. CASE HandlerThrows
  <2>1. PcOK'
    BY <1>2, WorkerMoves DEF HandlerThrows, WorkerLabels, LoopLabels
  <2>2. DataOK'
    BY <1>2 DEF HandlerThrows, DataOK
  <2>3. QED
    BY <2>1, <2>2
<1>3. CASE HandlerInterrupted
  <2>1. PcOK'
    BY <1>3, WorkerMoves DEF HandlerInterrupted, WorkerLabels, LoopLabels
  <2>2. DataOK'
    BY <1>3 DEF HandlerInterrupted, DataOK
  <2>3. QED
    BY <2>1, <2>2
<1>4. QED
  BY <1>1, <1>2, <1>3 DEF HandlerEnds

LEMMA ClientStepType ==
    ASSUME TypeOK, NEW c \in Clients, ClientStep(c)
    PROVE  TypeOK'
<1> SUFFICES PcOK' /\ DataOK'
  BY DEF TypeOK
<1>0. PcOK /\ DataOK
  BY DEF TypeOK
<1> USE <1>0, ThreadFacts DEF steering, engine, lifeline
<1>1. CASE WaitTest(c)
  <2>1. PcOK'
    BY <1>1, ClientMoves DEF WaitTest, ClientLabels, WaitLabels
  <2>2. DataOK'
    BY <1>1 DEF WaitTest, DataOK
  <2>3. QED
    BY <2>1, <2>2
<1>2. CASE WaitBlock(c)
  <2>1. PcOK'
    BY <1>2, ClientMoves DEF WaitBlock, ClientLabels, WaitLabels
  <2>2. DataOK'
    BY <1>2 DEF WaitBlock, DataOK
  <2>3. QED
    BY <2>1, <2>2
<1>3. CASE WaitForTest(c)
  <2>1. PcOK'
    BY <1>3, ClientMoves DEF WaitForTest, ClientLabels, WaitLabels
  <2>2. DataOK'
    BY <1>3, ForgetType DEF WaitForTest, DataOK
  <2>3. QED
    BY <2>1, <2>2
<1>4. CASE Skew(c) \/ Goto(c)
  BY <1>4, SkewType, GotoType DEF TypeOK
<1>5. QED
  BY <1>1, <1>2, <1>3, <1>4 DEF ClientStep

LEMMA CallType ==
    ASSUME TypeOK,
           \/ HandlerCall
           \/ \E c \in Clients : ClientCall(c)
    PROVE  TypeOK'
<1> SUFFICES PcOK' /\ DataOK'
  BY DEF TypeOK
<1>0. PcOK /\ DataOK
  BY DEF TypeOK
<1> USE <1>0, ThreadFacts DEF steering, engine, lifeline
<1>1. ASSUME NEW n \in Ids, HandlerSkews(n) \/ HandlerJumps(n)
      PROVE  PcOK' /\ DataOK'
  <2>1. PcOK'
    BY <1>1, WorkerMoves
       DEF HandlerSkews, HandlerJumps, WorkerLabels, SteerLabels, SkewLabels, JumpLabels
  <2>2. DataOK'
    <3>1. arg' \in [Threads -> Nodes \cup Ids]
      BY <1>1 DEF HandlerSkews, HandlerJumps, DataOK
    <3>2. QED
      BY <1>1, <3>1 DEF HandlerSkews, HandlerJumps, DataOK
  <2>3. QED
    BY <2>1, <2>2
<1>2. ASSUME NEW c \in Clients, NEW n \in Ids,
             CallGoto(c, n) \/ CallSkew(c, n) \/ CallWaitFor(c, n)
      PROVE  PcOK' /\ DataOK'
  <2>1. {"gLock", "sCur", "fTest"} \subseteq ClientLabels
    BY DEF ClientLabels, SteerLabels, GotoLabels, SkewLabels, WaitLabels
  <2>2. PcOK'
    BY <1>2, <2>1, ClientMoves DEF CallGoto, CallSkew, CallWaitFor
  <2>3. DataOK'
    <3>1. arg' \in [Threads -> Nodes \cup Ids]
      BY <1>2 DEF CallGoto, CallSkew, CallWaitFor, DataOK
    <3>2. QED
      BY <1>2, <3>1 DEF CallGoto, CallSkew, CallWaitFor, DataOK
  <2>4. QED
    BY <2>2, <2>3
<1>3. ASSUME NEW c \in Clients, CallWaitInactive(c)
      PROVE  PcOK' /\ DataOK'
  <2>1. PcOK'
    BY <1>3, ClientMoves DEF CallWaitInactive, ClientLabels, WaitLabels
  <2>2. DataOK'
    BY <1>3 DEF CallWaitInactive, DataOK
  <2>3. QED
    BY <2>1, <2>2
<1>4. QED
  BY <1>1, <1>2, <1>3 DEF HandlerCall, ClientCall

LEMMA LifecycleType ==
    ASSUME TypeOK, ThreadSpawn \/ ThreadPublish \/ CallStop \/ StopStep
    PROVE  TypeOK'
<1> SUFFICES PcOK' /\ DataOK'
  BY DEF TypeOK
<1>0. PcOK /\ DataOK
  BY DEF TypeOK
<1> USE <1>0, ThreadFacts DEF steering, engine, lifeline
<1>1. CASE ThreadSpawn
  <2>0. "tPublish" \in ClientLabels /\ "new" \in WorkerLabels
    BY DEF ClientLabels, WorkerLabels, LoopLabels
  <2>1. PcOK'
    BY <1>1, <2>0 DEF ThreadSpawn, PcOK, At
  <2>2. DataOK'
    BY <1>1 DEF ThreadSpawn, DataOK
  <2>3. QED
    BY <2>1, <2>2
<1>2. CASE ThreadPublish
  <2>1. PcOK'
    BY <1>2, ClientMoves DEF ThreadPublish, ClientLabels
  <2>2. DataOK'
    BY <1>2 DEF ThreadPublish, DataOK
  <2>3. QED
    BY <2>1, <2>2
<1>3. CASE CallStop
  <2>1. PcOK'
    BY <1>3, ClientMoves DEF CallStop, ClientLabels, StopLabels
  <2>2. DataOK'
    BY <1>3 DEF CallStop, DataOK
  <2>3. QED
    BY <2>1, <2>2
<1>4. CASE StopTest
  <2>1. PcOK'
    BY <1>4, ClientMoves DEF StopTest, ClientLabels, StopLabels
  <2>2. DataOK'
    BY <1>4 DEF StopTest, DataOK
  <2>3. QED
    BY <2>1, <2>2
<1>5. CASE StopInterrupt
  <2>1. PcOK'
    BY <1>5, ClientMoves DEF StopInterrupt, ClientLabels, StopLabels
  <2>2. DataOK'
    BY <1>5 DEF StopInterrupt, DataOK
  <2>3. QED
    BY <2>1, <2>2
<1>6. CASE StopNotify
  <2>0. /\ {"xUnlock", "wTest"} \subseteq ClientLabels
        /\ "pWait" \in WorkerLabels
    BY DEF ClientLabels, StopLabels, WaitLabels, WorkerLabels, LoopLabels
  <2>a. /\ "pParked" \notin ClientLabels
        /\ "wParked" \notin WorkerLabels
    BY DEF ClientLabels, StopLabels, WaitLabels, WorkerLabels, LoopLabels, SteerLabels,
           GotoLabels, SkewLabels, JumpLabels
  <2>1. PcOK'
    BY <1>6, <2>0, <2>a DEF StopNotify, PcOK, At
  <2>2. DataOK'
    BY <1>6 DEF StopNotify, DataOK
  <2>3. QED
    BY <2>1, <2>2
<1>7. CASE StopUnlock
  <2>1. PcOK'
    BY <1>7, ClientMoves DEF StopUnlock, ClientLabels, StopLabels
  <2>2. DataOK'
    BY <1>7 DEF StopUnlock, DataOK
  <2>3. QED
    BY <2>1, <2>2
<1>8. CASE StopJoin
  <2>1. PcOK'
    BY <1>8, ClientMoves DEF StopJoin, ClientLabels, StopLabels
  <2>2. DataOK'
    BY <1>8 DEF StopJoin, DataOK
  <2>3. QED
    BY <2>1, <2>2
<1>9. QED
  BY <1>1, <1>2, <1>3, <1>4, <1>5, <1>6, <1>7, <1>8 DEF StopStep

LEMMA SpuriousType ==
    ASSUME TypeOK, SpuriousWakeup
    PROVE  TypeOK'
<1>1. PcOK'
  <2>1. "pWait" \in WorkerLabels /\ {"wTest", "idle"} \subseteq ClientLabels
    BY DEF WorkerLabels, LoopLabels, ClientLabels, WaitLabels
  <2>2. QED
    BY <2>1, WorkerMoves, ClientMoves DEF SpuriousWakeup, TypeOK
<1>2. DataOK'
  BY DEF SpuriousWakeup, TypeOK, DataOK, steering, engine, lifeline
<1>3. QED
  BY <1>1, <1>2 DEF TypeOK

LEMMA NextType == TypeOK /\ [Next]_vars => TypeOK'
<1> SUFFICES ASSUME TypeOK, [Next]_vars PROVE TypeOK'
  OBVIOUS
<1>1. CASE LoopStep
  BY <1>1, LoopType
<1>2. CASE HandlerEnds
  BY <1>2, HandlerType
<1>3. CASE HandlerCall \/ \E c \in Clients : ClientCall(c)
  BY <1>3, CallType
<1>4. CASE Jump \/ Skew(Worker) \/ Goto(Worker)
  BY <1>4, JumpType, SkewType, GotoType, ThreadFacts
<1>5. CASE \E c \in Clients : ClientStep(c)
  BY <1>5, ClientStepType
<1>6. CASE ThreadSpawn \/ ThreadPublish \/ CallStop \/ StopStep
  BY <1>6, LifecycleType
<1>7. CASE SpuriousWakeup
  BY <1>7, SpuriousType
<1>8. CASE UNCHANGED vars
  BY <1>8 DEF TypeOK, PcOK, DataOK, vars, steering, engine, lifeline
<1>9. QED
  BY <1>1, <1>2, <1>3, <1>4, <1>5, <1>6, <1>7, <1>8 DEF Next

\* Every field keeps the type its declaration in SimpleFSM.h gives it, and
\* every thread stays at a point of its own code, in every interleaving.
THEOREM TypeCorrect == Spec => []TypeOK
  BY InitType, NextType, PTL DEF Spec

-----------------------------------------------------------------------------
(* The inductive invariant of the engine *)

Inv == InsideInv /\ ThreadInv /\ WakeInv /\ NotifyInv

\* Where the FSM thread is not inside FSMContinue.
LEMMA BusyFacts ==
    BusyLabels \cap {"none", "crashed", "new", "loop", "lNotify", "pTest", "pWait",
                     "pParked", "pReset"} = {}
  BY DEF BusyLabels, SteerLabels, GotoLabels, SkewLabels, JumpLabels

LEMMA InitInv == Init => Inv
<1> SUFFICES ASSUME Init PROVE Inv
  OBVIOUS
<1>1. pc[Worker] = "none" /\ pc[Owner] = "idle" /\ ~inside /\ path = <<>>
  BY ThreadFacts DEF Init
<1>2. QED
  BY <1>1, BusyFacts DEF Inv, InsideInv, ThreadInv, WakeInv, NotifyInv, At, DrowsyLabels

\* A step of the FSM thread within FSMContinue cannot disturb the invariant.
LEMMA BusyStep ==
    ASSUME Inv,
           \A c \in Clients : pc'[c] = pc[c],
           thread' = thread, inside' = inside,
           pc[Worker] \in BusyLabels, pc'[Worker] \in BusyLabels
    PROVE  Inv'
<1>1. InsideInv'
  BY DEF Inv, InsideInv
<1>2. ThreadInv'
  BY BusyFacts, ThreadFacts DEF Inv, ThreadInv, At
<1>3. WakeInv' /\ NotifyInv'
  BY BusyFacts DEF WakeInv, NotifyInv, DrowsyLabels, At
<1>4. QED
  BY <1>1, <1>2, <1>3 DEF Inv

\* The same for a step that moves the thread's program counter alone.
LEMMA BusyMove ==
    ASSUME TypeOK, Inv, NEW from \in BusyLabels, NEW to \in BusyLabels,
           Moves(Worker, from, to), thread' = thread, inside' = inside
    PROVE  Inv'
<1>1. pc[Worker] = from /\ pc'[Worker] = to /\ \A c \in Clients : pc'[c] = pc[c]
  BY ThreadFacts DEF Moves, TypeOK, PcOK
<1>2. QED
  BY <1>1, BusyStep

LEMMA BusyInv ==
    ASSUME TypeOK, Inv,
           \/ Goto(Worker) \/ Skew(Worker) \/ Jump \/ HandlerCall \/ HandlerReturns
           \/ ContinueSkip \/ ContinuePass \/ ContinueNext \/ ContinueCur \/ ContinueEnter
    PROVE  Inv'
<1> USE BusyMove DEF lifeline
<1>1. CASE Goto(Worker)
  <2>1. CASE GotoNotify(Worker)
    <3>1. /\ pc[Worker] = "gNotify" /\ pc'[Worker] = "gDone"
          /\ \A c \in Clients : pc'[c] = pc[c]
      BY <2>1, ThreadFacts DEF GotoNotify, At, TypeOK, PcOK
    <3>2. QED
      BY <2>1, <3>1, BusyStep DEF GotoNotify, BusyLabels, SteerLabels, GotoLabels
  <2>2. CASE GotoDone(Worker)
    BY <2>2 DEF GotoDone, Home, BusyLabels, SteerLabels, GotoLabels
  <2>3. CASE GotoLock(Worker) \/ GotoPlan(Worker) \/ GotoAssign(Worker)
    BY <2>3 DEF GotoLock, GotoPlan, GotoAssign, BusyLabels, SteerLabels, GotoLabels
  <2>4. CASE GotoTarget(Worker) \/ GotoWake(Worker)
    BY <2>4 DEF GotoTarget, GotoWake, BusyLabels, SteerLabels, GotoLabels
  <2>5. QED
    BY <1>1, <2>1, <2>2, <2>3, <2>4 DEF Goto
<1>2. CASE Skew(Worker)
  BY <1>2 DEF Skew, SkewCur, SkewTest, Home, BusyLabels, SteerLabels, SkewLabels, GotoLabels
<1>3. CASE Jump
  BY <1>3 DEF Jump, JumpLock, JumpCur, JumpRun, BusyLabels, JumpLabels
<1>4. CASE HandlerCall
  BY <1>4 DEF HandlerCall, HandlerSkews, HandlerJumps, BusyLabels, SteerLabels, SkewLabels,
              JumpLabels
<1>5. CASE HandlerReturns
  BY <1>5 DEF HandlerReturns, BusyLabels
<1>6. CASE ContinueSkip \/ ContinuePass
  BY <1>6 DEF ContinueSkip, ContinuePass, BusyLabels
<1>7. CASE ContinueNext
  BY <1>7 DEF ContinueNext, BusyLabels
<1>8. CASE ContinueCur \/ ContinueEnter
  BY <1>8 DEF ContinueCur, ContinueEnter, BusyLabels
<1>9. QED
  BY <1>1, <1>2, <1>3, <1>4, <1>5, <1>6, <1>7, <1>8

\* The steps of the FSM thread outside FSMContinue, into it and out of it.
LEMMA LoopInv ==
    ASSUME TypeOK, Inv,
           \/ WorkerStarts \/ LoopTest \/ ContinuePop \/ ContinueDone \/ LoopNotify
           \/ PauseTest \/ PauseWait \/ PauseInterrupted \/ PauseReset
           \/ HandlerThrows \/ HandlerInterrupted
    PROVE  Inv'
<1> DEFINE Outside == {"none", "crashed", "new", "loop", "lNotify", "pTest", "pWait",
                       "pParked", "pReset"}
<1>0. ASSUME NEW from, NEW to, Moves(Worker, from, to)
      PROVE  pc[Worker] = from /\ pc'[Worker] = to /\ \A c \in Clients : pc'[c] = pc[c]
  BY <1>0, ThreadFacts DEF Moves, TypeOK, PcOK
<1> USE ThreadFacts, BusyFacts
        DEF Inv, InsideInv, ThreadInv, WakeInv, NotifyInv, DrowsyLabels, At, lifeline, engine
<1>1. CASE WorkerStarts
  BY <1>0, <1>1 DEF WorkerStarts
<1>2. CASE LoopTest
  <2>1. CASE LoopExit("loop") /\ inside' = inside
    BY <1>0, <1>2, <2>1 DEF LoopTest, LoopExit
  <2>2. CASE Moves(Worker, "loop", "lNotify") /\ inside' = inside /\ (inside \/ path = <<>>)
    BY <1>0, <1>2, <2>2 DEF LoopTest
  <2>3. CASE Moves(Worker, "loop", "cPop") /\ inside' = TRUE
    <3>1. "cPop" \in BusyLabels
      BY DEF BusyLabels
    <3>2. QED
      BY <1>0, <1>2, <2>3, <3>1 DEF LoopTest
  <2>4. QED
    BY <1>2, <2>1, <2>2, <2>3 DEF LoopTest
<1>3. CASE ContinuePop
  <2>1. "cPop" \in BusyLabels /\ "cSkip" \in BusyLabels
    BY DEF BusyLabels
  <2>2. CASE path = <<>>
    <3>1. pc[Worker] = "cPop" /\ \A t \in Threads : pc'[t] = "crashed"
      BY <1>3, <2>2 DEF ContinuePop
    <3>2. QED
      BY <1>3, <2>1, <2>2, <3>1 DEF ContinuePop
  <2>3. CASE path # <<>>
    BY <1>3, <2>1, <2>3, BusyMove DEF ContinuePop
  <2>4. QED
    BY <2>2, <2>3
<1>4. CASE ContinueDone
  <2>1. "cDone" \in BusyLabels
    BY DEF BusyLabels
  <2>2. QED
    BY <1>0, <1>4, <2>1 DEF ContinueDone
<1>5. CASE LoopNotify
  <2>1. CASE LoopExit("lNotify")
    BY <1>0, <1>5, <2>1 DEF LoopNotify, LoopExit
  <2>2. CASE pc' = [t \in Threads |-> IF t = Worker THEN "pTest"
                                     ELSE IF pc[t] = "wParked" THEN "wTest" ELSE pc[t]]
    <3>1. /\ pc'[Worker] = "pTest"
          /\ \A c \in Clients : pc'[c] = IF pc[c] = "wParked" THEN "wTest" ELSE pc[c]
      BY <2>2
    <3>2. {"wTest", "wParked"} \cap SteerLabels = {}
      BY DEF SteerLabels, GotoLabels, SkewLabels
    <3>3. QED
      BY <1>0, <1>5, <3>1, <3>2 DEF LoopNotify, LoopExit
  <2>3. QED
    BY <1>5, <2>1, <2>2 DEF LoopNotify
<1>6. CASE PauseTest
  BY <1>0, <1>6 DEF PauseTest
<1>7. CASE PauseWait
  BY <1>0, <1>7 DEF PauseWait
<1>8. CASE PauseInterrupted
  BY <1>0, <1>8 DEF PauseInterrupted
<1>9. CASE PauseReset
  BY <1>0, <1>9 DEF PauseReset
<1>10. CASE HandlerThrows
  <2>1. "hRun" \in BusyLabels
    BY DEF BusyLabels
  <2>2. QED
    BY <1>0, <1>10, <2>1 DEF HandlerThrows
<1>11. CASE HandlerInterrupted
  <2>1. "hRun" \in BusyLabels /\ "jRun" \in BusyLabels
    BY DEF BusyLabels, JumpLabels
  <2>2. QED
    BY <1>0, <1>11, <2>1 DEF HandlerInterrupted
<1>12. QED
  BY <1>1, <1>2, <1>3, <1>4, <1>5, <1>6, <1>7, <1>8, <1>9, <1>10, <1>11

\* A client that moves alone to a label from which no wakeup is owed, with the
\* state the invariant is about unchanged.
LEMMA ClientMove ==
    ASSUME TypeOK, Inv, OpenIsExclusive, NEW c \in Clients, NEW from, NEW to,
           Moves(c, from, to),
           from \notin {"gTarget", "gWake", "gNotify", "tPublish", "crashed"}, to # "tPublish",
           to \in SteerLabels => from \in SteerLabels \/ ~At(Owner, "tPublish"),
           path' = path \/ path' = <<>>,
           UNCHANGED <<inside, paused, interrupt, thread>>
    PROVE  Inv'
<1>1. /\ pc[c] = from /\ pc'[c] = to
      /\ \A u \in Threads : u # c => pc'[u] = pc[u]
  BY ThreadFacts DEF Moves, TypeOK, PcOK
<1>2. InsideInv'
  BY <1>1, ThreadFacts DEF Inv, InsideInv
<1>3. ThreadInv'
  <2>1. pc'[Worker] = pc[Worker] /\ (pc[Owner] = "tPublish" <=> pc'[Owner] = "tPublish")
    BY <1>1, ThreadFacts
  <2>2. QED
    BY <1>1, <2>1, ThreadFacts DEF Inv, ThreadInv, At
<1>4. WakeInv'
  BY <1>1, ThreadFacts DEF Inv, WakeInv
<1>5. NotifyInv'
  BY <1>1, ThreadFacts DEF Inv, NotifyInv, At
<1>6. QED
  BY <1>2, <1>3, <1>4, <1>5 DEF Inv

LEMMA ClientInv ==
    ASSUME TypeOK, Inv, OpenIsExclusive, NEW c \in Clients, ClientStep(c) \/ ClientCall(c)
    PROVE  Inv'
<1> USE ThreadFacts DEF engine, lifeline
<1>0. ASSUME NEW from, NEW to, Moves(c, from, to)
      PROVE  /\ pc[c] = from /\ pc'[c] = to
             /\ \A u \in Threads : u # c => pc'[u] = pc[u]
  BY <1>0 DEF Moves, TypeOK, PcOK
<1>1. Home(c) = "idle"
  BY DEF Home
<1>a. /\ {"gLock", "gPlan", "gAssign", "gTarget", "gWake", "gNotify", "gDone", "sCur",
          "sTest"} \subseteq SteerLabels
      /\ "idle" \notin SteerLabels
  BY DEF SteerLabels, GotoLabels, SkewLabels
<1>2. CASE GotoLock(c) \/ GotoPlan(c)
  BY <1>2, <1>a, ClientMove DEF GotoLock, GotoPlan
\* The path is published by a call that owes a wakeup from now on.
<1>3. CASE GotoAssign(c)
  BY <1>0, <1>3, <1>a
     DEF GotoAssign, Inv, InsideInv, ThreadInv, WakeInv, NotifyInv, At
<1>4. CASE GotoTarget(c)
  BY <1>0, <1>4, <1>a
     DEF GotoTarget, Inv, InsideInv, ThreadInv, WakeInv, NotifyInv, At
\* Without a thread there is nobody to be drowsy: FSMThreadStart is not running
\* while a client steers.
<1>5. CASE GotoWake(c)
  <2>1. ~At(Owner, "tPublish")
    BY <1>0, <1>5, <1>a DEF GotoWake, Inv, ThreadInv, At
  <2>2. InsideInv' /\ ThreadInv'
    BY <1>0, <1>5, <1>a, <2>1 DEF GotoWake, Inv, InsideInv, ThreadInv, At
  <2>3. CASE thread /\ ~interrupt
    <3>1. ~paused' /\ pc'[c] = "gNotify" /\ pc'[Worker] = pc[Worker]
      BY <1>0, <1>5, <2>3 DEF GotoWake
    <3>2. QED
      BY <2>2, <3>1 DEF Inv, WakeInv, NotifyInv, At
  <2>4. CASE ~thread
    <3>1. pc'[Worker] \in {"none", "crashed"}
      BY <1>0, <1>5, <2>1, <2>4 DEF GotoWake, Inv, ThreadInv
    <3>2. QED
      BY <2>2, <3>1 DEF Inv, WakeInv, NotifyInv, At, DrowsyLabels
  <2>5. CASE interrupt
    BY <1>5, <2>2, <2>5 DEF GotoWake, Inv, WakeInv, NotifyInv
  <2>6. QED
    BY <2>3, <2>4, <2>5
<1>6. CASE GotoNotify(c)
  <2>1. /\ pc[c] = "gNotify" /\ pc'[c] = "gDone"
        /\ pc'[Worker] = IF pc[Worker] = "pParked" THEN "pWait" ELSE pc[Worker]
        /\ \A d \in Clients : d # c => pc'[d] = pc[d]
    BY <1>6 DEF GotoNotify, At, TypeOK, PcOK
  <2>2. InsideInv'
    BY <1>6, <2>1, BusyFacts DEF GotoNotify, Inv, InsideInv
  <2>3. ThreadInv'
    <3>1. thread' = thread
      BY <1>6 DEF GotoNotify
    <3>2. pc[Owner] = "tPublish" <=> pc'[Owner] = "tPublish"
      BY <2>1
    <3>3. \A d \in Clients : pc'[d] \in SteerLabels => pc[d] \in SteerLabels
      BY <1>a, <2>1
    <3>4. pc[Worker] # "crashed"
      BY <2>1 DEF Inv, ThreadInv, At
    <3>5. pc'[Worker] # "crashed" /\ (pc[Worker] = "none" => pc'[Worker] = "none")
      BY <2>1, <3>4
    <3>6. QED
      BY <3>1, <3>2, <3>3, <3>4, <3>5 DEF Inv, ThreadInv, At
  <2>4. NotifyInv'
    BY <2>1 DEF NotifyInv, At
  <2>5. WakeInv'
    <3>1. \A d \in Clients : pc[d] \in {"gTarget", "gWake"} => pc'[d] \in {"gTarget", "gWake"}
      BY <2>1
    <3>2. pc'[Worker] \in DrowsyLabels => pc[Worker] \in DrowsyLabels
      BY <2>1 DEF DrowsyLabels
    <3>3. QED
      BY <1>6, <3>1, <3>2 DEF GotoNotify, Inv, WakeInv
  <2>6. QED
    BY <2>2, <2>3, <2>4, <2>5 DEF Inv
<1>7. CASE GotoDone(c)
  BY <1>1, <1>7, <1>a, ClientMove DEF GotoDone
<1>8. CASE Skew(c)
  BY <1>1, <1>8, <1>a, ClientMove DEF Skew, SkewCur, SkewTest
<1>9. CASE WaitTest(c) \/ WaitBlock(c) \/ WaitForTest(c)
  <2>1. {"wTest", "wBlock", "wParked", "fTest", "fParked"} \cap SteerLabels = {}
    BY DEF SteerLabels, GotoLabels, SkewLabels
  <2>2. QED
    BY <1>9, <1>a, <2>1, ClientMove DEF WaitTest, WaitBlock, WaitForTest
<1>10. CASE ClientCall(c)
  <2>1. {"wTest", "fTest"} \cap SteerLabels = {}
    BY DEF SteerLabels, GotoLabels, SkewLabels
  <2>2. ASSUME NEW n \in Ids, CallGoto(c, n) \/ CallSkew(c, n)
        PROVE  Inv'
    BY <2>2, ClientMove DEF CallGoto, CallSkew, Admitted
  <2>3. ASSUME NEW n \in Ids, CallWaitFor(c, n)
        PROVE  Inv'
    BY <2>1, <2>3, ClientMove DEF CallWaitFor
  <2>4. CASE CallWaitInactive(c)
    BY <2>1, <2>4, ClientMove DEF CallWaitInactive
  <2>5. QED
    BY <1>10, <2>2, <2>3, <2>4 DEF ClientCall
<1>11. QED
  BY <1>2, <1>3, <1>4, <1>5, <1>6, <1>7, <1>8, <1>9, <1>10 DEF ClientStep, Goto

LEMMA LifecycleInv ==
    ASSUME TypeOK, Inv, OpenIsExclusive,
           ThreadSpawn \/ ThreadPublish \/ CallStop \/ StopStep
    PROVE  Inv'
<1> USE ThreadFacts DEF engine, lifeline
<1>a. {"idle", "tPublish", "xTest", "xInterrupt", "xNotify", "xUnlock", "xJoin"}
          \cap SteerLabels = {}
  BY DEF SteerLabels, GotoLabels, SkewLabels
<1>0. ASSUME NEW from, NEW to, Moves(Owner, from, to)
      PROVE  /\ pc[Owner] = from /\ pc'[Owner] = to /\ pc'[Worker] = pc[Worker]
             /\ \A c \in Clients : c # Owner => pc'[c] = pc[c]
  BY <1>0 DEF Moves, TypeOK, PcOK
<1>1. CASE ThreadSpawn
  <2>1. /\ pc'[Owner] = "tPublish" /\ pc'[Worker] = "new"
        /\ \A c \in Clients : c # Owner => pc'[c] = pc[c]
    BY <1>1 DEF ThreadSpawn, TypeOK, PcOK
  <2>2. \A c \in Clients : pc'[c] \notin SteerLabels
    BY <1>1, <1>a, <2>1 DEF ThreadSpawn
  <2>3. InsideInv'
    <3>1. pc[Worker] \in {"none", "crashed"}
      BY <1>1 DEF ThreadSpawn, Inv, ThreadInv, At
    <3>2. ~HandlersThrow => ~inside
      BY <1>1, <3>1, BusyFacts DEF ThreadSpawn, Inv, InsideInv, ThreadInv, At
    <3>3. QED
      BY <1>1, <2>1, <3>2, BusyFacts DEF ThreadSpawn, InsideInv
  <2>4. ThreadInv'
    BY <2>1, <2>2 DEF ThreadInv, At
  <2>5. WakeInv' /\ NotifyInv'
    BY <2>1 DEF WakeInv, NotifyInv, At, DrowsyLabels
  <2>6. QED
    BY <2>3, <2>4, <2>5 DEF Inv
<1>2. CASE ThreadPublish
  <2>1. /\ pc[Owner] = "tPublish" /\ pc'[Owner] = "idle" /\ pc'[Worker] = pc[Worker]
        /\ \A c \in Clients : c # Owner => pc'[c] = pc[c]
        /\ thread'
    BY <1>0, <1>2 DEF ThreadPublish
  <2>2. InsideInv'
    BY <1>2, <2>1 DEF ThreadPublish, Inv, InsideInv
  <2>3. ThreadInv'
    BY <2>1 DEF Inv, ThreadInv, At
  <2>4. WakeInv' /\ NotifyInv'
    BY <1>2, <2>1 DEF ThreadPublish, Inv, WakeInv, NotifyInv, At
  <2>5. QED
    BY <2>2, <2>3, <2>4 DEF Inv
<1>3. CASE CallStop
  BY <1>3, <1>a, ClientMove DEF CallStop
<1>4. CASE StopTest
  <2>1. /\ pc[Owner] = "xTest" /\ pc'[Owner] \in {"xInterrupt", "idle"}
        /\ pc'[Worker] = pc[Worker]
        /\ \A c \in Clients : c # Owner => pc'[c] = pc[c]
        /\ interrupt => interrupt'
    BY <1>0, <1>4 DEF StopTest
  <2>2. InsideInv'
    BY <1>4, <2>1 DEF StopTest, Inv, InsideInv
  <2>3. ThreadInv'
    BY <1>4, <2>1 DEF StopTest, Inv, ThreadInv, At
  <2>4. WakeInv' /\ NotifyInv'
    BY <1>4, <2>1 DEF StopTest, Inv, WakeInv, NotifyInv, At
  <2>5. QED
    BY <2>2, <2>3, <2>4 DEF Inv
<1>5. CASE StopInterrupt \/ StopUnlock
  BY <1>5, <1>a, ClientMove DEF StopInterrupt, StopUnlock
<1>6. CASE StopNotify
  <2>1. /\ pc[Owner] = "xNotify" /\ pc'[Owner] = "xUnlock"
        /\ pc'[Worker] = IF pc[Worker] = "pParked" THEN "pWait" ELSE
                         IF pc[Worker] = "wParked" THEN "wTest" ELSE pc[Worker]
        /\ \A c \in Clients : c # Owner =>
              pc'[c] = IF pc[c] = "wParked" THEN "wTest"
                       ELSE IF pc[c] = "pParked" THEN "pWait" ELSE pc[c]
    BY <1>6 DEF StopNotify, At
  <2>2. {"wTest", "wParked", "pWait", "pParked"} \cap SteerLabels = {}
    BY DEF SteerLabels, GotoLabels, SkewLabels
  <2>3. pc[Worker] # "wParked"
    BY DEF TypeOK, PcOK, WorkerLabels, LoopLabels, SteerLabels, GotoLabels, SkewLabels,
           JumpLabels
  <2>4. InsideInv' /\ ThreadInv'
    <3>1. /\ pc[Owner] # "tPublish" /\ pc'[Owner] # "tPublish"
          /\ thread' = thread /\ inside' = inside
      BY <1>6, <2>1 DEF StopNotify
    <3>2. QED
      BY <2>1, <2>3, <3>1, BusyFacts DEF Inv, InsideInv, ThreadInv, At
  <2>5. WakeInv' /\ NotifyInv'
    BY <1>6, <2>1, <2>3 DEF StopNotify, Inv, WakeInv, NotifyInv, At, DrowsyLabels
  <2>6. QED
    BY <2>4, <2>5 DEF Inv
<1>7. CASE StopJoin
  BY <1>0, <1>7, <1>a
     DEF StopJoin, Inv, InsideInv, ThreadInv, WakeInv, NotifyInv, At, DrowsyLabels
<1>8. QED
  BY <1>1, <1>2, <1>3, <1>4, <1>5, <1>6, <1>7 DEF StopStep

LEMMA SpuriousInv ==
    ASSUME TypeOK, Inv, OpenIsExclusive, SpuriousWakeup
    PROVE  Inv'
<1> USE ThreadFacts DEF engine, lifeline
<1>1. CASE Moves(Worker, "pParked", "pWait")
  <2>1. /\ pc[Worker] = "pParked" /\ pc'[Worker] = "pWait"
        /\ \A c \in Clients : pc'[c] = pc[c]
    BY <1>1 DEF Moves, TypeOK, PcOK
  <2>2. QED
    BY <2>1, BusyFacts
       DEF SpuriousWakeup, Inv, InsideInv, ThreadInv, WakeInv, NotifyInv, At, DrowsyLabels
<1>2. ASSUME NEW c \in Clients,
             Moves(c, "wParked", "wTest") \/ Moves(c, "fParked", "idle")
      PROVE  Inv'
  <2>1. {"wTest", "idle"} \cap SteerLabels = {}
    BY DEF SteerLabels, GotoLabels, SkewLabels
  <2>2. QED
    BY <1>2, <2>1, ClientMove DEF SpuriousWakeup
<1>3. QED
  BY <1>1, <1>2 DEF SpuriousWakeup

LEMMA NextInv ==
    ASSUME OpenIsExclusive
    PROVE  TypeOK /\ Inv /\ [Next]_vars => Inv'
<1> SUFFICES ASSUME TypeOK, Inv, [Next]_vars PROVE Inv'
  OBVIOUS
<1>1. CASE LoopStep \/ HandlerEnds
  BY <1>1, LoopInv, BusyInv DEF LoopStep, HandlerEnds
<1>2. CASE HandlerCall \/ Jump \/ Skew(Worker) \/ Goto(Worker)
  BY <1>2, BusyInv
<1>3. CASE \E c \in Clients : ClientStep(c) \/ ClientCall(c)
  BY <1>3, ClientInv
<1>4. CASE ThreadSpawn \/ ThreadPublish \/ CallStop \/ StopStep
  BY <1>4, LifecycleInv
<1>5. CASE SpuriousWakeup
  BY <1>5, SpuriousInv
<1>6. CASE UNCHANGED vars
  BY <1>6 DEF vars, engine, lifeline, Inv, InsideInv, ThreadInv, WakeInv, NotifyInv, At
<1>7. QED
  BY <1>1, <1>2, <1>3, <1>4, <1>5, <1>6 DEF Next

LEMMA InvCorrect == ASSUME OpenIsExclusive PROVE Spec => []Inv
  BY InitInv, NextInv, TypeCorrect, PTL DEF Spec

\* Only the interruption clears fsmThreadActive, and it ends the thread.
LEMMA ActiveKeeps == TypeOK /\ ActiveInv /\ [Next]_vars => ActiveInv'
<1> SUFFICES ASSUME TypeOK, ActiveInv, [Next]_vars PROVE ActiveInv'
  OBVIOUS
<1> USE ThreadFacts DEF lifeline
<1>0. PcOK
  BY DEF TypeOK
<1>a. ASSUME NEW t \in Threads, NEW from, NEW to, Moves(t, from, to)
      PROVE  /\ pc[t] = from /\ pc'[t] = to
             /\ \A u \in Threads : u # t => pc'[u] = pc[u]
  BY <1>0, <1>a DEF Moves, PcOK
\* Steps that leave the flag and the place of the thread, or its being past its
\* first line, as they are.
<1>b. ASSUME active' = active,
             \/ pc'[Worker] = pc[Worker] \/ pc'[Worker] = "none" \/ pc'[Worker] = "new"
             \/ pc'[Worker] = "crashed" \/ pc[Worker] \notin {"none", "new", "crashed"}
      PROVE  ActiveInv'
  BY <1>b DEF ActiveInv
<1>1. CASE WorkerStarts
  BY <1>1 DEF WorkerStarts, ActiveInv
<1>2. CASE HandlerInterrupted
  <2>1. pc'[Worker] = "none"
    BY <1>2, <1>a DEF HandlerInterrupted
  <2>2. QED
    BY <2>1 DEF ActiveInv
<1>3. CASE \/ LoopStep /\ ~WorkerStarts
           \/ HandlerReturns \/ HandlerThrows \/ HandlerCall \/ Jump \/ Skew(Worker) \/ Goto(Worker)
  <2>1. active' = active
    BY <1>3
       DEF LoopStep, LoopTest, ContinuePop, ContinueSkip, ContinuePass, ContinueNext, ContinueCur,
           ContinueEnter, ContinueDone, LoopNotify, PauseTest, PauseWait, PauseInterrupted,
           PauseReset, HandlerReturns, HandlerThrows, HandlerCall, HandlerSkews, HandlerJumps, Jump,
           JumpLock, JumpCur, JumpRun, Skew, SkewCur, SkewTest, Goto, GotoLock, GotoPlan,
           GotoAssign, GotoTarget, GotoWake, GotoNotify, GotoDone
  <2>2. pc[Worker] \notin {"none", "new", "crashed"}
    <3>1. CASE LoopStep /\ ~WorkerStarts
      BY <3>1
         DEF LoopStep, LoopTest, LoopExit, ContinuePop, ContinueSkip, ContinuePass, ContinueNext,
             ContinueCur, ContinueEnter, ContinueDone, LoopNotify, PauseTest, PauseWait,
             PauseInterrupted, PauseReset, Moves, At
    <3>2. CASE HandlerReturns \/ HandlerThrows \/ HandlerCall \/ Jump
      BY <3>2
         DEF HandlerReturns, HandlerThrows, HandlerCall, HandlerSkews, HandlerJumps, Jump, JumpLock,
             JumpCur, JumpRun, Moves
    <3>3. CASE Skew(Worker) \/ Goto(Worker)
      BY <3>3
         DEF Skew, SkewCur, SkewTest, Goto, GotoLock, GotoPlan, GotoAssign, GotoTarget, GotoWake,
             GotoNotify, GotoDone, Moves, At
    <3>4. QED
      BY <1>3, <3>1, <3>2, <3>3
  <2>3. QED
    BY <1>b, <2>1, <2>2
<1>4. ASSUME NEW c \in Clients, ClientStep(c) \/ ClientCall(c)
      PROVE  ActiveInv'
  <2>1. active' = active
    BY <1>4
       DEF ClientStep, ClientCall, CallGoto, CallSkew, CallWaitFor, CallWaitInactive, WaitTest,
           WaitBlock, WaitForTest, Skew, SkewCur, SkewTest, Goto, GotoLock, GotoPlan, GotoAssign,
           GotoTarget, GotoWake, GotoNotify, GotoDone
  <2>2. pc'[Worker] = pc[Worker] \/ pc[Worker] = "pParked"
    <3>1. CASE GotoNotify(c)
      BY <1>0, <3>1 DEF GotoNotify, At, PcOK
    <3>2. CASE ~GotoNotify(c)
      <4>1. PICK from, to : Moves(c, from, to)
        BY <1>4, <3>2
           DEF ClientStep, ClientCall, CallGoto, CallSkew, CallWaitFor, CallWaitInactive, WaitTest,
               WaitBlock, WaitForTest, Skew, SkewCur, SkewTest, Goto, GotoLock, GotoPlan,
               GotoAssign, GotoTarget, GotoWake, GotoDone
      <4>2. QED
        BY <1>a, <4>1
    <3>3. QED
      BY <3>1, <3>2
  <2>3. QED
    BY <1>b, <2>1, <2>2
<1>5. CASE ThreadSpawn
  BY <1>0, <1>5, <1>b DEF ThreadSpawn, PcOK
<1>6. CASE StopNotify
  <2>1. active' = active /\ pc'[Worker] \in {pc[Worker], "wTest", "pWait"}
    BY <1>6 DEF StopNotify
  <2>2. pc'[Worker] = pc[Worker] \/ pc[Worker] \in {"wParked", "pParked"}
    BY <1>6 DEF StopNotify
  <2>3. QED
    BY <1>b, <2>1, <2>2
<1>7. CASE ThreadPublish \/ CallStop \/ StopTest \/ StopInterrupt \/ StopUnlock \/ StopJoin
  <2>1. active' = active
    BY <1>7 DEF ThreadPublish, CallStop, StopTest, StopInterrupt, StopUnlock, StopJoin
  <2>2. PICK from, to : Moves(Owner, from, to)
    BY <1>7 DEF ThreadPublish, CallStop, StopTest, StopInterrupt, StopUnlock, StopJoin
  <2>3. QED
    BY <1>a, <1>b, <2>1, <2>2
<1>8. CASE SpuriousWakeup
  <2>1. active' = active
    BY <1>8 DEF SpuriousWakeup
  <2>2. PICK t \in Threads : \E from \in {"pParked", "wParked", "fParked"} : \E to : Moves(t, from, to)
    BY <1>8 DEF SpuriousWakeup
  <2>3. QED
    BY <1>a, <1>b, <2>1, <2>2
<1>9. CASE UNCHANGED vars
  BY <1>9 DEF vars, ActiveInv
<1>10. QED
  BY <1>1, <1>2, <1>3, <1>4, <1>5, <1>6, <1>7, <1>8, <1>9 DEF Next, HandlerEnds, StopStep

LEMMA ActiveCorrect == Spec => []ActiveInv
<1>1. Init => ActiveInv
  BY ThreadFacts DEF Init, ActiveInv
<1>2. QED
  BY <1>1, ActiveKeeps, TypeCorrect, PTL DEF Spec

\* The inductive invariant of the engine holds of every registry and every set
\* of clients, when the engine is handed to them once it is started.
THEOREM EngineCorrect == ASSUME OpenIsExclusive PROVE Spec => []EngineInv
<1>1. TypeOK /\ Inv /\ ActiveInv => EngineInv
  BY DEF EngineInv, Inv
<1>2. QED
  BY <1>1, InvCorrect, ActiveCorrect, TypeCorrect, PTL

\* FSMGoto, _fsmWakeup and _fsmPause lose no request: no interleaving leaves
\* the FSM thread parked on a path nobody will wake it up for.
THEOREM WakeupCorrect == ASSUME OpenIsExclusive PROVE Spec => []NoLostWakeup
<1>1. EngineInv => NoLostWakeup
  BY DEF EngineInv, WakeInv, NotifyInv, NoLostWakeup, At, DrowsyLabels, TypeOK, DataOK
<1>2. QED
  BY <1>1, EngineCorrect, PTL

\* Unless a handler throws, the engine never rests with fsmInsideHandler set.
THEOREM InsideCorrect ==
    ASSUME OpenIsExclusive, ~HandlersThrow PROVE Spec => []RestsOutsideHandler
<1>1. EngineInv => RestsOutsideHandler
  BY BusyFacts DEF EngineInv, InsideInv, RestsOutsideHandler
<1>2. QED
  BY <1>1, EngineCorrect, PTL

\* FSMThreadStop does not return past a thread that has begun to run, whether it
\* believes that there is none or has joined it.
LEMMA StopEnds ==
    ASSUME EngineInv, [Next]_vars, pc[Owner] \in StopLabels, pc'[Owner] = "idle"
    PROVE  pc'[Worker] = "none" \/ (pc'[Worker] = "new" /\ thread')
<1> USE ThreadFacts
<1>0. PcOK /\ ThreadInv /\ ActiveInv
  BY DEF EngineInv, TypeOK
<1>1. pc[Owner] \notin SteerLabels \cup WaitLabels \cup {"idle", "tPublish", "crashed"}
  BY DEF StopLabels, SteerLabels, GotoLabels, SkewLabels, WaitLabels
<1>2. ASSUME NEW t \in Threads, NEW from, NEW to, Moves(t, from, to)
      PROVE  t = Owner /\ pc[Owner] = from /\ to = "idle" /\ pc'[Worker] = pc[Worker]
  <2>1. /\ pc[t] = from /\ pc'[t] = to
        /\ \A u \in Threads : u # t => pc'[u] = pc[u]
    BY <1>0, <1>2 DEF Moves, PcOK
  <2>2. pc'[Owner] # pc[Owner]
    BY DEF StopLabels
  <2>3. QED
    BY <2>1, <2>2
\* It can only be one of the two steps by which FSMThreadStop returns.
<1>3. StopTest \/ StopJoin
  <2>1. ~UNCHANGED vars
    BY DEF vars, StopLabels
  <2>2. ~(\E t \in Threads : GotoNotify(t)) /\ ~StopNotify
    <3>1. ASSUME NEW t \in Threads, GotoNotify(t)
          PROVE  FALSE
      <4>1. t # Owner
        BY <3>1 DEF GotoNotify, At, StopLabels
      <4>2. pc'[Owner] = pc[Owner]
        BY <1>0, <3>1, <4>1 DEF GotoNotify, PcOK
      <4>3. QED
        BY <4>2 DEF StopLabels
    <3>2. ~StopNotify
      BY DEF StopNotify
    <3>3. QED
      BY <3>1, <3>2
  <2>3. ~(\E t \in Threads : Skew(t) \/ Goto(t))
    BY <1>1, <1>2, <2>2
       DEF Skew, SkewCur, SkewTest, Goto, GotoLock, GotoPlan, GotoAssign, GotoTarget, GotoWake,
           GotoDone, SteerLabels, GotoLabels, SkewLabels
  <2>4. ~(LoopStep /\ ~ContinuePop /\ ~LoopNotify) /\ ~HandlerEnds /\ ~HandlerCall /\ ~Jump
    BY <1>2
       DEF LoopStep, WorkerStarts, LoopTest, LoopExit, ContinueSkip, ContinuePass, ContinueNext,
           ContinueCur, ContinueEnter, ContinueDone, PauseTest, PauseWait, PauseInterrupted,
           PauseReset, HandlerEnds, HandlerReturns, HandlerThrows, HandlerInterrupted, HandlerCall,
           HandlerSkews, HandlerJumps, Jump, JumpLock, JumpCur, JumpRun
  <2>5. ~ContinuePop
    BY <1>2 DEF ContinuePop, At
  <2>6. ~LoopNotify
    BY <1>2 DEF LoopNotify, LoopExit, At, StopLabels
  <2>7. ~(\E c \in Clients : ClientStep(c) \/ ClientCall(c))
    BY <1>1, <1>2, <2>3
       DEF ClientStep, ClientCall, CallGoto, CallSkew, CallWaitFor, CallWaitInactive, WaitTest,
           WaitBlock, WaitForTest, WaitLabels
  <2>8. ~ThreadSpawn /\ ~ThreadPublish /\ ~CallStop
    BY <1>1, <1>2 DEF ThreadSpawn, ThreadPublish, CallStop, At
  <2>9. ~SpuriousWakeup
    BY <1>1, <1>2 DEF SpuriousWakeup, WaitLabels
  <2>10. ~StopInterrupt /\ ~StopUnlock
    BY <1>2 DEF StopInterrupt, StopUnlock
  <2>11. QED
    BY <2>1, <2>2, <2>3, <2>4, <2>5, <2>6, <2>7, <2>8, <2>9, <2>10 DEF Next, StopStep
<1>4. CASE StopTest
  <2>1. ~(thread /\ active) /\ thread' = thread /\ pc'[Worker] = pc[Worker]
    BY <1>2, <1>4 DEF StopTest
  <2>2. pc[Worker] # "crashed"
    BY <1>0, <1>1 DEF ThreadInv, At
  <2>3. QED
    BY <1>0, <1>1, <2>1, <2>2 DEF ThreadInv, ActiveInv, At
<1>5. CASE StopJoin
  BY <1>2, <1>5 DEF StopJoin, At
<1>6. QED
  BY <1>3, <1>4, <1>5

\* The property of that lemma, in every behaviour of the engine.
THEOREM StopCorrect == ASSUME OpenIsExclusive PROVE Spec => StopLeavesNoThread
<1>1. EngineInv /\ [Next]_vars =>
         [pc[Owner] \in StopLabels /\ pc'[Owner] = "idle" =>
             At(Worker, "none")' \/ (At(Worker, "new")' /\ thread')]_vars
  BY StopEnds DEF At
<1>2. QED
  BY <1>1, EngineCorrect, PTL DEF Spec, StopLeavesNoThread
-----------------------------------------------------------------------------
(* fsmGotoMutex and the path *)

\* Where a thread holds fsmGotoMutex: in FSMGoto and in FSMJump, to their ends.
HeldLabels == {"gPlan", "gAssign", "gTarget", "gWake", "gNotify", "gDone", "jCur", "jRun"}

\* Nobody but the holder of fsmGotoMutex is there ...
HolderInv == \A t \in Threads : pc[t] \in HeldLabels => gotoMutex = t

\* ... and until it publishes its route, which ends where its call is going,
\* the path stays empty ...
PlanInv ==
    \A t \in Threads :
        /\ pc[t] \in {"gPlan", "gAssign"} => path = <<>>
        /\ At(t, "gAssign") => Len(plan[t]) >= 2 /\ plan[t][Len(plan[t])] = arg[t]

\* ... and what it has published is walked from the front only.
PublishedInv ==
    \A t \in Threads : At(t, "gTarget") /\ path # <<>> => path[Len(path)] = arg[t]

\* Nobody stops the thread, which would unlock fsmGotoMutex under its holder.
NoStop == pc[Owner] \notin StopLabels

\* Without a started thread there is none.
NoThreadInv == ~thread /\ ~At(Owner, "tPublish") => pc[Worker] \in {"none", "crashed"}

PathInv == HolderInv /\ PlanInv /\ PublishedInv /\ PathLeadsToTarget /\ NoStop

LEMMA HeldFacts ==
    /\ {"gPlan", "gAssign", "gTarget", "gWake", "gNotify", "gDone", "jCur", "jRun"}
          \subseteq HeldLabels
    /\ {"idle", "tPublish", "gLock", "sCur", "sTest", "wTest", "wBlock", "wParked", "fTest",
        "fParked", "crashed", "none", "hRun", "jLock", "new", "loop", "cPop", "cSkip", "cPass",
        "cNext", "cCur", "cEnter", "cDone", "lNotify", "pTest", "pWait", "pParked", "pReset"}
          \cap (HeldLabels \cup StopLabels) = {}
    /\ HeldLabels \cap StopLabels = {}
  BY DEF HeldLabels, StopLabels

\* What is left of a walked path ends where the path did.
LEMMA TailEnds ==
    ASSUME NEW p \in Seq(Nodes), p # <<>>, Tail(p) # <<>>
    PROVE  Tail(p)[Len(Tail(p))] = p[Len(p)]
  OBVIOUS

\* A route without its first component, or with it, ends where the route does.
LEMMA StripEnds ==
    ASSUME NEW r \in Seq(Nodes), Len(r) >= 2, NEW k \in {0, 1}
    PROVE  LET p == SubSeq(r, 1 + k, Len(r)) IN p # <<>> /\ p[Len(p)] = r[Len(r)]
<1> DEFINE p == SubSeq(r, 1 + k, Len(r))
<1>1. Len(r) \in Nat /\ 1 + k \in 1..2
  OBVIOUS
<1>2. p = [i \in 1..(Len(r) - k) |-> r[i + k]]
  <2>1. p = [i \in 1..(Len(r) - (1 + k) + 1) |-> r[i + (1 + k) - 1]]
    OBVIOUS
  <2>2. QED
    BY <1>1, <2>1
<1>3. Len(p) = Len(r) - k /\ Len(p) >= 1
  BY <1>1, SubSeqProperties
<1> HIDE DEF p
<1>4. p # <<>> /\ p[Len(p)] = r[Len(r)]
  <2>1. Len(p) \in 1..(Len(r) - k) /\ Len(p) + k = Len(r)
    BY <1>1, <1>3
  <2>2. p[Len(p)] = r[Len(p) + k]
    BY <1>2, <2>1
  <2>3. p # <<>>
    BY <2>1
  <2>4. QED
    BY <2>1, <2>2, <2>3
<1>5. QED
  BY <1>4, Zenon DEF p

\* A step that publishes nothing: thread t moves, and those it wakes or takes
\* down with it; the path is walked, or emptied, or left alone.
LEMMA StepKeeps ==
    ASSUME TypeOK, PathInv, NEW t \in Threads, target' = target,
           path' = path \/ path' = <<>> \/ (path # <<>> /\ path' = Tail(path)),
           \A u \in Threads : u # t =>
               /\ arg'[u] = arg[u] /\ plan'[u] = plan[u]
               /\ \/ pc'[u] = pc[u]
                  \/ /\ pc'[u] \in {"pWait", "wTest", "crashed"}
                     /\ pc[u] # "gTarget" \/ path' = <<>>,
           pc'[t] \notin {"gAssign", "gTarget"} \cup StopLabels,
           pc'[t] = "gPlan" => path' = <<>>,
           pc[t] = "gTarget" => path' = <<>>,
           pc'[t] \in HeldLabels => gotoMutex' = t,
           gotoMutex' = gotoMutex \/ pc[t] \in HeldLabels \/ gotoMutex = Free
    PROVE  PathInv'
<1>1. /\ HolderInv /\ PlanInv /\ PublishedInv /\ PathLeadsToTarget /\ NoStop
      /\ path \in Seq(Nodes)
  BY DEF PathInv, TypeOK, DataOK
<1>2. \A u \in Threads : u # t /\ pc'[u] \in HeldLabels => pc[u] \in HeldLabels /\ pc'[u] = pc[u]
  BY HeldFacts
<1>3. HolderInv'
  BY <1>1, <1>2, ThreadFacts DEF HolderInv
<1>4. path = <<>> => path' = <<>>
  OBVIOUS
<1>5. PlanInv'
  BY <1>1, <1>2, <1>4, HeldFacts DEF PlanInv, At
<1>6. path' # <<>> => path # <<>> /\ path'[Len(path')] = path[Len(path)]
  BY <1>1, TailEnds
<1>7. PublishedInv'
  <2>1. \A u \in Threads : At(u, "gTarget")' => u # t /\ At(u, "gTarget") /\ arg'[u] = arg[u]
    BY <1>2, HeldFacts DEF At
  <2>2. QED
    BY <1>1, <1>6, <2>1 DEF PublishedInv
<1>8. PathLeadsToTarget'
  <2> SUFFICES ASSUME path' # <<>>, path'[Len(path')] # target'
               PROVE  \E u \in Threads : At(u, "gTarget")' /\ path'[Len(path')] = arg'[u]
    BY DEF PathLeadsToTarget
  <2>1. PICK u \in Threads : At(u, "gTarget") /\ path[Len(path)] = arg[u]
    BY <1>1, <1>6 DEF PathLeadsToTarget
  <2>2. u # t /\ pc'[u] = pc[u] /\ arg'[u] = arg[u]
    BY <2>1 DEF At
  <2>3. QED
    BY <1>6, <2>1, <2>2 DEF At
<1>9. NoStop'
  BY <1>1, ThreadFacts, HeldFacts DEF NoStop
<1>10. QED
  BY <1>3, <1>5, <1>7, <1>8, <1>9 DEF PathInv

\* FSMGoto, step by step: from the lock to the target the caller is alone.
LEMMA GotoPath ==
    ASSUME TypeOK, PathInv, NEW t \in Threads, Goto(t)
    PROVE  PathInv'
<1>0. /\ HolderInv /\ PlanInv /\ PublishedInv /\ PathLeadsToTarget /\ NoStop
      /\ PcOK /\ DataOK
  BY DEF PathInv, TypeOK
<1> USE ThreadFacts DEF steering, engine, lifeline
<1>a. ASSUME NEW from, NEW to, Moves(t, from, to)
      PROVE  /\ pc[t] = from /\ pc'[t] = to
             /\ \A u \in Threads : u # t => pc'[u] = pc[u]
  BY <1>0, <1>a DEF Moves, PcOK
<1>b. Home(t) \in {"hRun", "idle"}
  BY DEF Home
<1>1. CASE GotoLock(t)
  BY <1>1, <1>a, HeldFacts, StepKeeps DEF GotoLock
<1>2. CASE GotoPlan(t)
  <2> DEFINE found == Route(cur, arg[t])
  <2>1. /\ cur \in Nodes /\ arg[t] \in Nodes \cup Ids
        /\ pc[t] = "gPlan" /\ pc'[t] = IF found = <<>> THEN "gWake" ELSE "gAssign"
        /\ \A u \in Threads : u # t => pc'[u] = pc[u]
    BY <1>0, <1>2, <1>a DEF GotoPlan, DataOK
  <2>2. gotoMutex = t /\ path = <<>> /\ path' = path
    BY <1>0, <1>2, <2>1, HeldFacts DEF GotoPlan, HolderInv, PlanInv
  <2>3. \A u \in Threads : u # t => pc[u] \notin HeldLabels /\ pc'[u] \notin HeldLabels
    BY <1>0, <2>1, <2>2 DEF HolderInv
  <2>4. HolderInv'
    BY <1>2, <2>2, <2>3 DEF GotoPlan, HolderInv
  <2>5. PlanInv'
    <3>1. plan'[t] = found /\ arg'[t] = arg[t]
      BY <1>0, <1>2 DEF GotoPlan, DataOK
    <3>2. found # <<>> => Len(found) >= 2 /\ found[Len(found)] = arg[t]
      BY <2>1, RouteAssumption
    <3>3. QED
      BY <2>1, <2>2, <2>3, <3>1, <3>2, HeldFacts DEF PlanInv, At
  <2>6. PublishedInv' /\ PathLeadsToTarget'
    BY <2>2 DEF PublishedInv, PathLeadsToTarget
  <2>7. NoStop'
    BY <1>0, <2>1, HeldFacts DEF NoStop
  <2>8. QED
    BY <2>4, <2>5, <2>6, <2>7 DEF PathInv
<1>3. CASE GotoAssign(t)
  <2>1. /\ pc[t] = "gAssign" /\ pc'[t] = "gTarget"
        /\ \A u \in Threads : u # t => pc'[u] = pc[u]
    BY <1>3, <1>a DEF GotoAssign
  <2>2. gotoMutex = t /\ gotoMutex' = t /\ arg' = arg
    BY <1>0, <1>3, <2>1, HeldFacts DEF GotoAssign, HolderInv
  <2>3. \A u \in Threads : u # t => pc[u] \notin HeldLabels /\ pc'[u] \notin HeldLabels
    BY <1>0, <2>1, <2>2 DEF HolderInv
  <2>4. path' # <<>> /\ path'[Len(path')] = arg[t]
    <3>1. /\ plan[t] \in Seq(Nodes) /\ strip[t] \in {0, 1}
          /\ Len(plan[t]) >= 2 /\ plan[t][Len(plan[t])] = arg[t]
      BY <1>0, <2>1 DEF DataOK, PlanInv, At
    <3>2. QED
      BY <1>3, <3>1, StripEnds DEF GotoAssign
  <2>5. HolderInv' /\ PlanInv'
    BY <2>1, <2>2, <2>3, HeldFacts DEF HolderInv, PlanInv, At
  <2>6. PublishedInv'
    BY <2>1, <2>2, <2>3, <2>4, HeldFacts DEF PublishedInv, At
  <2>7. PathLeadsToTarget'
    BY <2>1, <2>2, <2>4 DEF PathLeadsToTarget, At
  <2>8. NoStop'
    BY <1>0, <2>1, HeldFacts DEF NoStop
  <2>9. QED
    BY <2>5, <2>6, <2>7, <2>8 DEF PathInv
<1>4. CASE GotoTarget(t)
  <2>1. /\ pc[t] = "gTarget" /\ pc'[t] = "gWake"
        /\ \A u \in Threads : u # t => pc'[u] = pc[u]
    BY <1>4, <1>a DEF GotoTarget
  <2>2. /\ gotoMutex = t /\ gotoMutex' = t /\ arg' = arg /\ plan' = plan /\ path' = path
        /\ target' = arg[t]
    BY <1>0, <1>4, <2>1, HeldFacts DEF GotoTarget, HolderInv
  <2>3. \A u \in Threads : u # t => pc[u] \notin HeldLabels /\ pc'[u] \notin HeldLabels
    BY <1>0, <2>1, <2>2 DEF HolderInv
  <2>4. HolderInv' /\ PlanInv' /\ PublishedInv'
    BY <2>1, <2>2, <2>3, HeldFacts DEF HolderInv, PlanInv, PublishedInv, At
  <2>5. PathLeadsToTarget'
    BY <1>0, <2>1, <2>2 DEF PublishedInv, PathLeadsToTarget, At
  <2>6. NoStop'
    BY <1>0, <2>1, HeldFacts DEF NoStop
  <2>7. QED
    BY <2>4, <2>5, <2>6 DEF PathInv
<1>5. CASE GotoWake(t)
  <2>1. /\ pc[t] = "gWake" /\ pc'[t] \in {"gNotify", "gDone"}
        /\ \A u \in Threads : u # t => pc'[u] = pc[u]
    BY <1>5, <1>a DEF GotoWake
  <2>2. QED
    BY <1>0, <1>5, <2>1, HeldFacts, StepKeeps DEF GotoWake, HolderInv
<1>6. CASE GotoNotify(t)
  <2>1. pc[t] = "gNotify"
    BY <1>6 DEF GotoNotify, At
  <2>2. /\ pc'[t] = "gDone"
        /\ \A u \in Threads : u # t => pc'[u] = pc[u] \/ (pc'[u] = "pWait" /\ pc[u] = "pParked")
    BY <1>0, <1>6, <2>1 DEF GotoNotify, PcOK
  <2>3. QED
    BY <1>0, <1>6, <2>1, <2>2, HeldFacts, StepKeeps DEF GotoNotify, HolderInv
<1>7. CASE GotoDone(t)
  <2>1. /\ pc[t] = "gDone" /\ pc'[t] \in {"hRun", "idle"}
        /\ \A u \in Threads : u # t => pc'[u] = pc[u]
    BY <1>7, <1>a, <1>b DEF GotoDone
  <2>2. \A u \in Threads : u # t => arg'[u] = arg[u] /\ plan'[u] = plan[u]
    BY <1>0, <1>7 DEF GotoDone, Forget, DataOK
  <2>3. QED
    BY <1>7, <2>1, <2>2, HeldFacts, StepKeeps DEF GotoDone
<1>8. QED
  BY <1>1, <1>2, <1>3, <1>4, <1>5, <1>6, <1>7 DEF Goto

LEMMA SkewPath ==
    ASSUME TypeOK, PathInv, NEW t \in Threads, Skew(t)
    PROVE  PathInv'
<1> USE ThreadFacts DEF steering, engine, lifeline
<1>0. PcOK /\ DataOK
  BY DEF TypeOK
<1>1. PICK from \in {"sCur", "sTest"}, to \in {"sTest", "gLock", "hRun", "idle"} :
          Moves(t, from, to)
  BY DEF Skew, SkewCur, SkewTest, Home
<1>2. /\ pc[t] = from /\ pc'[t] = to
      /\ \A u \in Threads : u # t => pc'[u] = pc[u]
  BY <1>0, <1>1 DEF Moves, PcOK
<1>3. \A u \in Threads : u # t => arg'[u] = arg[u] /\ plan'[u] = plan[u]
  BY <1>0 DEF Skew, SkewCur, SkewTest, Forget, DataOK
<1>4. target' = target /\ path' = path /\ gotoMutex' = gotoMutex
  BY DEF Skew, SkewCur, SkewTest
<1>5. QED
  BY <1>2, <1>3, <1>4, HeldFacts, StepKeeps

\* The FSM thread's own code, FSMJump included.
LEMMA WorkerPath ==
    ASSUME TypeOK, PathInv, LoopStep \/ HandlerEnds \/ HandlerCall \/ Jump
    PROVE  PathInv'
<1> USE ThreadFacts DEF steering, engine, lifeline
<1>0. PcOK /\ DataOK /\ HolderInv
  BY DEF TypeOK, PathInv
<1>a. ASSUME NEW from, NEW to, Moves(Worker, from, to)
      PROVE  /\ pc[Worker] = from /\ pc'[Worker] = to
             /\ \A u \in Threads : u # Worker => pc'[u] = pc[u]
  BY <1>0, <1>a DEF Moves, PcOK
<1>b. ASSUME NEW n
      PROVE  arg' = [arg EXCEPT ![Worker] = n] =>
                 \A u \in Threads : u # Worker => arg'[u] = arg[u]
  BY <1>0 DEF DataOK
<1>1. CASE WorkerStarts \/ ContinuePass \/ ContinueCur \/ ContinueDone \/ PauseReset
             \/ PauseInterrupted \/ HandlerReturns \/ HandlerThrows
  BY <1>1, <1>a, HeldFacts, StepKeeps
     DEF WorkerStarts, ContinuePass, ContinueCur, ContinueDone, PauseReset, PauseInterrupted,
         HandlerReturns, HandlerThrows
<1>2. CASE LoopTest
  <2>1. pc[Worker] = "loop" /\ pc'[Worker] \in {"none", "lNotify", "cPop"}
        /\ \A u \in Threads : u # Worker => pc'[u] = pc[u]
    BY <1>2, <1>a DEF LoopTest, LoopExit
  <2>2. QED
    BY <1>2, <2>1, HeldFacts, StepKeeps DEF LoopTest
<1>3. CASE ContinuePop
  <2>1. CASE path = <<>>
    <3>1. pc[Worker] = "cPop" /\ (\A u \in Threads : pc'[u] = "crashed") /\ path' = <<>>
      BY <1>3, <2>1 DEF ContinuePop, At
    <3>2. QED
      BY <1>3, <3>1, HeldFacts, StepKeeps DEF ContinuePop
  <2>2. CASE path # <<>>
    BY <1>3, <1>a, <2>2, HeldFacts, StepKeeps DEF ContinuePop
  <2>3. QED
    BY <2>1, <2>2
<1>4. CASE ContinueSkip \/ ContinueNext \/ ContinueEnter
  <2>1. /\ pc[Worker] \in {"cSkip", "cNext", "cEnter"}
        /\ pc'[Worker] \in {"cPass", "cCur", "hRun", "cDone"}
        /\ \A u \in Threads : u # Worker => pc'[u] = pc[u]
    BY <1>4, <1>a DEF ContinueSkip, ContinueNext, ContinueEnter
  <2>2. path' = path \/ (path # <<>> /\ path' = Tail(path))
    BY <1>4 DEF ContinueSkip, ContinueNext, ContinueEnter
  <2>3. target' = target /\ gotoMutex' = gotoMutex /\ arg' = arg /\ plan' = plan
    BY <1>4 DEF ContinueSkip, ContinueNext, ContinueEnter
  <2>4. QED
    BY <2>1, <2>2, <2>3, HeldFacts, StepKeeps
<1>5. CASE LoopNotify
  <2>1. CASE LoopExit("lNotify")
    BY <1>5, <1>a, <2>1, HeldFacts, StepKeeps DEF LoopNotify, LoopExit
  <2>2. CASE ~LoopExit("lNotify")
    <3>1. /\ pc[Worker] = "lNotify" /\ pc'[Worker] = "pTest"
          /\ \A u \in Threads : u # Worker =>
                pc'[u] = pc[u] \/ (pc[u] = "wParked" /\ pc'[u] = "wTest")
      BY <1>5, <2>2 DEF LoopNotify, At
    <3>2. QED
      BY <1>5, <3>1, HeldFacts, StepKeeps DEF LoopNotify
  <2>3. QED
    BY <2>1, <2>2
<1>6. CASE PauseTest \/ PauseWait
  <2>1. /\ pc[Worker] \in {"pTest", "pWait"}
        /\ pc'[Worker] \in {"loop", "pWait", "pReset", "pParked"}
        /\ \A u \in Threads : u # Worker => pc'[u] = pc[u]
    BY <1>6, <1>a DEF PauseTest, PauseWait
  <2>2. QED
    BY <1>6, <2>1, HeldFacts, StepKeeps DEF PauseTest, PauseWait
<1>7. CASE HandlerInterrupted
  <2>1. /\ pc'[Worker] = "none" /\ (pc[Worker] = "hRun" \/ pc[Worker] = "jRun")
        /\ \A u \in Threads : u # Worker => pc'[u] = pc[u]
        /\ gotoMutex' = gotoMutex \/ pc[Worker] = "jRun"
    BY <1>7, <1>a DEF HandlerInterrupted
  <2>2. QED
    BY <1>7, <2>1, HeldFacts, StepKeeps DEF HandlerInterrupted
<1>8. ASSUME NEW n \in Ids, HandlerSkews(n) \/ HandlerJumps(n)
      PROVE  PathInv'
  BY <1>8, <1>a, <1>b, HeldFacts, StepKeeps DEF HandlerSkews, HandlerJumps
<1>9. CASE JumpLock
  BY <1>9, <1>a, HeldFacts, StepKeeps DEF JumpLock
<1>10. CASE JumpCur
  <2>1. /\ pc[Worker] = "jCur"
        /\ \/ pc'[Worker] = "jRun" /\ gotoMutex' = gotoMutex
           \/ pc'[Worker] = "hRun"
        /\ \A u \in Threads : u # Worker => pc'[u] = pc[u]
    BY <1>10, <1>a DEF JumpCur
  <2>2. gotoMutex = Worker
    BY <1>0, <2>1, HeldFacts DEF HolderInv
  <2>3. \A u \in Threads : u # Worker => arg'[u] = arg[u] /\ plan'[u] = plan[u]
    BY <1>0, <1>10 DEF JumpCur, Forget, DataOK
  <2>4. QED
    BY <1>10, <2>1, <2>2, <2>3, HeldFacts, StepKeeps DEF JumpCur
<1>11. CASE JumpRun
  BY <1>11, <1>a, HeldFacts, StepKeeps DEF JumpRun
<1>12. QED
  BY <1>1, <1>2, <1>3, <1>4, <1>5, <1>6, <1>7, <1>8, <1>9, <1>10, <1>11
     DEF LoopStep, HandlerEnds, HandlerCall, Jump

\* The calls of the clients begin and wait outside fsmGotoMutex; without
\* FSMThreadStop the owner only starts the thread, and then none was running.
LEMMA CallPath ==
    ASSUME TypeOK, NoThreadInv, PathInv, "stop" \notin Calls,
           \/ \E c \in Clients : ClientCall(c) \/ WaitTest(c) \/ WaitBlock(c) \/ WaitForTest(c)
           \/ ThreadSpawn \/ ThreadPublish \/ CallStop \/ StopStep \/ SpuriousWakeup
    PROVE  PathInv'
<1> USE ThreadFacts DEF steering, engine, lifeline
<1>0. PcOK /\ DataOK /\ NoStop
  BY DEF TypeOK, PathInv
<1>a. ASSUME NEW t \in Threads, NEW from, NEW to, Moves(t, from, to)
      PROVE  /\ pc[t] = from /\ pc'[t] = to
             /\ \A u \in Threads : u # t => pc'[u] = pc[u]
  BY <1>0, <1>a DEF Moves, PcOK
<1>1. ASSUME NEW c \in Clients, NEW n \in Ids, CallGoto(c, n) \/ CallSkew(c, n) \/ CallWaitFor(c, n)
      PROVE  PathInv'
  <2>1. /\ pc[c] = "idle" /\ pc'[c] \in {"gLock", "sCur", "fTest"}
        /\ \A u \in Threads : u # c => pc'[u] = pc[u]
    BY <1>1, <1>a DEF CallGoto, CallSkew, CallWaitFor
  <2>2. \A u \in Threads : u # c => arg'[u] = arg[u] /\ plan'[u] = plan[u]
    BY <1>0, <1>1 DEF CallGoto, CallSkew, CallWaitFor, DataOK
  <2>3. QED
    BY <1>1, <2>1, <2>2, HeldFacts, StepKeeps DEF CallGoto, CallSkew, CallWaitFor
<1>2. ASSUME NEW c \in Clients, CallWaitInactive(c) \/ WaitTest(c) \/ WaitBlock(c)
      PROVE  PathInv'
  <2>1. /\ pc[c] \in {"idle", "wTest", "wBlock"}
        /\ pc'[c] \in {"wTest", "idle", "wBlock", "wParked"}
        /\ \A u \in Threads : u # c => pc'[u] = pc[u]
    BY <1>2, <1>a DEF CallWaitInactive, WaitTest, WaitBlock
  <2>2. QED
    BY <1>2, <2>1, HeldFacts, StepKeeps DEF CallWaitInactive, WaitTest, WaitBlock
<1>3. ASSUME NEW c \in Clients, WaitForTest(c)
      PROVE  PathInv'
  <2>1. /\ pc[c] = "fTest" /\ pc'[c] \in {"idle", "fParked"}
        /\ \A u \in Threads : u # c => pc'[u] = pc[u]
    BY <1>3, <1>a DEF WaitForTest
  <2>2. \A u \in Threads : u # c => arg'[u] = arg[u] /\ plan'[u] = plan[u]
    BY <1>0, <1>3 DEF WaitForTest, Forget, DataOK
  <2>3. QED
    BY <1>3, <2>1, <2>2, HeldFacts, StepKeeps DEF WaitForTest
<1>4. CASE ThreadSpawn
  <2>1. /\ pc[Owner] = "idle" /\ pc'[Owner] = "tPublish" /\ pc'[Worker] = "new"
        /\ \A u \in Threads : u # Owner /\ u # Worker => pc'[u] = pc[u]
    BY <1>0, <1>4 DEF ThreadSpawn, At, PcOK
  <2>2. pc[Worker] \in {"none", "crashed"}
    BY <1>4, <2>1 DEF ThreadSpawn, NoThreadInv, At
  <2>3. /\ \A u \in Threads : pc'[u] \in HeldLabels => pc[u] \in HeldLabels /\ pc'[u] = pc[u]
        /\ \A u \in Threads : pc[u] \in HeldLabels => pc'[u] = pc[u]
    BY <2>1, <2>2, HeldFacts
  <2>4. UNCHANGED <<arg, plan, path, target, gotoMutex>>
    BY <1>4 DEF ThreadSpawn
  <2>5. HolderInv' /\ PlanInv' /\ PublishedInv'
    BY <2>3, <2>4, HeldFacts DEF PathInv, HolderInv, PlanInv, PublishedInv, At
  <2>6. PathLeadsToTarget'
    BY <2>3, <2>4, HeldFacts DEF PathInv, PathLeadsToTarget, At
  <2>7. NoStop'
    BY <2>1, HeldFacts DEF NoStop
  <2>8. QED
    BY <2>5, <2>6, <2>7 DEF PathInv
<1>5. CASE ThreadPublish
  BY <1>5, <1>a, HeldFacts, StepKeeps DEF ThreadPublish
<1>6. CASE CallStop \/ StopStep
  <2>1. ~CallStop
    BY DEF CallStop
  <2>2. ~StopStep
    BY <1>0 DEF StopStep, StopTest, StopInterrupt, StopNotify, StopUnlock, StopJoin, Moves, At,
                NoStop, StopLabels
  <2>3. QED
    BY <1>6, <2>1, <2>2
<1>7. CASE SpuriousWakeup
  <2>1. PICK t \in Threads, from \in {"pParked", "wParked", "fParked"},
             to \in {"pWait", "wTest", "idle"} : Moves(t, from, to)
    BY <1>7 DEF SpuriousWakeup
  <2>2. /\ pc[t] = from /\ pc'[t] = to
        /\ \A u \in Threads : u # t => pc'[u] = pc[u]
    BY <2>1, <1>a
  <2>3. QED
    BY <1>7, <2>2, HeldFacts, StepKeeps DEF SpuriousWakeup
<1>8. QED
  BY <1>1, <1>2, <1>3, <1>4, <1>5, <1>6, <1>7 DEF ClientCall

\* Nobody starts a second thread: what a step of a thread that runs leaves is
\* running, or the process is lost.
LEMMA QuietKeeps ==
    ASSUME TypeOK, NoStop, NoThreadInv, "stop" \notin Calls, [Next]_vars
    PROVE  NoThreadInv'
<1> USE ThreadFacts DEF lifeline
<1>0. PcOK
  BY DEF TypeOK
<1>a. ASSUME NEW t \in Threads, NEW from, NEW to, Moves(t, from, to)
      PROVE  /\ pc[t] = from /\ pc'[t] = to
             /\ \A u \in Threads : u # t => pc'[u] = pc[u]
  BY <1>0, <1>a DEF Moves, PcOK
\* The steps of the thread itself.
<1>1. CASE LoopStep \/ HandlerEnds \/ HandlerCall \/ Jump \/ Skew(Worker) \/ Goto(Worker)
  <2>1. /\ pc[Worker] \notin {"none", "crashed"}
        /\ pc'[Worker] = "crashed" \/ (pc'[Owner] = "tPublish" <=> pc[Owner] = "tPublish")
    <3>1. CASE LoopStep /\ ~ContinuePop /\ ~LoopNotify
      <4>1. PICK from, to : from \in LoopLabels /\ Moves(Worker, from, to)
        BY <3>1
           DEF LoopStep, WorkerStarts, LoopTest, LoopExit, ContinueSkip, ContinuePass, ContinueNext,
               ContinueCur, ContinueEnter, ContinueDone, PauseTest, PauseWait, PauseInterrupted,
               PauseReset, LoopLabels
      <4>2. QED
        BY <1>a, <4>1 DEF LoopLabels
    <3>2. CASE ContinuePop \/ LoopNotify
      <4>1. CASE ContinuePop /\ path = <<>>
        BY <4>1 DEF ContinuePop, At
      <4>2. CASE ContinuePop /\ path # <<>>
        BY <1>a, <4>2 DEF ContinuePop
      <4>3. CASE LoopNotify
        <5>1. CASE LoopExit("lNotify")
          BY <1>a, <5>1 DEF LoopExit
        <5>2. CASE ~LoopExit("lNotify")
          BY <4>3, <5>2 DEF LoopNotify, At
        <5>3. QED
          BY <5>1, <5>2
      <4>4. QED
        BY <3>2, <4>1, <4>2, <4>3
    <3>3. CASE HandlerEnds \/ HandlerCall \/ Jump
      <4>1. PICK from, to : from \in {"hRun", "jRun", "jLock", "jCur"} /\ Moves(Worker, from, to)
        BY <3>3
           DEF HandlerEnds, HandlerReturns, HandlerThrows, HandlerInterrupted, HandlerCall,
               HandlerSkews, HandlerJumps, Jump, JumpLock, JumpCur, JumpRun
      <4>2. QED
        BY <1>a, <4>1
    <3>4. CASE Skew(Worker) \/ (Goto(Worker) /\ ~GotoNotify(Worker))
      <4>1. PICK from, to : from \in SteerLabels /\ Moves(Worker, from, to)
        BY <3>4
           DEF Skew, SkewCur, SkewTest, Goto, GotoLock, GotoPlan, GotoAssign, GotoTarget, GotoWake,
               GotoDone, SteerLabels, GotoLabels, SkewLabels
      <4>2. QED
        BY <1>a, <4>1 DEF SteerLabels, GotoLabels, SkewLabels
    <3>5. CASE GotoNotify(Worker)
      BY <1>0, <3>5 DEF GotoNotify, At, PcOK
    <3>6. QED
      BY <1>1, <3>1, <3>2, <3>3, <3>4, <3>5
  <2>2. thread' = thread
    BY <1>1
       DEF LoopStep, WorkerStarts, LoopTest, ContinuePop, ContinueSkip, ContinuePass, ContinueNext,
           ContinueCur, ContinueEnter, ContinueDone, LoopNotify, PauseTest, PauseWait,
           PauseInterrupted, PauseReset, HandlerEnds, HandlerReturns, HandlerThrows,
           HandlerInterrupted, HandlerCall, HandlerSkews, HandlerJumps, Jump, JumpLock, JumpCur,
           JumpRun, Skew, SkewCur, SkewTest, Goto, GotoLock, GotoPlan, GotoAssign, GotoTarget,
           GotoWake, GotoNotify, GotoDone
  <2>3. QED
    BY <2>1, <2>2 DEF NoThreadInv, At
\* The steps of a client, which leave the thread where it is or wake it up.
<1>2. ASSUME NEW c \in Clients, ClientStep(c) \/ ClientCall(c)
      PROVE  NoThreadInv'
  <2>1. /\ pc'[Worker] = pc[Worker] \/ pc[Worker] = "pParked"
        /\ pc'[Owner] = "tPublish" <=> pc[Owner] = "tPublish"
    <3>1. CASE GotoNotify(c)
      BY <1>0, <3>1 DEF GotoNotify, At, PcOK
    <3>2. CASE ~GotoNotify(c)
      <4>1. PICK from \in SteerLabels \cup WaitLabels \cup {"idle"},
                 to \in SteerLabels \cup WaitLabels \cup {"idle"} : Moves(c, from, to)
        BY <1>2, <3>2
           DEF ClientStep, ClientCall, CallGoto, CallSkew, CallWaitFor, CallWaitInactive, WaitTest,
               WaitBlock, WaitForTest, Skew, SkewCur, SkewTest, Goto, GotoLock, GotoPlan,
               GotoAssign, GotoTarget, GotoWake, GotoDone, Home, SteerLabels, GotoLabels, SkewLabels, WaitLabels
      <4>2. QED
        BY <1>a, <4>1 DEF SteerLabels, GotoLabels, SkewLabels, WaitLabels
    <3>3. QED
      BY <3>1, <3>2
  <2>2. thread' = thread
    BY <1>2
       DEF ClientStep, ClientCall, CallGoto, CallSkew, CallWaitFor, CallWaitInactive, WaitTest,
           WaitBlock, WaitForTest, Skew, SkewCur, SkewTest, Goto, GotoLock, GotoPlan, GotoAssign,
           GotoTarget, GotoWake, GotoNotify, GotoDone
  <2>3. QED
    BY <2>1, <2>2 DEF NoThreadInv, At
<1>3. CASE ThreadSpawn
  BY <1>0, <1>3 DEF ThreadSpawn, NoThreadInv, At, PcOK
<1>4. CASE ThreadPublish
  BY <1>4 DEF ThreadPublish, NoThreadInv
<1>5. ~CallStop /\ ~StopStep
  BY <1>0 DEF CallStop, StopStep, StopTest, StopInterrupt, StopNotify, StopUnlock, StopJoin, Moves,
              At, NoStop, StopLabels
<1>6. CASE SpuriousWakeup
  <2>1. PICK t \in Threads, from \in {"pParked", "wParked", "fParked"},
             to \in {"pWait", "wTest", "idle"} : Moves(t, from, to)
    BY <1>6 DEF SpuriousWakeup
  <2>2. thread' = thread
    BY <1>6 DEF SpuriousWakeup
  <2>3. QED
    BY <1>a, <2>1, <2>2 DEF NoThreadInv, At
<1>7. CASE UNCHANGED vars
  BY <1>7 DEF vars, NoThreadInv, At
<1>8. QED
  BY <1>1, <1>2, <1>3, <1>4, <1>5, <1>6, <1>7 DEF Next

LEMMA InitPath == Init => PathInv /\ NoThreadInv
  BY ThreadFacts, HeldFacts
     DEF Init, PathInv, HolderInv, PlanInv, PublishedInv, PathLeadsToTarget, NoStop, NoThreadInv,
         At

LEMMA NextPath ==
    ASSUME "stop" \notin Calls
    PROVE  TypeOK /\ NoThreadInv /\ PathInv /\ [Next]_vars => PathInv' /\ NoThreadInv'
<1> SUFFICES ASSUME TypeOK, NoThreadInv, PathInv, [Next]_vars PROVE PathInv'
  BY QuietKeeps DEF PathInv
<1>1. CASE LoopStep \/ HandlerEnds \/ HandlerCall \/ Jump
  BY <1>1, WorkerPath
<1>2. CASE Skew(Worker) \/ Goto(Worker)
  BY <1>2, SkewPath, GotoPath, ThreadFacts
<1>3. ASSUME NEW c \in Clients, ClientStep(c) \/ ClientCall(c)
      PROVE  PathInv'
  BY <1>3, SkewPath, GotoPath, CallPath, ThreadFacts DEF ClientStep
<1>4. CASE ThreadSpawn \/ ThreadPublish \/ CallStop \/ StopStep \/ SpuriousWakeup
  BY <1>4, CallPath
<1>5. CASE UNCHANGED vars
  BY <1>5 DEF vars, steering, engine, PathInv, HolderInv, PlanInv, PublishedInv,
              PathLeadsToTarget, NoStop, At
<1>6. QED
  BY <1>1, <1>2, <1>3, <1>4, <1>5 DEF Next

\* fsmGotoMutex keeps fsmCurrentPath and fsmTargetState together, whichever
\* FSMGoto, FSMSkew and FSMJump calls overlap, as long as nobody calls
\* FSMThreadStop, which unlocks the mutex under its holder.
THEOREM SteeringCorrect == ASSUME "stop" \notin Calls PROVE Spec => []PathLeadsToTarget
<1>1. PathInv => PathLeadsToTarget
  BY DEF PathInv
<1>2. QED
  BY <1>1, InitPath, NextPath, TypeCorrect, PTL DEF Spec
=============================================================================

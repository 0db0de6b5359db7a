------------------------------ MODULE SimpleFSM ------------------------------
(***************************************************************************)
(* The auto-routed state machine of src/src/SimpleFSM.cpp: one FSM thread  *)
(* that walks a path of nodes and runs their handlers, and any number of   *)
(* client threads that steer it (FSMGoto, FSMSkew), wait for it            *)
(* (FSMWaitInactive, FSMWaitFor), start it and stop it.                    *)
(*                                                                         *)
(* Every thread has a program counter; an action is the code between two   *)
(* points where another thread can interfere.  A critical section of       *)
(* fsmPathMutex holds no other blocking call, so it is one action.         *)
(* fsmtPauseMutex and fsmwWaitMutex are held only across one test of the   *)
(* code's condition, or released by the wait itself, so the test and the   *)
(* wait under them are one action each.                                    *)
(***************************************************************************)
EXTENDS Naturals, Sequences

CONSTANTS
    Nodes,            \* ids of the registered nodes (fsmNodes)
    Ids,              \* the ids callers pass, unregistered ones possibly among them
    Handlers,         \* the nodes registered with FSM_HANDLER
    Root,             \* the root node of the registry
    Route(_, _),      \* what findShortestPath answers: from, ..., to; <<>> when none
    Clients,          \* threads that use the engine
    Owner,            \* the client that starts and stops the FSM thread
    Worker,           \* the FSM thread
    Free,             \* "nobody", the holder of a mutex that is not locked
    Calls,            \* which calls the clients make
    HandlerCalls,     \* which steering calls the handlers make
    HandlersThrow,    \* may a handler end with an exception?
    OpenIsExclusive   \* is the engine handed to other threads only once started?

Threads == Clients \cup {Worker}

ASSUME RegistryAssumption ==
    /\ Handlers \subseteq Nodes
    /\ Root \in Nodes

ASSUME RouteAssumption ==
    \A a \in Nodes : \A b \in Nodes \cup Ids :
        /\ Route(a, b) \in Seq(Nodes)
        /\ Route(a, b) # <<>> =>
              /\ Len(Route(a, b)) >= 2
              /\ Route(a, b)[Len(Route(a, b))] = b

ASSUME ThreadAssumption ==
    /\ Owner \in Clients
    /\ Worker \notin Clients
    /\ Free \notin Threads

ASSUME UsageAssumption ==
    /\ Calls \subseteq {"goto", "skew", "waitInactive", "waitFor", "start", "stop"}
    /\ HandlerCalls \subseteq {"skew", "jump"}
    /\ HandlersThrow \in BOOLEAN
    /\ OpenIsExclusive \in BOOLEAN

VARIABLES
    pc,        \* where each thread is
    arg,       \* the state each thread passes to the steering call it is in
    strip,     \* FSMGoto's stripPathComponents
    plan,      \* resPath: the route a thread has found and not yet published
    cur,       \* fsmCurrentNode
    path,      \* fsmCurrentPath
    target,    \* fsmTargetState
    next,      \* FSMContinue's next
    inside,    \* fsmInsideHandler
    paused,    \* fsmtPaused
    interrupt, \* fsmtInterruptRequested
    pending,   \* boost: interruption requested and not yet delivered
    thread,    \* fsmThread # NULL
    active,    \* fsmThreadActive
    gotoMutex, \* holder of fsmGotoMutex
    awaited    \* fsmwState; Free stands for NULL

steering == <<arg, strip, plan>>
engine   == <<cur, path, target>>
lifeline == <<interrupt, pending, thread, active>>
vars == <<pc, steering, engine, next, inside, paused, lifeline, gotoMutex, awaited>>

\* Program counters.
GotoLabels   == {"gLock", "gPlan", "gAssign", "gTarget", "gWake", "gNotify", "gDone"}
SkewLabels   == {"sCur", "sTest"}
WaitLabels   == {"wTest", "wBlock", "wParked", "fTest", "fParked"}
StopLabels   == {"xTest", "xInterrupt", "xNotify", "xUnlock", "xJoin"}
JumpLabels   == {"jLock", "jCur", "jRun"}
LoopLabels   == {"new", "loop", "cPop", "cSkip", "cPass", "cNext", "cCur", "cEnter",
                 "hRun", "cDone", "lNotify", "pTest", "pWait", "pParked", "pReset"}
SteerLabels  == GotoLabels \cup SkewLabels
ClientLabels == {"idle", "tPublish", "crashed"} \cup SteerLabels \cup WaitLabels \cup StopLabels
WorkerLabels == {"none", "crashed"} \cup LoopLabels \cup SteerLabels \cup JumpLabels

\* Every thread is at a point of its own code ...
PcOK ==
    /\ pc \in [Threads -> ClientLabels \cup WorkerLabels]
    /\ \A c \in Clients : pc[c] \in ClientLabels
    /\ pc[Worker] \in WorkerLabels

\* ... and every field holds what SimpleFSM.h declares.
DataOK ==
    /\ arg \in [Threads -> Nodes \cup Ids]
    /\ strip \in [Threads -> {0, 1}]
    /\ plan \in [Threads -> Seq(Nodes)]
    /\ cur \in Nodes
    /\ path \in Seq(Nodes)
    /\ target \in Nodes \cup Ids
    /\ next \in Nodes
    /\ inside \in BOOLEAN
    /\ paused \in BOOLEAN
    /\ interrupt \in BOOLEAN
    /\ pending \in BOOLEAN
    /\ thread \in BOOLEAN
    /\ active \in BOOLEAN
    /\ gotoMutex \in Threads \cup {Free}
    /\ awaited \in Nodes \cup Ids \cup {Free}

TypeOK == PcOK /\ DataOK

\* The constructor, FSMRegistryBegin and FSMRegistryEnd.
Init ==
    /\ pc = [t \in Threads |-> IF t = Worker THEN "none" ELSE "idle"]
    /\ arg = [t \in Threads |-> Root]
    /\ strip = [t \in Threads |-> 1]
    /\ plan = [t \in Threads |-> <<>>]
    /\ cur = Root
    /\ path = <<>>
    /\ target = Root
    /\ next = Root
    /\ inside = FALSE
    /\ paused = TRUE
    /\ interrupt = FALSE
    /\ pending = FALSE
    /\ thread = FALSE
    /\ active = FALSE
    /\ gotoMutex = Free
    /\ awaited = Free

At(t, label) == pc[t] = label
Moves(t, from, to) == pc[t] = from /\ pc' = [pc EXCEPT ![t] = to]

\* Where a steering call returns to: a handler's body, or the client's own code.
Home(t) == IF t = Worker THEN "hRun" ELSE "idle"

\* The arguments of a call are gone when it returns.
Forget(t) ==
    /\ arg' = [arg EXCEPT ![t] = Root]
    /\ strip' = [strip EXCEPT ![t] = 1]
    /\ UNCHANGED plan

-----------------------------------------------------------------------------
(* FSMGoto *)

\* Deviation: the lock does not exclude.
GotoLockShares(t) ==
    /\ Moves(t, "gLock", "gPlan")
    /\ gotoMutex' = t
    /\ path' = <<>>
    /\ UNCHANGED <<steering, cur, target, next, inside, paused, lifeline, awaited>>

\* Lock fsmGotoMutex and clear the path.
GotoLock(t) ==
    /\ Moves(t, "gLock", "gPlan")
    /\ gotoMutex = Free
    /\ gotoMutex' = t
    /\ path' = <<>>
    /\ UNCHANGED <<steering, cur, target, next, inside, paused, lifeline, awaited>>

\* findShortestPath from the node that is current now.
GotoPlan(t) ==
    LET found == Route(cur, arg[t])
    IN  /\ Moves(t, "gPlan", IF found = <<>> THEN "gWake" ELSE "gAssign")
        /\ plan' = [plan EXCEPT ![t] = found]
        /\ UNCHANGED <<arg, strip, engine, next, inside, paused, lifeline, gotoMutex, awaited>>

\* Publish the route without its first strip components.
GotoAssign(t) ==
    /\ Moves(t, "gAssign", "gTarget")
    /\ path' = SubSeq(plan[t], 1 + strip[t], Len(plan[t]))
    /\ plan' = [plan EXCEPT ![t] = <<>>]
    /\ UNCHANGED <<arg, strip, cur, target, next, inside, paused, lifeline, gotoMutex, awaited>>

GotoTarget(t) ==
    /\ Moves(t, "gTarget", "gWake")
    /\ target' = arg[t]
    /\ UNCHANGED <<steering, cur, path, next, inside, paused, lifeline, gotoMutex, awaited>>

\* Deviation: a notification alone.
GotoWakeKeepsPaused(t) ==
    /\ Moves(t, "gWake", IF thread /\ ~interrupt THEN "gNotify" ELSE "gDone")
    /\ UNCHANGED <<steering, engine, next, inside, paused, lifeline, gotoMutex, awaited>>

\* _fsmWakeup, when there is a thread that was not told to stop: reset the
\* paused flag ...
GotoWake(t) ==
    /\ Moves(t, "gWake", IF thread /\ ~interrupt THEN "gNotify" ELSE "gDone")
    /\ paused' = (paused /\ ~(thread /\ ~interrupt))
    /\ UNCHANGED <<steering, engine, next, inside, lifeline, gotoMutex, awaited>>

\* ... and wake the FSM thread up if it is parked.
GotoNotify(t) ==
    /\ At(t, "gNotify")
    /\ pc' = [pc EXCEPT ![t] = "gDone",
                        ![Worker] = IF @ = "pParked" THEN "pWait" ELSE @]
    /\ UNCHANGED <<steering, engine, next, inside, paused, lifeline, gotoMutex, awaited>>

\* The lock of fsmGotoMutex goes out of scope.
GotoDone(t) ==
    /\ Moves(t, "gDone", Home(t))
    /\ gotoMutex' = Free
    /\ Forget(t)
    /\ UNCHANGED <<engine, next, inside, paused, lifeline, awaited>>

Goto(t) == \/ GotoLock(t) \/ GotoPlan(t) \/ GotoAssign(t) \/ GotoTarget(t)
           \/ GotoWake(t) \/ GotoNotify(t) \/ GotoDone(t)

-----------------------------------------------------------------------------
(* FSMSkew: switch to a node, then route from it to the active target *)

\* An unknown state is ignored.
SkewCur(t) ==
    /\ IF arg[t] \in Nodes
       THEN Moves(t, "sCur", "sTest") /\ cur' = arg[t] /\ UNCHANGED steering
       ELSE Moves(t, "sCur", Home(t)) /\ Forget(t) /\ UNCHANGED cur
    /\ UNCHANGED <<path, target, next, inside, paused, lifeline, gotoMutex, awaited>>

\* FSMEnteringState does nothing in this class.  The target is read here, as
\* the argument of FSMGoto and before FSMGoto locks fsmGotoMutex.
SkewTest(t) ==
    /\ IF path = <<>>
       THEN Moves(t, "sTest", Home(t)) /\ Forget(t)
       ELSE /\ Moves(t, "sTest", "gLock")
            /\ arg' = [arg EXCEPT ![t] = target]
            /\ strip' = [strip EXCEPT ![t] = 0]
            /\ UNCHANGED plan
    /\ UNCHANGED <<engine, next, inside, paused, lifeline, gotoMutex, awaited>>

Skew(t) == SkewCur(t) \/ SkewTest(t)

-----------------------------------------------------------------------------
(* FSMJump, which the handlers alone call: fsmGotoMutex stays locked while  *)
(* the handler of the new node runs inside the handler that jumped          *)

JumpLock ==
    /\ Moves(Worker, "jLock", "jCur")
    /\ gotoMutex = Free
    /\ gotoMutex' = Worker
    /\ path' = <<>>
    /\ UNCHANGED <<steering, cur, target, next, inside, paused, lifeline, awaited>>

\* A missing node is replaced by the root.
JumpCur ==
    /\ cur' = IF arg[Worker] \in Nodes THEN arg[Worker] ELSE Root
    /\ IF arg[Worker] \in Handlers
       THEN Moves(Worker, "jCur", "jRun") /\ UNCHANGED gotoMutex
       ELSE Moves(Worker, "jCur", "hRun") /\ gotoMutex' = Free
    /\ Forget(Worker)
    /\ UNCHANGED <<path, target, next, inside, paused, lifeline, awaited>>

\* What _callHandler answers is ignored, so an exception ends the jump too.
JumpRun ==
    /\ Moves(Worker, "jRun", "hRun")
    /\ gotoMutex' = Free
    /\ UNCHANGED <<steering, engine, next, inside, paused, lifeline, awaited>>

Jump == JumpLock \/ JumpCur \/ JumpRun

-----------------------------------------------------------------------------
(* FSMThreadLoop and FSMContinue *)

\* `return` inside the loop skips the cleanup: fsmThreadActive stays set.
LoopExit(label) == Moves(Worker, label, "none") /\ interrupt

\* Deviation: the thread leaves its flag as the last run left it.
WorkerStartsSilent ==
    /\ Moves(Worker, "new", "loop")
    /\ UNCHANGED <<steering, engine, next, inside, paused, lifeline, gotoMutex, awaited>>

WorkerStarts ==
    /\ Moves(Worker, "new", "loop")
    /\ active' = TRUE
    /\ UNCHANGED <<steering, engine, next, inside, paused, interrupt, pending, thread,
                   gotoMutex, awaited>>

\* The tests at the top of the loop and at the top of FSMContinue.
LoopTest ==
    /\ \/ LoopExit("loop") /\ UNCHANGED inside
       \/ /\ ~interrupt
          /\ inside \/ path = <<>>
          /\ Moves(Worker, "loop", "lNotify")
          /\ UNCHANGED inside
       \/ /\ ~interrupt
          /\ ~inside /\ path # <<>>
          /\ Moves(Worker, "loop", "cPop")
          /\ inside' = TRUE
    /\ UNCHANGED <<steering, engine, next, paused, lifeline, gotoMutex, awaited>>

\* front() and pop_front() on the list as it is now; on an empty list they
\* are undefined, and the process is lost.
ContinuePop ==
    /\ IF path = <<>>
       THEN At(Worker, "cPop") /\ pc' = [t \in Threads |-> "crashed"] /\ UNCHANGED <<next, path>>
       ELSE /\ Moves(Worker, "cPop", "cSkip")
            /\ next' = Head(path)
            /\ path' = Tail(path)
    /\ UNCHANGED <<steering, cur, target, inside, paused, lifeline, gotoMutex, awaited>>

\* `while ((!next->handler) && !fsmCurrentPath.empty())`
PassesBy(n, rest) == n \notin Handlers /\ rest # <<>>

ContinueSkip ==
    /\ Moves(Worker, "cSkip", IF PassesBy(next, path) THEN "cPass" ELSE "cCur")
    /\ UNCHANGED <<steering, engine, next, inside, paused, lifeline, gotoMutex, awaited>>

\* FSMEnteringState of the skipped node, with fsmPathMutex unlocked.
ContinuePass ==
    /\ Moves(Worker, "cPass", "cNext")
    /\ UNCHANGED <<steering, engine, next, inside, paused, lifeline, gotoMutex, awaited>>

\* The rest of the loop's body and its next test, under one lock.
ContinueNext ==
    /\ IF path = <<>>
       THEN Moves(Worker, "cNext", "cCur") /\ UNCHANGED <<next, path>>
       ELSE /\ next' = Head(path)
            /\ path' = Tail(path)
            /\ Moves(Worker, "cNext", IF PassesBy(next', path') THEN "cPass" ELSE "cCur")
    /\ UNCHANGED <<steering, cur, target, inside, paused, lifeline, gotoMutex, awaited>>

ContinueCur ==
    /\ Moves(Worker, "cCur", "cEnter")
    /\ cur' = next
    /\ UNCHANGED <<steering, path, target, next, inside, paused, lifeline, gotoMutex, awaited>>

\* FSMEnteringState and then the handler, when the node has one.
ContinueEnter ==
    /\ Moves(Worker, "cEnter", IF next \in Handlers THEN "hRun" ELSE "cDone")
    /\ UNCHANGED <<steering, engine, next, inside, paused, lifeline, gotoMutex, awaited>>

HandlerReturns ==
    /\ Moves(Worker, "hRun", "cDone")
    /\ UNCHANGED <<steering, engine, next, inside, paused, lifeline, gotoMutex, awaited>>

\* std::exception and ...: FSMContinue answers false, fsmInsideHandler stays.
HandlerThrows ==
    /\ HandlersThrow
    /\ Moves(Worker, "hRun", "lNotify")
    /\ UNCHANGED <<steering, engine, next, inside, paused, lifeline, gotoMutex, awaited>>

\* Deviation: the interruption leaves fsmInsideHandler behind.
HandlerInterruptedInside ==
    /\ pending
    /\ \/ Moves(Worker, "hRun", "none") /\ UNCHANGED gotoMutex
       \/ Moves(Worker, "jRun", "none") /\ gotoMutex' = Free
    /\ pending' = FALSE
    /\ active' = FALSE
    /\ UNCHANGED <<steering, engine, next, inside, paused, interrupt, thread, awaited>>

\* boost::thread_interrupted, raised at an interruption point (the sleeps of
\* sysExec) of the handler or of a handler it jumped to, ends the loop.
HandlerInterrupted ==
    /\ pending
    /\ \/ Moves(Worker, "hRun", "none") /\ UNCHANGED gotoMutex
       \/ Moves(Worker, "jRun", "none") /\ gotoMutex' = Free
    /\ pending' = FALSE
    /\ inside' = FALSE
    /\ active' = FALSE
    /\ UNCHANGED <<steering, engine, next, paused, interrupt, thread, awaited>>

HandlerSkews(n) ==
    /\ "skew" \in HandlerCalls
    /\ Moves(Worker, "hRun", "sCur")
    /\ arg' = [arg EXCEPT ![Worker] = n]
    /\ UNCHANGED <<strip, plan, engine, next, inside, paused, lifeline, gotoMutex, awaited>>

HandlerJumps(n) ==
    /\ "jump" \in HandlerCalls
    /\ Moves(Worker, "hRun", "jLock")
    /\ arg' = [arg EXCEPT ![Worker] = n]
    /\ UNCHANGED <<strip, plan, engine, next, inside, paused, lifeline, gotoMutex, awaited>>

\* Deviation: fsmInsideHandler is left set.
ContinueDoneInside ==
    /\ Moves(Worker, "cDone", "loop")
    /\ UNCHANGED <<steering, engine, next, inside, paused, lifeline, gotoMutex, awaited>>

ContinueDone ==
    /\ Moves(Worker, "cDone", "loop")
    /\ inside' = FALSE
    /\ UNCHANGED <<steering, engine, next, paused, lifeline, gotoMutex, awaited>>

\* fsmwWaitCond.notify_all(), without fsmwWaitMutex.
LoopNotify ==
    /\ \/ LoopExit("lNotify")
       \/ /\ ~interrupt
          /\ At(Worker, "lNotify")
          /\ pc' = [t \in Threads |-> IF t = Worker THEN "pTest"
                                      ELSE IF pc[t] = "wParked" THEN "wTest" ELSE pc[t]]
    /\ UNCHANGED <<steering, engine, next, inside, paused, lifeline, gotoMutex, awaited>>

-----------------------------------------------------------------------------
(* _fsmPause *)

\* Deviation: the flag is set on the way in, not on the way out.
PauseTestSets ==
    /\ Moves(Worker, "pTest", IF interrupt THEN "loop" ELSE "pWait")
    /\ paused' = (paused \/ ~interrupt)
    /\ UNCHANGED <<steering, engine, next, inside, lifeline, gotoMutex, awaited>>

PauseTest ==
    /\ Moves(Worker, "pTest", IF interrupt THEN "loop" ELSE IF paused THEN "pWait" ELSE "pReset")
    /\ UNCHANGED <<steering, engine, next, inside, paused, lifeline, gotoMutex, awaited>>

\* One turn of `while(fsmtPaused)`: the wait is an interruption point.
PauseWait ==
    /\ \/ /\ ~paused
          /\ Moves(Worker, "pWait", "pReset")
          /\ UNCHANGED <<paused, pending>>
       \/ /\ paused /\ interrupt
          /\ Moves(Worker, "pWait", "pReset")
          /\ paused' = FALSE
          /\ UNCHANGED pending
       \/ /\ paused /\ ~interrupt
          /\ Moves(Worker, "pWait", "pParked")
          /\ UNCHANGED <<paused, pending>>
    /\ UNCHANGED <<steering, engine, next, inside, interrupt, thread, active, gotoMutex, awaited>>

\* thread_interrupted leaves the wait.
PauseInterrupted ==
    /\ pending
    /\ Moves(Worker, "pParked", "pReset")
    /\ pending' = FALSE
    /\ UNCHANGED <<steering, engine, next, inside, paused, interrupt, thread, active,
                   gotoMutex, awaited>>

PauseReset ==
    /\ Moves(Worker, "pReset", "loop")
    /\ paused' = TRUE
    /\ UNCHANGED <<steering, engine, next, inside, lifeline, gotoMutex, awaited>>

\* A condition variable may wake its waiter up for no reason.
SpuriousWakeup ==
    /\ \/ Moves(Worker, "pParked", "pWait")
       \/ \E c \in Clients : \/ Moves(c, "wParked", "wTest")
                             \/ Moves(c, "fParked", "idle")
    /\ UNCHANGED <<steering, engine, next, inside, paused, lifeline, gotoMutex, awaited>>

LoopStep ==
    \/ WorkerStarts \/ LoopTest \/ ContinuePop \/ ContinueSkip \/ ContinuePass
    \/ ContinueNext \/ ContinueCur \/ ContinueEnter \/ ContinueDone
    \/ LoopNotify \/ PauseTest \/ PauseWait \/ PauseInterrupted \/ PauseReset
HandlerEnds == HandlerReturns \/ HandlerThrows \/ HandlerInterrupted
HandlerCall == \E n \in Ids : HandlerSkews(n) \/ HandlerJumps(n)

-----------------------------------------------------------------------------
(* The calls of the clients *)

\* The engine is not handed to other threads before FSMThreadStart returned.
Admitted(c) == OpenIsExclusive => ~At(Owner, "tPublish")

\* FSMGoto with its default stripPathComponents.
CallGoto(c, n) ==
    /\ "goto" \in Calls /\ Admitted(c)
    /\ Moves(c, "idle", "gLock")
    /\ arg' = [arg EXCEPT ![c] = n]
    /\ UNCHANGED <<strip, plan, engine, next, inside, paused, lifeline, gotoMutex, awaited>>

CallSkew(c, n) ==
    /\ "skew" \in Calls /\ Admitted(c)
    /\ Moves(c, "idle", "sCur")
    /\ arg' = [arg EXCEPT ![c] = n]
    /\ UNCHANGED <<strip, plan, engine, next, inside, paused, lifeline, gotoMutex, awaited>>

\* FSMWaitInactive, up to its first test.
CallWaitInactive(c) ==
    /\ "waitInactive" \in Calls
    /\ Moves(c, "idle", "wTest")
    /\ UNCHANGED <<steering, engine, next, inside, paused, lifeline, gotoMutex, awaited>>

\* `while (FSMActive())`: the test takes fsmPathMutex and not the mutex of
\* the notification.
WaitTest(c) ==
    /\ Moves(c, "wTest", IF path = <<>> THEN "idle" ELSE "wBlock")
    /\ UNCHANGED <<steering, engine, next, inside, paused, lifeline, gotoMutex, awaited>>

WaitBlock(c) ==
    /\ Moves(c, "wBlock", "wParked")
    /\ UNCHANGED <<steering, engine, next, inside, paused, lifeline, gotoMutex, awaited>>

\* FSMWaitFor: an unknown state returns at once.
CallWaitFor(c, n) ==
    /\ "waitFor" \in Calls
    /\ n \in Nodes
    /\ Moves(c, "idle", "fTest")
    /\ arg' = [arg EXCEPT ![c] = n]
    /\ UNCHANGED <<strip, plan, engine, next, inside, paused, lifeline, gotoMutex, awaited>>

\* The current node is compared with the node awaited before, not with the
\* one this call is for; then the wait has no condition.
WaitForTest(c) ==
    /\ IF cur = awaited
       THEN Moves(c, "fTest", "idle") /\ UNCHANGED awaited
       ELSE Moves(c, "fTest", "fParked") /\ awaited' = arg[c]
    /\ Forget(c)
    /\ UNCHANGED <<engine, next, inside, paused, lifeline, gotoMutex>>

\* FSMThreadStart: the thread runs before fsmThread is assigned.
ThreadSpawn ==
    /\ "start" \in Calls
    /\ ~thread
    /\ OpenIsExclusive => \A c \in Clients : pc[c] \notin SteerLabels
    /\ At(Owner, "idle")
    /\ pc' = [pc EXCEPT ![Owner] = "tPublish", ![Worker] = "new"]
    /\ interrupt' = FALSE
    /\ pending' = FALSE
    /\ paused' = TRUE
    /\ UNCHANGED <<steering, engine, next, inside, thread, active, gotoMutex, awaited>>

ThreadPublish ==
    /\ Moves(Owner, "tPublish", "idle")
    /\ thread' = TRUE
    /\ UNCHANGED <<steering, engine, next, inside, paused, interrupt, pending, active,
                   gotoMutex, awaited>>

CallStop ==
    /\ "stop" \in Calls
    /\ Moves(Owner, "idle", "xTest")
    /\ UNCHANGED <<steering, engine, next, inside, paused, lifeline, gotoMutex, awaited>>

\* Deviation: the request is not recorded in fsmtInterruptRequested.
StopTestSilent ==
    /\ Moves(Owner, "xTest", IF thread /\ active THEN "xInterrupt" ELSE "idle")
    /\ UNCHANGED <<steering, engine, next, inside, paused, lifeline, gotoMutex, awaited>>

\* "Thread already stopped", or go on to ask it.
StopTest ==
    /\ Moves(Owner, "xTest", IF thread /\ active THEN "xInterrupt" ELSE "idle")
    /\ interrupt' = (interrupt \/ (thread /\ active))
    /\ UNCHANGED <<steering, engine, next, inside, paused, pending, thread, active,
                   gotoMutex, awaited>>

\* fsmThread->interrupt()
StopInterrupt ==
    /\ Moves(Owner, "xInterrupt", "xNotify")
    /\ pending' = TRUE
    /\ UNCHANGED <<steering, engine, next, inside, paused, interrupt, thread, active,
                   gotoMutex, awaited>>

StopNotify ==
    /\ At(Owner, "xNotify")
    /\ pc' = [t \in Threads |-> IF t = Owner THEN "xUnlock"
                                ELSE IF pc[t] = "wParked" THEN "wTest"
                                ELSE IF pc[t] = "pParked" THEN "pWait" ELSE pc[t]]
    /\ UNCHANGED <<steering, engine, next, inside, paused, lifeline, gotoMutex, awaited>>

\* try_lock() and unlock(): whoever holds the mutex, it is free afterwards.
StopUnlock ==
    /\ Moves(Owner, "xUnlock", "xJoin")
    /\ gotoMutex' = Free
    /\ UNCHANGED <<steering, engine, next, inside, paused, lifeline, awaited>>

StopJoin ==
    /\ At(Worker, "none")
    /\ Moves(Owner, "xJoin", "idle")
    /\ thread' = FALSE
    /\ UNCHANGED <<steering, engine, next, inside, paused, interrupt, pending, active,
                   gotoMutex, awaited>>

StopStep == StopTest \/ StopInterrupt \/ StopNotify \/ StopUnlock \/ StopJoin

\* The steps of a call in progress, and the steps that begin one.
ClientStep(c) == Skew(c) \/ Goto(c) \/ WaitTest(c) \/ WaitBlock(c) \/ WaitForTest(c)
ClientCall(c) ==
    \/ \E n \in Ids : CallGoto(c, n) \/ CallSkew(c, n) \/ CallWaitFor(c, n)
    \/ CallWaitInactive(c)

Next ==
    \/ LoopStep \/ HandlerEnds \/ HandlerCall \/ Jump \/ Skew(Worker) \/ Goto(Worker)
    \/ \E c \in Clients : ClientStep(c) \/ ClientCall(c)
    \/ ThreadSpawn \/ ThreadPublish \/ CallStop \/ StopStep
    \/ SpuriousWakeup

Spec == Init /\ [][Next]_vars

\* The scheduler runs every thread that can run, a handler is finite code
\* however often it steers, and a mutex does not pass over a thread for ever.
\* Nobody has to begin a call, and no condition variable has to wake anybody
\* up spuriously.
Fairness ==
    /\ WF_vars(LoopStep)
    /\ SF_vars(HandlerEnds)
    /\ SF_vars(JumpLock) /\ WF_vars(JumpCur \/ JumpRun)
    /\ \A t \in Threads : SF_vars(GotoLock(t)) /\ WF_vars(Skew(t) \/ Goto(t))
    /\ \A c \in Clients : WF_vars(WaitTest(c) \/ WaitBlock(c) \/ WaitForTest(c))
    /\ WF_vars(ThreadPublish) /\ WF_vars(StopStep)

FairSpec == Spec /\ Fairness

-----------------------------------------------------------------------------
(* What the engine guarantees *)

\* The wakeup protocol of FSMGoto, _fsmWakeup and _fsmPause loses no request:
\* while the FSM thread is parked and there is a path it could walk, either
\* somebody who has published a path has still to wake it up, or it has been
\* told to stop.
NoLostWakeup ==
    At(Worker, "pParked") /\ path # <<>> /\ ~inside =>
        \/ interrupt
        \/ \E c \in Clients : pc[c] \in {"gTarget", "gWake", "gNotify"}

\* fsmGotoMutex keeps the path and the target together: whatever FSMGoto and
\* FSMSkew calls overlap, the path ends in fsmTargetState, except between the
\* two assignments of one FSMGoto, when it ends where that call is going.
PathLeadsToTarget ==
    path # <<>> =>
        \/ path[Len(path)] = target
        \/ \E t \in Threads : At(t, "gTarget") /\ path[Len(path)] = arg[t]

\* fsmInsideHandler is reset on every way out of FSMContinue that a handler
\* can take without an exception, interruption included: otherwise the next
\* FSMContinue, in this thread or in one started later, does nothing.
RestsOutsideHandler ==
    pc[Worker] \in {"none", "new", "pTest", "pWait", "pParked", "pReset"} => ~inside

\* FSMThreadStop returns by its test of fsmThread and fsmThreadActive, which
\* the thread itself sets and not every run resets, or by the join.  Either way
\* no thread runs any more, but for one that has not come to its first line: it
\* is then still fsmThread, so that the next FSMThreadStop stops it.
StopLeavesNoThread ==
    [][pc[Owner] \in StopLabels /\ pc'[Owner] = "idle" =>
          At(Worker, "none")' \/ (At(Worker, "new")' /\ thread')]_vars

\* Once the clients leave the engine alone, FSMThreadStop returns, wherever the
\* FSM thread is when it is called: parked, about to park, in a handler or
\* waiting for fsmGotoMutex.
Steers(t) == pc[t] \in SteerLabels \cup JumpLabels
StopTerminates ==
    <>[](\A c \in Clients : ~Steers(c)) =>
        (At(Owner, "xInterrupt") ~> pc[Owner] \in {"idle", "crashed"})

\* Once nobody steers any more, a running FSM thread walks what is left of
\* the path to its end.
RequestsServed ==
    <>[](thread /\ ~interrupt /\ \A t \in Threads : ~Steers(t)) =>
        []<>(path = <<>> \/ At(Worker, "crashed"))

\* The inductive invariant behind NoLostWakeup, RestsOutsideHandler and
\* StopLeavesNoThread, in named parts.

\* The FSM thread is inside FSMContinue, past its tests.
BusyLabels == {"cPop", "cSkip", "cPass", "cNext", "cCur", "cEnter", "hRun", "cDone"}
                 \cup SteerLabels \cup JumpLabels

\* fsmInsideHandler is set all the way through FSMContinue, and nowhere else
\* unless a handler has thrown.
InsideInv ==
    /\ pc[Worker] \in BusyLabels => inside
    /\ ~HandlersThrow /\ inside => pc[Worker] \in BusyLabels \cup {"crashed"}

\* The thread exists exactly while fsmThread is set, except in FSMThreadStart,
\* when nobody steers yet; and a crash takes every thread with it.
ThreadInv ==
    /\ ~thread /\ ~At(Owner, "tPublish") => pc[Worker] \in {"none", "crashed"}
    /\ At(Owner, "tPublish") => \A c \in Clients : pc[c] \notin SteerLabels
    /\ At(Worker, "crashed") => \A c \in Clients : At(c, "crashed")

\* A thread that has come past its first line has fsmThreadActive set.
ActiveInv == pc[Worker] \notin {"none", "new", "crashed"} => active

\* From the test that sends the thread to sleep to the wait itself: what the
\* test may have missed still has its wakeup before it ...
DrowsyLabels == {"lNotify", "pTest", "pWait", "pParked"}
WakeInv ==
    pc[Worker] \in DrowsyLabels /\ paused /\ path # <<>> /\ ~inside =>
        interrupt \/ \E c \in Clients : pc[c] \in {"gTarget", "gWake"}
\* ... and a wakeup that has reset the flag still has its notification before it.
NotifyInv ==
    At(Worker, "pParked") /\ ~paused =>
        interrupt \/ \E c \in Clients : At(c, "gNotify")

EngineInv == TypeOK /\ InsideInv /\ ThreadInv /\ ActiveInv /\ WakeInv /\ NotifyInv
=============================================================================

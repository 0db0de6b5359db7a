------------------------------- MODULE Progress -------------------------------
(***************************************************************************)
(* ProgressFeedback: trees of tasks that tell their listeners when they    *)
(* start, advance, complete and fail, each telling its parent as well.     *)
(*                                                                         *)
(* One thread at a time works on a tree, as a handler of the FSM and what  *)
(* it calls do; the application adds and removes listeners meanwhile.  A   *)
(* call sets what it sets and leaves notices to be given; a notice is one  *)
(* of the _notify functions, which fires an event and passes itself on.    *)
(***************************************************************************)
EXTENDS Callbacks, Integers, FiniteSets

CONSTANTS Kind,     \* of each task: "finite", "variable", "boolean"
          Root,     \* the task given to FSMUseProgress
          Unit,     \* the progress 1.0
          MaxSlots, MaxSize, MaxOps  \* bounds of the instance

VARIABLES parent, started, completed,
          tasks, taskIndex,   \* of a finite task: what each of its steps is
          max, current,       \* of a variable task
          notices, ops,
          \* Ghosts, of what has happened since the last restart:
          retired,            \* the sub-tasks of the paths before it,
          late,               \* whether one of these was worked on,
          shown,              \* the last progress told,
          ended               \* how often completion was told

treeVars == <<parent, started, completed, tasks, taskIndex, max, current>>
vars == <<treeVars, notices, ops, retired, late, shown, ended, cbVars>>

Task   == Object
None   == "none"
Open   == "open"   \* 0 of tasks
Closed == "done"   \* 1 of tasks; a task stands for 2
Finite == {t \in Task : Kind[t] = "finite"}
Variable == {t \in Task : Kind[t] = "variable"}
InUse(t) == t = Root \/ parent[t] # None

\* What next leads to from t, t itself included.
Reach(t, next) == {u \in Task : \A S \in SUBSET Task : t \in S /\ (\A v \in S : next[v] \subseteq S) => u \in S}
Ancestors(t) == Reach(t, [v \in Task |-> {parent[v]} \ {None}])
Family(t)    == {u \in Task : u \in Ancestors(t) \/ t \in Ancestors(u)}

ASSUME KindAssumption == \A t \in Task : Kind[t] \in {"finite", "variable", "boolean"}
ASSUME RootAssumption == Root \in Finite /\ Task \cap {None, Open, Closed} = {}
ASSUME BoundAssumption == MaxSlots \in Nat /\ MaxSize \in Nat /\ MaxOps \in Nat /\ Unit \in Nat

(***************************************************************************)
(* isCompleted and getProgress.                                            *)
(***************************************************************************)
Slots(t) == Range(tasks[t])

\* A download that complete() ends before it starts has not completed; a boolean task
\* has completed once it has started, a finite one without steps too.
VariableCompleted(t) == started[t] /\ (completed[t] \/ current[t] = max[t])
BooleanCompleted(t)  == completed[t] \/ started[t]

IsCompleted[t \in Task] ==
    \/ t \in Variable /\ VariableCompleted(t)
    \/ Kind[t] = "boolean" /\ BooleanCompleted(t)
    \/ t \in Finite /\ completed[t]
    \/ t \in Finite /\ started[t] /\ \A s \in Slots(t) : s # Closed => s # Open /\ IsCompleted[s]

\* The quotient of a maximum of zero is infinite.
Infinite == 10 * Unit
VariableProgress(t) == IF max[t] = 0 THEN Infinite ELSE (Unit * current[t]) \div max[t]
BooleanProgress(t)  == 0

\* What each step of a finite task adds, where g is the progress of the sub-tasks.
Shares(g, steps) == [i \in DOMAIN steps |-> (IF steps[i] = Open THEN 0 ELSE IF steps[i] = Closed THEN Unit ELSE g[steps[i]]) \div Len(steps)]
Total(shares) == FoldLeft(LAMBDA sum, share : sum + share, 0, shares)

GetProgress[t \in Task] ==
    IF completed[t] THEN Unit
    ELSE IF ~started[t] THEN 0
    ELSE IF t \in Variable THEN VariableProgress(t)
    ELSE IF t \in Finite THEN Total(Shares(GetProgress, tasks[t]))
    ELSE BooleanProgress(t)

(***************************************************************************)
(* Notices.                                                                *)
(***************************************************************************)
Notice(kind, t)  == [kind |-> kind, of |-> t]
Event3(e, t, v)  == [kind |-> "event", of |-> t, event |-> e, value |-> v]
ToParent(kind, t) == IF parent[t] = None THEN <<>> ELSE <<Notice(kind, parent[t])>>

Gives(new) == notices' = new \o Tail(notices)

NotifyStarted(n) ==
    /\ n.kind = "started"
    /\ IF started[n.of] THEN Gives(<<>>) /\ UNCHANGED started
       ELSE /\ started' = [started EXCEPT ![n.of] = TRUE]
            /\ Gives(<<Event3("started", n.of, 0)>> \o ToParent("started", n.of))
    /\ UNCHANGED <<parent, completed, tasks, taskIndex, max, current, shown, ended, retired, cbVars>>

NotifyUpdate(n) ==
    /\ n.kind = "update"
    /\ Gives(IF IsCompleted[n.of] THEN <<Notice("completed", n.of)>>
             ELSE <<Event3("progress", n.of, GetProgress[n.of])>> \o ToParent("update", n.of))
    /\ UNCHANGED <<treeVars, shown, ended, retired, cbVars>>

\* Deviation: the check for a task that has completed already is missing.
NotifyCompletedAgain(n) ==
    /\ n.kind = "completed"
    /\ completed' = [completed EXCEPT ![n.of] = TRUE]
    /\ Gives(<<Event3("progress", n.of, Unit), Event3("completed", n.of, Unit)>> \o ToParent("update", n.of))
    /\ UNCHANGED <<parent, started, tasks, taskIndex, max, current, shown, ended, retired, cbVars>>

NotifyCompleted(n) ==
    /\ n.kind = "completed"
    /\ IF completed[n.of] THEN Gives(<<>>) /\ UNCHANGED completed
       ELSE /\ completed' = [completed EXCEPT ![n.of] = TRUE]
            /\ Gives(<<Event3("progress", n.of, Unit), Event3("completed", n.of, Unit)>> \o ToParent("update", n.of))
    /\ UNCHANGED <<parent, started, tasks, taskIndex, max, current, shown, ended, retired, cbVars>>

NotifyFailed(n) ==
    /\ n.kind = "failed"
    /\ Gives(<<Event3("failed", n.of, 0)>> \o ToParent("failed", n.of))
    /\ UNCHANGED <<treeVars, shown, ended, retired, cbVars>>

NotifyLengthyTask(n) ==
    /\ n.kind = "lengthy"
    /\ Gives(<<Event3("lengthyTask", n.of, 0)>> \o ToParent("lengthy", n.of))
    /\ UNCHANGED <<treeVars, shown, ended, retired, cbVars>>

FireEvent(n) ==
    /\ n.kind = "event" /\ Fire(n.of, n.event)
    /\ notices' = Tail(notices)
    /\ shown' = IF n.event = "progress" THEN [shown EXCEPT ![n.of] = n.value] ELSE shown
    /\ ended' = IF n.event = "completed" THEN [ended EXCEPT ![n.of] = @ + 1] ELSE ended
    /\ UNCHANGED <<treeVars, retired>>

\* The listeners of an object return before the firing call does.
Give ==
    /\ notices # <<>> /\ \A t \in Task : ShopFree(t)
    /\ LET n == Head(notices)
       IN \/ NotifyStarted(n) \/ NotifyUpdate(n) \/ NotifyCompleted(n)
          \/ NotifyFailed(n) \/ NotifyLengthyTask(n) \/ FireEvent(n)
    /\ UNCHANGED <<ops, late>>

(***************************************************************************)
(* Calls of the thread that works on the tree.  A finite task is given its *)
(* number of steps before it starts, as everywhere in the code.            *)
(* FSMGoto restarts the tree for a new path while the handler of the old   *)
(* one still runs, or from within it (FSMSkew), and this handler goes on   *)
(* with the sub-task that it holds: late remembers that it did.            *)
(***************************************************************************)
Turn(t)  == notices = <<>> /\ InUse(t) /\ (\A u \in Task : ShopFree(u)) /\ ops < MaxOps /\ ops' = ops + 1
Works(t) == Turn(t) /\ late' = (late \/ t \in retired)
\* A download that has ended is only restarted.
Runs(t) == t \in Variable => ~completed[t]
Says(t, kinds) == notices' = [i \in 1 .. Len(kinds) |-> Notice(kinds[i], t)]

Doing(t) == Works(t) /\ Runs(t) /\ Says(t, <<"started", "update">>) /\ UNCHANGED <<treeVars, shown, ended, retired, cbVars>>
Complete(t) == Works(t) /\ Says(t, <<"completed">>) /\ UNCHANGED <<treeVars, shown, ended, retired, cbVars>>
MarkLengthy(t) == Works(t) /\ Says(t, <<"lengthy">>) /\ UNCHANGED <<treeVars, shown, ended, retired, cbVars>>

Fail(t) ==
    /\ Works(t)
    /\ completed' = [completed EXCEPT ![t] = TRUE]
    /\ notices' = <<Notice("failed", t)>> \o ToParent("update", t)
    /\ UNCHANGED <<parent, started, tasks, taskIndex, max, current, shown, ended, retired, cbVars>>

\* FiniteTask::setMax keeps the steps there are; taskIndex stays.
Resized(s, n) == [i \in 1 .. n |-> IF i <= Len(s) THEN s[i] ELSE Open]

SetMax(t) ==
    /\ Works(t) /\ t \in Finite /\ ~started[t]
    /\ \E n \in 1 .. MaxSlots : tasks' = [tasks EXCEPT ![t] = Resized(@, n)]
    /\ UNCHANGED <<parent, started, completed, taskIndex, max, current, notices, shown, ended, retired, cbVars>>

\* Deviation: the index stays.
StepStays(t, what) ==
    IF taskIndex[t] < Len(tasks[t])
    THEN tasks' = [tasks EXCEPT ![t][taskIndex[t] + 1] = what] /\ UNCHANGED taskIndex
    ELSE UNCHANGED <<tasks, taskIndex>>

\* The next step, where there is one left, becomes what.
Step(t, what) ==
    IF taskIndex[t] < Len(tasks[t])
    THEN /\ tasks' = [tasks EXCEPT ![t][taskIndex[t] + 1] = what]
         /\ taskIndex' = [taskIndex EXCEPT ![t] = @ + 1]
    ELSE UNCHANGED <<tasks, taskIndex>>

\* Deviation: done() forgets the update.
DoneSilently(t) ==
    /\ Works(t) /\ t \in Finite
    /\ Step(t, Closed)
    /\ Says(t, <<"started">>)
    /\ UNCHANGED <<parent, started, completed, max, current, shown, ended, retired, cbVars>>

\* The started notice comes first and changes no step.
Done(t) ==
    /\ Works(t) /\ t \in Finite
    /\ Step(t, Closed)
    /\ Says(t, <<"started", "update">>)
    /\ UNCHANGED <<parent, started, completed, max, current, shown, ended, retired, cbVars>>

Begin(t, c) ==
    /\ Works(t) /\ t \in Finite /\ ~InUse(c)
    /\ parent' = [parent EXCEPT ![c] = t]
    /\ Step(t, c)
    /\ Says(t, <<"started", "update">>)
    /\ UNCHANGED <<started, completed, max, current, shown, ended, retired, cbVars>>

\* DownloadProvider::fireProgressEvent: the stream's size, which is another's after a
\* restart, and its position, never beyond its end.
Update(t) ==
    /\ Works(t) /\ Runs(t) /\ t \in Variable
    /\ \E size \in IF current[t] = 0 THEN 1 .. MaxSize ELSE {max[t]} :
         \E pos \in current[t] .. size :
            /\ max' = [max EXCEPT ![t] = size] /\ current' = [current EXCEPT ![t] = pos]
    /\ Says(t, <<"started", "update">>)
    /\ UNCHANGED <<parent, started, completed, tasks, taskIndex, shown, ended, retired, cbVars>>

(***************************************************************************)
(* restart(message, false): the task's state and that of its sub-tasks,    *)
(* which keep their steps.  FSMGoto gives the root the steps of the new    *)
(* path at once; the downloads restart their task before each try.         *)
(***************************************************************************)
\* The task, and the sub-tasks among the steps of a restarted one.
Restarted(t) == Reach(t, [v \in Task |-> IF v \in Finite THEN Slots(v) \cap Task ELSE {}])

\* What restart() of any kind leaves of the start.
StartedAfter(u) == started[u] /\ ~completed[u]

Restart(t) ==
    LET ts == Restarted(t)
        reset(u) == [i \in DOMAIN tasks[u] |-> IF tasks[u][i] = Closed THEN Open ELSE tasks[u][i]]
    IN /\ Turn(t) /\ (t = Root \/ t \in Variable)
       /\ late' = (t # Root /\ (late \/ t \in retired))
       /\ started' = [u \in Task |-> IF u \in ts THEN StartedAfter(u) ELSE started[u]]
       /\ completed' = [u \in Task |-> completed[u] /\ u \notin ts]
       /\ taskIndex' = [u \in Task |-> IF u \in ts THEN 0 ELSE taskIndex[u]]
       /\ current' = [u \in Task |-> IF u \in ts THEN 0 ELSE current[u]]
       /\ \E n \in 0 .. MaxSlots :
            tasks' = [u \in Task |-> IF u = Root /\ u = t THEN Resized(reset(u), n)
                                     ELSE IF u \in ts THEN reset(u) ELSE tasks[u]]
       /\ shown' = [u \in Task |-> IF u \in Family(t) THEN 0 ELSE shown[u]]
       /\ ended' = [u \in Task |-> IF u \in ts THEN 0 ELSE ended[u]]
       /\ retired' = IF t = Root THEN {u \in Task : parent[u] # None} ELSE retired
       /\ UNCHANGED <<parent, max, notices, cbVars>>

(***************************************************************************)
(* Specification.                                                          *)
(***************************************************************************)
Init ==
    /\ CallbacksInit
    /\ parent = [t \in Task |-> None]
    /\ started = [t \in Task |-> FALSE] /\ completed = [t \in Task |-> FALSE]
    /\ tasks = [t \in Task |-> <<>>] /\ taskIndex = [t \in Task |-> 0]
    /\ max = [t \in Task |-> 0] /\ current = [t \in Task |-> 0]
    /\ notices = <<>> /\ ops = 0 /\ retired = {} /\ late = FALSE
    /\ shown = [t \in Task |-> 0] /\ ended = [t \in Task |-> 0]

\* The application's listeners are those of the root.
Listens ==
    /\ \E l \in Listener, e \in {AnyEvent, "completed"} :
         LET slot == [event |-> e, to |-> l] IN
         \/ (\A s \in Range(slots[Root]) : s.to # l) /\ ops < MaxOps /\ On(Root, slot) /\ ops' = ops + 1
         \/ Off(Root, slot) /\ UNCHANGED ops
    /\ UNCHANGED <<treeVars, notices, shown, ended, retired, late>>

Calls == (\E t \in Task : CallNext(t)) /\ UNCHANGED <<treeVars, notices, ops, shown, ended, retired, late>>

Work(t) ==
    \/ Doing(t) \/ Complete(t) \/ MarkLengthy(t) \/ Fail(t) \/ SetMax(t) \/ Done(t)
    \/ (\E c \in Task : Begin(t, c)) \/ Update(t) \/ Restart(t)

Next == Give \/ Calls \/ Listens \/ \E t \in Task : Work(t)

\* What has been called goes on, and listeners return.
Spec ==
    /\ Init /\ [][Next]_vars
    /\ WF_vars(Give) /\ WF_vars(Calls)

(***************************************************************************)
(* Properties.                                                             *)
(***************************************************************************)
\* The types of the state; the parents form a tree under the root.
TypeOK ==
    /\ parent \in [Task -> Finite \cup {None}] /\ parent[Root] = None
    /\ started \in [Task -> BOOLEAN] /\ completed \in [Task -> BOOLEAN]
    /\ \A t \in Task : /\ Slots(t) \subseteq {Open, Closed} \cup {u \in Task : parent[u] = t}
                       /\ taskIndex[t] \in 0 .. MaxSlots /\ Len(tasks[t]) <= MaxSlots
    /\ max \in [Task -> 0 .. MaxSize] /\ current \in [Task -> 0 .. MaxSize]

\* When no notice is left, every task whose steps are all done has said that it is
\* completed: no way to finish the last step, in the task itself or in a sub-task at
\* any depth, loses the event the client waits for.  (A variable task that complete()
\* ends before its first update is not counted by its parent: its isCompleted() looks
\* at the start first.)  What the code does not promise is left out: a sub-task of an
\* earlier path, and the tree after one of these was worked on (late); and a task
\* without steps, as a path without handlers leaves the root, for restart and setMax
\* tell nobody and it completes at the next call only.
StepsDone(t) == \A s \in Slots(t) : s = Closed \/ (s # Open /\ completed[s] /\ (s \in Variable => started[s]))
CompletionIsTold ==
    (notices = <<>> /\ \A t \in Task : ShopFree(t)) =>
        \A t \in Finite \ retired :
            InUse(t) /\ started[t] /\ tasks[t] # <<>> /\ StepsDone(t) /\ ~late => completed[t]

\* Completion is told at most once between two restarts, however many of the
\* sub-tasks of a tree end at the same time.
CompletedOnce == \A t \in Task : ended[t] <= 1

\* Nobody sees the progress of a task go back, or beyond 1.0, unless something below
\* it was restarted, or the handler of a path that FSMGoto has replaced goes on with its
\* sub-task in the restarted tree (late): what it adds there is taken away when the
\* first handler of the new path begins.
NeverBackwards ==
    [][\A t \in Task : shown'[t] # shown[t] /\ notices # <<>> /\ ~late
         => shown[t] <= shown'[t] /\ shown'[t] <= Unit]_vars

\* Every call ends: no notice waits for ever for a listener or for the mutex.
Finishes == []<>(notices = <<>>)
=============================================================================

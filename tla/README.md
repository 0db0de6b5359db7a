# A TLA+ verification of libCernVM

libCernVM drives VirtualBox: it allocates CernVM virtual machines, brings them
from one state to another by running `VBoxManage`, keeps what it knows about
them in configuration files, downloads what they need, and talks to the user
and to a small daemon while it does so.  This directory holds TLA+ modules
translated from its source, the TLC configurations that check them, and proofs
that TLAPS checks.  `PROJECT.json` lists the components, runs, theorems
and hazards, gives for each property a change of a definition that breaks it, and
maps every definition to the lines it stands for.

    tlc -config fsm_lifecycle.cfg MCSimpleFSM      # one run
    tlapm SimpleFSMProofs.tla                      # the proofs of one module

## 1. The system

### Components

| component | source | state | operations | hard behaviour | what makes it correct |
|---|---|---|---|---|---|
| **SimpleFSM** | `SimpleFSM.cpp/.h` | current node, path, target, inside-handler, pause and interrupt flags, thread, two mutexes, two condition variables | `FSMGoto`, `FSMSkew`, `FSMJump`, `FSMContinue`, `FSMThreadLoop`, `_fsmPause`, `_fsmWakeup`, `FSMThreadStart/Stop`, `FSMWaitInactive/For` | one FSM thread, any number of clients and handlers that steer it; wakeups, interruption, forced unlocks | a published path is walked to its target; no lost wakeup; a stopped engine is quiet and restartable |
| **VBoxSession** | `VBoxSession.cpp/.h` | the registry graph, the session's configuration (`parameters`, `local`, `machine`), error count | open, pause, close, resume, stop, hibernate, start, update, abort; 27 handlers, each a sequence of VBoxManage commands | every command may fail; healing by skew and by jump; cached machine info; the VM changes behind the library's back | the recorded state is the machine's; commands fit the machine's state; nothing is destroyed that was not asked to be |
| **VBoxInstance, HVInstance** | `VBoxInstance.cpp`, `Hypervisor.cpp/.h` | the maps of known and of open sessions, instance counters | sessionAllocate/Open/Get/Close/Delete, loadSessions, abort | reloading while sessions are open; counters of shared sessions | a session is open for as long as somebody uses it; the registry is what is on disk |
| **LocalConfig, ParameterMap** | `LocalConfig.cpp`, `ParameterMap.cpp` | key map, deleted and changed keys, time stamps, locks | set, erase, clear, begin/commit, subgroup, load, save, sync | two processes and one file | no committed key is lost by a synchronisation |
| **Progress feedback** | `ProgressFeedback.cpp/.h` | a tree of finite and variable tasks | begin, done, doing, complete, fail, restart, completed events | counters set from several threads, completion events bubbling up | progress never exceeds its maximum; one completion event |
| **Downloads** | `DownloadProvider.cpp`, `Hypervisor.cpp` | a file, its checksum, a cache directory | downloadFile, downloadFileURL, downloadText, buildConfigDrive | partial files, wrong checksums, retry | what is used has its checksum |
| **ThinIPC** | `ThinIPC.cpp` | a socket, a message and its read position | send, recv, the accessors | framing in chunks over UDP | a message arrives whole or not at all |
| **DaemonCtl** | `DaemonCtl.cpp` | a request id and a port | daemonGet, daemonSet, daemonStart, isDaemonNeeded | late and lost responses | a response answers its request |
| **UserInteraction** | `UserInteraction.cpp` | result, abort flags, a mutex and conditions | confirm, alert, confirmLicense, abort | the answer, the abort and the waiting thread race | an answer reaches its question; abort returns |
| **Callbacks** | `Callbacks.cpp` | lists of callbacks | on, off, fire | callbacks that call back | fire reaches every callback registered |
| **VirtualBox installation** | `VBoxCommon.cpp` | retries, flags | vboxDetect, vboxInstall | retries and the user's refusals | it ends, and reports failure |
| **DomainKeystore** | `DomainKeystore.cpp` | a key list, its time, two files | updateAuthorizedKeystore, valid, generateSalt | download, signature, refresh | only a signed list is used |
| **VBoxProbes** | `VBoxProbes.cpp` | the position in a log file, probe states | analyze | a log that is truncated and grows | every state change is seen once |
| **floppyIO, contextiso** | same names | none / a file | send, receive, build image | byte layouts | - |
| **sysExec** | `Utilities.cpp` | the abort flag, a process and two pipes per call | sysExec, abortSysExec, initSysExec | output, end, time limit, abort and retry race | success comes with the whole output; no process is left; it ends |
| **rest of Utilities, RollbackTransaction, CrashReport, platform** | same names | none | helpers | - | - |

### How they interact

* A client (a web plug-in, a daemon, the tests of `src/test`) obtains an
  `HVInstance` (here `VBoxInstance`) from `detectHypervisor`, and from it
  sessions by `sessionOpen`.  `VBoxSession` **is a** `SimpleFSM`: opening it
  starts the FSM thread, each public call (`start`, `stop`, ...) is one
  `FSMGoto` or `FSMSkew` from the client's thread, and the handlers that do the
  work are called back by the FSM thread.  A handler steers its own engine: it
  calls `FSMSkew` when it finds the machine in another state, and on errors
  through `errorOccured`, which ends in `FSMSkew` or `FSMJump`.
* Handlers read and write `LocalConfig` maps (the session's file and the
  subgroups `local`, `machine` and `properties`), run processes with `sysExec`
  (where a stop interrupts them), download images, report to the progress tree
  and fire `Callbacks` ("stateChanged", "failure", ...) in the FSM thread.
* `VBoxInstance::loadSessions` rebuilds the session map from the configuration
  directory and from `VBoxManage list vms`, aborting the open sessions whose
  machine is gone.
* The daemon (an executable of its own, not in this repository) is reached by
  `DaemonCtl` over `ThinIPC`.

### Modules and runs

| section | modules | runs |
|---|---|---|
| 2 SimpleFSM | `SimpleFSM`, `SimpleFSMProofs`, `MCSimpleFSM` | `fsm_steering`, `fsm_lifecycle` |
| 3 VBoxSession | `VBoxSession`, `VBoxSessionProofs`, `FSMRouting`, `MCVBoxSession` | `session_heal`, `session_quirks` |
| 4 configuration | `LocalConfig`, `ConfigFile`, `ConfigStore` (abstract), `LocalConfigProofs`, `MCLocalConfig` | `config_store`, `config_sync` |
| 5 sessions | `SessionRegistry`, `SessionRegistryProofs`, `MCSessionRegistry` | `registry` |
| 6 progress | `Progress` on `Callbacks`, `ProgressProofs`, `MCProgress` | `progress` |
| 7 installation | `Install` on `Downloads` and `UserInteraction`, `InstallProofs` | `install` |
| 8 the daemon | `DaemonCtl` on `ThinIPC`, `DaemonCtlProofs`, `MCDaemonCtl` | `wire` |
| 9 commands | `HostNetwork` on `SysExec`, `HostNetworkProofs` | `sysexec`, `sysexec_abort` |

Conventions.  A step is the code between two points where somebody else can
interfere.  What is not in this repository (VirtualBox, the network, the user, the
daemon, the programs that are run) is modelled as this code uses it, and marked
external in the map.  A variable marked *ghost* in its declaration is no state of
the code: a property needs it.  Constants that begin with `Max` bound an instance.  `Quirks` names
orders of events that the code does not exclude and that break a property; a run
says which of them it admits, and the section says what each of them does.  A
definition that begins with "Deviation:" is no model of the code: it is the change
of the definition below it that one of the properties must notice.

## 2. SimpleFSM

`SimpleFSM.tla` models the engine as the code has it: a program counter for
the FSM thread (`Worker`) and one for each client, and one action for the code
between two points where another thread can interfere.

| code | actions |
|---|---|
| `FSMGoto` | `GotoLock`, `GotoPlan` (no route: straight to the wakeup, path empty), `GotoAssign`, `GotoTarget`, `GotoWake`/`GotoNotify` (`_fsmWakeup`), `GotoDone` |
| `FSMSkew` | `SkewCur`, `SkewTest`, then the actions of `FSMGoto` with `strip = 0` |
| `FSMJump` | `JumpLock`, `JumpCur`, `JumpRun` |
| `FSMContinue`, `_callHandler` | `LoopTest`, `ContinuePop/Skip/Pass/Next/Cur/Enter/Done`, `HandlerReturns/Throws/Interrupted`, `HandlerSkews`, `HandlerJumps` |
| `FSMThreadLoop`, `_fsmPause` | `WorkerStarts`, `LoopTest`, `LoopNotify`, `PauseTest/Wait/Interrupted/Reset` |
| `FSMWaitInactive`, `FSMWaitFor` | `CallWaitInactive`, `WaitTest`, `WaitBlock`, `CallWaitFor`, `WaitForTest` |
| `FSMThreadStart`, `FSMThreadStop` | `ThreadSpawn`, `ThreadPublish`; `CallStop`, `StopTest/Interrupt/Notify/Unlock/Join` |

Granularity.  A section under `fsmPathMutex` contains no other blocking call
and is one action, so that mutex is not a variable; `fsmGotoMutex` is held
across many steps and is one.  Reads outside a lock (the emptiness test of
`FSMContinue`, the target `FSMSkew` passes on, the flags of the loop) are
steps of their own.  The wait of a condition variable may end spuriously
(`SpuriousWakeup`).  A handler is a point from which it may skew, jump, return,
throw, or be interrupted, any number of times.

Constants.  `Route` is the answer of `findShortestPath`; the theorems assume of
it only that a route has registered nodes, at least two of them, and ends where
it was asked to.  `Calls` and `HandlerCalls` say which calls a run's clients
and handlers make.  `OpenIsExclusive` states how the engine is used:
`VBoxSession::open` calls `FSMThreadStart` before it hands the session to
anybody, so no `FSMGoto` overlaps the start (a late one would find
`fsmThread` NULL and wake nobody).

### The runs

| run | shows | instance |
|---|---|---|
| `fsm_steering` | `PathLeadsToTarget` | 2 clients that goto and skew, handlers that skew, jump and throw, two registered ids and one nobody registered; no stop |
| `fsm_lifecycle` | `EngineInv` (with `TypeOK`), `NoLostWakeup`, `RestsOutsideHandler`, `StopLeavesNoThread`; under fairness `StopTerminates`, `RequestsServed` | 2 clients that goto, wait, start and stop; handlers that skew and jump; one target |

Every instance has four nodes in a ring, two of them with handlers and two
without, which is the least graph with a route that passes by a state node and
an edge back.  Two clients are enough for each race modelled: every one of them
is between one steering client and the FSM thread, between two steering
clients, or between a stopper and one of these.  No counter is bounded: the
state space is finite.  Deadlock is not checked: clients need not call.

Fairness (`Fairness`).  Every thread that can run does (`WF`): the operating
system's scheduler.  `SF_vars(HandlerEnds)`: a handler may steer any number of
times but is finite code.  `SF` on taking `fsmGotoMutex`: the mutex does not pass
over a thread for ever.  No call has to begin and no spurious wakeup has to come.

### What the engine does not promise

The model has these behaviours, no property excludes them:

* `FSMContinue` tests the path (164) and pops it (171) in two steps.  A goto that
  empties the list in between makes it pop an empty list, after which anything may
  happen.
* `FSMGoto` plans from `fsmCurrentNode` (281) while `FSMContinue` holds the node it
  has popped and not yet entered (171-190).  The next step of the path then need
  not be an edge of the graph.
* `FSMSkew` reads the target (417) before it owns `fsmGotoMutex`: a skew may bring
  back the target that a request has just replaced.
* The notification of `_fsmWakeup` takes no mutex (455), so it may fall between a
  waiter's test and its wait; `update()` (VBoxSession.cpp:1877) and `wait()` (1990)
  are such waiters.  `FSMWaitInactive` returns when the path is empty, while the
  handler of its last node may still run.
* A handler that throws leaves `fsmInsideHandler` set, and every later
  `FSMContinue` returns at once.  VBoxSession's handlers catch their own exceptions.
* `FSMThreadStop` called before the new thread has set `fsmThreadActive` returns without
  joining it, and the thread runs on until a later stop (`StopLeavesNoThread` says that this
  window is the only one); it unlocks `fsmGotoMutex` for whoever holds it, so a stop that
  overlaps steering calls lets two threads steer at once (hence no `stop` in
  `fsm_steering`).
* `FSMWaitFor` compares with the state of the previous call and then waits for a
  notification nobody sends; nothing calls it.

Not modelled: the calls on `fsmProgress` (section 6 has the tree they work on); `FSMEnteringState`, which does nothing
in this class (VBoxSession overrides it); `FSMContinue(false)` from outside the
thread; a skew or jump made by a handler that was itself entered by a jump; a
stop by several threads; the forced unlock of the mutexes other than
`fsmGotoMutex`.

### What is proved

`SimpleFSMProofs.tla` proves, for every registry, route function, set of clients
and mix of calls that satisfies the assumptions of `SimpleFSM.tla`:

* `TypeCorrect`: `Spec => []TypeOK`.  The proof is inductive as it stands: one
  lemma per group of actions (`GotoType`, `SkewType`, `JumpType`, `LoopType`, ...),
  each with the two halves `PcOK` and `DataOK`.
* `EngineCorrect`: `[]EngineInv`, assuming `OpenIsExclusive`.  `EngineInv` strengthens the three
  properties below to an inductive invariant.  `NoLostWakeup` alone is not: that
  the thread is parked on a path says nothing of how it got past the test.
  `WakeInv` therefore covers every point between the test that sends the thread to
  sleep and the wait, and `NotifyInv` the time between the reset of the flag and
  the notification; `InsideInv` says exactly where `fsmInsideHandler` is set;
  `ThreadInv` says when the thread exists.
* `WakeupCorrect`, `InsideCorrect`, `StopCorrect`: `NoLostWakeup`,
  `RestsOutsideHandler` (when no handler throws) and `StopLeavesNoThread` from it.
  The last one rests on `ThreadInv` and `ActiveInv`: the two flags by which
  `FSMThreadStop` decides that there is nothing to stop.  An interruption in a handler
  clears `fsmThreadActive`, a return from the loop leaves it set for the next run, and
  the thread sets it only at its own first line; `ActiveInv` says that whatever
  the earlier runs left, it is set as long as a thread is past that line.

* `SteeringCorrect`: `[]PathLeadsToTarget`, assuming `"stop" \notin Calls` and not
  `OpenIsExclusive`.  `PathLeadsToTarget` says nothing of the calls that are about to
  publish a path, so `PathInv` adds to it `HolderInv` (between the lock and the
  unlock of `fsmGotoMutex` there is only its holder), `PlanInv` (until
  the holder publishes its route the path stays empty, and that route ends where
  the call is going) and `PublishedInv` (what it has published is walked from the
  front only, hence still ends there when the target is assigned).  A stop breaks `HolderInv`: it
  unlocks the mutex for whoever holds it, and with `stop` among the calls TLC finds
  `PathLeadsToTarget` violated (two gotos that assign path and target alternately).

Only model-checked: the liveness properties, which TLAPS cannot prove.

## 3. VBoxSession

`VBoxSession.tla` models one session over one virtual machine: the graph its
constructor registers (`Links`, the nodes keep their numbers), a handler per
node, the calls of the clients, and the healing of errors.  A steering call is
one step and so is a handler: what the steps of two steering calls do to each
other is the matter of `SimpleFSM.tla`.  A client's call falls between two
handlers, or while one runs: between `Continue`, which enters a node, and the
action of that node.

| code | actions and operators |
|---|---|
| `FSMContinue`, `FSMEnteringState` | `Continue`, `Enters` |
| `FSMGoto`, `FSMSkew`, `findShortestPath` | `FSMGoto`, `FSMSkew`, the constant `Route` |
| the handlers 100 to 112 and 201 to 211 | one action each, of the same name; the four that do nothing are `EmptyHandler` |
| `destroyVM`, `errorOccured`, `FatalErrorSink` | `Unregister`, `ErrorsOccured` (which is where the healing is decided), `FatalErrorSink` |
| `mountDisk`, `unmountDisk`, `getMachineInfo`, `controlVM` | `Attach`/`Mounts`, `Detach`/`Release`, `MachineInfo`, `Control` |
| `open`, `close`, `stop`, `hibernate`, `pause`, `resume`, `start`, `update`, `abort` | `Open`, `Close`, ..., `Abort`, `ThreadStops` |

State.  `box` is the machine as VirtualBox has it: its state, what is attached
to it, and the last state in its log.  Everything else is the session's: `known`
is what its `machine` parameters say is attached, `recorded` is local "state",
`hasId` whether there is a "vboxid", `outdated` whether the user data differ
from those of the last start, `errors` and `recent` the count of errors and
whether the last is younger than `SESSION_HEAL_THRESSHOLD`, `cache` the cached answer
of `getMachineInfo`.  `faults`, `blind` and `wish` are no state of the code: they
count the failures, and say whether something has happened that no query has
seen and what the last client asked for.

VBoxManage is external and modelled from how the code uses it: a command that
does not fit the machine's state is refused, one that fits succeeds or fails by
itself, before or after its effect (`Command`).  A user may change the machine
at any time (`ExternalChange`).

`FSMRouting.tla` is `findShortestPath` as the code has it, with the early return
and the clipping: a recursive function of the path by which a call is reached, which
says what the call makes of each search.  `MCVBoxSession.tla` gives `Route` its value
from it.  `RouteAssumption` says what the proofs need of `Route`: it finds
walks along the links that pass no node twice, one to each checkpoint from everywhere
but the sink, and the only one from 1 to 101.  TLC evaluates it for `FSMRouting`, and
the first part is the theorem `SearchGivesRoutes`.

### Properties

* `HonestState`: at rest, local "state" is the machine's state, however often
  the path was rerouted and healed and whatever failed.
* `Obeys`: at rest, the machine is where the last request wanted it, unless the
  session has given up.
* `OneFaultIsHealed`: one failure or one change behind its back never makes the
  session give up (node 112); but for a machine that `update()` finds gone or in a state
  that `UpdateSession` does not know, which are the quirks `gone` and `stuck` below.
* `KnowsItsMedia`: when a start prepares its media, the list it goes by is the
  machine's, as long as the errors are within the tries.
* `ResumesItsData`: no route reaches `StartVM` from "Saved" past `CheckVMAPI`.
* `KeepsWork`: the scratch disk goes only on the way to "Destroyed" that
  somebody asked for, or in the sink.
* `Settles`: when the clients are done the engine comes to rest.
* `RoutesAreShortest`: `findShortestPath` against a reference by breadth.

### What the properties do not survive

Some of these properties fail for reasons that are in the code.  Each reason
is a name in the constant `Quirks`.
`session_heal` admits none: its properties hold of the session when none of the
following happens.  Admitting one of them in a copy of `session_heal.cfg` shows the
property it breaks.

| quirk | what the code does then | fails |
|---|---|---|
| `reopen` | a second `open` stands at a node without a route to 101: it plans nothing and still answers HVE_SCHEDULED | (nothing is updated) |
| `staleLog` | `update()` takes the log's last state, or no log, for the machine's: after a saved state was discarded the log still says "saved" | `HonestState` |
| `lateUpdate` | `FSMActive` is false while the last handler runs, so `update()` skews under it and a request may be dropped | `Obeys` |
| `overtake` | a request between `CheckVMAPI`'s skew to 107 and the next step plans from 107, and `DiscardVMState` is left out | `HonestState` |
| `lateData` | `start()` brings other user data between `CheckVMAPI` and `StartVM`, and the saved machine is resumed with the old ones | `ResumesItsData` |
| `gone` | `update()` finds a machine gone and keeps its parts in `machine`: the next start takes the controllers for present, fails three times and ends in the sink | `KnowsItsMedia`, `OneFaultIsHealed` |
| `stuck` | a machine in a state that `UpdateSession` does not know: the path goes on from 101 to a checkpoint the machine is not in | `OneFaultIsHealed` |
| `cache` | after a failure the healing decides on an answer from before it, less than 500 ms old | `HonestState` |
| `halfCreated` | a machine that a failed `createvm` left has no "vboxid" and is taken for missing | `HonestState` |

`KnowsItsMedia` speaks of sessions that have not given up because of a way that the proof
of an unrestricted form showed: three errors jump to the sink before the query that
healing asks for, and nothing there brings `machine` up to date; `update()`
(VBoxSession.cpp:1867) then finds the machine in a state of its own, skews the engine to
that checkpoint, and the next start goes by the stale list.  It takes four faults, more than
the run has.

With `cache`, `reopen` and `staleLog` together, `KeepsWork` itself fails: `CreateVM`,
called for a machine that exists, goes by a cached list without controllers,
its `storagectl` is refused, and it destroys the machine.

### The runs

| run | shows | instance |
|---|---|---|
| `session_heal` | `HonestState`, `Obeys`, `OneFaultIsHealed`, `KnowsItsMedia`, `ResumesItsData`, `Settles` | two faults, no quirk |
| `session_quirks` | `RoutesAreShortest`, `KeepsWork` | one fault; `cache`, `halfCreated`, `gone`, `stuck` |

Bounds.  `MaxFaults` counts the failures of commands and the external changes
together.  Two are enough to reach the sink (an `unregistervm` that fails counts
twice, in 1385 and in 2118) and for one fault to fall into the healing of another; commands that are
refused are not bounded.  `MaxOpens` is 1: a session is opened once.  The error
count stops at one more than the tries, with which it is compared.  The cache is
modelled only where the quirk says so.

Fairness.  The FSM thread runs while it has something to do, an abort is
carried through, the cache grows old.  `Settles` assumes besides that in the end
no download takes as long as `SESSION_HEAL_THRESSHOLD`: otherwise no error is "recent" and
a start that is refused is healed and tried again for ever (a machine
without controllers at "Power off", where no node adds them, is one).

Not modelled: `start` with `disk = 0`, the execution cap and the other properties
and getters, the local data other than "state" and "vmapi_contents", the
events fired (a healed session may reach its target without a "stateChanged",
for `FSMSkew` enters its node as not final), what the steps of
`ConfigNetwork` and `DownloadMedia` do, the three `storagectl` commands of `CreateVM` one by
one, an abort in the middle of a
handler's commands, the time between `update()`'s look and its skew, and
`FSMJump`'s handler running inside the handler that failed as a step of its own.

The events a handler fires and the search for a host-only adapter are the matter of
sections 6 and 9.  Section 10 says what is proved of this module: all its safety
properties.

## 4. LocalConfig and ParameterMap

`LocalConfig.tla` has any number of configurations that stand for one file, each a
root object with one subgroup that shares its entries, and threads, each in the
process of its configurations (`Home`).

| code | actions |
|---|---|
| `set`, `setDefault`, `erase`, `clear` | `Set`, `SetDefault`, `Erase`, `Clear`, which go on with `SetDone` (the test of the lock flag), `Commit` or `MarkChanged` |
| `fromParameters`, `fromMap`, `fromJSON`, `lock`, `unlock` | `Import`/`ImportEntries`, `Lock`, `Unlock` |
| `save`, `saveMap` | `OpenFile` (which truncates), `WriteFile`; `OpenRefused`, where the file cannot be opened |
| `load`, `loadMap` | `LoadFile`, `Construct` |
| `sync` | `Sync` (which of its cases), `LoadFile`, `MergeFile`, `MergeOurs`, then a save |
| the process ends and starts again | `Restart`, which may leave a file that is partly written |

`ConfigFile.tla` is the text of the file: escaping, the scan that undoes it, and
the line without a value that `loadMap` skips.  Values are sequences of the
characters these functions treat differently.

`ConfigStore.tla` is the abstract specification: maps in memory, one saved map, and
the saved map changes as a whole to what one object holds, or is cut short by a
crash.  `IsAConfigStore` (`INSTANCE ConfigStore WITH ...`) is the refinement: what one object
has written another one reads, the value that needs escaping included.  Its
mapping reads the file as the code does, and while a thread writes it, as it was
before: no thread of that process can read the truncated file, whose mutex is held.
`base`, what an object read when it was made, is a history variable.

* `NothingUnsaved`: no way through `lock`, `unlock`, `set` and the imports forgets
  the commit.  Where the file cannot be opened `saveMap` loses what it was given, and
  `set`, `unlock` and `sync` do not look at its answer: the property counts what it was given.
* `KeepsOurs`: a `sync` never drops or replaces an entry of an object that has
  changed something.
* `Spreads`: when every process keeps synchronising, a parameter that stays in the
  file reaches all of them.

| quirk | what the code does then | fails |
|---|---|---|
| `overlap` | a thread uses an object while another one holds its `lock()` or synchronises it: the flags are tested and set in two steps | `NothingUnsaved`, `KeepsOurs` |
| `sameSecond` | file times are whole seconds: a change in the second in which the configuration was made is taken for none (LocalConfig.cpp:630) | `KeepsOurs`, `Spreads` |
| `torn` | a second process reads the file between truncation and writing; the mutex belongs to one process | `IsAConfigStore` |
| `race` | two synchronisations that overlap again and again write each other's entries away | `Spreads` |

`config_store` has one process, two threads and two configurations, and three calls:
enough for a call inside a `lock` of the other object of the same map and for a
crash between a truncation and its write.  It admits `sameSecond`, which its
properties do not mind.  `config_sync` has two processes with two seconds of
two ticks each, the least in which a file is older, as old as and newer than what was
loaded, and two changes.  Fairness (`FairSpec`): time passes, a thread goes on with
its call, and, which are conditions of `Spreads` and not facts of the code,
everybody keeps calling `sync` and the file can be opened again and again.  `SF` is needed because a thread's next step can be
disabled now and then by the mutex.

The shadowed `ans` in `save` and `load` (540, 572) is modelled: `timeLoaded` never
advances after construction, so `sync` merges where it could replace.  Not
modelled: the other files of the directory (`saveBuffer`, `saveLines`, `enumFiles`),
numbers as values, groups in groups.  `fromJSON` tests and puts its keys without the
prefix of the group it is called on (ParameterMap.cpp:376), so that they land in the root object:
`Import` has both.  A JSON object inside another one is an import of its own.

## 5. The session registry

`SessionRegistry.tla` has the map of the known sessions, the list of the open ones,
the file of each, the machines of VirtualBox, and the thread of each open session,
of which only what it does to the file and to the machine is kept (`Update`, `CreateVM`,
`RecordVM`, `DestroyVM`).  An object is named by its session and by the load that
made it, for a load replaces objects that clients still hold.

| code | actions |
|---|---|
| `sessionOpen`, `sessionGet`, `sessionAllocate` | `OpenFound`, `Allocate`, `OpenAllocated` (the name is written after the file was made), `OpenRefused` |
| `sessionClose`, `sessionDelete` | `CloseOne`, `CloseLast`, `Deleting` |
| `loadSessions` | `LoadFiles`, `ListVMs` or `ListFails`, `Prune`/`PruneNext` (the loop with the rewound iterator), `Release`/`ReleaseEnds` |
| `abort` and the destructor, a crash | `Abort`, `Dies` |

* `ThreadsAreOpen`: the thread of a session never outlives its place in the list
  that `abort()` walks.
* `OneSessionPerName`: no two complete files have one name, whatever a crash has
  left.
* `KeepsWhatLives`: a load keeps every session whose machine VirtualBox has had all
  the while, also where `VBoxManage list vms` fails.
* `LoadsEnd`: the loop that goes back to the first element after each deletion, and
  skips it, ends.

The first two of these hold where sessions are loaded before they are opened (`early` is
false), as `detectHypervisor` with `waitTillReady` has it: a load after an opening
replaces the object of the map, and what is then deleted or closed is another object
than the client's.

What the registry does, and no property excludes: a wrong secret makes `sessionOpen`
return a null pointer which the next line uses (`OpenRefused`: the process ends).
A machine that is inaccessible counts as gone and its session's file is deleted.  A
crash between `createvm` and the write of `vboxid` makes the next load delete the
session while its machine stays; a later session of that name cannot take it over,
since `getMachineInfo` asks by the session's own id, and its `createvm` fails as long
as the machine is there.  A session
that is opened and closed before its first update may still be recorded as "missing", and is
deleted while its machine lives.  A second process's load deletes the sessions whose
machine is not created yet.  A session that is opened twice and closed twice leaves
one entry in the list.

`registry` has three sessions and three names, two of which the application opens,
one load per life of the process, one crash and one change by somebody else: the
iterator needs three elements to skip one between two deletions.  Fairness: `loadSessions`
goes on.  The application's calls come one at a time.  Not modelled: the secrets
themselves, the counts in `getCapabilities`, the lists of machines and disks.

## 6. Callbacks and progress

`Callbacks.tla` has the listeners of each object in order and, while an event is
delivered, those still to be called, under one mutex.  `Progress.tla` puts the trees
of tasks on top: a call (`begin`, `done`, `doing`, `complete`, `fail`, `restart`,
`setMax`, `update`, `markLengthy`) changes its task and leaves notices, and each
notice is one of the `_notify` functions, which fires an event and goes up to the
parent.  The trees have any shape and depth: what a restart reaches (`Restarted`) and whose
progress it may set back (`Family`) are closures under the links (`Reach`).

* `CompletionIsTold`, `CompletedOnce`: a task whose steps are all done says so, and
  once until it is restarted, whichever sub-task ends last.
* `NeverBackwards`: what a listener is shown does not run back, nor past 1.0,
  between restarts, as long as no handler of an earlier path works on (`late`).
* `Finishes`: every call ends, also when a listener throws.

Nobody is called after `off()` has returned: a listener's call and `off()` share
`shopMutex`, which is how the model is built and no property of it.

`progress` has a root, a sub-task with steps, a download and a boolean task, two steps
each and six operations: three levels, all kinds of tasks, and a step that is resized
after it has started.  Progress is counted in twelfths.  Fairness: listeners return
and calls go on.

`FSMGoto` restarts the tree (SimpleFSM.cpp:313) holding `fsmGotoMutex` only, from another
thread or, by `FSMSkew`, from within a handler, and the handler of the replaced path goes on with
the sub-task it holds.  The model lets it: any task that is in use can be worked on at any time (`Turn`,
`Works`).  What such a handler reports is counted in the steps of the restarted root until the
first `begin` of the new path takes their place, so the progress that is shown does fall, and
the root may be found complete at another moment than its own path is.  The ghost
`late` remembers that a sub-task of an earlier path (`retired`) was worked on since the last restart
of the root; `NeverBackwards` and `CompletionIsTold` say nothing while it is true, and `CompletionIsTold`
nothing of the retired sub-tasks; `CompletedOnce` and `Finishes` hold all the same.  A path without handlers
restarts the root with no steps: nobody is told then, and the root completes at the next
call (`CompletionIsTold` asks for a step).

Assumed: calls on a tree take turns, with the notices they leave.  The code does not lock the
tree, so that a restart can fall between a handler's call and its notices, or into the copying of the
vectors, which is undefined.  A listener that calls `on()` or
`off()` of the object that calls it blocks for ever, because `shopMutex` is not
recursive.  Facts of the model that no property excludes: a boolean task is completed
as soon as it has started; a `fail()` in the last step tells failure and then
completion; a download that `complete()` ends before its first update is not counted.

## 7. Downloads, the user, the installation

`Downloads.tla` has the files of the cache with what they may hold (nothing, a part, other
bytes, the right ones, a checksum of other bytes), the CURL provider with its stream and
its two abort flags, and the loops of `HVInstance`: `__downloadChecksum`,
`downloadFileURL`, `downloadFile`, `downloadFileGZ`, `cernVMDownload`.  `UserInteraction.tla` has the
question, the answer, the abort and its acknowledgement, each in its thread.
`Install.tla` composes them: `downloadHypervisorConfig`, `vboxInstall` on Linux, `installExtPack`
and `waitTillReady`.  Each step is one pass from a blocking call to the next; `job.at`
names where the thread is.  The process may die between any two steps, and its files
stay.

* `HandsOutGood`: a download that answers HVE_OK hands out a whole file that has
  the checksum it was compared with, whatever earlier calls have left.
* `RunsWhatItMay`: nothing is installed before the signed configuration was read, and
  no extension pack before it was checked and its license accepted in answer to that
  very question.
* `CallsEnd`: every call returns.
* `AbortWaits`: `abort(true)` returns on the acknowledgement of this abort, not of an
  earlier one.

`install` has two tries per loop, two damaged transfers, two calls one after the other, one
crash or abort of a transfer and two aborts of questions.  Two faults reach the
last try of each loop and the try after it; two calls let the second meet what the
first has left.  Fairness: the thread runs, the user answers, an abort goes on and is
acknowledged.

| quirk (`UIQuirks`) | what the code does then | fails |
|---|---|---|
| `atOnce` | the answer comes before `__waitResult` resets the result: it is lost | `CallsEnd` |
| `lateAnswer` | a dialog is answered after its question was aborted, and the answer counts for the next one | `RunsWhatItMay` |
| `ackedAtOnce` | the abort is acknowledged before `abort(true)` resets the flag | `abort` waits for ever |

What the code does and no property excludes: a failed transfer leaves `fStream` open
(DownloadProvider.cpp:198) and the next one cannot open its file; an `abort()` that comes
after its transfer kills the next; the jump back in `__downloadChecksum`
(Hypervisor.cpp:592) is not counted, and a cached checksum that is wrong stays for
ever; `tries<retries` in `vboxInstall` is true wherever it is asked, so used-up retries go on to run
an installer that was not validated (VBoxCommon.cpp:377), and may end in HVE_OK with nothing
installed; the inner `continue` of the integrity loop (VBoxCommon.cpp:723) goes on with the inner loop,
which, as the loop that removes (736), is taken to end; `waitTillReady` uses a null `ui` and ignores what
`installExtPack` answers.

Not modelled: `updateAuthorizedKeystore`, the provider of the JavaScript plug-in, the
installers of the other systems, `AcceptInteraction`, whose overrides have other
signatures than what they override, and cryptography (a signature is valid or not).

## 8. ThinIPC and DaemonCtl

`ThinIPC.tla` cuts messages into datagrams.  Sizes count words of two bytes: the first
datagram begins with the size, and the message goes into a `short`, which overflows
(`Short`).  `send` and `recv` are a step for each chunk; `recv` looks neither at the length nor
at the sender of a datagram.  `DaemonCtl.tla` has the processes that ask, each with at
most one call, the time limit of 250 ms (`Waits` may give up at any time), the lock
file, `currDaemonPid`, and the daemon, another program, as its clients take it to be.

* `WholeMessages`: what the daemon takes for a message is one that was sent, whole.
* `AnswersLag`: an answer is taken for a newer request only as far as calls were given
  up before.
* `StopLeavesNoChild`: when `daemonStop` succeeds, no daemon this process has started
  is left.
* `CallsReturn`: every call returns as long as no datagram is dropped.

`wire` has two processes, a request of one datagram, one of three and one too long
for its size, a dropped datagram, and a crash: the least with a queue, a
first, a middle and a last chunk and a second daemon.  Fairness: the processes run.

| quirk | what the code does then | fails |
|---|---|---|
| `interleave` | two processes send at once what needs several datagrams, and `recv` mixes them | `WholeMessages` |
| `startTwice` | the need is checked again while a daemon starts, and the first child is forgotten | `StopLeavesNoChild` |

What the code does and no property excludes: `putChunk` compares the size alone with
the room, so messages of 1023 and 1024 bytes lose their end (`SizeOf` leaves them out);
a message whose size overflows is never sent; `readInt` reads eight bytes; a child that
crashed counts as alive, for nobody waits for it, and is not started again; when a
request to stop is dropped and an old answer comes in its place, `waitpid` waits for
ever; the port is a `rand()` whose `bind` may fail unnoticed; `checkDaemonNeed` reads a `state`
that is always zero.

## 9. sysExec and the host-only adapter

`SysExec.tla` is `sysExec` for Unix: fork, the loop over `poll` with its two pipes, the
time limit, `abortSysExec`, the kill, `waitpid`, the retries, and the exit codes 252 to
255.  The program writes, complains, hangs, closes its output and ends in steps of its
own; what it changes in the world is an action of the caller's module.  `HostNetwork.tla` is
`getHostOnlyAdapter` on top of it, a composition: each `VBoxManage` command is a call of `sysExec`, and somebody
else may change the network between commands (`OthersAct`).

| code | actions |
|---|---|
| `sysExec` | `Starts`, `Judges` (the loop of the retries), `Delays`, `Forks`, `Reads`, `HangsUp`, `Kills`, `Reaps` |
| the program | `Writes`, `Closes`, `Exits`, `Acts` |
| `abortSysExec`, `initSysExec` | the same names |
| `getHostOnlyAdapter` | `GetsAdapter`, `GotIfs`, `Created`, `GotIfsAgain`, `GotDhcps`, `Listening`, `NextAdapter`, `Each`, `Modified`, `Enabled`, `AddsServer`, `Added` |

* `SuccessIsWhole`: exit code 0 comes with the whole output.
* `AdapterServed`: a search that succeeds while nobody interferes hands out a listed
  adapter, and a DHCP server runs on one of those listed.
* `CreatesOnce`: no search creates two adapters, though `hostonlyif create` may fail
  after it has created one.
* `CallsReturn`: every call returns.
* `AbortIsFinal`: a call whose program was killed because everything was aborted runs none
  again.  This is what the comment in `Utilities.cpp:1248` says ("If it was successful, or we
  were aborted, return now. No retries."), and the run `sysexec_abort` finds it violated.
  `__sysExec` answers 254 for an abort and 255 for a time-out (959-966), the version for
  Windows the other way round (1094-1107), and `sysExec` ends its retries at 255.  An abort
  on Unix is moreover turned into 253 by the "ERROR: Aborted" it writes; either
  way the program is forked again, to be killed at its first poll, as often as the call
  has tries left, while a time-out ends the call.

`sysexec` has one session, pipes of two words read one at a time, programs that write up to
three, two tries where the code retries, up to four adapters, one change by somebody else and one abort.  Three
words fill a pipe and need a second read.  Fairness: the
threads run and time passes, and a program that has closed its output ends: that is an assumption, for the
last `waitpid` (Utilities.cpp:992) has no limit.

What the code does and no property excludes: the adapter handed out is the first listed, even where the server found is
another's (VBoxSession.cpp:2627, 2635).  Not modelled: a `poll` interrupted by a signal, which
ends the reading early; an `execv` that fails, after which the child returns into
a second copy of the caller (895); adapters that lack some of their fields; the
version for Windows.

## 10. What is proved, and what is not

TLC checks every property listed in this document on the instances of its sections.
TLAPS proves the following for all values of the constants that satisfy the
`ASSUME`s of the modules (which TLC evaluates in the runs) and the hypotheses in
the third column.

| module | theorem (property) | hypotheses beyond the assumptions |
|---|---|---|
| `SimpleFSMProofs` | `TypeCorrect`, `EngineCorrect` (`EngineInv`), `WakeupCorrect` (`NoLostWakeup`), `InsideCorrect` (`RestsOutsideHandler`), `StopCorrect` (`StopLeavesNoThread`) | `OpenIsExclusive`, but for `TypeCorrect`; no handler throws, for `InsideCorrect` |
| | `SteeringCorrect` (`PathLeadsToTarget`) | no `stop` |
| `VBoxSessionProofs` | `AlwaysDriving`, `TypeCorrect`, `RecordsWhatIs` (`HonestState`), `EndsWhereAsked` (`Obeys`) | no quirk but `gone`, `stuck`, `lateData` (`Plain`) |
| | `ResumedWithItsData` (`ResumesItsData`) | the same, and no `lateData` |
| | `AlwaysListed`, `MediaAreKnown` (`KnowsItsMedia`), `FaultIsHealed` (`OneFaultIsHealed`) | no quirk but `lateData` (`Queried`) |
| | `WorkIsKept` (`KeepsWork`) | no `cache` |
| | `ShortestIsFound`, `SearchGivesRoutes`, `RoutesAreBest` (`RoutesAreShortest`) | none |
| `LocalConfigProofs` | `ConfigInvariant`, `NothingStaysUnsaved` (`NothingUnsaved`) | no `overlap` |
| | `SyncKeepsOurs` (`KeepsOurs`) | no `overlap`, no process dies |
| | `ObjectsAreAConfigStore` (`IsAConfigStore`) | no `overlap`, no `torn`, one process |
| `SessionRegistryProofs` | `Invariant`, `NoThreadIsLost` (`ThreadsAreOpen`), `NamesAreUnique` (`OneSessionPerName`), `LoadingKeeps` (`KeepsWhatLives`) | none |
| `ProgressProofs` | `ToldOnce` (`CompletedOnce`), `CompletionTold` (`CompletionIsTold`), `ProgressGoesOn` (`NeverBackwards`) | none; the last two properties except `late` |
| `InstallProofs` | `TypeCorrect`, `DownloadsAreGood` (`HandsOutGood`), `AbortIsAcknowledged` (`AbortWaits`) | none |
| | `InstallersAreGivenWhatTheyMay` (`RunsWhatItMay`) | no `lateAnswer` |
| `DaemonCtlProofs` | `NoChildIsLeft` (`StopLeavesNoChild`) | no `startTwice` |
| | `EveryMessageIsWhole` (`WholeMessages`) | `SizesFit`, no `interleave` |
| | `AnswersDoNotRunAway` (`AnswersLag`) | the same, and `Capacity > 2` |
| `HostNetworkProofs` | `TypeCorrect`, `SuccessIsTheProgramsOwn` (`SuccessIsWhole`), `OneAdapterAtMost` (`CreatesOnce`) | none |
| | `FoundAdapterIsServed` (`AdapterServed`) | one thread |

Where a quirk is excluded, the table of its section says how the property fails with
it.  The runs of these properties satisfy the same hypotheses, with two exceptions
that make the theorem the more general one: the runs bound what the proofs leave
unbounded (calls, crashes, losses, loads), and `config_store` has its one process
where the theorem says that all homes are the same.  In one case the run goes further than the
theorem: `session_quirks` checks `KeepsWork` with cached answers too, for a single fault.  With
`reopen` and `staleLog` besides it is false (section 3).

### The arguments

**The session.**  `HonestState` and `Obeys` speak only of an engine at rest; `SessionInv` says
what holds in between.  `OnItsWay` and `AtRest`: a path is a walk along the links
that goes on from the current node and ends at the target, which is a checkpoint, or the
query of the opening.  `Asked`: the last request is that target, or has been reached, or
something has happened that nobody has seen.  `Placed`: where nothing has, the machine's
state is what the next handler needs (`Finds`) or what the last one left (`Leaves`); that
every link of the graph leads from what one node leaves to what the next one finds is
the lemma `DrivenLink`, on which the whole argument rests, and which a wrong link in the
constructor would break.  An error makes the session blind and turns the path to 101, the only
handler that makes it see again; no checkpoint is passed before it.

`ReadyInv` adds that the user data are the machine's at the two nodes from which `StartVM`
is entered.  `MediaInv` says where the list of the media is the machine's (`Listed`): not on
the way to a query, not while the machine is taken apart, and not in the sink.  `HealInv`
counts: before the first fault there is no error and nothing is hidden once the first query
has run, hence no command is refused; after the first fault the first error, however late it
comes, counts as two at most, which the tries allow, and until the query has seen what is
left, only handlers run that look at nothing.  It needs `MediaInv`, because a command may also be refused
for controllers that the session wrongly takes for present, and `Fitted`: a single
fault does not leave a machine without controllers, for `CreateVM` then destroys it.
`WorkInv` needs none of them: it follows the scratch disk (`Whole`) and the node
`ReleaseVMScratch` on every path (`Spares`), in aborting sessions as well.

The bounds `MaxFaults` and `MaxOpens` are any numbers here, so requests,
failures and changes may follow each other for ever, and the error counter saturates where the
model says.  `session_heal` admits none of the quirks and `session_quirks` four of them; the
table of section 3 says what each of those excluded breaks.

**Routes.**  `ShortestIsFound` is about any finite graph, not only the registry of a session.  A
path visits no node twice, hence is never longer than there are nodes, and the search is by
induction on how far it may still grow.  `Answers` is what every call is shown to do: it
leaves the search as it was or with a better way that goes on from its path, and afterwards no
way from there is shorter than the clip length.  `Found` is the invariant of its
loop.  That the search returns at a child that is the goal, and gives up on a path as long as the clip
length, loses nothing because a way that went on would be no shorter.  On the other side,
a walk that comes to a node twice can be cut short (`ShortCut`), so the shortest is among the
paths that the search considers (`SimpleWalk`), and the layers of the reference are
the nodes near enough (`LayersAre`).  `RoutesAreBest` adds `OnGraph`: under every quirk, the nodes that
an engine is at, heads for and has before it are registered ones.

**LocalConfig.**  `ConfigInv` has five parts.  `Shape` says what a task may be at
each label, with the tasks that wait behind it; `Apart`, that nobody works on an
object that another one holds by `lock()` or synchronises; `Content`, that what a thread
writes is what the map still holds; `Due`, that a configuration with unsaved entries
has a thread that is going to write it or is marked under a lock; `Fresh`, that a
thread that loads the file over a map does so for a map without changes of its own.
`NothingUnsaved` is no inductive invariant because it speaks only of configurations at rest; `Due` says
what holds while they are worked on.  `KeepsOurs` needs `Fresh`, because the test of the
time and the loading are two steps.  It is stated without restarts, because a process
that starts again has no map to keep.

For the refinement, `Stored` adds that the file is the print of some map, that one thread at most
has it truncated, and that this thread remembers what it held.  Each step then maps to
a `Commit`, a `Change`, an `Open`, a `Remove` or a `Restart` of `ConfigStore`, or to a stutter.  What
printing and reading do to a value is recursion over its text, which the prover
cannot reach; `ValueAssumption` (a value comes back, and only the empty one is printed as
nothing) takes its place, and `MCLocalConfig` has TLC evaluate the same fact for every
text of up to five of the characters that the functions tell apart.  All the rest of
reading and writing a map (`ReadBack`: a printed map reads back as its entries that are
not empty) is proved from it.  With two processes the file can be read between truncation and
writing, hence the hypothesis.

**The session registry.**  `RegistryInv` ties the map, the list, the objects and the
files: a thread runs just for the objects that are open, which are the map's own
and in the list (`Opened`); the map has the sessions on disk once they are loaded, under their names, and
no file has the name that is being opened (`Named`); and while sessions
are loaded, those whose machine has lived all the while are among the machines that were
listed (`Lasting`).  `Opened` and `Named` are claimed where nothing was opened before a
load, like the properties.  `KeepsWhatLives` is claimed always.  The theorem needs nothing of
the order in which the loop visits the map.  `LeftAssumption` says that an earlier
process left at most one file for a name: that is `OneSessionPerName` of that process, which
the theorem shows to be kept.  `steady`, the sessions whose machine has lived since the load began, is a
ghost; it loses a session when the machine of its object (`GoneWith`) is destroyed, removed or hidden.

**Progress.**  `Told`: a notice that a task is complete waits once at most, for a task
that is completed and has not told it.  `complete()` and the last `done()` of a
sub-task can both find the counters full; the flag that is tested and set
before the notice is left is what the proof rests on.

The other two rest on an invariant with two storeys.  `BaseInv` holds always: the tree, its depth,
the types of the counters and `Sizeless`.  `TellInv` and `GoInv` hold while `late` is false; a
restart of the root sets them up anew, whatever the handlers of earlier paths have left.

That it is told at all follows from `TellInv`.  `Owed`: a task whose steps are done and that has not
completed has an update or a completion waiting.  The update of a sub-task reaches its parent only if the
parent has started, so `Living` says that while a sub-task is worked on its parent has
started or is about to, and `StartsFirst` that whoever is about to start is updated afterwards, as the
order of the notices in `doing`, `done` and `begin` has it.

`isCompleted` and `getProgress` go down the tree.  `Deep` gives every task a depth greater than its
parent's and no greater than the operations counted, so there is one function that
satisfies each recursive definition (`Upwards`: what holds of a task when it holds of its sub-tasks
holds of all), and the tree may have any shape.  `GoInv` compares what is shown
with `Advance`, which is `getProgress` with 0 where the quotient of an unknown size is infinite.
No call but a restart lessens it (`GoesOn`): a step that is filled was open, or a sub-task
of an earlier path that counts nothing (`Ahead`).  `Reached`: no value shown, or about to
be, is greater.  `Sizeless` is why the infinite quotient is never told: while a download
runs without a size, its own completion or update is all that waits, and that same update finds
its position equal to its size and completes it.  After a restart the tasks restarted
begin at 0, and nothing changes outside the `Family` of the task.

**Downloads and installation.**  `CacheInv` relates where the thread is to what the files
hold: `Kept` for the files that an earlier call or a crash left, `Held` for what the
call in progress has compared.  What a download promises is the checksum read in the same
call, and no later step of the call writes that file.  `Checked` and `Answering` extend
it for `RunsWhatItMay`: past the check the archive stays as it was, and the result that is
read belongs to the question that was asked.  `Acked` says that the flag that ends `abort(true)` was set
after it was reset.

**The daemon.**  `PidInv`: one daemon lives at a time, the lock file names it once it
serves, and its parent remembers it.  For messages, `InOrder` says that the port's queue, what its reader holds and
what the only unfinished sender has still to send are, taken together, a chain: each
datagram goes on where the one before it ended (`Linked`, `Front`).  `InTurn` adds for each client that the
numbers of its requests and answers come in their order everywhere between it and the daemon, so the answers
it has got and those on their way lag by what it gave up.  Both
hold as long as no piece of a longer message is lost (`lost`), as the
properties say.  `SizesFit` leaves out the two sizes that `putChunk` cuts and sizes that
overflow twice; `Capacity > 2` lets an answer fit into one datagram.  TLC evaluates them for
`wire` (`InstanceFits`).

**Commands.**  `ExecInv` follows the words of a program: read, in the pipe and still to
be written, they are always all it has (`Counted`), and what it complained of is in the pipe
or read (`Told`).  `CreateOK` says at each point of a search whether its only creating
command may still act.  `ServedInv` adds what is known of the servers that were listed: they stay,
but for the one that the search itself stops.  One thread is needed because two
sessions disturb each other just as strangers do; `MaxOut` bounds what programs other than
this function's write.

### What stays with TLC

* Liveness under fairness (`StopTerminates`, `RequestsServed`, `Settles`, `Spreads`,
  `LoadsEnd`, `Finishes`, `CallsEnd`, `CallsReturn`): the prover does neither fairness nor `ENABLED`.
* What recursion computes of the text of a value (`ValueAssumption`).  The recursive functions
  of `Progress` and of `FSMRouting` are within reach because they go down a finite tree and along
  paths of bounded length.

Every safety property of a run that passes is a theorem; `AbortIsFinal` is false of the code.

### Not modelled

* `VBoxProbes`, the incremental reader of `VBox.log`: `update()` uses it, and in
  `VBoxSession` its answer is what the log of the machine says last.
* `floppyIO` and `contextiso`: byte layouts; of `floppyIO` only two control
  bytes are a protocol, whose other side is in the guest.
* `RollbackTransaction`: `rollback` and `clear` have no definition and nothing uses it.
* `CrashReport`, the platform code and the rest of `Utilities`: diagnostics, strings,
  paths, without a state of their own.
* In `DomainKeystore`, `updateAuthorizedKeystore`: its test of `lastUpdateTimestamp` is
  always true, and a key list that was partly downloaded is later loaded without a
  check of its signature while it counts as fresh; the model stops at the signed configuration.

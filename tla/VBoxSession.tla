---------------------------- MODULE VBoxSession ----------------------------
(***************************************************************************)
(* The session of src/src/Hypervisor/Virtualbox/VBoxSession.cpp: the graph *)
(* of nodes that its constructor registers, the handlers that drive one    *)
(* virtual machine through VBoxManage, the calls of its clients, and the   *)
(* healing of errors.                                                      *)
(*                                                                         *)
(* The engine under it is SimpleFSM.  Here a steering call is one step and *)
(* so is a handler, commands and all: what happens when steering calls     *)
(* overlap with each other and with FSMContinue is SimpleFSM's matter.  A  *)
(* client's call falls between two handlers or while one runs (between the *)
(* step that enters its node and the step that is its work).               *)
(***************************************************************************)
EXTENDS Naturals, Sequences, FiniteSetsExt

CONSTANTS
    Route(_, _),    \* findShortestPath over Links: from, ..., to; <<>> when none
    MaxFaults,      \* bound: how often VBoxManage fails or the machine changes by itself
    MaxOpens,       \* bound: how often the session is opened
    Quirks          \* behaviours that only some runs admit

(* "reopen"      a session is opened again, in use or after an abort       *)
(* "cache"       two queries of the machine fall within 500 ms             *)
(* "halfCreated" createvm fails after it has registered the machine        *)
(* "staleLog"    VBox.log is missing or its last state is an older one     *)
(* "lateUpdate"  update() finds the path empty while its last handler runs *)
(* "overtake"    a request falls between CheckVMAPI and DiscardVMState     *)
(* "lateData"    start() brings other user data when StartVM is due        *)
(* "gone"        update() finds the machine gone whose parts are listed    *)
(* "stuck"       the machine gets into a state that is no checkpoint       *)
ASSUME BoundsAssumption ==
    /\ MaxFaults \in Nat
    /\ MaxOpens \in Nat \ {0}
    /\ Quirks \subseteq {"reopen", "cache", "halfCreated", "staleLog", "lateUpdate", "overtake",
                   "gone", "stuck", "lateData"}

\* The registry of the constructor: the children of each node.
Nodes == 1..7 \cup 100..112 \cup 201..211
Links == [n \in Nodes |->
    CASE n = 1   -> <<100>>      [] n = 2   -> <<102, 112>> [] n = 3   -> <<104>>
      [] n = 4   -> <<105, 108>> [] n = 5   -> <<107, 211>> [] n = 6   -> <<109, 111>>
      [] n = 7   -> <<110, 106>>
      [] n = 100 -> <<101>>      [] n = 101 -> <<2, 3, 4, 5, 6, 7>>
      [] n = 102 -> <<103>>      [] n = 103 -> <<101>>      [] n = 104 -> <<4>>
      [] n = 105 -> <<207>>      [] n = 207 -> <<208>>      [] n = 208 -> <<3>>
      [] n = 106 -> <<209>>      [] n = 209 -> <<4>>        [] n = 211 -> <<206>>
      [] n = 107 -> <<209>>
      [] n = 108 -> <<210>>      [] n = 210 -> <<201>>      [] n = 201 -> <<202>>
      [] n = 202 -> <<203>>      [] n = 203 -> <<204>>      [] n = 204 -> <<205>>
      [] n = 205 -> <<206>>      [] n = 206 -> <<7>>
      [] n = 109 -> <<5>>        [] n = 110 -> <<6>>        [] n = 111 -> <<7>>
      [] n = 112 -> <<>>]
LinkedTo(n) == {Links[n][i] : i \in DOMAIN Links[n]}

Handlers == Nodes \ 1..7        \* FSM_HANDLER; 1 to 7 are FSM_STATE

\* The state that the checkpoint nodes stand for (SS_MISSING, SS_POWEROFF, ...).
Checkpoints == 3..7
StateOf == [n \in Checkpoints |->
    CASE n = 3 -> "none" [] n = 4 -> "poweroff" [] n = 5 -> "saved" [] n = 6 -> "paused"
      [] n = 7 -> "running"]
States == {StateOf[n] : n \in Checkpoints}
NodeOf(s) == CHOOSE n \in Checkpoints : StateOf[n] = s

\* What is asked of a search for routes: it finds walks along the links that pass no node
\* twice, and finds one to each checkpoint wherever there is one.
IsRoute(route, a, b) ==
    /\ route \in Seq(Nodes) /\ Len(route) > 1 /\ route[1] = a /\ route[Len(route)] = b
    /\ \A i \in 1..(Len(route) - 1) : route[i + 1] \in LinkedTo(route[i])
    /\ \A i, j \in DOMAIN route : route[i] = route[j] => i = j
ASSUME RouteAssumption ==
    /\ \A a, b \in Nodes : Route(a, b) = <<>> \/ IsRoute(Route(a, b), a, b)
    /\ \A a \in Nodes, b \in Checkpoints : a # b /\ a # 112 => Route(a, b) # <<>>
    /\ Route(1, 101) = <<1, 100, 101>>

\* What a machine may have attached: its controllers and the media in their
\* slots.  "folder" stands for the "Log folder" that showvminfo answers.
Media == {"boot", "scratch", "context"}
Parts == {"folder", "controllers"} \cup Media

\* Deviation: one try less.
FewerTries == 1
SESSION_HEAL_TRIES == 2
MostErrors == SESSION_HEAL_TRIES + 1   \* errorCount is only compared with the tries

VARIABLES
    box,       \* the machine as VirtualBox has it: its state, parts, and VBox.log
    known,     \* the parts that the session's "machine" parameters list
    hasId,     \* parameters->contains("vboxid")
    outdated,  \* the user data differ from local "vmapi_contents"
    recorded,  \* local "state"
    cur,       \* fsmCurrentNode
    path,      \* fsmCurrentPath
    target,    \* fsmTargetState
    handler,   \* the node whose handler runs, 0 when none does
    running,   \* the FSM thread runs
    aborting,  \* isAborting
    errors,    \* errorCount
    recent,    \* the last error is less than SESSION_HEAL_THRESSHOLD ago
    cache,     \* lastMachineInfo while it is younger than 500 ms
    opens,     \* how often the session was opened
    faults,    \* how often VBoxManage failed by itself or the machine changed by itself
    blind,     \* something has happened to the machine that no query has seen
    wish       \* the node that the last client asked for, 0 when none did

engine  == <<cur, path, target>>
healing == <<errors, recent>>
life    == <<running, aborting, opens>>
vars == <<box, known, hasId, outdated, recorded, engine, handler, life, healing, cache,
          faults, blind, wish>>

NoMachine == [state |-> "none", parts |-> {}, log |-> "none"]
NewMachine == [state |-> "poweroff", parts |-> {"folder"}, log |-> "none"]
Info == [state : (States \ {"none"}) \cup {"stuck"}, parts : SUBSET Parts]
Machines == [state : States \cup {"stuck"}, parts : SUBSET Parts, log : States]

TypeOK ==
    /\ box \in Machines
    /\ known \subseteq Parts
    /\ hasId \in BOOLEAN /\ outdated \in BOOLEAN
    /\ recorded \in States
    /\ cur \in Nodes /\ path \in Seq(Nodes) /\ target \in Nodes
    /\ handler \in Handlers \cup {0}
    /\ running \in BOOLEAN /\ aborting \in BOOLEAN
    /\ errors \in 0..MostErrors /\ recent \in BOOLEAN
    /\ cache \subseteq Info /\ Cardinality(cache) <= 1
    /\ opens \in 0..MaxOpens
    /\ faults \in 0..MaxFaults
    /\ blind \in BOOLEAN
    /\ wish \in Checkpoints \cup {0}

\* A new object over what the session's file says: either no machine was ever
\* created, or one was and is now in any state, or gone; nobody has looked yet.
Init ==
    /\ \/ /\ box = NoMachine /\ hasId = FALSE /\ recorded = "none" /\ known = {}
          /\ outdated = TRUE
       \/ /\ hasId = TRUE /\ outdated \in BOOLEAN
          /\ \E s \in States :
                /\ recorded \in {s, "poweroff"}
                /\ box = IF s = "none" THEN NoMachine
                         ELSE [state |-> s, parts |-> Parts, log |-> s]
          /\ known = Parts
    /\ cur = 1 /\ path = <<>> /\ target = 1
    /\ handler = 0
    /\ running = FALSE /\ aborting = FALSE
    /\ errors = 0 /\ recent = FALSE
    /\ cache = {}
    /\ opens = 0
    /\ faults = 0
    /\ blind = TRUE
    /\ wish = 0

-----------------------------------------------------------------------------
(* The engine *)

\* FSMEnteringState: a checkpoint is recorded, unless the session aborts.
Enters(ns) ==
    LET marks == {i \in DOMAIN ns : ns[i] \in Checkpoints}
    IN  recorded' = IF marks = {} \/ aborting THEN recorded ELSE StateOf[ns[Max(marks)]]

\* Deviation: the target is not kept.
FSMGotoOnce(n) ==
    LET route == Route(cur, n)
    IN  /\ path' = IF route = <<>> THEN <<>> ELSE Tail(route)
        /\ UNCHANGED <<cur, target>>

\* FSMGoto with its default stripPathComponents: without a route the path is
\* cleared and the target stays.
FSMGoto(n) ==
    LET route == Route(cur, n)
    IN  /\ path' = IF route = <<>> THEN <<>> ELSE Tail(route)
        /\ target' = IF route = <<>> THEN target ELSE n
        /\ UNCHANGED cur

\* Deviation: nothing is recorded.
FSMSkewSilent(n) ==
    /\ cur' = n
    /\ path' = IF path = <<>> THEN <<>> ELSE Route(n, target)
    /\ UNCHANGED <<target, recorded>>

\* Deviation: the path is left as it was.
FSMSkewOnly(n) ==
    /\ cur' = n
    /\ Enters(<<n>>)
    /\ UNCHANGED <<path, target>>

\* FSMSkew: switch to n and, if there is a path, go on from n to the target.
FSMSkew(n) ==
    /\ cur' = n
    /\ path' = IF path = <<>> THEN <<>> ELSE Route(n, target)
    /\ Enters(<<n>>)
    /\ UNCHANGED target

\* FSMContinue, up to the handler: state nodes are passed by while the path
\* goes on.
Continue ==
    LET stop == Min({i \in DOMAIN path : path[i] \in Handlers \/ i = Len(path)})
    IN  /\ running /\ handler = 0 /\ path # <<>>
        /\ cur' = path[stop]
        /\ path' = SubSeq(path, stop + 1, Len(path))
        /\ handler' = IF path[stop] \in Handlers THEN path[stop] ELSE 0
        /\ Enters(SubSeq(path, 1, stop))
        /\ UNCHANGED <<box, known, hasId, outdated, target, life, healing, cache, faults,
                       blind, wish>>

Runs(n) == running /\ handler = n /\ ~aborting

\* The handler of a session that aborts does nothing.
AbortedHandler ==
    /\ running /\ handler # 0 /\ aborting
    /\ handler' = 0
    /\ UNCHANGED <<box, known, hasId, outdated, recorded, engine, life, healing, cache,
                   faults, blind, wish>>

-----------------------------------------------------------------------------
(* VBoxManage *)

\* What may become of a command that turns the machine b into `after` when
\* `fits` holds: it succeeds; it fails by itself, before or after its effect;
\* it is refused.
Command(b, fits, after) ==
    IF fits THEN {[box |-> after, ok |-> TRUE, fault |-> 0]}
                   \cup {[box |-> x, ok |-> FALSE, fault |-> 1] : x \in {b, after}}
            ELSE {[box |-> b, ok |-> FALSE, fault |-> 0]}

\* Work that does not depend on the machine's state.
Work(b) == Command(b, TRUE, b)

Pays(cost) == faults' = faults + cost /\ faults + cost <= MaxFaults

\* A machine that is switched on or off, and its log with it.
Becomes(b, s) == [b EXCEPT !.state = s, !.log = s]

\* storageattach of one slot: a machine that is off, with its controllers.
Attach(b, medium) ==
    Command(b, b.state = "poweroff" /\ "controllers" \in b.parts,
            [b EXCEPT !.parts = @ \cup {medium}])
Detach(b, medium) ==
    Command(b, b.state = "poweroff" /\ "controllers" \in b.parts,
            [b EXCEPT !.parts = @ \ {medium}])

Unregister(b) == Command(b, b.state \in {"poweroff", "saved"}, NoMachine)

\* getMachineInfo of the machine b, by its id whatever name it is given: the
\* cached answer, or a new one.
MachineInfo(b, id) ==
    IF cache # {} THEN {[ok |-> TRUE, info |-> i, fault |-> 0] : i \in cache}
    ELSE LET seen == [state |-> b.state, parts |-> b.parts]
         IN  IF id /\ b.state # "none"
             THEN {[ok |-> TRUE, info |-> seen, fault |-> 0],
                   [ok |-> FALSE, info |-> seen, fault |-> 1]}
             ELSE {[ok |-> FALSE, info |-> seen, fault |-> 0]}

\* Deviation: machine->fromMap( &info, false ).
LoadedOver(i) == known \cup (IF i.ok THEN i.info.parts ELSE {})

\* machine->fromMap( &info, true ): what it said before is cleared.
Loaded(i) == IF i.ok THEN i.info.parts ELSE {}

Remember(i) == cache' = IF i.ok /\ "cache" \in Quirks THEN {i.info} ELSE cache

-----------------------------------------------------------------------------
(* How a handler ends *)

\* destroyVM( false ) of FatalErrorSink: what fails is not forwarded.
FatalErrorSink(b, parts, cost) ==
    \E r \in Unregister(b) :
        /\ box' = r.box
        /\ known' = IF r.ok THEN {} ELSE parts
        /\ Pays(cost + r.fault)

\* Deviation: every error is the first one.
CountedAfresh(n) == n

\* errorCount after n more errors.
Counted(n) == Min({MostErrors, (IF recent THEN errors ELSE 0) + n})

\* errorOccured, n times in a row, on the machine b of which the session
\* lists these parts: head for the target through the error state or, with
\* too many errors in a short time, jump to the sink.
ErrorsOccured(n, b, parts, cost) ==
    LET count == Counted(n)
    IN  /\ errors' = count
        /\ recent' = TRUE
        /\ blind' = TRUE
        /\ \/ /\ count > SESSION_HEAL_TRIES
              /\ cur' = 112 /\ path' = <<>>
              /\ FatalErrorSink(b, parts, cost)
              /\ UNCHANGED <<target, recorded>>
           \/ /\ count <= SESSION_HEAL_TRIES
              /\ FSMSkew(2)
              /\ box' = b /\ known' = parts
              /\ Pays(cost)
ErrorOccured(b, parts, cost) == ErrorsOccured(1, b, parts, cost)

Completes(b, parts, cost) ==
    /\ box' = b /\ known' = parts
    /\ Pays(cost)
    /\ UNCHANGED <<engine, recorded, healing, blind>>

\* A handler that is one command, and the parts the session lists after it.
Handler(n, outcomes) ==
    /\ Runs(n)
    /\ handler' = 0
    /\ \E r \in outcomes :
           \/ r.ok /\ Completes(r.box, known, r.fault)
           \/ ~r.ok /\ ErrorOccured(r.box, known, r.fault)
    /\ UNCHANGED <<hasId, outdated, life, cache, wish>>

-----------------------------------------------------------------------------
(* The handlers *)

\* Initialize, HandleError, CureError and PrepareVMBoot do nothing.
EmptyHandler ==
    /\ \E n \in {100, 102, 103, 108} : Runs(n)
    /\ handler' = 0
    /\ Completes(box, known, 0)
    /\ UNCHANGED <<hasId, outdated, life, cache, wish>>

\* 101: route according to the state that VirtualBox answers.  A machine that
\* cannot be asked for is taken for destroyed, and the local data of one that
\* was configured are cleared; in a state of no checkpoint it leaves the engine
\* where it is.
UpdateSession ==
    /\ Runs(101)
    /\ handler' = 0
    /\ \/ /\ ~hasId
          /\ FSMSkew(3)
          /\ blind' = FALSE
          /\ Pays(0)
          /\ UNCHANGED <<known, outdated, cache>>
       \/ /\ hasId
          /\ \E i \in MachineInfo(box, hasId) :
                /\ Pays(i.fault)
                /\ Remember(i)
                /\ known' = Loaded(i)
                /\ blind' = IF i.ok THEN i.info.state = "stuck" ELSE i.fault = 1
                /\ \/ ~i.ok /\ FSMSkew(3) /\ outdated' \in {outdated, TRUE}
                   \/ /\ i.ok /\ i.info.state \in States
                      /\ FSMSkew(NodeOf(i.info.state))
                      /\ UNCHANGED outdated
                   \/ /\ i.ok /\ i.info.state = "stuck"
                      /\ UNCHANGED <<engine, recorded, outdated>>
    /\ UNCHANGED <<box, hasId, life, healing, wish>>

\* "The current (known) VM state is 'created'".
Created(b, parts, cost) ==
    /\ box' = b /\ known' = parts
    /\ Pays(cost)
    /\ recorded' = "none"
    /\ UNCHANGED <<engine, healing, blind>>

\* The storagectl commands of CreateVM on the machine b, of which the session
\* lists these parts.  When one fails the machine is destroyed, and a failure
\* to do so is an error of its own.
AddControllers(b, parts, cost) ==
    IF "controllers" \in parts
    THEN Created(b, parts, cost)
    ELSE \E r \in Command(b, b.state = "poweroff" /\ "controllers" \notin b.parts,
                          [b EXCEPT !.parts = @ \cup {"controllers"}]) :
            \/ r.ok /\ Created(r.box, parts, cost + r.fault)
            \/ /\ ~r.ok
               /\ \E d \in Unregister(r.box) :
                     \/ d.ok /\ ErrorOccured(d.box, {}, cost + r.fault + d.fault)
                     \/ ~d.ok /\ ErrorsOccured(2, d.box, parts, cost + r.fault + d.fault)

\* 104: createvm registers a new machine ...
CreateNew ==
    /\ box.state = "none"
    /\ \/ hasId' = TRUE /\ AddControllers(NewMachine, known, 0)
       \/ ErrorOccured(box, known, 1) /\ UNCHANGED hasId
       \/ /\ "halfCreated" \in Quirks
          /\ ErrorOccured(NewMachine, known, 1)
          /\ UNCHANGED hasId
    /\ UNCHANGED cache

\* Deviation: the session's list of the parts is not brought up to date.
CreateExistingBlind ==
    /\ box.state # "none"
    /\ \E i \in MachineInfo(box, hasId) :
          /\ Remember(i)
          /\ \/ i.ok /\ hasId' = TRUE /\ AddControllers(box, known, i.fault)
             \/ ~i.ok /\ ErrorOccured(box, known, i.fault) /\ UNCHANGED hasId

\* ... or answers "already exists", and its id is asked for.
CreateExisting ==
    /\ box.state # "none"
    /\ \E i \in MachineInfo(box, hasId) :
          /\ Remember(i)
          /\ \/ i.ok /\ hasId' = TRUE /\ AddControllers(box, i.info.parts, i.fault)
             \/ ~i.ok /\ ErrorOccured(box, known, i.fault) /\ UNCHANGED hasId

CreateVM ==
    /\ Runs(104)
    /\ handler' = 0
    /\ CreateNew \/ CreateExisting
    /\ UNCHANGED <<outdated, life, wish>>

\* 210 and 202: the host-only adapter, the download.
ConfigNetwork == Handler(210, Work(box))
DownloadMedia == Handler(202, Work(box))

\* 201: modifyvm.
ConfigureVM == Handler(201, Command(box, box.state = "poweroff", box))

\* mountDisk of a medium that the session does not list.
Mounts(medium) ==
    \E r \in Attach(box, medium) :
        \/ r.ok /\ Completes(r.box, known \cup {medium}, r.fault)
        \/ ~r.ok /\ ErrorOccured(r.box, known, r.fault)

\* 203: the boot medium is in place, or is mounted, or the one in place is
\* another and is replaced.
ConfigureVMBoot ==
    /\ Runs(203)
    /\ handler' = 0
    /\ \/ "boot" \notin known /\ Mounts("boot")
       \/ "boot" \in known /\ Completes(box, known, 0)
       \/ /\ "boot" \in known
          /\ \E r \in Detach(box, "boot") :
                \/ ~r.ok /\ ErrorOccured(r.box, known, r.fault)
                \/ /\ r.ok
                   /\ \E a \in Attach(r.box, "boot") :
                         \/ a.ok /\ Completes(a.box, known, a.fault)
                         \/ ~a.ok /\ ErrorOccured(a.box, known \ {"boot"}, a.fault)
    /\ UNCHANGED <<hasId, outdated, life, cache, wish>>

\* 204: createhd and storageattach, unless the session lists a scratch disk.
ConfigureVMScratch ==
    /\ Runs(204)
    /\ handler' = 0
    /\ \/ "scratch" \in known /\ Completes(box, known, 0)
       \/ "scratch" \notin known /\ ErrorOccured(box, known, 1)
       \/ "scratch" \notin known /\ Mounts("scratch")
    /\ UNCHANGED <<hasId, outdated, life, cache, wish>>

Nothing(b) == {[box |-> b, ok |-> TRUE, fault |-> 0]}

\* 205: the old context medium is released, the user data are kept in
\* vmapi_contents, and a medium built from them is mounted.
ConfigureVMAPI ==
    /\ Runs(205)
    /\ handler' = 0
    /\ \E r \in IF "context" \in known THEN Detach(box, "context") ELSE Nothing(box) :
          \/ ~r.ok /\ ErrorOccured(r.box, known, r.fault) /\ UNCHANGED outdated
          \/ r.ok /\ ErrorOccured(r.box, known \ {"context"}, 1) /\ outdated' = FALSE
          \/ /\ r.ok
             /\ outdated' = FALSE
             /\ \E a \in Attach(r.box, "context") :
                   \/ a.ok /\ Completes(a.box, known \cup {"context"}, a.fault)
                   \/ ~a.ok /\ ErrorOccured(a.box, known \ {"context"}, a.fault)
    /\ UNCHANGED <<hasId, life, cache, wish>>

\* 206: start, or resume from the saved state; then look at the machine.
StartVM ==
    /\ Runs(206)
    /\ handler' = 0
    /\ \E r \in Command(box, box.state \in {"poweroff", "saved"}, Becomes(box, "running")) :
          \/ ~r.ok /\ ErrorOccured(r.box, known, r.fault) /\ UNCHANGED cache
          \/ /\ r.ok
             /\ \E i \in MachineInfo(r.box, hasId) :
                   /\ Remember(i)
                   /\ Completes(r.box, IF i.ok THEN i.info.parts ELSE known, i.fault)
    /\ UNCHANGED <<hasId, outdated, life, wish>>

\* controlvm
Control(n, from, to) == Handler(n, Command(box, box.state \in from, Becomes(box, to)))
PauseVM == Control(110, {"running"}, "paused")
ResumeVM == Control(111, {"paused"}, "running")
SaveVMState == Control(109, {"running", "paused"}, "saved")
PoweroffVM == Control(106, {"running", "paused", "stuck"}, "poweroff")

\* 107: the log keeps its last state.
DiscardVMState == Handler(107, Command(box, box.state = "saved", [box EXCEPT !.state = "poweroff"]))

\* 211: with other user data the saved state is of no use.
CheckVMAPI ==
    /\ Runs(211)
    /\ handler' = 0
    /\ \/ outdated /\ FSMSkew(107)
       \/ ~outdated /\ UNCHANGED <<engine, recorded>>
    /\ UNCHANGED <<box, known, hasId, outdated, life, healing, cache, faults, blind, wish>>

\* unmountDisk, whose failure these three handlers do not look at.
Release(n, medium) ==
    /\ Runs(n)
    /\ handler' = 0
    /\ \/ medium \notin known /\ Completes(box, known, 0)
       \/ /\ medium \in known
          /\ \E r \in Detach(box, medium) :
                Completes(r.box, IF r.ok THEN known \ {medium} ELSE known, r.fault)
    /\ UNCHANGED <<hasId, outdated, life, cache, wish>>
ReleaseVMScratch == Release(105, "scratch")
ReleaseVMBoot == Release(207, "boot")
ReleaseVMAPI == Release(209, "context")

\* 208: unregistervm --delete.  destroyVM forwards its error, and so does the
\* handler.
DestroyVM ==
    /\ Runs(208)
    /\ handler' = 0
    /\ \E r \in Unregister(box) :
          \/ r.ok /\ Completes(r.box, {}, r.fault)
          \/ ~r.ok /\ ErrorsOccured(2, r.box, known, r.fault)
    /\ UNCHANGED <<hasId, outdated, life, cache, wish>>

HandlerStep ==
    \/ EmptyHandler \/ UpdateSession \/ CreateVM \/ ConfigNetwork \/ DownloadMedia
    \/ ConfigureVM \/ ConfigureVMBoot \/ ConfigureVMScratch \/ ConfigureVMAPI \/ StartVM
    \/ PauseVM \/ ResumeVM \/ SaveVMState \/ PoweroffVM \/ DiscardVMState \/ CheckVMAPI
    \/ ReleaseVMScratch \/ ReleaseVMBoot \/ ReleaseVMAPI \/ DestroyVM
    \/ AbortedHandler

-----------------------------------------------------------------------------
(* The calls of the clients *)

\* The first opening, or another: of a session in use, or after abort has
\* stopped the thread.
Open ==
    /\ opens < MaxOpens
    /\ opens = 0 \/ ("reopen" \in Quirks /\ running = ~aborting)
    /\ opens' = opens + 1
    /\ aborting' = FALSE
    /\ running' = TRUE
    /\ FSMGoto(101)
    /\ wish' = 0
    /\ UNCHANGED <<box, known, hasId, outdated, recorded, handler, healing, cache, faults, blind>>

\* A handler has skewed the engine to another, which has not run yet: a route
\* planned now leaves that one out.
SkewedTo == path # <<>> /\ Head(path) = cur /\ cur \in Handlers

Request(n) ==
    /\ opens > 0 /\ ~aborting
    /\ ~SkewedTo \/ "overtake" \in Quirks
    /\ FSMGoto(n)
    /\ wish' = n
    /\ UNCHANGED <<box, known, hasId, recorded, handler, life, healing, cache, faults, blind>>

Close == Request(3) /\ UNCHANGED outdated
Stop == Request(4) /\ UNCHANGED outdated
Hibernate == Request(5) /\ UNCHANGED outdated
Pause == Request(6) /\ UNCHANGED outdated
Resume == Request(7) /\ UNCHANGED outdated
\* With the user data of before, or with others.
Starting == handler = 206 \/ (path # <<>> /\ Head(path) = 206)
Start ==
    /\ Request(7)
    /\ \/ UNCHANGED outdated
       \/ (~Starting \/ "lateData" \in Quirks) /\ outdated' = TRUE

\* What update() takes for the machine's state: its log's last, or none at all.
LogIsThere == "folder" \in known /\ box.log # "none"
LogState == IF LogIsThere THEN box.log ELSE "none"

\* update() when the engine has nothing to do; a log that has not changed
\* since the last time is not read.
Update ==
    /\ opens > 0 /\ ~aborting
    /\ path = <<>>
    /\ handler = 0 \/ "lateUpdate" \in Quirks
    /\ "staleLog" \in Quirks \/ LogState = box.state
    /\ LogState # recorded
    /\ LogState # "none" \/ known = {} \/ "gone" \in Quirks
    /\ FSMSkew(NodeOf(LogState))
    /\ wish' = 0
    /\ blind' = FALSE
    /\ UNCHANGED <<box, known, hasId, outdated, handler, life, healing, cache, faults>>

\* isAborting is set, and FSMThreadStop interrupts the thread and joins it.
Abort ==
    /\ opens > 0 /\ ~aborting
    /\ aborting' = TRUE
    /\ UNCHANGED <<box, known, hasId, outdated, recorded, engine, handler, running, opens,
                   healing, cache, faults, blind, wish>>
ThreadStops ==
    /\ aborting /\ running
    /\ running' = FALSE
    /\ handler' = 0
    /\ UNCHANGED <<box, known, hasId, outdated, recorded, engine, aborting, opens, healing,
                   cache, faults, blind, wish>>

ClientCall ==
    Open \/ Close \/ Stop \/ Hibernate \/ Pause \/ Resume \/ Start \/ Update \/ Abort

-----------------------------------------------------------------------------
(* What happens by itself *)

\* A user or VirtualBox itself changes the machine.
Changes == {<<"running", "paused">>, <<"running", "poweroff">>, <<"running", "saved">>,
            <<"running", "stuck">>, <<"paused", "running">>, <<"stuck", "poweroff">>,
            <<"saved", "poweroff">>, <<"poweroff", "running">>, <<"poweroff", "none">>}
ExternalChange ==
    /\ \E change \in Changes :
          /\ box.state = change[1]
          /\ change[2] # "stuck" \/ "stuck" \in Quirks
          /\ box' = CASE change[2] = "none"  -> NoMachine
                      [] change[2] = "stuck" -> [box EXCEPT !.state = "stuck"]
                      [] change[1] = "saved" -> [box EXCEPT !.state = "poweroff"]
                      [] OTHER -> Becomes(box, change[2])
    /\ Pays(1)
    /\ blind' = TRUE
    /\ UNCHANGED <<known, hasId, outdated, recorded, engine, handler, life, healing, cache, wish>>

\* SESSION_HEAL_THRESSHOLD passes while nothing happens or during a download.
TimePasses ==
    /\ recent
    /\ (path = <<>> /\ handler = 0) \/ handler = 202
    /\ recent' = FALSE
    /\ UNCHANGED <<box, known, hasId, outdated, recorded, engine, handler, life, errors, cache,
                   faults, blind, wish>>

\* 500 ms pass.
CacheExpires ==
    /\ cache # {}
    /\ cache' = {}
    /\ UNCHANGED <<box, known, hasId, outdated, recorded, engine, handler, life, healing,
                   faults, blind, wish>>

Next ==
    \/ Continue \/ HandlerStep
    \/ ClientCall \/ ThreadStops
    \/ ExternalChange \/ TimePasses \/ CacheExpires

Spec == Init /\ [][Next]_vars

\* The FSM thread runs while it can, an abort is carried through, and time
\* passes.  Nobody has to call, and nothing has to fail.
Fairness == WF_vars(Continue \/ HandlerStep) /\ WF_vars(ThreadStops) /\ WF_vars(CacheExpires)
FairSpec == Spec /\ Fairness

-----------------------------------------------------------------------------
(* What a session guarantees *)

Rests == running /\ ~aborting /\ path = <<>> /\ handler = 0

\* Whatever was asked for, overtaken, refused and healed on the way: when the
\* engine has come to rest and nothing happened that no query has seen, local
\* "state" is the machine's.
HonestState == Rests /\ ~blind => recorded = box.state

\* ... and the machine is in the state last asked for: no rerouting and no
\* healing forgets the request.
Obeys == Rests /\ ~blind /\ wish # 0 => cur = wish /\ box.state = StateOf[wish]

\* One failure, of whatever command and at whatever point, or one change
\* behind the session's back is healed: it never makes the session give up.  Two
\* changes the code does not survive: a machine that update() finds gone (the quirk
\* gone), and one in a state that UpdateSession does not know (the quirk stuck).
OneFaultIsHealed == cur = 112 => faults > 1

\* When the media are prepared for the start, the session's list of them is
\* the machine's, however a start before has failed: otherwise the start
\* replaces the user's scratch disk by a new one or leaves a medium out.  A
\* session that has given up is left with a stale list, and update() may lead
\* it out of the sink with that.
KnowsItsMedia ==
    handler \in {203, 204} /\ ~aborting /\ errors <= SESSION_HEAL_TRIES /\ box.state = "poweroff" =>
        known \cap {"boot", "scratch"} = box.parts \cap {"boot", "scratch"}

\* The scratch disk, where the user's work is, goes only by the release
\* sequence, which is entered only to destroy the machine, or by the sink.
KeepsWork ==
    [][/\ handler # 0 /\ handler' = 0 /\ "scratch" \in box.parts \ box'.parts =>
             handler \in {105, 208} \/ cur' = 112
       /\ handler' = 105 /\ handler # 105 => target = 3]_vars

\* Once clients leave it alone, the session comes to rest, in what was asked
\* for or in the sink, even where a command is refused however often it is
\* retried: the counter of the errors ends every healing, provided that in the
\* end no download takes as long as SESSION_HEAL_THRESSHOLD.
SlowDownload == handler = 202 /\ TimePasses
Settles ==
    <>[][~ClientCall /\ ~SlowDownload]_vars => <>[]((path = <<>> /\ handler = 0) \/ ~running)

\* A saved machine is not resumed with other user data than it was given: no
\* route, rerouting or healing reaches StartVM past CheckVMAPI.
ResumesItsData ==
    [][box.state = "saved" /\ box'.state = "running" /\ handler = 206 => ~outdated]_vars
=============================================================================

--------------------------- MODULE SessionRegistry ---------------------------
(***************************************************************************)
(* The sessions of a VBoxInstance: the map of those it knows, the list of  *)
(* those that are open, a file for each, and VirtualBox, which knows the   *)
(* machines.  The application opens and closes sessions and loads them     *)
(* from their files, the thread of each open session creates and destroys  *)
(* its machine, somebody else removes or hides machines, and the process   *)
(* may die at any point and start again.                                   *)
(*                                                                         *)
(* An object is named by its session and by the load that has made it (0:  *)
(* it was allocated), for a load replaces the objects that it finds.       *)
(***************************************************************************)
EXTENDS Naturals, Sequences, FiniteSets

CONSTANTS MaxGuid,   \* the sessions, in the order of the map
          Name,
          Wanted,    \* the names the application opens
          Left, FirstName,  \* the sessions an earlier process may have left
          MaxVMs, MaxLoads, MaxOpens, MaxOutside, MaxDies  \* bounds of the instance

VARIABLES files,     \* the file of each session
          vms,       \* the machine VirtualBox has under a name
          hidden,    \* the names of machines that are inaccessible
          sessions, openSessions,
          obj,       \* the state of each object
          load,      \* how far loadSessions is
          sessionLoaded,
          opening,   \* how far sessionOpen is
          shut,      \* abort() was called
          guids,     \* the sessions that were allocated
          made, loads, opens, outside, dies,
          steady,    \* ghost: sessions whose machine is there since the last load began
          early      \* ghost: sessions were opened before they were loaded

vars == <<files, vms, hidden, sessions, openSessions, obj, load, sessionLoaded, opening, shut, guids,
          made, loads, opens, outside, dies, steady, early>>

Guid   == 1 .. MaxGuid
VM     == 1 .. MaxVMs
Object == Guid \X (0 .. MaxLoads)
NoFile == [there |-> "no"]
UuidOnly == [there |-> "uuid"]
NoObject == [instances |-> 0, run |-> FALSE]
NoLoad == [at |-> "no", it |-> 0, listed |-> {}]
Nothing == <<>>

Whose(o) == o[1]
Known    == {Whose(o) : o \in sessions}
TheObject(g) == CHOOSE o \in sessions : Whose(o) = g
Complete(f)  == f.there = "yes"
Machines == {vms[n] : n \in Name} \ {0}
Lives(vm) == vm \in Machines
ListedVMs == {vms[n] : n \in Name \ hidden} \ {0}

\* An earlier process has left a session for a name at most.
ASSUME LeftAssumption ==
    \A left \in Left : left \subseteq Guid /\ \A g, h \in left : FirstName[g] = FirstName[h] => g = h
ASSUME BoundsAssumption == MaxGuid \in Nat /\ MaxLoads \in Nat

First(S)    == CHOOSE g \in S : \A h \in S : g <= h
After(S, g) == LET next == {h \in S : h > g} IN IF next = {} THEN MaxGuid + 1 ELSE First(next)

(***************************************************************************)
(* Objects.  An object nobody refers to is gone.                           *)
(***************************************************************************)
Stored(o) == [there |-> "yes", name |-> obj[o].name, vm |-> obj[o].vm, state |-> obj[o].state]
Made(f)   == [instances |-> 0, run |-> FALSE, aborting |-> FALSE, creating |-> 0,
              name |-> f.name, vm |-> f.vm, state |-> f.state]
Referred(o, known, open, objs) ==
    o \in known \/ objs[o].instances > 0 \/ \E i \in DOMAIN open : open[i] = o
Kept(known, open, objs) == [o \in Object |-> IF Referred(o, known, open, objs) THEN objs[o] ELSE NoObject]

\* FSMThreadStop, where the session is not aborting already.
Stopped(r)  == [r EXCEPT !.run = FALSE, !.creating = 0]
Notified(r) == IF r.aborting THEN r ELSE Stopped(r)
Aborted(r)  == [Stopped(r) EXCEPT !.aborting = TRUE]

Without(open, i) == SubSeq(open, 1, i - 1) \o SubSeq(open, i + 1, Len(open))

\* The list without the first object of a session.
WithoutFirst(open, g) ==
    LET of == {i \in DOMAIN open : Whose(open[i]) = g} IN
    IF of = {} THEN open ELSE Without(open, First(of))

\* An earlier process has left sessions whose machines are there, or were removed since.
Init ==
    \E left \in Left : \E lives \in SUBSET left :
    /\ files = [g \in Guid |-> IF g \in left
                 THEN [there |-> "yes", name |-> FirstName[g], vm |-> g, state |-> "exists"]
                 ELSE NoFile]
    /\ vms = [n \in Name |-> IF \E g \in lives : FirstName[g] = n THEN CHOOSE g \in lives : FirstName[g] = n ELSE 0]
    /\ hidden = {}
    /\ sessions = {} /\ openSessions = <<>> /\ obj = [o \in Object |-> NoObject]
    /\ load = NoLoad /\ sessionLoaded = FALSE /\ opening = Nothing /\ shut = FALSE
    /\ guids = left /\ made = MaxGuid
    /\ loads = 0 /\ opens = 0 /\ outside = 0 /\ dies = 0
    /\ steady = {} /\ early = FALSE

\* The application's thread, when it is free to call.
Free == load.at = "no" /\ opening = Nothing /\ ~shut
NotLoading == UNCHANGED <<load, sessionLoaded, loads>>
NoBounds   == UNCHANGED <<outside, dies>>
NoMachine  == UNCHANGED <<vms, hidden, made>>

(***************************************************************************)
(* sessionOpen.                                                            *)
(***************************************************************************)
ByName(n) == {Whose(o) : o \in {p \in sessions : obj[p].name = n}}

\* The file is written once, when the parameters are unlocked.
Opens(o, r) ==
    LET q == [r EXCEPT !.instances = @ + 1, !.run = TRUE, !.aborting = FALSE] IN
    /\ obj' = [obj EXCEPT ![o] = q]
    /\ files' = [files EXCEPT ![Whose(o)] = [Stored(o) EXCEPT !.name = q.name]]
    /\ openSessions' = Append(openSessions, o)
    /\ opens' = opens + 1

OpenFound(n) ==
    /\ Free /\ opens < MaxOpens /\ ByName(n) # {}
    /\ LET o == TheObject(First(ByName(n))) IN Opens(o, obj[o])
    /\ UNCHANGED <<sessions, opening, shut, guids, steady, early>> /\ NotLoading /\ NoBounds /\ NoMachine

\* allocateSession writes a file with nothing but the uuid.
Allocate(n) ==
    /\ Free /\ opens < MaxOpens /\ ByName(n) = {}
    /\ \E g \in Guid \ guids :
         /\ guids' = guids \cup {g}
         /\ files' = [files EXCEPT ![g] = UuidOnly]
         /\ sessions' = sessions \cup {<<g, 0>>}
         /\ obj' = [obj EXCEPT ![<<g, 0>>] = Made([name |-> "", vm |-> 0, state |-> "missing"])]
         /\ opening' = <<g, n>>
    /\ early' = (early \/ ~sessionLoaded)
    /\ UNCHANGED <<openSessions, shut, opens, steady>> /\ NotLoading /\ NoBounds /\ NoMachine

OpenAllocated ==
    /\ opening # Nothing
    /\ LET o == <<opening[1], 0>> IN Opens(o, [obj[o] EXCEPT !.name = opening[2]])
    /\ opening' = Nothing
    /\ UNCHANGED <<sessions, shut, guids, steady, early>> /\ NotLoading /\ NoBounds /\ NoMachine

(***************************************************************************)
(* sessionDelete and sessionClose.                                         *)
(***************************************************************************)
\* Deviation: the map forgets the session, its file stays.
DeletingInMemory(g, open, objs) ==
    LET o == TheObject(g)
        left == WithoutFirst(open, g)
    IN  /\ sessions' = sessions \ {o}
        /\ openSessions' = left
        /\ obj' = Kept(sessions \ {o}, left, [objs EXCEPT ![o] = Notified(@)])
        /\ files' = files

\* What is left of the map, the list, the objects and the files when the session is
\* deleted: the object that is told is the one of the map.
Deleting(g, open, objs) ==
    LET o == TheObject(g)
        was == \E i \in DOMAIN open : Whose(open[i]) = g
        left == WithoutFirst(open, g)
    IN  /\ sessions' = sessions \ {o}
        /\ openSessions' = left
        /\ obj' = Kept(sessions \ {o}, left, IF was THEN [objs EXCEPT ![o] = Notified(@)] ELSE objs)
        /\ files' = [files EXCEPT ![g] = NoFile]

CloseOne(o) ==
    /\ obj[o].instances > 1
    /\ obj' = [obj EXCEPT ![o].instances = @ - 1]
    /\ UNCHANGED <<files, sessions, openSessions>>

\* Deviation: the thread is left running.
CloseLastRuns(o) ==
    LET g == Whose(o)
        closed == [obj EXCEPT ![o].instances = 0]
        left == WithoutFirst(openSessions, g)
    IN  /\ obj[o].instances = 1
        /\ IF obj[o].state = "missing" /\ g \in Known THEN Deleting(g, left, closed)
           ELSE /\ openSessions' = left /\ obj' = Kept(sessions, left, closed)
                /\ UNCHANGED <<sessions, files>>

CloseLast(o) ==
    LET g == Whose(o)
        closed == [obj EXCEPT ![o] = [Aborted(@) EXCEPT !.instances = 0]]
        left == WithoutFirst(openSessions, g)
    IN  /\ obj[o].instances = 1
        /\ IF obj[o].state = "missing" /\ g \in Known THEN Deleting(g, left, closed)
           ELSE /\ openSessions' = left /\ obj' = Kept(sessions, left, closed)
                /\ UNCHANGED <<sessions, files>>

Close(o) ==
    /\ Free
    /\ CloseOne(o) \/ CloseLast(o)
    /\ steady' = steady \ {Whose(o)}
    /\ UNCHANGED <<opening, shut, guids, opens, early>> /\ NotLoading /\ NoBounds /\ NoMachine

(***************************************************************************)
(* loadSessions.                                                           *)
(***************************************************************************)
LoadFiles ==
    /\ Free /\ loads < MaxLoads
    /\ LET new == {<<g, loads + 1>> : g \in {h \in Guid : Complete(files[h])}} IN
         /\ sessions' = new
         /\ obj' = Kept(new, openSessions, [o \in Object |-> IF o \in new THEN Made(files[Whose(o)]) ELSE obj[o]])
    /\ load' = [NoLoad EXCEPT !.at = "list"]
    /\ steady' = {g \in Guid : Complete(files[g]) /\ files[g].vm \in ListedVMs}
    /\ early' = (early \/ openSessions # <<>>)
    /\ UNCHANGED <<files, openSessions, sessionLoaded, opening, shut, guids, loads, opens>> /\ NoBounds /\ NoMachine

LoadEnds == load' = NoLoad /\ sessionLoaded' = TRUE /\ loads' = loads + 1
LoadGoes(at, it) == load' = [load EXCEPT !.at = at, !.it = it] /\ UNCHANGED <<sessionLoaded, loads>>
LoadOnly == UNCHANGED <<opening, shut, guids, opens, steady, early>> /\ NoBounds /\ NoMachine

ListVMs ==
    /\ load.at = "list"
    /\ load' = [at |-> "prune", it |-> After(Known, 0), listed |-> ListedVMs]
    /\ UNCHANGED <<files, sessions, openSessions, obj, sessionLoaded, loads>> /\ LoadOnly

\* Deviation: no answer is an empty list.
ListFailsEmpty ==
    /\ load.at = "list"
    /\ load' = [at |-> "prune", it |-> After(Known, 0), listed |-> {}]
    /\ UNCHANGED <<files, sessions, openSessions, obj, sessionLoaded, loads>> /\ LoadOnly

ListFails ==
    /\ load.at = "list"
    /\ LoadEnds
    /\ UNCHANGED <<files, sessions, openSessions, obj>> /\ LoadOnly

\* After a deletion the iterator starts again at the second session.
Expired(g) == obj[TheObject(g)].vm \notin load.listed

Prune ==
    /\ load.at = "prune" /\ load.it \in Known /\ Expired(load.it)
    /\ Deleting(load.it, openSessions, obj)
    /\ LET left == Known \ {load.it} IN
         IF left = {} THEN LoadGoes("release", 1) ELSE LoadGoes("prune", After(left, First(left)))
    /\ LoadOnly

\* Deviation: the iterator starts again after every session.
PruneNextRewinds ==
    /\ load.at = "prune" /\ (load.it \in Known => ~Expired(load.it))
    /\ IF load.it \in Known THEN LoadGoes("prune", After(Known, First(Known))) ELSE LoadGoes("release", 1)
    /\ UNCHANGED <<files, sessions, openSessions, obj>> /\ LoadOnly

PruneNext ==
    /\ load.at = "prune" /\ (load.it \in Known => ~Expired(load.it))
    /\ IF load.it \in Known THEN LoadGoes("prune", After(Known, load.it)) ELSE LoadGoes("release", 1)
    /\ UNCHANGED <<files, sessions, openSessions, obj>> /\ LoadOnly

Release ==
    /\ load.at = "release" /\ load.it <= Len(openSessions)
    /\ UNCHANGED <<files, sessions>> /\ LoadOnly
    /\ LET o == openSessions[load.it]
           left == Without(openSessions, load.it)
       IN  IF Whose(o) \in Known
           THEN LoadGoes("release", load.it + 1) /\ UNCHANGED <<openSessions, obj>>
           ELSE /\ openSessions' = left /\ obj' = Kept(sessions, left, [obj EXCEPT ![o] = Notified(@)])
                /\ IF left = <<>> THEN LoadEnds ELSE LoadGoes("release", 2)

ReleaseEnds ==
    /\ load.at = "release" /\ load.it > Len(openSessions)
    /\ LoadEnds
    /\ UNCHANGED <<files, sessions, openSessions, obj>> /\ LoadOnly

(***************************************************************************)
(* VBoxInstance::abort.                                                    *)
(***************************************************************************)
Abort ==
    /\ Free /\ shut' = TRUE
    /\ sessions' = {} /\ openSessions' = <<>>
    /\ obj' = [o \in Object |-> IF \E i \in DOMAIN openSessions : openSessions[i] = o THEN Aborted(obj[o])
                                ELSE IF obj[o].run THEN obj[o] ELSE NoObject]
    /\ steady' = {}
    /\ UNCHANGED <<files, opening, guids, opens, early>> /\ NotLoading /\ NoBounds /\ NoMachine

(***************************************************************************)
(* The thread of a session: what it does to the machine, and to its file.  *)
(***************************************************************************)
Saves(o, r) ==
    /\ obj' = [obj EXCEPT ![o] = r]
    /\ files' = [files EXCEPT ![Whose(o)] = [there |-> "yes", name |-> r.name, vm |-> r.vm, state |-> r.state]]
SessionOnly == UNCHANGED <<sessions, openSessions, opening, shut, guids, opens, early>> /\ NotLoading /\ NoBounds

Update(o) ==
    /\ obj[o].run /\ obj[o].creating = 0 /\ obj[o].name \notin hidden
    /\ Saves(o, [obj[o] EXCEPT !.state = IF Lives(obj[o].vm) THEN "exists" ELSE "missing"])
    /\ SessionOnly /\ NoMachine /\ UNCHANGED steady

\* createvm answers with the machine it has made.  Where a machine has the name already,
\* getMachineInfo asks by the session's own id: its own machine is taken over, and
\* anybody else's makes createvm fail, which changes nothing here.
CreateVM(o) ==
    /\ obj[o].run /\ obj[o].creating = 0 /\ obj[o].state = "missing"
    /\ LET n == obj[o].name IN
         \/ /\ vms[n] # 0 /\ vms[n] = obj[o].vm
            /\ obj' = [obj EXCEPT ![o].creating = vms[n]] /\ UNCHANGED <<vms, made>>
         \/ /\ vms[n] = 0
            /\ made < MaxVMs /\ made' = made + 1
            /\ vms' = [vms EXCEPT ![n] = made + 1]
            /\ obj' = [obj EXCEPT ![o].creating = made + 1]
    /\ UNCHANGED <<files, hidden, steady>> /\ SessionOnly

RecordVM(o) ==
    /\ obj[o].run /\ obj[o].creating # 0
    /\ Saves(o, [obj[o] EXCEPT !.vm = obj[o].creating, !.creating = 0])
    /\ SessionOnly /\ NoMachine /\ UNCHANGED steady

\* The sessions that lose their machine.
GoneWith(vm) == {Whose(o) : o \in {p \in sessions : obj[p].vm = vm}}

DestroyVM(o) ==
    /\ obj[o].run /\ obj[o].creating = 0 /\ obj[o].state = "exists" /\ Lives(obj[o].vm)
    /\ vms' = [n \in Name |-> IF vms[n] = obj[o].vm THEN 0 ELSE vms[n]]
    /\ steady' = steady \ GoneWith(obj[o].vm)
    /\ UNCHANGED <<files, obj, hidden, made>> /\ SessionOnly

(***************************************************************************)
(* Others, and the process.                                                *)
(***************************************************************************)
Outside == ~shut /\ outside < MaxOutside /\ outside' = outside + 1
OutsideOnly == UNCHANGED <<files, sessions, openSessions, obj, opening, shut, guids, made, opens, dies, early>> /\ NotLoading

RemoveVM(n) ==
    /\ Outside /\ vms[n] # 0
    /\ vms' = [vms EXCEPT ![n] = 0] /\ steady' = steady \ GoneWith(vms[n])
    /\ UNCHANGED hidden /\ OutsideOnly

HideVM(n) ==
    /\ Outside /\ vms[n] # 0 /\ n \notin hidden
    /\ hidden' = hidden \cup {n} /\ steady' = steady \ GoneWith(vms[n])
    /\ UNCHANGED vms /\ OutsideOnly

ShowVM(n) == ~shut /\ n \in hidden /\ hidden' = hidden \ {n} /\ UNCHANGED <<vms, steady, outside>> /\ OutsideOnly

\* The process ends and is started again: at any point, or because sessionOpen uses
\* the empty pointer that a wrong secret has given it.
NewProcess ==
    /\ sessions' = {} /\ openSessions' = <<>> /\ obj' = [o \in Object |-> NoObject]
    /\ load' = NoLoad /\ sessionLoaded' = FALSE /\ opening' = Nothing /\ shut' = FALSE /\ loads' = 0
    /\ steady' = {}
    /\ UNCHANGED <<files, guids, opens, outside, early>> /\ NoMachine

Dies == dies < MaxDies /\ dies' = dies + 1 /\ NewProcess

OpenRefused(n) ==
    /\ Free /\ ByName(n) # {}
    /\ dies < MaxDies /\ dies' = dies + 1 /\ NewProcess

(***************************************************************************)
(* Specification.                                                          *)
(***************************************************************************)
LoadSteps == ListVMs \/ ListFails \/ Prune \/ PruneNext \/ Release \/ ReleaseEnds

AppCalls ==
    \/ \E n \in Wanted : OpenFound(n) \/ Allocate(n) \/ OpenRefused(n)
    \/ \E o \in Object : Close(o)
    \/ LoadFiles \/ Abort

SessionSteps == \E o \in Object : Update(o) \/ CreateVM(o) \/ RecordVM(o) \/ DestroyVM(o)
OthersSteps  == \E n \in Name : RemoveVM(n) \/ HideVM(n) \/ ShowVM(n)

Next == AppCalls \/ OpenAllocated \/ LoadSteps \/ SessionSteps \/ OthersSteps \/ Dies

Spec == Init /\ [][Next]_vars /\ WF_vars(LoadSteps)

(***************************************************************************)
(* Properties.                                                             *)
(***************************************************************************)
\* The types of the state; the map has one object for a session.
TypeOK ==
    /\ files \in [Guid -> {NoFile, UuidOnly} \cup [there : {"yes"}, name : Name, vm : 0 .. MaxVMs, state : {"missing", "exists"}]]
    /\ vms \in [Name -> 0 .. MaxVMs] /\ hidden \subseteq Name
    /\ sessions \subseteq Object /\ \A o, p \in sessions : Whose(o) = Whose(p) => o = p
    /\ \A i \in DOMAIN openSessions : openSessions[i] \in Object /\ obj[openSessions[i]] # NoObject
    /\ load.at \in {"no", "list", "prune", "release"}

\* Every thread of a session is one that abort() will stop: its session is in the list
\* of the open ones, however often and in whichever order sessions were opened, closed,
\* deleted and opened again.
ThreadsAreOpen ==
    ~early => \A o \in Object : obj[o].run => \E i \in DOMAIN openSessions : openSessions[i] = o

\* No two files hold sessions of the same name, even when the process died while one
\* was being allocated or deleted: the session a client gets back is the one it left.
OneSessionPerName ==
    ~early => \A g, h \in Guid :
        (Complete(files[g]) /\ Complete(files[h]) /\ files[g].name = files[h].name) => g = h

\* Loading keeps every session whose machine VirtualBox has had all the while, in the
\* map and on disk, also where VirtualBox does not answer.
KeepsWhatLives == \A g \in steady : Complete(files[g]) /\ (~shut => g \in Known)

\* Loading comes to an end, though its loops start again after each deletion.
LoadsEnd == load.at # "no" ~> load.at = "no"
=============================================================================

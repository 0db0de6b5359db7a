---------------------------- MODULE LocalConfig ----------------------------
(***************************************************************************)
(* ParameterMap and LocalConfig: maps of parameters with a root object and *)
(* a subgroup that share their entries, and the file that the root object  *)
(* saves them to, loads them from and synchronises them with.              *)
(*                                                                         *)
(* Several configurations may stand for the same file, in one process or   *)
(* in several, and each is used by threads of its process.  A step is what *)
(* a thread does between two points where others can see or change the     *)
(* entries, the flags or the file.                                         *)
(*                                                                         *)
(* Quirks names the orders that the code does not exclude and that break   *)
(* what it promises; an instance leaves them out to show the rest:         *)
(*   "overlap"     a thread uses an object while another one holds its     *)
(*                 lock() or synchronises it                               *)
(*   "sameSecond"  the file is written in the second, or the entries are   *)
(*                 changed in the tick, in which a configuration was       *)
(*                 constructed                                             *)
(*   "torn"        a process opens the file while another one writes it:   *)
(*                 the mutex is shared by the threads of one process only  *)
(*   "race"        two configurations of the file are synchronised at      *)
(*                 once: one reads the file, both write it                 *)
(***************************************************************************)
EXTENDS Naturals, Sequences, FiniteSets, ConfigFile

CONSTANTS Config, Thread, Home, RootKey, GroupKey, Value,
          Second,           \* ticks of the clock per second of a file's time stamp
          MaxTime, MaxOps,  \* bounds of the instance: the clock, and the calls
          Calls,            \* the calls an instance's threads make
          Quirks

VARIABLES mem,           \* parameters
          keysDeleted,   \* of a root object
          timeLoaded, timeModified,
          locked, changed,  \* the flags of an object
          file,          \* the file: whether it exists, its lines, its time stamp
          task,          \* what a thread is doing
          now, ops,
          holder,        \* ghost: the thread that called lock() last
          unsaved,       \* ghost: keys put into a configuration and not given to saveMap since
          base           \* ghost: what was read when a configuration was constructed

vars == <<mem, keysDeleted, timeLoaded, timeModified, locked, changed, file, task, now, ops, holder, unsaved, base>>

Key     == RootKey \cup GroupKey
Object  == Config \X {"root", "group"}
Empty   == [k \in {} |-> <<>>]
Maps    == UNION {[S -> Value] : S \in SUBSET Key}
Nobody  == "nobody"
Idle    == [at |-> "idle"]
Busy(t) == task[t] # Idle

ASSUME ThreadAssumption == Nobody \notin Thread

\* A value that is written and read again is the same, and only the empty one leaves
\* nothing behind the "=" of its line.
ComesBack(v) == Unescape(Escape(v)) = v /\ (Escape(v) = <<>> <=> v = <<>>)
ASSUME ValueAssumption == \A v \in Value : ComesBack(v)

Whose(o)  == o[1]
KeysOf(o) == IF o[2] = "root" THEN RootKey ELSE GroupKey

\* putOnMap for every entry of new.
PutOn(map, new) == [k \in DOMAIN map \cup DOMAIN new |-> IF k \in DOMAIN new THEN new[k] ELSE map[k]]
Without(map, S) == [k \in DOMAIN map \ S |-> map[k]]

\* getFileTimeMs: whole seconds only.
SecondOf(time) == time - (time % Second)
FileTime == SecondOf(file.time)

(***************************************************************************)
(* Mutexes.  The mutex of a file is one of the process; save() and load()  *)
(* hold the mutex of the entries as well.                                  *)
(***************************************************************************)
MapFree(t, c) == \A u \in Thread \ {t} : ~(task[u].at = "write" /\ task[u].on = c /\ task[u].whole)
\* Deviation: two threads may have the file open.
FileFreeAlways(t) == TRUE
FileFree(t) == \A u \in Thread \ {t} :
                    task[u].at = "write" => (Home[u] # Home[t] /\ "torn" \in Quirks)

\* Who may use an object, where two threads must not overlap on it.
Alone(t, c) ==
    \/ "overlap" \in Quirks
    \/ \A u \in Thread \ {t} : Busy(u) => ~(task[u].on = c /\ task[u].sync)
Still(t, c)  == \A u \in Thread \ {t} : Busy(u) => task[u].on # c
Unheld(t, c) == "overlap" \in Quirks \/ holder[c] \in {t, Nobody}
MayWrite == "sameSecond" \in Quirks \/ \A c \in Config : SecondOf(now) > timeLoaded[c]

Call(t, o, name) ==
    /\ <<name, o[2]>> \in Calls /\ ~Busy(t) /\ Home[t] = Home[Whose(o)]
    /\ Alone(t, Whose(o)) /\ Unheld(t, Whose(o))
    /\ "sameSecond" \in Quirks \/ now > timeLoaded[Whose(o)]
    /\ ops < MaxOps /\ ops' = ops + 1

(***************************************************************************)
(* Construction.                                                           *)
(***************************************************************************)
Loads == IF file.there THEN Parsed(file.lines) ELSE Empty

Init ==
    /\ file \in {[there |-> TRUE, lines |-> Printed(map), time |-> 0] : map \in [Key -> Value]}
                \cup {[there |-> FALSE, lines |-> Empty, time |-> 0]}
    /\ base = [c \in Config |-> Loads]
    /\ mem = [c \in Config |-> Loads]
    /\ keysDeleted = [c \in Config |-> {}]
    /\ timeLoaded = [c \in Config |-> 0] /\ timeModified = [c \in Config |-> 0]
    /\ locked = [o \in Object |-> FALSE] /\ changed = [o \in Object |-> FALSE]
    /\ task = [t \in Thread |-> Idle]
    /\ now = 0 /\ ops = 0
    /\ holder = [c \in Config |-> Nobody] /\ unsaved = [c \in Config |-> {}]

(***************************************************************************)
(* The file.  A task at "save" is about to open the file: it takes the     *)
(* entries as they then are, or carries the map that sync() has merged.    *)
(***************************************************************************)
Goes(t, to) == task' = [task EXCEPT ![t] = to]
Saving(c)   == [at |-> "save", on |-> c, whole |-> TRUE, set |-> {}, sync |-> FALSE]
ToWrite(s)  == IF s.whole THEN mem[s.on] ELSE s.map

OpenFile(t) ==
    LET s == task[t] IN
    /\ s.at = "save" /\ FileFree(t) /\ MapFree(t, s.on) /\ MayWrite
    /\ Goes(t, [at |-> "write", on |-> s.on, whole |-> s.whole, set |-> s.set, sync |-> s.sync,
                old |-> file, map |-> ToWrite(s)])
    /\ file' = [there |-> TRUE, lines |-> Empty, time |-> now]
    /\ UNCHANGED <<mem, keysDeleted, timeLoaded, timeModified, locked, changed, now, ops, holder, unsaved, base>>

\* The file cannot be opened: nothing is written, and nobody looks at the answer.
OpenRefused(t) ==
    LET s == task[t] IN
    /\ s.at = "save" /\ FileFree(t) /\ MapFree(t, s.on)
    /\ unsaved' = [unsaved EXCEPT ![s.on] = @ \ DOMAIN ToWrite(s)]
    /\ keysDeleted' = [keysDeleted EXCEPT ![s.on] = @ \ s.set]
    /\ Goes(t, Idle)
    /\ UNCHANGED <<mem, timeLoaded, timeModified, locked, changed, file, now, ops, holder, base>>

\* A file that was removed meanwhile takes what is written into it away.
WriteFile(t) ==
    LET s == task[t] IN
    /\ s.at = "write"
    /\ file' = IF file.there THEN [file EXCEPT !.lines = Printed(s.map), !.time = now] ELSE file
    /\ unsaved' = [unsaved EXCEPT ![s.on] = {k \in @ : k \notin DOMAIN s.map}]
    /\ keysDeleted' = [keysDeleted EXCEPT ![s.on] = @ \ s.set]
    /\ Goes(t, Idle)
    /\ UNCHANGED <<mem, timeLoaded, timeModified, locked, changed, now, ops, holder, base>>

(***************************************************************************)
(* Entries.                                                                *)
(***************************************************************************)
\* set and setNum, setBool: the entry, then the flag, then the commit; the root
\* object also takes the key off the list of deleted keys, at the very end.
PutEntries(t, o, new, undelete) ==
    /\ mem' = [mem EXCEPT ![Whose(o)] = PutOn(@, new)]
    /\ unsaved' = [unsaved EXCEPT ![Whose(o)] = @ \cup DOMAIN new]
    /\ Goes(t, [at |-> "commit", on |-> Whose(o), of |-> o, set |-> undelete, sync |-> FALSE])

Set(t, o) ==
    \E k \in KeysOf(o), v \in Value :
        /\ Call(t, o, "set") /\ MapFree(t, Whose(o))
        /\ timeModified' = [timeModified EXCEPT ![Whose(o)] = IF o[2] = "root" THEN now ELSE @]
        /\ PutEntries(t, o, [x \in {k} |-> v], IF o[2] = "root" THEN {k} ELSE {})
        /\ UNCHANGED <<keysDeleted, timeLoaded, locked, changed, file, now, holder, base>>

\* set's end, where it does not commit.
SetDone(t, c) == keysDeleted' = [keysDeleted EXCEPT ![c] = @ \ task[t].set]

\* `if (!locked) commitChanges() else changed = true`, in two steps: a group commits
\* through its parent, whatever the parent's own flag.
Commit(t) ==
    LET s == task[t] IN
    /\ s.at = "commit"
    /\ Goes(t, IF locked[s.of] THEN [s EXCEPT !.at = "mark"] ELSE [Saving(s.on) EXCEPT !.set = s.set])
    /\ UNCHANGED <<mem, keysDeleted, timeLoaded, timeModified, locked, changed, file, now, ops, holder, unsaved, base>>

\* Deviation: a set() under the lock forgets to mark the object.
MarkChangedNot(t) ==
    LET s == task[t] IN
    /\ s.at = "mark" /\ SetDone(t, s.on) /\ Goes(t, Idle)
    /\ UNCHANGED <<mem, timeLoaded, timeModified, locked, changed, file, now, ops, holder, unsaved, base>>

MarkChanged(t) ==
    LET s == task[t] IN
    /\ s.at = "mark"
    /\ changed' = [changed EXCEPT ![s.of] = TRUE]
    /\ SetDone(t, s.on)
    /\ Goes(t, Idle)
    /\ UNCHANGED <<mem, timeLoaded, timeModified, locked, file, now, ops, holder, unsaved, base>>

SetDefault(t, o) ==
    \E k \in KeysOf(o), v \in Value :
        /\ Call(t, o, "setDefault") /\ MapFree(t, Whose(o))
        /\ mem' = [mem EXCEPT ![Whose(o)] = PutOn([x \in {k} |-> v], @)]
        /\ UNCHANGED <<keysDeleted, timeLoaded, timeModified, locked, changed, file, task, now, holder, unsaved, base>>

\* erase commits nothing; only the root object remembers the key.
Erase(t, o) ==
    \E k \in KeysOf(o) :
        /\ Call(t, o, "erase") /\ MapFree(t, Whose(o))
        /\ mem' = [mem EXCEPT ![Whose(o)] = Without(@, {k})]
        /\ unsaved' = [unsaved EXCEPT ![Whose(o)] = @ \ {k}]
        /\ IF o[2] = "root"
           THEN /\ timeModified' = [timeModified EXCEPT ![Whose(o)] = now]
                /\ keysDeleted' = [keysDeleted EXCEPT ![Whose(o)] = @ \cup {k}]
           ELSE UNCHANGED <<timeModified, keysDeleted>>
        /\ UNCHANGED <<timeLoaded, locked, changed, file, task, now, holder, base>>

\* clear drops the object's own keys, clearAll all of them; the root object then
\* removes the file, and fromMap goes on with the entries it imports.
ClearKeys(t, o, keys, next) ==
    LET root == o[2] = "root"
        gone == [at |-> "remove", on |-> Whose(o), next |-> next, sync |-> FALSE]
    IN /\ mem' = [mem EXCEPT ![Whose(o)] = Without(@, keys)]
       /\ unsaved' = [unsaved EXCEPT ![Whose(o)] = @ \ keys]
       /\ timeModified' = [timeModified EXCEPT ![Whose(o)] = IF root THEN now ELSE @]
       /\ Goes(t, IF root THEN gone ELSE next)
       /\ UNCHANGED <<keysDeleted, timeLoaded, locked, changed, file, now, holder, base>>

Clear(t, o) ==
    \E keys \in {KeysOf(o), Key} :
        /\ Call(t, o, "clear") /\ MapFree(t, Whose(o))
        /\ ClearKeys(t, o, keys, Idle)

RemoveFile(t) ==
    LET s == task[t] IN
    /\ s.at = "remove"
    /\ file' = [file EXCEPT !.there = FALSE, !.lines = Empty]
    /\ Goes(t, s.next)
    /\ UNCHANGED <<mem, keysDeleted, timeLoaded, timeModified, locked, changed, now, ops, holder, unsaved, base>>

\* fromMap, fromParameters, fromJSON: clear if asked to, put the entries (all of
\* them, or those that are missing), commit.  fromJSON leaves out the prefix of a
\* group, so that a group's entries land among those of the root object.
Importing(o, new, replace) == [at |-> "import", on |-> Whose(o), of |-> o, new |-> new, replace |-> replace, sync |-> FALSE]

Import(t, o) ==
    \E keys \in {KeysOf(o), RootKey}, clearBefore, replace \in BOOLEAN : \E new \in [keys -> Value] :
        /\ Call(t, o, "import") /\ MapFree(t, Whose(o))
        /\ IF clearBefore
           THEN ClearKeys(t, o, KeysOf(o), Importing(o, new, replace))
           ELSE /\ Goes(t, Importing(o, new, replace))
                /\ UNCHANGED <<mem, keysDeleted, timeLoaded, timeModified, locked, changed, file, now, holder, unsaved, base>>

ImportEntries(t) ==
    LET s == task[t]
        put == IF s.replace THEN s.new ELSE Without(s.new, DOMAIN mem[s.on])
    IN /\ s.at = "import" /\ MapFree(t, s.on)
       /\ PutEntries(t, s.of, put, {})
       /\ UNCHANGED <<keysDeleted, timeLoaded, timeModified, locked, changed, file, now, ops, holder, base>>

(***************************************************************************)
(* lock() and unlock().                                                    *)
(***************************************************************************)
Lock(t, o) ==
    /\ Call(t, o, "lock")
    /\ "overlap" \in Quirks \/ (Still(t, Whose(o)) /\ ~locked[o])
    /\ locked' = [locked EXCEPT ![o] = TRUE]
    /\ changed' = [changed EXCEPT ![o] = FALSE]
    /\ holder' = [holder EXCEPT ![Whose(o)] = t]
    /\ UNCHANGED <<mem, keysDeleted, timeLoaded, timeModified, file, task, now, unsaved, base>>

\* The flag stays set when unlock() has committed; only lock() resets it.
Unlock(t, o) ==
    /\ ~Busy(t) /\ locked[o] /\ Home[t] = Home[Whose(o)] /\ Unheld(t, Whose(o))
    /\ locked' = [locked EXCEPT ![o] = FALSE]
    /\ holder' = [holder EXCEPT ![Whose(o)] =
                    IF \E p \in Object \ {o} : Whose(p) = Whose(o) /\ locked[p] THEN @ ELSE Nobody]
    /\ IF changed[o] THEN Goes(t, Saving(Whose(o))) ELSE UNCHANGED task
    /\ UNCHANGED <<mem, keysDeleted, timeLoaded, timeModified, changed, file, now, ops, unsaved, base>>

(***************************************************************************)
(* save(), load() and sync().  `bool ans` is declared a second time in the *)
(* inner block, so save() and load() neither set timeLoaded nor empty      *)
(* keysDeleted.                                                            *)
(***************************************************************************)
SyncTask(c, at) == [at |-> at, on |-> c, whole |-> TRUE, set |-> {}, sync |-> TRUE]

\* Which of its cases sync() takes.
SyncCase(c) ==
    IF ~file.there                         THEN "save"
    ELSE IF timeModified[c] <= timeLoaded[c]
         THEN IF FileTime > timeLoaded[c]  THEN "load" ELSE "synced"
    ELSE IF FileTime <= timeLoaded[c]      THEN "save"
    ELSE "merge"

Sync(t, c) ==
    /\ <<"sync", "root">> \in Calls /\ ~Busy(t) /\ Home[t] = Home[c] /\ Unheld(t, c)
    /\ "overlap" \in Quirks \/ Still(t, c)
    /\ "race" \in Quirks \/ \A u \in Thread : Busy(u) => ~task[u].sync
    /\ SyncCase(c) # "synced" /\ Goes(t, SyncTask(c, SyncCase(c)))
    /\ UNCHANGED <<mem, keysDeleted, timeLoaded, timeModified, locked, changed, file, now, ops, holder, unsaved, base>>

LoadFile(t) ==
    LET s == task[t] IN
    /\ s.at = "load" /\ FileFree(t) /\ MapFree(t, s.on)
    /\ IF file.there
       THEN mem' = [mem EXCEPT ![s.on] = Loads] /\ unsaved' = [unsaved EXCEPT ![s.on] = {}]
       ELSE UNCHANGED <<mem, unsaved, base>>
    /\ Goes(t, Idle)
    /\ UNCHANGED <<keysDeleted, timeLoaded, timeModified, locked, changed, file, now, ops, holder, base>>

\* Deviation: the list of deleted keys outlives the merge.
MergeFileKeeps(t) ==
    LET s == task[t] IN
    /\ s.at = "merge" /\ FileFree(t)
    /\ Goes(t, [at |-> "ours", on |-> s.on, map |-> Without(Loads, keysDeleted[s.on]), sync |-> TRUE])
    /\ UNCHANGED <<mem, keysDeleted, timeLoaded, timeModified, locked, changed, file, now, ops, holder, unsaved, base>>

\* Case [4]: the file's entries without the deleted keys ...
MergeFile(t) ==
    LET s == task[t] IN
    /\ s.at = "merge" /\ FileFree(t)
    /\ IF file.there
       THEN /\ Goes(t, [at |-> "ours", on |-> s.on, map |-> Without(Loads, keysDeleted[s.on]), sync |-> TRUE])
            /\ keysDeleted' = [keysDeleted EXCEPT ![s.on] = {}]
       ELSE Goes(t, Idle) /\ UNCHANGED keysDeleted
    /\ UNCHANGED <<mem, timeLoaded, timeModified, locked, changed, file, now, ops, holder, unsaved, base>>

\* Deviation: the file's entries win.
MergedTheirs(ours, theirs) == PutOn(ours, theirs)

\* ... our own entries over them, what is missing taken from them, and back.
Merged(ours, theirs) == PutOn(theirs, ours)

MergeOurs(t) ==
    LET s == task[t]
        map == Merged(mem[s.on], s.map)
    IN /\ s.at = "ours" /\ MapFree(t, s.on)
       /\ mem' = [mem EXCEPT ![s.on] = map]
       /\ Goes(t, [at |-> "save", on |-> s.on, whole |-> FALSE, set |-> {}, sync |-> TRUE, map |-> map])
       /\ UNCHANGED <<keysDeleted, timeLoaded, timeModified, locked, changed, file, now, ops, holder, unsaved, base>>

(***************************************************************************)
(* Time passes; a process dies, whatever its threads are doing, and its    *)
(* configurations are constructed again.                                   *)
(***************************************************************************)
Tick == now < MaxTime /\ now' = now + 1
        /\ UNCHANGED <<mem, keysDeleted, timeLoaded, timeModified, locked, changed, file, task, ops, holder, unsaved, base>>

\* The constructor: the entries the file holds, both time stamps now.
Constructed(cs) ==
    /\ mem' = [c \in Config |-> IF c \in cs THEN Loads' ELSE mem[c]]
    /\ base' = [c \in Config |-> IF c \in cs THEN mem'[c] ELSE base[c]]
    /\ keysDeleted' = [c \in Config |-> IF c \in cs THEN {} ELSE keysDeleted[c]]
    /\ timeLoaded' = [c \in Config |-> IF c \in cs THEN now ELSE timeLoaded[c]]
    /\ timeModified' = [c \in Config |-> IF c \in cs THEN now ELSE timeModified[c]]
    /\ locked' = [o \in Object |-> locked[o] /\ Whose(o) \notin cs]
    /\ changed' = [o \in Object |-> changed[o] /\ Whose(o) \notin cs]
    /\ holder' = [c \in Config |-> IF c \in cs THEN Nobody ELSE holder[c]]
    /\ unsaved' = [c \in Config |-> IF c \in cs THEN {} ELSE unsaved[c]]
    /\ UNCHANGED now

\* forRuntime: another object for the file, where the last one is dropped.
Construct(t, c) ==
    /\ Call(t, <<c, "root">>, "construct") /\ Still(t, c) /\ holder[c] = Nobody
    /\ FileFree(t)
    /\ UNCHANGED <<file, task>> /\ Constructed({c})

Restart(p) ==
    LET mine == {c \in Config : Home[c] = p}
        cut  == {t \in Thread : Home[t] = p /\ task[t].at = "write"}
    IN /\ <<"restart", "root">> \in Calls /\ ops < MaxOps /\ ops' = ops + 1
       /\ IF cut = {} \/ ~file.there
          THEN UNCHANGED file
          ELSE \E t \in cut : \E S \in SUBSET DOMAIN task[t].map :
                  file' = [file EXCEPT !.lines = Printed(Without(task[t].map, S))]
       /\ task' = [t \in Thread |-> IF Home[t] = p THEN Idle ELSE task[t]]
       /\ Constructed(mine)

Step(t) ==
    \/ OpenFile(t) \/ OpenRefused(t) \/ WriteFile(t) \/ Commit(t) \/ MarkChanged(t) \/ RemoveFile(t)
    \/ ImportEntries(t) \/ LoadFile(t) \/ MergeFile(t) \/ MergeOurs(t)
Uses(t) ==
    \/ \E o \in Object : Set(t, o) \/ SetDefault(t, o) \/ Erase(t, o) \/ Clear(t, o) \/ Import(t, o)
                         \/ Lock(t, o) \/ Unlock(t, o)
    \/ \E c \in Config : Sync(t, c) \/ Construct(t, c)

Next ==
    \/ \E t \in Thread : Step(t) \/ Uses(t)
    \/ \E p \in {Home[c] : c \in Config} : Restart(p)
    \/ Tick

Spec == Init /\ [][Next]_vars

\* Threads go on with what they have begun, time passes, everybody keeps
\* synchronising, and the file can be opened again and again.
FairSpec ==
    /\ Spec /\ WF_vars(Tick)
    /\ \A t \in Thread : SF_vars(Step(t)) /\ SF_vars(OpenFile(t))
    /\ \A c \in Config : SF_vars(\E t \in Thread : Sync(t, c))

(***************************************************************************)
(* Properties.                                                             *)
(***************************************************************************)
\* The types of the state.
TypeOK ==
    /\ mem \in [Config -> Maps] /\ keysDeleted \in [Config -> SUBSET RootKey]
    /\ timeLoaded \in [Config -> 0 .. now] /\ timeModified \in [Config -> 0 .. now]
    /\ locked \in [Object -> BOOLEAN] /\ changed \in [Object -> BOOLEAN]
    /\ DOMAIN file.lines \subseteq Key /\ file.time \in 0 .. now
    /\ unsaved \in [Config -> SUBSET Key]

\* Whatever the threads of one process do with the objects that share a file, a
\* reader of that process finds the whole of what one object held at one moment:
\* the truncated file that saveMap leaves while it writes is never read, and a
\* crash is the only way to a part of a map.
Readable ==
    IF file.there /\ \E t \in Thread : task[t].at = "write"
    THEN Parsed((CHOOSE s \in {task[t] : t \in Thread} : s.at = "write").old.lines)
    ELSE Loads
Store == INSTANCE ConfigStore WITH mem <- [c \in Config |-> NonEmpty(mem[c])], base <- [c \in Config |-> NonEmpty(base[c])], saved <- Readable
IsAConfigStore == Store!Spec

\* What was put into a configuration has been given to saveMap once nobody is
\* at work on it or holds its lock: no way through lock(), unlock(), set and the
\* imports, of a root object or of a group, forgets the commit.  Where the file cannot
\* be opened saveMap loses it, which set, unlock() and the imports do not tell.
NothingUnsaved ==
    \A c \in Config :
        (holder[c] = Nobody /\ \A t \in Thread : Busy(t) => task[t].on # c) => unsaved[c] = {}

\* Once a root object has changed anything, no sync() drops or replaces an entry it
\* holds: the merge prefers ours, and the case that loads the file is never taken
\* again.
KeepsOurs ==
    [][\A t \in Thread :
          LET s == task[t] IN
          (s # Idle /\ task'[t] # s /\ s.sync /\ timeModified[s.on] > timeLoaded[s.on])
          => \A k \in DOMAIN mem[s.on] : k \in DOMAIN mem'[s.on] /\ mem'[s.on][k] = mem[s.on][k]]_vars

\* When everybody keeps synchronising, every parameter that stays in the file
\* reaches every configuration.
Spreads == <>[](\A c \in Config : DOMAIN Loads \subseteq DOMAIN mem[c])
=============================================================================

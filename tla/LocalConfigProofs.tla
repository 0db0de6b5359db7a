-------------------------- MODULE LocalConfigProofs --------------------------
(***************************************************************************)
(* Proofs about LocalConfig: what was put into a configuration is written, *)
(* and a synchronisation keeps what the configuration holds.               *)
(***************************************************************************)
EXTENDS LocalConfig, TLAPS

(***************************************************************************)
(* What a thread may be doing.                                             *)
(***************************************************************************)
AtImport(s) ==
    s.at = "import" /\ s.of \in Object /\ s.on = Whose(s.of) /\ s.on \in Config /\ s.sync = FALSE
AtCommit(s) ==
    /\ DOMAIN s = {"at", "on", "of", "set", "sync"}
    /\ s.at \in {"commit", "mark"} /\ s.of \in Object /\ s.on = Whose(s.of) /\ s.on \in Config
    /\ s.sync = FALSE
AtSave(s) ==
    /\ s.at \in {"save", "write"} /\ s.on \in Config
    /\ \/ s.whole = TRUE /\ s.sync \in BOOLEAN
       \/ s.whole = FALSE /\ s.sync = TRUE
AtRemove(s) ==
    /\ s.at = "remove" /\ s.on \in Config /\ s.sync = FALSE
    /\ s.next = Idle \/ (AtImport(s.next) /\ s.next.on = s.on)
AtSync(s) ==
    s.at \in {"load", "merge", "ours"} /\ s.on \in Config /\ s.sync = TRUE

AtWork(s) == AtImport(s) \/ AtCommit(s) \/ AtSave(s) \/ AtRemove(s) \/ AtSync(s)

Shape ==
    /\ DOMAIN task = Thread /\ DOMAIN holder = Config
    /\ locked \in [Object -> BOOLEAN]
    /\ \A t \in Thread : task[t] = Idle \/ AtWork(task[t])

\* A thread works on configurations of its process; no two are at work on one while
\* either synchronises it, or while another holds its lock.
Apart ==
    /\ \A t \in Thread : Busy(t) => /\ Home[t] = Home[task[t].on]
                                    /\ holder[task[t].on] \in {t, Nobody}
    /\ \A t, u \in Thread :
         t # u /\ Busy(t) /\ Busy(u) /\ task[t].on = task[u].on => ~task[t].sync
    /\ \A o \in Object : locked[o] => holder[Whose(o)] # Nobody

(***************************************************************************)
(* How a thread goes on with what it is doing, and how it begins.          *)
(***************************************************************************)
Continues(t) ==
    \E to : /\ Goes(t, to)
            /\ to = Idle \/ (AtWork(to) /\ to.on = task[t].on /\ to.sync = task[t].sync)

BeginsOn(t, c) ==
    \E to : /\ Goes(t, to)
            /\ AtWork(to) /\ to.on = c
            /\ to.sync \in BOOLEAN /\ (to.sync = TRUE => Still(t, c))

LEMMA ObjectIs ==
    ASSUME NEW o \in Object
    PROVE  Whose(o) \in Config /\ o = <<Whose(o), o[2]>> /\ o[2] \in {"root", "group"}
BY SMT DEF Object, Whose

LEMMA WorkIsBusy ==
    ASSUME NEW s, AtWork(s)
    PROVE  s # Idle /\ s.on \in Config /\ s.sync \in BOOLEAN /\ s.at # "idle"
<1>1. s.on \in Config /\ s.at # "idle"
  BY SMT DEF AtWork, AtImport, AtCommit, AtSave, AtRemove, AtSync
<1>3. s.sync \in BOOLEAN
  BY Zenon DEF AtWork, AtImport, AtCommit, AtSave, AtRemove, AtSync
<1>2. Idle.at = "idle"  BY DEF Idle
<1> QED  BY <1>1, <1>2, <1>3, Zenon

\* The tasks that the actions make.
LEMMA CommitTask ==
    ASSUME NEW o \in Object, NEW set
    PROVE  LET s == [at |-> "commit", on |-> Whose(o), of |-> o, set |-> set, sync |-> FALSE]
           IN  AtCommit(s) /\ s.on = Whose(o) /\ s.sync = FALSE
BY ObjectIs, SMT DEF AtCommit

LEMMA CommitsOn ==
    ASSUME NEW s, AtCommit(s)
    PROVE  /\ AtCommit([s EXCEPT !.at = "mark"])
           /\ [s EXCEPT !.at = "mark"].on = s.on /\ [s EXCEPT !.at = "mark"].sync = s.sync
           /\ AtSave([Saving(s.on) EXCEPT !.set = s.set])
           /\ [Saving(s.on) EXCEPT !.set = s.set].on = s.on
           /\ [Saving(s.on) EXCEPT !.set = s.set].sync = s.sync
<1> DEFINE m == [s EXCEPT !.at = "mark"]
           v == [Saving(s.on) EXCEPT !.set = s.set]
<1>1. /\ DOMAIN s = {"at", "on", "of", "set", "sync"} /\ s.on \in Config
      /\ s.of \in Object /\ s.on = Whose(s.of) /\ s.sync = FALSE
  BY DEF AtCommit
<1>2. /\ DOMAIN m = {"at", "on", "of", "set", "sync"}
      /\ m.at = "mark" /\ m.of = s.of /\ m.on = s.on /\ m.sync = s.sync
  BY <1>1, SMT
<1>3. v.at = "save" /\ v.on = s.on /\ v.whole = TRUE /\ v.sync = FALSE
  BY SMT DEF Saving
<1> HIDE DEF m, v
<1>4. AtCommit(m)  BY <1>1, <1>2, Zenon DEF AtCommit
<1>5. AtSave(v)    BY <1>1, <1>3, Zenon DEF AtSave
<1> QED  BY <1>1, <1>2, <1>3, <1>4, <1>5, Zenon DEF m, v

LEMMA ImportTask ==
    ASSUME NEW o \in Object, NEW new, NEW replace
    PROVE  /\ AtImport(Importing(o, new, replace)) /\ Importing(o, new, replace).on = Whose(o)
           /\ Importing(o, new, replace).sync = FALSE
BY ObjectIs, SMT DEF AtImport, Importing

LEMMA SaveTask ==
    ASSUME NEW c \in Config
    PROVE  AtSave(Saving(c)) /\ Saving(c).on = c /\ Saving(c).sync = FALSE
BY SMT DEF AtSave, Saving

LEMMA SyncTasks ==
    ASSUME NEW c \in Config, NEW at \in {"save", "load", "merge"}
    PROVE  AtWork(SyncTask(c, at)) /\ SyncTask(c, at).on = c /\ SyncTask(c, at).sync = TRUE
BY SMT DEF AtWork, AtSave, AtSync, SyncTask

LEMMA MergeTask ==
    ASSUME NEW c \in Config, NEW map
    PROVE  LET s == [at |-> "ours", on |-> c, map |-> map, sync |-> TRUE]
           IN  AtSync(s) /\ s.on = c /\ s.sync = TRUE
BY SMT DEF AtSync

LEMMA MergedTask ==
    ASSUME NEW c \in Config, NEW map
    PROVE  LET s == [at |-> "save", on |-> c, whole |-> FALSE, set |-> {}, sync |-> TRUE, map |-> map]
           IN  AtSave(s) /\ s.on = c /\ s.sync = TRUE
BY SMT DEF AtSave

LEMMA RemoveTask ==
    ASSUME NEW c \in Config, NEW next, next = Idle \/ (AtImport(next) /\ next.on = c)
    PROVE  LET s == [at |-> "remove", on |-> c, next |-> next, sync |-> FALSE]
           IN  AtRemove(s) /\ s.on = c /\ s.sync = FALSE
BY SMT DEF AtRemove

\* A step of a thread goes on with what it was doing, or ends it.
LEMMA StepsContinue ==
    ASSUME Shape, NEW t \in Thread, Step(t)
    PROVE  Busy(t) /\ Continues(t)
<1>0. /\ task[t].at # "idle" => Busy(t)
      /\ Busy(t) => AtWork(task[t])
  BY SMT DEF Shape, Busy, Idle
<1>1. CASE OpenFile(t)
  BY <1>0, <1>1, SMT DEF OpenFile, ToWrite, Continues, AtWork, AtImport, AtCommit, AtSave, AtRemove, AtSync
<1>2. CASE WriteFile(t)
  BY <1>0, <1>2, SMT DEF WriteFile, Continues
<1>10. CASE OpenRefused(t)
  BY <1>0, <1>10, SMT DEF OpenRefused, Continues
<1>3. CASE Commit(t)
  <2>1. Busy(t) /\ AtCommit(task[t])
    BY <1>0, <1>3, SMT DEF Commit, AtWork, AtImport, AtCommit, AtSave, AtRemove, AtSync
  <2> QED  BY <1>3, <2>1, CommitsOn, Zenon DEF Commit, Continues, AtWork
<1>4. CASE MarkChanged(t)
  BY <1>0, <1>4, SMT DEF MarkChanged, Continues
<1>5. CASE RemoveFile(t)
  <2>1. Busy(t) /\ AtRemove(task[t])
    BY <1>0, <1>5, SMT DEF RemoveFile, AtWork, AtImport, AtCommit, AtSave, AtRemove, AtSync
  <2>2. task[t].next = Idle \/ (AtImport(task[t].next) /\ task[t].next.on = task[t].on /\ task[t].next.sync = task[t].sync)
    BY <2>1, Zenon DEF AtRemove, AtImport
  <2> QED  BY <1>5, <2>1, <2>2, Zenon DEF RemoveFile, Continues, AtWork
<1>6. CASE ImportEntries(t)
  <2>1. Busy(t) /\ AtImport(task[t])
    BY <1>0, <1>6, SMT DEF ImportEntries, AtWork, AtImport, AtCommit, AtSave, AtRemove, AtSync
  <2> DEFINE to == [at |-> "commit", on |-> Whose(task[t].of), of |-> task[t].of, set |-> {}, sync |-> FALSE]
  <2>2. AtCommit(to) /\ to.on = task[t].on /\ to.sync = task[t].sync
    BY <2>1, CommitTask, Zenon DEF AtImport
  <2>3. Goes(t, to)  BY <1>6, Zenon DEF ImportEntries, PutEntries
  <2> HIDE DEF to
  <2> QED  BY <2>1, <2>2, <2>3, Zenon DEF Continues, AtWork
<1>7. CASE LoadFile(t)
  BY <1>0, <1>7, SMT DEF LoadFile, Continues
<1>8. CASE MergeFile(t)
  <2>1. Busy(t) /\ task[t].on \in Config /\ task[t].sync = TRUE
    BY <1>0, <1>8, SMT DEF MergeFile, AtWork, AtImport, AtCommit, AtSave, AtRemove, AtSync
  <2>2. CASE Goes(t, Idle)  BY <2>1, <2>2, Zenon DEF Continues
  <2> DEFINE to == [at |-> "ours", on |-> task[t].on, map |-> Without(Loads, keysDeleted[task[t].on]), sync |-> TRUE]
  <2>3. CASE Goes(t, to)
    <3>1. AtSync(to) /\ to.on = task[t].on /\ to.sync = task[t].sync
      BY <2>1, MergeTask, Zenon
    <3> HIDE DEF to
    <3> QED  BY <2>1, <2>3, <3>1, Zenon DEF Continues, AtWork
  <2> QED  BY <1>8, <2>2, <2>3, Zenon DEF MergeFile
<1>9. CASE MergeOurs(t)
  <2>1. Busy(t) /\ task[t].on \in Config /\ task[t].sync = TRUE
    BY <1>0, <1>9, SMT DEF MergeOurs, AtWork, AtImport, AtCommit, AtSave, AtRemove, AtSync
  <2> DEFINE map == Merged(mem[task[t].on], task[t].map)
             to == [at |-> "save", on |-> task[t].on, whole |-> FALSE, set |-> {}, sync |-> TRUE, map |-> map]
  <2>2. AtSave(to) /\ to.on = task[t].on /\ to.sync = task[t].sync
    BY <2>1, MergedTask, Zenon
  <2>3. Goes(t, to)  BY <1>9, Zenon DEF MergeOurs
  <2> HIDE DEF to
  <2> QED  BY <2>1, <2>2, <2>3, Zenon DEF Continues, AtWork
<1> QED
  BY <1>1, <1>2, <1>3, <1>4, <1>5, <1>6, <1>7, <1>8, <1>9, <1>10, Zenon DEF Step

(***************************************************************************)
(* Threads stay apart.                                                     *)
(***************************************************************************)
MayUse(t, c) ==
    /\ ~Busy(t) /\ Home[t] = Home[c] /\ holder[c] \in {t, Nobody}
    /\ \A u \in Thread \ {t} : Busy(u) /\ task[u].on = c => ~task[u].sync

LEMMA GoesTo ==
    ASSUME Shape, NEW t \in Thread, NEW to, Goes(t, to)
    PROVE  /\ DOMAIN task' = Thread /\ task'[t] = to
           /\ \A u \in Thread : u # t => task'[u] = task[u]
BY SMT DEF Shape, Goes

LEMMA ApartGoesOn ==
    ASSUME Shape, Apart, NEW t \in Thread, Busy(t), Continues(t), UNCHANGED <<holder, locked>>
    PROVE  Shape' /\ Apart'
<1>1. PICK to : /\ Goes(t, to)
                /\ to = Idle \/ (AtWork(to) /\ to.on = task[t].on /\ to.sync = task[t].sync)
  BY DEF Continues
<1>2. /\ DOMAIN task' = Thread /\ task'[t] = to
      /\ \A u \in Thread : u # t => task'[u] = task[u]
  BY <1>1, GoesTo
<1>3. Shape'  BY <1>1, <1>2, SMT DEF Shape
<1>4. \A u \in Thread : Busy(u)' => Busy(u) /\ task'[u].on = task[u].on /\ task'[u].sync = task[u].sync
  BY <1>1, <1>2, Zenon DEF Busy
<1>5. Apart'
  <2>1. ASSUME NEW u \in Thread, Busy(u)'
        PROVE  Home[u] = Home[task'[u].on] /\ holder'[task'[u].on] \in {u, Nobody}
    BY <1>4, <2>1, Zenon DEF Apart
  <2>2. ASSUME NEW u \in Thread, NEW v \in Thread, u # v, Busy(u)', Busy(v)', task'[u].on = task'[v].on
        PROVE  ~task'[u].sync
    BY <1>4, <2>2, Zenon DEF Apart
  <2>3. \A o \in Object : locked'[o] => holder'[Whose(o)] # Nobody
    BY Zenon DEF Apart
  <2> QED  BY <2>1, <2>2, <2>3, Zenon DEF Apart
<1> QED  BY <1>3, <1>5

\* Also where the thread locks or unlocks the configuration.
LEMMA ApartBegins ==
    ASSUME Shape, Apart, NEW t \in Thread, NEW c \in Config, MayUse(t, c), BeginsOn(t, c),
           DOMAIN holder' = Config, locked' \in [Object -> BOOLEAN],
           \A d \in Config : d # c => holder'[d] = holder[d],
           holder'[c] \in {t, Nobody},
           holder'[c] = holder[c] \/ Still(t, c),
           \A o \in Object : locked'[o] => holder'[Whose(o)] # Nobody
    PROVE  Shape' /\ Apart'
<1>1. PICK to : /\ Goes(t, to)
                /\ AtWork(to) /\ to.on = c
                /\ to.sync \in BOOLEAN /\ (to.sync = TRUE => Still(t, c))
  BY DEF BeginsOn
<1>2. /\ DOMAIN task' = Thread /\ task'[t] = to
      /\ \A u \in Thread : u # t => task'[u] = task[u]
  BY <1>1, GoesTo
<1>3. Shape'  BY <1>1, <1>2, SMT DEF Shape
<1>4. \A u \in Thread : u # t => (Busy(u)' <=> Busy(u))
  BY <1>2, Zenon DEF Busy
<1>5. \A u \in Thread : Busy(u) => task[u].on \in Config
  BY WorkIsBusy, Zenon DEF Shape, Busy
<1>6. Apart'
  <2>1. ASSUME NEW u \in Thread, Busy(u)'
        PROVE  Home[u] = Home[task'[u].on] /\ holder'[task'[u].on] \in {u, Nobody}
    <3>1. CASE u = t  BY <1>1, <1>2, <3>1, Zenon DEF MayUse
    <3>2. CASE u # t /\ task[u].on # c
      BY <1>2, <1>4, <1>5, <2>1, <3>2, Zenon DEF Apart
    <3>3. CASE u # t /\ task[u].on = c
      <4>1. Busy(u) /\ ~Still(t, c)  BY <1>4, <2>1, <3>3, Zenon DEF Still
      <4> QED  BY <1>2, <3>3, <4>1, Zenon DEF Apart
    <3> QED  BY <3>1, <3>2, <3>3
  <2>2. ASSUME NEW u \in Thread, NEW v \in Thread, u # v, Busy(u)', Busy(v)', task'[u].on = task'[v].on
        PROVE  ~task'[u].sync
    <3>1. CASE u # t /\ v # t
      <4>1. task'[u] = task[u] /\ task'[v] = task[v] /\ Busy(u) /\ Busy(v)
        BY <1>2, <1>4, <2>2, <3>1
      <4>2. task[u].on = task[v].on  BY <2>2, <4>1
      <4>3. ~task[u].sync  BY <2>2, <4>1, <4>2, Zenon DEF Apart
      <4> QED  BY <4>1, <4>3
    <3>2. CASE v = t
      BY <1>1, <1>2, <1>4, <2>2, <3>2, Zenon DEF MayUse
    <3>3. CASE u = t
      <4>1. Busy(v) /\ task[v].on = c /\ v # t  BY <1>1, <1>2, <1>4, <2>2, <3>3, Zenon
      <4>2. ~Still(t, c)  BY <4>1, Zenon DEF Still
      <4> QED  BY <1>1, <1>2, <3>3, <4>2, Zenon
    <3> QED  BY <3>1, <3>2, <3>3
  <2> QED  BY <2>1, <2>2, Zenon DEF Apart
<1> QED  BY <1>3, <1>6

LEMMA CallsMayUse ==
    ASSUME "overlap" \notin Quirks, NEW t \in Thread, NEW o \in Object, NEW name, Call(t, o, name)
    PROVE  MayUse(t, Whose(o))
BY Zenon DEF Call, MayUse, Alone, Unheld

LEMMA SameHolders ==
    ASSUME Shape, Apart, NEW t \in Thread, NEW c \in Config, MayUse(t, c), UNCHANGED <<holder, locked>>
    PROVE  /\ DOMAIN holder' = Config /\ locked' \in [Object -> BOOLEAN]
           /\ \A d \in Config : d # c => holder'[d] = holder[d]
           /\ holder'[c] \in {t, Nobody} /\ holder'[c] = holder[c]
           /\ \A o \in Object : locked'[o] => holder'[Whose(o)] # Nobody
BY Zenon DEF Shape, Apart, MayUse

\* The calls that leave work to be done.
LEMMA CallsBegin ==
    ASSUME NEW t \in Thread, NEW o \in Object, Set(t, o) \/ Clear(t, o) \/ Import(t, o)
    PROVE  (\E name : Call(t, o, name)) /\ UNCHANGED <<holder, locked>>
           /\ (BeginsOn(t, Whose(o)) \/ (Goes(t, Idle) /\ ~Busy(t)))
<1>1. CASE Set(t, o)
  <2>1. PICK set : Goes(t, [at |-> "commit", on |-> Whose(o), of |-> o, set |-> set, sync |-> FALSE])
    BY <1>1, Zenon DEF Set, PutEntries
  <2> DEFINE to == [at |-> "commit", on |-> Whose(o), of |-> o, set |-> set, sync |-> FALSE]
  <2>2. AtWork(to) /\ to.on = Whose(o) /\ to.sync = FALSE  BY CommitTask, Zenon DEF AtWork
  <2>3. Goes(t, to)  BY <2>1
  <2> HIDE DEF to
  <2>4. BeginsOn(t, Whose(o))  BY <2>2, <2>3, Zenon DEF BeginsOn
  <2> QED  BY <1>1, <2>4, Zenon DEF Set
<1>2. CASE Clear(t, o)
  <2> DEFINE to == [at |-> "remove", on |-> Whose(o), next |-> Idle, sync |-> FALSE]
  <2>1. Goes(t, to) \/ Goes(t, Idle)  BY <1>2, Zenon DEF Clear, ClearKeys
  <2>2. AtWork(to) /\ to.on = Whose(o) /\ to.sync = FALSE
    BY ObjectIs, RemoveTask, Zenon DEF AtWork
  <2> HIDE DEF to
  <2>3. BeginsOn(t, Whose(o)) \/ Goes(t, Idle)  BY <2>1, <2>2, Zenon DEF BeginsOn
  <2> QED  BY <1>2, <2>3, Zenon DEF Clear, ClearKeys, Call
<1>3. CASE Import(t, o)
  <2>1. PICK new, replace :
          \/ Goes(t, [at |-> "remove", on |-> Whose(o), next |-> Importing(o, new, replace), sync |-> FALSE])
          \/ Goes(t, Importing(o, new, replace))
    BY <1>3, Zenon DEF Import, ClearKeys
  <2> DEFINE next == Importing(o, new, replace)
             to == [at |-> "remove", on |-> Whose(o), next |-> next, sync |-> FALSE]
  <2>2. Goes(t, to) \/ Goes(t, next)  BY <2>1
  <2>3. AtImport(next) /\ next.on = Whose(o) /\ next.sync = FALSE  BY ImportTask, Zenon
  <2> HIDE DEF next
  <2>4. AtRemove(to) /\ to.on = Whose(o) /\ to.sync = FALSE
    BY <2>3, ObjectIs, RemoveTask, Zenon
  <2> HIDE DEF to
  <2>5. BeginsOn(t, Whose(o))  BY <2>2, <2>3, <2>4, Zenon DEF BeginsOn, AtWork
  <2> QED  BY <1>3, <2>5, Zenon DEF Import, ClearKeys
<1> QED  BY <1>1, <1>2, <1>3

(***************************************************************************)
(* What a thread writes is what the configuration holds.                   *)
(***************************************************************************)
Writing(s) == s.at = "write" \/ (s.at = "save" /\ s.whole = FALSE)

Content ==
    /\ DOMAIN mem = Config /\ DOMAIN unsaved = Config
    /\ \A c \in Config : unsaved[c] \subseteq DOMAIN mem[c]
    /\ \A t \in Thread : Writing(task[t]) => task[t].map = mem[task[t].on]

NoWriterBut(t, c) == \A u \in Thread \ {t} : Writing(task[u]) => task[u].on # c

LEMMA WritersAtWork ==
    ASSUME Shape, NEW t \in Thread, Writing(task[t])
    PROVE  Busy(t) /\ AtSave(task[t]) /\ (task[t].at = "save" => task[t].sync = TRUE)
BY SMT DEF Shape, Writing, Busy, Idle, AtWork, AtImport, AtCommit, AtSave, AtRemove, AtSync

LEMMA OthersDoNotWrite ==
    ASSUME Shape, Apart, NEW t \in Thread, NEW c \in Config, MapFree(t, c),
           MayUse(t, c) \/ (Busy(t) /\ task[t].on = c)
    PROVE  NoWriterBut(t, c)
<1> SUFFICES ASSUME NEW u \in Thread \ {t}, Writing(task[u]), task[u].on = c PROVE FALSE
  BY DEF NoWriterBut
<1>1. Busy(u) /\ AtSave(task[u]) /\ (task[u].at = "save" => task[u].sync = TRUE)
  BY WritersAtWork
<1>2. task[u].sync = TRUE
  BY <1>1, Zenon DEF MapFree, AtSave, Writing
<1>3. CASE MayUse(t, c)  BY <1>1, <1>2, <1>3, Zenon DEF MayUse
<1>4. CASE Busy(t) /\ task[t].on = c  BY <1>1, <1>2, <1>4, Zenon DEF Apart
<1> QED  BY <1>3, <1>4

\* Steps that leave the entries alone, and steps that change those of one configuration.
LEMMA ContentStays ==
    ASSUME Shape, Content, NEW t \in Thread, NEW to, Goes(t, to),
           mem' = mem, Writing(to) => to.map = mem[to.on],
           DOMAIN unsaved' = Config, \A c \in Config : unsaved'[c] \subseteq unsaved[c]
    PROVE  Content'
<1>1. /\ DOMAIN task' = Thread /\ task'[t] = to
      /\ \A u \in Thread : u # t => task'[u] = task[u]
  BY GoesTo
<1>2. ASSUME NEW u \in Thread, Writing(task'[u]) PROVE task'[u].map = mem'[task'[u].on]
  <2>1. CASE u = t  BY <1>1, <1>2, <2>1
  <2>2. CASE u # t  BY <1>1, <1>2, <2>2 DEF Content
  <2> QED  BY <2>1, <2>2
<1>3. ASSUME NEW c \in Config PROVE unsaved'[c] \subseteq DOMAIN mem'[c]
  BY <1>3, Zenon DEF Content
<1> QED  BY <1>2, <1>3, Zenon DEF Content

LEMMA ContentChanges ==
    ASSUME Shape, Content, NEW t \in Thread, NEW c \in Config, NEW m, NoWriterBut(t, c),
           mem' = [mem EXCEPT ![c] = m],
           \/ \E to : Goes(t, to) /\ (Writing(to) => to.on = c /\ to.map = m)
           \/ task' = task /\ ~Writing(task[t]),
           DOMAIN unsaved' = Config, unsaved'[c] \subseteq DOMAIN m,
           \A d \in Config : d # c => unsaved'[d] = unsaved[d]
    PROVE  Content'
<1>1. PICK to : /\ DOMAIN task' = Thread /\ task'[t] = to
                /\ \A u \in Thread : u # t => task'[u] = task[u]
                /\ Writing(to) => to.on = c /\ to.map = m
  <2>1. CASE \E to : Goes(t, to) /\ (Writing(to) => to.on = c /\ to.map = m)
    BY <2>1, GoesTo, Zenon
  <2>2. CASE task' = task /\ ~Writing(task[t])
    BY <2>2, Zenon DEF Shape
  <2> QED  BY <2>1, <2>2
<1>2. DOMAIN mem' = Config /\ mem'[c] = m /\ \A d \in Config : d # c => mem'[d] = mem[d]
  BY SMT DEF Content
<1>3. ASSUME NEW u \in Thread, Writing(task'[u]) PROVE task'[u].map = mem'[task'[u].on]
  <2>1. CASE u = t  BY <1>1, <1>2, <1>3, <2>1
  <2>2. CASE u # t
    <3>1. Writing(task[u]) /\ task'[u] = task[u]  BY <1>1, <1>3, <2>2
    <3>2. task[u].on # c  BY <2>2, <3>1 DEF NoWriterBut
    <3>3. task[u].on \in Config  BY <3>1, WritersAtWork, Zenon DEF AtSave
    <3> QED  BY <1>2, <3>1, <3>2, <3>3, Zenon DEF Content
  <2> QED  BY <2>1, <2>2
<1>4. ASSUME NEW d \in Config PROVE unsaved'[d] \subseteq DOMAIN mem'[d]
  BY <1>2, <1>4, Zenon DEF Content
<1> QED  BY <1>2, <1>3, <1>4, Zenon DEF Content

(***************************************************************************)
(* What is put into a configuration is due to be written.                  *)
(***************************************************************************)
Writes(t, c) == task[t].at \in {"commit", "mark", "save", "write"} /\ task[t].on = c
Marked(c)    == \E o \in Object : Whose(o) = c /\ locked[o] /\ changed[o]
Pending(c)   == (\E t \in Thread : Writes(t, c)) \/ Marked(c)

Due ==
    /\ changed \in [Object -> BOOLEAN]
    /\ \A t \in Thread : task[t].at = "mark" => locked[task[t].of]
    /\ \A c \in Config : unsaved[c] # {} => Pending(c)

\* A thread that goes on writes, or has marked the object.
LEMMA DueStays ==
    ASSUME Shape, Due, NEW t \in Thread, NEW to, Goes(t, to), locked' = locked,
           changed' \in [Object -> BOOLEAN], \A o \in Object : changed[o] => changed'[o],
           to.at = "mark" => locked[to.of],
           \A c \in Config : Writes(t, c) =>
               \/ to.on = c /\ to.at \in {"commit", "mark", "save", "write"}
               \/ unsaved'[c] = {}
               \/ \E o \in Object : Whose(o) = c /\ locked[o] /\ changed'[o],
           \A c \in Config : \/ unsaved'[c] \subseteq unsaved[c]
                             \/ to.on = c /\ to.at \in {"commit", "mark", "save", "write"}
    PROVE  Due'
<1>1. /\ DOMAIN task' = Thread /\ task'[t] = to
      /\ \A u \in Thread : u # t => task'[u] = task[u]
  BY GoesTo
<1>2. \A u \in Thread : task'[u].at = "mark" => locked'[task'[u].of]
  BY <1>1, Zenon DEF Due
<1>3. ASSUME NEW c \in Config, unsaved'[c] # {} PROVE Pending(c)'
  <2>1. CASE to.on = c /\ to.at \in {"commit", "mark", "save", "write"}
    BY <1>1, <2>1, Zenon DEF Pending, Writes
  <2>2. CASE ~(to.on = c /\ to.at \in {"commit", "mark", "save", "write"})
    <3>1. unsaved[c] # {}  BY <1>3, <2>2, Zenon
    <3>2. Pending(c)  BY <3>1, Zenon DEF Due
    <3>3. CASE Marked(c)  BY <3>3, Zenon DEF Marked, Pending
    <3>4. CASE Writes(t, c)  BY <1>3, <2>2, <3>4, Zenon DEF Marked, Pending
    <3>5. ASSUME NEW u \in Thread, u # t, Writes(u, c) PROVE Pending(c)'
      BY <1>1, <3>5, Zenon DEF Writes, Pending
    <3> QED  BY <3>2, <3>3, <3>4, <3>5, Zenon DEF Pending
  <2> QED  BY <2>1, <2>2
<1> QED  BY <1>2, <1>3, Zenon DEF Due

(***************************************************************************)
(* A configuration that loads the file has changed nothing of its own.     *)
(***************************************************************************)
Fresh ==
    /\ now \in Nat /\ timeLoaded \in [Config -> Nat] /\ timeModified \in [Config -> Nat]
    /\ \A t \in Thread : task[t].at = "load" => timeModified[task[t].on] <= timeLoaded[task[t].on]

LEMMA FreshStays ==
    ASSUME Shape, Fresh, NEW t \in Thread, NEW to, Goes(t, to), UNCHANGED <<now, timeLoaded, timeModified>>,
           to.at = "load" => timeModified[to.on] <= timeLoaded[to.on]
    PROVE  Fresh'
BY GoesTo, Zenon DEF Fresh

LEMMA FreshChanges ==
    ASSUME Shape, Apart, Fresh, NEW t \in Thread, NEW c \in Config, MayUse(t, c),
           task' = task \/ \E to : Goes(t, to) /\ to.at # "load",
           UNCHANGED <<now, timeLoaded>>, timeModified' \in [Config -> Nat],
           \A d \in Config : d # c => timeModified'[d] = timeModified[d]
    PROVE  Fresh'
<1> SUFFICES ASSUME NEW u \in Thread, task'[u].at = "load"
             PROVE  timeModified'[task'[u].on] <= timeLoaded'[task'[u].on]
  BY Zenon DEF Fresh
<1>1. CASE u = t /\ task' # task  BY <1>1, GoesTo, Zenon
<1>2. CASE u # t \/ task' = task
  <2>1. task'[u] = task[u]  BY <1>2, GoesTo, Zenon
  <2>2. Busy(u) /\ task[u].on \in Config /\ task[u].sync = TRUE
    BY <2>1, SMT DEF Shape, Busy, Idle, AtWork, AtImport, AtCommit, AtSave, AtRemove, AtSync
  <2>3. task[u].on # c  BY <2>2, Zenon DEF MayUse
  <2> QED  BY <2>1, <2>2, <2>3, Zenon DEF Fresh
<1> QED  BY <1>1, <1>2

ConfigInv == Shape /\ Apart /\ Content /\ Due /\ Fresh

(***************************************************************************)
(* The steps of a thread.                                                  *)
(***************************************************************************)
\* What the tasks of the labels look like.
LEMMA TaskAt ==
    ASSUME Shape, NEW t \in Thread
    PROVE  /\ task[t].at # "idle" => Busy(t)
           /\ Busy(t) => AtWork(task[t])
           /\ task[t].at \in {"save", "write"} => AtSave(task[t])
           /\ task[t].at \in {"commit", "mark"} => AtCommit(task[t])
           /\ task[t].at = "import" => AtImport(task[t])
           /\ task[t].at = "remove" => AtRemove(task[t])
           /\ task[t].at \in {"load", "merge", "ours"} => AtSync(task[t])
BY SMT DEF Shape, Busy, Idle, AtWork, AtImport, AtCommit, AtSave, AtRemove, AtSync

\* What is written is what the configuration holds.
LEMMA WritesItsEntries ==
    ASSUME Content, NEW t \in Thread, AtSave(task[t]), task[t].at = "save"
    PROVE  ToWrite(task[t]) = mem[task[t].on]
<1>1. CASE task[t].whole = TRUE  BY <1>1, Zenon DEF ToWrite
<1>2. CASE task[t].whole = FALSE
  BY <1>2, Zenon DEF Content, Writing, ToWrite
<1> QED  BY <1>1, <1>2, Zenon DEF AtSave

\* Once the entries are handed over nothing is left to be written.
LEMMA NothingLeft ==
    ASSUME Content, NEW c \in Config, unsaved' = [unsaved EXCEPT ![c] = @ \ DOMAIN mem[c]]
    PROVE  /\ DOMAIN unsaved' = Config /\ \A d \in Config : unsaved'[d] \subseteq unsaved[d]
           /\ unsaved'[c] = {}
<1>1. unsaved[c] \subseteq DOMAIN mem[c] /\ DOMAIN unsaved = Config  BY Zenon DEF Content
<1>2. /\ DOMAIN unsaved' = Config /\ unsaved'[c] = unsaved[c] \ DOMAIN mem[c]
      /\ \A d \in Config : d # c => unsaved'[d] = unsaved[d]
  BY <1>1, SMT
<1>3. unsaved'[c] = {}  BY <1>1, <1>2, Zenon
<1> QED  BY <1>2, <1>3, Zenon

LEMMA OpenFileKeeps ==
    ASSUME ConfigInv, NEW t \in Thread, OpenFile(t)
    PROVE  Content' /\ Due' /\ Fresh'
<1>1. Shape /\ Content /\ Due /\ Fresh /\ AtSave(task[t]) /\ task[t].at = "save" /\ task[t].on \in Config
  BY TaskAt, Zenon DEF ConfigInv, OpenFile, AtSave
<1>2. PICK to : /\ Goes(t, to) /\ to.at = "write" /\ to.on = task[t].on
                /\ to.map = ToWrite(task[t])
  BY SMT DEF OpenFile
<1>3. to.map = mem[to.on]  BY <1>1, <1>2, WritesItsEntries
<1>4. Content'  BY <1>1, <1>2, <1>3, ContentStays, Zenon DEF OpenFile, Content
<1>5. Due'
  BY <1>1, <1>2, DueStays, Zenon DEF OpenFile, Writes, Due
<1>6. Fresh'  BY <1>1, <1>2, FreshStays, Zenon DEF OpenFile
<1> QED  BY <1>4, <1>5, <1>6

LEMMA OpenRefusedKeeps ==
    ASSUME ConfigInv, NEW t \in Thread, OpenRefused(t)
    PROVE  Content' /\ Due' /\ Fresh'
<1>1. /\ Shape /\ Content /\ Due /\ Fresh /\ AtSave(task[t]) /\ task[t].at = "save"
      /\ task[t].on \in Config /\ Goes(t, Idle) /\ Idle.at = "idle"
  BY TaskAt, Zenon DEF ConfigInv, OpenRefused, AtSave, Idle
<1>2. unsaved' = [unsaved EXCEPT ![task[t].on] = @ \ DOMAIN mem[task[t].on]]
  BY <1>1, WritesItsEntries, Zenon DEF OpenRefused
<1>3. /\ DOMAIN unsaved' = Config /\ \A c \in Config : unsaved'[c] \subseteq unsaved[c]
      /\ unsaved'[task[t].on] = {}
  BY <1>1, <1>2, NothingLeft
<1>4. Content'  BY <1>1, <1>3, ContentStays, Zenon DEF OpenRefused, Writing
<1>5. Due'  BY <1>1, <1>3, DueStays, Zenon DEF OpenRefused, Writes, Due
<1>6. Fresh'  BY <1>1, FreshStays, Zenon DEF OpenRefused
<1> QED  BY <1>4, <1>5, <1>6

LEMMA WriteFileKeeps ==
    ASSUME ConfigInv, NEW t \in Thread, WriteFile(t)
    PROVE  Content' /\ Due' /\ Fresh'
<1>1. /\ Shape /\ Content /\ Due /\ Fresh /\ task[t].at = "write" /\ task[t].on \in Config
      /\ Goes(t, Idle) /\ Idle.at = "idle"
  BY TaskAt, Zenon DEF ConfigInv, WriteFile, AtSave, Idle
<1>2. /\ DOMAIN unsaved' = Config /\ \A c \in Config : unsaved'[c] \subseteq unsaved[c]
      /\ unsaved'[task[t].on] = {}
  <2> DEFINE c == task[t].on
  <2>1. task[t].map = mem[c]  BY <1>1, Zenon DEF Content, Writing
  <2>2. unsaved' = [unsaved EXCEPT ![c] = {k \in @ : k \notin DOMAIN mem[c]}]
    BY <2>1, Zenon DEF WriteFile
  <2>3. unsaved[c] \subseteq DOMAIN mem[c] /\ DOMAIN unsaved = Config  BY <1>1, Zenon DEF Content
  <2> HIDE DEF c
  <2>4. c \in Config  BY <1>1 DEF c
  <2>5. /\ DOMAIN unsaved' = Config /\ unsaved'[c] = {k \in unsaved[c] : k \notin DOMAIN mem[c]}
        /\ \A d \in Config : d # c => unsaved'[d] = unsaved[d]
    BY <2>2, <2>3, <2>4, SMT
  <2>6. unsaved'[c] = {}  BY <2>3, <2>5, Zenon
  <2> QED  BY <2>5, <2>6, Zenon DEF c
<1>3. Content'  BY <1>1, <1>2, ContentStays, Zenon DEF WriteFile, Writing
<1>4. Due'  BY <1>1, <1>2, DueStays, Zenon DEF WriteFile, Writes, Due
<1>5. Fresh'  BY <1>1, FreshStays, Zenon DEF WriteFile
<1> QED  BY <1>3, <1>4, <1>5

LEMMA CommitKeeps ==
    ASSUME ConfigInv, NEW t \in Thread, Commit(t)
    PROVE  Content' /\ Due' /\ Fresh'
<1>1. Shape /\ Content /\ Due /\ Fresh /\ AtCommit(task[t])
  BY TaskAt, Zenon DEF ConfigInv, Commit
<1>2. PICK to : /\ Goes(t, to) /\ to.on = task[t].on
                /\ \/ to.at = "mark" /\ to.of = task[t].of /\ locked[to.of]
                   \/ to.at = "save" /\ to.whole = TRUE
  <2> DEFINE m == [task[t] EXCEPT !.at = "mark"]
             v == [Saving(task[t].on) EXCEPT !.set = task[t].set]
  <2>1. m.at = "mark" /\ m.on = task[t].on /\ m.of = task[t].of
    BY <1>1, SMT DEF AtCommit
  <2>2. v.at = "save" /\ v.on = task[t].on /\ v.whole = TRUE
    BY SMT DEF Saving
  <2>3. (locked[task[t].of] /\ Goes(t, m)) \/ Goes(t, v)
    BY Zenon DEF Commit
  <2> HIDE DEF m, v
  <2> QED  BY <2>1, <2>2, <2>3, Zenon
<1>3. Content'  BY <1>1, <1>2, ContentStays, Zenon DEF Commit, Writing, Content
<1>4. Due'  BY <1>1, <1>2, DueStays, Zenon DEF Commit, Writes, Due
<1>5. Fresh'  BY <1>1, <1>2, FreshStays, Zenon DEF Commit
<1> QED  BY <1>3, <1>4, <1>5

LEMMA MarkChangedKeeps ==
    ASSUME ConfigInv, NEW t \in Thread, MarkChanged(t)
    PROVE  Content' /\ Due' /\ Fresh'
<1>1. /\ Shape /\ Content /\ Due /\ Fresh /\ task[t].at = "mark" /\ AtCommit(task[t])
      /\ Goes(t, Idle) /\ Idle.at = "idle"
  BY TaskAt, Zenon DEF ConfigInv, MarkChanged, Idle
<1>2. locked[task[t].of] /\ task[t].of \in Object /\ Whose(task[t].of) = task[t].on
  BY <1>1, Zenon DEF Due, AtCommit
<1>3. /\ changed' \in [Object -> BOOLEAN] /\ changed'[task[t].of]
      /\ \A o \in Object : changed[o] => changed'[o]
  BY <1>1, <1>2, SMT DEF MarkChanged, Due
<1>4. Content'  BY <1>1, ContentStays, Zenon DEF MarkChanged, Writing, Content
<1>5. Due'  BY <1>1, <1>2, <1>3, DueStays, Zenon DEF MarkChanged, Writes
<1>6. Fresh'  BY <1>1, FreshStays, Zenon DEF MarkChanged
<1> QED  BY <1>4, <1>5, <1>6

LEMMA RemoveFileKeeps ==
    ASSUME ConfigInv, NEW t \in Thread, RemoveFile(t)
    PROVE  Content' /\ Due' /\ Fresh'
<1>1. /\ Shape /\ Content /\ Due /\ Fresh /\ task[t].at = "remove" /\ AtRemove(task[t])
      /\ Goes(t, task[t].next)
  BY TaskAt, Zenon DEF ConfigInv, RemoveFile
<1>2. task[t].next.at \in {"idle", "import"}
  BY <1>1, SMT DEF AtRemove, AtImport, Idle
<1>3. Content'  BY <1>1, <1>2, ContentStays, Zenon DEF RemoveFile, Writing, Content
<1>4. Due'  BY <1>1, <1>2, DueStays, Zenon DEF RemoveFile, Writes, Due
<1>5. Fresh'  BY <1>1, <1>2, FreshStays, Zenon DEF RemoveFile
<1> QED  BY <1>3, <1>4, <1>5

\* Entries that are put into a configuration are committed by the thread that puts them.
LEMMA PutKeeps ==
    ASSUME Shape, Apart, Content, Due, NEW t \in Thread, NEW o \in Object, NEW new, NEW set,
           PutEntries(t, o, new, set), NoWriterBut(t, Whose(o)),
           ~Busy(t) \/ (task[t].at = "import" /\ task[t].on = Whose(o)),
           UNCHANGED <<locked, changed>>
    PROVE  Content' /\ Due'
<1> DEFINE c  == Whose(o)
           to == [at |-> "commit", on |-> c, of |-> o, set |-> set, sync |-> FALSE]
           m  == PutOn(mem[c], new)
<1>1. c \in Config  BY ObjectIs
<1>2. DOMAIN mem = Config /\ DOMAIN unsaved = Config /\ unsaved[c] \subseteq DOMAIN mem[c]
  BY <1>1, Zenon DEF Content
<1>3. /\ mem' = [mem EXCEPT ![c] = m]
      /\ unsaved' = [unsaved EXCEPT ![c] = unsaved[c] \cup DOMAIN new]
      /\ Goes(t, to)
  BY Zenon DEF PutEntries
<1>4. DOMAIN m = DOMAIN mem[c] \cup DOMAIN new  BY DEF PutOn
<1>5. to.at = "commit" /\ to.on = c  OBVIOUS
<1> HIDE DEF to, m, c
<1>6. /\ DOMAIN unsaved' = Config /\ unsaved'[c] = unsaved[c] \cup DOMAIN new
      /\ \A d \in Config : d # c => unsaved'[d] = unsaved[d]
  BY <1>1, <1>2, <1>3, SMT
<1>7. unsaved'[c] \subseteq DOMAIN m  BY <1>2, <1>4, <1>6, Zenon
<1>8. NoWriterBut(t, c)  BY DEF c
<1>9. Content'  BY <1>1, <1>3, <1>5, <1>6, <1>7, <1>8, ContentChanges, Zenon DEF Writing
<1>10. task[t].at \in {"idle", "import"}
  BY SMT DEF Busy, Idle
<1>11. \A d \in Config : ~Writes(t, d)  BY <1>10, Zenon DEF Writes
<1>12. Due'
  <2>1. changed' \in [Object -> BOOLEAN] /\ \A p \in Object : changed[p] => changed'[p]
    BY Zenon DEF Due
  <2>2. \A d \in Config : \/ unsaved'[d] \subseteq unsaved[d]
                          \/ to.on = d /\ to.at \in {"commit", "mark", "save", "write"}
    BY <1>5, <1>6, Zenon
  <2> QED  BY <1>3, <1>5, <1>11, <2>1, <2>2, DueStays, Zenon
<1> QED  BY <1>9, <1>12

LEMMA ImportEntriesKeeps ==
    ASSUME ConfigInv, NEW t \in Thread, ImportEntries(t)
    PROVE  Content' /\ Due' /\ Fresh'
<1>1. /\ Shape /\ Apart /\ Content /\ Due /\ Fresh /\ AtImport(task[t]) /\ task[t].at = "import"
      /\ Busy(t)
  BY TaskAt, SMT DEF ConfigInv, ImportEntries
<1>2. task[t].of \in Object /\ Whose(task[t].of) = task[t].on /\ task[t].on \in Config
  BY <1>1, Zenon DEF AtImport
<1>3. NoWriterBut(t, task[t].on)
  BY <1>1, <1>2, OthersDoNotWrite, Zenon DEF ImportEntries
<1>4. PICK put : PutEntries(t, task[t].of, put, {})
  BY Zenon DEF ImportEntries
<1>5. Content' /\ Due'
  BY <1>1, <1>2, <1>3, <1>4, PutKeeps, Zenon DEF ImportEntries
<1>6. Fresh'
  <2>1. PICK to : Goes(t, to) /\ to.at = "commit"  BY <1>4, SMT DEF PutEntries
  <2> QED  BY <1>1, <2>1, FreshStays, Zenon DEF ImportEntries
<1> QED  BY <1>5, <1>6

LEMMA LoadFileKeeps ==
    ASSUME ConfigInv, NEW t \in Thread, LoadFile(t)
    PROVE  Content' /\ Due' /\ Fresh'
<1> DEFINE c == task[t].on
<1>1. /\ Shape /\ Apart /\ Content /\ Due /\ Fresh /\ AtSync(task[t]) /\ task[t].at = "load" /\ Busy(t)
      /\ c \in Config /\ Goes(t, Idle) /\ Idle.at = "idle"
  BY TaskAt, Zenon DEF ConfigInv, LoadFile, AtSync, Idle
<1>2. DOMAIN mem = Config /\ DOMAIN unsaved = Config  BY <1>1 DEF Content
<1>3. NoWriterBut(t, c)  BY <1>1, OthersDoNotWrite, Zenon DEF LoadFile
<1> HIDE DEF c
<1>4. CASE UNCHANGED <<mem, unsaved>>
  <2>1. Content'  BY <1>1, <1>4, ContentStays, Zenon DEF Writing, Content
  <2>2. Due'  BY <1>1, <1>4, DueStays, Zenon DEF LoadFile, Writes, Due
  <2> QED  BY <2>1, <2>2, <1>1, FreshStays, Zenon DEF LoadFile
<1>5. CASE mem' = [mem EXCEPT ![c] = Loads] /\ unsaved' = [unsaved EXCEPT ![c] = {}]
  <2>1. /\ DOMAIN unsaved' = Config /\ unsaved'[c] = {}
        /\ \A d \in Config : d # c => unsaved'[d] = unsaved[d]
    BY <1>1, <1>2, <1>5, SMT
  <2>2. Content'  BY <1>1, <1>3, <1>5, <2>1, ContentChanges, Zenon DEF Writing
  <2>3. Due'  BY <1>1, <1>5, <2>1, DueStays, Zenon DEF LoadFile, Writes, Due
  <2> QED  BY <2>2, <2>3, <1>1, FreshStays, Zenon DEF LoadFile
<1> QED  BY <1>4, <1>5, Zenon DEF LoadFile, c

LEMMA MergingKeeps ==
    ASSUME ConfigInv, NEW t \in Thread, MergeFile(t)
    PROVE  Content' /\ Due' /\ Fresh'
<1>1. /\ Shape /\ Content /\ Due /\ Fresh /\ AtSync(task[t]) /\ task[t].at = "merge"
  BY TaskAt, Zenon DEF ConfigInv, MergeFile
<1>2. PICK to : Goes(t, to) /\ to.at \in {"ours", "idle"}
  BY SMT DEF MergeFile, Idle
<1>3. Content'  BY <1>1, <1>2, ContentStays, Zenon DEF MergeFile, Writing, Content
<1>4. Due'  BY <1>1, <1>2, DueStays, Zenon DEF MergeFile, Writes, Due
<1>5. Fresh'  BY <1>1, <1>2, FreshStays, Zenon DEF MergeFile
<1> QED  BY <1>3, <1>4, <1>5

LEMMA MergedDomain ==
    ASSUME NEW ours, NEW theirs
    PROVE  /\ DOMAIN Merged(ours, theirs) = DOMAIN theirs \cup DOMAIN ours
           /\ \A k \in DOMAIN ours : Merged(ours, theirs)[k] = ours[k]
BY Zenon DEF Merged, PutOn

LEMMA MergeOursKeeps ==
    ASSUME ConfigInv, NEW t \in Thread, MergeOurs(t)
    PROVE  Content' /\ Due' /\ Fresh'
<1> DEFINE c   == task[t].on
           map == Merged(mem[c], task[t].map)
           to  == [at |-> "save", on |-> c, whole |-> FALSE, set |-> {}, sync |-> TRUE, map |-> map]
<1>1. /\ Shape /\ Apart /\ Content /\ Due /\ Fresh /\ AtSync(task[t]) /\ task[t].at = "ours" /\ Busy(t)
      /\ c \in Config
  BY TaskAt, Zenon DEF ConfigInv, MergeOurs, AtSync
<1>2. Goes(t, to) /\ mem' = [mem EXCEPT ![c] = map]  BY Zenon DEF MergeOurs
<1>3. NoWriterBut(t, c)  BY <1>1, OthersDoNotWrite, Zenon DEF MergeOurs
<1>4. unsaved[c] \subseteq DOMAIN map
  <2>1. unsaved[c] \subseteq DOMAIN mem[c]  BY <1>1, Zenon DEF Content
  <2>2. DOMAIN map = DOMAIN task[t].map \cup DOMAIN mem[c]  BY MergedDomain
  <2> QED  BY <2>1, <2>2, Zenon
<1>5. to.at = "save" /\ to.on = c /\ to.map = map  OBVIOUS
<1> HIDE DEF c, map, to
<1>6. Content'  BY <1>1, <1>2, <1>3, <1>4, <1>5, ContentChanges, Zenon DEF MergeOurs, Content
<1>7. Due'  BY <1>1, <1>2, <1>5, DueStays, Zenon DEF MergeOurs, Writes, Due
<1>8. Fresh'  BY <1>1, <1>2, <1>5, FreshStays, Zenon DEF MergeOurs
<1> QED  BY <1>6, <1>7, <1>8

LEMMA StepKeeps ==
    ASSUME ConfigInv, NEW t \in Thread, Step(t)
    PROVE  ConfigInv'
<1>1. Busy(t) /\ Continues(t)  BY StepsContinue DEF ConfigInv
<1>2. UNCHANGED <<holder, locked>>
  BY Zenon DEF Step, OpenFile, OpenRefused, WriteFile, Commit, MarkChanged, RemoveFile, ImportEntries,
                    LoadFile, MergeFile, MergeOurs
<1>3. Shape' /\ Apart'  BY <1>1, <1>2, ApartGoesOn DEF ConfigInv
<1>4. Content' /\ Due' /\ Fresh'
  <2>1. CASE OpenFile(t)       BY <2>1, OpenFileKeeps
  <2>2. CASE WriteFile(t)      BY <2>2, WriteFileKeeps
  <2>3. CASE Commit(t)         BY <2>3, CommitKeeps
  <2>4. CASE MarkChanged(t)    BY <2>4, MarkChangedKeeps
  <2>5. CASE RemoveFile(t)     BY <2>5, RemoveFileKeeps
  <2>6. CASE ImportEntries(t)  BY <2>6, ImportEntriesKeeps
  <2>7. CASE LoadFile(t)       BY <2>7, LoadFileKeeps
  <2>8. CASE MergeFile(t)      BY <2>8, MergingKeeps
  <2>9. CASE MergeOurs(t)      BY <2>9, MergeOursKeeps
  <2>10. CASE OpenRefused(t)   BY <2>10, OpenRefusedKeeps
  <2> QED
    BY <2>1, <2>2, <2>3, <2>4, <2>5, <2>6, <2>7, <2>8, <2>9, <2>10, Zenon DEF Step
<1> QED  BY <1>3, <1>4 DEF ConfigInv

(***************************************************************************)
(* The calls.                                                              *)
(***************************************************************************)
LEMMA UsersAreIdle ==
    ASSUME NEW t \in Thread, NEW c, MayUse(t, c)
    PROVE  task[t] = Idle /\ task[t].at = "idle" /\ ~Busy(t)
<1>1. task[t] = Idle  BY DEF MayUse, Busy
<1>2. Idle.at = "idle"  BY DEF Idle
<1> QED  BY <1>1, <1>2 DEF MayUse

\* Other threads write nothing of a configuration that a call changes.
LEMMA CallsChange ==
    ASSUME ConfigInv, "overlap" \notin Quirks, NEW t \in Thread, NEW o \in Object, NEW name,
           Call(t, o, name), MapFree(t, Whose(o))
    PROVE  /\ MayUse(t, Whose(o)) /\ Whose(o) \in Config /\ ~Busy(t) /\ task[t].at = "idle"
           /\ NoWriterBut(t, Whose(o))
<1>1. MayUse(t, Whose(o)) /\ Whose(o) \in Config  BY CallsMayUse, ObjectIs
<1>2. ~Busy(t) /\ task[t].at = "idle"  BY <1>1, UsersAreIdle
<1>3. NoWriterBut(t, Whose(o))  BY <1>1, OthersDoNotWrite DEF ConfigInv
<1> QED  BY <1>1, <1>2, <1>3

\* A call that begins something keeps the threads apart.
LEMMA BeginningKeepsApart ==
    ASSUME Shape, Apart, NEW t \in Thread, NEW c \in Config, MayUse(t, c),
           BeginsOn(t, c) \/ task' = task \/ Goes(t, Idle), UNCHANGED <<holder, locked>>
    PROVE  Shape' /\ Apart'
<1>1. CASE BeginsOn(t, c)
  <2>1. /\ DOMAIN holder' = Config /\ locked' \in [Object -> BOOLEAN]
        /\ \A d \in Config : d # c => holder'[d] = holder[d]
        /\ holder'[c] \in {t, Nobody} /\ holder'[c] = holder[c]
        /\ \A o \in Object : locked'[o] => holder'[Whose(o)] # Nobody
    BY SameHolders
  <2> QED  BY <1>1, <2>1, ApartBegins
<1>2. CASE DOMAIN task' = Thread /\ \A u \in Thread : task'[u] = task[u]
  <2>1. Shape'  BY <1>2, Zenon DEF Shape
  <2>2. \A u \in Thread : (Busy(u)' <=> Busy(u)) /\ task'[u] = task[u]
    BY <1>2, Zenon DEF Busy
  <2>3. ASSUME NEW u \in Thread, Busy(u)'
        PROVE  Home[u] = Home[task'[u].on] /\ holder'[task'[u].on] \in {u, Nobody}
    BY <2>2, <2>3, Zenon DEF Apart
  <2>4. ASSUME NEW u \in Thread, NEW v \in Thread, u # v, Busy(u)', Busy(v)', task'[u].on = task'[v].on
        PROVE  ~task'[u].sync
    <3>1. Busy(u) /\ Busy(v) /\ task[u].on = task[v].on /\ task'[u] = task[u]  BY <2>2, <2>4
    <3>2. ~task[u].sync  BY <2>4, <3>1, Zenon DEF Apart
    <3> QED  BY <3>1, <3>2
  <2>5. \A o \in Object : locked'[o] => holder'[Whose(o)] # Nobody  BY Zenon DEF Apart
  <2>6. Apart'  BY <2>3, <2>4, <2>5, Zenon DEF Apart
  <2> QED  BY <2>1, <2>6
<1>3. CASE Goes(t, Idle)
  <2>1. DOMAIN task' = Thread /\ \A u \in Thread : task'[u] = task[u]
    BY <1>3, UsersAreIdle, GoesTo, Zenon
  <2> QED  BY <1>2, <2>1
<1> QED  BY <1>1, <1>2, <1>3, Zenon DEF Shape

LEMMA SetKeeps ==
    ASSUME ConfigInv, "overlap" \notin Quirks, NEW t \in Thread, NEW o \in Object, Set(t, o)
    PROVE  ConfigInv'
<1>1. PICK k \in KeysOf(o), v \in Value :
        /\ Call(t, o, "set") /\ MapFree(t, Whose(o))
        /\ timeModified' = [timeModified EXCEPT ![Whose(o)] = IF o[2] = "root" THEN now ELSE @]
        /\ PutEntries(t, o, [x \in {k} |-> v], IF o[2] = "root" THEN {k} ELSE {})
        /\ UNCHANGED <<keysDeleted, timeLoaded, locked, changed, file, now, holder, base>>
  BY DEF Set
<1> DEFINE c == Whose(o)
<1>2. MayUse(t, c) /\ c \in Config /\ ~Busy(t) /\ NoWriterBut(t, c)
  BY <1>1, CallsChange
<1>3. Shape /\ Apart /\ Content /\ Due /\ Fresh  BY DEF ConfigInv
<1>4. BeginsOn(t, c) \/ Goes(t, Idle)  BY CallsBegin
<1>5. Shape' /\ Apart'  BY <1>1, <1>2, <1>3, <1>4, BeginningKeepsApart
<1>6. Content' /\ Due'  BY <1>1, <1>2, <1>3, PutKeeps, Zenon
<1>7. Fresh'
  <2>1. PICK to : Goes(t, to) /\ to.at = "commit"  BY <1>1, SMT DEF PutEntries
  <2>2. /\ timeModified' \in [Config -> Nat]
        /\ \A d \in Config : d # c => timeModified'[d] = timeModified[d]
    <3> HIDE DEF c
    <3>1. timeModified' = [timeModified EXCEPT ![c] = now] \/ timeModified' = [timeModified EXCEPT ![c] = @]
      BY <1>1, Zenon DEF c
    <3> QED  BY <1>2, <1>3, <3>1, SMT DEF Fresh
  <2> QED  BY <1>1, <1>2, <1>3, <2>1, <2>2, FreshChanges, Zenon
<1> QED  BY <1>5, <1>6, <1>7 DEF ConfigInv

LEMMA SetDefaultKeeps ==
    ASSUME ConfigInv, "overlap" \notin Quirks, NEW t \in Thread, NEW o \in Object, SetDefault(t, o)
    PROVE  ConfigInv'
<1> DEFINE c == Whose(o)
<1>1. PICK k \in KeysOf(o), v \in Value :
        /\ Call(t, o, "setDefault") /\ MapFree(t, c)
        /\ mem' = [mem EXCEPT ![c] = PutOn([x \in {k} |-> v], mem[c])]
        /\ UNCHANGED <<timeLoaded, timeModified, locked, changed, task, now, holder, unsaved>>
  BY Zenon DEF SetDefault
<1>2. MayUse(t, c) /\ c \in Config /\ task[t].at = "idle" /\ NoWriterBut(t, c)
  BY <1>1, CallsChange
<1>3. Shape /\ Apart /\ Content /\ Due /\ Fresh  BY DEF ConfigInv
<1>4. Shape' /\ Apart'  BY <1>1, <1>2, <1>3, BeginningKeepsApart, Zenon
<1>5. DOMAIN PutOn([x \in {k} |-> v], mem[c]) = {k} \cup DOMAIN mem[c]  BY Zenon DEF PutOn
<1>6. Content'
  <2> DEFINE m == PutOn([x \in {k} |-> v], mem[c])
  <2>1. unsaved[c] \subseteq DOMAIN m /\ DOMAIN unsaved = Config
    BY <1>2, <1>3, <1>5, Zenon DEF Content
  <2>2. mem' = [mem EXCEPT ![c] = m]  BY <1>1
  <2> HIDE DEF m
  <2> QED  BY <1>1, <1>2, <1>3, <2>1, <2>2, ContentChanges, Zenon DEF Writing
<1>7. Due'    BY <1>1, <1>3, Zenon DEF Due, Pending, Writes, Marked
<1>8. Fresh'  BY <1>1, <1>3, Zenon DEF Fresh
<1> QED  BY <1>4, <1>6, <1>7, <1>8 DEF ConfigInv

LEMMA EraseKeeps ==
    ASSUME ConfigInv, "overlap" \notin Quirks, NEW t \in Thread, NEW o \in Object, Erase(t, o)
    PROVE  ConfigInv'
<1> DEFINE c == Whose(o)
<1>1. PICK k \in KeysOf(o) :
        /\ Call(t, o, "erase") /\ MapFree(t, c)
        /\ mem' = [mem EXCEPT ![c] = Without(mem[c], {k})]
        /\ unsaved' = [unsaved EXCEPT ![c] = unsaved[c] \ {k}]
        /\ timeModified' = [timeModified EXCEPT ![c] = now] \/ timeModified' = timeModified
        /\ UNCHANGED <<timeLoaded, locked, changed, task, now, holder>>
  BY Zenon DEF Erase
<1>2. MayUse(t, c) /\ c \in Config /\ task[t].at = "idle" /\ NoWriterBut(t, c)
  BY <1>1, CallsChange
<1>3. Shape /\ Apart /\ Content /\ Due /\ Fresh  BY DEF ConfigInv
<1>4. Shape' /\ Apart'  BY <1>1, <1>2, <1>3, BeginningKeepsApart, Zenon
<1> HIDE DEF c
<1>5. /\ DOMAIN unsaved' = Config /\ unsaved'[c] = unsaved[c] \ {k}
      /\ \A d \in Config : d # c => unsaved'[d] = unsaved[d]
  BY <1>1, <1>2, <1>3, SMT DEF Content
<1>6. Content'
  <2> DEFINE m == Without(mem[c], {k})
  <2>1. DOMAIN m = DOMAIN mem[c] \ {k}  BY Zenon DEF Without
  <2>2. mem' = [mem EXCEPT ![c] = m]  BY <1>1
  <2>3. unsaved'[c] \subseteq DOMAIN m  BY <1>2, <1>3, <1>5, <2>1, Zenon DEF Content
  <2> HIDE DEF m
  <2> QED  BY <1>1, <1>2, <1>3, <1>5, <2>2, <2>3, ContentChanges, Zenon DEF Writing
<1>7. Due'
  <2>1. \A d \in Config : unsaved'[d] # {} => unsaved[d] # {}  BY <1>5, Zenon
  <2> QED  BY <1>1, <1>3, <2>1, Zenon DEF Due, Pending, Writes, Marked
<1>8. Fresh'
  <2>1. /\ timeModified' \in [Config -> Nat]
        /\ \A d \in Config : d # c => timeModified'[d] = timeModified[d]
    BY <1>1, <1>2, <1>3, SMT DEF Fresh
  <2> QED  BY <1>1, <1>2, <1>3, <2>1, FreshChanges, Zenon
<1> QED  BY <1>4, <1>6, <1>7, <1>8 DEF ConfigInv

\* Keys that are cleared are not written; a root object then removes the file.
LEMMA ClearKeysKeeps ==
    ASSUME ConfigInv, NEW t \in Thread, NEW o \in Object, NEW keys, NEW next,
           MayUse(t, Whose(o)), NoWriterBut(t, Whose(o)), ClearKeys(t, o, keys, next),
           next.at \in {"idle", "import"}
    PROVE  Content' /\ Due' /\ Fresh'
<1> DEFINE c == Whose(o)
<1>1. /\ mem' = [mem EXCEPT ![c] = Without(mem[c], keys)]
      /\ unsaved' = [unsaved EXCEPT ![c] = unsaved[c] \ keys]
      /\ timeModified' = [timeModified EXCEPT ![c] = IF o[2] = "root" THEN now ELSE @]
      /\ UNCHANGED <<timeLoaded, locked, changed, now, holder>>
  BY Zenon DEF ClearKeys
<1>2. PICK to : Goes(t, to) /\ to.at \in {"remove", "idle", "import"}
  BY SMT DEF ClearKeys
<1>3. Shape /\ Apart /\ Content /\ Due /\ Fresh /\ c \in Config /\ MayUse(t, c) /\ NoWriterBut(t, c)
  BY ObjectIs DEF ConfigInv
<1>4. task[t].at = "idle"  BY <1>3, UsersAreIdle
<1> HIDE DEF c
<1>5. /\ DOMAIN unsaved' = Config /\ unsaved'[c] = unsaved[c] \ keys
      /\ \A d \in Config : d # c => unsaved'[d] = unsaved[d]
  BY <1>1, <1>3, SMT DEF Content
<1>6. Content'
  <2> DEFINE m == Without(mem[c], keys)
  <2>1. DOMAIN m = DOMAIN mem[c] \ keys  BY Zenon DEF Without
  <2>2. mem' = [mem EXCEPT ![c] = m]  BY <1>1
  <2>3. unsaved'[c] \subseteq DOMAIN m  BY <1>3, <1>5, <2>1, Zenon DEF Content
  <2> HIDE DEF m
  <2> QED  BY <1>2, <1>3, <1>5, <2>2, <2>3, ContentChanges, Zenon DEF Writing
<1>7. Due'
  <2>1. \A d \in Config : unsaved'[d] \subseteq unsaved[d]  BY <1>5, Zenon
  <2> QED  BY <1>1, <1>2, <1>3, <1>4, <2>1, DueStays, Zenon DEF Writes, Due
<1>8. Fresh'
  <2>1. /\ timeModified' \in [Config -> Nat]
        /\ \A d \in Config : d # c => timeModified'[d] = timeModified[d]
    <3>1. timeModified' = [timeModified EXCEPT ![c] = now] \/ timeModified' = [timeModified EXCEPT ![c] = @]
      BY <1>1, Zenon
    <3> QED  BY <1>3, <3>1, SMT DEF Fresh
  <2>2. to.at # "load"  BY <1>2
  <2> QED  BY <1>1, <1>2, <1>3, <2>1, <2>2, FreshChanges, Zenon
<1> QED  BY <1>6, <1>7, <1>8

LEMMA ClearKeepsIt ==
    ASSUME ConfigInv, "overlap" \notin Quirks, NEW t \in Thread, NEW o \in Object,
           Clear(t, o) \/ Import(t, o)
    PROVE  ConfigInv'
<1> DEFINE c == Whose(o)
<1>1. PICK name : Call(t, o, name) /\ MapFree(t, c)  BY Zenon DEF Clear, Import
<1>2. MayUse(t, c) /\ c \in Config /\ task[t].at = "idle" /\ NoWriterBut(t, c)
  BY <1>1, CallsChange
<1>3. Shape' /\ Apart'
  <2>1. Shape /\ Apart /\ UNCHANGED <<holder, locked>> /\ (BeginsOn(t, c) \/ Goes(t, Idle))
    BY CallsBegin DEF ConfigInv
  <2> QED  BY <1>2, <2>1, BeginningKeepsApart
<1>4. ASSUME NEW keys, NEW next, ClearKeys(t, o, keys, next), next.at \in {"idle", "import"}
      PROVE  Content' /\ Due' /\ Fresh'
  BY <1>2, <1>4, ClearKeysKeeps
<1>5. CASE Clear(t, o)
  <2>1. Idle.at \in {"idle", "import"}  BY SMT DEF Idle
  <2>2. \E keys : ClearKeys(t, o, keys, Idle)  BY <1>5 DEF Clear
  <2> QED  BY <1>3, <1>4, <2>1, <2>2 DEF ConfigInv
<1>6. CASE Import(t, o)
  <2>1. PICK next : /\ next.at = "import"
                    /\ \/ \E keys : ClearKeys(t, o, keys, next)
                       \/ /\ Goes(t, next)
                          /\ UNCHANGED <<mem, timeLoaded, timeModified, locked, changed, now, unsaved>>
    <3>1. \A new, replace : Importing(o, new, replace).at = "import"  BY Zenon DEF Importing
    <3> QED  BY <1>6, <3>1, Zenon DEF Import
  <2>2. CASE \E keys : ClearKeys(t, o, keys, next)
    BY <1>3, <1>4, <2>1, <2>2, SMT DEF ConfigInv
  <2>3. CASE /\ Goes(t, next)
             /\ UNCHANGED <<mem, timeLoaded, timeModified, locked, changed, now, unsaved>>
    <3>1. Shape /\ Content /\ Due /\ Fresh  BY DEF ConfigInv
    <3>2. Content'  BY <2>1, <2>3, <3>1, ContentStays, Zenon DEF Writing, Content
    <3>3. Due'  BY <1>2, <2>1, <2>3, <3>1, DueStays, Zenon DEF Writes, Due
    <3>4. Fresh'  BY <2>1, <2>3, <3>1, FreshStays, Zenon
    <3> QED  BY <1>3, <3>2, <3>3, <3>4 DEF ConfigInv
  <2> QED  BY <2>1, <2>2, <2>3
<1> QED  BY <1>5, <1>6

(***************************************************************************)
(* lock(), unlock() and sync().                                            *)
(***************************************************************************)
LEMMA LockKeeps ==
    ASSUME ConfigInv, "overlap" \notin Quirks, NEW t \in Thread, NEW o \in Object, Lock(t, o)
    PROVE  ConfigInv'
<1> DEFINE c == Whose(o)
<1>1. /\ Call(t, o, "lock") /\ Still(t, c) /\ ~locked[o]
      /\ locked' = [locked EXCEPT ![o] = TRUE] /\ changed' = [changed EXCEPT ![o] = FALSE]
      /\ holder' = [holder EXCEPT ![c] = t]
      /\ UNCHANGED <<mem, timeLoaded, timeModified, task, now, unsaved>>
  BY Zenon DEF Lock
<1>2. MayUse(t, c) /\ c \in Config /\ task[t].at = "idle" /\ ~Busy(t)
  BY <1>1, CallsMayUse, ObjectIs, UsersAreIdle
<1>3. Shape /\ Apart /\ Content /\ Due /\ Fresh  BY DEF ConfigInv
<1>4. /\ DOMAIN holder' = Config /\ holder'[c] = t
      /\ \A d \in Config : d # c => holder'[d] = holder[d]
  <2> HIDE DEF c
  <2> QED  BY <1>1, <1>2, <1>3, SMT DEF Shape
<1>5. /\ locked' \in [Object -> BOOLEAN] /\ locked'[o]
      /\ \A p \in Object : p # o => locked'[p] = locked[p]
  BY <1>1, <1>3, SMT DEF Shape
<1>6. /\ changed' \in [Object -> BOOLEAN]
      /\ \A p \in Object : p # o => changed'[p] = changed[p]
  BY <1>1, <1>3, SMT DEF Due
<1>7. Shape'  BY <1>1, <1>3, <1>4, <1>5, Zenon DEF Shape
<1>8. Apart'
  <2>1. ASSUME NEW u \in Thread, Busy(u)
        PROVE  Home[u] = Home[task[u].on] /\ holder'[task[u].on] \in {u, Nobody}
    <3>1. task[u].on # c  BY <1>1, <1>2, <2>1, Zenon DEF Still
    <3>2. task[u].on \in Config  BY <1>3, <2>1, WorkIsBusy, Zenon DEF Shape, Busy
    <3> QED  BY <1>3, <1>4, <2>1, <3>1, <3>2, Zenon DEF Apart
  <2>2. ASSUME NEW p \in Object, locked'[p] PROVE holder'[Whose(p)] # Nobody
    <3>1. CASE Whose(p) = c  BY <1>4, <3>1, ThreadAssumption, Zenon
    <3>2. CASE Whose(p) # c
      <4>1. p # o /\ Whose(p) \in Config  BY <3>2, ObjectIs
      <4> QED  BY <1>3, <1>4, <1>5, <2>2, <3>2, <4>1, Zenon DEF Apart
    <3> QED  BY <3>1, <3>2
  <2> QED  BY <1>1, <1>3, <2>1, <2>2, Zenon DEF Apart, Busy
<1>9. Content'  BY <1>1, <1>3, Zenon DEF Content, Writing
<1>10. Due'
  <2>1. \A u \in Thread : task[u].at = "mark" => locked'[task[u].of]
    <3>1. \A u \in Thread : task[u].at = "mark" => task[u].of \in Object
      BY <1>3, TaskAt, Zenon DEF AtCommit
    <3> QED  BY <1>3, <1>5, <3>1, Zenon DEF Due
  <2>2. ASSUME NEW d \in Config, unsaved[d] # {} PROVE Pending(d)'
    <3>1. Pending(d)  BY <1>3, <2>2 DEF Due
    <3>2. ASSUME NEW u \in Thread, Writes(u, d) PROVE Pending(d)'
      BY <1>1, <3>2, Zenon DEF Writes, Pending
    <3>3. ASSUME NEW p \in Object, Whose(p) = d, locked[p], changed[p] PROVE Pending(d)'
      <4>1. p # o  BY <1>1, <3>3
      <4>2. locked'[p] /\ changed'[p]  BY <1>5, <1>6, <3>3, <4>1
      <4> QED  BY <3>3, <4>2, Zenon DEF Pending, Marked
    <3> QED  BY <3>1, <3>2, <3>3, Zenon DEF Pending, Marked
  <2> QED  BY <1>1, <1>6, <2>1, <2>2, Zenon DEF Due
<1>11. Fresh'  BY <1>1, <1>3, Zenon DEF Fresh
<1> QED  BY <1>7, <1>8, <1>9, <1>10, <1>11 DEF ConfigInv

LEMMA UnlockKeeps ==
    ASSUME ConfigInv, "overlap" \notin Quirks, NEW t \in Thread, NEW o \in Object, Unlock(t, o)
    PROVE  ConfigInv'
<1> DEFINE c == Whose(o)
<1>1. /\ ~Busy(t) /\ locked[o] /\ Home[t] = Home[c] /\ holder[c] \in {t, Nobody}
      /\ locked' = [locked EXCEPT ![o] = FALSE]
      /\ \/ holder' = [holder EXCEPT ![c] = holder[c]]
            /\ \E p \in Object \ {o} : Whose(p) = c /\ locked[p]
         \/ holder' = [holder EXCEPT ![c] = Nobody]
            /\ \A p \in Object \ {o} : Whose(p) = c => ~locked[p]
      /\ (changed[o] /\ Goes(t, Saving(c))) \/ (~changed[o] /\ task' = task)
      /\ UNCHANGED <<mem, timeLoaded, timeModified, changed, now, unsaved>>
  BY Zenon DEF Unlock, Unheld
<1>2. c \in Config  BY ObjectIs
<1>3. Shape /\ Apart /\ Content /\ Due /\ Fresh  BY DEF ConfigInv
<1>4. holder[c] = t  BY <1>1, <1>3, Zenon DEF Apart
<1>5. Still(t, c)
  <2>1. ASSUME NEW u \in Thread \ {t}, Busy(u), task[u].on = c PROVE FALSE
    BY <1>4, <2>1, <1>3, ThreadAssumption, Zenon DEF Apart
  <2> QED  BY <2>1, Zenon DEF Still
<1>6. MayUse(t, c)  BY <1>1, <1>5, Zenon DEF MayUse, Still
<1>7. /\ DOMAIN holder' = Config /\ holder'[c] \in {t, Nobody}
      /\ \A d \in Config : d # c => holder'[d] = holder[d]
  <2> HIDE DEF c
  <2>1. DOMAIN holder = Config  BY <1>3 DEF Shape
  <2>2. holder' = [holder EXCEPT ![c] = holder[c]] \/ holder' = [holder EXCEPT ![c] = Nobody]
    BY <1>1 DEF c
  <2> QED  BY <1>2, <1>4, <2>1, <2>2, SMT
<1>8. /\ locked' \in [Object -> BOOLEAN] /\ ~locked'[o]
      /\ \A p \in Object : p # o => locked'[p] = locked[p]
  BY <1>1, <1>3, SMT DEF Shape
<1>9. \A p \in Object : locked'[p] => holder'[Whose(p)] # Nobody
  <2>1. SUFFICES ASSUME NEW p \in Object, locked'[p] PROVE holder'[Whose(p)] # Nobody
    OBVIOUS
  <2>2. p # o /\ locked[p] /\ Whose(p) \in Config  BY <1>8, <2>1, ObjectIs
  <2>3. CASE Whose(p) # c  BY <1>3, <1>7, <2>2, <2>3, Zenon DEF Apart
  <2>4. CASE Whose(p) = c
    <3>1. holder' = [holder EXCEPT ![c] = holder[c]]  BY <1>1, <2>2, <2>4, Zenon
    <3>2. holder'[c] = t  
      <4> HIDE DEF c
      <4> QED  BY <1>2, <1>3, <1>4, <3>1, SMT DEF Shape
    <3> QED  BY <2>4, <3>2, ThreadAssumption, Zenon
  <2> QED  BY <2>3, <2>4
<1>10. CASE changed[o] /\ Goes(t, Saving(c))
  <2> DEFINE to == Saving(c)
  <2>1. AtWork(to) /\ to.on = c /\ to.sync = FALSE /\ to.at = "save" /\ to.whole = TRUE
    BY <1>2, SaveTask, Zenon DEF AtWork, Saving
  <2>2. Goes(t, to)  BY <1>10
  <2> HIDE DEF to
  <2>3. BeginsOn(t, c)  BY <2>1, <2>2, Zenon DEF BeginsOn
  <2>4. Shape' /\ Apart'
    <3> HIDE DEF c
    <3> QED  BY <1>2, <1>3, <1>5, <1>6, <1>7, <1>8, <1>9, <2>3, ApartBegins
  <2>5. Content'
    BY <1>1, <1>3, <2>1, <2>2, ContentStays, Zenon DEF Writing, Content
  <2>6. /\ DOMAIN task' = Thread /\ task'[t] = to
        /\ \A u \in Thread : u # t => task'[u] = task[u]
    BY <1>3, <2>2, GoesTo
  <2>7. Due'
    <3>1. ASSUME NEW u \in Thread, task'[u].at = "mark" PROVE locked'[task'[u].of]
      <4>1. u # t /\ task[u].at = "mark" /\ task'[u] = task[u]  BY <2>1, <2>6, <3>1
      <4>2. Busy(u) /\ task[u].of \in Object /\ Whose(task[u].of) = task[u].on
        BY <1>3, <4>1, TaskAt, Zenon DEF AtCommit
      <4>3. task[u].of # o  BY <1>5, <4>1, <4>2, Zenon DEF Still
      <4> QED  BY <1>3, <1>8, <4>1, <4>2, <4>3, Zenon DEF Due
    <3>2. ASSUME NEW d \in Config, unsaved'[d] # {} PROVE Pending(d)'
      <4>1. CASE d = c
        BY <2>1, <2>6, <4>1, Zenon DEF Pending, Writes
      <4>2. CASE d # c
        <5>1. Pending(d)  BY <1>1, <1>3, <3>2 DEF Due
        <5>2. ASSUME NEW u \in Thread, Writes(u, d) PROVE Pending(d)'
          <6>1. task[t].at = "idle"  BY <1>6, UsersAreIdle
          <6>2. u # t  BY <5>2, <6>1, Zenon DEF Writes
          <6> QED  BY <2>6, <5>2, <6>2, Zenon DEF Writes, Pending
        <5>3. ASSUME NEW p \in Object, Whose(p) = d, locked[p], changed[p] PROVE Pending(d)'
          <6>1. locked'[p] /\ changed'[p]  BY <1>1, <1>8, <4>2, <5>3
          <6> QED  BY <5>3, <6>1, Zenon DEF Pending, Marked
        <5> QED  BY <5>1, <5>2, <5>3, Zenon DEF Pending, Marked
      <4> QED  BY <4>1, <4>2
    <3> QED  BY <1>1, <1>3, <3>1, <3>2, Zenon DEF Due
  <2>8. Fresh'  BY <1>1, <1>3, <2>1, <2>2, FreshStays, Zenon
  <2> QED  BY <2>4, <2>5, <2>7, <2>8 DEF ConfigInv
<1>11. CASE ~changed[o] /\ task' = task
  <2>1. Shape'  BY <1>3, <1>7, <1>8, <1>11, Zenon DEF Shape
  <2>2. Apart'
    <3>1. ASSUME NEW u \in Thread, Busy(u) PROVE holder'[task[u].on] \in {u, Nobody}
      <4>1. u # t /\ task[u].on # c  BY <1>1, <1>5, <3>1, Zenon DEF Still
      <4>2. task[u].on \in Config  BY <1>3, <3>1, WorkIsBusy, Zenon DEF Shape, Busy
      <4> QED  BY <1>3, <1>7, <3>1, <4>1, <4>2, Zenon DEF Apart
    <3> QED  BY <1>3, <1>9, <1>11, <3>1, Zenon DEF Apart, Busy
  <2>3. Content'  BY <1>1, <1>3, <1>11, Zenon DEF Content, Writing
  <2>4. Due'
    <3>1. ASSUME NEW u \in Thread, task[u].at = "mark" PROVE locked'[task[u].of]
      <4>1. Busy(u) /\ task[u].of \in Object /\ Whose(task[u].of) = task[u].on
        BY <1>3, <3>1, TaskAt, Zenon DEF AtCommit
      <4>2. task[u].of # o  BY <1>1, <1>5, <4>1, Zenon DEF Still
      <4> QED  BY <1>3, <1>8, <3>1, <4>1, <4>2, Zenon DEF Due
    <3>2. ASSUME NEW d \in Config, unsaved[d] # {} PROVE Pending(d)'
      <4>1. Pending(d)  BY <1>3, <3>2 DEF Due
      <4>2. ASSUME NEW u \in Thread, Writes(u, d) PROVE Pending(d)'
        BY <1>11, <4>2, Zenon DEF Writes, Pending
      <4>3. ASSUME NEW p \in Object, Whose(p) = d, locked[p], changed[p] PROVE Pending(d)'
        <5>1. p # o  BY <1>11, <4>3
        <5>2. locked'[p] /\ changed'[p]  BY <1>1, <1>8, <4>3, <5>1
        <5> QED  BY <4>3, <5>2, Zenon DEF Pending, Marked
      <4> QED  BY <4>1, <4>2, <4>3, Zenon DEF Pending, Marked
    <3> QED  BY <1>1, <1>3, <1>11, <3>1, <3>2, Zenon DEF Due
  <2>5. Fresh'  BY <1>1, <1>3, <1>11, Zenon DEF Fresh
  <2> QED  BY <2>1, <2>2, <2>3, <2>4, <2>5 DEF ConfigInv
<1> QED  BY <1>1, <1>10, <1>11

LEMMA SyncKeeps ==
    ASSUME ConfigInv, "overlap" \notin Quirks, NEW t \in Thread, NEW c \in Config, Sync(t, c)
    PROVE  ConfigInv'
<1>1. /\ ~Busy(t) /\ Home[t] = Home[c] /\ holder[c] \in {t, Nobody} /\ Still(t, c)
      /\ SyncCase(c) # "synced" /\ Goes(t, SyncTask(c, SyncCase(c)))
      /\ UNCHANGED <<mem, timeLoaded, timeModified, locked, changed, now, holder, unsaved>>
  BY Zenon DEF Sync, Unheld
<1>2. /\ SyncCase(c) \in {"save", "load", "merge"}
      /\ SyncCase(c) = "load" => timeModified[c] <= timeLoaded[c]
  BY <1>1, SMT DEF SyncCase
<1> DEFINE to == SyncTask(c, SyncCase(c))
<1>3. /\ AtWork(to) /\ to.on = c /\ to.sync = TRUE /\ to.at = SyncCase(c) /\ to.whole = TRUE
      /\ Goes(t, to)
  BY <1>1, <1>2, SyncTasks, Zenon DEF SyncTask
<1> HIDE DEF to
<1>4. MayUse(t, c)  BY <1>1, Zenon DEF MayUse, Still
<1>5. Shape /\ Apart /\ Content /\ Due /\ Fresh /\ task[t].at = "idle"
  BY <1>4, UsersAreIdle DEF ConfigInv
<1>6. BeginsOn(t, c)  BY <1>1, <1>3, Zenon DEF BeginsOn
<1>7. Shape' /\ Apart'  BY <1>1, <1>4, <1>5, <1>6, BeginningKeepsApart
<1>8. Content'
  <2>1. ~Writing(to)  BY <1>2, <1>3, SMT DEF Writing
  <2> QED  BY <1>1, <1>3, <1>5, <2>1, ContentStays, Zenon DEF Content
<1>9. Due'      BY <1>1, <1>2, <1>3, <1>5, DueStays, Zenon DEF Writes, Due
<1>10. Fresh'   BY <1>1, <1>2, <1>3, <1>5, FreshStays, Zenon
<1> QED  BY <1>7, <1>8, <1>9, <1>10 DEF ConfigInv

(***************************************************************************)
(* Configurations that are constructed, once or after a crash.             *)
(***************************************************************************)
\* What the constructor leaves of the configurations of cs.
LEMMA ConstructedIs ==
    ASSUME Shape, Due, Fresh, NEW cs, Constructed(cs)
    PROVE  /\ DOMAIN mem' = Config /\ DOMAIN unsaved' = Config /\ DOMAIN holder' = Config
           /\ locked' \in [Object -> BOOLEAN] /\ changed' \in [Object -> BOOLEAN]
           /\ timeLoaded' \in [Config -> Nat] /\ timeModified' \in [Config -> Nat] /\ now' = now
           /\ \A c \in Config : c \in cs => unsaved'[c] = {} /\ holder'[c] = Nobody
           /\ \A c \in Config : c \notin cs => /\ mem'[c] = mem[c] /\ unsaved'[c] = unsaved[c]
                                               /\ holder'[c] = holder[c]
                                               /\ timeLoaded'[c] = timeLoaded[c]
                                               /\ timeModified'[c] = timeModified[c]
           /\ \A o \in Object : Whose(o) \in cs => ~locked'[o]
           /\ \A o \in Object : Whose(o) \notin cs => (locked'[o] <=> locked[o]) /\ (changed'[o] <=> changed[o])
<1>1. /\ DOMAIN mem' = Config /\ DOMAIN unsaved' = Config /\ DOMAIN holder' = Config /\ now' = now
      /\ \A c \in Config : c \in cs => unsaved'[c] = {} /\ holder'[c] = Nobody
      /\ \A c \in Config : c \notin cs => /\ mem'[c] = mem[c] /\ unsaved'[c] = unsaved[c]
                                          /\ holder'[c] = holder[c]
                                          /\ timeLoaded'[c] = timeLoaded[c]
                                          /\ timeModified'[c] = timeModified[c]
  BY Zenon DEF Constructed
<1>2. timeLoaded' \in [Config -> Nat] /\ timeModified' \in [Config -> Nat]
  BY SMT DEF Constructed, Fresh
<1>3. /\ locked' \in [Object -> BOOLEAN] /\ changed' \in [Object -> BOOLEAN]
      /\ \A o \in Object : (locked'[o] <=> (locked[o] /\ Whose(o) \notin cs))
                           /\ (changed'[o] <=> (changed[o] /\ Whose(o) \notin cs))
  BY Zenon DEF Constructed
<1> QED  BY <1>1, <1>2, <1>3, Zenon

\* Nobody that goes on works on one of them.
LEMMA ConstructingKeeps ==
    ASSUME ConfigInv, NEW cs, Constructed(cs), DOMAIN task' = Thread,
           \A t \in Thread : \/ task'[t] = Idle
                             \/ task'[t] = task[t] /\ (Busy(t) => task[t].on \notin cs),
           \A t \in Thread : task'[t] # task[t] => task[t].on \in cs
    PROVE  ConfigInv'
<1>0. Shape /\ Apart /\ Content /\ Due /\ Fresh  BY DEF ConfigInv
<1>1. /\ DOMAIN mem' = Config /\ DOMAIN unsaved' = Config /\ DOMAIN holder' = Config
      /\ locked' \in [Object -> BOOLEAN] /\ changed' \in [Object -> BOOLEAN]
      /\ timeLoaded' \in [Config -> Nat] /\ timeModified' \in [Config -> Nat] /\ now' = now
      /\ \A c \in Config : c \in cs => unsaved'[c] = {} /\ holder'[c] = Nobody
      /\ \A c \in Config : c \notin cs => /\ mem'[c] = mem[c] /\ unsaved'[c] = unsaved[c]
                                          /\ holder'[c] = holder[c]
                                          /\ timeLoaded'[c] = timeLoaded[c]
                                          /\ timeModified'[c] = timeModified[c]
      /\ \A o \in Object : Whose(o) \in cs => ~locked'[o]
      /\ \A o \in Object : Whose(o) \notin cs => (locked'[o] <=> locked[o]) /\ (changed'[o] <=> changed[o])
  BY <1>0, ConstructedIs
<1>2. Idle.at = "idle"  BY DEF Idle
<1>3. \A t \in Thread : task'[t].at # "idle" =>
         /\ task'[t] = task[t] /\ Busy(t) /\ AtWork(task[t])
         /\ task[t].on \in Config /\ task[t].on \notin cs
  <2>1. SUFFICES ASSUME NEW t \in Thread, task'[t].at # "idle"
                 PROVE  /\ task'[t] = task[t] /\ Busy(t) /\ AtWork(task[t])
                        /\ task[t].on \in Config /\ task[t].on \notin cs
    OBVIOUS
  <2>2. task'[t] = task[t]  BY <1>2, <2>1
  <2>3. Busy(t) /\ AtWork(task[t])  BY <1>0, <2>1, <2>2, TaskAt
  <2>4. task[t].on \notin cs  BY <1>2, <2>1, <2>3, Zenon
  <2> QED  BY <2>2, <2>3, <2>4, WorkIsBusy
<1>4. \A t \in Thread : Busy(t)' => task'[t].at # "idle"
  <2>1. \A t \in Thread : Busy(t)' => task'[t] = task[t] /\ Busy(t)  BY Zenon DEF Busy
  <2> QED  BY <1>0, <2>1, WorkIsBusy, Zenon DEF Shape, Busy
<1>5. Shape'  BY <1>0, <1>1, Zenon DEF Shape
<1>6. Apart'
  <2>1. ASSUME NEW t \in Thread, Busy(t)'
        PROVE  Home[t] = Home[task'[t].on] /\ holder'[task'[t].on] \in {t, Nobody}
    <3>1. task'[t] = task[t] /\ Busy(t) /\ task[t].on \in Config /\ task[t].on \notin cs
      BY <1>3, <1>4, <2>1
    <3>2. Home[t] = Home[task[t].on] /\ holder[task[t].on] \in {t, Nobody}
      BY <1>0, <3>1, Zenon DEF Apart
    <3>3. holder'[task[t].on] = holder[task[t].on]  BY <1>1, <3>1
    <3> QED  BY <3>1, <3>2, <3>3
  <2>2. ASSUME NEW t \in Thread, NEW u \in Thread, t # u, Busy(t)', Busy(u)', task'[t].on = task'[u].on
        PROVE  ~task'[t].sync
    <3>1. task'[t] = task[t] /\ task'[u] = task[u] /\ Busy(t) /\ Busy(u)  BY <1>3, <1>4, <2>2
    <3>2. ~task[t].sync  BY <1>0, <2>2, <3>1, Zenon DEF Apart
    <3> QED  BY <3>1, <3>2
  <2>3. ASSUME NEW o \in Object, locked'[o] PROVE holder'[Whose(o)] # Nobody
    <3>1. Whose(o) \in Config /\ Whose(o) \notin cs  BY <1>1, <2>3, ObjectIs, Zenon
    <3>2. locked[o] /\ holder'[Whose(o)] = holder[Whose(o)]  BY <1>1, <2>3, <3>1
    <3> QED  BY <1>0, <3>2, Zenon DEF Apart
  <2> QED  BY <2>1, <2>2, <2>3, Zenon DEF Apart
<1>7. Content'
  <2>1. ASSUME NEW t \in Thread, Writing(task'[t]) PROVE task'[t].map = mem'[task'[t].on]
    <3>1. task'[t].at # "idle"  BY <2>1, Zenon DEF Writing
    <3>2. task'[t] = task[t] /\ task[t].on \in Config /\ task[t].on \notin cs  BY <1>3, <3>1
    <3>3. task[t].map = mem[task[t].on]  BY <1>0, <2>1, <3>2, Zenon DEF Content
    <3>4. mem'[task[t].on] = mem[task[t].on]  BY <1>1, <3>2
    <3> QED  BY <3>2, <3>3, <3>4
  <2>2. ASSUME NEW c \in Config PROVE unsaved'[c] \subseteq DOMAIN mem'[c]
    BY <1>0, <1>1, Zenon DEF Content
  <2> QED  BY <1>1, <2>1, <2>2, Zenon DEF Content
<1>8. Due'
  <2>1. ASSUME NEW t \in Thread, task'[t].at = "mark" PROVE locked'[task'[t].of]
    <3>1. task'[t] = task[t] /\ task[t].on \notin cs  BY <1>3, <2>1
    <3>2. task[t].of \in Object /\ Whose(task[t].of) = task[t].on /\ locked[task[t].of]
      BY <1>0, <2>1, <3>1, TaskAt, Zenon DEF AtCommit, Due
    <3> QED  BY <1>1, <3>1, <3>2
  <2>2. ASSUME NEW c \in Config, unsaved'[c] # {} PROVE Pending(c)'
    <3>1. c \notin cs /\ unsaved[c] # {}  BY <1>1, <2>2
    <3>2. Pending(c)  BY <1>0, <3>1 DEF Due
    <3>3. ASSUME NEW t \in Thread, Writes(t, c) PROVE Pending(c)'
      <4>1. task'[t] = task[t]  BY <3>1, <3>3, Zenon DEF Writes
      <4> QED  BY <3>3, <4>1, Zenon DEF Writes, Pending
    <3>4. ASSUME NEW o \in Object, Whose(o) = c, locked[o], changed[o] PROVE Pending(c)'
      <4>1. locked'[o] /\ changed'[o]  BY <1>1, <3>1, <3>4
      <4> QED  BY <3>4, <4>1, Zenon DEF Pending, Marked
    <3> QED  BY <3>2, <3>3, <3>4, Zenon DEF Pending, Marked
  <2> QED  BY <1>1, <2>1, <2>2, Zenon DEF Due
<1>9. Fresh'
  <2>1. ASSUME NEW t \in Thread, task'[t].at = "load"
        PROVE  timeModified'[task'[t].on] <= timeLoaded'[task'[t].on]
    <3>1. task'[t] = task[t] /\ task[t].on \in Config /\ task[t].on \notin cs  BY <1>3, <2>1
    <3>2. timeModified[task[t].on] <= timeLoaded[task[t].on]  BY <1>0, <2>1, <3>1 DEF Fresh
    <3> QED  BY <1>1, <3>1, <3>2
  <2> QED  BY <1>0, <1>1, <2>1, Zenon DEF Fresh
<1> QED  BY <1>5, <1>6, <1>7, <1>8, <1>9 DEF ConfigInv

LEMMA ConstructKeeps ==
    ASSUME ConfigInv, NEW t \in Thread, NEW c \in Config, Construct(t, c)
    PROVE  ConfigInv'
<1>1. ~Busy(t) /\ Still(t, c) /\ task' = task /\ Constructed({c})
  BY Zenon DEF Construct, Call
<1>2. DOMAIN task' = Thread /\ \A u \in Thread : Busy(u) => task[u].on # c
  BY <1>1, Zenon DEF Still, ConfigInv, Shape
<1> QED  BY <1>1, <1>2, ConstructingKeeps, Zenon

LEMMA RestartKeeps ==
    ASSUME ConfigInv, NEW p, Restart(p)
    PROVE  ConfigInv'
<1> DEFINE mine == {c \in Config : Home[c] = p}
<1>1. task' = [t \in Thread |-> IF Home[t] = p THEN Idle ELSE task[t]] /\ Constructed(mine)
  BY Zenon DEF Restart
<1>2. \A t \in Thread : Busy(t) => task[t].on \in Config /\ Home[task[t].on] = Home[t]
  BY WorkIsBusy, Zenon DEF ConfigInv, Shape, Apart, Busy
<1>3. DOMAIN task' = Thread
  BY <1>1
<1>4. \A t \in Thread : \/ task'[t] = Idle
                        \/ task'[t] = task[t] /\ (Busy(t) => task[t].on \notin mine)
  BY <1>1, <1>2, Zenon
<1>5. \A t \in Thread : task'[t] # task[t] => task[t].on \in mine
  BY <1>1, <1>2, Zenon DEF Busy
<1> HIDE DEF mine
<1> QED  BY <1>1, <1>3, <1>4, <1>5, ConstructingKeeps, Zenon

(***************************************************************************)
(* The invariant.                                                          *)
(***************************************************************************)
LEMMA ConfigInit == Init => ConfigInv
<1> SUFFICES ASSUME Init PROVE ConfigInv  OBVIOUS
<1>1. \A t \in Thread : task[t] = Idle /\ task[t].at = "idle"  BY SMT DEF Init, Idle
<1>2. Shape    BY <1>1, SMT DEF Init, Shape
<1>3. Apart
  <2>1. \A t \in Thread : ~Busy(t)  BY <1>1, Zenon DEF Busy
  <2>2. \A o \in Object : ~locked[o]  BY Zenon DEF Init
  <2> QED  BY <2>1, <2>2, Zenon DEF Apart
<1>4. Content
  <2>1. \A t \in Thread : ~Writing(task[t])  BY <1>1, SMT DEF Writing
  <2>2. DOMAIN mem = Config /\ DOMAIN unsaved = Config /\ \A c \in Config : unsaved[c] = {}
    BY Zenon DEF Init
  <2> QED  BY <2>1, <2>2, Zenon DEF Content
<1>5. Due
  <2>1. changed \in [Object -> BOOLEAN] /\ \A c \in Config : unsaved[c] = {}  BY Zenon DEF Init
  <2> QED  BY <1>1, <2>1, Zenon DEF Due
<1>6. Fresh    BY <1>1, SMT DEF Init, Fresh
<1> QED  BY <1>2, <1>3, <1>4, <1>5, <1>6 DEF ConfigInv

LEMMA ConfigNext ==
    ASSUME ConfigInv, "overlap" \notin Quirks, [Next]_vars
    PROVE  ConfigInv'
<1>1. ASSUME NEW t \in Thread, Step(t) PROVE ConfigInv'  BY <1>1, StepKeeps
<1>2. ASSUME NEW t \in Thread, NEW o \in Object,
             Set(t, o) \/ SetDefault(t, o) \/ Erase(t, o) \/ Clear(t, o) \/ Import(t, o)
             \/ Lock(t, o) \/ Unlock(t, o)
      PROVE  ConfigInv'
  <2>1. CASE Set(t, o)         BY <2>1, SetKeeps
  <2>2. CASE SetDefault(t, o)  BY <2>2, SetDefaultKeeps
  <2>3. CASE Erase(t, o)       BY <2>3, EraseKeeps
  <2>4. CASE Clear(t, o) \/ Import(t, o)  BY <2>4, ClearKeepsIt
  <2>5. CASE Lock(t, o)        BY <2>5, LockKeeps
  <2>6. CASE Unlock(t, o)      BY <2>6, UnlockKeeps
  <2> QED  BY <1>2, <2>1, <2>2, <2>3, <2>4, <2>5, <2>6
<1>3. ASSUME NEW t \in Thread, NEW c \in Config, Sync(t, c) \/ Construct(t, c)
      PROVE  ConfigInv'
  BY <1>3, SyncKeeps, ConstructKeeps
<1>4. ASSUME NEW p, Restart(p) PROVE ConfigInv'  BY <1>4, RestartKeeps
<1>5. CASE UNCHANGED <<mem, timeLoaded, timeModified, locked, changed, task, holder, unsaved>> /\ now' \in Nat
  <2>1. Shape /\ Apart /\ Content /\ Due /\ Fresh  BY DEF ConfigInv
  <2>2. Shape' /\ Apart'  BY <1>5, <2>1, Zenon DEF Shape, Apart, Busy
  <2>3. Content'  BY <1>5, <2>1, Zenon DEF Content
  <2>4. Due'      BY <1>5, <2>1, Zenon DEF Due, Pending, Writes, Marked
  <2>5. Fresh'    BY <1>5, <2>1, Zenon DEF Fresh
  <2> QED  BY <2>2, <2>3, <2>4, <2>5 DEF ConfigInv
<1>6. CASE Tick
  <2>1. now' \in Nat  BY <1>6, SMT DEF Tick, ConfigInv, Fresh
  <2> QED  BY <1>5, <1>6, <2>1, Zenon DEF Tick
<1>7. CASE UNCHANGED vars
  BY <1>5, <1>7, Zenon DEF vars, ConfigInv, Fresh
<1> QED  BY <1>1, <1>2, <1>3, <1>4, <1>6, <1>7, Zenon DEF Next, Uses

\* Who holds a lock, who has the file open, what is due to be written and what the file holds
\* agree in every step of every call, where threads keep off each other's objects.
THEOREM ConfigInvariant ==
    ASSUME "overlap" \notin Quirks
    PROVE  Spec => []ConfigInv
<1>1. ConfigInv /\ [Next]_vars => ConfigInv'  BY ConfigNext
<1> QED  BY ConfigInit, <1>1, PTL DEF Spec

\* Where threads keep off an object that another one holds or synchronises: once nobody
\* is at work on a configuration or holds its lock, all that was put into it has been
\* given to saveMap, for any number of processes, threads, objects and keys, and through crashes.
\* A thread that puts an entry commits it or leaves its object marked under a lock that
\* only its holder can take away, who then commits; and the map that is written is the
\* one the configuration still holds when it has been written.
THEOREM NothingStaysUnsaved ==
    ASSUME "overlap" \notin Quirks
    PROVE  Spec => []NothingUnsaved
<1>1. ConfigInv => NothingUnsaved
  <2> SUFFICES ASSUME ConfigInv, NEW c \in Config, holder[c] = Nobody,
                      \A t \in Thread : Busy(t) => task[t].on # c
               PROVE  unsaved[c] = {}
    BY DEF NothingUnsaved
  <2>1. \A t \in Thread : ~Writes(t, c)
    BY TaskAt, Zenon DEF ConfigInv, Writes
  <2>2. ~Marked(c)  BY Zenon DEF ConfigInv, Apart, Marked
  <2> QED  BY <2>1, <2>2, Zenon DEF ConfigInv, Due, Pending
<1> QED  BY ConfigInvariant, <1>1, PTL

\* A step of a synchronisation keeps what the configuration holds, where it has changed
\* something.
LEMMA SyncStepKeepsOurs ==
    ASSUME ConfigInv, "overlap" \notin Quirks, <<"restart", "root">> \notin Calls, Next,
           NEW t \in Thread, task[t] # Idle, task'[t] # task[t], task[t].sync,
           timeModified[task[t].on] > timeLoaded[task[t].on],
           NEW k \in DOMAIN mem[task[t].on]
    PROVE  k \in DOMAIN mem'[task[t].on] /\ mem'[task[t].on][k] = mem[task[t].on][k]
<1> DEFINE c == task[t].on
<1>1. Shape /\ Apart /\ Content /\ Fresh /\ Busy(t) /\ AtWork(task[t])
  BY TaskAt, Zenon DEF ConfigInv, Busy
<1>2. c \in Config /\ DOMAIN mem = Config  BY <1>1, WorkIsBusy, Zenon DEF Content
<1>3. Step(t)
  <2>1. ASSUME NEW u \in Thread, Step(u) \/ Uses(u), u # t PROVE FALSE
    <3>1. task' = task \/ \E to : Goes(u, to)
      <4>1. CASE Step(u)  BY <1>1, <4>1, StepsContinue, Zenon DEF Continues
      <4>2. ASSUME NEW o \in Object, Set(u, o) \/ Clear(u, o) \/ Import(u, o) PROVE \E to : Goes(u, to)
        BY <4>2, CallsBegin, Zenon DEF BeginsOn
      <4>3. ASSUME NEW o \in Object, SetDefault(u, o) \/ Erase(u, o) \/ Lock(u, o) PROVE task' = task
        BY <4>3, Zenon DEF SetDefault, Erase, Lock
      <4>4. ASSUME NEW o \in Object, Unlock(u, o) PROVE task' = task \/ \E to : Goes(u, to)
        BY <4>4, Zenon DEF Unlock
      <4>5. ASSUME NEW d \in Config, Sync(u, d) \/ Construct(u, d) PROVE task' = task \/ \E to : Goes(u, to)
        BY <4>5, Zenon DEF Sync, Construct
      <4> QED  BY <2>1, <4>1, <4>2, <4>3, <4>4, <4>5, Zenon DEF Uses
    <3> QED  BY <1>1, <2>1, <3>1, GoesTo, Zenon
  <2>2. ~Uses(t)
    BY <1>1, Zenon DEF Uses, Set, SetDefault, Erase, Clear, Import, Lock, Unlock, Sync, Construct, Call
  <2>3. \A p : ~Restart(p)  BY Zenon DEF Restart
  <2>4. ~Tick  BY Zenon DEF Tick
  <2> QED  BY <2>1, <2>2, <2>3, <2>4, Zenon DEF Next
<1>4. CASE MergeOurs(t)
  <2> DEFINE map == Merged(mem[c], task[t].map)
  <2>1. mem' = [mem EXCEPT ![c] = map]  BY <1>4, Zenon DEF MergeOurs
  <2>2. k \in DOMAIN map /\ map[k] = mem[c][k]
    <3>1. k \in DOMAIN mem[c]  OBVIOUS
    <3> HIDE DEF c
    <3>2. /\ DOMAIN map = DOMAIN task[t].map \cup DOMAIN mem[c]
          /\ \A x \in DOMAIN mem[c] : map[x] = mem[c][x]
      BY MergedDomain
    <3> QED  BY <3>1, <3>2, Zenon
  <2> HIDE DEF map, c
  <2>3. mem'[c] = map  BY <1>2, <2>1, SMT
  <2> QED  BY <2>2, <2>3 DEF c
<1>5. CASE mem' = mem  BY <1>5
<1>6. CASE LoadFile(t)
  <2>1. timeModified[c] <= timeLoaded[c]  BY <1>1, <1>6, Zenon DEF LoadFile, Fresh
  <2>2. timeModified[c] \in Nat /\ timeLoaded[c] \in Nat
    <3> HIDE DEF c
    <3> QED  BY <1>1, <1>2, SMT DEF Fresh
  <2>3. timeModified[c] > timeLoaded[c]  OBVIOUS
  <2> HIDE DEF c
  <2> QED  BY <2>1, <2>2, <2>3, SMT
<1>7. CASE ImportEntries(t)
  <2>1. AtImport(task[t])  BY <1>1, <1>7, TaskAt, Zenon DEF ImportEntries
  <2> QED  BY <2>1, Zenon DEF AtImport
<1> QED
  BY <1>3, <1>4, <1>5, <1>6, <1>7, Zenon DEF Step, OpenFile, OpenRefused, WriteFile, Commit, MarkChanged, RemoveFile, MergeFile

\* Where threads keep off an object that another one synchronises and no process dies:
\* once a configuration has changed anything of its own, no step of a synchronisation
\* drops or replaces an entry it holds, for any number of processes and whatever the
\* clock and the time stamps of the file say.  The file is loaded over the entries only
\* while nothing was changed, which stays so as long as the synchronisation is at work.
THEOREM SyncKeepsOurs ==
    ASSUME "overlap" \notin Quirks, <<"restart", "root">> \notin Calls
    PROVE  Spec => KeepsOurs
<1> DEFINE Ours == \A t \in Thread :
              LET s == task[t] IN
              (s # Idle /\ task'[t] # s /\ s.sync /\ timeModified[s.on] > timeLoaded[s.on])
              => \A k \in DOMAIN mem[s.on] : k \in DOMAIN mem'[s.on] /\ mem'[s.on][k] = mem[s.on][k]
<1>1. ConfigInv /\ [Next]_vars => [Ours]_vars
  BY SyncStepKeepsOurs, Zenon
<1> QED  BY ConfigInvariant, <1>1, PTL DEF Spec, KeepsOurs

(***************************************************************************)
(* The objects of one program are a ConfigStore: the saved map is what a   *)
(* reader of the program finds.                                            *)
(***************************************************************************)
LEMMA MapsAre ==
    ASSUME NEW m \in Maps
    PROVE  DOMAIN m \subseteq Key /\ m = [k \in DOMAIN m |-> m[k]] /\ \A k \in DOMAIN m : m[k] \in Value
<1>1. PICK S \in SUBSET Key : m \in [S -> Value]  BY DEF Maps
<1> QED  BY <1>1, Zenon

LEMMA IsMap ==
    ASSUME NEW S \in SUBSET Key, NEW f \in [S -> Value]
    PROVE  f \in Maps
BY Zenon DEF Maps

LEMMA MapsPut ==
    ASSUME NEW m \in Maps, NEW n \in Maps
    PROVE  PutOn(m, n) \in Maps
<1>1. DOMAIN m \cup DOMAIN n \in SUBSET Key  BY MapsAre, Zenon
<1>2. PutOn(m, n) \in [DOMAIN m \cup DOMAIN n -> Value]  BY MapsAre, Zenon DEF PutOn
<1> QED  BY <1>1, <1>2, IsMap, Zenon

LEMMA MapsWithout ==
    ASSUME NEW m \in Maps, NEW S
    PROVE  Without(m, S) \in Maps
<1>1. DOMAIN m \ S \in SUBSET Key  BY MapsAre, Zenon
<1>2. Without(m, S) \in [DOMAIN m \ S -> Value]  BY MapsAre, Zenon DEF Without
<1> QED  BY <1>1, <1>2, IsMap, Zenon

LEMMA MapsNonEmpty ==
    ASSUME NEW m \in Maps
    PROVE  NonEmpty(m) \in Maps
<1> DEFINE S == {k \in DOMAIN m : m[k] # <<>>}
<1>1. S \in SUBSET Key  BY MapsAre, Zenon
<1>2. NonEmpty(m) \in [S -> Value]  BY MapsAre, Zenon DEF NonEmpty
<1> HIDE DEF S
<1> QED  BY <1>1, <1>2, IsMap, Zenon

LEMMA EmptyIsMap == Empty \in Maps
<1>1. {} \in SUBSET Key  OBVIOUS
<1>2. Empty \in [{} -> Value]  BY Zenon DEF Empty
<1> QED  BY <1>1, <1>2, IsMap, Zenon

LEMMA NonEmptyOnce ==
    ASSUME NEW m
    PROVE  NonEmpty(NonEmpty(m)) = NonEmpty(m)
<1> DEFINE S == {k \in DOMAIN m : m[k] # <<>>}
<1>1. DOMAIN NonEmpty(m) = S /\ \A k \in S : NonEmpty(m)[k] = m[k]  BY Zenon DEF NonEmpty
<1>2. {k \in DOMAIN NonEmpty(m) : NonEmpty(m)[k] # <<>>} = S  BY <1>1, Zenon
<1>3. NonEmpty(m) = [k \in S |-> m[k]]  BY DEF NonEmpty
<1>4. NonEmpty(NonEmpty(m)) = [k \in {k \in DOMAIN NonEmpty(m) : NonEmpty(m)[k] # <<>>} |-> NonEmpty(m)[k]]
  BY DEF NonEmpty
<1> HIDE DEF S
<1>5. NonEmpty(NonEmpty(m)) = [k \in S |-> NonEmpty(m)[k]]  BY <1>2, <1>4
<1> QED  BY <1>1, <1>3, <1>5, Zenon

\* A map that is printed is read back without its empty entries.
LEMMA ReadBack ==
    ASSUME NEW m \in Maps
    PROVE  Parsed(Printed(m)) = NonEmpty(m)
<1> DEFINE S == {k \in DOMAIN m : m[k] # <<>>}
           p == Printed(m)
<1>1. \A k \in DOMAIN m : ComesBack(m[k])  BY MapsAre, ValueAssumption, Zenon
<1>2. DOMAIN p = DOMAIN m /\ \A k \in DOMAIN m : p[k] = Escape(m[k])  BY Zenon DEF Printed
<1> HIDE DEF p
<1>3. {k \in DOMAIN p : p[k] # <<>>} = S  BY <1>1, <1>2, Zenon DEF ComesBack
<1>4. \A k \in S : Unescape(p[k]) = m[k]  BY <1>1, <1>2, Zenon DEF ComesBack
<1>5. Parsed(p) = [k \in {k \in DOMAIN p : p[k] # <<>>} |-> Unescape(p[k])]  BY DEF Parsed
<1>6. NonEmpty(m) = [k \in S |-> m[k]]  BY DEF NonEmpty
<1> HIDE DEF S
<1>7. Parsed(p) = [k \in S |-> Unescape(p[k])]  BY <1>3, <1>5
<1> QED  BY <1>4, <1>6, <1>7, Zenon DEF p

LEMMA EmptyReadsEmpty == Parsed(Empty) = Empty
<1>1. DOMAIN Empty = {}  BY DEF Empty
<1>2. {k \in DOMAIN Empty : Empty[k] # <<>>} = {}  BY <1>1, Zenon
<1> QED  BY <1>2, Zenon DEF Parsed, Empty

LEMMA EmptyIsPrinted == Empty = Printed(Empty)
<1>1. DOMAIN Empty = {}  BY DEF Empty
<1> QED  BY <1>1, Zenon DEF Printed, Empty

Texts == {Printed(m) : m \in Maps}

\* What is read from a text that was printed.
LEMMA TextsRead ==
    ASSUME NEW lines \in Texts
    PROVE  Parsed(lines) \in Maps /\ NonEmpty(Parsed(lines)) = Parsed(lines)
<1>1. PICK m \in Maps : lines = Printed(m)  BY DEF Texts
<1> QED  BY <1>1, ReadBack, MapsNonEmpty, NonEmptyOnce

\* The entries, the file and what the threads carry are made of the constants' values,
\* and one thread writes the file at a time.
Carries(s) ==
    /\ s.at = "import" => s.new \in Maps
    /\ s.at = "remove" => (s.next = Idle \/ s.next.new \in Maps)
    /\ s.at = "ours"   => s.map \in Maps
    /\ s.at = "write"  => s.old.lines \in Texts

FileIs ==
    /\ DOMAIN file = {"there", "lines", "time"} /\ file.there \in BOOLEAN
    /\ file.lines \in Texts /\ (file.there = FALSE => file.lines = Empty)

OneWriter == \A t, u \in Thread : task[t].at = "write" /\ task[u].at = "write" => t = u

Stored ==
    /\ mem \in [Config -> Maps] /\ FileIs /\ OneWriter
    /\ \A t \in Thread : Carries(task[t])

LEMMA LoadsIs ==
    ASSUME FileIs
    PROVE  /\ Loads \in Maps /\ NonEmpty(Loads) = Loads
           /\ Loads = IF file.there THEN Parsed(file.lines) ELSE Empty
<1>1. Parsed(file.lines) \in Maps /\ NonEmpty(Parsed(file.lines)) = Parsed(file.lines)
  BY TextsRead DEF FileIs
<1>2. NonEmpty(Empty) = Empty
  <2>1. DOMAIN Empty = {}  BY DEF Empty
  <2>2. {k \in DOMAIN Empty : Empty[k] # <<>>} = {}  BY <2>1, Zenon
  <2> QED  BY <2>2, Zenon DEF NonEmpty, Empty
<1>3. CASE file.there = TRUE   BY <1>1, <1>3, Zenon DEF Loads
<1>4. CASE file.there = FALSE  BY <1>2, <1>4, EmptyIsMap, Zenon DEF Loads
<1> QED  BY <1>3, <1>4 DEF FileIs

\* What a reader finds: the file, or what it held before somebody opened it to write.
LEMMA NobodyWrites ==
    ASSUME \A t \in Thread : task[t].at # "write"
    PROVE  Readable = Loads
BY Zenon DEF Readable

LEMMA TheOne ==
    ASSUME NEW tasks, NEW t \in Thread, tasks[t].at = "write",
           \A u \in Thread : tasks[u].at = "write" => u = t
    PROVE  (CHOOSE s \in {tasks[u] : u \in Thread} : s.at = "write") = tasks[t]
<1> DEFINE P(s) == s \in {tasks[u] : u \in Thread} /\ s.at = "write"
           w == CHOOSE s : P(s)
<1>1. P(tasks[t])  OBVIOUS
<1>2. P(w)  BY <1>1, Zenon
<1>3. w = tasks[t]  BY <1>2, Zenon
<1>4. (CHOOSE s \in {tasks[u] : u \in Thread} : s.at = "write") = w  OBVIOUS
<1> HIDE DEF w
<1> QED  BY <1>3, <1>4, Zenon

LEMMA SomebodyWrites ==
    ASSUME OneWriter, NEW t \in Thread, task[t].at = "write"
    PROVE  Readable = IF file.there THEN Parsed(task[t].old.lines) ELSE Loads
<1>1. (CHOOSE s \in {task[u] : u \in Thread} : s.at = "write") = task[t]
  BY TheOne, Zenon DEF OneWriter
<1> QED  BY <1>1, Zenon DEF Readable

LEMMA OthersKeepOff ==
    ASSUME NEW t \in Thread, FileFree(t), "torn" \notin Quirks
    PROVE  \A u \in Thread \ {t} : task[u].at # "write"
BY Zenon DEF FileFree

\* A step that leaves the file alone, and ends no writing.
LEMMA ReadsTheSame ==
    ASSUME Stored, Stored', file' = file,
           \A u \in Thread : task[u].at = "write" \/ task'[u].at = "write" => task'[u] = task[u]
    PROVE  Readable' = Readable
<1>0. Loads' = Loads  BY Zenon DEF Loads
<1>1. CASE \A t \in Thread : task[t].at # "write"
  <2>1. \A t \in Thread : task'[t].at # "write"  BY <1>1, Zenon
  <2>2. Readable = Loads  BY <1>1, NobodyWrites
  <2>3. Readable' = Loads'  BY <2>1, Zenon DEF Readable
  <2> QED  BY <1>0, <2>2, <2>3
<1>2. ASSUME NEW t \in Thread, task[t].at = "write" PROVE Readable' = Readable
  <2>1. task'[t] = task[t]  BY <1>2
  <2>2. Readable = IF file.there THEN Parsed(task[t].old.lines) ELSE Loads
    BY <1>2, SomebodyWrites DEF Stored
  <2>3. Readable' = IF file'.there THEN Parsed(task'[t].old.lines) ELSE Loads'
    <3>1. task'[t].at = "write" /\ \A u \in Thread : task'[u].at = "write" => u = t
      BY <1>2, <2>1, Zenon DEF Stored, OneWriter
    <3>2. (CHOOSE s \in {task'[u] : u \in Thread} : s.at = "write") = task'[t]
      BY <3>1, TheOne, Zenon
    <3> QED  BY <3>1, <3>2, Zenon DEF Readable
  <2> QED  BY <1>0, <2>1, <2>2, <2>3
<1> QED  BY <1>1, <1>2

LEMMA StoredGoesOn ==
    ASSUME Shape, Stored, NEW t \in Thread, NEW to, Goes(t, to), Carries(to),
           to.at = "write" => \A u \in Thread \ {t} : task[u].at # "write",
           mem' \in [Config -> Maps], FileIs'
    PROVE  Stored'
<1>1. /\ task'[t] = to
      /\ \A u \in Thread : u # t => task'[u] = task[u]
  BY GoesTo
<1>2. OneWriter'  BY <1>1, Zenon DEF Stored, OneWriter
<1>3. \A u \in Thread : Carries(task'[u])  BY <1>1, Zenon DEF Stored
<1>4. \A u \in Thread : Carries(task[u])'  BY <1>3, Zenon DEF Carries
<1> QED  BY <1>2, <1>4, Zenon DEF Stored

(***************************************************************************)
(* The steps of a ConfigStore.                                             *)
(***************************************************************************)
Held == [c \in Config |-> NonEmpty(mem[c])]
Made == [c \in Config |-> NonEmpty(base[c])]
StoreStep == [Store!Next]_<<Held, Readable, Made>>

LEMMA ExceptIs ==
    ASSUME NEW f, DOMAIN f = Config, NEW c \in Config, NEW x
    PROVE  [f EXCEPT ![c] = x] = [d \in Config |-> IF d = c THEN x ELSE f[d]]
BY Zenon

LEMMA NothingChanges ==
    ASSUME mem' = mem, base' = base, Readable' = Readable
    PROVE  StoreStep
<1>1. Held' = Held  BY Zenon DEF Held
<1>2. Made' = Made  BY Zenon DEF Made
<1> QED  BY <1>1, <1>2, Zenon DEF StoreStep

LEMMA MapChanges ==
    ASSUME Stored, NEW c \in Config, NEW m \in Maps, mem' = [mem EXCEPT ![c] = m], base' = base,
           Readable' = Readable
    PROVE  StoreStep
<1> DEFINE new == NonEmpty(m)
           left == Store!Without(Held[c], Key)
           over == Store!Over(new, left)
<1>1. new \in Maps /\ new = [k \in DOMAIN new |-> new[k]]  BY MapsNonEmpty, MapsAre
<1>2. DOMAIN Held[c] \subseteq Key
  <2>1. Held[c] \in Maps  BY MapsNonEmpty, Zenon DEF Held, Stored
  <2> QED  BY <2>1, MapsAre
<1>3. DOMAIN left = {}  BY <1>2, Zenon DEF Store!Without, Store!Restrict
<1> HIDE DEF new, left
<1>4. over = new
  <2>1. over = [k \in DOMAIN new \cup DOMAIN left |-> IF k \in DOMAIN new THEN new[k] ELSE left[k]]
    BY DEF Store!Over
  <2>2. DOMAIN new \cup DOMAIN left = DOMAIN new  BY <1>3, Zenon
  <2>3. over = [k \in DOMAIN new |-> IF k \in DOMAIN new THEN new[k] ELSE left[k]]  BY <2>1, <2>2
  <2>4. over = [k \in DOMAIN new |-> new[k]]  BY <2>3, Zenon
  <2> QED  BY <1>1, <2>4
<1>5. Held' = [Held EXCEPT ![c] = over]
  <2>1. DOMAIN mem = Config  BY DEF Stored
  <2>2. mem'[c] = m /\ \A d \in Config : d # c => mem'[d] = mem[d]  BY <2>1, Zenon
  <2>3. Held' = [d \in Config |-> NonEmpty(mem'[d])]  BY Zenon DEF Held
  <2>4. Held = [d \in Config |-> NonEmpty(mem[d])]  BY DEF Held
  <2> HIDE DEF over
  <2>5. \A d \in Config : NonEmpty(mem'[d]) = IF d = c THEN over ELSE Held[d]
    <3>1. NonEmpty(mem'[c]) = over  BY <1>4, <2>2 DEF new
    <3>2. \A d \in Config : d # c => NonEmpty(mem'[d]) = NonEmpty(mem[d])  BY <2>2, Zenon
    <3>3. \A d \in Config : Held[d] = NonEmpty(mem[d])  BY <2>4
    <3> SUFFICES ASSUME NEW d \in Config
                 PROVE  NonEmpty(mem'[d]) = IF d = c THEN over ELSE Held[d]
      OBVIOUS
    <3>4. CASE d = c  BY <3>1, <3>4
    <3>5. CASE d # c  BY <3>2, <3>3, <3>5
    <3> QED  BY <3>4, <3>5
  <2>6. Held' = [d \in Config |-> IF d = c THEN over ELSE Held[d]]  BY <2>3, <2>5, Zenon
  <2>7. DOMAIN Held = Config  BY <2>4
  <2> QED  BY <2>6, <2>7, ExceptIs
<1>6. Made' = Made  BY Zenon DEF Made
<1>7. new \in Store!Maps  BY <1>1 DEF Maps, Store!Maps
<1>8. Store!Change(c)
  <2>1. Held' = [Held EXCEPT ![c] = Store!Over(new, Store!Without(@, Key))]  BY <1>5 DEF left
  <2>2. Key \in SUBSET Key  OBVIOUS
  <2> HIDE DEF over
  <2> QED  BY <1>6, <1>7, <2>1, <2>2, Zenon DEF Store!Change, Held, Made
<1> QED  BY <1>8, Zenon DEF Store!Next, StoreStep

LEMMA MapIsSaved ==
    ASSUME NEW c \in Config, mem' = mem, base' = base, Readable' = NonEmpty(mem[c])
    PROVE  StoreStep
<1>1. Held' = Held  BY Zenon DEF Held
<1>2. Made' = Made  BY Zenon DEF Made
<1>3. Readable' = Held[c]  BY Zenon DEF Held
<1>4. Store!Commit(c)  BY <1>1, <1>2, <1>3, Zenon DEF Store!Commit, Held, Made
<1> QED  BY <1>4, Zenon DEF Store!Next, StoreStep

LEMMA FileIsRemoved ==
    ASSUME mem' = mem, base' = base, Readable' = Empty
    PROVE  StoreStep
<1>1. Held' = Held  BY Zenon DEF Held
<1>2. Made' = Made  BY Zenon DEF Made
<1>3. Store!None = Empty  BY Zenon DEF Store!None, Empty
<1>4. Store!Remove  BY <1>1, <1>2, <1>3, Zenon DEF Store!Remove, Held, Made
<1> QED  BY <1>4, Zenon DEF Store!Next, StoreStep

LEMMA StoreIsOpened ==
    ASSUME NEW c \in Config, DOMAIN mem = Config, Readable' = Readable, NonEmpty(Readable) = Readable,
           \A d \in Config : mem'[d] = IF d = c THEN Readable ELSE mem[d],
           \A d \in Config : base'[d] = IF d = c THEN Readable ELSE base[d]
    PROVE  StoreStep
<1>1. Held' = [Held EXCEPT ![c] = Readable]
  <2>1. \A d \in Config : NonEmpty(mem'[d]) = IF d = c THEN Readable ELSE NonEmpty(mem[d])  BY Zenon
  <2>2. Held' = [d \in Config |-> NonEmpty(mem'[d])]  BY Zenon DEF Held
  <2>3. DOMAIN Held = Config /\ \A d \in Config : Held[d] = NonEmpty(mem[d])  BY DEF Held
  <2>4. Held' = [d \in Config |-> IF d = c THEN Readable ELSE Held[d]]  BY <2>1, <2>2, <2>3, Zenon
  <2> QED  BY <2>3, <2>4, ExceptIs
<1>2. Made' = [Made EXCEPT ![c] = Readable]
  <2>1. \A d \in Config : NonEmpty(base'[d]) = IF d = c THEN Readable ELSE NonEmpty(base[d])  BY Zenon
  <2>2. Made' = [d \in Config |-> NonEmpty(base'[d])]  BY Zenon DEF Made
  <2>3. DOMAIN Made = Config /\ \A d \in Config : Made[d] = NonEmpty(base[d])  BY DEF Made
  <2>4. Made' = [d \in Config |-> IF d = c THEN Readable ELSE Made[d]]  BY <2>1, <2>2, <2>3, Zenon
  <2> QED  BY <2>3, <2>4, ExceptIs
<1>3. Store!Open(c)  BY <1>1, <1>2, Zenon DEF Store!Open, Held, Made
<1> QED  BY <1>3, Zenon DEF Store!Next, StoreStep

LEMMA StoreRestarts ==
    ASSUME NonEmpty(Readable') = Readable',
           \A d \in Config : mem'[d] = Readable' /\ base'[d] = Readable',
           \/ Readable' = Readable
           \/ \E c \in Config, S \in SUBSET Key : Readable' = NonEmpty(Without(mem[c], S))
    PROVE  StoreStep
<1>1. Held' = [c \in Config |-> Readable']
  <2>1. Held' = [c \in Config |-> NonEmpty(mem'[c])]  BY Zenon DEF Held
  <2> QED  BY <2>1, Zenon
<1>2. Made' = Held'
  <2>1. Made' = [c \in Config |-> NonEmpty(base'[c])]  BY Zenon DEF Made
  <2>2. Made' = [c \in Config |-> Readable']  BY <2>1, Zenon
  <2> QED  BY <1>1, <2>2
<1>3. ASSUME NEW c \in Config, NEW S \in SUBSET Key
      PROVE  NonEmpty(Without(mem[c], S)) = Store!Without(Held[c], S)
  <2> DEFINE m == mem[c]
             w == Without(m, S)
             n == NonEmpty(m)
  <2>1. DOMAIN w = DOMAIN m \ S /\ \A k \in DOMAIN w : w[k] = m[k]  BY Zenon DEF Without
  <2>0. n = [k \in {k \in DOMAIN m : m[k] # <<>>} |-> m[k]]  BY DEF NonEmpty
  <2> HIDE DEF n, m
  <2>2. DOMAIN n = {k \in DOMAIN m : m[k] # <<>>} /\ \A k \in DOMAIN n : n[k] = m[k]  BY <2>0, Zenon
  <2>3. {k \in DOMAIN w : w[k] # <<>>} = DOMAIN n \ S  BY <2>1, <2>2, Zenon
  <2> HIDE DEF w
  <2>4. NonEmpty(w) = [k \in {k \in DOMAIN w : w[k] # <<>>} |-> w[k]]  BY DEF NonEmpty
  <2>5. Store!Without(n, S) = [k \in DOMAIN n \ S |-> n[k]]  BY DEF Store!Without, Store!Restrict
  <2>6. Held[c] = n  BY DEF Held, n, m
  <2>7. NonEmpty(w) = [k \in DOMAIN n \ S |-> w[k]]  BY <2>3, <2>4
  <2>8. \A k \in DOMAIN n \ S : w[k] = n[k]  BY <2>1, <2>2, <2>3, Zenon
  <2>9. NonEmpty(w) = Store!Without(n, S)  BY <2>5, <2>7, <2>8, Zenon
  <2> QED  BY <2>6, <2>9 DEF w, m
<1>4. Readable' = Readable \/ \E c \in Config, S \in SUBSET Key : Readable' = Store!Without(Held[c], S)
  BY <1>3, Zenon
<1>5. Store!Restart  BY <1>1, <1>2, <1>4, Zenon DEF Store!Restart, Held, Made
<1> QED  BY <1>5, Zenon DEF Store!Next, StoreStep

\* A step that leaves the file alone, and begins or ends no writing.
Quiet == \A u \in Thread : \/ task'[u] = task[u]
                           \/ task[u].at # "write" /\ task'[u].at # "write" /\ Carries(task'[u])

LEMMA QuietStep ==
    ASSUME Stored, file' = file, mem' \in [Config -> Maps], Quiet
    PROVE  Stored' /\ Readable' = Readable
<1>1. \A u \in Thread : task[u].at = "write" \/ task'[u].at = "write" => task'[u] = task[u]
  BY Zenon DEF Quiet
<1>2. OneWriter'  BY <1>1, Zenon DEF Stored, OneWriter
<1>3. FileIs'  BY Zenon DEF Stored, FileIs
<1>4. \A u \in Thread : Carries(task'[u])  BY Zenon DEF Stored, Quiet
<1>5. \A u \in Thread : Carries(task[u])'  BY <1>4, Zenon DEF Carries
<1>6. Stored'  BY <1>2, <1>3, <1>5, Zenon DEF Stored
<1> QED  BY <1>1, <1>6, ReadsTheSame

LEMMA QuietlyNothing ==
    ASSUME Stored, file' = file, mem' = mem, base' = base, Quiet
    PROVE  Stored' /\ StoreStep
<1>1. mem' \in [Config -> Maps]  BY DEF Stored
<1> QED  BY <1>1, QuietStep, NothingChanges

LEMMA QuietlyChanges ==
    ASSUME Stored, NEW c \in Config, NEW m \in Maps, mem' = [mem EXCEPT ![c] = m],
           file' = file, base' = base, Quiet
    PROVE  Stored' /\ StoreStep
<1>1. mem' \in [Config -> Maps]  BY Zenon DEF Stored
<1> QED  BY <1>1, QuietStep, MapChanges

LEMMA QuietTask ==
    ASSUME Shape, NEW t \in Thread, task[t].at # "write", NEW to, Goes(t, to), to.at # "write", Carries(to)
    PROVE  Quiet
BY GoesTo, Zenon DEF Quiet

\* The tasks that carry nothing.
LEMMA CarriesNothing ==
    ASSUME NEW s, s.at \notin {"import", "remove", "ours", "write"}
    PROVE  Carries(s)
BY Zenon DEF Carries

LEMMA OpenFileStores ==
    ASSUME ConfigInv, Stored, "torn" \notin Quirks, NEW t \in Thread, OpenFile(t)
    PROVE  Stored' /\ StoreStep
<1>1. /\ task[t].at = "save" /\ FileFree(t) /\ mem' = mem /\ base' = base
      /\ file' = [there |-> TRUE, lines |-> Empty, time |-> now]
  BY Zenon DEF OpenFile
<1>2. \A u \in Thread : task[u].at # "write"  BY <1>1, OthersKeepOff, Zenon
<1>3. PICK to : Goes(t, to) /\ to.at = "write" /\ to.old = file
  BY SMT DEF OpenFile
<1>4. Carries(to)  BY <1>3, SMT DEF Carries, Stored, FileIs
<1>5. FileIs'
  <2>1. Empty \in Texts  BY EmptyIsMap, EmptyIsPrinted, Zenon DEF Texts
  <2>2. DOMAIN file' = {"there", "lines", "time"} /\ file'.there = TRUE /\ file'.lines = Empty
    BY <1>1
  <2> QED  BY <2>1, <2>2, Zenon DEF FileIs
<1>6. Stored'
  <2>1. mem' \in [Config -> Maps]  BY <1>1 DEF Stored
  <2>2. Shape  BY DEF ConfigInv
  <2> QED  BY <1>2, <1>3, <1>4, <1>5, <2>1, <2>2, StoredGoesOn
<1>7. Readable' = Readable
  <2>1. /\ task'[t] = to /\ \A u \in Thread : u # t => task'[u] = task[u]
    BY <1>3, GoesTo DEF ConfigInv
  <2>2. (CHOOSE s \in {task'[u] : u \in Thread} : s.at = "write") = task'[t]
    BY <1>2, <1>3, <2>1, TheOne, Zenon
  <2>3. file'.there = TRUE  BY <1>1
  <2>4. Readable' = Parsed(file.lines)  BY <1>3, <2>1, <2>2, <2>3, Zenon DEF Readable
  <2>5. Readable = Loads  BY <1>2, NobodyWrites
  <2>6. Loads = Parsed(file.lines)
    <3>1. CASE file.there = TRUE   BY <3>1, Zenon DEF Loads
    <3>2. CASE file.there = FALSE  BY <3>2, EmptyReadsEmpty, Zenon DEF Loads, Stored, FileIs
    <3> QED  BY <3>1, <3>2, Zenon DEF Stored, FileIs
  <2> QED  BY <2>4, <2>5, <2>6
<1> QED  BY <1>1, <1>6, <1>7, NothingChanges

LEMMA WriteFileStores ==
    ASSUME ConfigInv, Stored, NEW t \in Thread, WriteFile(t)
    PROVE  Stored' /\ StoreStep
<1> DEFINE m == task[t].map
           c == task[t].on
<1>1. /\ task[t].at = "write" /\ Goes(t, Idle) /\ mem' = mem /\ base' = base
      /\ file' = IF file.there THEN [file EXCEPT !.lines = Printed(m), !.time = now] ELSE file
  BY Zenon DEF WriteFile
<1>2. m = mem[c] /\ c \in Config /\ Shape
  BY <1>1, TaskAt, Zenon DEF ConfigInv, Content, Writing, AtSave
<1>3. m \in Maps  BY <1>2 DEF Stored
<1> HIDE DEF m, c
<1>4. /\ DOMAIN file = {"there", "lines", "time"} /\ file.there \in BOOLEAN
      /\ file.lines \in Texts /\ (file.there = FALSE => file.lines = Empty)
  BY DEF Stored, FileIs
<1>5. \A u \in Thread : task'[u].at # "write"
  <2>1. Idle.at = "idle"  BY DEF Idle
  <2> QED  BY <1>1, <1>2, <2>1, GoesTo, Zenon DEF Stored, OneWriter
<1>6. FileIs' /\ (file.there = TRUE => file'.there = TRUE /\ file'.lines = Printed(m))
  <2>1. Printed(m) \in Texts  BY <1>3 DEF Texts
  <2>2. CASE file.there = TRUE
    <3>1. /\ DOMAIN file' = {"there", "lines", "time"} /\ file'.there = TRUE
          /\ file'.lines = Printed(m)
      BY <1>1, <1>4, <2>2, SMT
    <3> QED  BY <2>1, <3>1, Zenon DEF FileIs
  <2>3. CASE file.there = FALSE  BY <1>1, <1>4, <2>3, Zenon DEF FileIs
  <2> QED  BY <1>4, <2>2, <2>3
<1>7. Stored'
  <2>1. mem' \in [Config -> Maps]  BY <1>1 DEF Stored
  <2>2. Idle.at = "idle"  BY DEF Idle
  <2>3. Carries(Idle)  BY <2>2, CarriesNothing
  <2> QED  BY <1>1, <1>2, <1>6, <2>1, <2>2, <2>3, StoredGoesOn
<1>8. Readable' = Loads'  BY <1>5, Zenon DEF Readable
<1>9. CASE file.there = TRUE
  <2>1. Loads' = Parsed(Printed(m))  BY <1>6, <1>9, Zenon DEF Loads
  <2>2. Readable' = NonEmpty(mem[c])  BY <1>2, <1>3, <1>8, <2>1, ReadBack
  <2> QED  BY <1>1, <1>2, <1>7, <2>2, MapIsSaved
<1>10. CASE file.there = FALSE
  <2>1. Readable = Loads  BY <1>1, <1>10, SomebodyWrites DEF Stored
  <2>2. Loads' = Loads  BY <1>1, <1>10, Zenon DEF Loads
  <2> QED  BY <1>1, <1>7, <1>8, <2>1, <2>2, NothingChanges
<1> QED  BY <1>4, <1>9, <1>10

LEMMA RemoveFileStores ==
    ASSUME ConfigInv, Stored, NEW t \in Thread, RemoveFile(t)
    PROVE  Stored' /\ StoreStep
<1>1. /\ task[t].at = "remove" /\ Goes(t, task[t].next) /\ mem' = mem /\ base' = base
      /\ file' = [file EXCEPT !.there = FALSE, !.lines = Empty]
  BY Zenon DEF RemoveFile
<1>2. Shape /\ AtRemove(task[t])  BY <1>1, TaskAt DEF ConfigInv
<1>3. DOMAIN file = {"there", "lines", "time"}  BY DEF Stored, FileIs
<1>4. DOMAIN file' = {"there", "lines", "time"} /\ file'.there = FALSE /\ file'.lines = Empty
  BY <1>1, <1>3, SMT
<1>5. FileIs'
  <2>1. Empty \in Texts  BY EmptyIsMap, EmptyIsPrinted, Zenon DEF Texts
  <2> QED  BY <1>4, <2>1, Zenon DEF FileIs
<1>6. task[t].next.at \in {"idle", "import"} /\ Carries(task[t].next)
  <2>1. CASE task[t].next = Idle
    <3>1. Idle.at = "idle"  BY DEF Idle
    <3> QED  BY <2>1, <3>1, CarriesNothing
  <2>2. CASE AtImport(task[t].next) /\ task[t].next # Idle
    <3>1. task[t].next.at = "import"  BY <2>2 DEF AtImport
    <3>2. task[t].next.new \in Maps  BY <1>1, <2>2, Zenon DEF Stored, Carries
    <3> QED  BY <3>1, <3>2, Zenon DEF Carries
  <2> QED  BY <1>2, <2>1, <2>2 DEF AtRemove
<1>7. Stored'
  <2>1. mem' \in [Config -> Maps]  BY <1>1 DEF Stored
  <2>2. task[t].next.at # "write"  BY <1>6
  <2> QED  BY <1>1, <1>2, <1>5, <1>6, <2>1, <2>2, StoredGoesOn
<1>8. Readable' = Empty  BY <1>4, Zenon DEF Readable, Loads
<1> QED  BY <1>1, <1>7, <1>8, FileIsRemoved

LEMMA PutStores ==
    ASSUME Shape, Stored, NEW t \in Thread, task[t].at # "write", NEW o \in Object, NEW new \in Maps, NEW set,
           PutEntries(t, o, new, set), file' = file, base' = base
    PROVE  Stored' /\ StoreStep
<1> DEFINE c  == Whose(o)
           to == [at |-> "commit", on |-> c, of |-> o, set |-> set, sync |-> FALSE]
<1>1. Goes(t, to) /\ mem' = [mem EXCEPT ![c] = PutOn(mem[c], new)]  BY Zenon DEF PutEntries
<1>2. c \in Config  BY ObjectIs
<1>3. to.at = "commit"  OBVIOUS
<1> HIDE DEF c, to
<1>4. PutOn(mem[c], new) \in Maps  BY <1>2, MapsPut DEF Stored
<1>5. Carries(to)  BY <1>3, CarriesNothing
<1>6. Quiet  BY <1>1, <1>3, <1>5, QuietTask
<1> QED  BY <1>1, <1>2, <1>4, <1>6, QuietlyChanges

LEMMA KeysAre ==
    ASSUME NEW o
    PROVE  KeysOf(o) \in SUBSET Key
BY Zenon DEF KeysOf, Key

\* The steps that leave the entries and the file as they are.
LEMMA StepsThatStore ==
    ASSUME ConfigInv, Stored, NEW t \in Thread, Commit(t) \/ MarkChanged(t) \/ MergeFile(t) \/ OpenRefused(t)
    PROVE  Stored' /\ StoreStep
<1>0. Shape  BY DEF ConfigInv
<1>1. mem' = mem /\ file' = file /\ base' = base /\ task[t].at # "write"
  BY SMT DEF Commit, MarkChanged, MergeFile, OpenRefused
<1>2. CASE Commit(t) \/ MarkChanged(t) \/ OpenRefused(t)
  <2>1. \E to : Goes(t, to) /\ to.at \in {"mark", "save", "idle"}
    <3>1. CASE MarkChanged(t) \/ OpenRefused(t)
      <4>1. Idle.at = "idle"  BY DEF Idle
      <4> QED  BY <3>1, <4>1, Zenon DEF MarkChanged, OpenRefused
    <3>2. CASE Commit(t) /\ locked[task[t].of] = TRUE
      <4> DEFINE to == [task[t] EXCEPT !.at = "mark"]
      <4>1. Goes(t, to)  BY <3>2, Zenon DEF Commit
      <4>2. DOMAIN task[t] = {"at", "on", "of", "set", "sync"}
        BY <1>0, <3>2, TaskAt, Zenon DEF Commit, AtCommit
      <4>3. to.at = "mark"  BY <4>2, SMT
      <4> HIDE DEF to
      <4> QED  BY <4>1, <4>3, Zenon
    <3>3. CASE Commit(t) /\ locked[task[t].of] = FALSE
      <4> DEFINE to == [Saving(task[t].on) EXCEPT !.set = task[t].set]
      <4>1. Goes(t, to)  BY <3>3, Zenon DEF Commit
      <4>2. to.at = "save"  BY SMT DEF Saving
      <4> HIDE DEF to
      <4> QED  BY <4>1, <4>2, Zenon
    <3>4. Commit(t) => locked[task[t].of] \in BOOLEAN
      BY <1>0, TaskAt, Zenon DEF Commit, AtCommit, Shape
    <3> QED  BY <1>2, <3>1, <3>2, <3>3, <3>4, Zenon
  <2>2. PICK to : Goes(t, to) /\ to.at \in {"mark", "save", "idle"}  BY <2>1
  <2>3. Carries(to)  BY <2>2, CarriesNothing
  <2>4. Quiet  BY <1>0, <1>1, <2>2, <2>3, QuietTask
  <2> QED  BY <1>1, <2>4, QuietlyNothing
<1>3. CASE MergeFile(t)
  <2> DEFINE m  == Without(Loads, keysDeleted[task[t].on])
             to == [at |-> "ours", on |-> task[t].on, map |-> m, sync |-> TRUE]
  <2>1. m \in Maps  BY LoadsIs, MapsWithout DEF Stored
  <2>2. Goes(t, to) \/ Goes(t, Idle)  BY <1>3, Zenon DEF MergeFile
  <2>3. to.at = "ours" /\ to.map = m  OBVIOUS
  <2>4. Idle.at = "idle"  BY DEF Idle
  <2> HIDE DEF m, to
  <2>5. Carries(to)  BY <2>1, <2>3, Zenon DEF Carries
  <2>6. Carries(Idle)  BY <2>4, CarriesNothing
  <2>7. Quiet  BY <1>0, <1>1, <2>2, <2>3, <2>4, <2>5, <2>6, QuietTask
  <2> QED  BY <1>1, <2>7, QuietlyNothing
<1> QED  BY <1>2, <1>3

LEMMA StepsThatChange ==
    ASSUME ConfigInv, Stored, NEW t \in Thread, ImportEntries(t) \/ LoadFile(t) \/ MergeOurs(t)
    PROVE  Stored' /\ StoreStep
<1>0. Shape /\ Idle.at = "idle"  BY DEF ConfigInv, Idle
<1>1. file' = file /\ base' = base /\ task[t].at # "write"
  BY SMT DEF ImportEntries, LoadFile, MergeOurs
<1>2. CASE ImportEntries(t)
  <2>1. AtImport(task[t]) /\ task[t].new \in Maps
    BY <1>0, <1>2, TaskAt, Zenon DEF ImportEntries, Stored, Carries
  <2>2. PICK put : PutEntries(t, task[t].of, put, {})
                   /\ put = IF task[t].replace THEN task[t].new ELSE Without(task[t].new, DOMAIN mem[task[t].on])
    BY <1>2, Zenon DEF ImportEntries
  <2>3. put \in Maps  BY <2>1, <2>2, MapsWithout, Zenon
  <2> QED  BY <1>0, <1>1, <2>1, <2>2, <2>3, PutStores DEF AtImport
<1>3. CASE LoadFile(t)
  <2>1. task[t].on \in Config  BY <1>0, <1>3, TaskAt, Zenon DEF LoadFile, AtSync
  <2>2. Loads \in Maps  BY LoadsIs DEF Stored
  <2>3. Goes(t, Idle) /\ (mem' = mem \/ mem' = [mem EXCEPT ![task[t].on] = Loads])
    BY <1>3, Zenon DEF LoadFile
  <2>4. Carries(Idle)  BY <1>0, CarriesNothing
  <2>5. Quiet  BY <1>0, <1>1, <2>3, <2>4, QuietTask
  <2> QED  BY <1>1, <2>1, <2>2, <2>3, <2>5, QuietlyNothing, QuietlyChanges
<1>4. CASE MergeOurs(t)
  <2> DEFINE c   == task[t].on
             map == Merged(mem[c], task[t].map)
             to  == [at |-> "save", on |-> c, whole |-> FALSE, set |-> {}, sync |-> TRUE, map |-> map]
  <2>1. c \in Config /\ task[t].map \in Maps
    BY <1>0, <1>4, TaskAt, Zenon DEF MergeOurs, AtSync, Stored, Carries
  <2>2. Goes(t, to) /\ mem' = [mem EXCEPT ![c] = map]  BY <1>4, Zenon DEF MergeOurs
  <2>3. to.at = "save"  OBVIOUS
  <2>4. map \in Maps
    <3> HIDE DEF c
    <3>1. mem[c] \in Maps  BY <2>1 DEF Stored
    <3> QED  BY <2>1, <3>1, MapsPut, Zenon DEF Merged
  <2> HIDE DEF c, map, to
  <2>5. Carries(to)  BY <2>3, CarriesNothing
  <2>6. Quiet  BY <1>0, <1>1, <2>2, <2>3, <2>5, QuietTask
  <2> QED  BY <1>1, <2>1, <2>2, <2>4, <2>6, QuietlyChanges
<1> QED  BY <1>2, <1>3, <1>4

LEMMA CallsFrom ==
    ASSUME NEW t \in Thread, NEW o, NEW name, Call(t, o, name)
    PROVE  task[t] = Idle /\ task[t].at = "idle" /\ Carries(Idle) /\ Idle.at = "idle"
<1>1. task[t] = Idle  BY Zenon DEF Call, Busy
<1>2. Idle.at = "idle"  BY DEF Idle
<1> QED  BY <1>1, <1>2, CarriesNothing

LEMMA EntryIsMap ==
    ASSUME NEW o, NEW k \in KeysOf(o), NEW v \in Value
    PROVE  [x \in {k} |-> v] \in Maps
<1>1. {k} \in SUBSET Key  BY KeysAre, Zenon
<1>2. [x \in {k} |-> v] \in [{k} -> Value]  BY Zenon
<1> QED  BY <1>1, <1>2, IsMap, Zenon

\* The calls that change entries and leave nothing to be done.
LEMMA DefaultsAndErasuresStore ==
    ASSUME ConfigInv, Stored, NEW t \in Thread, NEW o \in Object, SetDefault(t, o) \/ Erase(t, o)
    PROVE  Stored' /\ StoreStep
<1> DEFINE c == Whose(o)
<1>1. c \in Config  BY ObjectIs
<1>2. mem[c] \in Maps  BY <1>1 DEF Stored
<1>3. task' = task /\ file' = file /\ base' = base  BY Zenon DEF SetDefault, Erase
<1>4. Quiet  BY <1>3, Zenon DEF Quiet
<1>5. CASE SetDefault(t, o)
  <2>1. PICK k \in KeysOf(o), v \in Value : mem' = [mem EXCEPT ![c] = PutOn([x \in {k} |-> v], mem[c])]
    BY <1>5, Zenon DEF SetDefault
  <2> DEFINE m == PutOn([x \in {k} |-> v], mem[c])
  <2>2. m \in Maps  BY <1>2, EntryIsMap, MapsPut
  <2>3. mem' = [mem EXCEPT ![c] = m]  BY <2>1
  <2> HIDE DEF m, c
  <2> QED  BY <1>1, <1>3, <1>4, <2>2, <2>3, QuietlyChanges
<1>6. CASE Erase(t, o)
  <2>1. PICK k : mem' = [mem EXCEPT ![c] = Without(mem[c], {k})]
    BY <1>6, Zenon DEF Erase
  <2> DEFINE m == Without(mem[c], {k})
  <2>2. m \in Maps  BY <1>2, MapsWithout
  <2>3. mem' = [mem EXCEPT ![c] = m]  BY <2>1
  <2> HIDE DEF m, c
  <2> QED  BY <1>1, <1>3, <1>4, <2>2, <2>3, QuietlyChanges
<1> QED  BY <1>5, <1>6

LEMMA SetStores ==
    ASSUME ConfigInv, Stored, NEW t \in Thread, NEW o \in Object, Set(t, o)
    PROVE  Stored' /\ StoreStep
<1>1. PICK k \in KeysOf(o), v \in Value :
        /\ Call(t, o, "set") /\ file' = file /\ base' = base
        /\ PutEntries(t, o, [x \in {k} |-> v], IF o[2] = "root" THEN {k} ELSE {})
  BY Zenon DEF Set
<1>2. [x \in {k} |-> v] \in Maps  BY EntryIsMap
<1>3. task[t].at # "write" /\ Shape  BY <1>1, CallsFrom DEF ConfigInv
<1> QED  BY <1>1, <1>2, <1>3, PutStores

LEMMA ClearKeysStores ==
    ASSUME Shape, Stored, NEW t \in Thread, task[t].at # "write", NEW o \in Object, NEW keys, NEW next,
           next \in {Idle} \/ (next.at = "import" /\ next.new \in Maps), next.at # "write",
           ClearKeys(t, o, keys, next)
    PROVE  Stored' /\ StoreStep
<1> DEFINE c    == Whose(o)
           gone == [at |-> "remove", on |-> c, next |-> next, sync |-> FALSE]
           m    == Without(mem[c], keys)
<1>1. /\ mem' = [mem EXCEPT ![c] = m] /\ file' = file /\ base' = base
      /\ Goes(t, gone) \/ Goes(t, next)
  BY Zenon DEF ClearKeys
<1>2. c \in Config  BY ObjectIs
<1>3. m \in Maps  BY <1>2, MapsWithout DEF Stored
<1>4. gone.at = "remove" /\ gone.next = next  OBVIOUS
<1>5. Idle.at = "idle"  BY DEF Idle
<1> HIDE DEF c, m, gone
<1>6. Carries(gone)  BY <1>4, Zenon DEF Carries
<1>7. Carries(next)
  <2>1. CASE next = Idle  BY <1>5, <2>1, CarriesNothing
  <2>2. CASE next.at = "import" /\ next.new \in Maps  BY <2>2, Zenon DEF Carries
  <2> QED  BY <2>1, <2>2
<1>8. Quiet  BY <1>1, <1>4, <1>6, <1>7, QuietTask
<1> QED  BY <1>1, <1>2, <1>3, <1>8, QuietlyChanges

LEMMA ClearStores ==
    ASSUME ConfigInv, Stored, NEW t \in Thread, NEW o \in Object, Clear(t, o) \/ Import(t, o)
    PROVE  Stored' /\ StoreStep
<1>0. Shape  BY DEF ConfigInv
<1>1. CASE Clear(t, o)
  <2>1. PICK keys : Call(t, o, "clear") /\ ClearKeys(t, o, keys, Idle)  BY <1>1, Zenon DEF Clear
  <2>2. task[t].at # "write"  BY <2>1, CallsFrom
  <2>3. Idle \in {Idle} /\ Idle.at # "write"  BY <2>1, CallsFrom
  <2> QED  BY <1>0, <2>1, <2>2, <2>3, ClearKeysStores
<1>2. CASE Import(t, o)
  <2>0. PICK keys \in {KeysOf(o), RootKey} : \E new \in [keys -> Value], clearBefore, replace \in BOOLEAN :
          /\ Call(t, o, "import")
          /\ \/ ClearKeys(t, o, KeysOf(o), Importing(o, new, replace))
             \/ Goes(t, Importing(o, new, replace)) /\ UNCHANGED <<mem, file, base>>
    BY <1>2, Zenon DEF Import
  <2>1. PICK new \in [keys -> Value], clearBefore, replace \in BOOLEAN :
          /\ Call(t, o, "import")
          /\ \/ ClearKeys(t, o, KeysOf(o), Importing(o, new, replace))
             \/ Goes(t, Importing(o, new, replace)) /\ UNCHANGED <<mem, file, base>>
    BY <2>0
  <2> DEFINE next == Importing(o, new, replace)
  <2>2. next.at = "import" /\ next.new = new  BY DEF Importing
  <2>3. keys \in SUBSET Key  BY KeysAre, Zenon DEF Key
  <2>7. new \in Maps  BY <2>3, IsMap
  <2> HIDE DEF next
  <2>4. task[t].at # "write"  BY <2>1, CallsFrom
  <2>5. CASE ClearKeys(t, o, KeysOf(o), next)
    <3>1. next.at # "write"  BY <2>2
    <3> QED
    BY <3>1, <1>0, <2>2, <2>7, <2>4, <2>5, ClearKeysStores
  <2>6. CASE Goes(t, next) /\ UNCHANGED <<mem, file, base>>
    <3>1. Carries(next)  BY <2>2, <2>7, Zenon DEF Carries
    <3>2. next.at # "write"  BY <2>2
    <3>3. Quiet  BY <1>0, <2>4, <2>6, <3>1, <3>2, QuietTask
    <3> QED  BY <2>6, <3>3, QuietlyNothing
  <2> QED  BY <2>1, <2>5, <2>6 DEF next
<1> QED  BY <1>1, <1>2

LEMMA LocksAndSyncsStore ==
    ASSUME ConfigInv, Stored, NEW t \in Thread,
           \/ \E o \in Object : Lock(t, o) \/ Unlock(t, o)
           \/ \E c \in Config : Sync(t, c)
    PROVE  Stored' /\ StoreStep
<1>0. Shape  BY DEF ConfigInv
<1>1. mem' = mem /\ file' = file /\ base' = base  BY Zenon DEF Lock, Unlock, Sync
<1>2. task' = task \/ (~Busy(t) /\ \E to : Goes(t, to) /\ to.at \in {"save", "load", "merge"})
  <2>1. CASE \E o \in Object : Lock(t, o)  BY <2>1, Zenon DEF Lock
  <2>2. ASSUME NEW o \in Object, Unlock(t, o), task' # task
        PROVE  ~Busy(t) /\ \E to : Goes(t, to) /\ to.at = "save"
    <3>1. Saving(Whose(o)).at = "save"  BY DEF Saving
    <3> QED  BY <2>2, <3>1, Zenon DEF Unlock
  <2>3. ASSUME NEW c \in Config, Sync(t, c)
        PROVE  ~Busy(t) /\ \E to : Goes(t, to) /\ to.at \in {"save", "load", "merge"}
    <3>1. SyncCase(c) \in {"save", "load", "merge"}  BY <2>3, SMT DEF SyncCase, Sync
    <3>2. SyncTask(c, SyncCase(c)).at = SyncCase(c)  BY DEF SyncTask
    <3>3. ~Busy(t) /\ Goes(t, SyncTask(c, SyncCase(c)))  BY <2>3, Zenon DEF Sync
    <3> QED  BY <3>1, <3>2, <3>3
  <2> QED  BY <2>1, <2>2, <2>3
<1>3. Quiet
  <2>1. CASE task' = task  BY <2>1, Zenon DEF Quiet
  <2>2. CASE ~Busy(t) /\ \E to : Goes(t, to) /\ to.at \in {"save", "load", "merge"}
    <3>1. PICK to : Goes(t, to) /\ to.at \in {"save", "load", "merge"}  BY <2>2
    <3>2. task[t].at # "write"  BY <1>0, <2>2, TaskAt
    <3>3. Carries(to)  BY <3>1, CarriesNothing
    <3> QED  BY <1>0, <3>1, <3>2, <3>3, QuietTask
  <2> QED  BY <1>2, <2>1, <2>2
<1> QED  BY <1>1, <1>3, QuietlyNothing

\* A new object reads the file, a program that starts again all of its objects do.
LEMMA ConstructStores ==
    ASSUME ConfigInv, Stored, "torn" \notin Quirks, NEW t \in Thread, NEW c \in Config, Construct(t, c)
    PROVE  Stored' /\ StoreStep
<1>1. /\ file' = file /\ task' = task /\ FileFree(t) /\ Call(t, <<c, "root">>, "construct")
      /\ mem' = [d \in Config |-> IF d \in {c} THEN Loads' ELSE mem[d]]
      /\ base' = [d \in Config |-> IF d \in {c} THEN mem'[d] ELSE base[d]]
  BY Zenon DEF Construct, Constructed
<1>2. Loads' = Loads /\ Loads \in Maps /\ NonEmpty(Loads) = Loads
  BY <1>1, LoadsIs, Zenon DEF Loads, Stored
<1>3. \A u \in Thread : task[u].at # "write"
  <2>1. task[t].at # "write"  BY <1>1, CallsFrom
  <2> QED  BY <1>1, <2>1, OthersKeepOff
<1>4. Readable = Loads  BY <1>3, NobodyWrites
<1>5. DOMAIN mem = Config /\ mem' \in [Config -> Maps]
  BY <1>1, <1>2, Zenon DEF Stored
<1>6. Quiet  BY <1>1, Zenon DEF Quiet
<1>7. Stored' /\ Readable' = Readable  BY <1>1, <1>5, <1>6, QuietStep
<1>8. \A d \in Config : mem'[d] = IF d = c THEN Readable ELSE mem[d]
  BY <1>1, <1>2, <1>4, Zenon
<1>9. \A d \in Config : base'[d] = IF d = c THEN Readable ELSE base[d]
  <2> SUFFICES ASSUME NEW d \in Config PROVE base'[d] = IF d = c THEN Readable ELSE base[d]
    OBVIOUS
  <2>1. CASE d = c  BY <1>1, <1>8, <2>1, Zenon
  <2>2. CASE d # c  BY <1>1, <2>2, Zenon
  <2> QED  BY <2>1, <2>2
<1> QED  BY <1>2, <1>4, <1>5, <1>7, <1>8, <1>9, StoreIsOpened

LEMMA RestartStores ==
    ASSUME ConfigInv, Stored, \A x, y \in Config \cup Thread : Home[x] = Home[y],
           NEW c \in Config, Restart(Home[c])
    PROVE  Stored' /\ StoreStep
<1> DEFINE cut == {t \in Thread : Home[t] = Home[c] /\ task[t].at = "write"}
<1>0. Idle.at = "idle" /\ Carries(Idle)
  <2>1. Idle.at = "idle"  BY DEF Idle
  <2> QED  BY <2>1, CarriesNothing
<1>1. \A t \in Thread : task'[t] = Idle  BY Zenon DEF Restart
<1>2. \A d \in Config : mem'[d] = Loads' /\ base'[d] = Loads'
  <2>1. \A d \in Config : d \in {x \in Config : Home[x] = Home[c]}  BY Zenon
  <2>2. \A d \in Config : mem'[d] = Loads'  BY <2>1, Zenon DEF Restart, Constructed
  <2>3. \A d \in Config : base'[d] = mem'[d]  BY <2>1, Zenon DEF Restart, Constructed
  <2> QED  BY <2>2, <2>3
<1>3. DOMAIN mem' = Config /\ mem' = [d \in Config |-> mem'[d]]
  BY Zenon DEF Restart, Constructed
<1>4. cut = {t \in Thread : task[t].at = "write"}  BY Zenon
<1>5. \A t \in Thread : task'[t].at # "write"  BY <1>0, <1>1
<1>6. Readable' = Loads'  BY <1>5, Zenon DEF Readable
<1>7. /\ DOMAIN file = {"there", "lines", "time"} /\ file.there \in BOOLEAN
      /\ file.lines \in Texts /\ (file.there = FALSE => file.lines = Empty)
  BY DEF Stored, FileIs
<1>8. /\ FileIs'
      /\ \/ Loads' = Readable
         \/ \E d \in Config, S \in SUBSET Key : Loads' = NonEmpty(Without(mem[d], S))
  <2>1. CASE file' = file /\ (cut = {} \/ file.there = FALSE)
    <3>1. FileIs'  BY <2>1, Zenon DEF Stored, FileIs
    <3>2. Loads' = Loads  BY <2>1, Zenon DEF Loads
    <3>3. CASE cut = {}  BY <1>4, <3>1, <3>2, <3>3, NobodyWrites, Zenon
    <3>4. CASE file.there = FALSE  BY <3>1, <3>2, <3>4, Zenon DEF Readable
    <3> QED  BY <2>1, <3>3, <3>4
  <2>2. ASSUME NEW t \in cut, NEW S \in SUBSET DOMAIN task[t].map, file.there = TRUE,
               file' = [file EXCEPT !.lines = Printed(Without(task[t].map, S))]
        PROVE  FileIs' /\ \E d \in Config, T \in SUBSET Key : Loads' = NonEmpty(Without(mem[d], T))
    <3> DEFINE d == task[t].on
               m == Without(mem[d], S)
    <3>1. d \in Config /\ task[t].map = mem[d]
      BY <2>2, TaskAt, Zenon DEF ConfigInv, Content, Writing, AtSave
    <3>2. mem[d] \in Maps  BY <3>1 DEF Stored
    <3>3. S \in SUBSET Key  BY <2>2, <3>1, <3>2, MapsAre, Zenon
    <3>4. m \in Maps  BY <3>2, MapsWithout
    <3>5. file' = [file EXCEPT !.lines = Printed(m)]  BY <2>2, <3>1
    <3> HIDE DEF m, d
    <3>6. DOMAIN file' = {"there", "lines", "time"} /\ file'.there = TRUE /\ file'.lines = Printed(m)
      BY <1>7, <2>2, <3>5, SMT
    <3>7. Printed(m) \in Texts  BY <3>4 DEF Texts
    <3>8. FileIs'  BY <3>6, <3>7, Zenon DEF FileIs
    <3>9. Loads' = NonEmpty(m)  BY <3>4, <3>6, ReadBack, Zenon DEF Loads
    <3> QED  BY <3>1, <3>3, <3>8, <3>9 DEF m
  <2>3. \/ file' = file /\ (cut = {} \/ file.there = FALSE)
        \/ file.there = TRUE /\ \E t \in cut : \E S \in SUBSET DOMAIN task[t].map :
              file' = [file EXCEPT !.lines = Printed(Without(task[t].map, S))]
    BY <1>7, Zenon DEF Restart
  <2> QED  BY <2>1, <2>2, <2>3, Zenon
<1> HIDE DEF cut
<1>9. Loads' \in Maps /\ NonEmpty(Loads') = Loads'
  <2>1. CASE file'.there = TRUE
    BY <1>8, <2>1, TextsRead, Zenon DEF Loads, FileIs
  <2>2. CASE file'.there = FALSE
    <3>1. Loads' = Empty  BY <2>2, Zenon DEF Loads
    <3>2. DOMAIN Empty = {}  BY DEF Empty
    <3>3. {k \in DOMAIN Empty : Empty[k] # <<>>} = {}  BY <3>2, Zenon
    <3>4. NonEmpty(Empty) = Empty  BY <3>3, Zenon DEF NonEmpty, Empty
    <3> QED  BY <3>1, <3>4, EmptyIsMap
  <2> QED  BY <1>8, <2>1, <2>2, Zenon DEF FileIs
<1>10. Stored'
  <2>1. mem' \in [Config -> Maps]  BY <1>2, <1>3, <1>9, Zenon
  <2>2. OneWriter'  BY <1>5, Zenon DEF OneWriter
  <2>3. \A t \in Thread : Carries(task[t])'  BY <1>0, <1>1, Zenon DEF Carries
  <2> QED  BY <1>8, <2>1, <2>2, <2>3, Zenon DEF Stored
<1>11. StoreStep
  <2>1. NonEmpty(Readable') = Readable'  BY <1>6, <1>9
  <2>2. \A d \in Config : mem'[d] = Readable' /\ base'[d] = Readable'  BY <1>2, <1>6
  <2>3. \/ Readable' = Readable
        \/ \E d \in Config, S \in SUBSET Key : Readable' = NonEmpty(Without(mem[d], S))
    BY <1>6, <1>8
  <2> QED  BY <2>1, <2>2, <2>3, StoreRestarts
<1> QED  BY <1>10, <1>11

LEMMA StoredInit == Init => Stored /\ Store!Init
<1> SUFFICES ASSUME Init PROVE Stored /\ Store!Init  OBVIOUS
<1>1. \A t \in Thread : task[t] = Idle /\ task[t].at = "idle"  BY SMT DEF Init, Idle
<1>2. FileIs
  <2>1. CASE \E map \in [Key -> Value] : file = [there |-> TRUE, lines |-> Printed(map), time |-> 0]
    <3>1. PICK map \in [Key -> Value] : file = [there |-> TRUE, lines |-> Printed(map), time |-> 0]
      BY <2>1
    <3>2. map \in Maps  BY IsMap
    <3>3. file.lines \in Texts  BY <3>1, <3>2, Zenon DEF Texts
    <3>4. DOMAIN file = {"there", "lines", "time"} /\ file.there = TRUE  BY <3>1
    <3> QED  BY <3>3, <3>4, Zenon DEF FileIs
  <2>2. CASE file = [there |-> FALSE, lines |-> Empty, time |-> 0]
    <3>1. Empty \in Texts  BY EmptyIsMap, EmptyIsPrinted, Zenon DEF Texts
    <3>2. DOMAIN file = {"there", "lines", "time"} /\ file.there = FALSE /\ file.lines = Empty  BY <2>2
    <3> QED  BY <3>1, <3>2, Zenon DEF FileIs
  <2> QED  BY <2>1, <2>2, Zenon DEF Init
<1>3. Loads \in Maps /\ NonEmpty(Loads) = Loads  BY <1>2, LoadsIs
<1>4. mem = [c \in Config |-> Loads] /\ base = [c \in Config |-> Loads]  BY Zenon DEF Init
<1>5. Stored
  <2>1. \A t \in Thread : Carries(task[t])  BY <1>1, CarriesNothing
  <2>2. OneWriter  BY <1>1, Zenon DEF OneWriter
  <2>3. mem \in [Config -> Maps]  BY <1>3, <1>4, Zenon
  <2> QED  BY <1>2, <2>1, <2>2, <2>3 DEF Stored
<1>6. Store!Init
  <2>1. Readable = Loads  BY <1>1, NobodyWrites, Zenon
  <2>2. Held = [c \in Config |-> Readable]  BY <1>3, <1>4, <2>1, Zenon DEF Held
  <2>3. Made = Held  BY <1>4, Zenon DEF Made, Held
  <2>4. Readable \in Store!Maps  BY <1>3, <2>1 DEF Maps, Store!Maps
  <2> QED  BY <2>2, <2>3, <2>4, Zenon DEF Store!Init, Held, Made
<1> QED  BY <1>5, <1>6

LEMMA StoredNext ==
    ASSUME ConfigInv, Stored, \A x, y \in Config \cup Thread : Home[x] = Home[y], "torn" \notin Quirks,
           [Next]_vars
    PROVE  Stored' /\ StoreStep
<1>1. ASSUME NEW t \in Thread, Step(t) PROVE Stored' /\ StoreStep
  BY <1>1, OpenFileStores, WriteFileStores, RemoveFileStores, StepsThatStore, StepsThatChange, Zenon DEF Step
<1>2. ASSUME NEW t \in Thread, Uses(t) PROVE Stored' /\ StoreStep
  <2>1. ASSUME NEW o \in Object, Set(t, o) \/ SetDefault(t, o) \/ Erase(t, o) \/ Clear(t, o) \/ Import(t, o)
        PROVE  Stored' /\ StoreStep
    BY <2>1, SetStores, DefaultsAndErasuresStore, ClearStores, Zenon
  <2>2. ASSUME NEW o \in Object, Lock(t, o) \/ Unlock(t, o) PROVE Stored' /\ StoreStep
    BY <2>2, LocksAndSyncsStore, Zenon
  <2>3. ASSUME NEW c \in Config, Sync(t, c) PROVE Stored' /\ StoreStep  BY <2>3, LocksAndSyncsStore, Zenon
  <2>4. ASSUME NEW c \in Config, Construct(t, c) PROVE Stored' /\ StoreStep  BY <2>4, ConstructStores, Zenon
  <2> QED  BY <1>2, <2>1, <2>2, <2>3, <2>4, Zenon DEF Uses
<1>3. ASSUME NEW p \in {Home[c] : c \in Config}, Restart(p) PROVE Stored' /\ StoreStep
  BY <1>3, RestartStores, Zenon
<1>4. CASE Tick \/ UNCHANGED vars
  <2>1. mem' = mem /\ file' = file /\ base' = base /\ task' = task  BY <1>4, Zenon DEF Tick, vars
  <2>2. Quiet  BY <2>1, Zenon DEF Quiet
  <2> QED  BY <2>1, <2>2, QuietlyNothing
<1> QED  BY <1>1, <1>2, <1>3, <1>4, Zenon DEF Next

\* The objects of one process implement a ConfigStore: where the threads keep off an
\* object that another one holds or synchronises, and off the file while one of them
\* has it open, what a reader finds changes to what one object holds at that moment,
\* to nothing, or, when the process dies, to a part of that; and a new object starts
\* with just what a reader finds.  A file that saveMap has truncated stands for what it
\* held before, until it has been written.
THEOREM ObjectsAreAConfigStore ==
    ASSUME \A x, y \in Config \cup Thread : Home[x] = Home[y],
           "overlap" \notin Quirks, "torn" \notin Quirks
    PROVE  Spec => IsAConfigStore
<1>1. Init => ConfigInv /\ Stored /\ Store!Init  BY ConfigInit, StoredInit
<1>2. ConfigInv /\ Stored /\ [Next]_vars => ConfigInv' /\ Stored' /\ StoreStep
  BY ConfigNext, StoredNext
<1> QED  BY <1>1, <1>2, PTL DEF Spec, IsAConfigStore, Store!Spec, StoreStep, Held, Made
=============================================================================

---------------------------- MODULE ConfigStore ----------------------------
(***************************************************************************)
(* What the configuration objects of one program promise together: each   *)
(* holds a map in memory, all share one saved map, and the saved map only  *)
(* ever changes as a whole - to the map one object holds at that moment,   *)
(* or to nothing - unless the program dies while it writes.                *)
(***************************************************************************)
EXTENDS FiniteSets, Functions

CONSTANTS Config, Key, Value
VARIABLES mem, saved,
          base  \* what an object read when it was made

Maps == UNION {[S -> Value] : S \in SUBSET Key}
None == [k \in {} |-> k]
Over(new, old) == [k \in DOMAIN new \cup DOMAIN old |-> IF k \in DOMAIN new THEN new[k] ELSE old[k]]
Without(map, S) == Restrict(map, DOMAIN map \ S)

Init == saved \in Maps /\ mem = [c \in Config |-> saved] /\ base = mem

\* One object's map changes in memory: entries are set, erased, cleared, loaded.
Change(c) ==
    \E new \in Maps, S \in SUBSET Key :
        mem' = [mem EXCEPT ![c] = Over(new, Without(@, S))] /\ UNCHANGED <<saved, base>>
Commit(c) == saved' = mem[c] /\ UNCHANGED <<mem, base>>
Open(c)   == mem' = [mem EXCEPT ![c] = saved] /\ base' = [base EXCEPT ![c] = saved] /\ UNCHANGED saved
Remove == saved' = None /\ UNCHANGED <<mem, base>>
\* The program dies and starts again; a save that was under way may be cut short.
Restart ==
    /\ \/ saved' = saved
       \/ \E c \in Config, S \in SUBSET Key : saved' = Without(mem[c], S)
    /\ mem' = [c \in Config |-> saved'] /\ base' = mem'

Next ==
    \/ \E c \in Config : Change(c) \/ Commit(c) \/ Open(c)
    \/ Remove
    \/ Restart
Spec == Init /\ [][Next]_<<mem, saved, base>>
=============================================================================

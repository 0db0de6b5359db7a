----------------------------- MODULE MCProgress -----------------------------
(***************************************************************************)
(* An instance of Progress: the root, a sub-task with steps, a download    *)
(* and a task that is done or not.                                         *)
(***************************************************************************)
EXTENDS Progress

CONSTANTS root, part, load, flag

Kinds  == [t \in Object |-> CASE t \in {root, part} -> "finite" [] t = load -> "variable" [] t = flag -> "boolean"]
Events == {"started", "progress", "completed", "failed", "lengthyTask"}
=============================================================================

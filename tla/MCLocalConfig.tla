--------------------------- MODULE MCLocalConfig ---------------------------
(***************************************************************************)
(* Instances of LocalConfig: two objects that stand for one file, in one   *)
(* process with two threads, or in two processes with a thread each.       *)
(***************************************************************************)
EXTENDS LocalConfig

CONSTANTS a, b, t1, t2

OneProcess   == [x \in {a, b, t1, t2} |-> "p"]
TwoProcesses == [x \in {a, b, t1, t2} |-> IF x \in {a, t1} THEN "p" ELSE "q"]

Values   == {<<>>, <<"bs", "n">>}
Both     == {"root", "group"}
Changes  == ({"set", "setDefault", "erase", "clear", "import", "lock"} \X Both) \cup ({"construct", "restart"} \X {"root"})
Syncing  == {<<"set", "root">>, <<"set", "group">>, <<"erase", "root">>, <<"clear", "root">>, <<"sync", "root">>}

\* Every text of up to five of the characters that matter to the file's format.
ASSUME EveryTextComesBack == \A n \in 0 .. 5 : \A v \in [1 .. n -> Char] : ComesBack(v)

Symmetry == Permutations({a, b}) \cup Permutations({t1, t2})
=============================================================================

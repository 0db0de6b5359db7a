------------------------------ MODULE SysExec ------------------------------
(***************************************************************************)
(* sysExec: threads that run a program, read what it writes through two    *)
(* pipes, kill it when it takes too long or when everything is aborted,    *)
(* and run it again when it fails.  This is the version for Unix.          *)
(*                                                                         *)
(* The program writes some words to its output and perhaps a word to its   *)
(* error output, which holds an error that the caller has a number for     *)
(* ("known"), the word "error", or nothing of interest.  What it changes   *)
(* in the world it does in a step of its own, which belongs to the caller's *)
(* module: child[t].todo is what is left to do.  It may hang while its     *)
(* pipes are open.  That it can be executed is taken for granted.          *)
(***************************************************************************)
EXTENDS Naturals

CONSTANTS Thread,
          PipeSize, ReadSize,
          MaxOut,      \* bounds of the instance: words that any program writes,
          MaxAborts    \* calls of abortSysExec

VARIABLES sysExecAborted,
          call,        \* how far the call of a thread is, and what it has returned
          child,       \* the process that it waits for
          aborts

execVars == <<sysExecAborted, call, child, aborts>>

ASSUME SizesAssumption == PipeSize \in Nat \ {0} /\ ReadSize \in Nat \ {0} /\ MaxOut \in Nat

Known == 100   \* the number of the error that the caller knows
Error == 253
Aborted == 254
TimedOut == 255
NotRun == 252
Failed == 256  \* what waitpid tells of the exit code 1

NoProgram == [cmd |-> "none", left |-> 0, says |-> "nothing", code |-> 0]
NoChild == [at |-> "none", left |-> 0, pipe |-> 0, says |-> "nothing", err |-> "nothing", code |-> 0, todo |-> "none"]
NoCall  == [at |-> "no", cmd |-> "none", retries |-> 0, tries |-> 0, res |-> 0, out |-> 0, lines |-> 0,
            err |-> "nothing", aborted |-> FALSE, ran |-> NoProgram]

Command == {"none", "any", "list hostonlyifs", "list dhcpservers", "hostonlyif create", "dhcpserver add",
            "dhcpserver modify", "dhcpserver enable"}
Says    == {"nothing", "known", "error"}
Program == [cmd : Command, left : Nat, says : Says, code : {0, Failed}]
Child   == [at : {"none", "runs", "closed", "zombie"}, left : Nat, pipe : Nat, says : Says, err : Says,
            code : {0, Failed}, todo : Command]
Call    == [at : {"no", "try", "poll", "reap", "judge", "delay"}, cmd : Command, retries : Nat, tries : Nat, res : Nat,
            out : Nat, lines : Nat, err : Says, aborted : BOOLEAN, ran : Program]

ExecInit ==
    /\ sysExecAborted = FALSE /\ aborts = 0
    /\ call = [t \in Thread |-> NoCall] /\ child = [t \in Thread |-> NoChild]

At(t, where)  == call[t].at = where
Goes(t, c)    == call' = [call EXCEPT ![t] = c]
Returns(t, c) == Goes(t, [c EXCEPT !.at = "no"])
NoAbort == UNCHANGED <<sysExecAborted, aborts>>

(***************************************************************************)
(* sysExec                                                                 *)
(***************************************************************************)
\* A command, which is tried so many times.
Starts(t, cmd, retries) ==
    /\ At(t, "no")
    /\ LET c == [NoCall EXCEPT !.cmd = cmd, !.retries = retries, !.res = NotRun]
       IN \/ Returns(t, c)   \* there is no such file
          \/ sysExecAborted /\ Returns(t, [c EXCEPT !.res = TimedOut])
          \/ ~sysExecAborted /\ Goes(t, [c EXCEPT !.at = "try"])
    /\ UNCHANGED child /\ NoAbort

\* "Caused by a weird bug on VirtualBox": it may say "error" and exit with 0.
Answer(c) == IF c.res # TimedOut /\ c.err = "error" THEN Error ELSE c.res

Judges(t) ==
    /\ At(t, "judge")
    /\ LET c == call[t]
           r == [c EXCEPT !.res = Answer(c), !.tries = @ + 1]
       IN  IF c.err = "known" THEN Returns(t, [c EXCEPT !.res = Known])
           ELSE IF r.res \in {0, TimedOut} THEN Returns(t, r)
           ELSE Goes(t, [r EXCEPT !.at = "delay"])
    /\ UNCHANGED child /\ NoAbort

Delays(t) ==
    /\ At(t, "delay")
    /\ IF call[t].tries < call[t].retries THEN Goes(t, [call[t] EXCEPT !.at = "try"]) ELSE Returns(t, call[t])
    /\ UNCHANGED child /\ NoAbort

(***************************************************************************)
(* __sysExec: fork, poll, and wait.                                        *)
(***************************************************************************)
\* One of the programs that the command may be; what it does is not done by one that fails.
Forks(t, programs) ==
    /\ At(t, "try")
    /\ \/ \E p \in programs :
            /\ child' = [child EXCEPT ![t] = [NoChild EXCEPT !.at = "runs", !.left = p.left, !.says = p.says,
                                              !.code = p.code, !.todo = IF p.code = 0 THEN p.cmd ELSE "none"]]
            /\ Goes(t, [call[t] EXCEPT !.at = "poll", !.out = 0, !.err = "nothing", !.ran = p])
       \/ /\ Goes(t, [call[t] EXCEPT !.at = "judge", !.res = Aborted, !.out = 0, !.err = "nothing"])
          /\ UNCHANGED child   \* there is no process left
    /\ NoAbort

Least(a, b) == IF a < b THEN a ELSE b
Closed(c)  == c.at \in {"closed", "zombie"}

\* Deviation: the pipes are closed when the program has closed its ends.
HungUpAtOnce(c) == Closed(c)

\* Neither pipe has data, and the program has closed its ends.
HungUp(c) == Closed(c) /\ c.pipe = 0 /\ c.err = "nothing"

Reads(t) ==
    /\ At(t, "poll") /\ ~HungUp(child[t])
    /\ LET c == child[t]
           n == Least(c.pipe, ReadSize)
       IN  /\ n > 0 \/ c.err # "nothing"
           /\ child' = [child EXCEPT ![t].pipe = @ - n, ![t].err = "nothing"]
           /\ Goes(t, [call[t] EXCEPT !.out = @ + n, !.err = IF c.err = "nothing" THEN @ ELSE c.err])
    /\ NoAbort

\* splitLines gives the caller what was read.
Lines(c) == c.out

HangsUp(t) ==
    /\ At(t, "poll") /\ ~sysExecAborted /\ HungUp(child[t])
    /\ Goes(t, [call[t] EXCEPT !.at = "reap", !.lines = Lines(call[t])])
    /\ UNCHANGED child /\ NoAbort

\* What is left of the call whose program was killed; "aborted" remembers why, for AbortIsFinal.
Killed(c, answer) == [c EXCEPT !.at = "judge", !.err = "error", !.res = answer, !.aborted = sysExecAborted]

\* Deviation: no time is too long.
KillsIfAborted(t) ==
    /\ At(t, "poll") /\ sysExecAborted /\ child' = [child EXCEPT ![t] = NoChild]
    /\ Goes(t, Killed(call[t], Aborted))
    /\ NoAbort

\* Everything is aborted, or the time has passed.
Kills(t) ==
    /\ At(t, "poll") /\ child' = [child EXCEPT ![t] = NoChild]
    /\ Goes(t, Killed(call[t], IF sysExecAborted THEN Aborted ELSE TimedOut))
    /\ NoAbort

\* Nothing bounds this wait.
Reaps(t) ==
    /\ At(t, "reap") /\ child[t].at = "zombie"
    /\ child' = [child EXCEPT ![t] = NoChild]
    /\ Goes(t, [call[t] EXCEPT !.at = "judge", !.res = child[t].code])
    /\ NoAbort

(***************************************************************************)
(* The program, and the application.                                       *)
(***************************************************************************)
Writes(t) ==
    /\ child[t].at = "runs"
    /\ \/ child[t].left > 0 /\ child[t].pipe < PipeSize
          /\ child' = [child EXCEPT ![t].left = @ - 1, ![t].pipe = @ + 1]
       \/ child[t].says # "nothing" /\ child[t].err = "nothing"
          /\ child' = [child EXCEPT ![t].err = child[t].says, ![t].says = "nothing"]
    /\ UNCHANGED call /\ NoAbort

Closes(t) ==
    /\ child[t].at = "runs" /\ child[t].left = 0 /\ child[t].says = "nothing" /\ child[t].todo = "none"
    /\ child' = [child EXCEPT ![t].at = "closed"]
    /\ UNCHANGED call /\ NoAbort

Exits(t) ==
    /\ child[t].at = "closed"
    /\ child' = [child EXCEPT ![t].at = "zombie"]
    /\ UNCHANGED call /\ NoAbort

abortSysExec ==
    /\ aborts < MaxAborts /\ aborts' = aborts + 1
    /\ sysExecAborted' = TRUE /\ UNCHANGED <<call, child>>

initSysExec ==
    /\ sysExecAborted /\ sysExecAborted' = FALSE
    /\ UNCHANGED <<call, child, aborts>>

Runs(t) == Judges(t) \/ Delays(t) \/ Reads(t) \/ HangsUp(t) \/ Kills(t) \/ Reaps(t)

(***************************************************************************)
(* Properties                                                              *)
(***************************************************************************)
\* The types of the state.
ExecTypeOK == sysExecAborted \in BOOLEAN /\ aborts \in Nat /\ call \in [Thread -> Call] /\ child \in [Thread -> Child]

\* The caller gets 0 only for a program that ended by itself with 0 and has complained
\* of nothing, together with all the lines it has written, and with none of an earlier try.
SuccessIsWhole ==
    \A t \in Thread : At(t, "no") /\ call[t].cmd # "none" /\ call[t].res = 0 =>
        call[t].ran.code = 0 /\ call[t].ran.says = "nothing" /\ call[t].lines = call[t].ran.left

\* "If it was successful, or we were aborted, return now. No retries." (Utilities.cpp:1248)
\* A call whose program was killed because everything was aborted runs none again.
AbortIsFinal == [][\A t \in Thread : At(t, "try") /\ call'[t].at = "poll" => ~call[t].aborted]_execVars
=============================================================================

-------------------------- MODULE HostNetworkProofs --------------------------
(***************************************************************************)
(* Proofs about SysExec and HostNetwork, for every set of threads, every   *)
(* size of the pipes and every program.                                    *)
(***************************************************************************)
EXTENDS HostNetwork, SequenceTheorems, FiniteSetTheorems, TLAPS

-----------------------------------------------------------------------------
(* One call of sysExec and the program that it runs *)

\* What was read, what is in the pipe and what is still to be written are the
\* words of the program; a complaint is in one of these three places as well.
Counted(c, k) == c.out + k.pipe + k.left = c.ran.left
Told(c, k)    == c.ran.says # "nothing" => k.says # "nothing" \/ k.err # "nothing" \/ c.err # "nothing"
Whole(c)      == c.lines = c.ran.left /\ (c.ran.says # "nothing" => c.err # "nothing")

\* The inductive invariant of a call c whose program is k.
ExecOK(c, k) ==
    /\ c.at \notin {"poll", "reap"} => k = NoChild
    /\ c.at = "poll" => /\ k.at # "none" /\ Counted(c, k) /\ Told(c, k)
                        /\ k.todo # "none" \/ k.code = 0 => c.ran.code = 0
                        /\ k.at # "runs" => k.left = 0 /\ k.says = "nothing" /\ k.todo = "none"
    /\ c.at = "reap" => k.at \in {"closed", "zombie"} /\ Whole(c) /\ (k.code = 0 => c.ran.code = 0)
    /\ c.at = "judge" /\ c.res = 0 => Whole(c) /\ c.ran.code = 0
    /\ c.at = "delay" => c.res # 0
    /\ c.at = "no" /\ c.cmd # "none" /\ c.res = 0 =>
          c.lines = c.ran.left /\ c.ran.says = "nothing" /\ c.ran.code = 0

ExecInv == ExecTypeOK /\ \A t \in Thread : ExecOK(call[t], child[t])

\* A step of one thread's call, after which the call is c and its program k.
Turns(t, c, k) == call' = [call EXCEPT ![t] = c] /\ child' = [child EXCEPT ![t] = k]

LEMMA CallTypes ==
    /\ NoCall \in Call /\ NoChild \in Child /\ NoProgram \in Program
    /\ NoCall.at = "no" /\ NoCall.cmd = "none"
  BY DEF NoCall, NoChild, NoProgram, Call, Child, Program, Says, Failed, Command

\* A step that turns one call into a good one leaves the others good.
LEMMA TurnsKeepsInv ==
    ASSUME ExecInv, NEW t \in Thread, NEW c \in Call, NEW k \in Child, Turns(t, c, k), ExecOK(c, k),
           sysExecAborted' \in BOOLEAN, aborts' \in Nat
    PROVE  ExecInv'
  BY DEF ExecInv, ExecTypeOK, Turns


\* What is known of the thread that takes a step.
LEMMA OneCall ==
    ASSUME ExecInv, NEW t \in Thread
    PROVE  /\ call[t] \in Call /\ child[t] \in Child /\ ExecOK(call[t], child[t])
           /\ sysExecAborted \in BOOLEAN /\ aborts \in Nat
           /\ child = [child EXCEPT ![t] = child[t]] /\ call = [call EXCEPT ![t] = call[t]]
  BY DEF ExecInv, ExecTypeOK

LEMMA StartsOK ==
    ASSUME ExecInv, NEW t \in Thread, NEW cmd \in Command, NEW retries \in Nat, Starts(t, cmd, retries)
    PROVE  ExecInv'
<1> DEFINE c0 == [NoCall EXCEPT !.cmd = cmd, !.retries = retries, !.res = NotRun]
<1>0. c0 \in Call
  <2>1. NotRun \in Nat
    BY DEF NotRun
  <2>2. QED
    BY <2>1, CallTypes, Zenon DEF Call
<1>1. c0.res = NotRun
  BY CallTypes DEF Call
<1>2. child[t] = NoChild
  BY OneCall DEF ExecOK, At, Starts
<1>3. UNCHANGED child /\ sysExecAborted' \in BOOLEAN /\ aborts' \in Nat
  BY OneCall DEF Starts, NoAbort
<1>4. ASSUME NEW c \in Call, Goes(t, c), c.at \in {"no", "try"}, c.res # 0
      PROVE  ExecInv'
  <2>1. ExecOK(c, NoChild)
    BY <1>4 DEF ExecOK
  <2>2. Turns(t, c, NoChild)
    BY <1>2, <1>3, <1>4, OneCall DEF Turns, Goes
  <2>3. QED
    BY <2>1, <2>2, <1>3, CallTypes, TurnsKeepsInv
<1>5. CASE Returns(t, c0)
  <2> DEFINE c == [c0 EXCEPT !.at = "no"]
  <2>1. c \in Call
    BY <1>0, Zenon DEF Call
  <2>2. c.at = "no" /\ c.res # 0
    BY <1>0, <1>1 DEF Call, NotRun
  <2>3. QED
    BY <1>4, <1>5, <2>1, <2>2 DEF Returns
<1>6. CASE Returns(t, [c0 EXCEPT !.res = TimedOut])
  <2> DEFINE c1 == [c0 EXCEPT !.res = TimedOut]
             c  == [c1 EXCEPT !.at = "no"]
  <2>0. TimedOut \in Nat /\ TimedOut # 0
    BY DEF TimedOut
  <2>1. c1 \in Call /\ c \in Call
    BY <1>0, <2>0, Zenon DEF Call
  <2>2. c.at = "no" /\ c.res # 0
    BY <1>0, <1>1, <2>0 DEF Call
  <2>3. QED
    BY <1>4, <1>6, <2>1, <2>2 DEF Returns
<1>7. CASE Goes(t, [c0 EXCEPT !.at = "try"])
  <2> DEFINE c == [c0 EXCEPT !.at = "try"]
  <2>1. c \in Call
    BY <1>0, Zenon DEF Call
  <2>2. c.at = "try" /\ c.res # 0
    BY <1>0, <1>1 DEF Call, NotRun
  <2>3. QED
    BY <1>4, <1>7, <2>1, <2>2
<1>8. QED
  BY <1>5, <1>6, <1>7 DEF Starts

LEMMA JudgesOK ==
    ASSUME ExecInv, NEW t \in Thread, Judges(t)
    PROVE  ExecInv'
<1> DEFINE c == call[t]
           r == [c EXCEPT !.res = Answer(c), !.tries = @ + 1]
<1>1. c \in Call /\ c.at = "judge" /\ ExecOK(c, child[t]) /\ child[t] = NoChild
  BY OneCall DEF Judges, At, ExecOK
<1>2. UNCHANGED child /\ sysExecAborted' \in BOOLEAN /\ aborts' \in Nat
  BY OneCall DEF Judges, NoAbort
<1>3. ASSUME NEW d \in Call, Goes(t, d), ExecOK(d, NoChild)
      PROVE  ExecInv'
  BY <1>1, <1>2, <1>3, OneCall, CallTypes, TurnsKeepsInv DEF Turns, Goes
<1>4. Known \in Nat /\ Known # 0 /\ Error \in Nat /\ Error # 0 /\ TimedOut \in Nat /\ TimedOut # 0
  BY DEF Known, Error, TimedOut
<1>5. r \in Call /\ r.at = "judge" /\ r.res = Answer(c) /\ r.ran = c.ran /\ r.lines = c.lines /\ r.err = c.err
  <2>1. Answer(c) \in Nat /\ c.tries + 1 \in Nat
    BY <1>1, <1>4 DEF Answer, Call
  <2>2. r \in Call
    BY <1>1, <2>1, Zenon DEF Call
  <2>3. QED
    BY <1>1, <2>2 DEF Call
<1>6. CASE c.err = "known"
  <2> DEFINE d0 == [c EXCEPT !.res = Known]
             d  == [d0 EXCEPT !.at = "no"]
  <2>1. d0 \in Call /\ d \in Call
    BY <1>1, <1>4, Zenon DEF Call
  <2>2. d.at = "no" /\ d.res # 0
    BY <1>1, <1>4, <2>1 DEF Call
  <2>3. ExecOK(d, NoChild)
    BY <2>2 DEF ExecOK
  <2>4. Goes(t, d)
    BY <1>6 DEF Judges, Returns
  <2>5. QED
    BY <1>3, <2>1, <2>3, <2>4
<1>7. CASE c.err # "known" /\ r.res \in {0, TimedOut}
  <2> DEFINE d == [r EXCEPT !.at = "no"]
  <2>1. d \in Call
    BY <1>5, Zenon DEF Call
  <2>2. d.at = "no" /\ d.res = r.res /\ d.ran = c.ran /\ d.lines = c.lines
    BY <1>5, <2>1 DEF Call
  <2>3. d.res = 0 => d.lines = d.ran.left /\ d.ran.says = "nothing" /\ d.ran.code = 0
    <3>1. SUFFICES ASSUME d.res = 0
                   PROVE  d.lines = d.ran.left /\ d.ran.says = "nothing" /\ d.ran.code = 0
      OBVIOUS
    <3>2. c.res = 0 /\ c.err # "error"
      BY <1>4, <1>5, <2>2, <3>1 DEF Answer
    <3>3. Whole(c) /\ c.ran.code = 0
      BY <1>1, <3>2 DEF ExecOK
    <3>4. c.err = "nothing"
      BY <1>1, <1>7, <3>2 DEF Call, Says
    <3>5. QED
      BY <2>2, <3>3, <3>4 DEF Whole
  <2>4. ExecOK(d, NoChild)
    BY <2>2, <2>3 DEF ExecOK
  <2>5. Goes(t, d)
    BY <1>7 DEF Judges, Returns
  <2>6. QED
    BY <1>3, <2>1, <2>4, <2>5
<1>8. CASE c.err # "known" /\ r.res \notin {0, TimedOut}
  <2> DEFINE d == [r EXCEPT !.at = "delay"]
  <2>1. d \in Call
    BY <1>5, Zenon DEF Call
  <2>2. d.at = "delay" /\ d.res = r.res
    BY <1>5, <2>1 DEF Call
  <2>3. ExecOK(d, NoChild)
    BY <1>8, <2>2 DEF ExecOK
  <2>4. Goes(t, d)
    BY <1>8 DEF Judges
  <2>5. QED
    BY <1>3, <2>1, <2>3, <2>4
<1>9. QED
  BY <1>6, <1>7, <1>8
LEMMA DelaysOK ==
    ASSUME ExecInv, NEW t \in Thread, Delays(t)
    PROVE  ExecInv'
<1> DEFINE c == call[t]
<1>1. c \in Call /\ c.at = "delay" /\ c.res # 0 /\ child[t] = NoChild
  BY OneCall DEF Delays, At, ExecOK
<1>2. UNCHANGED child /\ sysExecAborted' \in BOOLEAN /\ aborts' \in Nat
  BY OneCall DEF Delays, NoAbort
<1>3. ASSUME NEW at \in {"try", "no"}, Goes(t, [c EXCEPT !.at = at])
      PROVE  ExecInv'
  <2> DEFINE d == [c EXCEPT !.at = at]
  <2>1. d \in Call
    BY <1>1, Zenon DEF Call
  <2>2. ExecOK(d, NoChild)
    BY <1>1, <2>1 DEF ExecOK, Call
  <2>3. QED
    BY <1>1, <1>2, <1>3, <2>1, <2>2, OneCall, CallTypes, TurnsKeepsInv DEF Turns, Goes
<1>4. QED
  BY <1>3 DEF Delays, Returns

\* A program that may be run: what it writes is counted by a number.
LEMMA ForksOK ==
    ASSUME ExecInv, NEW t \in Thread, NEW programs \in SUBSET Program, Forks(t, programs)
    PROVE  ExecInv'
<1> DEFINE c == call[t]
<1>1. c \in Call /\ c.at = "try" /\ child[t] = NoChild
  BY OneCall DEF Forks, At, ExecOK
<1>2. sysExecAborted' \in BOOLEAN /\ aborts' \in Nat
  BY OneCall DEF Forks, NoAbort
<1>3. ASSUME NEW p \in programs,
             child' = [child EXCEPT ![t] = [NoChild EXCEPT !.at = "runs", !.left = p.left, !.says = p.says,
                                            !.code = p.code, !.todo = IF p.code = 0 THEN p.cmd ELSE "none"]],
             Goes(t, [c EXCEPT !.at = "poll", !.out = 0, !.err = "nothing", !.ran = p])
      PROVE  ExecInv'
  <2> DEFINE todo == IF p.code = 0 THEN p.cmd ELSE "none"
             k == [NoChild EXCEPT !.at = "runs", !.left = p.left, !.says = p.says, !.code = p.code, !.todo = todo]
             d == [c EXCEPT !.at = "poll", !.out = 0, !.err = "nothing", !.ran = p]
  <2>1. p \in Program /\ p.left \in Nat /\ p.says \in Says /\ p.code \in {0, Failed} /\ todo \in Command
    BY DEF Program, Command
  <2>2. k \in Child
    BY <2>1, CallTypes, Zenon DEF Child
  <2>3. d \in Call
    BY <1>1, <2>1, Zenon DEF Call, Says
  <2>4. k.at = "runs" /\ k.left = p.left /\ k.says = p.says /\ k.code = p.code /\ k.todo = todo /\ k.pipe = 0
    BY <2>1 DEF NoChild
  <2>5. d.at = "poll" /\ d.out = 0 /\ d.ran = p
    BY <1>1 DEF Call
  <2>6. ExecOK(d, k)
    BY <1>1, <2>1, <2>4, <2>5 DEF ExecOK, Counted, Told, Failed
  <2>7. QED
    BY <1>2, <1>3, <2>2, <2>3, <2>6, TurnsKeepsInv DEF Turns, Goes
<1>4. CASE Goes(t, [c EXCEPT !.at = "judge", !.res = Aborted, !.out = 0, !.err = "nothing"]) /\ UNCHANGED child
  <2> DEFINE d == [c EXCEPT !.at = "judge", !.res = Aborted, !.out = 0, !.err = "nothing"]
  <2>0. Aborted \in Nat /\ Aborted # 0
    BY DEF Aborted
  <2>1. d \in Call
    BY <1>1, <2>0, Zenon DEF Call, Says
  <2>2. d.at = "judge" /\ d.res = Aborted
    BY <1>1 DEF Call
  <2>3. ExecOK(d, NoChild)
    BY <1>1, <2>0, <2>2 DEF ExecOK
  <2>4. QED
    BY <1>1, <1>2, <1>4, <2>1, <2>3, OneCall, CallTypes, TurnsKeepsInv DEF Turns, Goes
<1>5. QED
  BY <1>3, <1>4 DEF Forks

LEMMA ReadsOK ==
    ASSUME ExecInv, NEW t \in Thread, Reads(t)
    PROVE  ExecInv'
<1> DEFINE c == call[t]
           k == child[t]
           n == Least(k.pipe, ReadSize)
           err == IF k.err = "nothing" THEN c.err ELSE k.err
           d == [c EXCEPT !.out = @ + n, !.err = err]
           q == [k EXCEPT !.pipe = @ - n, !.err = "nothing"]
<1>1. c \in Call /\ k \in Child /\ c.at = "poll" /\ ExecOK(c, k)
  BY OneCall DEF Reads, At, ExecOK
<1>2. sysExecAborted' \in BOOLEAN /\ aborts' \in Nat
  BY OneCall DEF Reads, NoAbort
<1>3. n \in Nat /\ k.pipe - n \in Nat /\ c.out + n \in Nat /\ err \in Says /\ k.pipe \in Nat /\ c.out \in Nat /\ k.left \in Nat
  BY <1>1, SizesAssumption DEF Call, Child, Least
<1>4. d \in Call /\ q \in Child
  <2>1. d \in Call
    BY <1>1, <1>3, Zenon DEF Call
  <2>2. q \in Child
    BY <1>1, <1>3, Zenon DEF Child, Says
  <2>3. QED
    BY <2>1, <2>2
<1>5. d.at = "poll" /\ d.out = c.out + n /\ d.err = err /\ d.ran = c.ran
  BY <1>1 DEF Call
<1>6. q.at = k.at /\ q.pipe = k.pipe - n /\ q.err = "nothing" /\ q.left = k.left /\ q.says = k.says /\ q.code = k.code /\ q.todo = k.todo
  BY <1>1 DEF Child
<1>7. ExecOK(d, q)
  <2>1. Counted(d, q)
    BY <1>1, <1>3, <1>5, <1>6 DEF ExecOK, Counted
  <2>2. Told(d, q)
    BY <1>1, <1>5, <1>6 DEF ExecOK, Told
  <2>3. QED
    BY <1>1, <1>5, <1>6, <2>1, <2>2 DEF ExecOK
<1>8. Turns(t, d, q)
  BY OneCall DEF Reads, Goes, Turns, ExecInv, ExecTypeOK
<1>9. QED
  BY <1>2, <1>4, <1>7, <1>8, TurnsKeepsInv

LEMMA HangsUpOK ==
    ASSUME ExecInv, NEW t \in Thread, HangsUp(t)
    PROVE  ExecInv'
<1> DEFINE c == call[t]
           k == child[t]
           d == [c EXCEPT !.at = "reap", !.lines = c.out]
<1>1. c \in Call /\ k \in Child /\ c.at = "poll" /\ ExecOK(c, k)
  BY OneCall DEF HangsUp, At, ExecOK
<1>2. sysExecAborted' \in BOOLEAN /\ aborts' \in Nat
  BY OneCall DEF HangsUp, NoAbort
<1>3. k.at \in {"closed", "zombie"} /\ k.pipe = 0 /\ k.err = "nothing"
  BY DEF HangsUp, HungUp, Closed
<1>4. d \in Call
  <2>1. c.out \in Nat
    BY <1>1 DEF Call
  <2>2. QED
    BY <1>1, <2>1, Zenon DEF Call
<1>5. d.at = "reap" /\ d.lines = c.out /\ d.ran = c.ran /\ d.err = c.err
  BY <1>1 DEF Call
<1>6. c.out = c.ran.left /\ (c.ran.says # "nothing" => c.err # "nothing") /\ (k.code = 0 => c.ran.code = 0)
  BY <1>1, <1>3 DEF ExecOK, Counted, Told, Call
<1>7. ExecOK(d, k)
  BY <1>3, <1>5, <1>6 DEF ExecOK, Whole
<1>8. Turns(t, d, k)
  BY OneCall DEF HangsUp, Goes, Turns, Lines
<1>9. QED
  BY <1>1, <1>2, <1>4, <1>7, <1>8, TurnsKeepsInv

LEMMA KillsOK ==
    ASSUME ExecInv, NEW t \in Thread, Kills(t)
    PROVE  ExecInv'
<1> DEFINE c == call[t]
           res == IF sysExecAborted THEN Aborted ELSE TimedOut
           d == [c EXCEPT !.at = "judge", !.err = "error", !.res = res, !.aborted = sysExecAborted]
<1>1. c \in Call
  BY OneCall
<1>2. sysExecAborted \in BOOLEAN /\ sysExecAborted' \in BOOLEAN /\ aborts' \in Nat
  BY OneCall DEF Kills, NoAbort
<1>3. res \in Nat /\ res # 0
  BY DEF Aborted, TimedOut
<1>4. d \in Call
  BY <1>1, <1>2, <1>3, Zenon DEF Call, Says
<1>5. d.at = "judge" /\ d.res = res /\ d.err = "error"
  BY <1>1 DEF Call
<1>6. ExecOK(d, NoChild)
  BY <1>3, <1>5 DEF ExecOK
<1>7. Turns(t, d, NoChild)
  BY DEF Kills, Killed, Goes, Turns
<1>8. QED
  BY <1>2, <1>4, <1>6, <1>7, CallTypes, TurnsKeepsInv

LEMMA ReapsOK ==
    ASSUME ExecInv, NEW t \in Thread, Reaps(t)
    PROVE  ExecInv'
<1> DEFINE c == call[t]
           k == child[t]
           d == [c EXCEPT !.at = "judge", !.res = k.code]
<1>1. c \in Call /\ k \in Child /\ c.at = "reap" /\ ExecOK(c, k)
  BY OneCall DEF Reaps, At, ExecOK
<1>2. sysExecAborted' \in BOOLEAN /\ aborts' \in Nat
  BY OneCall DEF Reaps, NoAbort
<1>3. k.code \in Nat
  BY <1>1 DEF Child, Failed
<1>4. d \in Call
  BY <1>1, <1>3, Zenon DEF Call
<1>5. d.at = "judge" /\ d.res = k.code /\ d.ran = c.ran /\ d.lines = c.lines /\ d.err = c.err
  BY <1>1 DEF Call
<1>6. ExecOK(d, NoChild)
  BY <1>1, <1>5 DEF ExecOK, Whole
<1>7. Turns(t, d, NoChild)
  BY DEF Reaps, Goes, Turns
<1>8. QED
  BY <1>2, <1>4, <1>6, <1>7, CallTypes, TurnsKeepsInv

\* A step of a program that its caller reads from.
LEMMA ChildStep ==
    ASSUME ExecInv, NEW t \in Thread, NEW k \in Child, child[t].at # "none",
           child' = [child EXCEPT ![t] = k], UNCHANGED <<call, sysExecAborted, aborts>>,
           call[t].at = "poll" => ExecOK(call[t], k),
           call[t].at = "reap" => k.at \in {"closed", "zombie"} /\ k.code = child[t].code
    PROVE  ExecInv'
<1>1. call[t].at \in {"poll", "reap"}
  <2>1. NoChild.at = "none"
    BY DEF NoChild
  <2>2. QED
    BY <2>1, OneCall DEF ExecOK
<1>2. ExecOK(call[t], k)
  BY <1>1, OneCall DEF ExecOK
<1>3. Turns(t, call[t], k)
  BY OneCall DEF Turns
<1>4. QED
  BY <1>2, <1>3, OneCall, TurnsKeepsInv

LEMMA WritesOK ==
    ASSUME ExecInv, NEW t \in Thread, Writes(t)
    PROVE  ExecInv'
<1> DEFINE c == call[t]
           k == child[t]
<1>1. c \in Call /\ k \in Child /\ k.at = "runs" /\ ExecOK(c, k)
  BY OneCall DEF Writes
<1>2. c.at = "poll"
  BY <1>1 DEF ExecOK, NoChild
<1>3. UNCHANGED <<call, sysExecAborted, aborts>>
  BY DEF Writes, NoAbort
<1>4. ASSUME k.left > 0, child' = [child EXCEPT ![t].left = @ - 1, ![t].pipe = @ + 1]
      PROVE  ExecInv'
  <2> DEFINE q == [k EXCEPT !.left = @ - 1, !.pipe = @ + 1]
  <2>1. k.left \in Nat /\ k.pipe \in Nat /\ k.left - 1 \in Nat /\ k.pipe + 1 \in Nat /\ c.out \in Nat
    BY <1>1, <1>4 DEF Child, Call
  <2>2. q \in Child
    BY <1>1, <2>1, Zenon DEF Child
  <2>3. q.at = "runs" /\ q.left = k.left - 1 /\ q.pipe = k.pipe + 1 /\ q.says = k.says /\ q.err = k.err /\ q.code = k.code /\ q.todo = k.todo
    BY <1>1 DEF Child
  <2>4. ExecOK(c, q)
    BY <1>1, <1>2, <2>1, <2>3 DEF ExecOK, Counted, Told
  <2>5. child' = [child EXCEPT ![t] = q]
    BY <1>4
  <2>6. QED
    BY <1>1, <1>2, <1>3, <2>2, <2>4, <2>5, ChildStep
<1>5. ASSUME k.says # "nothing", child' = [child EXCEPT ![t].err = child[t].says, ![t].says = "nothing"]
      PROVE  ExecInv'
  <2> DEFINE q == [k EXCEPT !.err = k.says, !.says = "nothing"]
  <2>1. k.says \in Says /\ "nothing" \in Says
    BY <1>1 DEF Child, Says
  <2>2. q \in Child
    BY <1>1, <2>1, Zenon DEF Child
  <2>3. q.at = "runs" /\ q.left = k.left /\ q.pipe = k.pipe /\ q.says = "nothing" /\ q.err = k.says /\ q.code = k.code /\ q.todo = k.todo
    BY <1>1 DEF Child
  <2>4. ExecOK(c, q)
    BY <1>1, <1>2, <1>5, <2>1, <2>3 DEF ExecOK, Counted, Told
  <2>5. child' = [child EXCEPT ![t] = q]
    BY <1>5
  <2>6. QED
    BY <1>1, <1>2, <1>3, <2>2, <2>4, <2>5, ChildStep
<1>6. QED
  BY <1>4, <1>5 DEF Writes

LEMMA ClosesOK ==
    ASSUME ExecInv, NEW t \in Thread, Closes(t)
    PROVE  ExecInv'
<1> DEFINE c == call[t]
           k == child[t]
           q == [k EXCEPT !.at = "closed"]
<1>1. c \in Call /\ k \in Child /\ k.at = "runs" /\ ExecOK(c, k)
  BY OneCall DEF Closes
<1>2. c.at = "poll"
  BY <1>1 DEF ExecOK, NoChild
<1>3. UNCHANGED <<call, sysExecAborted, aborts>>
  BY DEF Closes, NoAbort
<1>4. q \in Child
  BY <1>1, Zenon DEF Child
<1>5. q.at = "closed" /\ q.left = k.left /\ q.pipe = k.pipe /\ q.says = k.says /\ q.err = k.err /\ q.code = k.code /\ q.todo = k.todo
  BY <1>1 DEF Child
<1>6. ExecOK(c, q)
  BY <1>1, <1>2, <1>5 DEF ExecOK, Counted, Told, Closes
<1>7. child' = [child EXCEPT ![t] = q]
  BY DEF Closes
<1>8. QED
  BY <1>1, <1>2, <1>3, <1>4, <1>6, <1>7, ChildStep

LEMMA ExitsOK ==
    ASSUME ExecInv, NEW t \in Thread, Exits(t)
    PROVE  ExecInv'
<1> DEFINE c == call[t]
           k == child[t]
           q == [k EXCEPT !.at = "zombie"]
<1>1. c \in Call /\ k \in Child /\ k.at = "closed" /\ ExecOK(c, k)
  BY OneCall DEF Exits
<1>2. UNCHANGED <<call, sysExecAborted, aborts>>
  BY DEF Exits, NoAbort
<1>3. q \in Child
  BY <1>1, Zenon DEF Child
<1>4. q.at = "zombie" /\ q.left = k.left /\ q.pipe = k.pipe /\ q.says = k.says /\ q.err = k.err /\ q.code = k.code /\ q.todo = k.todo
  BY <1>1 DEF Child
<1>5. c.at = "poll" => ExecOK(c, q)
  BY <1>1, <1>4 DEF ExecOK, Counted, Told
<1>6. child' = [child EXCEPT ![t] = q]
  BY DEF Exits
<1>7. QED
  BY <1>1, <1>2, <1>3, <1>4, <1>5, <1>6, ChildStep

LEMMA ActsOK ==
    ASSUME ExecInv, NEW t \in Thread, Acts(t)
    PROVE  ExecInv'
<1> DEFINE c == call[t]
           k == child[t]
           code == IF Can(k.todo, net[t].on) THEN 0 ELSE Failed
           q == [k EXCEPT !.todo = "none", !.code = code]
<1>1. c \in Call /\ k \in Child /\ k.at = "runs" /\ k.todo # "none" /\ ExecOK(c, k)
  BY OneCall DEF Acts
<1>2. c.at = "poll"
  BY <1>1 DEF ExecOK, NoChild
<1>3. UNCHANGED <<call, sysExecAborted, aborts>>
  BY DEF Acts
<1>4. code \in {0, Failed} /\ "none" \in Command
  BY DEF Command
<1>5. q \in Child
  BY <1>1, <1>4, Zenon DEF Child
<1>6. q.at = "runs" /\ q.left = k.left /\ q.pipe = k.pipe /\ q.says = k.says /\ q.err = k.err
  BY <1>1 DEF Child
<1>7. c.ran.code = 0
  BY <1>1, <1>2 DEF ExecOK
<1>8. ExecOK(c, q)
  BY <1>1, <1>2, <1>6, <1>7 DEF ExecOK, Counted, Told
<1>9. child' = [child EXCEPT ![t] = q]
  BY DEF Acts
<1>10. QED
  BY <1>1, <1>2, <1>3, <1>5, <1>8, <1>9, ChildStep

LEMMA AbortOK ==
    ASSUME ExecInv, abortSysExec \/ initSysExec \/ UNCHANGED execVars
    PROVE  ExecInv'
<1>1. UNCHANGED <<call, child>>
  BY DEF abortSysExec, initSysExec, execVars
<1>2. sysExecAborted' \in BOOLEAN
  BY DEF ExecInv, ExecTypeOK, abortSysExec, initSysExec, execVars
<1>3. aborts' \in Nat
  <2>1. aborts \in Nat
    BY DEF ExecInv, ExecTypeOK
  <2>2. QED
    BY <2>1 DEF abortSysExec, initSysExec, execVars
<1>4. QED
  BY <1>1, <1>2, <1>3 DEF ExecInv, ExecTypeOK

-----------------------------------------------------------------------------
(* The types of HostNetwork *)

NetType == calls \in Nat /\ others \in Nat /\ adapters \in Seq(Adapter) /\ net \in [Thread -> Net]

LEMMA NetTypes ==
    /\ NoNet \in Net /\ NoNet.at = "no" /\ NoNet.created = 0 /\ NoNet.answer = "none" /\ NoNet.dhcps = {}
    /\ NoNet.ifs = <<>> /\ "none" \in Command /\ Tries = 1
  BY DEF NoNet, Net, Command, Tries

LEMMA AdapterFields == ASSUME NEW a \in Adapter PROVE a.name \in 1 .. MaxAdapters /\ a.name \in Nat /\ a.dhcp \in DHCP
  BY BoundsAssumption DEF Adapter

\* The numbers of the adapters of a sequence are numbers.
LEMMA SeqOfAdapters ==
    ASSUME NEW as \in Seq(Adapter)
    PROVE  /\ Len(as) \in Nat /\ DOMAIN as = 1 .. Len(as)
           /\ \A i \in 1 .. Len(as) : as[i] \in Adapter /\ as[i].name \in Nat /\ as[i].name \in Names(as)
<1>1. Len(as) \in Nat /\ DOMAIN as = 1 .. Len(as) /\ \A i \in 1 .. Len(as) : as[i] \in Adapter
  BY LenProperties, ElementOfSeq
<1>2. \A i \in 1 .. Len(as) : as[i].name \in Nat
  BY <1>1, AdapterFields
<1>3. \A i \in 1 .. Len(as) : as[i].name \in Names(as)
  BY <1>1 DEF Names
<1>4. QED
  BY <1>1, <1>2, <1>3

LEMMA SetType ==
    ASSUME adapters \in Seq(Adapter), NEW name, NEW d \in DHCP
    PROVE  Set(name, d) \in Seq(Adapter)
<1>1. /\ Len(adapters) \in Nat /\ DOMAIN adapters = 1 .. Len(adapters)
      /\ \A i \in 1 .. Len(adapters) : adapters[i] \in Adapter
  BY SeqOfAdapters
<1>2. \A a \in Adapter : [a EXCEPT !.dhcp = d] \in Adapter
  BY Zenon DEF Adapter
<1>3. Set(name, d) \in [1 .. Len(adapters) -> Adapter]
  BY <1>1, <1>2 DEF Set
<1>4. QED
  BY <1>1, <1>3, SeqDef

LEMMA NewAdapterType ==
    ASSUME FreeNames # {}, NEW d \in DHCP
    PROVE  NewAdapter(d) \in Adapter
<1> DEFINE name == CHOOSE n \in FreeNames : TRUE
<1>1. name \in 1 .. MaxAdapters
  BY DEF FreeNames
<1>2. NewAdapter(d) = [name |-> name, dhcp |-> d]
  BY DEF NewAdapter
<1> HIDE DEF name
<1>3. QED
  BY <1>1, <1>2 DEF Adapter

\* What a program of a command writes is counted by a number.
LEMMA ProgramsType ==
    ASSUME adapters \in Seq(Adapter), NEW cmd \in Command
    PROVE  /\ Programs(cmd) \subseteq Program
           /\ \A p \in Programs(cmd) : p.cmd = cmd /\ (cmd = "list hostonlyifs" => p.left = Len(adapters))
<1>1. Len(adapters) \in Nat /\ DOMAIN adapters = 1 .. Len(adapters)
  BY SeqOfAdapters
<1>2. Cardinality(Served) \in Nat
  <2>1. IsFiniteSet(1 .. Len(adapters))
    BY <1>1, FS_Interval
  <2>2. Served \in SUBSET (1 .. Len(adapters))
    BY <1>1 DEF Served
  <2>3. IsFiniteSet(Served)
    BY <2>1, <2>2, FS_Subset
  <2>4. QED
    BY <2>3, FS_CardinalityType
<1>3. (\A w \in Written(cmd) : w \in Nat) /\ (cmd = "list hostonlyifs" => Written(cmd) = {Len(adapters)})
  <2>1. CASE cmd = "list hostonlyifs"
    BY <1>1, <2>1 DEF Written
  <2>2. CASE cmd = "list dhcpservers"
    BY <1>2, <2>2 DEF Written
  <2>3. CASE cmd = "any"
    <3>1. Written(cmd) = 0 .. MaxOut
      BY <2>3 DEF Written
    <3>2. QED
      BY <2>3, <3>1, SizesAssumption
  <2>4. CASE cmd \notin {"list hostonlyifs", "list dhcpservers", "any"}
    <3>1. Written(cmd) = {0} /\ cmd # "list hostonlyifs"
      BY <2>4 DEF Written
    <3>2. \A w \in {0} : w \in Nat
      OBVIOUS
    <3>3. QED
      BY <3>1, <3>2, Zenon
  <2>5. QED
    BY <2>1, <2>2, <2>3, <2>4
<1>4. SUFFICES ASSUME NEW p \in Programs(cmd)
               PROVE  p \in Program /\ p.cmd = cmd /\ (cmd = "list hostonlyifs" => p.left = Len(adapters))
  OBVIOUS
<1>5. {"nothing", "error"} \cup (IF cmd = "any" THEN {"known"} ELSE {}) \subseteq Says
  BY DEF Says
<1>6. p \in Program
  BY <1>3, <1>4, <1>5, Zenon DEF Programs, Program
<1>7. p.cmd = cmd /\ p.left \in Written(cmd)
  BY <1>4, Zenon DEF Programs
<1>8. QED
  BY <1>3, <1>6, <1>7

LEMMA InitOK ==
    ASSUME Init
    PROVE  ExecInv /\ NetType
<1>1. ExecInv
  <2>1. ExecOK(NoCall, NoChild)
    BY DEF ExecOK, NoCall
  <2>2. QED
    BY <2>1, CallTypes DEF Init, ExecInit, ExecInv, ExecTypeOK
<1>2. adapters \in Seq(Adapter)
  <2>0. PICK n \in 0 .. 2 : \E d \in [1 .. n -> DHCP] : adapters = [i \in 1 .. n |-> [name |-> i, dhcp |-> d[i]]]
    BY DEF Init
  <2>1. PICK d \in [1 .. n -> DHCP] : adapters = [i \in 1 .. n |-> [name |-> i, dhcp |-> d[i]]]
    BY <2>0
  <2>2. \A i \in 1 .. n : [name |-> i, dhcp |-> d[i]] \in Adapter
    BY BoundsAssumption DEF Adapter
  <2>3. adapters \in [1 .. n -> Adapter]
    BY <2>1, <2>2
  <2>4. QED
    BY <2>3, SeqDef
<1>3. QED
  BY <1>1, <1>2, NetTypes DEF Init, NetType

-----------------------------------------------------------------------------
(* One search: its state n, its command's call c and the program k of that call *)

Ats == {"no", "gotIfs", "created", "gotIfsAgain", "gotDhcps", "each", "modified", "enabled", "added"}

\* The command that is waited for.
Asked(at) ==
    CASE at \in {"gotIfs", "gotIfsAgain"} -> "list hostonlyifs"
      [] at = "created"  -> "hostonlyif create"
      [] at = "gotDhcps" -> "list dhcpservers"
      [] at = "modified" -> "dhcpserver modify"
      [] at = "enabled"  -> "dhcpserver enable"
      [] OTHER           -> "dhcpserver add"

\* A search waits for its own command, and a program does what its call asks for.
AsksOK(n, c, k) ==
    /\ n.at \in {"no", "each"} => c.at = "no" \/ (n.at = "no" /\ c.cmd = "any")
    /\ n.at \notin {"no", "each"} => c.cmd = Asked(n.at)
    /\ k.todo \in {"none", c.cmd}

\* A program has been run and has not failed so far.
Reports(c) == c.at \in {"poll", "reap"} \/ (c.at \in {"judge", "no"} /\ c.res = 0)

\* The adapters that were listed: a list that has succeeded is all there, and the search goes
\* on with one of them.
ListOK(n, c) ==
    /\ n.at \in {"gotIfs", "gotIfsAgain"} /\ Reports(c) => c.ran.left = Len(n.ifs)
    /\ n.at \in {"gotDhcps", "each", "modified", "enabled", "added"} => n.ifs # <<>>
    /\ n.at \in {"each", "modified", "enabled"} => n.i >= 1
    /\ n.at \in {"modified", "enabled", "added"} => n.on \in Names(n.ifs)

\* Adapters are created by one command, which is tried once.
CreateOK(n, c, k) ==
    /\ n.created <= 1
    /\ n.at = "gotIfs" => n.created = 0
    /\ n.at = "created" => /\ c.retries = 1
                           /\ c.at \in {"try", "poll", "reap", "judge"} => c.tries = 0
                           /\ c.at = "delay" => c.tries = 1
                           /\ c.at = "try" \/ k.todo # "none" => n.created = 0

NetOK(n, c, k) == AsksOK(n, c, k) /\ ListOK(n, c) /\ CreateOK(n, c, k)

NetInv == ExecInv /\ NetType /\ \A t \in Thread : NetOK(net[t], call[t], child[t])

\* While nobody else changes the network: its adapters stay, and so does every server that was
\* seen to run, but for one that the search itself stops; a command that has succeeded started it.
Started(c, k) ==
    \/ c.at = "poll" /\ k.todo = "none" /\ k.code = 0
    \/ c.at = "reap" /\ k.code = 0
    \/ c.at \in {"judge", "no"} /\ c.res = 0

ServedOK(n, c, k) ==
    /\ Names(n.ifs) \subseteq Names(adapters)
    /\ \A a \in n.dhcps : a.dhcp = "on" => Is(a.name, {"on"})
    /\ n.at \in {"no", "gotIfs", "created", "gotIfsAgain"} => n.dhcps = {}
    /\ n.at = "modified" => \A a \in n.dhcps : ~(a.name = n.on /\ a.dhcp = "on")
    /\ n.at \in {"enabled", "added"} /\ Started(c, k) => Is(n.on, {"on"})
    /\ n.answer = "OK" => /\ n.at = "no" /\ n.adapter \in Names(adapters)
                          /\ \E name \in Names(n.ifs) : Is(name, {"on"})

ServedAt(t) == ServedOK(net[t], call[t], child[t])
ServedInv   == others = 0 => \A t \in Thread : ServedAt(t)

\* What the steps of a call and of its program, from c and k to d and q, have in common.
Moves(c, k, d, q) ==
    /\ c.at # "no" /\ d.cmd = c.cmd /\ d.retries = c.retries /\ d.ran = c.ran /\ q.todo \in {k.todo, "none"}
    /\ Reports(d) => Reports(c)
    /\ Started(d, q) => Started(c, k)
    /\ d.at \in {"poll", "reap", "judge"} => c.at \in {"try", "poll", "reap"} /\ d.tries = c.tries
    /\ d.at = "delay" => c.at = "judge" /\ d.tries = c.tries + 1
    /\ d.at = "try" => c.at = "delay" /\ c.tries < c.retries /\ d.tries = c.tries

OnlyOf(t) == \A u \in Thread \ {t} : call'[u] = call[u] /\ child'[u] = child[u]
MovesOnly(t) == Moves(call[t], child[t], call'[t], child'[t]) /\ OnlyOf(t)

LEMMA JudgesMove ==
    ASSUME ExecInv, NEW t \in Thread, Judges(t)
    PROVE  MovesOnly(t)
<1> DEFINE c == call[t]
           r == [c EXCEPT !.res = Answer(c), !.tries = @ + 1]
<1>1. c \in Call /\ c.at = "judge" /\ child[t] = NoChild /\ UNCHANGED child
  BY OneCall DEF Judges, At, ExecOK, NoAbort
<1>2. r \in Call /\ r.res = Answer(c) /\ r.ran = c.ran /\ r.tries = c.tries + 1 /\ r.cmd = c.cmd /\ r.retries = c.retries
  <2>1. Answer(c) \in Nat /\ c.tries + 1 \in Nat
    BY <1>1 DEF Answer, Call, Error
  <2>2. r \in Call
    BY <1>1, <2>1, Zenon DEF Call
  <2>3. QED
    BY <1>1, <2>2 DEF Call
<1>3. NoChild.todo = "none"
  BY DEF NoChild
<1>4. PICK d \in Call : Goes(t, d) /\ d.cmd = c.cmd /\ d.retries = c.retries /\ d.ran = c.ran
                        /\ ((d.at = "no" /\ (d.res = 0 => c.res = 0)) \/ (d.at = "delay" /\ d.tries = c.tries + 1))
  <2>1. CASE c.err = "known"
    <3> DEFINE d == [[c EXCEPT !.res = Known] EXCEPT !.at = "no"]
    <3>1. d \in Call
      <4>1. Known \in Nat
        BY DEF Known
      <4>2. QED
        BY <1>1, <4>1, Zenon DEF Call
    <3>2. d.at = "no" /\ d.res # 0 /\ d.cmd = c.cmd /\ d.retries = c.retries /\ d.ran = c.ran
      BY <1>1 DEF Call, Known
    <3>3. Goes(t, d)
      BY <2>1 DEF Judges, Returns
    <3>4. QED
      BY <3>1, <3>2, <3>3
  <2>2. CASE c.err # "known" /\ r.res \in {0, TimedOut}
    <3> DEFINE d == [r EXCEPT !.at = "no"]
    <3>1. d \in Call
      BY <1>2, Zenon DEF Call
    <3>2. d.at = "no" /\ d.res = Answer(c) /\ d.cmd = c.cmd /\ d.retries = c.retries /\ d.ran = c.ran
      BY <1>2 DEF Call
    <3>3. Goes(t, d)
      BY <2>2 DEF Judges, Returns
    <3>4. Answer(c) = 0 => c.res = 0
      BY DEF Answer, Error
    <3>5. QED
      BY <3>1, <3>2, <3>3, <3>4
  <2>3. CASE c.err # "known" /\ r.res \notin {0, TimedOut}
    <3> DEFINE d == [r EXCEPT !.at = "delay"]
    <3>1. d \in Call
      BY <1>2, Zenon DEF Call
    <3>2. d.at = "delay" /\ d.tries = c.tries + 1 /\ d.cmd = c.cmd /\ d.retries = c.retries /\ d.ran = c.ran
      BY <1>2 DEF Call
    <3>3. Goes(t, d)
      BY <2>3 DEF Judges
    <3>4. QED
      BY <3>1, <3>2, <3>3
  <2>4. QED
    BY <2>1, <2>2, <2>3
<1>5. call'[t] = d /\ child'[t] = NoChild /\ OnlyOf(t)
  BY <1>1, <1>4 DEF Goes, OnlyOf, ExecInv, ExecTypeOK
<1>6. QED
  BY <1>1, <1>3, <1>4, <1>5 DEF MovesOnly, Moves, Reports, Started

LEMMA DelaysMove ==
    ASSUME ExecInv, NEW t \in Thread, Delays(t)
    PROVE  MovesOnly(t)
<1> DEFINE c == call[t]
<1>1. c \in Call /\ c.at = "delay" /\ c.res # 0 /\ child[t] = NoChild /\ UNCHANGED child
  BY OneCall DEF Delays, At, ExecOK, NoAbort
<1>2. NoChild.todo = "none"
  BY DEF NoChild
<1>3. ASSUME NEW at \in {"try", "no"}, Goes(t, [c EXCEPT !.at = at]), at = "try" => c.tries < c.retries
      PROVE  MovesOnly(t)
  <2> DEFINE d == [c EXCEPT !.at = at]
  <2>1. d.at = at /\ d.cmd = c.cmd /\ d.retries = c.retries /\ d.ran = c.ran /\ d.res = c.res /\ d.tries = c.tries
    BY <1>1 DEF Call
  <2>2. call'[t] = d /\ child'[t] = NoChild /\ OnlyOf(t)
    BY <1>1, <1>3 DEF Goes, OnlyOf, ExecInv, ExecTypeOK
  <2> HIDE DEF d
  <2>3. QED
    BY <1>1, <1>2, <1>3, <2>1, <2>2 DEF MovesOnly, Moves, Reports, Started
<1>4. QED
  BY <1>3 DEF Delays, Returns

LEMMA ReadsMove ==
    ASSUME ExecInv, NEW t \in Thread, Reads(t)
    PROVE  MovesOnly(t)
<1> DEFINE c == call[t]
           k == child[t]
           n == Least(k.pipe, ReadSize)
           err == IF k.err = "nothing" THEN c.err ELSE k.err
           d == [c EXCEPT !.out = @ + n, !.err = err]
           q == [k EXCEPT !.pipe = @ - n, !.err = "nothing"]
<1>1. c \in Call /\ k \in Child /\ c.at = "poll"
  BY OneCall DEF Reads, At
<1>2. d.at = "poll" /\ d.cmd = c.cmd /\ d.retries = c.retries /\ d.ran = c.ran /\ d.tries = c.tries
  BY <1>1 DEF Call
<1>3. q.todo = k.todo /\ q.code = k.code
  BY <1>1 DEF Child
<1>4. call'[t] = d /\ child'[t] = q /\ OnlyOf(t)
  BY DEF Reads, Goes, OnlyOf, ExecInv, ExecTypeOK
<1> HIDE DEF d, q
<1>5. QED
  BY <1>1, <1>2, <1>3, <1>4 DEF MovesOnly, Moves, Reports, Started

LEMMA HangsUpMove ==
    ASSUME ExecInv, NEW t \in Thread, HangsUp(t)
    PROVE  MovesOnly(t)
<1> DEFINE c == call[t]
           k == child[t]
           d == [c EXCEPT !.at = "reap", !.lines = c.out]
<1>1. c \in Call /\ k \in Child /\ c.at = "poll" /\ ExecOK(c, k)
  BY OneCall DEF HangsUp, At
<1>2. k.todo = "none"
  BY <1>1 DEF HangsUp, HungUp, Closed, ExecOK
<1>3. d.at = "reap" /\ d.cmd = c.cmd /\ d.retries = c.retries /\ d.ran = c.ran /\ d.tries = c.tries
  BY <1>1 DEF Call
<1>4. call'[t] = d /\ child'[t] = k /\ OnlyOf(t)
  BY DEF HangsUp, Goes, OnlyOf, ExecInv, ExecTypeOK, Lines
<1> HIDE DEF d
<1>5. QED
  BY <1>1, <1>2, <1>3, <1>4 DEF MovesOnly, Moves, Reports, Started

LEMMA KillsMove ==
    ASSUME ExecInv, NEW t \in Thread, Kills(t)
    PROVE  MovesOnly(t)
<1> DEFINE c == call[t]
           res == IF sysExecAborted THEN Aborted ELSE TimedOut
           d == [c EXCEPT !.at = "judge", !.err = "error", !.res = res, !.aborted = sysExecAborted]
<1>1. c \in Call /\ c.at = "poll"
  BY OneCall DEF Kills, At
<1>2. d.at = "judge" /\ d.cmd = c.cmd /\ d.retries = c.retries /\ d.ran = c.ran /\ d.tries = c.tries /\ d.res # 0
  BY <1>1 DEF Call, Aborted, TimedOut
<1>3. call'[t] = d /\ child'[t] = NoChild /\ OnlyOf(t)
  BY DEF Kills, Killed, Goes, OnlyOf, ExecInv, ExecTypeOK
<1>4. NoChild.todo = "none"
  BY DEF NoChild
<1> HIDE DEF d
<1>5. QED
  BY <1>1, <1>2, <1>3, <1>4 DEF MovesOnly, Moves, Reports, Started

LEMMA ReapsMove ==
    ASSUME ExecInv, NEW t \in Thread, Reaps(t)
    PROVE  MovesOnly(t)
<1> DEFINE c == call[t]
           k == child[t]
           d == [c EXCEPT !.at = "judge", !.res = k.code]
<1>1. c \in Call /\ c.at = "reap"
  BY OneCall DEF Reaps, At
<1>2. d.at = "judge" /\ d.cmd = c.cmd /\ d.retries = c.retries /\ d.ran = c.ran /\ d.tries = c.tries /\ d.res = k.code
  BY <1>1 DEF Call
<1>3. call'[t] = d /\ child'[t] = NoChild /\ OnlyOf(t)
  BY DEF Reaps, Goes, OnlyOf, ExecInv, ExecTypeOK
<1>4. NoChild.todo = "none"
  BY DEF NoChild
<1> HIDE DEF d
<1>5. QED
  BY <1>1, <1>2, <1>3, <1>4 DEF MovesOnly, Moves, Reports, Started

LEMMA RunsMove ==
    ASSUME ExecInv, NEW t \in Thread, Runs(t)
    PROVE  ExecInv' /\ MovesOnly(t)
<1>1. CASE Judges(t)
  BY <1>1, JudgesOK, JudgesMove
<1>2. CASE Delays(t)
  BY <1>2, DelaysOK, DelaysMove
<1>3. CASE Reads(t)
  BY <1>3, ReadsOK, ReadsMove
<1>4. CASE HangsUp(t)
  BY <1>4, HangsUpOK, HangsUpMove
<1>5. CASE Kills(t)
  BY <1>5, KillsOK, KillsMove
<1>6. CASE Reaps(t)
  BY <1>6, ReapsOK, ReapsMove
<1>7. QED
  BY <1>1, <1>2, <1>3, <1>4, <1>5, <1>6 DEF Runs

LEMMA ProgramMoves ==
    ASSUME ExecInv, NEW t \in Thread, Writes(t) \/ Closes(t) \/ Exits(t)
    PROVE  ExecInv' /\ MovesOnly(t)
<1> DEFINE c == call[t]
           k == child[t]
           q == child'[t]
<1>1. ExecInv'
  BY WritesOK, ClosesOK, ExitsOK
<1>2. c \in Call /\ k \in Child /\ ExecOK(c, k) /\ UNCHANGED call
  BY OneCall DEF Writes, Closes, Exits
<1>3. c.at \in {"poll", "reap"}
  BY <1>2 DEF ExecOK, Writes, Closes, Exits, NoChild
<1>4. q.todo = k.todo /\ q.code = k.code
  <2>1. CASE Writes(t)
    BY <1>2, <2>1 DEF Writes, ExecInv, ExecTypeOK, Child
  <2>2. CASE Closes(t)
    BY <1>2, <2>2 DEF Closes, ExecInv, ExecTypeOK, Child
  <2>3. CASE Exits(t)
    BY <1>2, <2>3 DEF Exits, ExecInv, ExecTypeOK, Child
  <2>4. QED
    BY <2>1, <2>2, <2>3
<1>5. OnlyOf(t)
  BY <1>2 DEF OnlyOf, Writes, Closes, Exits, ExecInv, ExecTypeOK
<1>6. QED
  BY <1>1, <1>2, <1>3, <1>4, <1>5 DEF MovesOnly, Moves, Reports, Started

-----------------------------------------------------------------------------
(* Every step keeps what a search relies on *)

NetOfOnly(t) == \A u \in Thread \ {t} : net'[u] = net[u]

LEMMA OneNet ==
    ASSUME NetInv, NEW t \in Thread
    PROVE  /\ ExecInv /\ NetType /\ NetOK(net[t], call[t], child[t]) /\ ExecOK(call[t], child[t])
           /\ net[t] \in Net /\ net[t].ifs \in Seq(Adapter) /\ net[t].dhcps \in SUBSET Adapter /\ net[t].i \in Nat
           /\ net[t].created \in Nat /\ net[t].at \in Ats /\ calls \in Nat /\ others \in Nat
<1>1. net[t] \in Net
  BY DEF NetInv, NetType
<1>2. QED
  BY <1>1 DEF NetInv, NetType, Net, Ats, ExecInv

LEMMA TurnsNet ==
    ASSUME NetInv, NEW t \in Thread, ExecInv', NetType', OnlyOf(t), NetOfOnly(t),
           NetOK(net'[t], call'[t], child'[t])
    PROVE  NetInv'
  BY DEF NetInv, OnlyOf, NetOfOnly

LEMMA MovesKeepNet ==
    ASSUME NEW n, NEW c, NEW k, NEW d, NEW q, NetOK(n, c, k), Moves(c, k, d, q), c.tries \in Nat, c.retries \in Nat
    PROVE  NetOK(n, d, q)
<1>1. AsksOK(n, d, q)
  BY DEF NetOK, AsksOK, Moves
<1>2. ListOK(n, d)
  BY DEF NetOK, ListOK, Moves
<1>3. CreateOK(n, d, q)
  BY DEF NetOK, CreateOK, Moves
<1>4. QED
  BY <1>1, <1>2, <1>3 DEF NetOK

LEMMA MovesNet ==
    ASSUME NetInv, NEW t \in Thread, ExecInv', MovesOnly(t), UNCHANGED netVars
    PROVE  NetInv'
<1>1. call[t].tries \in Nat /\ call[t].retries \in Nat
  BY OneCall, OneNet DEF Call
<1>2. NetOK(net[t], call'[t], child'[t])
  BY <1>1, OneNet, MovesKeepNet DEF MovesOnly
<1>3. NetType'
  BY DEF NetInv, NetType, netVars
<1>4. QED
  BY <1>2, <1>3, TurnsNet DEF MovesOnly, NetOfOnly, netVars

\* A call that starts.
LEMMA StartsMove ==
    ASSUME ExecInv, NEW t \in Thread, NEW cmd \in Command, NEW retries \in Nat, Starts(t, cmd, retries)
    PROVE  /\ ExecInv' /\ OnlyOf(t) /\ child'[t] = NoChild /\ NoChild.todo = "none" /\ call[t].at = "no"
           /\ call'[t].at \in {"no", "try"} /\ call'[t].cmd = cmd /\ call'[t].retries = retries
           /\ call'[t].tries = 0 /\ call'[t].res # 0
<1> DEFINE c0 == [NoCall EXCEPT !.cmd = cmd, !.retries = retries, !.res = NotRun]
           c1 == [c0 EXCEPT !.at = "no"]
           c2 == [[c0 EXCEPT !.res = TimedOut] EXCEPT !.at = "no"]
           c3 == [c0 EXCEPT !.at = "try"]
<1>1. /\ c1.at = "no" /\ c1.cmd = cmd /\ c1.retries = retries /\ c1.tries = 0 /\ c1.res # 0
      /\ c2.at = "no" /\ c2.cmd = cmd /\ c2.retries = retries /\ c2.tries = 0 /\ c2.res # 0
      /\ c3.at = "try" /\ c3.cmd = cmd /\ c3.retries = retries /\ c3.tries = 0 /\ c3.res # 0
  BY DEF NoCall, NotRun, TimedOut
<1>2. PICK c \in {c1, c2, c3} : Goes(t, c)
  BY Zenon DEF Starts, Returns
<1>3. UNCHANGED child /\ child[t] = NoChild
  BY OneCall DEF Starts, At, ExecOK
<1>4. call'[t] = c /\ OnlyOf(t)
  BY <1>2, <1>3 DEF Goes, OnlyOf, ExecInv, ExecTypeOK
<1> HIDE DEF c0, c1, c2, c3
<1>5. QED
  BY <1>1, <1>2, <1>3, <1>4, StartsOK DEF Starts, At, NoChild

\* A search goes on with a command.
LEMMA DoesOK ==
    ASSUME NetInv, NEW t \in Thread, NEW n \in Net, NEW cmd \in Command, NEW then \in Ats \ {"no", "each"},
           Does(t, n, cmd, then), cmd = Asked(then),
           then \in {"gotDhcps", "modified", "enabled", "added"} => n.ifs # <<>>,
           then \in {"modified", "enabled"} => n.i >= 1,
           then \in {"modified", "enabled", "added"} => n.on \in Names(n.ifs),
           n.created <= 1,
           then \in {"gotIfs", "created"} => n.created = 0
    PROVE  NetInv'
<1> DEFINE m == [n EXCEPT !.at = then]
<1>1. m \in Net
  BY Zenon DEF Net, Ats
<1>2. m.at = then /\ m.ifs = n.ifs /\ m.i = n.i /\ m.on = n.on /\ m.created = n.created
  BY DEF Net
<1>3. net' = [net EXCEPT ![t] = m] /\ UNCHANGED <<adapters, calls, others>> /\ Starts(t, cmd, 1)
  BY NetTypes DEF Does
<1>4. /\ ExecInv' /\ OnlyOf(t) /\ child'[t].todo = "none"
      /\ call'[t].at \in {"no", "try"} /\ call'[t].cmd = cmd /\ call'[t].retries = 1 /\ call'[t].tries = 0 /\ call'[t].res # 0
  BY <1>3, StartsMove, OneNet
<1>5. NetType' /\ net'[t] = m /\ NetOfOnly(t)
  BY <1>1, <1>3, OneNet DEF NetType, NetOfOnly
<1> HIDE DEF m
<1>6. AsksOK(m, call'[t], child'[t])
  BY <1>2, <1>4 DEF AsksOK
<1>7. ListOK(m, call'[t])
  BY <1>2, <1>4 DEF ListOK, Reports
<1>8. CreateOK(m, call'[t], child'[t])
  BY <1>2, <1>4 DEF CreateOK
<1>9. QED
  BY <1>4, <1>5, <1>6, <1>7, <1>8, TurnsNet DEF NetOK

\* A search goes on without one.
LEMMA ThinksOK ==
    ASSUME NetInv, NEW t \in Thread, call[t].at = "no", NEW n \in Net, net' = [net EXCEPT ![t] = n], NetOnly,
           n.at \in {"no", "each"}, n.at = "each" => n.ifs # <<>> /\ n.i >= 1, n.created <= 1
    PROVE  NetInv'
<1>1. UNCHANGED <<call, child>> /\ ExecInv'
  BY OneNet, AbortOK DEF NetOnly, execVars
<1>2. net'[t] = n /\ NetOfOnly(t) /\ NetType'
  BY OneNet DEF NetOnly, NetOfOnly, NetType
<1>3. NetOK(n, call[t], child[t])
  BY OneNet DEF NetOK, AsksOK, ListOK, CreateOK
<1>4. QED
  BY <1>1, <1>2, <1>3, TurnsNet DEF OnlyOf

LEMMA AnswersOK ==
    ASSUME NetInv, NEW t \in Thread, NEW answer \in {"OK", "QUERY_ERROR", "CREATE_ERROR", "NOT_VALIDATED"},
           call[t].at = "no", Answers(t, answer), answer = "OK" => net[t].ifs # <<>>
    PROVE  NetInv'
<1> DEFINE adapter == IF answer = "OK" THEN Head(net[t].ifs).name ELSE 0
           n == [NoNet EXCEPT !.answer = answer, !.created = net[t].created, !.ifs = net[t].ifs, !.adapter = adapter]
<1>1. adapter \in Nat
  <2>1. CASE answer = "OK"
    <3>1. Head(net[t].ifs) \in Adapter
      BY <2>1, OneNet, HeadTailProperties
    <3>2. QED
      BY <2>1, <3>1, AdapterFields
  <2>2. QED
    BY <2>1
<1>2. n \in Net
  <2>1. net[t].created \in Nat /\ net[t].ifs \in Seq(Adapter)
    BY OneNet
  <2>2. QED
    BY <1>1, <2>1, NetTypes, Zenon DEF Net
<1>3. n.at = "no" /\ n.created = net[t].created
  BY DEF NoNet
<1>4. net' = [net EXCEPT ![t] = n] /\ NetOnly
  BY DEF Answers
<1>5. net[t].created <= 1
  BY OneNet DEF NetOK, CreateOK
<1> HIDE DEF n
<1>6. QED
  BY <1>2, <1>3, <1>4, <1>5, ThinksOK

LEMMA NextAdapterOK ==
    ASSUME NetInv, NEW t \in Thread, NextAdapter(t), call[t].at = "no", net[t].ifs # <<>>
    PROVE  NetInv'
<1> DEFINE n == [net[t] EXCEPT !.at = "each", !.i = @ + 1]
<1>1. n \in Net
  <2>1. net[t].i + 1 \in Nat
    BY OneNet
  <2>2. QED
    BY <2>1, OneNet, Zenon DEF Net
<1>2. n.at = "each" /\ n.ifs = net[t].ifs /\ n.i = net[t].i + 1 /\ n.created = net[t].created
  BY OneNet DEF Net
<1>3. net' = [net EXCEPT ![t] = n] /\ NetOnly
  BY OneNet DEF NextAdapter, NetType
<1>4. n.created <= 1
  BY <1>2, OneNet DEF NetOK, CreateOK
<1>5. n.i >= 1
  BY <1>2, OneNet
<1> HIDE DEF n
<1>6. n.at = "each" => n.ifs # <<>> /\ n.i >= 1
  BY <1>2, <1>5
<1>7. QED
  BY <1>1, <1>2, <1>3, <1>4, <1>6, ThinksOK

\* A list that has succeeded is read as a list of adapters.
LEMMA ListedType ==
    ASSUME NetInv, NEW t \in Thread, net[t].at \in {"gotIfs", "gotIfsAgain"}, call[t].at = "no", ~Failing(t)
    PROVE  Listed(net[t].ifs, t) = net[t].ifs
<1>1. call[t].cmd = "list hostonlyifs" /\ call[t].ran.left = Len(net[t].ifs)
  BY OneNet DEF NetOK, AsksOK, ListOK, Asked, Reports, Failing
<1>2. call[t].lines = Len(net[t].ifs)
  BY <1>1, OneNet DEF ExecOK, Failing
<1>3. QED
  BY <1>2, OneNet, SubSeqFull DEF Listed

LEMMA GetsAdapterOK ==
    ASSUME NetInv, NEW t \in Thread, GetsAdapter(t)
    PROVE  NetInv'
<1> DEFINE m == [NoNet EXCEPT !.at = "gotIfs"]
<1>1. m \in Net
  BY NetTypes, Zenon DEF Net
<1>2. m.at = "gotIfs" /\ m.created = 0
  BY DEF NoNet
<1>3. net' = [net EXCEPT ![t] = m] /\ UNCHANGED <<adapters, others>> /\ calls' = calls + 1 /\ Starts(t, "list hostonlyifs", 1)
  BY NetTypes DEF GetsAdapter
<1>4. "list hostonlyifs" \in Command
  BY DEF Command
<1>5. /\ ExecInv' /\ OnlyOf(t) /\ child'[t].todo = "none"
      /\ call'[t].at \in {"no", "try"} /\ call'[t].cmd = "list hostonlyifs" /\ call'[t].res # 0
  BY <1>3, <1>4, StartsMove, OneNet
<1> HIDE DEF m
<1>6. NetType' /\ net'[t] = m /\ NetOfOnly(t)
  <2>0. calls \in Nat /\ others \in Nat /\ calls' = calls + 1 /\ others' = others
    BY <1>3, OneNet, Zenon
  <2>1. calls' \in Nat /\ others' \in Nat
    BY <2>0
  <2>2. NetType
    BY OneNet
  <2>3. QED
    BY <1>1, <1>3, <2>1, <2>2, Zenon DEF NetType, NetOfOnly
<1>7. Asked("gotIfs") = "list hostonlyifs"
  BY DEF Asked
<1>8. AsksOK(m, call'[t], child'[t])
  BY <1>2, <1>5, <1>7 DEF AsksOK
<1>9. ListOK(m, call'[t])
  BY <1>2, <1>5 DEF ListOK, Reports
<1>10. CreateOK(m, call'[t], child'[t])
  BY <1>2 DEF CreateOK
<1>11. QED
  BY <1>5, <1>6, <1>8, <1>9, <1>10, TurnsNet DEF NetOK

LEMMA AnyCommandOK ==
    ASSUME NetInv, NEW t \in Thread, AnyCommand(t)
    PROVE  NetInv'
<1>1. "any" \in Command /\ Retries \in Nat
  BY BoundsAssumption DEF Command
<1>2. UNCHANGED <<adapters, net, others>> /\ calls' = calls + 1 /\ Starts(t, "any", Retries) /\ net[t].at = "no"
  BY DEF AnyCommand, InNet
<1>3. ExecInv' /\ OnlyOf(t) /\ child'[t].todo = "none" /\ call'[t].at \in {"no", "try"} /\ call'[t].cmd = "any"
  BY <1>1, <1>2, StartsMove, OneNet
<1>4. NetType'
  BY <1>2, OneNet DEF NetType
<1>5. net[t].created <= 1
  BY OneNet DEF NetOK, CreateOK
<1>6. NetOK(net[t], call'[t], child'[t])
  BY <1>2, <1>3, <1>5 DEF NetOK, AsksOK, ListOK, CreateOK
<1>7. QED
  BY <1>2, <1>3, <1>4, <1>6, TurnsNet DEF NetOfOnly

\* After the first list: an adapter is created, or the servers are listed.
LEMMA GotIfsOK ==
    ASSUME NetInv, NEW t \in Thread, GotIfs(t) \/ GotIfsAgain(t)
    PROVE  NetInv'
<1> DEFINE n == [net[t] EXCEPT !.ifs = Listed(@, t)]
<1>1. net[t].at \in {"gotIfs", "gotIfsAgain"} /\ call[t].at = "no"
  BY DEF GotIfs, GotIfsAgain, InNet, At
<1>2. net[t].created <= 1 /\ (net[t].at = "gotIfs" => net[t].created = 0)
  BY OneNet DEF NetOK, CreateOK
<1>3. CASE Failing(t)
  BY <1>1, <1>3, AnswersOK DEF GotIfs, GotIfsAgain
<1>4. CASE ~Failing(t)
  <2>1. n = net[t]
    <3>1. Listed(net[t].ifs, t) = net[t].ifs
      BY <1>1, <1>4, ListedType
    <3>2. QED
      BY <3>1, OneNet DEF Net
  <2>2. n \in Net
    BY <2>1, OneNet
  <2>3. CASE n.ifs = <<>> /\ net[t].at = "gotIfs"
    <3>1. Does(t, n, "hostonlyif create", "created")
      BY <1>4, <2>3 DEF GotIfs, GotIfsAgain, InNet
    <3>2. "hostonlyif create" \in Command /\ "created" \in Ats \ {"no", "each"} /\ Asked("created") = "hostonlyif create"
      BY DEF Command, Ats, Asked
    <3>3. n.created = 0 /\ n.created <= 1
      BY <1>2, <2>1, <2>3
    <3> HIDE DEF n
    <3>4. QED
      BY <2>2, <3>1, <3>2, <3>3, DoesOK
  <2>4. CASE n.ifs = <<>> /\ net[t].at = "gotIfsAgain"
    BY <1>1, <1>4, <2>4, AnswersOK DEF GotIfs, GotIfsAgain, InNet
  <2>5. CASE n.ifs # <<>>
    <3>1. Does(t, n, "list dhcpservers", "gotDhcps")
      BY <1>4, <2>5 DEF GotIfs, GotIfsAgain
    <3>2. "list dhcpservers" \in Command /\ "gotDhcps" \in Ats \ {"no", "each"} /\ Asked("gotDhcps") = "list dhcpservers"
      BY DEF Command, Ats, Asked
    <3>3. n.created <= 1
      BY <1>2, <2>1
    <3> HIDE DEF n
    <3>4. QED
      BY <2>2, <2>5, <3>1, <3>2, <3>3, DoesOK
  <2>6. QED
    BY <1>1, <2>3, <2>4, <2>5
<1>5. QED
  BY <1>3, <1>4

LEMMA CreatedOK ==
    ASSUME NetInv, NEW t \in Thread, Created(t)
    PROVE  NetInv'
<1>1. CASE Failing(t)
  BY <1>1, AnswersOK DEF Created, InNet, At
<1>2. CASE ~Failing(t)
  <2>1. Does(t, net[t], "list hostonlyifs", "gotIfsAgain")
    BY <1>2 DEF Created
  <2>2. "list hostonlyifs" \in Command /\ "gotIfsAgain" \in Ats \ {"no", "each"} /\ Asked("gotIfsAgain") = "list hostonlyifs"
    BY DEF Command, Ats, Asked
  <2>3. net[t].created <= 1
    BY OneNet DEF NetOK, CreateOK
  <2>4. QED
    BY <2>1, <2>2, <2>3, OneNet, DoesOK
<1>3. QED
  BY <1>1, <1>2

LEMMA GotDhcpsOK ==
    ASSUME NetInv, NEW t \in Thread, GotDhcps(t)
    PROVE  NetInv'
<1>1. net[t].at = "gotDhcps" /\ call[t].at = "no"
  BY DEF GotDhcps, InNet, At
<1>2. CASE Failing(t)
  BY <1>1, <1>2, AnswersOK DEF GotDhcps
<1>3. ASSUME NEW read \in SomeListed(net[t].dhcps, t), NetOnly,
             net' = [net EXCEPT ![t].dhcps = read, ![t].at = "each", ![t].i = 1]
      PROVE  NetInv'
  <2> DEFINE n == [net[t] EXCEPT !.dhcps = read, !.at = "each", !.i = 1]
  <2>1. read \in SUBSET Adapter
    BY OneNet DEF SomeListed
  <2>2. n \in Net
    BY <2>1, OneNet, Zenon DEF Net
  <2>3. n.at = "each" /\ n.i = 1 /\ n.ifs = net[t].ifs /\ n.created = net[t].created
    BY OneNet DEF Net
  <2>4. net' = [net EXCEPT ![t] = n]
    BY <1>3, OneNet DEF NetType
  <2>5. net[t].ifs # <<>> /\ net[t].created <= 1
    BY <1>1, OneNet DEF NetOK, ListOK, CreateOK
  <2>6. n.i >= 1
    BY <2>3
  <2> HIDE DEF n
  <2>7. n.at = "each" => n.ifs # <<>> /\ n.i >= 1
    BY <2>3, <2>5, <2>6
  <2>8. n.created <= 1
    BY <2>3, <2>5
  <2>9. QED
    BY <1>1, <1>3, <2>2, <2>3, <2>4, <2>7, <2>8, ThinksOK
<1>4. QED
  BY <1>2, <1>3 DEF GotDhcps

\* One of the adapters that were listed has a server to be looked after.
LEMMA EachOK ==
    ASSUME NetInv, NEW t \in Thread, Each(t)
    PROVE  NetInv'
<1> DEFINE n == [net[t] EXCEPT !.on = net[t].ifs[net[t].i].name]
<1>1. net[t].at = "each" /\ call[t].at = "no" /\ net[t].i <= Len(net[t].ifs)
  BY DEF Each, InNet, At
<1>2. net[t].ifs # <<>> /\ net[t].i >= 1 /\ net[t].created <= 1
  BY <1>1, OneNet DEF NetOK, ListOK, CreateOK
<1>3. net[t].ifs[net[t].i].name \in Nat /\ net[t].ifs[net[t].i].name \in Names(net[t].ifs)
  BY <1>1, <1>2, OneNet, SeqOfAdapters
<1>4. n \in Net
  BY <1>3, OneNet, Zenon DEF Net
<1>5. n.ifs = net[t].ifs /\ n.i = net[t].i /\ n.created = net[t].created /\ n.on \in Names(n.ifs)
  BY <1>3, OneNet DEF Net
<1>6. CASE Answers(t, "OK")
  BY <1>1, <1>2, <1>6, AnswersOK
<1>7. CASE Does(t, n, "dhcpserver enable", "enabled")
  <2>1. "dhcpserver enable" \in Command /\ "enabled" \in Ats \ {"no", "each"} /\ Asked("enabled") = "dhcpserver enable"
    BY DEF Command, Ats, Asked
  <2> HIDE DEF n
  <2>2. QED
    BY <1>2, <1>4, <1>5, <1>7, <2>1, DoesOK
<1>8. CASE Does(t, n, "dhcpserver modify", "modified")
  <2>1. "dhcpserver modify" \in Command /\ "modified" \in Ats \ {"no", "each"} /\ Asked("modified") = "dhcpserver modify"
    BY DEF Command, Ats, Asked
  <2> HIDE DEF n
  <2>2. QED
    BY <1>2, <1>4, <1>5, <1>8, <2>1, DoesOK
<1>9. CASE NextAdapter(t)
  BY <1>1, <1>2, <1>9, NextAdapterOK
<1>10. QED
  BY <1>6, <1>7, <1>8, <1>9 DEF Each

LEMMA ModifiedOK ==
    ASSUME NetInv, NEW t \in Thread, Modified(t)
    PROVE  NetInv'
<1>1. net[t].at = "modified" /\ call[t].at = "no"
  BY DEF Modified, InNet, At
<1>2. net[t].ifs # <<>> /\ net[t].i >= 1 /\ net[t].on \in Names(net[t].ifs) /\ net[t].created <= 1
  BY <1>1, OneNet DEF NetOK, ListOK, CreateOK
<1>3. CASE NextAdapter(t)
  BY <1>1, <1>2, <1>3, NextAdapterOK
<1>4. CASE Does(t, net[t], "dhcpserver enable", "enabled")
  <2>1. "dhcpserver enable" \in Command /\ "enabled" \in Ats \ {"no", "each"} /\ Asked("enabled") = "dhcpserver enable"
    BY DEF Command, Ats, Asked
  <2>2. QED
    BY <1>2, <1>4, <2>1, OneNet, DoesOK
<1>5. QED
  BY <1>3, <1>4 DEF Modified

LEMMA EnabledOK ==
    ASSUME NetInv, NEW t \in Thread, Enabled(t)
    PROVE  NetInv'
<1>1. net[t].at = "enabled" /\ call[t].at = "no"
  BY DEF Enabled, InNet, At
<1>2. net[t].ifs # <<>>
  BY <1>1, OneNet DEF NetOK, ListOK
<1>3. QED
  BY <1>1, <1>2, NextAdapterOK, AnswersOK DEF Enabled

LEMMA AddsServerOK ==
    ASSUME NetInv, NEW t \in Thread, AddsServer(t)
    PROVE  NetInv'
<1> DEFINE n == [net[t] EXCEPT !.on = Head(net[t].ifs).name]
<1>1. net[t].at = "each" /\ Does(t, n, "dhcpserver add", "added")
  BY DEF AddsServer, InNet
<1>2. net[t].ifs # <<>> /\ net[t].created <= 1
  BY <1>1, OneNet DEF NetOK, ListOK, CreateOK
<1>3. Head(net[t].ifs).name \in Nat /\ Head(net[t].ifs).name \in Names(net[t].ifs)
  <2>1. Len(net[t].ifs) \in Nat \ {0} /\ Head(net[t].ifs) = net[t].ifs[1]
    BY <1>2, OneNet, EmptySeq
  <2>2. QED
    BY <2>1, OneNet, SeqOfAdapters
<1>4. n \in Net
  BY <1>3, OneNet, Zenon DEF Net
<1>5. n.ifs = net[t].ifs /\ n.created = net[t].created /\ n.on \in Names(n.ifs)
  BY <1>3, OneNet DEF Net
<1>6. "dhcpserver add" \in Command /\ "added" \in Ats \ {"no", "each"} /\ Asked("added") = "dhcpserver add"
  BY DEF Command, Ats, Asked
<1> HIDE DEF n
<1>7. QED
  BY <1>1, <1>2, <1>4, <1>5, <1>6, DoesOK

LEMMA AddedOK ==
    ASSUME NetInv, NEW t \in Thread, Added(t)
    PROVE  NetInv'
<1>1. net[t].at = "added" /\ call[t].at = "no"
  BY DEF Added, InNet, At
<1>2. net[t].ifs # <<>>
  BY <1>1, OneNet DEF NetOK, ListOK
<1>3. QED
  BY <1>1, <1>2, AnswersOK DEF Added

\* A program is forked: what it will list is what there is.
LEMMA ForksCommandOK ==
    ASSUME NetInv, NEW t \in Thread, ForksCommand(t)
    PROVE  NetInv'
<1> DEFINE c == call[t]
           n == net[t]
           m == net'[t]
<1>1. c \in Call /\ c.at = "try" /\ c.cmd \in Command /\ child[t] = NoChild /\ NetOK(n, c, child[t])
  BY OneNet, OneCall DEF ForksCommand, Forks, At, ExecOK, Call
<1>2. Programs(c.cmd) \in SUBSET Program
  BY <1>1, ProgramsType, OneNet DEF NetType
<1>3. ExecInv'
  BY <1>2, ForksOK, OneNet DEF ForksCommand
<1>4. m \in Net /\ m.at = n.at /\ m.i = n.i /\ m.on = n.on /\ m.created = n.created /\ net' = [net EXCEPT ![t] = m]
      /\ m.ifs = IF c.cmd = "list hostonlyifs" THEN adapters ELSE n.ifs
  <2>1. adapters \in Seq(Adapter) /\ Servers \in SUBSET Adapter
    BY OneNet, SeqOfAdapters DEF NetType, Servers, Served
  <2>2. n \in Net /\ net \in [Thread -> Net]
    BY OneNet DEF NetType
  <2>3. CASE c.cmd = "list hostonlyifs"
    <3> DEFINE o == [n EXCEPT !.ifs = adapters]
    <3>1. o \in Net
      BY <2>1, <2>2, Zenon DEF Net
    <3>2. o.at = n.at /\ o.i = n.i /\ o.on = n.on /\ o.created = n.created /\ o.ifs = adapters
      BY <2>2 DEF Net
    <3>3. net' = [net EXCEPT ![t] = o]
      BY <2>3 DEF ForksCommand
    <3> HIDE DEF o
    <3>4. QED
      BY <2>2, <2>3, <3>1, <3>2, <3>3
  <2>4. CASE c.cmd = "list dhcpservers"
    <3> DEFINE o == [n EXCEPT !.dhcps = Servers]
    <3>1. o \in Net
      BY <2>1, <2>2, Zenon DEF Net
    <3>2. o.at = n.at /\ o.i = n.i /\ o.on = n.on /\ o.created = n.created /\ o.ifs = n.ifs
      BY <2>2 DEF Net
    <3>3. net' = [net EXCEPT ![t] = o]
      BY <2>4 DEF ForksCommand
    <3> HIDE DEF o
    <3>4. QED
      BY <2>2, <2>4, <3>1, <3>2, <3>3
  <2>5. CASE c.cmd \notin {"list hostonlyifs", "list dhcpservers"}
    <3>1. net' = [net EXCEPT ![t] = n]
      BY <2>5 DEF ForksCommand
    <3>2. QED
      BY <2>2, <2>5, <3>1
  <2>6. QED
    BY <2>3, <2>4, <2>5
<1>5. NetOfOnly(t) /\ NetType'
  BY <1>4, OneNet DEF NetOfOnly, NetType, ForksCommand
<1>6. n.at \notin {"no", "each"} => c.cmd = Asked(n.at)
  BY <1>1 DEF NetOK, AsksOK
<1>7. c.cmd = "list hostonlyifs" => n.at \in {"gotIfs", "gotIfsAgain"}
  BY <1>1, OneNet DEF NetOK, AsksOK, Asked, Ats
<1>8. ASSUME NEW d, NEW k, d.at \in {"poll", "judge"}, d.cmd = c.cmd, d.retries = c.retries, d.tries = c.tries,
             k.todo \in {"none", c.cmd},
             n.at \in {"gotIfs", "gotIfsAgain"} /\ Reports(d) => d.ran.left = Len(adapters)
      PROVE  NetOK(m, d, k)
  <2>1. AsksOK(m, d, k)
    BY <1>1, <1>4, <1>8 DEF NetOK, AsksOK
  <2>2. ListOK(m, d)
    BY <1>1, <1>4, <1>6, <1>7, <1>8 DEF NetOK, ListOK, Asked
  <2>3. CreateOK(m, d, k)
    BY <1>1, <1>4, <1>8 DEF NetOK, CreateOK
  <2>4. QED
    BY <2>1, <2>2, <2>3 DEF NetOK
<1>9. ASSUME NEW p \in Programs(c.cmd),
             child' = [child EXCEPT ![t] = [NoChild EXCEPT !.at = "runs", !.left = p.left, !.says = p.says,
                                            !.code = p.code, !.todo = IF p.code = 0 THEN p.cmd ELSE "none"]],
             Goes(t, [c EXCEPT !.at = "poll", !.out = 0, !.err = "nothing", !.ran = p])
      PROVE  NetInv'
  <2> DEFINE todo == IF p.code = 0 THEN p.cmd ELSE "none"
             k == [NoChild EXCEPT !.at = "runs", !.left = p.left, !.says = p.says, !.code = p.code, !.todo = todo]
             d == [c EXCEPT !.at = "poll", !.out = 0, !.err = "nothing", !.ran = p]
  <2>1. p.cmd = c.cmd /\ (c.cmd = "list hostonlyifs" => p.left = Len(adapters))
    BY <1>1, ProgramsType, OneNet DEF NetType
  <2>2. k.todo = todo
    BY DEF NoChild
  <2>3. d.at = "poll" /\ d.cmd = c.cmd /\ d.retries = c.retries /\ d.tries = c.tries /\ d.ran = p
    BY <1>1 DEF Call
  <2>4. n.at \in {"gotIfs", "gotIfsAgain"} => d.ran.left = Len(adapters)
    BY <1>6, <2>1, <2>3 DEF Asked
  <2>5. call'[t] = d /\ child'[t] = k /\ OnlyOf(t)
    BY <1>9, OneNet DEF Goes, OnlyOf, ExecInv, ExecTypeOK
  <2>6. k.todo \in {"none", c.cmd}
    BY <2>1, <2>2
  <2> HIDE DEF d, k
  <2>8. NetOK(m, d, k)
    BY <1>8, <2>3, <2>4, <2>6
  <2>7. QED
    BY <1>3, <1>5, <2>5, <2>8, TurnsNet
<1>10. CASE Goes(t, [c EXCEPT !.at = "judge", !.res = Aborted, !.out = 0, !.err = "nothing"]) /\ UNCHANGED child
  <2> DEFINE d == [c EXCEPT !.at = "judge", !.res = Aborted, !.out = 0, !.err = "nothing"]
  <2>1. d.at = "judge" /\ d.res # 0 /\ d.cmd = c.cmd /\ d.retries = c.retries /\ d.tries = c.tries
    BY <1>1 DEF Call, Aborted
  <2>2. call'[t] = d /\ child'[t] = NoChild /\ NoChild.todo = "none" /\ OnlyOf(t)
    BY <1>1, <1>10, OneNet DEF Goes, OnlyOf, ExecInv, ExecTypeOK, NoChild
  <2> HIDE DEF d
  <2>3. NetOK(m, call'[t], child'[t])
    BY <1>8, <2>1, <2>2 DEF Reports
  <2>4. QED
    BY <1>3, <1>5, <2>2, <2>3, TurnsNet
<1>11. QED
  BY <1>9, <1>10 DEF ForksCommand, Forks

\* A program does what it was asked to.
LEMMA ActsNet ==
    ASSUME NetInv, NEW t \in Thread, Acts(t)
    PROVE  NetInv'
<1> DEFINE c == call[t]
           k == child[t]
           n == net[t]
           cmd == k.todo
           more == IF cmd = "hostonlyif create" THEN 1 ELSE 0
           created == n.created + more
           m == [n EXCEPT !.created = created]
<1>1. k.todo # "none" /\ k \in Child /\ c.at # "no" /\ NetOK(n, c, k) /\ ExecInv' /\ UNCHANGED call
  <2>1. k.todo # "none" /\ UNCHANGED call
    BY DEF Acts
  <2>2. ExecInv /\ ExecOK(c, k) /\ NetOK(n, c, k) /\ k \in Child
    BY OneNet, OneCall
  <2>3. c.at # "no"
    BY <2>1, <2>2 DEF ExecOK, NoChild
  <2>4. ExecInv'
    BY <2>2, ActsOK
  <2>5. QED
    BY <2>1, <2>2, <2>3, <2>4
<1>2. child'[t].todo = "none" /\ OnlyOf(t)
  BY <1>1 DEF Acts, OnlyOf, NetInv, ExecInv, ExecTypeOK, Child
<1>3. cmd = "hostonlyif create" => n.at = "created" /\ n.created = 0
  BY <1>1, OneNet DEF NetOK, AsksOK, CreateOK, Asked, Ats
<1>4. created \in Nat /\ created <= 1 /\ (n.at = "gotIfs" => created = 0)
  <2>1. n.created \in Nat /\ n.created <= 1 /\ (n.at = "gotIfs" => n.created = 0)
    BY <1>1, OneNet DEF NetOK, CreateOK
  <2>2. (more = 1 /\ n.created = 0 /\ n.at # "gotIfs") \/ more = 0
    BY <1>3
  <2> HIDE DEF more
  <2>3. QED
    BY <2>1, <2>2
<1>5. m \in Net
  BY <1>4, OneNet, Zenon DEF Net
<1>6. m.at = n.at /\ m.ifs = n.ifs /\ m.i = n.i /\ m.on = n.on /\ m.created = created
  BY OneNet DEF Net
<1>7. net' = [net EXCEPT ![t] = m]
  BY DEF Acts
<1>8. adapters' \in Seq(Adapter)
  <2>1. adapters \in Seq(Adapter) /\ {"none", "off", "on"} \subseteq DHCP
    BY OneNet DEF NetType, DHCP
  <2>2. FreeNames # {} => Append(adapters, NewAdapter("none")) \in Seq(Adapter)
    BY <2>1, NewAdapterType
  <2>3. Set(n.on, "off") \in Seq(Adapter) /\ Set(n.on, "on") \in Seq(Adapter)
    BY <2>1, SetType
  <2>4. cmd = "hostonlyif create" /\ Can(cmd, n.on) => FreeNames # {}
    BY DEF Can
  <2>5. \/ adapters' = adapters \/ adapters' = Set(n.on, "off") \/ adapters' = Set(n.on, "on")
        \/ cmd = "hostonlyif create" /\ Can(cmd, n.on) /\ adapters' = Append(adapters, NewAdapter("none"))
    <3>1. CASE ~Can(cmd, n.on)
      BY <3>1 DEF Acts
    <3>2. CASE Can(cmd, n.on) /\ cmd = "hostonlyif create"
      BY <3>2 DEF Acts
    <3>3. CASE Can(cmd, n.on) /\ cmd = "dhcpserver modify"
      BY <3>3 DEF Acts
    <3>4. CASE Can(cmd, n.on) /\ cmd \in {"dhcpserver enable", "dhcpserver add"}
      BY <3>4 DEF Acts
    <3>5. CASE Can(cmd, n.on) /\ cmd \notin {"hostonlyif create", "dhcpserver modify", "dhcpserver enable", "dhcpserver add"}
      BY <3>5 DEF Acts
    <3>6. QED
      BY <3>1, <3>2, <3>3, <3>4, <3>5
  <2>6. QED
    BY <2>1, <2>2, <2>3, <2>4, <2>5
<1>9. NetType' /\ NetOfOnly(t) /\ net'[t] = m
  BY <1>5, <1>7, <1>8, OneNet DEF NetType, NetOfOnly, Acts
<1> HIDE DEF m
<1>10. AsksOK(m, c, child'[t])
  BY <1>1, <1>2, <1>6 DEF NetOK, AsksOK
<1>11. ListOK(m, c)
  BY <1>1, <1>6 DEF NetOK, ListOK
<1>12. CreateOK(m, c, child'[t])
  <2>1. c.at # "try"
    BY <1>1, OneNet DEF ExecOK, NoChild
  <2>2. QED
    BY <1>1, <1>2, <1>4, <1>6, <2>1 DEF NetOK, CreateOK
<1>13. QED
  BY <1>1, <1>2, <1>9, <1>10, <1>11, <1>12, TurnsNet DEF NetOK

LEMMA OthersActOK ==
    ASSUME NetInv, OthersAct
    PROVE  NetInv'
<1>1. adapters \in Seq(Adapter) /\ {"none", "on"} \subseteq DHCP /\ NetType /\ ExecInv
  BY DEF NetInv, NetType, DHCP
<1>2. Cardinality(FreeNames) > 1 => FreeNames # {}
  BY FS_EmptySet
<1>3. \A d \in {"none", "on"} : FreeNames # {} => Append(adapters, NewAdapter(d)) \in Seq(Adapter)
  BY <1>1, NewAdapterType
<1>4. \A name, d : d \in {"none", "on"} => Set(name, d) \in Seq(Adapter)
  BY <1>1, SetType
<1>5. \A i \in DOMAIN adapters : SubSeq(adapters, 1, i - 1) \o SubSeq(adapters, i + 1, Len(adapters)) \in Seq(Adapter)
  <2>1. TAKE i \in DOMAIN adapters
  <2>2. i \in 1 .. Len(adapters) /\ Len(adapters) \in Nat /\ \A j \in 1 .. Len(adapters) : adapters[j] \in Adapter
    BY <1>1, SeqOfAdapters
  <2>3. SubSeq(adapters, 1, i - 1) \in Seq(Adapter)
    BY <2>2, SubSeqProperties
  <2>4. SubSeq(adapters, i + 1, Len(adapters)) \in Seq(Adapter)
    BY <2>2, SubSeqProperties
  <2>5. QED
    BY <2>3, <2>4, ConcatProperties
<1>6. adapters' \in Seq(Adapter)
  BY <1>2, <1>3, <1>4, <1>5 DEF OthersAct
<1>7. others' \in Nat /\ UNCHANGED <<execVars, net, calls>>
  <2>1. others \in Nat /\ others' = others + 1
    BY <1>1 DEF NetType, OthersAct
  <2>2. QED
    BY <2>1 DEF OthersAct
<1>8. ExecInv' /\ UNCHANGED <<call, child>>
  BY <1>1, <1>7, AbortOK DEF execVars
<1>9. QED
  BY <1>1, <1>6, <1>7, <1>8 DEF NetInv, NetType

LEMMA NetNext ==
    ASSUME NetInv, [Next]_vars
    PROVE  NetInv'
<1>1. ASSUME NEW t \in Thread, NetSteps(t)
      PROVE  NetInv'
  BY <1>1, GotIfsOK, CreatedOK, GotDhcpsOK, EachOK, ModifiedOK, EnabledOK, AddsServerOK, AddedOK DEF NetSteps
<1>2. ASSUME NEW t \in Thread, Executes(t)
      PROVE  NetInv'
  <2>1. ExecInv
    BY DEF NetInv
  <2>2. QED
    BY <1>2, <2>1, RunsMove, MovesNet, ForksCommandOK DEF Executes
<1>3. ASSUME NEW t \in Thread, Writes(t) \/ Closes(t) \/ Exits(t), UNCHANGED netVars
      PROVE  NetInv'
  <2>1. ExecInv
    BY DEF NetInv
  <2>2. QED
    BY <1>3, <2>1, ProgramMoves, MovesNet
<1>4. ASSUME abortSysExec \/ initSysExec \/ UNCHANGED execVars, UNCHANGED netVars
      PROVE  NetInv'
  <2>1. ExecInv' /\ UNCHANGED <<call, child>>
    BY <1>4, AbortOK DEF NetInv, abortSysExec, initSysExec, execVars
  <2>2. QED
    BY <1>4, <2>1 DEF NetInv, NetType, netVars
<1>5. CASE UNCHANGED vars
  BY <1>4, <1>5 DEF vars
<1>6. QED
  BY <1>1, <1>2, <1>3, <1>4, <1>5, GetsAdapterOK, AnyCommandOK, ActsNet, OthersActOK DEF Next

LEMMA InitNet == Init => NetInv
<1>1. SUFFICES ASSUME Init PROVE NetInv
  OBVIOUS
<1>2. ASSUME NEW t \in Thread
      PROVE  net[t] = NoNet /\ call[t] = NoCall /\ child[t] = NoChild
  BY <1>1 DEF Init, ExecInit
<1>3. NetOK(NoNet, NoCall, NoChild)
  <2>1. NoNet.at = "no" /\ NoNet.created = 0 /\ NoCall.at = "no" /\ NoChild.todo = "none"
    BY DEF NoNet, NoCall, NoChild
  <2>2. QED
    BY <2>1 DEF NetOK, AsksOK, ListOK, CreateOK
<1>4. QED
  BY <1>1, <1>2, <1>3, InitOK DEF NetInv

\* The inductive invariant: a call says what its program did, a search asks what it waits for.
THEOREM NetInvariant == Spec => []NetInv
  BY InitNet, NetNext, PTL DEF Spec

\* The types of the state.
THEOREM TypeCorrect == Spec => []TypeOK
<1>1. NetInv => TypeOK
  BY DEF NetInv, NetType, ExecInv, TypeOK
<1>2. QED
  BY <1>1, NetInvariant, PTL

\* sysExec answers 0 only for a program that ended by itself with 0, complained of nothing
\* and whose every line was read.
THEOREM SuccessIsTheProgramsOwn == Spec => []SuccessIsWhole
<1>1. NetInv => SuccessIsWhole
  BY DEF NetInv, ExecInv, ExecOK, SuccessIsWhole, At
<1>2. QED
  BY <1>1, NetInvariant, PTL

\* A search creates at most one adapter, however its commands fail and whatever others do.
THEOREM OneAdapterAtMost == Spec => []CreatesOnce
<1>1. NetInv => CreatesOnce
  BY DEF NetInv, NetOK, CreateOK, CreatesOnce
<1>2. QED
  BY <1>1, NetInvariant, PTL

-----------------------------------------------------------------------------
(* The adapter that a search hands out *)

\* Setting the server of one adapter.
LEMMA SetServer ==
    ASSUME adapters \in Seq(Adapter), NEW x, NEW d \in DHCP, adapters' = Set(x, d)
    PROVE  /\ Names(adapters)' = Names(adapters)
           /\ \A name : Is(name, {"on"}) /\ (d = "on" \/ name # x) => Is(name, {"on"})'
           /\ d = "on" => \A dhcps : Is(x, dhcps) => Is(x, {"on"})'
<1>1. DOMAIN adapters' = DOMAIN adapters
  BY DEF Set
<1>2. \A i \in DOMAIN adapters : adapters[i] \in Adapter
  BY SeqOfAdapters
<1>3. ASSUME NEW i \in DOMAIN adapters
      PROVE  /\ adapters'[i].name = adapters[i].name
             /\ adapters'[i].dhcp = IF adapters[i].name = x THEN d ELSE adapters[i].dhcp
  <2>1. adapters'[i] = IF adapters[i].name = x THEN [adapters[i] EXCEPT !.dhcp = d] ELSE adapters[i]
    BY DEF Set
  <2>2. QED
    BY <1>2, <2>1 DEF Adapter
<1>4. Names(adapters)' = Names(adapters)
  BY <1>1, <1>3 DEF Names
<1>5. ASSUME NEW name, Is(name, {"on"}), d = "on" \/ name # x
      PROVE  Is(name, {"on"})'
  <2>1. PICK i \in DOMAIN adapters : adapters[i].name = name /\ adapters[i].dhcp = "on"
    BY <1>5 DEF Is
  <2>2. adapters'[i].name = name /\ adapters'[i].dhcp = "on"
    BY <1>3, <1>5, <2>1
  <2>3. QED
    BY <1>1, <2>2 DEF Is
<1>6. ASSUME NEW dhcps, Is(x, dhcps), d = "on"
      PROVE  Is(x, {"on"})'
  <2>1. PICK i \in DOMAIN adapters : adapters[i].name = x
    BY <1>6 DEF Is
  <2>2. adapters'[i].name = x /\ adapters'[i].dhcp = "on"
    BY <1>3, <1>6, <2>1
  <2>3. QED
    BY <1>1, <2>2 DEF Is
<1>7. QED
  BY <1>4, <1>5, <1>6

\* A new adapter takes nothing away.
LEMMA AppendAdapter ==
    ASSUME adapters \in Seq(Adapter), NEW a \in Adapter, adapters' = Append(adapters, a)
    PROVE  Names(adapters) \subseteq Names(adapters)' /\ \A name : Is(name, {"on"}) => Is(name, {"on"})'
<1>1. Len(adapters) \in Nat /\ DOMAIN adapters = 1 .. Len(adapters)
  BY SeqOfAdapters
<1>2. DOMAIN adapters \subseteq DOMAIN adapters' /\ \A i \in DOMAIN adapters : adapters'[i] = adapters[i]
  BY <1>1
<1>3. QED
  BY <1>2 DEF Names, Is

\* A step of the one thread that there is.
LEMMA TurnsServed ==
    ASSUME \A t, u \in Thread : t = u, NEW t \in Thread, ServedAt(t)'
    PROVE  ServedInv'
  BY DEF ServedInv

LEMMA MovesServed ==
    ASSUME NEW t \in Thread, ServedAt(t), MovesOnly(t), UNCHANGED netVars
    PROVE  ServedAt(t)'
<1>1. Started(call'[t], child'[t]) => Started(call[t], child[t])
  BY DEF MovesOnly, Moves
<1>2. UNCHANGED <<adapters, net>>
  BY DEF netVars
<1>3. QED
  BY <1>1, <1>2 DEF ServedAt, ServedOK, Is

\* Where a search goes on: its adapters and servers are those it has listed.
LEMMA GoesOnServed ==
    ASSUME NetInv, NEW t \in Thread, ServedAt(t), NEW n \in Net, net' = [net EXCEPT ![t] = n], UNCHANGED adapters,
           n.ifs = net[t].ifs, n.dhcps \subseteq net[t].dhcps, n.answer # "OK",
           n.at \in {"gotIfs", "created", "gotIfsAgain"} => n.dhcps = {},
           n.at = "modified" => \A a \in n.dhcps : ~(a.name = n.on /\ a.dhcp = "on"),
           n.at \notin {"no", "each"} => call'[t].at \in {"no", "try"} /\ call'[t].res # 0,
           n.at # "no"
    PROVE  ServedAt(t)'
<1>1. net'[t] = n
  BY OneNet DEF NetType
<1>2. n.at \in {"enabled", "added"} => ~Started(call'[t], child'[t])
  BY DEF Started
<1>3. QED
  BY <1>1, <1>2 DEF ServedAt, ServedOK, Names, Is, Started

LEMMA DoesServed ==
    ASSUME NetInv, NEW t \in Thread, ServedAt(t), NEW n \in Net, NEW cmd \in Command, NEW then \in Ats \ {"no", "each"},
           Does(t, n, cmd, then), net[t].at # "no",
           n.ifs = net[t].ifs, n.dhcps = net[t].dhcps, n.answer = net[t].answer,
           then \in {"created", "gotIfsAgain"} => net[t].at \in {"gotIfs", "created"},
           then # "gotIfs",
           then = "modified" => \A a \in n.dhcps : ~(a.name = n.on /\ a.dhcp = "on")
    PROVE  ServedAt(t)'
<1> DEFINE m == [n EXCEPT !.at = then]
<1>1. m \in Net
  BY Zenon DEF Net, Ats
<1>2. m.at = then /\ m.ifs = n.ifs /\ m.dhcps = n.dhcps /\ m.on = n.on /\ m.answer = n.answer
  BY DEF Net
<1>3. net' = [net EXCEPT ![t] = m] /\ UNCHANGED adapters /\ Starts(t, cmd, 1)
  BY NetTypes DEF Does
<1>4. call'[t].at \in {"no", "try"} /\ call'[t].res # 0
  BY <1>3, StartsMove, OneNet
<1>5. net[t].answer # "OK" /\ (net[t].at \in {"gotIfs", "created"} => net[t].dhcps = {})
  BY DEF ServedAt, ServedOK
<1> HIDE DEF m
<1>6. QED
  BY <1>1, <1>2, <1>3, <1>4, <1>5, GoesOnServed

LEMMA AnswersServed ==
    ASSUME NetInv, NEW t \in Thread, ServedAt(t), NEW answer \in {"OK", "QUERY_ERROR", "CREATE_ERROR", "NOT_VALIDATED"},
           Answers(t, answer),
           answer = "OK" => net[t].ifs # <<>> /\ \E name \in Names(net[t].ifs) : Is(name, {"on"})
    PROVE  ServedAt(t)'
<1> DEFINE n == net'[t]
<1>1. n.at = "no" /\ n.answer = answer /\ n.ifs = net[t].ifs /\ n.dhcps = {}
      /\ n.adapter = (IF answer = "OK" THEN Head(net[t].ifs).name ELSE 0) /\ UNCHANGED adapters
  BY OneNet DEF Answers, NetType, NetOnly, NoNet
<1>2. answer = "OK" => n.adapter \in Names(adapters)
  <2>1. SUFFICES ASSUME answer = "OK" PROVE n.adapter \in Names(adapters)
    OBVIOUS
  <2>2. Len(net[t].ifs) \in Nat \ {0} /\ Head(net[t].ifs) = net[t].ifs[1]
    BY <2>1, OneNet, EmptySeq
  <2>3. Head(net[t].ifs).name \in Names(net[t].ifs)
    BY <2>2, OneNet, SeqOfAdapters
  <2>4. QED
    BY <1>1, <2>1, <2>3 DEF ServedAt, ServedOK
<1>3. Names(n.ifs) \subseteq Names(adapters)
  BY <1>1 DEF ServedAt, ServedOK
<1> HIDE DEF n
<1>4. ServedOK(n, call'[t], child'[t])
  BY <1>1, <1>2, <1>3 DEF ServedOK
<1>5. QED
  BY <1>1, <1>4 DEF ServedAt, ServedOK, Names, Is, n

LEMMA NetStepsServed ==
    ASSUME NetInv, NEW t \in Thread, ServedAt(t), NetSteps(t)
    PROVE  ServedAt(t)'
<1> DEFINE n == net[t]
<1>1. n \in Net /\ n.ifs \in Seq(Adapter) /\ n.at \in Ats /\ call[t].at = "no" /\ child[t] = NoChild
  BY OneNet DEF NetSteps, GotIfs, Created, GotIfsAgain, GotDhcps, Each, Modified, Enabled, AddsServer, Added, InNet, At, ExecOK
<1>2. NetOK(n, call[t], child[t]) /\ ServedOK(n, call[t], child[t])
  BY OneNet DEF ServedAt
<1>3. \A answer \in {"QUERY_ERROR", "CREATE_ERROR", "NOT_VALIDATED"} : Answers(t, answer) => ServedAt(t)'
  BY AnswersServed
<1>4. ASSUME GotIfs(t) \/ GotIfsAgain(t)
      PROVE  ServedAt(t)'
  <2> DEFINE m == [n EXCEPT !.ifs = Listed(@, t)]
  <2>1. n.at \in {"gotIfs", "gotIfsAgain"}
    BY <1>4 DEF GotIfs, GotIfsAgain, InNet
  <2>2. CASE Failing(t)
    BY <1>3, <1>4, <2>2 DEF GotIfs, GotIfsAgain
  <2>3. CASE ~Failing(t)
    <3>1. m = n
      <4>1. Listed(n.ifs, t) = n.ifs
        BY <1>1, <2>1, <2>3, ListedType
      <4>2. QED
        BY <1>1, <4>1 DEF Net
    <3>2. \/ Does(t, n, "hostonlyif create", "created") /\ n.at = "gotIfs"
          \/ Answers(t, "NOT_VALIDATED") \/ Does(t, n, "list dhcpservers", "gotDhcps")
      BY <1>4, <2>1, <2>3, <3>1 DEF GotIfs, GotIfsAgain, InNet
    <3>3. {"hostonlyif create", "list dhcpservers"} \subseteq Command /\ {"created", "gotDhcps"} \subseteq Ats \ {"no", "each"}
      BY DEF Command, Ats
    <3>4. QED
      BY <1>1, <1>3, <2>1, <3>2, <3>3, DoesServed
  <2>4. QED
    BY <2>2, <2>3
<1>5. ASSUME Created(t)
      PROVE  ServedAt(t)'
  <2>1. n.at = "created"
    BY <1>5 DEF Created, InNet
  <2>2. "list hostonlyifs" \in Command /\ "gotIfsAgain" \in Ats \ {"no", "each"}
    BY DEF Command, Ats
  <2>3. QED
    BY <1>1, <1>3, <1>5, <2>1, <2>2, DoesServed DEF Created
<1>6. ASSUME GotDhcps(t)
      PROVE  ServedAt(t)'
  <2>1. CASE Failing(t)
    BY <1>3, <1>6, <2>1 DEF GotDhcps
  <2>2. ASSUME NEW read \in SomeListed(n.dhcps, t), NetOnly,
               net' = [net EXCEPT ![t].dhcps = read, ![t].at = "each", ![t].i = 1]
        PROVE  ServedAt(t)'
    <3> DEFINE m == [n EXCEPT !.dhcps = read, !.at = "each", !.i = 1]
    <3>1. read \subseteq n.dhcps /\ read \in SUBSET Adapter
      BY OneNet DEF SomeListed
    <3>2. m \in Net
      BY <1>1, <3>1, Zenon DEF Net
    <3>3. m.at = "each" /\ m.ifs = n.ifs /\ m.dhcps = read /\ m.answer = n.answer
      BY <1>1 DEF Net
    <3>4. net' = [net EXCEPT ![t] = m]
      BY <2>2, OneNet DEF NetType
    <3>5. n.answer # "OK"
      BY <1>2, <1>6 DEF ServedOK, GotDhcps, InNet
    <3> HIDE DEF m
    <3>6. QED
      BY <2>2, <3>1, <3>2, <3>3, <3>4, <3>5, GoesOnServed DEF NetOnly
  <2>3. QED
    BY <1>6, <2>1, <2>2 DEF GotDhcps
<1>7. ASSUME n.at \in {"each", "modified", "enabled"}, NextAdapter(t)
      PROVE  ServedAt(t)'
  <2> DEFINE m == [n EXCEPT !.at = "each", !.i = @ + 1]
  <2>1. m \in Net
    <3>1. n.i + 1 \in Nat
      BY OneNet
    <3>2. QED
      BY <1>1, <3>1, Zenon DEF Net
  <2>2. m.at = "each" /\ m.ifs = n.ifs /\ m.dhcps = n.dhcps /\ m.answer = n.answer
    BY <1>1 DEF Net
  <2>3. net' = [net EXCEPT ![t] = m] /\ NetOnly
    BY <1>7, OneNet DEF NextAdapter, NetType
  <2>4. n.answer # "OK"
    BY <1>2, <1>7 DEF ServedOK
  <2> HIDE DEF m
  <2>5. QED
    BY <2>1, <2>2, <2>3, <2>4, GoesOnServed DEF NetOnly
<1>8. {"dhcpserver enable", "dhcpserver modify", "dhcpserver add"} \subseteq Command
      /\ {"enabled", "modified", "added"} \subseteq Ats \ {"no", "each"}
  BY DEF Command, Ats
<1>9. ASSUME Each(t)
      PROVE  ServedAt(t)'
  <2> DEFINE m == [n EXCEPT !.on = n.ifs[n.i].name]
  <2>1. n.at = "each" /\ n.i <= Len(n.ifs) /\ n.i >= 1 /\ n.ifs # <<>>
    BY <1>2, <1>9 DEF Each, InNet, NetOK, ListOK
  <2>2. n.ifs[n.i].name \in Nat /\ n.ifs[n.i].name \in Names(n.ifs)
    BY <1>1, <2>1, OneNet, SeqOfAdapters
  <2>3. m \in Net
    BY <1>1, <2>2, Zenon DEF Net
  <2>4. m.ifs = n.ifs /\ m.dhcps = n.dhcps /\ m.i = n.i /\ m.on = n.ifs[n.i].name /\ m.answer = n.answer
    BY <1>1 DEF Net
  <2>5. CASE Listening(m, {"on"})
    <3>1. PICK a \in n.dhcps : a.name = n.ifs[n.i].name /\ a.dhcp = "on"
      BY <2>4, <2>5 DEF Listening
    <3>2. Is(n.ifs[n.i].name, {"on"})
      BY <1>2, <3>1 DEF ServedOK
    <3>3. Answers(t, "OK")
      BY <1>9, <2>5 DEF Each
    <3>4. QED
      BY <2>1, <2>2, <3>2, <3>3, AnswersServed
  <2>6. CASE ~Listening(m, {"on"})
    <3>1. \A a \in m.dhcps : ~(a.name = m.on /\ a.dhcp = "on")
      BY <2>4, <2>6 DEF Listening
    <3>2. \/ Does(t, m, "dhcpserver enable", "enabled") \/ Does(t, m, "dhcpserver modify", "modified") \/ NextAdapter(t)
      BY <1>9, <2>6 DEF Each
    <3> HIDE DEF m
    <3>3. QED
      BY <1>7, <1>8, <2>1, <2>3, <2>4, <3>1, <3>2, DoesServed
  <2>7. QED
    BY <2>5, <2>6
<1>10. ASSUME Modified(t)
       PROVE  ServedAt(t)'
  <2>1. n.at = "modified"
    BY <1>10 DEF Modified, InNet
  <2>2. QED
    BY <1>1, <1>7, <1>8, <1>10, <2>1, DoesServed DEF Modified
<1>11. ASSUME n.at \in {"enabled", "added"}, ~Failing(t), Answers(t, "OK")
       PROVE  ServedAt(t)'
  <2>1. Is(n.on, {"on"})
    BY <1>1, <1>2, <1>11 DEF ServedOK, Started, Failing
  <2>2. n.on \in Names(n.ifs) /\ n.ifs # <<>>
    BY <1>2, <1>11 DEF NetOK, ListOK
  <2>3. QED
    BY <1>11, <2>1, <2>2, AnswersServed
<1>12. ASSUME Enabled(t)
       PROVE  ServedAt(t)'
  BY <1>7, <1>11, <1>12 DEF Enabled, InNet
<1>13. ASSUME AddsServer(t)
       PROVE  ServedAt(t)'
  <2> DEFINE m == [n EXCEPT !.on = Head(n.ifs).name]
  <2>1. n.at = "each" /\ Does(t, m, "dhcpserver add", "added")
    BY <1>13 DEF AddsServer, InNet
  <2>2. n.ifs # <<>>
    BY <1>2, <2>1 DEF NetOK, ListOK
  <2>3. Head(n.ifs).name \in Nat
    BY <1>1, <2>2, HeadTailProperties, AdapterFields
  <2>4. m \in Net
    BY <1>1, <2>3, Zenon DEF Net
  <2>5. m.ifs = n.ifs /\ m.dhcps = n.dhcps /\ m.answer = n.answer
    BY <1>1 DEF Net
  <2> HIDE DEF m
  <2>6. QED
    BY <1>8, <2>1, <2>4, <2>5, DoesServed
<1>14. ASSUME Added(t)
       PROVE  ServedAt(t)'
  BY <1>3, <1>11, <1>14 DEF Added, InNet
<1>15. QED
  BY <1>4, <1>5, <1>6, <1>9, <1>10, <1>12, <1>13, <1>14 DEF NetSteps

LEMMA StartsServed ==
    ASSUME NetInv, NEW t \in Thread, ServedAt(t), GetsAdapter(t) \/ AnyCommand(t)
    PROVE  ServedAt(t)'
<1>1. CASE GetsAdapter(t)
  <2>1. net'[t] = [NoNet EXCEPT !.at = "gotIfs"] /\ UNCHANGED adapters
    BY <1>1, OneNet DEF GetsAdapter, NetType
  <2>2. net'[t].at = "gotIfs" /\ net'[t].ifs = <<>> /\ net'[t].dhcps = {} /\ net'[t].answer = "none"
    BY <2>1 DEF NoNet
  <2>3. Names(<<>>) = {}
    BY DEF Names
  <2>4. QED
    BY <2>1, <2>2, <2>3 DEF ServedAt, ServedOK
<1>2. CASE AnyCommand(t)
  <2>1. UNCHANGED <<net, adapters>> /\ net[t].at = "no"
    BY <1>2 DEF AnyCommand, InNet
  <2>2. QED
    BY <2>1 DEF ServedAt, ServedOK, Is
<1>3. QED
  BY <1>1, <1>2

LEMMA ForksServed ==
    ASSUME NetInv, NEW t \in Thread, ServedAt(t), ForksCommand(t)
    PROVE  ServedAt(t)'
<1> DEFINE c == call[t]
           n == net[t]
           m == net'[t]
<1>1. c \in Call /\ c.at = "try" /\ c.cmd \in Command /\ child[t] = NoChild /\ n \in Net /\ n.at \in Ats
  BY OneNet, OneCall DEF ForksCommand, Forks, At, ExecOK, Call
<1>2. NetOK(n, c, child[t]) /\ ServedOK(n, c, child[t]) /\ UNCHANGED adapters
  BY OneNet DEF ServedAt, ForksCommand
<1>3. c.cmd = "list hostonlyifs" => n.at \in {"gotIfs", "gotIfsAgain"}
  BY <1>1, <1>2 DEF NetOK, AsksOK, Asked, Ats
<1>4. c.cmd = "list dhcpservers" => n.at = "gotDhcps"
  BY <1>1, <1>2 DEF NetOK, AsksOK, Asked, Ats
<1>5. ~Started(call'[t], child'[t]) \/ n.at \notin {"enabled", "added"}
  <2>1. SUFFICES ASSUME n.at \in {"enabled", "added"} PROVE ~Started(call'[t], child'[t])
    OBVIOUS
  <2>2. c.cmd \in {"dhcpserver enable", "dhcpserver add"}
    BY <1>2, <2>1 DEF NetOK, AsksOK, Asked
  <2>3. ASSUME NEW p \in Programs(c.cmd),
               child' = [child EXCEPT ![t] = [NoChild EXCEPT !.at = "runs", !.left = p.left, !.says = p.says,
                                              !.code = p.code, !.todo = IF p.code = 0 THEN p.cmd ELSE "none"]],
               Goes(t, [c EXCEPT !.at = "poll", !.out = 0, !.err = "nothing", !.ran = p])
        PROVE  ~Started(call'[t], child'[t])
    <3>1. p.cmd = c.cmd
      BY <1>1, ProgramsType, OneNet DEF NetType
    <3>2. child'[t].todo = (IF p.code = 0 THEN p.cmd ELSE "none") /\ child'[t].code = p.code
      BY <2>3, OneNet DEF NoChild, ExecInv, ExecTypeOK
    <3>3. call'[t].at = "poll"
      BY <1>1, <2>3, OneNet DEF Goes, ExecInv, ExecTypeOK, Call
    <3>4. QED
      BY <2>2, <3>1, <3>2, <3>3 DEF Started
  <2>4. ASSUME Goes(t, [c EXCEPT !.at = "judge", !.res = Aborted, !.out = 0, !.err = "nothing"])
        PROVE  ~Started(call'[t], child'[t])
    <3>1. call'[t].at = "judge" /\ call'[t].res # 0
      BY <1>1, <2>4, OneNet DEF Goes, ExecInv, ExecTypeOK, Call, Aborted
    <3>2. QED
      BY <3>1 DEF Started
  <2>5. QED
    BY <2>3, <2>4 DEF ForksCommand, Forks
<1>6. m.at = n.at /\ m.on = n.on /\ m.answer = n.answer /\ m.adapter = n.adapter
      /\ m.ifs = (IF c.cmd = "list hostonlyifs" THEN adapters ELSE n.ifs)
      /\ m.dhcps = (IF c.cmd = "list dhcpservers" THEN Servers ELSE n.dhcps)
  <2>1. CASE c.cmd = "list hostonlyifs"
    BY <1>1, <2>1, OneNet DEF ForksCommand, NetType, Net
  <2>2. CASE c.cmd = "list dhcpservers"
    BY <1>1, <2>2, OneNet DEF ForksCommand, NetType, Net
  <2>3. CASE c.cmd \notin {"list hostonlyifs", "list dhcpservers"}
    BY <1>1, <2>3, OneNet DEF ForksCommand, NetType, Net
  <2>4. QED
    BY <2>1, <2>2, <2>3
<1>7. \A a \in Servers : a.dhcp = "on" => Is(a.name, {"on"})
  BY DEF Servers, Served, Is
<1> HIDE DEF m
<1>8. ServedOK(m, call'[t], child'[t])
  BY <1>1, <1>2, <1>3, <1>4, <1>5, <1>6, <1>7 DEF ServedOK
<1>9. QED
  BY <1>2, <1>8 DEF ServedAt, ServedOK, Is, m

LEMMA ActsServed ==
    ASSUME NetInv, NEW t \in Thread, ServedAt(t), Acts(t)
    PROVE  ServedAt(t)'
<1> DEFINE c == call[t]
           k == child[t]
           n == net[t]
           m == net'[t]
           cmd == k.todo
<1>1. k.at = "runs" /\ cmd # "none" /\ UNCHANGED call /\ adapters \in Seq(Adapter)
  BY OneNet DEF Acts, NetType
<1>2. ExecOK(c, k) /\ NetOK(n, c, k) /\ ServedOK(n, c, k) /\ n \in Net /\ n.at \in Ats /\ k \in Child
  BY OneNet, OneCall DEF ServedAt
<1>3. c.at = "poll" /\ cmd = c.cmd
  BY <1>1, <1>2 DEF ExecOK, NetOK, AsksOK, NoChild
<1>4. /\ cmd = "hostonlyif create" => n.at = "created"
      /\ cmd = "dhcpserver modify" => n.at = "modified"
      /\ cmd = "dhcpserver enable" => n.at = "enabled"
      /\ cmd = "dhcpserver add" => n.at = "added"
      /\ n.at = "enabled" => cmd = "dhcpserver enable"
      /\ n.at = "added" => cmd = "dhcpserver add"
  BY <1>2, <1>3 DEF NetOK, AsksOK, Asked, Ats
<1>5. m.at = n.at /\ m.ifs = n.ifs /\ m.dhcps = n.dhcps /\ m.on = n.on /\ m.answer = n.answer /\ m.adapter = n.adapter
  BY <1>2, OneNet DEF Acts, NetType, Net
<1>6. {"none", "off", "on"} \subseteq DHCP
  BY DEF DHCP
<1>7. child'[t].code = IF Can(cmd, n.on) THEN 0 ELSE Failed
  BY <1>2, OneNet DEF Acts, ExecInv, ExecTypeOK, Child
<1>8. Started(c, child'[t]) => Can(cmd, n.on)
  BY <1>3, <1>7 DEF Started, Failed
<1> HIDE DEF m
<1>9. ASSUME Names(adapters) \subseteq Names(adapters)',
             \A name : Is(name, {"on"}) /\ (n.at = "modified" => name # n.on) => Is(name, {"on"})',
             n.at \in {"enabled", "added"} /\ Started(c, child'[t]) => Is(n.on, {"on"})',
             n.at = "no" => UNCHANGED adapters
      PROVE  ServedAt(t)'
  <2>1. \A a \in n.dhcps : a.dhcp = "on" => Is(a.name, {"on"})'
    BY <1>2, <1>9 DEF ServedOK
  <2>2. n.answer = "OK" => n.at = "no" /\ n.adapter \in Names(adapters)' /\ \E name \in Names(n.ifs) : Is(name, {"on"})'
    BY <1>2, <1>9 DEF ServedOK, Is
  <2>3. Names(n.ifs) \subseteq Names(adapters)'
    BY <1>2, <1>9 DEF ServedOK
  <2>4. call'[t] = c
    BY <1>1
  <2>5. QED
    BY <1>2, <1>5, <1>9, <2>1, <2>2, <2>3, <2>4 DEF ServedAt, ServedOK, m
<1>10. CASE ~Can(cmd, n.on)
  <2>1. UNCHANGED adapters
    BY <1>10 DEF Acts
  <2>2. QED
    BY <1>8, <1>9, <1>10, <2>1 DEF Is
<1>11. CASE Can(cmd, n.on) /\ cmd = "hostonlyif create"
  <2>1. adapters' = Append(adapters, NewAdapter("none")) /\ FreeNames # {}
    BY <1>11 DEF Acts, Can
  <2>2. NewAdapter("none") \in Adapter
    BY <1>6, <2>1, NewAdapterType
  <2>3. Names(adapters) \subseteq Names(adapters)' /\ \A name : Is(name, {"on"}) => Is(name, {"on"})'
    BY <1>1, <2>1, <2>2, AppendAdapter
  <2>4. n.at = "created"
    BY <1>4, <1>11
  <2>5. QED
    BY <1>9, <2>3, <2>4
<1>12. CASE Can(cmd, n.on) /\ cmd = "dhcpserver modify"
  <2>1. adapters' = Set(n.on, "off") /\ n.at = "modified"
    BY <1>4, <1>12 DEF Acts
  <2>2. Names(adapters)' = Names(adapters) /\ \A name : Is(name, {"on"}) /\ name # n.on => Is(name, {"on"})'
    BY <1>1, <1>6, <2>1, SetServer
  <2>3. QED
    BY <1>9, <2>1, <2>2
<1>13. CASE Can(cmd, n.on) /\ cmd \in {"dhcpserver enable", "dhcpserver add"}
  <2>1. adapters' = Set(n.on, "on") /\ n.at \in {"enabled", "added"}
    BY <1>4, <1>13 DEF Acts
  <2>2. PICK x : x = n.on
    OBVIOUS
  <2>3. "on" \in DHCP /\ adapters' = Set(x, "on")
    BY <1>6, <2>1, <2>2
  <2>4. /\ Names(adapters)' = Names(adapters) /\ \A name : Is(name, {"on"}) => Is(name, {"on"})'
        /\ \A dhcps : Is(x, dhcps) => Is(x, {"on"})'
    BY <1>1, <2>3, SetServer
  <2>5. Is(x, {"none"}) \/ Is(x, DHCP \ {"none"})
    BY <1>13, <2>2 DEF Can
  <2>6. x = (n.on)'
    BY <1>5, <2>2 DEF m
  <2>7. QED
    BY <1>9, <2>1, <2>4, <2>5, <2>6
<1>14. CASE cmd \notin {"hostonlyif create", "dhcpserver modify", "dhcpserver enable", "dhcpserver add"}
  <2>1. UNCHANGED adapters
    BY <1>14 DEF Acts
  <2>2. n.at \notin {"enabled", "added"}
    BY <1>4, <1>14
  <2>3. QED
    BY <1>9, <2>1, <2>2 DEF Is
<1>15. QED
  BY <1>10, <1>11, <1>12, <1>13, <1>14

LEMMA ServedNext ==
    ASSUME \A t, u \in Thread : t = u, NetInv, ServedInv, [Next]_vars
    PROVE  ServedInv'
<1>1. others \in Nat
  BY DEF NetInv, NetType
<1>2. CASE others # 0 \/ OthersAct
  <2>1. others' # 0
    <3>1. CASE OthersAct
      BY <1>1, <3>1 DEF OthersAct
    <3>2. CASE others # 0 /\ ~OthersAct
      <4>1. UNCHANGED others
        BY <3>2 DEF Next, vars, netVars, GetsAdapter, AnyCommand, NetSteps, Executes, ForksCommand, Acts, GotIfs, Created,
             GotIfsAgain, GotDhcps, Each, Modified, Enabled, AddsServer, Added, Does, Answers, NetOnly, NextAdapter
      <4>2. QED
        BY <3>2, <4>1
    <3>3. QED
      BY <1>2, <3>1, <3>2
  <2>2. QED
    BY <2>1 DEF ServedInv
<1>3. CASE others = 0 /\ ~OthersAct
  <2>1. ASSUME NEW t \in Thread, GetsAdapter(t) \/ AnyCommand(t) \/ NetSteps(t) \/ ForksCommand(t) \/ Acts(t)
        PROVE  ServedInv'
    <3>1. ServedAt(t)
      BY <1>3 DEF ServedInv
    <3>2. ServedAt(t)'
      BY <2>1, <3>1, StartsServed, NetStepsServed, ForksServed, ActsServed
    <3>3. QED
      BY <3>2, TurnsServed
  <2>2. ASSUME NEW t \in Thread, Runs(t) \/ Writes(t) \/ Closes(t) \/ Exits(t), UNCHANGED netVars
        PROVE  ServedInv'
    <3>1. ServedAt(t) /\ ExecInv
      BY <1>3 DEF ServedInv, NetInv
    <3>2. MovesOnly(t)
      BY <2>2, <3>1, RunsMove, ProgramMoves
    <3>3. ServedAt(t)'
      BY <2>2, <3>1, <3>2, MovesServed
    <3>4. QED
      BY <3>3, TurnsServed
  <2>3. ASSUME UNCHANGED <<call, child>>, UNCHANGED netVars
        PROVE  ServedInv'
    BY <1>3, <2>3 DEF ServedInv, ServedAt, ServedOK, Is, netVars
  <2>4. QED
    BY <1>3, <2>1, <2>2, <2>3 DEF Next, Executes, abortSysExec, initSysExec, vars, execVars
<1>4. QED
  BY <1>2, <1>3

\* Where one thread runs and nobody else changes the host's network, a search that succeeds
\* hands out an adapter of the host, and a DHCP server runs on one of those it has listed.
THEOREM FoundAdapterIsServed ==
    ASSUME \A t, u \in Thread : t = u
    PROVE  Spec => []AdapterServed
<1>1. Init => ServedInv
  <2>1. SUFFICES ASSUME Init, NEW t \in Thread PROVE ServedAt(t)
    BY DEF ServedInv
  <2>2. net[t] = NoNet /\ NoNet.at = "no" /\ NoNet.answer = "none" /\ NoNet.dhcps = {} /\ NoNet.ifs = <<>>
    BY <2>1, NetTypes DEF Init
  <2>3. Names(<<>>) = {}
    BY DEF Names
  <2>4. QED
    BY <2>2, <2>3 DEF ServedAt, ServedOK
<1>2. NetInv /\ ServedInv /\ [Next]_vars => ServedInv'
  BY ServedNext
<1>3. ServedInv => AdapterServed
  BY DEF ServedInv, ServedAt, ServedOK, AdapterServed
<1>4. QED
  BY <1>1, <1>2, <1>3, NetInvariant, PTL DEF Spec
=============================================================================

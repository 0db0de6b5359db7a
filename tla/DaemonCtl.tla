----------------------------- MODULE DaemonCtl -----------------------------
(***************************************************************************)
(* DaemonCtl: processes that ask the daemon over ThinIPC, start it when a  *)
(* session needs it and stop it when none does.  A request waits a quarter *)
(* of a second for its answer; one that comes later stays at the port for  *)
(* the process's next request.                                             *)
(*                                                                         *)
(* The daemon is another program.  It is what the code of the clients      *)
(* takes it for: it opens its port when nobody has it, writes its lock     *)
(* file, answers one request after the other, and ends when it is asked    *)
(* to; it may also crash.                                                  *)
(*                                                                         *)
(* Quirks names what the code does not exclude:                            *)
(*   "interleave"  two processes send at once messages that need more than *)
(*                 one datagram                                            *)
(*   "startTwice"  the need is checked again while a daemon is starting    *)
(***************************************************************************)
EXTENDS ThinIPC

CONSTANTS Client,
          SizeOf,     \* the size of a request, by its kind
          KindsOf,    \* the kinds of requests that a process sends
          Quirks,
          MaxCalls, MaxPid, MaxCrashes  \* bounds of the instance

VARIABLES call,       \* where a client is in the call it makes, and its kind
          calls,      \* its calls so far
          late,       \* ghost: its calls that were given up
          lock,       \* the process in the lock file
          daemon,     \* what became of a process of the daemon
          parent,     \* who started it
          currDaemonPid,
          crashes,
          taken       \* ghost: what the daemon took for a message was one

callVars   == <<call, calls, late>>
daemonVars == <<lock, daemon, parent, currDaemonPid, crashes, taken>>
vars == <<ipcVars, callVars, daemonVars>>

Daemon  == "daemon"
Pid     == 1 .. MaxPid
Idle    == [at |-> "no", what |-> "none"]
Serving == {p \in Pid : daemon[p] \in {"serving", "ending"}}
Fresh   == {p \in Pid : daemon[p] = "no"}

ASSUME PortAssumption ==
    Port = Client \cup {Daemon} /\ Client \cap {Daemon, "none"} = {} /\ MaxPid \in Nat \ {0}

Init ==
    /\ IPCInit
    /\ call = [c \in Client |-> Idle] /\ calls = [c \in Client |-> 0]
    /\ late = [c \in Client |-> 0]
    /\ \/ lock = 0 /\ daemon = [p \in Pid |-> "no"]
       \/ lock = 1 /\ daemon = [p \in Pid |-> IF p = 1 THEN "serving" ELSE "no"]
    /\ parent = [p \in Pid |-> "none"] /\ currDaemonPid = [c \in Client |-> 0]
    /\ crashes = 0 /\ taken = TRUE

Goes(c, at) == call' = [call EXCEPT ![c].at = at]
Returns(c)  == call' = [call EXCEPT ![c] = Idle]

(***************************************************************************)
(* daemonIPC: send, wait, receive, look at the error number.               *)
(***************************************************************************)
AloneWithIt(c, size) ==
    \/ "interleave" \in Quirks
    \/ \A d \in Client \ {c} : Sent(d) \/ ~(SeveralDatagrams(size) \/ SeveralDatagrams(out[d].msg.size))

Asks(c, what) ==
    /\ call[c] = Idle /\ calls[c] < MaxCalls[c] /\ AloneWithIt(c, SizeOf[what])
    /\ calls' = [calls EXCEPT ![c] = @ + 1]
    /\ call' = [call EXCEPT ![c] = [at |-> "send", what |-> what]]
    /\ Sends(c, Daemon, [by |-> c, n |-> calls[c] + 1, what |-> what, size |-> SizeOf[what]])
    /\ UNCHANGED <<inbox, in, losses, lost, late, daemonVars>>

\* daemonGet and daemonSet, and daemonIPC with another message.
Requests(c) == \E what \in KindsOf[c] : Asks(c, what)

ClientSends(c) ==
    /\ call[c].at = "send"
    /\ IF Serving # {} THEN SendChunk(c) ELSE SendChunkToNobody(c)
    /\ UNCHANGED <<callVars, daemonVars>>

\* Deviation: the wait ends only with an answer.
WaitsForEver(c) ==
    /\ call[c].at = "send" /\ Sent(c)
    /\ inbox[c] # <<>> /\ Goes(c, "recv") /\ in' = [in EXCEPT ![c] = Reset] /\ UNCHANGED late
    /\ UNCHANGED <<inbox, out, losses, lost, calls, daemonVars>>

\* isPending: something is there, or the time has passed.
Waits(c) ==
    /\ call[c].at = "send" /\ Sent(c)
    /\ \/ inbox[c] # <<>> /\ Goes(c, "recv") /\ in' = [in EXCEPT ![c] = Reset] /\ UNCHANGED late
       \/ inbox[c] = <<>> /\ Returns(c) /\ late' = [late EXCEPT ![c] = @ + 1] /\ UNCHANGED in
    /\ UNCHANGED <<inbox, out, losses, lost, calls, daemonVars>>

ClientReceives(c) ==
    /\ call[c].at = "recv" /\ RecvChunk(c)
    /\ UNCHANGED <<callVars, daemonVars>>

TakesAnswer(c) ==
    /\ call[c].at = "recv" /\ in[c].done
    /\ IF call[c].what = "stop" /\ Received(c).what = "ok" THEN Goes(c, "reap") ELSE Returns(c)
    /\ in' = [in EXCEPT ![c] = Reset]
    /\ UNCHANGED <<inbox, out, losses, lost, calls, late, daemonVars>>

(***************************************************************************)
(* daemonStart and daemonStop, as checkDaemonNeed calls them.  A process   *)
(* that ended and was not waited for counts as alive.                      *)
(***************************************************************************)
IsDaemonRunning == lock # 0 /\ daemon[lock] # "gone"

Starts(c) ==
    /\ call[c] = Idle /\ ~IsDaemonRunning
    /\ "startTwice" \in Quirks \/ \A p \in Pid : daemon[p] # "starting"
    /\ Fresh # {}
    /\ LET p == CHOOSE q \in Fresh : TRUE IN
         /\ daemon' = [daemon EXCEPT ![p] = "starting"] /\ parent' = [parent EXCEPT ![p] = c]
         /\ currDaemonPid' = [currDaemonPid EXCEPT ![c] = p]
    /\ UNCHANGED <<ipcVars, callVars, lock, crashes, taken>>

Stops(c) == IsDaemonRunning /\ Asks(c, "stop")

\* Deviation: the end of the child is not waited for.
ReapsAtOnce(c) ==
    /\ call[c].at = "reap" /\ Returns(c)
    /\ UNCHANGED <<ipcVars, calls, late, daemonVars>>

\* waitpid: waits for a child, and fails at once for another process.
Reaps(c) ==
    /\ call[c].at = "reap" /\ Returns(c)
    /\ LET p == currDaemonPid[c] IN
         IF p # 0 /\ daemon[p] # "gone"
         THEN daemon[p] = "zombie" /\ daemon' = [daemon EXCEPT ![p] = "gone"]
         ELSE UNCHANGED daemon
    /\ UNCHANGED <<ipcVars, calls, late, lock, parent, currDaemonPid, crashes, taken>>

ClientNext(c) ==
    \/ ClientSends(c) \/ Waits(c) \/ ClientReceives(c) \/ TakesAnswer(c) \/ Reaps(c)

(***************************************************************************)
(* The daemon                                                              *)
(***************************************************************************)
Ended(p) == IF parent[p] = "none" THEN "gone" ELSE "zombie"
PortClosed ==
    /\ inbox' = [inbox EXCEPT ![Daemon] = <<>>]
    /\ in' = [in EXCEPT ![Daemon] = Reset] /\ out' = [out EXCEPT ![Daemon] = NotSending]
    /\ lost' = (lost \/ \E c \in Client : out[c].pos > 0 /\ ~Sent(c)) /\ UNCHANGED losses

DaemonUp(p) ==
    /\ daemon[p] = "starting" /\ Serving = {}
    /\ daemon' = [daemon EXCEPT ![p] = "serving"] /\ lock' = p
    /\ UNCHANGED <<ipcVars, callVars, parent, currDaemonPid, crashes, taken>>

DaemonReceives(p) ==
    /\ daemon[p] = "serving" /\ RecvChunk(Daemon)
    /\ UNCHANGED <<callVars, daemonVars>>

DaemonAnswers(p) ==
    /\ daemon[p] = "serving" /\ in[Daemon].done /\ Sent(Daemon)
    /\ taken' = (taken /\ IsWhole(Daemon))
    /\ LET ok == IsWhole(Daemon) IN
         /\ Sends(Daemon, in[Daemon].port,
                  [by |-> Daemon, n |-> IF ok THEN Received(Daemon).n ELSE 0,
                   what |-> IF ok THEN "ok" ELSE "error", size |-> IF ok THEN 2 ELSE 1])
         /\ daemon' = [daemon EXCEPT ![p] = IF ok /\ Received(Daemon).what = "stop" THEN "ending" ELSE @]
    /\ in' = [in EXCEPT ![Daemon] = Reset]
    /\ UNCHANGED <<inbox, losses, lost, callVars, lock, parent, currDaemonPid, crashes>>

DaemonSends(p) ==
    /\ p \in Serving /\ SendChunk(Daemon)
    /\ UNCHANGED <<callVars, daemonVars>>

\* daemonUnlock removes the file, whoever is named in it.
DaemonEnds(p) ==
    /\ daemon[p] = "ending" /\ Sent(Daemon)
    /\ daemon' = [daemon EXCEPT ![p] = Ended(p)] /\ lock' = 0 /\ PortClosed
    /\ UNCHANGED <<callVars, parent, currDaemonPid, crashes, taken>>

DaemonCrashes(p) ==
    /\ p \in Serving /\ crashes < MaxCrashes /\ crashes' = crashes + 1
    /\ daemon' = [daemon EXCEPT ![p] = Ended(p)] /\ PortClosed
    /\ UNCHANGED <<callVars, lock, parent, currDaemonPid, taken>>

DaemonNext(p) == DaemonUp(p) \/ DaemonReceives(p) \/ DaemonAnswers(p) \/ DaemonSends(p) \/ DaemonEnds(p)

Next ==
    \/ \E c \in Client : Requests(c) \/ Starts(c) \/ Stops(c) \/ ClientNext(c)
    \/ \E p \in Pid : DaemonNext(p) \/ DaemonCrashes(p)

Fairness ==
    /\ \A c \in Client : WF_vars(ClientNext(c))
    /\ \A p \in Pid : WF_vars(DaemonNext(p))

Spec == Init /\ [][Next]_vars /\ Fairness

(***************************************************************************)
(* Properties                                                              *)
(***************************************************************************)
\* Every variable has its type, and no chunk goes past the end of its message.
TypeOK ==
    /\ \A p \in Port : out[p].pos = 0 \/ out[p].pos <= out[p].size
    /\ \A p \in Port : in[p].done => in[p].size = Len(in[p].data)
    /\ \A c \in Client : call[c].at \in {"no", "send", "recv", "reap"} /\ late[c] <= calls[c]
    /\ lock \in 0 .. MaxPid
    /\ \A p \in Pid : daemon[p] \in {"no", "starting", "serving", "ending", "zombie", "gone"}

\* As long as no datagram is dropped, what the daemon takes for a message is one
\* that a client has sent, whole and in its order: getChunk, putChunk and recv.
WholeMessages == lost \/ taken

\* The sizes of the requests for which messages are kept whole: none is cut where its size is
\* not counted for the first datagram, and none so long that its size comes out positive again.
SizesFit ==
    \A c \in Client : \A k \in KindsOf[c] \cup {"stop"} :
        SizeOf[k] \in Nat /\ SizeOf[k] # Capacity /\ SizeOf[k] <= 2 * (MaxShort + 1)

\* A client takes the answer to its own request, or to one of its requests that it
\* has given up: it is behind by no more than the calls that were given up.
AnswersLag ==
    lost \/ \A c \in Client : in[c].done =>
        Received(c).n <= calls[c] /\ calls[c] <= Received(c).n + late[c]

\* When daemonStop has succeeded no daemon that this process started is left.
StopLeavesNoChild ==
    [][\A c \in Client : (call[c].at = "reap" /\ call'[c] = Idle) =>
           \A p \in Pid : parent[p] = c => daemon'[p] \in {"zombie", "gone"}]_vars

\* As long as no datagram is dropped every call returns, whatever becomes of the daemon.
CallsReturn == \A c \in Client : call[c] # Idle ~> (call[c] = Idle \/ losses > 0 \/ lost)
=============================================================================

---------------------------- MODULE HostNetwork ----------------------------
(***************************************************************************)
(* getHostOnlyAdapter: a session with two network cards looks for a        *)
(* host-only adapter, creates one where there is none, and sees that a     *)
(* DHCP server runs on it.  Each of its VBoxManage commands is a call of   *)
(* sysExec, which may fail, hang and be killed before or after it did what *)
(* it was asked; somebody else may change the host's network in between.   *)
(*                                                                         *)
(* An adapter's server is missing ("none"), has no addresses ("unset"), is *)
(* stopped ("off") or runs ("on").  A list prints one word for each entry. *)
(* Adapters that lack some of their fields are left out.                   *)
(***************************************************************************)
EXTENDS SysExec, FiniteSets, Sequences

CONSTANTS Retries,     \* of the calls that are not this function's
          MaxCalls, MaxAdapters, MaxOthers

VARIABLES adapters,    \* the adapters of the host, in the order in which they are listed
          net,         \* how far the function is in each session, and its answer
          calls, others

netVars == <<adapters, net, calls, others>>
vars == <<execVars, netVars>>

DHCP == {"none", "unset", "off", "on"}
Adapter == [name : 1 .. MaxAdapters, dhcp : DHCP]
Names(as) == {as[i].name : i \in DOMAIN as}

Net == [at : {"no", "gotIfs", "created", "gotIfsAgain", "gotDhcps", "each", "modified", "enabled", "added"},
        ifs : Seq(Adapter), dhcps : SUBSET Adapter, i : Nat, on : Nat, adapter : Nat,
        answer : {"none", "OK", "QUERY_ERROR", "CREATE_ERROR", "NOT_VALIDATED"}, created : Nat]

ASSUME BoundsAssumption == Retries \in Nat /\ MaxAdapters \in Nat /\ MaxAdapters >= 2

NoNet == [at |-> "no", ifs |-> <<>>, dhcps |-> {}, i |-> 0, on |-> 0, adapter |-> 0, answer |-> "none", created |-> 0]

Init ==
    /\ ExecInit /\ calls = 0 /\ others = 0
    /\ \E n \in 0 .. 2 : \E d \in [1 .. n -> DHCP] : adapters = [i \in 1 .. n |-> [name |-> i, dhcp |-> d[i]]]
    /\ net = [t \in Thread |-> NoNet]

(***************************************************************************)
(* The commands                                                            *)
(***************************************************************************)
Served  == {i \in DOMAIN adapters : adapters[i].dhcp # "none"}
Servers == {adapters[i] : i \in Served}

\* What a command may write; what others than this function's write is not looked into.
Written(cmd) ==
    CASE cmd = "list hostonlyifs" -> {Len(adapters)}
      [] cmd = "list dhcpservers" -> {Cardinality(Served)}
      [] cmd = "any"              -> 0 .. MaxOut
      [] OTHER                    -> {0}

Programs(cmd) ==
    [cmd : {cmd}, left : Written(cmd), code : {0, Failed},
     says : {"nothing", "error"} \cup IF cmd = "any" THEN {"known"} ELSE {}]

ForksCommand(t) ==
    /\ Forks(t, Programs(call[t].cmd))
    /\ net' = [net EXCEPT ![t] =
                 CASE call[t].cmd = "list hostonlyifs" -> [@ EXCEPT !.ifs = adapters]
                   [] call[t].cmd = "list dhcpservers" -> [@ EXCEPT !.dhcps = Servers]
                   [] OTHER -> @]
    /\ UNCHANGED <<adapters, calls, others>>

\* The host's network once the command is done: hostonlyif create wants a number that is
\* free, dhcpserver add an adapter without a server, dhcpserver modify one with a server.
FreeNames == (1 .. MaxAdapters) \ Names(adapters)
Is(name, dhcps) == \E i \in DOMAIN adapters : adapters[i].name = name /\ adapters[i].dhcp \in dhcps
Set(name, d) == [i \in DOMAIN adapters |-> IF adapters[i].name = name THEN [adapters[i] EXCEPT !.dhcp = d] ELSE adapters[i]]
NewAdapter(d) == [name |-> CHOOSE n \in FreeNames : TRUE, dhcp |-> d]

Can(cmd, name) ==
    CASE cmd = "hostonlyif create" -> FreeNames # {}
      [] cmd = "dhcpserver add" -> Is(name, {"none"})
      [] cmd \in {"dhcpserver modify", "dhcpserver enable"} -> Is(name, DHCP \ {"none"})
      [] OTHER -> TRUE

Acts(t) ==
    LET cmd == child[t].todo
        ok  == Can(cmd, net[t].on)
    IN  /\ child[t].at = "runs" /\ cmd # "none"
        /\ child' = [child EXCEPT ![t].todo = "none", ![t].code = IF ok THEN 0 ELSE Failed]
        /\ adapters' = IF ~ok THEN adapters
                       ELSE CASE cmd = "hostonlyif create" -> Append(adapters, NewAdapter("none"))
                              [] cmd = "dhcpserver modify" -> Set(net[t].on, "off")
                              [] cmd \in {"dhcpserver enable", "dhcpserver add"} -> Set(net[t].on, "on")
                              [] OTHER -> adapters
        /\ net' = [net EXCEPT ![t].created = @ + IF cmd = "hostonlyif create" THEN 1 ELSE 0]
        /\ UNCHANGED <<sysExecAborted, call, aborts, calls, others>>

(***************************************************************************)
(* getHostOnlyAdapter                                                      *)
(***************************************************************************)
\* Deviation: its commands are tried twice.
TriesTwice == 2

\* The retries of the session's execConfig.
Tries == 1

InNet(t, where) == net[t].at = where /\ At(t, "no")
Failing(t) == call[t].res # 0
NetOnly == UNCHANGED <<execVars, adapters, calls, others>>

\* wrapExec
Does(t, n, cmd, then) ==
    /\ Starts(t, cmd, Tries) /\ net' = [net EXCEPT ![t] = [n EXCEPT !.at = then]]
    /\ UNCHANGED <<adapters, calls, others>>

Answers(t, answer) ==
    /\ net' = [net EXCEPT ![t] = [NoNet EXCEPT !.answer = answer, !.created = net[t].created, !.ifs = net[t].ifs,
                                               !.adapter = IF answer = "OK" THEN Head(net[t].ifs).name ELSE 0]]
    /\ NetOnly

\* tokenizeList: the entries that were read, of the servers in any order.
Listed(list, t) == SubSeq(list, 1, call[t].lines)
SomeListed(set, t) == {read \in SUBSET set : Cardinality(read) = call[t].lines}

GetsAdapter(t) ==
    /\ InNet(t, "no") /\ calls < MaxCalls /\ calls' = calls + 1
    /\ Starts(t, "list hostonlyifs", Tries) /\ net' = [net EXCEPT ![t] = [NoNet EXCEPT !.at = "gotIfs"]]
    /\ UNCHANGED <<adapters, others>>

GotIfs(t) ==
    LET n == [net[t] EXCEPT !.ifs = Listed(@, t)]
    IN  /\ InNet(t, "gotIfs")
        /\ IF Failing(t) THEN Answers(t, "QUERY_ERROR")
           ELSE IF n.ifs = <<>> THEN Does(t, n, "hostonlyif create", "created")
           ELSE Does(t, n, "list dhcpservers", "gotDhcps")

Created(t) ==
    /\ InNet(t, "created")
    /\ IF Failing(t) THEN Answers(t, "CREATE_ERROR") ELSE Does(t, net[t], "list hostonlyifs", "gotIfsAgain")

GotIfsAgain(t) ==
    LET n == [net[t] EXCEPT !.ifs = Listed(@, t)]
    IN  /\ InNet(t, "gotIfsAgain")
        /\ IF Failing(t) THEN Answers(t, "QUERY_ERROR")
           ELSE IF n.ifs = <<>> THEN Answers(t, "NOT_VALIDATED")
           ELSE Does(t, n, "list dhcpservers", "gotDhcps")

GotDhcps(t) ==
    /\ InNet(t, "gotDhcps")
    /\ IF Failing(t) THEN Answers(t, "QUERY_ERROR")
       ELSE /\ \E read \in SomeListed(net[t].dhcps, t) :
                 net' = [net EXCEPT ![t].dhcps = read, ![t].at = "each", ![t].i = 1]
            /\ NetOnly

\* The server that was listed for the adapter at hand.
Listening(n, dhcps) == \E a \in n.dhcps : a.name = n.ifs[n.i].name /\ a.dhcp \in dhcps
NextAdapter(t) == net' = [net EXCEPT ![t].at = "each", ![t].i = @ + 1] /\ NetOnly

Each(t) ==
    LET n == [net[t] EXCEPT !.on = net[t].ifs[net[t].i].name]
    IN  /\ InNet(t, "each") /\ net[t].i <= Len(net[t].ifs)
        /\ IF Listening(n, {"on"}) THEN Answers(t, "OK")
           ELSE IF Listening(n, {"off"}) THEN Does(t, n, "dhcpserver enable", "enabled")
           ELSE IF Listening(n, {"unset"}) THEN Does(t, n, "dhcpserver modify", "modified")
           ELSE NextAdapter(t)

Modified(t) ==
    /\ InNet(t, "modified")
    /\ IF Failing(t) THEN NextAdapter(t) ELSE Does(t, net[t], "dhcpserver enable", "enabled")

\* Deviation: the server counts as running whether it could be started or not.
EnabledAnyway(t) ==
    /\ InNet(t, "enabled")
    /\ Answers(t, "OK")

Enabled(t) ==
    /\ InNet(t, "enabled")
    /\ IF Failing(t) THEN NextAdapter(t) ELSE Answers(t, "OK")

\* No adapter has a server that runs: the first one is to get one.
AddsServer(t) ==
    /\ InNet(t, "each") /\ net[t].i > Len(net[t].ifs)
    /\ Does(t, [net[t] EXCEPT !.on = Head(net[t].ifs).name], "dhcpserver add", "added")

Added(t) ==
    /\ InNet(t, "added")
    /\ Answers(t, IF Failing(t) THEN "CREATE_ERROR" ELSE "OK")

NetSteps(t) ==
    \/ GotIfs(t) \/ Created(t) \/ GotIfsAgain(t) \/ GotDhcps(t) \/ Each(t) \/ Modified(t)
    \/ Enabled(t) \/ AddsServer(t) \/ Added(t)

(***************************************************************************)
(* Other callers of sysExec, and other users of the host's network.        *)
(***************************************************************************)
AnyCommand(t) ==
    /\ InNet(t, "no") /\ calls < MaxCalls /\ calls' = calls + 1
    /\ Starts(t, "any", Retries) /\ UNCHANGED <<adapters, net, others>>

\* Between two commands of a search: what is done while one runs comes to the same.
OthersAct ==
    /\ others < MaxOthers /\ others' = others + 1
    /\ \E t \in Thread : net[t].at # "no" /\ At(t, "no")
    /\ \/ Cardinality(FreeNames) > 1 /\ \E d \in {"none", "on"} : adapters' = Append(adapters, NewAdapter(d))
       \/ \E name \in Names(adapters), d \in {"none", "on"} : adapters' = Set(name, d)
       \/ \E i \in DOMAIN adapters : adapters' = SubSeq(adapters, 1, i - 1) \o SubSeq(adapters, i + 1, Len(adapters))
    /\ UNCHANGED <<execVars, net, calls>>

Executes(t) == (Runs(t) /\ UNCHANGED netVars) \/ ForksCommand(t)
Next ==
    \/ \E t \in Thread :
         \/ GetsAdapter(t) \/ AnyCommand(t) \/ NetSteps(t) \/ Executes(t) \/ Acts(t)
         \/ (Writes(t) \/ Closes(t) \/ Exits(t)) /\ UNCHANGED netVars
    \/ (abortSysExec \/ initSysExec) /\ UNCHANGED netVars
    \/ OthersAct

\* Threads run and time passes; a program that has closed its output ends.
Spec ==
    /\ Init /\ [][Next]_vars
    /\ \A t \in Thread : WF_vars(Executes(t)) /\ WF_vars(NetSteps(t)) /\ WF_vars(Exits(t) /\ UNCHANGED netVars)

(***************************************************************************)
(* Properties                                                              *)
(***************************************************************************)
\* The types of the state.
TypeOK ==
    /\ ExecTypeOK /\ calls \in Nat /\ others \in Nat
    /\ adapters \in Seq(Adapter) /\ net \in [Thread -> Net]

\* Where nobody else changes the host's network, the adapter that is handed out was listed,
\* and a DHCP server runs on one of the adapters that were.
AdapterServed ==
    \A t \in Thread : net[t].answer = "OK" /\ others = 0 =>
        /\ net[t].adapter \in Names(adapters)
        /\ \E name \in Names(net[t].ifs) : Is(name, {"on"})

\* One search creates no more than one adapter, though a command may fail after it has
\* created one.
CreatesOnce == \A t \in Thread : net[t].created <= 1

\* Every call returns, whatever the programs do as long as their output is open.
CallsReturn == \A t \in Thread : (~At(t, "no") \/ net[t].at # "no") ~> (At(t, "no") /\ net[t].at = "no")
=============================================================================

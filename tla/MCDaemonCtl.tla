---------------------------- MODULE MCDaemonCtl ----------------------------
(***************************************************************************)
(* DaemonCtl with two processes and datagrams of three words: a request of *)
(* one datagram, one of three, one too long for its size, and the request  *)
(* to stop.                                                                *)
(***************************************************************************)
EXTENDS DaemonCtl

MCPorts  == {"p", "q", "daemon"}
MCSizes  == [get |-> 1, long |-> 6, huge |-> 8, stop |-> 1]
MCKinds  == [p |-> {"get"}, q |-> {"long", "huge"}]
MCCalls  == [p |-> 2, q |-> 1]
MCQuirks == {}

\* What the theorems about messages and answers ask of an instance.
ASSUME InstanceFits == SizesFit /\ Capacity > 2 /\ "interleave" \notin Quirks
=============================================================================

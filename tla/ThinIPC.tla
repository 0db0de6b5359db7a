------------------------------ MODULE ThinIPC ------------------------------
(***************************************************************************)
(* ThinIPC: messages between processes of a host, cut into datagrams.      *)
(* Sizes count words of two bytes; the size that the first datagram begins *)
(* with is one word, and a size is a short integer.                        *)
(*                                                                         *)
(* A word is named for the message it is of and its place there.  What a   *)
(* receiver reads behind the end of a datagram, and the number it takes a  *)
(* word of a message for, may be anything.                                 *)
(***************************************************************************)
EXTENDS Integers, Sequences

CONSTANTS Port,
          Capacity,  \* of a datagram
          MaxShort,  \* the greatest size
          MaxLoss    \* bound of the instance: datagrams that the host drops

VARIABLES inbox,     \* the datagrams that wait at a port
          out,       \* the message a port is sending
          in,        \* the message a port is receiving
          losses,
          lost       \* ghost: a message of several datagrams was not delivered whole

ipcVars == <<inbox, out, in, losses, lost>>

ASSUME CapacityAssumption == Capacity \in Nat /\ Capacity > 1 /\ MaxShort \in Nat /\ MaxShort > Capacity

NoMessage  == [by |-> "none", n |-> 0, what |-> "none", size |-> 0]
Word(m, i) == [kind |-> "word", of |-> m, n |-> i]
Size(n)    == [kind |-> "size", of |-> NoMessage, n |-> n]
Junk       == [kind |-> "junk", of |-> NoMessage, n |-> 0]

NotSending == [to |-> "none", msg |-> NoMessage, size |-> 0, pos |-> 0]
Reset      == [size |-> 0, pos |-> 0, data |-> <<>>, port |-> "none", done |-> FALSE]

IPCInit ==
    /\ inbox = [p \in Port |-> <<>>]
    /\ out = [p \in Port |-> NotSending]
    /\ in = [p \in Port |-> Reset]
    /\ losses = 0 /\ lost = FALSE

Least(a, b) == IF a < b THEN a ELSE b
Words(m, first, last) == [i \in 1 .. (last - first + 1) |-> Word(m, first + i - 1)]

\* The words are written one after the other and counted by a short integer.
Short(n) == IF n > MaxShort THEN n - 2 * (MaxShort + 1) ELSE n

(***************************************************************************)
(* send: one chunk after the other; a message whose size has become        *)
(* negative has none.  What is sent to a port that nobody has opened goes  *)
(* nowhere.                                                                *)
(***************************************************************************)
Sends(p, to, msg) == out' = [out EXCEPT ![p] = [to |-> to, msg |-> msg, size |-> Short(msg.size), pos |-> 0]]
Sent(p) == out[p].pos >= out[p].size
SeveralDatagrams(size) == Short(size) >= Capacity

\* Deviation: the size is not taken off the room in the first datagram.
ChunkFull(m) == Least(m.size - m.pos, Capacity)

Chunk(m) == IF m.pos = 0 THEN Least(m.size, Capacity - 1) ELSE Least(m.size - m.pos, Capacity)

Datagram(p) ==
    LET m == out[p] IN
    [from |-> p, words |-> (IF m.pos = 0 THEN <<Size(m.size)>> ELSE <<>>) \o Words(m.msg, m.pos + 1, m.pos + Chunk(m))]

SendChunk(p) ==
    /\ ~Sent(p)
    /\ out' = [out EXCEPT ![p].pos = @ + Chunk(out[p])]
    /\ \/ inbox' = [inbox EXCEPT ![out[p].to] = Append(@, Datagram(p))] /\ UNCHANGED <<losses, lost>>
       \/ /\ losses < MaxLoss /\ losses' = losses + 1
          /\ lost' = (lost \/ SeveralDatagrams(out[p].msg.size)) /\ UNCHANGED inbox
    /\ UNCHANGED in

SendChunkToNobody(p) ==
    /\ ~Sent(p)
    /\ out' = [out EXCEPT ![p].pos = @ + Chunk(out[p])]
    /\ lost' = (lost \/ SeveralDatagrams(out[p].msg.size))
    /\ UNCHANGED <<inbox, in, losses>>

(***************************************************************************)
(* recv: whatever comes, from whomever, is put behind what came before.    *)
(* The length of a datagram is not looked at.  A first word that is not    *)
(* positive leaves the receiver waiting for another.                       *)
(***************************************************************************)
Buffer(d, first, last) ==
    [i \in 1 .. (last - first + 1) |->
        IF first + i - 1 <= Len(d.words) THEN d.words[first + i - 1] ELSE Junk]

SizesRead(word) == IF word.kind = "size" THEN {word.n} ELSE 0 .. MaxShort

PutFirst(r, d, size) ==
    IF size <= Capacity
    THEN [r EXCEPT !.size = size, !.data = Buffer(d, 2, size + 1), !.port = d.from, !.done = (size > 0)]
    ELSE [r EXCEPT !.size = size, !.data = Buffer(d, 2, Capacity), !.port = d.from, !.pos = Capacity - 1]

PutNext(r, d) ==
    IF r.size - r.pos <= Capacity
    THEN [r EXCEPT !.data = @ \o Buffer(d, 1, r.size - r.pos), !.port = d.from, !.done = TRUE]
    ELSE [r EXCEPT !.data = @ \o Buffer(d, 1, Capacity), !.port = d.from, !.pos = @ + Capacity]

\* Deviation: the datagram stays at the port.
RecvChunkPeeks(p) ==
    /\ ~in[p].done /\ inbox[p] # <<>>
    /\ LET d == Head(inbox[p]) IN
         IF in[p].pos = 0
         THEN \E size \in SizesRead(d.words[1]) : in' = [in EXCEPT ![p] = PutFirst(@, d, size)]
         ELSE in' = [in EXCEPT ![p] = PutNext(@, d)]
    /\ UNCHANGED <<inbox, out, losses, lost>>

RecvChunk(p) ==
    /\ ~in[p].done /\ inbox[p] # <<>>
    /\ inbox' = [inbox EXCEPT ![p] = Tail(@)]
    /\ LET d == Head(inbox[p]) IN
         IF in[p].pos = 0
         THEN \E size \in SizesRead(d.words[1]) : in' = [in EXCEPT ![p] = PutFirst(@, d, size)]
         ELSE in' = [in EXCEPT ![p] = PutNext(@, d)]
    /\ UNCHANGED <<out, losses, lost>>

(***************************************************************************)
(* What a message that was received is.                                    *)
(***************************************************************************)
Received(p) == in[p].data[1].of
IsWhole(p)  == in[p].data = Words(Received(p), 1, Received(p).size)
=============================================================================

------------------------------ MODULE Callbacks ------------------------------
(***************************************************************************)
(* Callbacks: objects that call the listeners registered with them when an *)
(* event is fired.  One mutex of the object is held from the first call of *)
(* a listener to the last, and while a listener is added or taken away.    *)
(* A listener must not use on() and off() of the object that calls it: the *)
(* mutex is not recursive.                                                 *)
(***************************************************************************)
EXTENDS Naturals, Sequences, SequencesExt

CONSTANTS Object, Event, Listener

AnyEvent == "any"   \* the event name of onAnyEvent

ASSUME EventAssumption == AnyEvent \notin Event

VARIABLES slots,   \* the registrations of an object, in order
          firing   \* of an object: the event and the registrations still to be called

cbVars == <<slots, firing>>

Quiet == [event |-> AnyEvent, rest |-> <<>>]

CallbacksInit == slots = [o \in Object |-> <<>>] /\ firing = [o \in Object |-> Quiet]

\* shopMutex
ShopFree(o) == firing[o] = Quiet

On(o, slot) ==
    /\ ShopFree(o)
    /\ slots' = [slots EXCEPT ![o] = Append(@, slot)] /\ UNCHANGED firing

Off(o, slot) ==
    /\ ShopFree(o) /\ slot \in Range(slots[o])
    /\ slots' = [slots EXCEPT ![o] = RemoveFirst(@, slot)] /\ UNCHANGED firing

\* The listeners of all events come first, then those of the event, as registered.
Called(o, e) ==
    SelectSeq(slots[o], LAMBDA s : s.event = AnyEvent) \o SelectSeq(slots[o], LAMBDA s : s.event = e)

Fire(o, e) ==
    /\ ShopFree(o)
    /\ firing' = [firing EXCEPT ![o] = IF Called(o, e) = <<>> THEN Quiet ELSE [event |-> e, rest |-> Called(o, e)]]
    /\ UNCHANGED slots

\* Deviation: a listener that throws ends the call with the mutex held.
CallUncaught(o) ==
    /\ firing[o].rest # <<>>
    /\ \E throws \in BOOLEAN :
         firing' = [firing EXCEPT ![o] = IF throws THEN [@ EXCEPT !.rest = <<>>]
                                         ELSE IF Len(@.rest) = 1 THEN Quiet ELSE [@ EXCEPT !.rest = Tail(@)]]
    /\ UNCHANGED slots

\* One listener's call, which returns or throws: an exception is caught here.
CallNext(o) ==
    /\ firing[o].rest # <<>>
    /\ firing' = [firing EXCEPT ![o] = IF Len(@.rest) = 1 THEN Quiet ELSE [@ EXCEPT !.rest = Tail(@)]]
    /\ UNCHANGED slots
=============================================================================

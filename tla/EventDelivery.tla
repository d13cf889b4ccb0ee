---------------------------- MODULE EventDelivery ----------------------------
(***************************************************************************)
(* What the publishing pipeline promises about the events it accepts, said *)
(* without its queue, its chunks and its retries.  Events are taken in the *)
(* order of acceptance; a taken event is held until it meets one outcome,  *)
(* which is final; an event is never given back and never taken twice.     *)
(* The promise is at-most-once: an event may be abandoned.                 *)
(***************************************************************************)
EXTENDS Naturals

CONSTANT Outcomes

VARIABLES
    accepted,   \* events are 1..accepted
    taken,      \* of which 1..taken have left the queue
    held,       \* taken and without an outcome yet
    settled     \* outcome -> events that met it

vars == <<accepted, taken, held, settled>>

Init ==
    /\ accepted = 0
    /\ taken = 0
    /\ held = {}
    /\ settled = [o \in Outcomes |-> {}]

Accept ==
    /\ accepted' = accepted + 1
    /\ UNCHANGED <<taken, held, settled>>

Take ==
    /\ taken < accepted
    /\ taken' = taken + 1
    /\ UNCHANGED accepted

TakeAndHold ==
    /\ Take
    /\ held' = held \cup {taken + 1}
    /\ UNCHANGED settled

TakeAndSkip ==
    /\ Take
    /\ settled' = [settled EXCEPT !["skipped"] = @ \cup {taken + 1}]
    /\ UNCHANGED held

\* The event just taken spoils those held with it.
TakeAndAbandon ==
    /\ Take
    /\ settled' = [settled EXCEPT !["abandoned"] = @ \cup held \cup {taken + 1}]
    /\ held' = {}

\* An answer: some of the held events are acknowledged or rejected.
Answer ==
    \E ok, bad \in SUBSET held :
        /\ ok \cap bad = {}
        /\ settled' = [settled EXCEPT !["published"] = @ \cup ok,
                                      !["failed"] = @ \cup bad]
        /\ held' = held \ (ok \cup bad)
        /\ UNCHANGED <<accepted, taken>>

\* A request fails or the publisher is cancelled.
Abandon ==
    /\ settled' = [settled EXCEPT !["abandoned"] = @ \cup held]
    /\ held' = {}
    /\ UNCHANGED <<accepted, taken>>

Next == Accept \/ TakeAndHold \/ TakeAndSkip \/ TakeAndAbandon \/ Answer \/ Abandon

Spec == Init /\ [][Next]_vars
=============================================================================

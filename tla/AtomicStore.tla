---------------------------- MODULE AtomicStore ----------------------------
(***************************************************************************)
(* What the interface of supplies.hpp promises of the state summary: every *)
(* create, count of an alert, change of a supply and record of an          *)
(* emergency is one step on one document.  intact says that no write has   *)
(* overwritten the document with an older one since it was created; once   *)
(* one has, nothing is promised until the document is created again.       *)
(***************************************************************************)
EXTENDS Integers

CONSTANTS Entries, Keys, InitialSupply, NoEvent, Events

VARIABLES doc, intact

Initial == [alerts    |-> [e \in Entries |-> 0],
            supplies  |-> [k \in Keys |-> InitialSupply],
            emergency |-> NoEvent]

Create == doc' = Initial /\ intact' = TRUE

CountAlert(e) == /\ doc' = [doc EXCEPT !.alerts[e] = @ + 1]
                 /\ UNCHANGED intact

\* Some number not below zero, chosen by the caller.
SetSupply(k) == /\ doc'.supplies[k] >= 0
                /\ doc' = [doc EXCEPT !.supplies[k] = doc'.supplies[k]]
                /\ UNCHANGED intact

NoteEmergency(m) == /\ doc' = [doc EXCEPT !.emergency = m]
                    /\ UNCHANGED intact

Clobber == intact' = FALSE

Init == doc = Initial /\ intact = TRUE

Next == \/ Create
        \/ \E e \in Entries : CountAlert(e)
        \/ \E k \in Keys : SetSupply(k)
        \/ \E m \in Events : NoteEmergency(m)
        \/ Clobber

Spec == Init /\ [][Next]_<<doc, intact>>
=============================================================================

---------------------------- MODULE OperationsQueue ----------------------------
(***************************************************************************)
(* What rtc::OperationsChain promises (the class comment of                *)
(* rtc_base/operations_chain.h): operations, named by the order in which   *)
(* they are chained, are executed first in first out, the next one does    *)
(* not start until the previous one has completed, and an operation starts *)
(* at once when the chain is empty, or else when the previous one          *)
(* completes.                                                              *)
(***************************************************************************)
EXTENDS Naturals

VARIABLES chained, started, completed

vars == <<chained, started, completed>>

Init == chained = 0 /\ started = {} /\ completed = {}

Running == started \ completed

(* Starts immediately if the chain is empty.                               *)
Chain ==
    /\ chained' = chained + 1
    /\ started' = IF Running = {} THEN started \cup {chained + 1} ELSE started
    /\ UNCHANGED completed

(* The running operation completes and the one chained after it starts.    *)
Complete(op) ==
    /\ Running = {op}
    /\ completed' = completed \cup {op}
    /\ started' = IF op < chained THEN started \cup {op + 1} ELSE started
    /\ UNCHANGED chained

Next == Chain \/ \E op \in started : Complete(op)

Spec == Init /\ [][Next]_vars

=============================================================================

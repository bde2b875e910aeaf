---------------------------- MODULE OperationsChain ----------------------------
(***************************************************************************)
(* rtc::OperationsChain (rtc_base/operations_chain.{h,cc}): asynchronous   *)
(* operations executed in order, at most one at a time.                    *)
(*                                                                         *)
(* Everything happens on one sequence, but calls nest: a functor may       *)
(* complete its operation before it returns, chain others or drop the      *)
(* user's reference, and a completion runs the next functor inside the     *)
(* callback.  The call stack is therefore part of the state.  Only its     *)
(* innermost call acts: the application between calls, or in a functor.    *)
(***************************************************************************)
EXTENDS Naturals, Sequences

CONSTANT MaxOperations    \* bound: operations chained

ASSUME OperationsAssumption == MaxOperations \in Nat

VARIABLES
    chained,               \* number of calls of ChainOperation, the last id
    chained_operations,    \* the queue of operations
    started,               \* operations with has_run_
    completed,             \* callback handles with has_run_
    stack,                 \* calls that have not returned, innermost first
    references             \* holders of references on the chain

vars == <<chained, chained_operations, started, completed, stack, references>>

User == 0     \* the application's reference; handle op holds reference op

Init ==
    /\ chained = 0
    /\ chained_operations = << >>
    /\ started = {} /\ completed = {}
    /\ stack = << >>
    /\ references = {User}

-----------------------------------------------------------------------------

Functor(op) == [call |-> "functor", op |-> op]
Callback(op) == [call |-> "callback", op |-> op]

(* Code of the application runs: a task of the sequence, or a functor.     *)
Application == stack # << >> => Head(stack).call = "functor"

(* Operation::Run: enters the functor.                                     *)
Run(op, calls) ==
    /\ started' = started \cup {op}
    /\ stack' = <<Functor(op)>> \o calls

(* Variant: an operation starts unless a functor is being executed.        *)
ChainOperationIfIdle ==
    LET op == chained + 1 IN
    /\ Application /\ User \in references /\ chained < MaxOperations
    /\ chained' = op
    /\ chained_operations' = Append(chained_operations, op)
    /\ references' = references \cup {op}
    /\ IF stack = << >>
       THEN Run(Head(chained_operations'), stack)
       ELSE UNCHANGED <<started, stack>>
    /\ UNCHANGED completed

(* ChainOperation, called through the user's reference.                    *)
ChainOperation ==
    LET op == chained + 1 IN
    /\ Application /\ User \in references /\ chained < MaxOperations
    /\ chained' = op
    /\ chained_operations' = Append(chained_operations, op)
    /\ references' = references \cup {op}
    /\ IF Len(chained_operations') = 1
       THEN Run(Head(chained_operations'), stack)
       ELSE UNCHANGED <<started, stack>>
    /\ UNCHANGED completed

(* Variant: the handle gives its reference up before it calls the chain.   *)
OnOperationCompleteReleasesFirst(op) ==
    /\ Application /\ op \in started \ completed
    /\ completed' = completed \cup {op}
    /\ references' = references \ {op}
    /\ chained_operations' = Tail(chained_operations)
    /\ LET calls == <<Callback(op)>> \o stack IN
       IF chained_operations' # << >>
       THEN Run(Head(chained_operations'), calls)
       ELSE stack' = calls /\ UNCHANGED started
    /\ UNCHANGED chained

(* Variant: the next operation is left to the functor's return.            *)
OnOperationCompleteDefers(op) ==
    /\ Application /\ op \in started \ completed
    /\ completed' = completed \cup {op}
    /\ chained_operations' = Tail(chained_operations)
    /\ LET calls == <<Callback(op)>> \o stack IN
       IF chained_operations' # << >> /\ stack = << >>
       THEN Run(Head(chained_operations'), calls)
       ELSE stack' = calls /\ UNCHANGED started
    /\ UNCHANGED <<chained, references>>

(* The callback of a running operation is invoked, which the contract of   *)
(* operations requires exactly once: CallbackHandle::OnOperationComplete   *)
(* and OperationsChain::OnOperationComplete.                               *)
OnOperationComplete(op) ==
    /\ Application /\ op \in started \ completed
    /\ completed' = completed \cup {op}
    /\ chained_operations' = Tail(chained_operations)
    /\ LET calls == <<Callback(op)>> \o stack IN
       IF chained_operations' # << >>
       THEN Run(Head(chained_operations'), calls)
       ELSE stack' = calls /\ UNCHANGED started
    /\ UNCHANGED <<chained, references>>

(* The innermost call returns; a handle gives up its reference after       *)
(* OperationsChain::OnOperationComplete.                                   *)
Return ==
    /\ stack # << >>
    /\ stack' = Tail(stack)
    /\ references' = IF Head(stack).call = "callback"
                     THEN references \ {Head(stack).op} ELSE references
    /\ UNCHANGED <<chained, chained_operations, started, completed>>

(* The application drops the chain, from wherever it is.                   *)
Release ==
    /\ Application /\ User \in references
    /\ references' = references \ {User}
    /\ UNCHANGED <<chained, chained_operations, started, completed, stack>>

Next ==
    \/ ChainOperation \/ Return \/ Release
    \/ \E op \in started : OnOperationComplete(op)

Spec == Init /\ [][Next]_vars

(* Calls return, and operations keep the contract to complete.             *)
FairSpec ==
    /\ Spec
    /\ WF_vars(Return)
    /\ \A op \in 1..MaxOperations : WF_vars(OnOperationComplete(op))

-----------------------------------------------------------------------------
(* Properties.                                                             *)

(* The queue holds the operations that have not completed, in the order in *)
(* which they were chained, and the first one has been started, whatever   *)
(* calls are nested: so OnOperationComplete pops the operation that        *)
(* completed and no functor runs twice (the RTC_DCHECKs on has_run_).      *)
FrontIsTheRunningOne ==
    /\ \A i \in 1..Len(chained_operations) :
           chained_operations[i] = chained - Len(chained_operations) + i
    /\ completed = 1..(chained - Len(chained_operations))
    /\ started = completed \cup
           (IF chained_operations = << >> THEN {}
            ELSE {Head(chained_operations)})

(* The chain outlives its work: "Operations keep the chain alive through   *)
(* reference counting so this should not be possible" of a destructor that *)
(* finds operations.  Nor is it destroyed inside OnOperationComplete,      *)
(* which goes on to run the next operation, although the application may   *)
(* drop its reference in a functor that completes synchronously.           *)
AliveWhileUsed ==
    references = {} =>
        /\ chained_operations = << >>
        /\ \A i \in 1..Len(stack) : stack[i].call # "callback"

(* Every operation that is chained is executed and completes ("guarantees  *)
(* that all operations that are chained get executed").                    *)
AllExecuted == \A op \in 1..MaxOperations : chained >= op ~> op \in completed

(* The chain implements what its class comment promises.                   *)
Queue == INSTANCE OperationsQueue

KeepsPromise == Queue!Spec

=============================================================================

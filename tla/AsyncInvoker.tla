----------------------------- MODULE AsyncInvoker -----------------------------
(***************************************************************************)
(* rtc::AsyncInvoker (rtc_base/async_invoker.{h,cc}): functors posted to   *)
(* threads, and a destructor that cancels the ones that have not started   *)
(* and waits for the ones that have.                                       *)
(*                                                                         *)
(* An AsyncClosure is counted in pending_invocations_ from its constructor *)
(* to its destructor.  It is in a queue or in the hands of a thread: the   *)
(* one that runs its functor, and the one that is about to post it.  The   *)
(* message queues are those of module Thread, reduced to their messages    *)
(* for this invoker.                                                       *)
(***************************************************************************)
EXTENDS Naturals, FiniteSets

CONSTANTS
    Threads,
    Owner,          \* the thread that destroys the invoker
    MaxPending,     \* bound: closures alive at a time
    MaxNested       \* bound: calls of AsyncInvoke by one functor

ASSUME OwnerAssumption == Owner \in Threads
ASSUME PendingAssumption == MaxPending \in Nat /\ MaxNested \in Nat

VARIABLES
    pending_invocations, destroying,
    invocation_complete,    \* the auto-reset event, is it set?
    queue,      \* number of closures in each thread's message queue
    pc,         \* where each thread is
    target,     \* the thread that AsyncInvoke is called for
    running,    \* threads that are in a functor
    nested,     \* calls the thread's functor made
    uncleared,  \* queues that ThreadManager::Clear has still to clear
    quitting    \* threads that were told to quit

invokerVars == <<pending_invocations, destroying, invocation_complete, queue,
                 pc, target, running, nested, uncleared, quitting>>

InvokerInit ==
    /\ pending_invocations = 0 /\ destroying = FALSE
    /\ invocation_complete = FALSE
    /\ queue = [t \in Threads |-> 0]
    /\ pc = [t \in Threads |-> "idle"]
    /\ target = [t \in Threads |-> t]
    /\ running = {}
    /\ nested = [t \in Threads |-> 0]
    /\ uncleared = {} /\ quitting = {}

Goto(t, label) == pc' = [pc EXCEPT ![t] = label]

(* Where a thread is after a call: back in its functor or its loop.        *)
Back(t) == IF t \in running THEN "functor" ELSE "idle"

-----------------------------------------------------------------------------
(* AsyncInvoke.  A chain of invocations starts on the owner, before it     *)
(* destroys the invoker, or within a functor (the contract of              *)
(* async_invoker.h).                                                       *)

AsyncInvoke(t, u) ==
    /\ \/ t = Owner /\ pc[t] = "idle" /\ UNCHANGED nested
       \/ /\ pc[t] = "functor" /\ nested[t] < MaxNested
          /\ nested' = [nested EXCEPT ![t] = @ + 1]
    /\ pending_invocations < MaxPending
    /\ pending_invocations' = pending_invocations + 1
    /\ target' = [target EXCEPT ![t] = u]
    /\ Goto(t, "check")
    /\ UNCHANGED <<destroying, invocation_complete, queue, running, uncleared,
                   quitting>>

(* DoInvoke reads destroying_; a closure that is not posted is destroyed.  *)
DoInvoke(t) ==
    /\ pc[t] = "check"
    /\ Goto(t, IF destroying THEN "drop" ELSE "post")
    /\ UNCHANGED <<pending_invocations, destroying, invocation_complete, queue,
                   target, running, nested, uncleared, quitting>>

(* Thread::Post: a thread that quits takes no more messages, and the       *)
(* closure is destroyed.                                                   *)
Post(t) ==
    /\ pc[t] = "post"
    /\ Goto(t, IF target[t] \in quitting THEN "drop" ELSE "push")
    /\ UNCHANGED <<pending_invocations, destroying, invocation_complete, queue,
                   target, running, nested, uncleared, quitting>>

(* The message is pushed under the lock of the queue, which Quit does not  *)
(* take: the thread may have been told to quit after the test.             *)
Push(t) ==
    /\ pc[t] = "push"
    /\ queue' = [queue EXCEPT ![target[t]] = @ + 1]
    /\ target' = [target EXCEPT ![t] = t]
    /\ Goto(t, Back(t))
    /\ UNCHANGED <<pending_invocations, destroying, invocation_complete,
                   running, nested, uncleared, quitting>>

(* Thread::Quit, called for t by anyone.                                   *)
Quit(t) ==
    /\ t \notin quitting
    /\ quitting' = quitting \cup {t}
    /\ UNCHANGED <<pending_invocations, destroying, invocation_complete, queue,
                   pc, target, running, nested, uncleared>>

-----------------------------------------------------------------------------
(* OnMessage: a thread takes a closure from its queue, runs the functor    *)
(* and destroys the closure.  A thread that was told to quit may still     *)
(* take some, it need not (Thread::Get).                                   *)

OnMessage(t) ==
    /\ pc[t] = "idle" /\ queue[t] > 0
    /\ queue' = [queue EXCEPT ![t] = @ - 1]
    /\ running' = running \cup {t}
    /\ Goto(t, "functor")
    /\ UNCHANGED <<pending_invocations, destroying, invocation_complete,
                   target, nested, uncleared, quitting>>

FunctorReturns(t) ==
    /\ pc[t] = "functor"
    /\ running' = running \ {t}
    /\ nested' = [nested EXCEPT ![t] = 0]
    /\ Goto(t, "drop")
    /\ UNCHANGED <<pending_invocations, destroying, invocation_complete, queue,
                   target, uncleared, quitting>>

(* ~AsyncClosure decrements first and sets the event after that.           *)
DestroyClosure(t) ==
    /\ pc[t] = "drop"
    /\ pending_invocations' = pending_invocations - 1
    /\ target' = [target EXCEPT ![t] = t]
    /\ Goto(t, "set")
    /\ UNCHANGED <<destroying, invocation_complete, queue, running, nested,
                   uncleared, quitting>>

SetEvent(t) ==
    /\ pc[t] = "set"
    /\ invocation_complete' = TRUE
    /\ Goto(t, Back(t))
    /\ UNCHANGED <<pending_invocations, destroying, queue, target, running,
                   nested, uncleared, quitting>>

-----------------------------------------------------------------------------
(* ~AsyncInvoker on the owner.                                             *)

(* Variant: the messages are dropped without their closures.               *)
ClearQueueLeaks(t) ==
    /\ queue' = [queue EXCEPT ![t] = 0]
    /\ UNCHANGED <<pending_invocations, invocation_complete>>

(* Thread::Clear of one queue deletes the closures in it.                  *)
ClearQueue(t) ==
    /\ pending_invocations' = pending_invocations - queue[t]
    /\ queue' = [queue EXCEPT ![t] = 0]
    /\ invocation_complete' = (invocation_complete \/ queue[t] > 0)

BeginDestroy ==
    /\ pc[Owner] = "idle"
    /\ destroying' = TRUE
    /\ uncleared' = Threads
    /\ Goto(Owner, "clear")
    /\ UNCHANGED <<pending_invocations, invocation_complete, queue, target,
                   running, nested, quitting>>

(* ThreadManager::Clear goes through the threads.                          *)
ClearNext ==
    /\ pc[Owner] = "clear"
    /\ \E t \in uncleared :
           /\ ClearQueue(t)
           /\ uncleared' = uncleared \ {t}
           /\ Goto(Owner, IF uncleared = {t} THEN "test" ELSE "clear")
    /\ UNCHANGED <<destroying, target, running, nested, quitting>>

(* Variant: the destructor waits for functors that are running only.       *)
TestRunning ==
    /\ pc[Owner] = "test"
    /\ Goto(Owner, IF running # {} THEN "clear_own" ELSE "destroyed")
    /\ UNCHANGED <<pending_invocations, destroying, invocation_complete, queue,
                   target, running, nested, uncleared, quitting>>

TestPending ==
    /\ pc[Owner] = "test"
    /\ Goto(Owner, IF pending_invocations > 0 THEN "clear_own" ELSE "destroyed")
    /\ UNCHANGED <<pending_invocations, destroying, invocation_complete, queue,
                   target, running, nested, uncleared, quitting>>

(* Variant: the queue of the owner is not cleared again.                   *)
ClearOwnOmitted ==
    /\ pc[Owner] = "clear_own"
    /\ Goto(Owner, "wait")
    /\ UNCHANGED <<pending_invocations, destroying, invocation_complete, queue,
                   target, running, nested, uncleared, quitting>>

(* Thread::Current()->Clear(this).                                         *)
ClearOwn ==
    /\ pc[Owner] = "clear_own"
    /\ ClearQueue(Owner)
    /\ Goto(Owner, "wait")
    /\ UNCHANGED <<destroying, target, running, nested, uncleared, quitting>>

Wait ==
    /\ pc[Owner] = "wait" /\ invocation_complete
    /\ invocation_complete' = FALSE
    /\ Goto(Owner, "test")
    /\ UNCHANGED <<pending_invocations, destroying, queue, target, running,
                   nested, uncleared, quitting>>

Destructor == ClearNext \/ TestPending \/ ClearOwn \/ Wait

-----------------------------------------------------------------------------

Step(t) ==
    \/ DoInvoke(t) \/ Post(t) \/ Push(t)
    \/ FunctorReturns(t) \/ DestroyClosure(t) \/ SetEvent(t)

InvokerNext ==
    \/ \E t \in Threads :
           \/ Step(t) \/ OnMessage(t) \/ Quit(t)
           \/ \E u \in Threads : AsyncInvoke(t, u)
    \/ BeginDestroy \/ Destructor

InvokerSpec == InvokerInit /\ [][InvokerNext]_invokerVars

(* Threads are scheduled, functors return, and a thread that was not       *)
(* told to quit serves its queue; functors may invoke each other for ever, *)
(* and nobody has to destroy the invoker.                                  *)
FairInvokerSpec ==
    /\ InvokerSpec
    /\ WF_invokerVars(Destructor)
    /\ \A t \in Threads :
           /\ WF_invokerVars(Step(t))
           /\ WF_invokerVars(FunctorReturns(t))
           /\ WF_invokerVars(t \notin quitting /\ OnMessage(t))

-----------------------------------------------------------------------------
(* Properties.                                                             *)

(* The closures that exist: the messages of a queue, the one whose functor *)
(* a thread runs, and the one a thread is posting or destroying.           *)
Closures ==
    (UNION {{<<t, "queue", i>> : i \in 1 .. queue[t]} : t \in Threads})
    \cup {<<t, "functor", 0>> : t \in running}
    \cup {<<t, "call", 0>> :
              t \in {u \in Threads :
                        pc[u] \in {"check", "post", "push", "drop"}}}

(* pending_invocations_ counts the closures that exist, whatever thread    *)
(* creates, posts, runs, clears or destroys them at the same time: one     *)
(* counted twice would block the destructor for good, one not counted      *)
(* would run after it.                                                     *)
PendingIsExact == pending_invocations = Cardinality(Closures)

(* When the destructor is done no closure is queued and no thread is in a  *)
(* functor or a call that still uses the invoker: "any calls executing     *)
(* will be allowed to complete before AsyncInvoker destructs".  A thread   *)
(* may still have to set the event, which the closure keeps alive.         *)
NoUseAfterDestruction ==
    pc[Owner] = "destroyed" =>
        \A t \in Threads : queue[t] = 0 /\ pc[t] \in {"idle", "set", "destroyed"}

(* The destructor ends, although functors invoke others without end and    *)
(* may post one after the queues were cleared.  The closures that can keep *)
(* it waiting for good are those in the queue of another thread that quit: *)
(* they are destroyed when that thread is (~Thread).                       *)
DestructorEnds ==
    destroying ~> \/ pc[Owner] = "destroyed"
                  \/ [](\E t \in quitting \ {Owner} : queue[t] > 0)

=============================================================================

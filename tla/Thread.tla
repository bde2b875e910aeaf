-------------------------------- MODULE Thread --------------------------------
(***************************************************************************)
(* rtc::Thread (rtc_base/thread.cc): message queues served by threads that *)
(* sleep in a socket server (rtc_base/null_socket_server.cc, an auto-reset *)
(* event), Post and PostDelayed, the blocking Send, Quit, and the debug    *)
(* check of ThreadManager against threads that Send to each other.         *)
(*                                                                         *)
(* A thread is in the message loop (Get), in a handler ("run"), or in the  *)
(* middle of a call the handler made: pc says where, op on which thread    *)
(* and for what.  Each step is one critical section, one atomic access or  *)
(* one access to an event.  What handlers do is not known: they make any   *)
(* calls.  Messages that dispose of objects are handlers like the others,  *)
(* and the one-message lookahead of Peek is left out.                      *)
(***************************************************************************)
EXTENDS Naturals, Sequences

CONSTANTS
    Threads,
    Busy,       \* threads that are in a handler at the start
    MaxCalls,   \* bound: calls of Post, PostDelayed and Send
    MaxQuits    \* bound: calls of Quit

ASSUME ThreadsAssumption == Busy \subseteq Threads
ASSUME CallsAssumption == MaxCalls \in Nat /\ MaxQuits \in Nat

VARIABLES
    pc,         \* where each thread is
    op,         \* the call it is in: [to, kind]
    cur,        \* the message its handler runs for
    messages,   \* messages_; a message is the thread that waits for it in
                \* Send, or None
    delayed,    \* delayed_messages_: number of those not due yet ...
    due,        \* ... and of those that are
    timed,      \* is the thread's Wait limited by a delayed message?
    event,      \* NullSocketServer::event_
    stop,       \* threads with stop_ set
    ready,      \* Send's local variable ready
    waited,     \* Send's local variable waited
    send_graph, \* ThreadManager::send_graph_, as pairs
    calls, quits

vars == <<pc, op, cur, messages, delayed, due, timed, event, stop, ready,
          waited, send_graph, calls, quits>>

None == "none"
NoCall == [to |-> None, kind |-> None]

Init ==
    /\ pc = [t \in Threads |-> IF t \in Busy THEN "run" ELSE "wait"]
    /\ op = [t \in Threads |-> NoCall]
    /\ cur = [t \in Threads |-> None]
    /\ messages = [t \in Threads |-> <<>>]
    /\ delayed = [t \in Threads |-> 0]
    /\ due = [t \in Threads |-> 0]
    /\ timed = [t \in Threads |-> FALSE]
    /\ event = [t \in Threads |-> FALSE]
    /\ stop = {}
    /\ ready = [t \in Threads |-> FALSE]
    /\ waited = [t \in Threads |-> FALSE]
    /\ send_graph = {}
    /\ calls = 0 /\ quits = 0

Goto(t, label) == pc' = [pc EXCEPT ![t] = label]

(* Thread t goes on with its handler, after the call it made.              *)
Return(t) == Goto(t, "run") /\ op' = [op EXCEPT ![t] = NoCall]

-----------------------------------------------------------------------------
(* Get, called by ProcessMessages(kForever).                               *)

(* Under crit_: due messages join the queue and its head is taken; with an *)
(* empty queue the wait is limited by the next delayed message.            *)
Get(t) ==
    /\ pc[t] = "get"
    /\ LET all == messages[t] \o [i \in 1 .. due[t] |-> None] IN
          IF all = <<>>
          THEN /\ Goto(t, "empty")
               /\ timed' = [timed EXCEPT ![t] = delayed[t] > 0]
               /\ UNCHANGED <<cur, messages>>
          ELSE /\ Goto(t, "run")
               /\ cur' = [cur EXCEPT ![t] = Head(all)]
               /\ messages' = [messages EXCEPT ![t] = Tail(all)]
               /\ UNCHANGED timed
    /\ due' = [due EXCEPT ![t] = 0]
    /\ UNCHANGED <<op, delayed, event, stop, ready, waited, send_graph, calls,
                   quits>>

(* IsQuitting is read after the lock is released.                          *)
CheckQuitting(t) ==
    /\ pc[t] = "empty"
    /\ Goto(t, IF t \in stop THEN "exited" ELSE "wait")
    /\ UNCHANGED <<op, cur, messages, delayed, due, timed, event, stop, ready,
                   waited, send_graph, calls, quits>>

(* SocketServer::Wait returns after a WakeUp or when a message is due.     *)
WaitEnds(t) ==
    /\ pc[t] = "wait"
    /\ \/ event[t] /\ event' = [event EXCEPT ![t] = FALSE]
       \/ timed[t] /\ due[t] > 0 /\ UNCHANGED event
    /\ Goto(t, "get")
    /\ timed' = [timed EXCEPT ![t] = FALSE]
    /\ UNCHANGED <<op, cur, messages, delayed, due, stop, ready, waited,
                   send_graph, calls, quits>>

(* The time of a delayed message comes.                                    *)
Expire(t) ==
    /\ delayed[t] > 0
    /\ delayed' = [delayed EXCEPT ![t] = @ - 1]
    /\ due' = [due EXCEPT ![t] = @ + 1]
    /\ UNCHANGED <<pc, op, cur, messages, timed, event, stop, ready, waited,
                   send_graph, calls, quits>>

-----------------------------------------------------------------------------
(* Calls of a handler.                                                     *)

(* Variant: only threads that send to the target themselves are looked at. *)
SendLoopDirect(source, target) == <<target, source>> \in send_graph

(* RegisterSendAndCheckForCycles: is there a path from target to source?   *)
(* The code collects all_targets until it has every target of every thread *)
(* in it; source is found if it is in all sets that are closed like this.  *)
SendLoop(source, target) ==
    \A S \in SUBSET Threads :
        /\ target \in S
        /\ \A edge \in send_graph : edge[1] \in S => edge[2] \in S
        => source \in S

(* Post and PostDelayed: a message for a thread that is quitting is        *)
(* deleted.                                                                *)
BeginPost(t, u, kind) ==
    /\ pc[t] = "run" /\ calls < MaxCalls
    /\ calls' = calls + 1
    /\ IF u \in stop THEN UNCHANGED <<pc, op>>
       ELSE /\ op' = [op EXCEPT ![t] = [to |-> u, kind |-> kind]]
            /\ Goto(t, "push")
    /\ UNCHANGED <<cur, messages, delayed, due, timed, event, stop, ready,
                   waited, send_graph, quits>>

(* Send to another thread.  A thread that is quitting is not sent to, and  *)
(* a send loop fails an RTC_CHECK.                                         *)
BeginSend(t, u) ==
    /\ pc[t] = "run" /\ calls < MaxCalls /\ u # t
    /\ u \notin stop /\ ~SendLoop(t, u)
    /\ calls' = calls + 1
    /\ send_graph' = send_graph \cup {<<t, u>>}
    /\ op' = [op EXCEPT ![t] = [to |-> u, kind |-> "send"]]
    /\ Goto(t, "post")
    /\ UNCHANGED <<cur, messages, delayed, due, timed, event, stop, ready,
                   waited, quits>>

Quit(t, u) ==
    /\ pc[t] = "run" /\ quits < MaxQuits
    /\ quits' = quits + 1
    /\ stop' = stop \cup {u}
    /\ op' = [op EXCEPT ![t] = [to |-> u, kind |-> "quit"]]
    /\ Goto(t, "wake")
    /\ UNCHANGED <<cur, messages, delayed, due, timed, event, ready, waited,
                   send_graph, calls>>

(* The Post of a Send checks again.  Deleting its task makes it ready.     *)
SendPosts(t) ==
    /\ pc[t] = "post"
    /\ IF op[t].to \in stop
       THEN /\ Goto(t, "send")
            /\ ready' = [ready EXCEPT ![t] = TRUE]
            /\ event' = [event EXCEPT ![t] = TRUE]
       ELSE Goto(t, "push") /\ UNCHANGED <<ready, event>>
    /\ UNCHANGED <<op, cur, messages, delayed, due, timed, stop, waited,
                   send_graph, calls, quits>>

(* Under crit_ of the target.                                              *)
Push(t) ==
    /\ pc[t] = "push"
    /\ LET u == op[t].to
           from == IF op[t].kind = "send" THEN t ELSE None
       IN IF op[t].kind = "delayed"
          THEN /\ delayed' = [delayed EXCEPT ![u] = @ + 1]
               /\ UNCHANGED messages
          ELSE /\ messages' = [messages EXCEPT ![u] = Append(@, from)]
               /\ UNCHANGED delayed
    /\ Goto(t, "wake")
    /\ UNCHANGED <<op, cur, due, timed, event, stop, ready, waited, send_graph,
                   calls, quits>>

(* Variant: a thread that has other messages is not woken.                 *)
WakeUpIfIdle(t) ==
    /\ pc[t] = "wake"
    /\ event' = [event EXCEPT ![op[t].to] =
           @ \/ Len(messages[op[t].to]) + delayed[op[t].to] < 2]
    /\ IF op[t].kind = "send" THEN Goto(t, "send") /\ UNCHANGED op
       ELSE Return(t)
    /\ UNCHANGED <<cur, messages, delayed, due, timed, stop, ready, waited,
                   send_graph, calls, quits>>

(* WakeUpSocketServer, the last step of Post, DoDelayPost and Quit.        *)
WakeUp(t) ==
    /\ pc[t] = "wake"
    /\ event' = [event EXCEPT ![op[t].to] = TRUE]
    /\ IF op[t].kind = "send" THEN Goto(t, "send") /\ UNCHANGED op
       ELSE Return(t)
    /\ UNCHANGED <<cur, messages, delayed, due, timed, stop, ready, waited,
                   send_graph, calls, quits>>

-----------------------------------------------------------------------------
(* The wait loop of Send: ready is read under crit_ of the target.  After  *)
(* a wait another WakeUp is issued, for wake-ups of other calls may have   *)
(* been consumed.                                                          *)
SendTest(t) ==
    /\ pc[t] = "send"
    /\ IF ~ready[t]
       THEN Goto(t, "send_wait") /\ UNCHANGED <<op, event, ready, waited>>
       ELSE /\ Return(t)
            /\ ready' = [ready EXCEPT ![t] = FALSE]
            /\ waited' = [waited EXCEPT ![t] = FALSE]
            /\ event' = [event EXCEPT ![t] = @ \/ waited[t]]
    /\ UNCHANGED <<cur, messages, delayed, due, timed, stop, send_graph, calls,
                   quits>>

SendWait(t) ==
    /\ pc[t] = "send_wait" /\ event[t]
    /\ event' = [event EXCEPT ![t] = FALSE]
    /\ waited' = [waited EXCEPT ![t] = TRUE]
    /\ Goto(t, "send")
    /\ UNCHANGED <<op, cur, messages, delayed, due, timed, stop, ready,
                   send_graph, calls, quits>>

(* Variant: the sender is not woken.                                       *)
HandlerReturnsSilently(t) ==
    /\ pc[t] = "run"
    /\ Goto(t, "get")
    /\ cur' = [cur EXCEPT ![t] = None]
    /\ ready' = [u \in Threads |-> ready[u] \/ u = cur[t]]
    /\ UNCHANGED <<op, messages, delayed, due, timed, event, stop, waited,
                   send_graph, calls, quits>>

(* The handler returns to ProcessMessages.  The task of a Send is deleted, *)
(* which sets ready and wakes the sender, under crit_.                     *)
HandlerReturns(t) ==
    /\ pc[t] = "run"
    /\ Goto(t, "get")
    /\ cur' = [cur EXCEPT ![t] = None]
    /\ ready' = [u \in Threads |-> ready[u] \/ u = cur[t]]
    /\ event' = [u \in Threads |-> event[u] \/ u = cur[t]]
    /\ UNCHANGED <<op, messages, delayed, due, timed, stop, waited, send_graph,
                   calls, quits>>

-----------------------------------------------------------------------------

Step(t) ==
    \/ Get(t) \/ CheckQuitting(t) \/ WaitEnds(t)
    \/ Push(t) \/ WakeUp(t)
    \/ SendPosts(t) \/ SendTest(t) \/ SendWait(t)
    \/ HandlerReturns(t)

Call(t) ==
    \E u \in Threads :
        \/ \E kind \in {"post", "delayed"} : BeginPost(t, u, kind)
        \/ BeginSend(t, u)
        \/ Quit(t, u)

Next == \E t \in Threads : Step(t) \/ Call(t) \/ Expire(t)

Spec == Init /\ [][Next]_vars

(* Threads are scheduled, handlers return and time passes.                 *)
FairSpec ==
    Spec /\ \A t \in Threads : WF_vars(Step(t)) /\ WF_vars(Expire(t))

-----------------------------------------------------------------------------
(* Properties.                                                             *)

Waking(t) == \E u \in Threads : pc[u] = "wake" /\ op[u].to = t

(* No wake-up is lost: a thread that sleeps in Get with a message in its   *)
(* queue, a delayed message its Wait does not account for, or a call to    *)
(* quit, is woken by an event that is set or is about to be set, although  *)
(* the queue, the quit flag and the event are not read in one step, and    *)
(* Send consumes events that were meant for the message loop; and a sender *)
(* that sleeps although the target has answered has its event set.         *)
NoLostWakeUp ==
    \A t \in Threads :
        /\ pc[t] = "wait" /\ (\/ messages[t] # <<>> \/ t \in stop
                              \/ delayed[t] + due[t] > 0 /\ ~timed[t])
               => event[t] \/ Waking(t)
        /\ pc[t] = "send_wait" /\ ready[t] => event[t]

(* Threads never wait for each other in a circle: what                     *)
(* RegisterSendAndCheckForCycles checks for pairs of threads that ever     *)
(* sent to each other excludes every deadlock of blocked senders.          *)
Blocked(t) == pc[t] \in {"send", "send_wait"} /\ ~ready[t]

NoSendDeadlock ==
    \A S \in SUBSET Threads : S # {} =>
        ~(\A t \in S : Blocked(t) /\ op[t].to \in S)

(* As long as no thread quits, everything queued is handled and every Send *)
(* returns: again and again all queues are empty and nobody is blocked.    *)
EverythingIsHandled ==
    []<>(\/ stop # {}
         \/ \A t \in Threads :
                messages[t] = <<>> /\ delayed[t] + due[t] = 0 /\ ~Blocked(t))

=============================================================================

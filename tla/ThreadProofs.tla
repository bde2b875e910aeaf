----------------------------- MODULE ThreadProofs -----------------------------
(***************************************************************************)
(* Threads, for any set of them and any number of calls.  A wake-up cannot *)
(* get lost because a thread that found its queue empty is woken by every  *)
(* later post, before it sleeps as well as while it does.  Senders cannot  *)
(* wait in a circle because the edge of each of them is in send_graph_,    *)
(* and an edge is only added when it closes no circle.                     *)
(***************************************************************************)
EXTENDS Thread, SequenceTheorems, TLAPS

Labels == {"run", "get", "empty", "wait", "exited", "post", "push", "wake",
           "send", "send_wait"}

(* Who waits for a message in Send, if anybody.                            *)
Waiter == Threads \cup {None}

Op == [to : Waiter,
       kind : {"post", "delayed", "send", "quit", None}]

TypeInv ==
    /\ pc \in [Threads -> Labels]
    /\ op \in [Threads -> Op]
    /\ messages \in [Threads -> Seq(Waiter)]
    /\ delayed \in [Threads -> Nat] /\ due \in [Threads -> Nat]
    /\ cur \in [Threads -> Waiter]
    /\ timed \in [Threads -> BOOLEAN] /\ event \in [Threads -> BOOLEAN]
    /\ ready \in [Threads -> BOOLEAN] /\ waited \in [Threads -> BOOLEAN]
    /\ send_graph \subseteq Threads \X Threads
    /\ \A t \in Threads :
           pc[t] \in {"post", "push", "wake", "send", "send_wait"} =>
               op[t].to \in Threads

LEMMA CallIsOp ==
    ASSUME NEW u \in Threads, NEW kind \in {"post", "delayed", "send", "quit"}
    PROVE  /\ [to |-> u, kind |-> kind] \in Op
           /\ [to |-> u, kind |-> kind].to = u
           /\ [to |-> u, kind |-> kind].kind = kind
BY DEF Op, Waiter

LEMMA NoCallIsOp == NoCall \in Op
BY DEF Op, NoCall, None, Waiter

LEMMA TypeStep == TypeInv /\ [Next]_vars => TypeInv'
<1> SUFFICES ASSUME TypeInv, [Next]_vars
             PROVE  TypeInv'
  OBVIOUS
<1>1. CASE UNCHANGED vars
  BY <1>1 DEF vars, TypeInv
<1>2. ASSUME NEW t \in Threads, Get(t)
      PROVE  TypeInv'
  <2> DEFINE all == messages[t] \o [i \in 1 .. due[t] |-> None]
  <2>1. due[t] \in Nat /\ messages[t] \in Seq(Waiter) /\ None \in Waiter
    BY DEF TypeInv, Waiter
  <2>2. all \in Seq(Waiter)
    <3>1. [i \in 1 .. due[t] |-> None] \in Seq(Waiter)
      BY <2>1, IsASeq
    <3> QED BY <2>1, <3>1, ConcatProperties
  <2>3. CASE all = <<>>
    <3>1. timed' = [timed EXCEPT ![t] = delayed[t] > 0]
      BY <1>2, <2>3 DEF Get
    <3>2. (delayed[t] > 0) \in BOOLEAN
      BY DEF TypeInv
    <3>3. timed' \in [Threads -> BOOLEAN]
      BY <3>1, <3>2, Zenon DEF TypeInv
    <3>4. pc' = [pc EXCEPT ![t] = "empty"] /\ due' = [due EXCEPT ![t] = 0]
      BY <1>2, <2>3 DEF Get, Goto
    <3>5. UNCHANGED <<op, cur, messages, delayed, event, ready, waited,
                      send_graph>>
      BY <1>2, <2>3 DEF Get
    <3> QED BY <3>3, <3>4, <3>5 DEF TypeInv, Labels
  <2>4. CASE all # <<>>
    <3>1. Head(all) \in Waiter /\ Tail(all) \in Seq(Waiter)
      BY <2>2, <2>4, HeadTailProperties
    <3>2. /\ cur' = [cur EXCEPT ![t] = Head(all)]
          /\ messages' = [messages EXCEPT ![t] = Tail(all)]
          /\ UNCHANGED timed
      BY <1>2, <2>4 DEF Get
    <3> QED BY <1>2, <2>4, <3>1, <3>2 DEF Get, Goto, TypeInv, Labels
  <2> QED BY <2>3, <2>4
<1>3. ASSUME NEW t \in Threads, CheckQuitting(t)
      PROVE  TypeInv'
  BY <1>3 DEF CheckQuitting, Goto, TypeInv, Labels
<1>4. ASSUME NEW t \in Threads, WaitEnds(t)
      PROVE  TypeInv'
  BY <1>4 DEF WaitEnds, Goto, TypeInv, Labels
<1>5. ASSUME NEW t \in Threads, Expire(t)
      PROVE  TypeInv'
  BY <1>5 DEF Expire, TypeInv
<1>6. ASSUME NEW t \in Threads, NEW u \in Threads,
             NEW kind \in {"post", "delayed"}, BeginPost(t, u, kind)
      PROVE  TypeInv'
  <2>1. CASE u \in stop
    BY <1>6, <2>1 DEF BeginPost, TypeInv
  <2>2. CASE u \notin stop
    <3> DEFINE call == [to |-> u, kind |-> kind]
    <3>1. op' = [op EXCEPT ![t] = call] /\ pc' = [pc EXCEPT ![t] = "push"]
      BY <1>6, <2>2 DEF BeginPost, Goto
    <3>2. call \in Op /\ call.to = u
      BY CallIsOp
    <3> HIDE DEF call
    <3> QED BY <1>6, <3>1, <3>2 DEF BeginPost, TypeInv, Labels
  <2> QED BY <2>1, <2>2
<1>7. ASSUME NEW t \in Threads, NEW u \in Threads, BeginSend(t, u)
      PROVE  TypeInv'
  <2> DEFINE call == [to |-> u, kind |-> "send"]
  <2>1. op' = [op EXCEPT ![t] = call] /\ pc' = [pc EXCEPT ![t] = "post"]
    BY <1>7 DEF BeginSend, Goto
  <2>2. call \in Op /\ call.to = u
    BY CallIsOp
  <2> HIDE DEF call
  <2> QED BY <1>7, <2>1, <2>2 DEF BeginSend, TypeInv, Labels
<1>8. ASSUME NEW t \in Threads, NEW u \in Threads, Quit(t, u)
      PROVE  TypeInv'
  <2> DEFINE call == [to |-> u, kind |-> "quit"]
  <2>1. op' = [op EXCEPT ![t] = call] /\ pc' = [pc EXCEPT ![t] = "wake"]
    BY <1>8 DEF Quit, Goto
  <2>2. call \in Op /\ call.to = u
    BY CallIsOp
  <2> HIDE DEF call
  <2> QED BY <1>8, <2>1, <2>2 DEF Quit, TypeInv, Labels
<1>9. ASSUME NEW t \in Threads, SendPosts(t)
      PROVE  TypeInv'
  BY <1>9 DEF SendPosts, Goto, TypeInv, Labels
<1>10. ASSUME NEW t \in Threads, Push(t)
       PROVE  TypeInv'
  <2>1. CASE op[t].kind = "delayed"
    <3>1. delayed' = [delayed EXCEPT ![op[t].to] = delayed[op[t].to] + 1]
          /\ UNCHANGED messages
      BY <1>10, <2>1 DEF Push
    <3> QED BY <1>10, <3>1 DEF Push, Goto, TypeInv, Labels
  <2>2. CASE op[t].kind # "delayed"
    <3> DEFINE from == IF op[t].kind = "send" THEN t ELSE None
    <3>1. from \in Waiter /\ op[t].to \in Threads
      BY <1>10 DEF Waiter, Push, TypeInv
    <3>2. messages[op[t].to] \in Seq(Waiter)
      BY <3>1 DEF TypeInv
    <3>3. Append(messages[op[t].to], from) \in Seq(Waiter)
      BY <3>1, <3>2, AppendProperties
    <3>4. messages' = [messages EXCEPT ![op[t].to] =
                           Append(messages[op[t].to], from)]
          /\ UNCHANGED delayed
      BY <1>10, <2>2 DEF Push
    <3> QED BY <1>10, <3>1, <3>3, <3>4 DEF Push, Goto, TypeInv, Labels
  <2> QED BY <2>1, <2>2
<1>11. ASSUME NEW t \in Threads, WakeUp(t)
       PROVE  TypeInv'
  BY <1>11, NoCallIsOp DEF WakeUp, Return, Goto, TypeInv, Labels
<1>12. ASSUME NEW t \in Threads, SendTest(t)
       PROVE  TypeInv'
  <2>1. CASE ~ready[t]
    BY <1>12, <2>1 DEF SendTest, Goto, TypeInv, Labels
  <2>2. CASE ready[t]
    <3>1. event' = [event EXCEPT ![t] = event[t] \/ waited[t]]
      BY <1>12, <2>2 DEF SendTest
    <3>2. event' \in [Threads -> BOOLEAN]
      BY <3>1, Zenon DEF TypeInv
    <3>3. /\ pc' = [pc EXCEPT ![t] = "run"] /\ op' = [op EXCEPT ![t] = NoCall]
          /\ ready' = [ready EXCEPT ![t] = FALSE]
          /\ waited' = [waited EXCEPT ![t] = FALSE]
          /\ UNCHANGED <<cur, messages, delayed, due, timed, send_graph>>
      BY <1>12, <2>2 DEF SendTest, Return, Goto
    <3> QED BY <3>2, <3>3, NoCallIsOp DEF TypeInv, Labels
  <2> QED BY <2>1, <2>2
<1>13. ASSUME NEW t \in Threads, SendWait(t)
       PROVE  TypeInv'
  BY <1>13 DEF SendWait, Goto, TypeInv, Labels
<1>14. ASSUME NEW t \in Threads, HandlerReturns(t)
       PROVE  TypeInv'
  <2>1. /\ ready' = [u \in Threads |-> ready[u] \/ u = cur[t]]
        /\ event' = [u \in Threads |-> event[u] \/ u = cur[t]]
    BY <1>14 DEF HandlerReturns
  <2>2. ready' \in [Threads -> BOOLEAN] /\ event' \in [Threads -> BOOLEAN]
    BY <2>1, Zenon DEF TypeInv
  <2> HIDE <2>1
  <2>3. cur' = [cur EXCEPT ![t] = None] /\ None \in Waiter
    BY <1>14 DEF HandlerReturns, Waiter
  <2>4. pc' = [pc EXCEPT ![t] = "get"]
    BY <1>14 DEF HandlerReturns, Goto
  <2>5. UNCHANGED <<op, messages, delayed, due, timed, waited, send_graph>>
    BY <1>14 DEF HandlerReturns
  <2> QED BY <2>2, <2>3, <2>4, <2>5 DEF TypeInv, Labels
<1> QED
  BY <1>1, <1>2, <1>3, <1>4, <1>5, <1>6, <1>7, <1>8, <1>9, <1>10, <1>11,
     <1>12, <1>13, <1>14 DEF Next, Step, Call

LEMMA TypeInvHolds == Spec => []TypeInv
<1>1. Init => TypeInv
  BY ThreadsAssumption, NoCallIsOp DEF Init, TypeInv, Labels, Waiter
<1> QED BY <1>1, TypeStep, PTL DEF Spec

-----------------------------------------------------------------------------
(* Wake-ups.  To NoLostWakeUp the invariant adds the thread that found its *)
(* queue empty and has not looked at the quit flag yet.                    *)

(* The thread has work that its Wait does not account for.                 *)
HasWork(t) == messages[t] # <<>> \/ (delayed[t] + due[t] > 0 /\ ~timed[t])

Woken(t) == event[t] \/ Waking(t)

WakeInv ==
    \A t \in Threads :
        /\ pc[t] \in {"empty", "wait"} /\ HasWork(t) => Woken(t)
        /\ pc[t] = "wait" /\ t \in stop => Woken(t)
        /\ pc[t] = "send_wait" /\ ready[t] => event[t]

(* Nothing else than its own WakeUp takes a thread from "wake".            *)
LEMMA StillWoken ==
    ASSUME TypeInv, NEW w \in Threads, NEW t \in Threads, pc[t] # "wake",
           \A u \in Threads \ {t} : pc'[u] = pc[u] /\ op'[u] = op[u],
           event[w] => event'[w], Woken(w)
    PROVE  Woken(w)'
BY DEF Woken, Waking

(* Steps of t that leave alone what the invariant says of other threads.   *)
LEMMA OwnStep ==
    ASSUME TypeInv, TypeInv', WakeInv, NEW t \in Threads, pc[t] # "wake",
           \A u \in Threads \ {t} :
               /\ pc'[u] = pc[u] /\ op'[u] = op[u]
               /\ messages'[u] = messages[u] /\ timed'[u] = timed[u]
               /\ delayed'[u] = delayed[u] /\ due'[u] = due[u]
               /\ event[u] => event'[u]
               /\ pc[u] = "send_wait" /\ ready'[u] => ready[u] \/ event'[u],
           stop' = stop,
           pc'[t] \notin {"empty", "wait", "send_wait"}
    PROVE  WakeInv'
<1> SUFFICES ASSUME NEW w \in Threads
             PROVE  /\ pc'[w] \in {"empty", "wait"} /\ HasWork(w)' => Woken(w)'
                    /\ pc'[w] = "wait" /\ w \in stop' => Woken(w)'
                    /\ pc'[w] = "send_wait" /\ ready'[w] => event'[w]
  BY DEF WakeInv
<1>1. CASE w = t
  BY <1>1
<1>2. CASE w # t
  <2>1. Woken(w) => Woken(w)'
    BY <1>2, StillWoken
  <2>2. HasWork(w)' => HasWork(w)
    BY <1>2 DEF HasWork
  <2> QED BY <1>2, <2>1, <2>2 DEF WakeInv
<1> QED BY <1>1, <1>2

LEMMA WakeStep == TypeInv /\ TypeInv' /\ WakeInv /\ [Next]_vars => WakeInv'
<1> SUFFICES ASSUME TypeInv, TypeInv', WakeInv, [Next]_vars
             PROVE  WakeInv'
  OBVIOUS
<1>1. CASE UNCHANGED vars
  BY <1>1 DEF vars, WakeInv, HasWork, Woken, Waking
<1>2. ASSUME NEW t \in Threads, Get(t)
      PROVE  WakeInv'
  <2> DEFINE all == messages[t] \o [i \in 1 .. due[t] |-> None]
  <2>1. /\ \A u \in Threads \ {t} :
               /\ pc'[u] = pc[u] /\ messages'[u] = messages[u]
               /\ timed'[u] = timed[u] /\ due'[u] = due[u]
        /\ UNCHANGED <<op, delayed, event, stop, ready>> /\ pc[t] = "get"
    BY <1>2 DEF Get, Goto, TypeInv
  <2>2. CASE all # <<>>
    <3>1. pc'[t] = "run"
      BY <1>2, <2>2 DEF Get, Goto, TypeInv
    <3> QED BY <2>1, <3>1, OwnStep
  <2>3. CASE all = <<>>
    <3>1. /\ pc'[t] = "empty" /\ messages'[t] = messages[t]
          /\ due'[t] = 0 /\ timed'[t] = (delayed[t] > 0)
      BY <1>2, <2>3 DEF Get, Goto, TypeInv
    <3>2. messages[t] = <<>>
      <4>1. due[t] \in Nat /\ messages[t] \in Seq(Waiter) /\ None \in Waiter
        BY DEF TypeInv, Waiter
      <4>2. [i \in 1 .. due[t] |-> None] \in Seq(Waiter)
        BY <4>1, IsASeq
      <4> QED BY <2>3, <4>1, <4>2, ConcatEqualIffEmpty
    <3>3. ~HasWork(t)'
      BY <2>1, <3>1, <3>2 DEF HasWork, TypeInv
    <3> SUFFICES ASSUME NEW w \in Threads
                 PROVE  /\ pc'[w] \in {"empty", "wait"} /\ HasWork(w)' => Woken(w)'
                        /\ pc'[w] = "wait" /\ w \in stop' => Woken(w)'
                        /\ pc'[w] = "send_wait" /\ ready'[w] => event'[w]
      BY DEF WakeInv
    <3>4. CASE w # t
      <4>1. Woken(w) => Woken(w)'
        BY <2>1, <3>4, StillWoken
      <4>2. HasWork(w)' => HasWork(w)
        BY <2>1, <3>4 DEF HasWork
      <4> QED BY <2>1, <3>4, <4>1, <4>2 DEF WakeInv
    <3> QED BY <3>1, <3>3, <3>4
  <2> QED BY <2>2, <2>3
<1>3. ASSUME NEW t \in Threads, CheckQuitting(t)
      PROVE  WakeInv'
  <2> SUFFICES ASSUME NEW w \in Threads
               PROVE  /\ pc'[w] \in {"empty", "wait"} /\ HasWork(w)' => Woken(w)'
                      /\ pc'[w] = "wait" /\ w \in stop' => Woken(w)'
                      /\ pc'[w] = "send_wait" /\ ready'[w] => event'[w]
    BY DEF WakeInv
  <2>1. /\ \A u \in Threads \ {t} : pc'[u] = pc[u]
        /\ UNCHANGED <<op, messages, delayed, due, timed, event, stop, ready>>
        /\ pc[t] = "empty"
        /\ pc'[t] = IF t \in stop THEN "exited" ELSE "wait"
    BY <1>3 DEF CheckQuitting, Goto, TypeInv
  <2>2. Woken(w) => Woken(w)'
    BY <2>1, StillWoken
  <2>3. HasWork(w)' = HasWork(w)
    BY <2>1 DEF HasWork
  <2> QED BY <2>1, <2>2, <2>3 DEF WakeInv
<1>4. ASSUME NEW t \in Threads, WaitEnds(t)
      PROVE  WakeInv'
  BY <1>4, OwnStep DEF WaitEnds, Goto, TypeInv
<1>5. ASSUME NEW t \in Threads, Expire(t)
      PROVE  WakeInv'
  <2>1. /\ UNCHANGED <<pc, op, messages, timed, event, stop, ready>>
        /\ \A u \in Threads : delayed'[u] + due'[u] = delayed[u] + due[u]
    BY <1>5 DEF Expire, TypeInv
  <2> QED BY <2>1 DEF WakeInv, HasWork, Woken, Waking
<1>6. ASSUME NEW t \in Threads, NEW u \in Threads,
             NEW kind \in {"post", "delayed"}, BeginPost(t, u, kind)
      PROVE  WakeInv'
  BY <1>6, OwnStep DEF BeginPost, Goto, TypeInv
<1>7. ASSUME NEW t \in Threads, NEW u \in Threads, BeginSend(t, u)
      PROVE  WakeInv'
  <2>1. /\ pc[t] = "run" /\ pc' = [pc EXCEPT ![t] = "post"]
        /\ \A v \in Threads \ {t} : op'[v] = op[v]
        /\ UNCHANGED <<messages, delayed, due, timed, event, stop, ready>>
    BY <1>7 DEF BeginSend, Goto, TypeInv
  <2>2. /\ pc'[t] = "post"
        /\ \A v \in Threads \ {t} : pc'[v] = pc[v]
    BY <2>1 DEF TypeInv
  <2> QED BY <2>1, <2>2, OwnStep
<1>8. ASSUME NEW t \in Threads, NEW u \in Threads, Quit(t, u)
      PROVE  WakeInv'
  <2> SUFFICES ASSUME NEW w \in Threads
               PROVE  /\ pc'[w] \in {"empty", "wait"} /\ HasWork(w)' => Woken(w)'
                      /\ pc'[w] = "wait" /\ w \in stop' => Woken(w)'
                      /\ pc'[w] = "send_wait" /\ ready'[w] => event'[w]
    BY DEF WakeInv
  <2>1. /\ \A v \in Threads \ {t} : pc'[v] = pc[v] /\ op'[v] = op[v]
        /\ UNCHANGED <<messages, delayed, due, timed, event, ready>>
        /\ pc[t] = "run" /\ pc'[t] = "wake" /\ op'[t].to = u
        /\ stop' = stop \cup {u}
    BY <1>8, CallIsOp DEF Quit, Goto, TypeInv
  <2>2. Woken(w) => Woken(w)'
    BY <2>1, StillWoken
  <2>3. HasWork(w)' = HasWork(w)
    BY <2>1 DEF HasWork
  <2>4. CASE w = u
    BY <2>1, <2>4 DEF Woken, Waking, WakeInv
  <2>5. CASE w # u
    BY <2>1, <2>2, <2>3, <2>5 DEF WakeInv
  <2> QED BY <2>4, <2>5
<1>9. ASSUME NEW t \in Threads, SendPosts(t)
      PROVE  WakeInv'
  <2>1. /\ pc[t] = "post" /\ pc'[t] \in {"send", "push"}
        /\ \A v \in Threads \ {t} : pc'[v] = pc[v]
        /\ UNCHANGED <<op, messages, delayed, due, timed, stop>>
    BY <1>9 DEF SendPosts, Goto, TypeInv
  <2>2. \A v \in Threads \ {t} : event'[v] = event[v] /\ ready'[v] = ready[v]
    <3>1. CASE op[t].to \in stop
      BY <1>9, <3>1 DEF SendPosts, TypeInv
    <3>2. CASE op[t].to \notin stop
      BY <1>9, <3>2 DEF SendPosts
    <3> QED BY <3>1, <3>2
  <2> QED BY <2>1, <2>2, OwnStep
<1>10. ASSUME NEW t \in Threads, Push(t)
       PROVE  WakeInv'
  <2> SUFFICES ASSUME NEW w \in Threads
               PROVE  /\ pc'[w] \in {"empty", "wait"} /\ HasWork(w)' => Woken(w)'
                      /\ pc'[w] = "wait" /\ w \in stop' => Woken(w)'
                      /\ pc'[w] = "send_wait" /\ ready'[w] => event'[w]
    BY DEF WakeInv
  <2>1. /\ \A v \in Threads \ {t} : pc'[v] = pc[v]
        /\ UNCHANGED <<op, due, timed, event, stop, ready>>
        /\ pc[t] = "push" /\ pc'[t] = "wake" /\ op[t].to \in Threads
    BY <1>10 DEF Push, Goto, TypeInv
  <2>2. \A v \in Threads \ {op[t].to} :
            messages'[v] = messages[v] /\ delayed'[v] = delayed[v]
    <3>1. CASE op[t].kind = "delayed"
      BY <1>10, <3>1 DEF Push, TypeInv
    <3>2. CASE op[t].kind # "delayed"
      BY <1>10, <3>2 DEF Push, TypeInv
    <3> QED BY <3>1, <3>2
  <2>3. CASE w = op[t].to
    BY <2>1, <2>3 DEF Woken, Waking, WakeInv
  <2>4. CASE w # op[t].to
    <3>1. Woken(w) => Woken(w)'
      BY <2>1, StillWoken
    <3>2. HasWork(w)' = HasWork(w)
      BY <2>1, <2>2, <2>4 DEF HasWork
    <3> QED BY <2>1, <3>1, <3>2 DEF WakeInv
  <2> QED BY <2>3, <2>4
<1>11. ASSUME NEW t \in Threads, WakeUp(t)
       PROVE  WakeInv'
  <2> SUFFICES ASSUME NEW w \in Threads
               PROVE  /\ pc'[w] \in {"empty", "wait"} /\ HasWork(w)' => Woken(w)'
                      /\ pc'[w] = "wait" /\ w \in stop' => Woken(w)'
                      /\ pc'[w] = "send_wait" /\ ready'[w] => event'[w]
    BY DEF WakeInv
  <2>1. /\ \A v \in Threads \ {t} : pc'[v] = pc[v] /\ op'[v] = op[v]
        /\ UNCHANGED <<messages, delayed, due, timed, stop, ready>>
        /\ pc[t] = "wake" /\ pc'[t] \in {"run", "send"}
        /\ op[t].to \in Threads
    BY <1>11 DEF WakeUp, Return, Goto, TypeInv
  <2>4. /\ event'[op[t].to]
        /\ \A v \in Threads : event[v] => event'[v]
    BY <1>11, <2>1 DEF WakeUp, TypeInv
  <2>2. Woken(w) => Woken(w)'
    BY <2>1, <2>4 DEF Woken, Waking
  <2>3. HasWork(w)' = HasWork(w)
    BY <2>1 DEF HasWork
  <2> QED BY <2>1, <2>2, <2>3, <2>4 DEF WakeInv
<1>12. ASSUME NEW t \in Threads, SendTest(t)
       PROVE  WakeInv'
  <2>1. CASE ready[t]
    <3>1. /\ pc' = [pc EXCEPT ![t] = "run"] /\ op' = [op EXCEPT ![t] = NoCall]
          /\ \A u \in Threads \ {t} :
                 ready'[u] = ready[u] /\ event'[u] = event[u]
          /\ UNCHANGED <<messages, delayed, due, timed, stop>> /\ pc[t] = "send"
      BY <1>12, <2>1 DEF SendTest, Return, Goto, TypeInv
    <3>2. /\ pc'[t] = "run"
          /\ \A u \in Threads \ {t} : pc'[u] = pc[u] /\ op'[u] = op[u]
      BY <3>1 DEF TypeInv
    <3> QED BY <3>1, <3>2, OwnStep
  <2>2. CASE ~ready[t]
    <3> SUFFICES ASSUME NEW w \in Threads
                 PROVE  /\ pc'[w] \in {"empty", "wait"} /\ HasWork(w)' => Woken(w)'
                        /\ pc'[w] = "wait" /\ w \in stop' => Woken(w)'
                        /\ pc'[w] = "send_wait" /\ ready'[w] => event'[w]
      BY DEF WakeInv
    <3>1. /\ \A u \in Threads \ {t} : pc'[u] = pc[u]
          /\ UNCHANGED <<op, messages, delayed, due, timed, event, stop, ready>>
          /\ pc[t] = "send" /\ pc'[t] = "send_wait"
      BY <1>12, <2>2 DEF SendTest, Goto, TypeInv
    <3>2. Woken(w) => Woken(w)'
      BY <3>1, StillWoken
    <3>3. HasWork(w)' = HasWork(w)
      BY <3>1 DEF HasWork
    <3> QED BY <2>2, <3>1, <3>2, <3>3 DEF WakeInv
  <2> QED BY <2>1, <2>2
<1>13. ASSUME NEW t \in Threads, SendWait(t)
       PROVE  WakeInv'
  BY <1>13, OwnStep DEF SendWait, Goto, TypeInv
<1>14. ASSUME NEW t \in Threads, HandlerReturns(t)
       PROVE  WakeInv'
  <2>1. /\ pc' = [pc EXCEPT ![t] = "get"] /\ pc[t] = "run"
        /\ UNCHANGED <<op, messages, delayed, due, timed, stop>>
    BY <1>14 DEF HandlerReturns, Goto
  <2>2. \A u \in Threads : /\ event[u] => event'[u]
                           /\ ready'[u] => ready[u] \/ event'[u]
    BY <1>14, Zenon DEF HandlerReturns
  <2> QED BY <2>1, <2>2, OwnStep DEF TypeInv
<1> QED
  BY <1>1, <1>2, <1>3, <1>4, <1>5, <1>6, <1>7, <1>8, <1>9, <1>10, <1>11,
     <1>12, <1>13, <1>14 DEF Next, Step, Call

(* No wake-up is lost, whatever the number of threads and of their calls   *)
(* of Post, PostDelayed, Send and Quit: Post, Get and the wait loop of     *)
(* Send (thread.cc) never leave a thread asleep on top of its messages.    *)
THEOREM NoWakeUpIsLost == Spec => []NoLostWakeUp
<1>1. Init => WakeInv
  <2> SUFFICES ASSUME Init
               PROVE  WakeInv
    OBVIOUS
  <2> SUFFICES ASSUME NEW t \in Threads
               PROVE  /\ ~HasWork(t) /\ t \notin stop
                      /\ pc[t] # "send_wait"
    BY DEF WakeInv
  <2>1. messages[t] = <<>> /\ delayed[t] = 0 /\ due[t] = 0
    BY DEF Init
  <2>2. pc[t] \in {"run", "wait"} /\ stop = {}
    BY DEF Init
  <2> QED BY <2>1, <2>2 DEF HasWork
<1>2. WakeInv => NoLostWakeUp
  BY DEF WakeInv, NoLostWakeUp, HasWork, Woken
<1> QED BY <1>1, <1>2, TypeInvHolds, WakeStep, PTL DEF Spec

-----------------------------------------------------------------------------
(* Senders.  The edge of every Send that has not returned is in the graph, *)
(* and in the graph one comes to an end from everywhere.                   *)

Circle(S) ==
    S # {} /\ \A t \in S : \E u \in S : <<t, u>> \in send_graph

Calling == {"post", "push", "wake", "send", "send_wait"}

GraphInv ==
    /\ \A t \in Threads :
           /\ pc[t] \in {"post", "send", "send_wait"} => op[t].kind = "send"
           /\ pc[t] \in Calling /\ op[t].kind = "send" =>
                  <<t, op[t].to>> \in send_graph
    /\ \A S \in SUBSET Threads : ~Circle(S)

(* The set that the search of RegisterSendAndCheckForCycles collects cuts  *)
(* every circle the new edge could close.                                  *)
LEMMA NewEdgeClosesNoCircle ==
    ASSUME NEW t \in Threads, NEW u \in Threads, ~SendLoop(t, u),
           \A S \in SUBSET Threads : ~Circle(S),
           send_graph' = send_graph \cup {<<t, u>>},
           NEW S \in SUBSET Threads
    PROVE  ~Circle(S)'
<1> SUFFICES ASSUME Circle(S)'
             PROVE  FALSE
  OBVIOUS
<1>1. PICK C \in SUBSET Threads :
          /\ u \in C /\ t \notin C
          /\ \A edge \in send_graph : edge[1] \in C => edge[2] \in C
  BY DEF SendLoop
<1>2. \A v, w : <<v, w>> \in send_graph /\ v \in C => w \in C
  <2> TAKE v, w
  <2>1. <<v, w>>[1] = v /\ <<v, w>>[2] = w
    OBVIOUS
  <2> QED BY <1>1, <2>1
<1>3. S # {} /\ \A v \in S : \E w \in S :
          <<v, w>> \in send_graph \/ (v = t /\ w = u)
  BY DEF Circle
<1>4. CASE S \cap C = {}
  <2>1. Circle(S)
    BY <1>1, <1>3, <1>4 DEF Circle
  <2> QED BY <2>1
<1>5. CASE S \cap C # {}
  <2>1. Circle(S \cap C)
    BY <1>1, <1>2, <1>3, <1>5 DEF Circle
  <2> QED BY <2>1
<1> QED BY <1>4, <1>5

(* Steps of t that neither begin a call nor add an edge.                   *)
LEMMA NoNewSend ==
    ASSUME GraphInv, NEW t \in Threads, send_graph' = send_graph,
           \A v \in Threads \ {t} : pc'[v] = pc[v] /\ op'[v] = op[v],
           \/ pc'[t] \notin Calling
           \/ /\ op'[t] = op[t] /\ pc[t] \in Calling
              /\ pc'[t] \in {"post", "send", "send_wait"} =>
                     op[t].kind = "send"
           \/ pc'[t] \in {"push", "wake"} /\ op'[t].kind # "send"
    PROVE  GraphInv'
<1>1. \A S \in SUBSET Threads : ~Circle(S)'
  BY DEF GraphInv, Circle
<1>2. ASSUME NEW v \in Threads
      PROVE  /\ pc'[v] \in {"post", "send", "send_wait"} =>
                    op'[v].kind = "send"
             /\ pc'[v] \in Calling /\ op'[v].kind = "send" =>
                    <<v, op'[v].to>> \in send_graph'
  <2>1. CASE v = t
    BY <2>1 DEF GraphInv, Calling
  <2>2. CASE v # t
    BY <2>2 DEF GraphInv
  <2> QED BY <2>1, <2>2
<1> QED BY <1>1, <1>2 DEF GraphInv

LEMMA GraphStep == TypeInv /\ GraphInv /\ [Next]_vars => GraphInv'
<1> SUFFICES ASSUME TypeInv, GraphInv, [Next]_vars
             PROVE  GraphInv'
  OBVIOUS
<1>1. CASE UNCHANGED vars
  BY <1>1 DEF vars, GraphInv, Circle
<1>2. ASSUME NEW t \in Threads, Get(t)
      PROVE  GraphInv'
  BY <1>2, NoNewSend DEF Get, Goto, TypeInv, Calling
<1>3. ASSUME NEW t \in Threads, CheckQuitting(t)
      PROVE  GraphInv'
  BY <1>3, NoNewSend DEF CheckQuitting, Goto, TypeInv, Calling
<1>4. ASSUME NEW t \in Threads, WaitEnds(t)
      PROVE  GraphInv'
  BY <1>4, NoNewSend DEF WaitEnds, Goto, TypeInv, Calling
<1>5. ASSUME NEW t \in Threads, Expire(t)
      PROVE  GraphInv'
  BY <1>5 DEF Expire, GraphInv, Circle
<1>6. ASSUME NEW t \in Threads, NEW u \in Threads,
             NEW kind \in {"post", "delayed"}, BeginPost(t, u, kind)
      PROVE  GraphInv'
  <2>1. CASE u \in stop
    BY <1>6, <2>1 DEF BeginPost, GraphInv, Circle
  <2>2. CASE u \notin stop
    <3> DEFINE call == [to |-> u, kind |-> kind]
    <3>1. /\ op' = [op EXCEPT ![t] = call] /\ pc' = [pc EXCEPT ![t] = "push"]
          /\ UNCHANGED send_graph
      BY <1>6, <2>2 DEF BeginPost, Goto
    <3>2. call.kind # "send"
      OBVIOUS
    <3> HIDE DEF call
    <3>3. /\ \A v \in Threads \ {t} : pc'[v] = pc[v] /\ op'[v] = op[v]
          /\ pc'[t] = "push" /\ op'[t].kind # "send"
      BY <3>1, <3>2 DEF TypeInv
    <3> QED BY <3>1, <3>3, NoNewSend
  <2> QED BY <2>1, <2>2
<1>7. ASSUME NEW t \in Threads, NEW u \in Threads, BeginSend(t, u)
      PROVE  GraphInv'
  <2> DEFINE call == [to |-> u, kind |-> "send"]
  <2>1. /\ op' = [op EXCEPT ![t] = call] /\ pc' = [pc EXCEPT ![t] = "post"]
        /\ send_graph' = send_graph \cup {<<t, u>>} /\ ~SendLoop(t, u)
    BY <1>7 DEF BeginSend, Goto
  <2>2. call.kind = "send" /\ call.to = u
    OBVIOUS
  <2> HIDE DEF call
  <2>3. /\ \A v \in Threads \ {t} : pc'[v] = pc[v] /\ op'[v] = op[v]
        /\ op'[t].kind = "send" /\ op'[t].to = u
    BY <2>1, <2>2 DEF TypeInv
  <2>4. \A S \in SUBSET Threads : ~Circle(S)'
    BY <2>1, NewEdgeClosesNoCircle DEF GraphInv
  <2>5. ASSUME NEW v \in Threads
        PROVE  /\ pc'[v] \in {"post", "send", "send_wait"} =>
                      op'[v].kind = "send"
               /\ pc'[v] \in Calling /\ op'[v].kind = "send" =>
                      <<v, op'[v].to>> \in send_graph'
    BY <2>1, <2>3 DEF GraphInv
  <2> QED BY <2>4, <2>5 DEF GraphInv
<1>8. ASSUME NEW t \in Threads, NEW u \in Threads, Quit(t, u)
      PROVE  GraphInv'
  <2> DEFINE call == [to |-> u, kind |-> "quit"]
  <2>1. /\ op' = [op EXCEPT ![t] = call] /\ pc' = [pc EXCEPT ![t] = "wake"]
        /\ UNCHANGED send_graph
    BY <1>8 DEF Quit, Goto
  <2>2. call.kind # "send"
    OBVIOUS
  <2> HIDE DEF call
  <2>3. /\ \A v \in Threads \ {t} : pc'[v] = pc[v] /\ op'[v] = op[v]
        /\ pc'[t] = "wake" /\ op'[t].kind # "send"
    BY <2>1, <2>2 DEF TypeInv
  <2> QED BY <2>1, <2>3, NoNewSend
<1>9. ASSUME NEW t \in Threads, SendPosts(t)
      PROVE  GraphInv'
  <2>1. /\ pc[t] = "post" /\ pc'[t] \in {"send", "push"}
        /\ \A v \in Threads \ {t} : pc'[v] = pc[v]
        /\ UNCHANGED <<op, send_graph>>
    BY <1>9 DEF SendPosts, Goto, TypeInv
  <2> QED BY <2>1, NoNewSend DEF GraphInv, Calling
<1>10. ASSUME NEW t \in Threads, Push(t)
       PROVE  GraphInv'
  <2>1. /\ pc[t] = "push" /\ pc'[t] = "wake"
        /\ \A v \in Threads \ {t} : pc'[v] = pc[v]
        /\ UNCHANGED <<op, send_graph>>
    BY <1>10 DEF Push, Goto, TypeInv
  <2> QED BY <2>1, NoNewSend DEF Calling
<1>11. ASSUME NEW t \in Threads, WakeUp(t)
       PROVE  GraphInv'
  <2>1. /\ \A v \in Threads \ {t} : pc'[v] = pc[v] /\ op'[v] = op[v]
        /\ pc[t] = "wake" /\ UNCHANGED send_graph
        /\ IF op[t].kind = "send" THEN pc'[t] = "send" /\ op'[t] = op[t]
           ELSE pc'[t] = "run"
    BY <1>11 DEF WakeUp, Return, Goto, TypeInv
  <2> QED BY <2>1, NoNewSend DEF Calling
<1>12. ASSUME NEW t \in Threads, SendTest(t)
       PROVE  GraphInv'
  <2>1. /\ \A v \in Threads \ {t} : pc'[v] = pc[v] /\ op'[v] = op[v]
        /\ pc[t] = "send" /\ UNCHANGED send_graph
        /\ \/ pc'[t] = "send_wait" /\ op'[t] = op[t]
           \/ pc'[t] = "run"
    BY <1>12 DEF SendTest, Return, Goto, TypeInv
  <2> QED BY <2>1, NoNewSend DEF GraphInv, Calling
<1>13. ASSUME NEW t \in Threads, SendWait(t)
       PROVE  GraphInv'
  <2>1. /\ \A v \in Threads \ {t} : pc'[v] = pc[v]
        /\ pc[t] = "send_wait" /\ pc'[t] = "send"
        /\ UNCHANGED <<op, send_graph>>
    BY <1>13 DEF SendWait, Goto, TypeInv
  <2> QED BY <2>1, NoNewSend DEF GraphInv, Calling
<1>14. ASSUME NEW t \in Threads, HandlerReturns(t)
       PROVE  GraphInv'
  BY <1>14, NoNewSend DEF HandlerReturns, Goto, TypeInv, Calling
<1> QED
  BY <1>1, <1>2, <1>3, <1>4, <1>5, <1>6, <1>7, <1>8, <1>9, <1>10, <1>11,
     <1>12, <1>13, <1>14 DEF Next, Step, Call

(* Blocked senders never wait for each other in a circle, of any length,   *)
(* because RegisterSendAndCheckForCycles (thread.cc) lets no Send begin    *)
(* that would close one.                                                   *)
THEOREM SendersNeverDeadlock == Spec => []NoSendDeadlock
<1>1. Init => GraphInv
  <2> SUFFICES ASSUME Init
               PROVE  GraphInv
    OBVIOUS
  <2>1. \A t \in Threads : pc[t] \in {"run", "wait"}
    BY DEF Init
  <2>2. send_graph = {}
    BY DEF Init
  <2> QED BY <2>1, <2>2 DEF GraphInv, Calling, Circle
<1>2. GraphInv => NoSendDeadlock
  <2> SUFFICES ASSUME GraphInv, NEW S \in SUBSET Threads, S # {},
                      \A t \in S : Blocked(t) /\ op[t].to \in S
               PROVE  FALSE
    BY DEF NoSendDeadlock
  <2>1. \A t \in S : <<t, op[t].to>> \in send_graph
    BY DEF GraphInv, Blocked, Calling
  <2> QED BY <2>1 DEF GraphInv, Circle
<1> QED BY <1>1, <1>2, TypeInvHolds, GraphStep, PTL DEF Spec

=============================================================================

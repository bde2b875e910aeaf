----------------------------- MODULE RtcBaseProofs -----------------------------
(***************************************************************************)
(* Two helpers of rtc_base that run work later: OperationsChain and        *)
(* AsyncInvoker.                                                           *)
(*                                                                         *)
(* OperationsChain keeps its promise for any number of operations and any  *)
(* nesting of calls.  FrontIsTheRunningOne is inductive once the queue is  *)
(* known to be no longer than the number of operations; from it every step *)
(* is one of OperationsQueue.  The references need what is on the stack:   *)
(* each pending callback holds the reference of its own operation.         *)
(*                                                                         *)
(* The AsyncInvoker, for any number of threads and of closures: every step *)
(* that touches pending_invocations_ adds or removes that many closures,   *)
(* and the destructor leaves when there are none: whoever could make a new *)
(* one would have to hold one.                                             *)
(***************************************************************************)
EXTENDS OperationsChain, AsyncInvoker, SequenceTheorems, FiniteSetTheorems,
        FunctionTheorems, TLAPS

Frame == [call : {"functor", "callback"}, op : Nat]

Types ==
    /\ chained \in Nat
    /\ chained_operations \in Seq(Nat)
    /\ Len(chained_operations) <= chained
    /\ stack \in Seq(Frame)

OrderInv == Types /\ FrontIsTheRunningOne

(* A call on top of the stack.                                             *)
LEMMA Call ==
    ASSUME NEW calls \in Seq(Frame), NEW frame \in Frame
    PROVE  /\ <<frame>> \o calls \in Seq(Frame)
           /\ Len(<<frame>> \o calls) = Len(calls) + 1
           /\ \A i \in 1..(Len(calls) + 1) : (<<frame>> \o calls)[i] =
                  IF i = 1 THEN frame ELSE calls[i - 1]
<1>1. <<frame>> \in Seq(Frame) /\ Len(<<frame>>) = 1 /\ <<frame>>[1] = frame
    OBVIOUS
<1> QED BY <1>1, ConcatProperties

LEMMA Frames == \A op \in Nat : Functor(op) \in Frame /\ Callback(op) \in Frame
BY DEF Functor, Callback, Frame

(* The operation whose callback can be invoked is at the front.            *)
LEMMA RunningIsFront ==
    ASSUME OrderInv, NEW op \in started \ completed
    PROVE  /\ chained_operations # << >>
           /\ op = Head(chained_operations)
           /\ op = chained - Len(chained_operations) + 1
           /\ op \in 1..chained
<1>1. chained_operations # << >> /\ op = Head(chained_operations)
    BY DEF OrderInv, FrontIsTheRunningOne
<1>2. /\ Len(chained_operations) \in 1..chained
      /\ Head(chained_operations) = chained_operations[1]
    BY <1>1 DEF OrderInv, Types
<1> QED BY <1>1, <1>2 DEF OrderInv, Types, FrontIsTheRunningOne

(* After the front was popped.                                             *)
LEMMA Popped ==
    ASSUME OrderInv, chained_operations # << >>
    PROVE  LET q == Tail(chained_operations) IN
           /\ q \in Seq(Nat)
           /\ Len(q) = Len(chained_operations) - 1
           /\ \A i \in 1..Len(q) : q[i] = chained - Len(q) + i
BY DEF OrderInv, Types, FrontIsTheRunningOne

(* After an operation was pushed.                                          *)
LEMMA Pushed ==
    ASSUME OrderInv
    PROVE  LET q == Append(chained_operations, chained + 1) IN
           /\ q \in Seq(Nat)
           /\ Len(q) = Len(chained_operations) + 1
           /\ \A i \in 1..Len(q) : q[i] = chained + 1 - Len(q) + i
BY DEF OrderInv, Types, FrontIsTheRunningOne

LEMMA OrderInit == Init => OrderInv
BY DEF Init, OrderInv, Types, FrontIsTheRunningOne

LEMMA ChainOrder == OrderInv /\ ChainOperation => OrderInv'
<1> SUFFICES ASSUME OrderInv, ChainOperation PROVE OrderInv'
    OBVIOUS
<1> DEFINE q == Append(chained_operations, chained + 1)
<1>1. /\ chained' = chained + 1 /\ chained_operations' = q
      /\ completed' = completed
    BY DEF ChainOperation
<1>2. /\ q \in Seq(Nat) /\ Len(q) = Len(chained_operations) + 1
      /\ \A i \in 1..Len(q) : q[i] = chained + 1 - Len(q) + i
    BY Pushed
<1>3. CASE chained_operations = << >>
    <2>1. /\ started' = started \cup {chained + 1}
          /\ stack' = <<Functor(chained + 1)>> \o stack
        BY <1>1, <1>2, <1>3 DEF ChainOperation, Run, OrderInv, Types
    <2>2. stack' \in Seq(Frame)
        BY <2>1, Call, Frames DEF OrderInv, Types
    <2> QED BY <1>1, <1>2, <1>3, <2>1, <2>2
            DEF OrderInv, Types, FrontIsTheRunningOne
<1>4. CASE chained_operations # << >>
    <2>1. started' = started /\ stack' = stack
        BY <1>1, <1>2, <1>4 DEF ChainOperation, OrderInv, Types
    <2> QED BY <1>1, <1>2, <1>4, <2>1 DEF OrderInv, Types, FrontIsTheRunningOne
<1> QED BY <1>3, <1>4

LEMMA CompleteOrder ==
    ASSUME OrderInv, NEW op \in started, OnOperationComplete(op)
    PROVE  OrderInv'
<1> DEFINE q == Tail(chained_operations)
           calls == <<Callback(op)>> \o stack
<1>1. /\ chained_operations # << >> /\ op = Head(chained_operations)
      /\ op = chained - Len(chained_operations) + 1 /\ op \in 1..chained
    BY RunningIsFront DEF OnOperationComplete
<1>2. /\ q \in Seq(Nat) /\ Len(q) = Len(chained_operations) - 1
      /\ \A i \in 1..Len(q) : q[i] = chained - Len(q) + i
    BY <1>1, Popped
<1>3. /\ chained' = chained /\ chained_operations' = q
      /\ completed' = completed \cup {op}
    BY DEF OnOperationComplete
<1>4. /\ calls \in Seq(Frame)
      /\ completed' = 1..(chained - Len(q))
      /\ started = completed'
    BY <1>1, <1>2, <1>3, Call, Frames DEF OrderInv, Types, FrontIsTheRunningOne
<1>5. /\ q = << >> => started' = started /\ stack' = calls
      /\ q # << >> => /\ started' = started \cup {Head(q)}
                      /\ stack' = <<Functor(Head(q))>> \o calls
    BY <1>3 DEF OnOperationComplete, Run
<1>6. q # << >> => Head(q) \in Nat
    BY <1>2, HeadTailProperties
<1> HIDE DEF q, calls
<1>7. stack' \in Seq(Frame)
    BY <1>4, <1>5, <1>6, Call, Frames
<1>8. Types'
    BY <1>2, <1>3, <1>7 DEF OrderInv, Types
<1>9. started' = completed' \cup (IF q = << >> THEN {} ELSE {Head(q)})
    BY <1>4, <1>5
<1>10. FrontIsTheRunningOne'
    BY <1>2, <1>3, <1>4, <1>9 DEF FrontIsTheRunningOne
<1> QED BY <1>8, <1>10 DEF OrderInv

LEMMA OrderStep == OrderInv /\ [Next]_vars => OrderInv'
<1> SUFFICES ASSUME OrderInv, [Next]_vars PROVE OrderInv'
    OBVIOUS
<1>1. CASE ChainOperation
    BY <1>1, ChainOrder
<1>2. CASE Return
    BY <1>2 DEF Return, OrderInv, Types, FrontIsTheRunningOne
<1>3. CASE Release
    BY <1>3 DEF Release, OrderInv, Types, FrontIsTheRunningOne
<1>4. ASSUME NEW op \in started, OnOperationComplete(op) PROVE OrderInv'
    BY <1>4, CompleteOrder
<1>5. CASE UNCHANGED vars
    BY <1>5 DEF vars, OrderInv, Types, FrontIsTheRunningOne
<1> QED BY <1>1, <1>2, <1>3, <1>4, <1>5 DEF Next

(* The queue holds the operations that have not completed, in the order in *)
(* which they were chained, and exactly its front is running.              *)
THEOREM InOrder == Spec => []FrontIsTheRunningOne
<1>1. OrderInv => FrontIsTheRunningOne
    BY DEF OrderInv
<1> QED BY <1>1, OrderInit, OrderStep, PTL DEF Spec

-----------------------------------------------------------------------------

LEMMA Implements == OrderInv /\ [Next]_vars => [Queue!Next]_Queue!vars
<1> SUFFICES ASSUME OrderInv, [Next]_vars PROVE [Queue!Next]_Queue!vars
    OBVIOUS
<1>1. CASE ChainOperation
    <2>1. Queue!Running = {} <=> chained_operations = << >>
        <3>1. chained_operations # << >> =>
                 Head(chained_operations) = chained - Len(chained_operations) + 1
            BY DEF OrderInv, Types, FrontIsTheRunningOne
        <3> QED BY <3>1 DEF Queue!Running, OrderInv, Types, FrontIsTheRunningOne
    <2>2. chained_operations' = Append(chained_operations, chained + 1)
        BY <1>1 DEF ChainOperation
    <2>3. CASE chained_operations = << >>
        <3>1. started' = started \cup {chained + 1}
            BY <1>1, <2>2, <2>3 DEF ChainOperation, Run, OrderInv, Types
        <3> QED BY <1>1, <2>1, <2>3, <3>1 DEF ChainOperation, Queue!Chain, Queue!Next
    <2>4. CASE chained_operations # << >>
        <3>1. Len(chained_operations') # 1
            BY <2>2, <2>4 DEF OrderInv, Types
        <3> QED BY <1>1, <2>1, <2>4, <3>1 DEF ChainOperation, Queue!Chain, Queue!Next
    <2> QED BY <2>3, <2>4
<1>2. ASSUME NEW op \in started, OnOperationComplete(op)
      PROVE  Queue!Complete(op)
    <2> DEFINE q == Tail(chained_operations)
    <2>1. /\ chained_operations # << >> /\ op = Head(chained_operations)
          /\ op = chained - Len(chained_operations) + 1
        BY <1>2, RunningIsFront DEF OnOperationComplete
    <2>2. Queue!Running = {op}
        BY <1>2, <2>1 DEF Queue!Running, OrderInv, FrontIsTheRunningOne, OnOperationComplete
    <2>3. /\ q \in Seq(Nat) /\ Len(q) = Len(chained_operations) - 1
          /\ \A i \in 1..Len(q) : q[i] = chained - Len(q) + i
        BY <2>1, Popped
    <2>4. started' = IF q # << >> THEN started \cup {Head(q)} ELSE started
        BY <1>2 DEF OnOperationComplete, Run
    <2> HIDE DEF q
    <2>5. op < chained <=> q # << >>
        BY <2>1, <2>3, EmptySeq DEF OrderInv, Types
    <2>6. q # << >> => Head(q) = op + 1
        <3>1. q # << >> => Head(q) = q[1] /\ 1 \in 1..Len(q)
            BY <2>3, EmptySeq
        <3> QED BY <3>1, <2>1, <2>3 DEF OrderInv, Types
    <2> QED BY <1>2, <2>2, <2>4, <2>5, <2>6 DEF Queue!Complete, OnOperationComplete
<1>3. CASE Return \/ Release \/ UNCHANGED vars
    BY <1>3 DEF Return, Release, vars, Queue!vars
<1> QED BY <1>1, <1>2, <1>3 DEF Next, Queue!Next

(* Whatever functors do while they run (complete, chain, drop the chain),  *)
(* the chain is a first in first out queue that runs one operation at a    *)
(* time and starts the next one inside the callback.                       *)
THEOREM ChainKeepsPromise == Spec => KeepsPromise
<1>1. Init => Queue!Init
    BY DEF Init, Queue!Init
<1> QED BY <1>1, OrderInit, OrderStep, Implements, PTL
        DEF Spec, KeepsPromise, Queue!Spec

-----------------------------------------------------------------------------

(* The callbacks among the calls hold the references of their operations,  *)
(* which have completed, and no operation has two.                         *)
Held(calls, refs, done) ==
    /\ \A i \in 1..Len(calls) : calls[i].call = "callback" =>
           calls[i].op \in refs /\ calls[i].op \in done
    /\ \A i, j \in 1..Len(calls) :
           calls[i].call = "callback" /\ calls[j].call = "callback" /\ i # j =>
               calls[i].op # calls[j].op

(* Every operation that has not completed holds a reference, and every     *)
(* callback that has not returned.                                         *)
HolderInv ==
    /\ OrderInv
    /\ (1..chained) \ completed \subseteq references
    /\ Held(stack, references, completed)

LEMMA HeldMore ==
    ASSUME NEW calls \in Seq(Frame), NEW refs, NEW more, NEW done,
           Held(calls, refs, done),
           \A i \in 1..Len(calls) : calls[i].op \in done /\ calls[i].op \in refs
                                        => calls[i].op \in more
    PROVE  Held(calls, more, done)
BY DEF Held

LEMMA HeldFunctor ==
    ASSUME NEW calls \in Seq(Frame), NEW refs, NEW done, NEW op \in Nat,
           Held(calls, refs, done)
    PROVE  Held(<<Functor(op)>> \o calls, refs, done)
<1> DEFINE new == <<Functor(op)>> \o calls
<1>1. /\ Len(new) = Len(calls) + 1 /\ Len(calls) \in Nat
      /\ \A i \in 1..(Len(calls) + 1) :
             new[i] = IF i = 1 THEN Functor(op) ELSE calls[i - 1]
    BY Call, Frames
<1>2. Functor(op).call # "callback"
    BY DEF Functor
<1> HIDE DEF new
<1>3. \A i \in 1..Len(new) : new[i].call = "callback" =>
          i - 1 \in 1..Len(calls) /\ new[i] = calls[i - 1]
    BY <1>1, <1>2
<1>4. \A i \in 1..Len(new) : new[i].call = "callback" =>
          new[i].op \in refs /\ new[i].op \in done
    BY <1>3 DEF Held
<1>5. \A i, j \in 1..Len(new) :
          new[i].call = "callback" /\ new[j].call = "callback" /\ i # j =>
              new[i].op # new[j].op
    <2> SUFFICES ASSUME NEW i \in 1..Len(new), NEW j \in 1..Len(new), i # j,
                        new[i].call = "callback", new[j].call = "callback"
                 PROVE  new[i].op # new[j].op
        OBVIOUS
    <2>1. i - 1 # j - 1
        BY <1>1
    <2> QED BY <1>3, <2>1 DEF Held
<1>6. Held(new, refs, done)
    BY <1>4, <1>5 DEF Held
<1> QED BY <1>6 DEF new

LEMMA HeldCallback ==
    ASSUME NEW calls \in Seq(Frame), NEW refs, NEW done, NEW op \in Nat,
           Held(calls, refs, done), op \in refs, op \notin done
    PROVE  Held(<<Callback(op)>> \o calls, refs, done \cup {op})
<1> DEFINE new == <<Callback(op)>> \o calls
<1>1. /\ Len(new) = Len(calls) + 1 /\ Len(calls) \in Nat
      /\ \A i \in 1..(Len(calls) + 1) :
             new[i] = IF i = 1 THEN Callback(op) ELSE calls[i - 1]
    BY Call, Frames
<1>2. Callback(op).op = op
    BY DEF Callback
<1> HIDE DEF new
<1>3. \A i \in 1..Len(new) : i # 1 =>
          i - 1 \in 1..Len(calls) /\ new[i] = calls[i - 1]
    BY <1>1
<1>4. Len(new) >= 1 /\ new[1].op = op
    BY <1>1, <1>2
<1>5. \A i \in 1..Len(new) : i # 1 /\ new[i].call = "callback" =>
          new[i].op \in refs /\ new[i].op \in done
    BY <1>3 DEF Held
<1>6. \A i, j \in 1..Len(new) :
          new[i].call = "callback" /\ new[j].call = "callback" /\ i # j =>
              new[i].op # new[j].op
    <2> SUFFICES ASSUME NEW i \in 1..Len(new), NEW j \in 1..Len(new), i # j,
                        new[i].call = "callback", new[j].call = "callback"
                 PROVE  new[i].op # new[j].op
        OBVIOUS
    <2>1. CASE i = 1 \/ j = 1
        BY <1>4, <1>5, <2>1
    <2>2. CASE i # 1 /\ j # 1
        BY <1>1, <1>3, <2>2 DEF Held
    <2> QED BY <2>1, <2>2
<1>7. Held(new, refs, done \cup {op})
    BY <1>4, <1>5, <1>6 DEF Held
<1> QED BY <1>7 DEF new

LEMMA HeldReturn ==
    ASSUME NEW calls \in Seq(Frame), NEW refs, NEW done, calls # << >>,
           Held(calls, refs, done)
    PROVE  Held(Tail(calls),
                IF Head(calls).call = "callback" THEN refs \ {Head(calls).op} ELSE refs,
                done)
<1> DEFINE new == Tail(calls)
<1>1. /\ Len(new) = Len(calls) - 1 /\ Len(calls) \in Nat \ {0}
      /\ \A i \in 1..Len(new) : new[i] = calls[i + 1]
      /\ Head(calls) = calls[1]
    BY HeadTailProperties, EmptySeq
<1> HIDE DEF new
<1>2. \A i \in 1..Len(new) : i + 1 \in 1..Len(calls) /\ i + 1 # 1
    BY <1>1
<1>3. \A i, j \in 1..Len(new) : i # j => i + 1 # j + 1
    BY <1>1
<1>4. 1 \in 1..Len(calls)
    BY <1>1
<1>5. \A i \in 1..Len(new) : new[i].call = "callback" =>
          /\ new[i].op \in refs /\ new[i].op \in done
          /\ calls[1].call = "callback" => new[i].op # calls[1].op
    BY <1>1, <1>2, <1>4 DEF Held
<1>6. \A i, j \in 1..Len(new) :
          new[i].call = "callback" /\ new[j].call = "callback" /\ i # j =>
              new[i].op # new[j].op
    BY <1>1, <1>2, <1>3 DEF Held
<1>7. Held(new,
           IF calls[1].call = "callback" THEN refs \ {calls[1].op} ELSE refs, done)
    BY <1>5, <1>6 DEF Held
<1> QED BY <1>1, <1>7 DEF new

LEMMA HolderStep == HolderInv /\ [Next]_vars => HolderInv'
<1> SUFFICES ASSUME HolderInv, [Next]_vars
             PROVE  /\ (1..chained' \ completed') \subseteq references'
                    /\ Held(stack', references', completed')
    BY OrderStep DEF HolderInv
<1>0. /\ completed \subseteq 1..chained /\ chained \in Nat /\ OrderInv
      /\ stack \in Seq(Frame)
    BY DEF HolderInv, OrderInv, Types, FrontIsTheRunningOne
<1>1. CASE ChainOperation
    <2>1. /\ chained' = chained + 1 /\ completed' = completed
          /\ references' = references \cup {chained + 1}
        BY <1>1 DEF ChainOperation
    <2>2. Held(stack, references', completed')
        BY <1>0, <2>1, HeldMore DEF HolderInv
    <2>3. \/ stack' = stack
          \/ \E op \in Nat : stack' = <<Functor(op)>> \o stack
        <3>1. /\ chained_operations' = Append(chained_operations, chained + 1)
              /\ chained_operations' \in Seq(Nat) /\ chained_operations' # << >>
            BY <1>0, <1>1 DEF ChainOperation, OrderInv, Types
        <3>2. Head(chained_operations') \in Nat
            BY <3>1, HeadTailProperties
        <3> QED BY <1>1, <3>2 DEF ChainOperation, Run
    <2>4. Held(stack', references', completed')
        BY <1>0, <2>2, <2>3, HeldFunctor
    <2> QED BY <1>0, <2>1, <2>4 DEF HolderInv
<1>2. ASSUME NEW op \in started, OnOperationComplete(op)
      PROVE  /\ (1..chained' \ completed') \subseteq references'
             /\ Held(stack', references', completed')
    <2> DEFINE calls == <<Callback(op)>> \o stack
    <2>1. op \in 1..chained /\ op \notin completed /\ chained_operations # << >>
        BY <1>0, <1>2, RunningIsFront DEF OnOperationComplete
    <2>2. /\ chained' = chained /\ completed' = completed \cup {op}
          /\ references' = references
        BY <1>2 DEF OnOperationComplete
    <2>3. Held(calls, references', completed')
        BY <1>0, <2>1, <2>2, HeldCallback DEF HolderInv
    <2>4. calls \in Seq(Frame)
        BY <1>0, <2>1, Call, Frames
    <2>5. \/ stack' = calls
          \/ \E nx \in Nat : stack' = <<Functor(nx)>> \o calls
        <3>1. chained_operations' = Tail(chained_operations)
            BY <1>2 DEF OnOperationComplete
        <3>2. chained_operations' # << >> => Head(chained_operations') \in Nat
            BY <1>0, <2>1, <3>1, Popped, HeadTailProperties
        <3> QED BY <1>2, <3>2 DEF OnOperationComplete, Run
    <2> HIDE DEF calls
    <2>6. Held(stack', references', completed')
        BY <2>3, <2>4, <2>5, HeldFunctor
    <2> QED BY <1>0, <2>2, <2>6 DEF HolderInv
<1>3. CASE Return
    <2>1. Held(stack', references', completed')
        BY <1>0, <1>3, HeldReturn DEF Return, HolderInv
    <2>2. Head(stack).call = "callback" => Head(stack).op \in completed
        <3>1. Head(stack) = stack[1] /\ 1 \in 1..Len(stack)
            BY <1>0, <1>3, EmptySeq DEF Return
        <3> QED BY <3>1 DEF HolderInv, Held
    <2> QED BY <1>3, <2>1, <2>2 DEF Return, HolderInv
<1>4. CASE Release
    <2>1. 0 \notin completed /\ 0 \notin 1..chained
        BY <1>0
    <2>2. Held(stack, references \ {User}, completed)
        BY <1>0, <2>1, HeldMore DEF HolderInv, User
    <2> QED BY <1>4, <2>1, <2>2 DEF Release, HolderInv, User
<1>5. CASE UNCHANGED vars
    BY <1>5 DEF vars, HolderInv
<1> QED BY <1>1, <1>2, <1>3, <1>4, <1>5 DEF Next

(* The chain is destroyed neither with operations in its queue nor inside  *)
(* the callback that runs the next one.                                    *)
THEOREM OutlivesItsWork == Spec => []AliveWhileUsed
<1>1. Init => HolderInv
    BY OrderInit DEF Init, HolderInv, Held
<1>2. HolderInv => AliveWhileUsed
    <2> SUFFICES ASSUME HolderInv, references = {} PROVE AliveWhileUsed
        BY DEF AliveWhileUsed
    <2>1. \A i \in 1..Len(stack) : stack[i].call # "callback"
        BY DEF HolderInv, Held
    <2>2. 1..chained \subseteq completed
        BY DEF HolderInv
    <2>3. chained_operations = << >>
        <3>1. /\ completed = 1..(chained - Len(chained_operations))
              /\ chained \in Nat /\ chained_operations \in Seq(Nat)
              /\ Len(chained_operations) <= chained
            BY DEF HolderInv, OrderInv, Types, FrontIsTheRunningOne
        <3>2. Len(chained_operations) \in Nat
            BY <3>1, LenProperties
        <3>3. Len(chained_operations) = 0
            <4>1. CASE chained = 0
                BY <3>1, <3>2, <4>1
            <4>2. CASE chained > 0
                <5>1. chained \in 1..(chained - Len(chained_operations))
                    BY <2>2, <3>1, <4>2
                <5> QED BY <5>1, <3>1, <3>2
            <4> QED BY <4>1, <4>2, <3>1
        <3> QED BY <3>1, <3>3, EmptySeq
    <2> QED BY <2>1, <2>3 DEF AliveWhileUsed
<1> QED BY <1>1, <1>2, HolderStep, PTL DEF Spec

-----------------------------------------------------------------------------
(* AsyncInvoker: the states of the threads.                                *)

Loop == {"idle", "functor", "check", "post", "push", "drop", "set"}

Destroying == {"clear", "test", "clear_own", "wait", "destroyed"}

(* A functor is running in a thread that is in it, or in a call made by    *)
(* it.  Only the owner gets into the destructor.                           *)
InvokerTypeInv ==
    /\ pending_invocations \in Int
    /\ queue \in [Threads -> Nat]
    /\ pc \in [Threads -> Loop \cup Destroying]
    /\ target \in [Threads -> Threads]
    /\ running \subseteq Threads
    /\ uncleared \subseteq Threads
    /\ \A t \in Threads :
           /\ pc[t] = "functor" => t \in running
           /\ t \in running => pc[t] \in Loop \ {"idle"}
           /\ pc[t] \in Destroying => t = Owner

LEMMA InvokerTypeStep ==
    InvokerTypeInv /\ [InvokerNext]_invokerVars => InvokerTypeInv'
<1> SUFFICES ASSUME InvokerTypeInv, [InvokerNext]_invokerVars
             PROVE  InvokerTypeInv'
  OBVIOUS
<1> USE DEF Goto, Back, Loop, Destroying
<1>1. CASE UNCHANGED invokerVars
  BY <1>1 DEF invokerVars, InvokerTypeInv
<1>2. ASSUME NEW t \in Threads, NEW u \in Threads, AsyncInvoke(t, u)
      PROVE  InvokerTypeInv'
  BY <1>2 DEF AsyncInvoke, InvokerTypeInv
<1>3. ASSUME NEW t \in Threads, DoInvoke(t)
      PROVE  InvokerTypeInv'
  BY <1>3 DEF DoInvoke, InvokerTypeInv
<1>4. ASSUME NEW t \in Threads, Post(t)
      PROVE  InvokerTypeInv'
  BY <1>4 DEF Post, InvokerTypeInv
<1>5. ASSUME NEW t \in Threads, OnMessage(t)
      PROVE  InvokerTypeInv'
  BY <1>5 DEF OnMessage, InvokerTypeInv
<1>6. ASSUME NEW t \in Threads, FunctorReturns(t)
      PROVE  InvokerTypeInv'
  BY <1>6 DEF FunctorReturns, InvokerTypeInv
<1>7. ASSUME NEW t \in Threads, DestroyClosure(t)
      PROVE  InvokerTypeInv'
  BY <1>7 DEF DestroyClosure, InvokerTypeInv
<1>8. ASSUME NEW t \in Threads, SetEvent(t)
      PROVE  InvokerTypeInv'
  BY <1>8 DEF SetEvent, InvokerTypeInv
<1>9. CASE BeginDestroy
  BY <1>9, OwnerAssumption DEF BeginDestroy, InvokerTypeInv
<1>10. CASE ClearNext
  BY <1>10, OwnerAssumption DEF ClearNext, ClearQueue, InvokerTypeInv
<1>11. CASE TestPending
  BY <1>11, OwnerAssumption DEF TestPending, InvokerTypeInv
<1>12. CASE ClearOwn
  BY <1>12, OwnerAssumption DEF ClearOwn, ClearQueue, InvokerTypeInv
<1>13. CASE Wait
  BY <1>13, OwnerAssumption DEF Wait, InvokerTypeInv
<1>14. ASSUME NEW t \in Threads, Push(t)
       PROVE  InvokerTypeInv'
  BY <1>14 DEF Push, InvokerTypeInv
<1>15. ASSUME NEW t \in Threads, Quit(t)
       PROVE  InvokerTypeInv'
  BY <1>15 DEF Quit, InvokerTypeInv
<1> QED
  BY <1>1, <1>2, <1>3, <1>4, <1>5, <1>6, <1>7, <1>8, <1>9, <1>10, <1>11,
     <1>12, <1>13, <1>14, <1>15 DEF InvokerNext, Step, Destructor

LEMMA InvokerTypeInvHolds == InvokerSpec => []InvokerTypeInv
<1>1. InvokerInit => InvokerTypeInv
  BY DEF InvokerInit, InvokerTypeInv, Loop, Destroying
<1> QED BY <1>1, InvokerTypeStep, PTL DEF InvokerSpec

-----------------------------------------------------------------------------
(* Counting closures.                                                      *)

Count ==
    IsFiniteSet(Closures) /\ PendingIsExact

Calling(t) == pc[t] \in {"check", "post", "push", "drop"}

Queued(x) ==
    \E t \in Threads : \E i \in 1 .. queue[t] : x = <<t, "queue", i>>
InFunctor(x) == \E t \in running : x = <<t, "functor", 0>>
Called(x) == \E t \in Threads : Calling(t) /\ x = <<t, "call", 0>>

LEMMA InClosures ==
    \A x : x \in Closures <=> Queued(x) \/ InFunctor(x) \/ Called(x)
<1> DEFINE Q == UNION {{<<t, "queue", i>> : i \in 1 .. queue[t]} :
                          t \in Threads}
           F == {<<t, "functor", 0>> : t \in running}
           C == {<<t, "call", 0>> :
                   t \in {u \in Threads :
                             pc[u] \in {"check", "post", "push", "drop"}}}
<1> TAKE x
<1>1. x \in Q <=> Queued(x)
  <2>1. x \in Q <=> \E t \in Threads :
                        x \in {<<t, "queue", i>> : i \in 1 .. queue[t]}
    OBVIOUS
  <2> QED BY <2>1, Zenon DEF Queued
<1>2. x \in F <=> InFunctor(x)
  BY Zenon DEF InFunctor
<1>3. x \in C <=> Called(x)
  BY Zenon DEF Called, Calling
<1>4. Closures = Q \cup F \cup C
  BY DEF Closures
<1> HIDE DEF Q, F, C
<1> QED BY <1>1, <1>2, <1>3, <1>4

LEMMA InClosuresNext ==
    \A x : x \in Closures' <=> Queued(x)' \/ InFunctor(x)' \/ Called(x)'
<1>1. (\A x : x \in Closures <=> Queued(x) \/ InFunctor(x) \/ Called(x))'
  BY InClosures, PTL
<1> QED BY <1>1

(* A closure that changes hands is the same one.                           *)
LEMMA Moved ==
    ASSUME Count, NEW old \in Closures, NEW new, new \notin Closures,
           Closures' = (Closures \ {old}) \cup {new},
           pending_invocations' = pending_invocations
    PROVE  Count'
<1>1. IsFiniteSet(Closures \ {old})
      /\ Cardinality(Closures \ {old}) = Cardinality(Closures) - 1
  BY FS_RemoveElement DEF Count
<1>2. IsFiniteSet((Closures \ {old}) \cup {new})
      /\ Cardinality((Closures \ {old}) \cup {new})
             = Cardinality(Closures \ {old}) + 1
  BY <1>1, FS_AddElement
<1>3. Cardinality(Closures) \in Nat
  BY FS_CardinalityType DEF Count
<1> QED BY <1>1, <1>2, <1>3 DEF Count, PendingIsExact

LEMMA QueueSize ==
    ASSUME NEW t, NEW n \in Nat
    PROVE  Cardinality({<<t, "queue", i>> : i \in 1 .. n}) = n
<1> DEFINE S == {<<t, "queue", i>> : i \in 1 .. n}
           f == [i \in 1 .. n |-> <<t, "queue", i>>]
<1>1. f \in Bijection(1 .. n, S)
  <2>1. \A i, j \in 1 .. n : f[i] = f[j] => i = j
    <3> SUFFICES ASSUME NEW i \in 1 .. n, NEW j \in 1 .. n, f[i] = f[j]
                 PROVE  i = j
      OBVIOUS
    <3>1. <<t, "queue", i>>[3] = <<t, "queue", j>>[3]
      OBVIOUS
    <3> QED BY <3>1
  <2>2. f \in [1 .. n -> S] /\ \A x \in S : \E i \in 1 .. n : f[i] = x
    OBVIOUS
  <2> QED BY <2>1, <2>2, Fun_IsBij
<1>2. ExistsBijection(1 .. n, S)
  BY <1>1 DEF ExistsBijection
<1>3. IsFiniteSet(1 .. n) /\ Cardinality(1 .. n) = n
  BY FS_Interval
<1> QED BY <1>2, <1>3, FS_Bijection

LEMMA CountStep ==
    InvokerTypeInv /\ InvokerTypeInv' /\ Count /\ [InvokerNext]_invokerVars
        => Count'
<1> SUFFICES ASSUME InvokerTypeInv, InvokerTypeInv', Count,
                    [InvokerNext]_invokerVars
             PROVE  Count'
  OBVIOUS
<1> USE DEF Goto
<1>0. ASSUME UNCHANGED pending_invocations, Closures' = Closures
      PROVE  Count'
  BY <1>0 DEF Count, PendingIsExact
<1>1. CASE UNCHANGED invokerVars
  <2>1. Closures' = Closures
    BY <1>1 DEF invokerVars, Closures
  <2> QED BY <1>0, <1>1, <2>1 DEF invokerVars
<1>2. ASSUME NEW t \in Threads, NEW u \in Threads, AsyncInvoke(t, u)
      PROVE  Count'
  <2> DEFINE new == <<t, "call", 0>>
  <2>1. /\ UNCHANGED <<queue, running>>
        /\ ~Calling(t) /\ Calling(t)'
        /\ \A v \in Threads \ {t} : Calling(v)' = Calling(v)
        /\ pending_invocations' = pending_invocations + 1
    BY <1>2 DEF AsyncInvoke, InvokerTypeInv, Calling
  <2>2. Closures' = Closures \cup {new}
    BY <2>1, InClosures, InClosuresNext DEF Queued, InFunctor, Called
  <2>3. new \notin Closures
    BY <2>1, InClosures DEF Queued, InFunctor, Called
  <2> QED BY <2>1, <2>2, <2>3, FS_AddElement DEF Count, PendingIsExact
<1>3. ASSUME NEW t \in Threads, DoInvoke(t) \/ Post(t) \/ Quit(t)
      PROVE  Count'
  <2>1. /\ UNCHANGED <<queue, running, pending_invocations>>
        /\ \A v \in Threads : Calling(v)' = Calling(v)
    BY <1>3 DEF DoInvoke, Post, Quit, InvokerTypeInv, Calling
  <2>2. Closures' = Closures
    BY <2>1, InClosures, InClosuresNext DEF Queued, InFunctor, Called
  <2> QED BY <1>0, <2>1, <2>2
<1>4. ASSUME NEW t \in Threads, Push(t)
      PROVE  Count'
  <2> DEFINE u == target[t]
             old == <<t, "call", 0>>
             new == <<u, "queue", queue[u] + 1>>
  <2>1. /\ UNCHANGED <<running, pending_invocations>>
        /\ u \in Threads /\ queue[u] \in Nat
        /\ queue'[u] = queue[u] + 1
        /\ \A v \in Threads \ {u} : queue'[v] = queue[v]
        /\ Calling(t) /\ ~Calling(t)'
        /\ \A v \in Threads \ {t} : Calling(v)' = Calling(v)
    BY <1>4 DEF Push, InvokerTypeInv, Calling, Back
  <2>2. Closures' = (Closures \ {old}) \cup {new}
    BY <2>1, InClosures, InClosuresNext DEF Queued, InFunctor, Called
  <2>3. old \in Closures /\ new \notin Closures
    BY <2>1, InClosures DEF Queued, InFunctor, Called
  <2> QED BY <2>1, <2>2, <2>3, Moved
<1>5. ASSUME NEW t \in Threads, OnMessage(t)
      PROVE  Count'
  <2> DEFINE old == <<t, "queue", queue[t]>>
             new == <<t, "functor", 0>>
  <2>1. /\ UNCHANGED pending_invocations
        /\ queue[t] \in Nat /\ queue[t] > 0 /\ queue'[t] = queue[t] - 1
        /\ \A v \in Threads \ {t} : queue'[v] = queue[v]
        /\ t \notin running /\ running' = running \cup {t}
        /\ \A v \in Threads : Calling(v)' = Calling(v)
    BY <1>5 DEF OnMessage, InvokerTypeInv, Calling
  <2>2. Closures' = (Closures \ {old}) \cup {new}
    BY <2>1, InClosures, InClosuresNext DEF Queued, InFunctor, Called
  <2>3. old \in Closures /\ new \notin Closures
    BY <2>1, InClosures DEF Queued, InFunctor, Called
  <2> QED BY <2>1, <2>2, <2>3, Moved
<1>6. ASSUME NEW t \in Threads, FunctorReturns(t)
      PROVE  Count'
  <2> DEFINE old == <<t, "functor", 0>>
             new == <<t, "call", 0>>
  <2>1. /\ UNCHANGED <<queue, pending_invocations>>
        /\ t \in running /\ running' = running \ {t}
        /\ ~Calling(t) /\ Calling(t)'
        /\ \A v \in Threads \ {t} : Calling(v)' = Calling(v)
    BY <1>6 DEF FunctorReturns, InvokerTypeInv, Calling
  <2>2. Closures' = (Closures \ {old}) \cup {new}
    BY <2>1, InClosures, InClosuresNext DEF Queued, InFunctor, Called
  <2>3. old \in Closures /\ new \notin Closures
    BY <2>1, InClosures DEF Queued, InFunctor, Called
  <2> QED BY <2>1, <2>2, <2>3, Moved
<1>7. ASSUME NEW t \in Threads, DestroyClosure(t)
      PROVE  Count'
  <2> DEFINE old == <<t, "call", 0>>
  <2>1. /\ UNCHANGED <<queue, running>>
        /\ Calling(t) /\ ~Calling(t)'
        /\ \A v \in Threads \ {t} : Calling(v)' = Calling(v)
        /\ pending_invocations' = pending_invocations - 1
    BY <1>7 DEF DestroyClosure, InvokerTypeInv, Calling
  <2>2. Closures' = Closures \ {old}
    BY <2>1, InClosures, InClosuresNext DEF Queued, InFunctor, Called
  <2>3. old \in Closures
    BY <2>1, InClosures DEF Queued, InFunctor, Called
  <2> QED BY <2>1, <2>2, <2>3, FS_RemoveElement DEF Count, PendingIsExact
<1>8. ASSUME NEW t \in Threads, SetEvent(t)
      PROVE  Count'
  <2>1. /\ UNCHANGED <<queue, running, pending_invocations>>
        /\ \A v \in Threads : Calling(v)' = Calling(v)
    BY <1>8 DEF SetEvent, Back, InvokerTypeInv, Calling
  <2>2. Closures' = Closures
    BY <2>1, InClosures, InClosuresNext DEF Queued, InFunctor, Called
  <2> QED BY <1>0, <2>1, <2>2
<1>9. CASE BeginDestroy \/ TestPending \/ Wait
  <2>1. /\ UNCHANGED <<queue, running, pending_invocations>>
        /\ \A v \in Threads : Calling(v)' = Calling(v)
    BY <1>9 DEF BeginDestroy, TestPending, Wait, InvokerTypeInv, Calling
  <2>2. Closures' = Closures
    BY <2>1, InClosures, InClosuresNext DEF Queued, InFunctor, Called
  <2> QED BY <1>0, <2>1, <2>2
<1>10. ASSUME NEW t \in Threads, ClearQueue(t), running' = running,
              \A v \in Threads : Calling(v)' = Calling(v)
       PROVE  Count'
  <2> DEFINE cleared == {<<t, "queue", i>> : i \in 1 .. queue[t]}
  <2>1. /\ queue[t] \in Nat /\ queue'[t] = 0
        /\ \A v \in Threads \ {t} : queue'[v] = queue[v]
        /\ pending_invocations' = pending_invocations - queue[t]
    BY <1>10 DEF ClearQueue, InvokerTypeInv
  <2>2. Closures' = Closures \ cleared
    BY <1>10, <2>1, InClosures, InClosuresNext DEF Queued, InFunctor, Called
  <2>3. Closures \cap cleared = cleared
    BY <2>1, InClosures DEF Queued
  <2>4. Cardinality(cleared) = queue[t]
    <3>1. queue[t] \in Nat
      BY <2>1
    <3> QED BY <3>1, QueueSize, Zenon
  <2> HIDE DEF cleared
  <2>5. IsFiniteSet(Closures \ cleared)
        /\ Cardinality(Closures \ cleared) = Cardinality(Closures) - queue[t]
    BY <2>3, <2>4, FS_Difference DEF Count
  <2> QED BY <2>1, <2>2, <2>5 DEF Count, PendingIsExact
<1>11. CASE ClearNext
  <2>1. PICK t \in uncleared : ClearQueue(t)
    BY <1>11 DEF ClearNext
  <2>2. t \in Threads /\ running' = running
        /\ \A v \in Threads : Calling(v)' = Calling(v)
    BY <1>11 DEF ClearNext, InvokerTypeInv, Calling
  <2> QED BY <1>10, <2>1, <2>2
<1>12. CASE ClearOwn
  <2>1. running' = running /\ \A v \in Threads : Calling(v)' = Calling(v)
    BY <1>12 DEF ClearOwn, InvokerTypeInv, Calling
  <2> QED BY <1>10, <1>12, <2>1, OwnerAssumption DEF ClearOwn
<1> QED
  BY <1>1, <1>2, <1>3, <1>4, <1>5, <1>6, <1>7, <1>8, <1>9, <1>11, <1>12
  DEF InvokerNext, Step, Destructor

LEMMA CountHolds == InvokerSpec => []Count
<1>1. InvokerInit => Count
  <2> SUFFICES ASSUME InvokerInit
               PROVE  Count
    OBVIOUS
  <2>1. \A x : ~Queued(x) /\ ~InFunctor(x) /\ ~Called(x)
    BY DEF InvokerInit, Queued, InFunctor, Called, Calling
  <2>2. Closures = {}
    BY <2>1, InClosures
  <2> QED BY <2>2, FS_EmptySet DEF Count, PendingIsExact, InvokerInit
<1> QED BY <1>1, InvokerTypeInvHolds, CountStep, PTL DEF InvokerSpec

(* pending_invocations_ (async_invoker.h) is exactly the number of         *)
(* AsyncClosures alive, however many threads invoke, run and clear.        *)
THEOREM ClosuresAreCounted == InvokerSpec => []PendingIsExact
<1>1. Count => PendingIsExact
  BY DEF Count
<1> QED BY <1>1, CountHolds, PTL

-----------------------------------------------------------------------------
(* The destructor.                                                         *)

LEMMA NoClosures ==
    ASSUME InvokerTypeInv, Count, pending_invocations = 0, NEW t \in Threads
    PROVE  queue[t] = 0 /\ pc[t] \notin {"functor", "check", "post", "push", "drop"}
<1>1. Closures = {}
  BY FS_EmptySet DEF Count, PendingIsExact
<1>2. \A x : ~Queued(x) /\ ~InFunctor(x) /\ ~Called(x)
  BY <1>1, InClosures
<1>3. ~Queued(<<t, "queue", queue[t]>>) /\ queue[t] \in Nat
  BY <1>2 DEF InvokerTypeInv
<1>4. queue[t] = 0
  BY <1>3 DEF Queued
<1>5. ~InFunctor(<<t, "functor", 0>>) /\ ~Called(<<t, "call", 0>>)
  BY <1>2
<1> QED BY <1>4, <1>5 DEF InFunctor, Called, Calling, InvokerTypeInv

DoneInv == pc[Owner] = "destroyed" => pending_invocations = 0

LEMMA DoneStep ==
    InvokerTypeInv /\ Count /\ DoneInv /\ [InvokerNext]_invokerVars => DoneInv'
<1> SUFFICES ASSUME InvokerTypeInv, Count, DoneInv, [InvokerNext]_invokerVars,
                    pc'[Owner] = "destroyed"
             PROVE  pending_invocations' = 0
  BY DEF DoneInv
<1>1. CASE pc[Owner] = "destroyed"
  <2>1. \A t \in Threads :
            /\ queue[t] = 0
            /\ pc[t] \notin {"functor", "check", "post", "push", "drop"}
    BY <1>1, NoClosures DEF DoneInv
  <2>2. pending_invocations' = pending_invocations
    BY <1>1, <2>1, OwnerAssumption
    DEF InvokerNext, Step, Destructor, AsyncInvoke, DoInvoke, Post, Push, Quit,
        OnMessage, FunctorReturns, DestroyClosure, SetEvent, BeginDestroy,
        ClearNext, TestPending, ClearOwn, Wait, invokerVars
  <2> QED BY <1>1, <2>2 DEF DoneInv
<1>2. CASE pc[Owner] # "destroyed"
  <2>1. TestPending
    BY <1>2, OwnerAssumption
    DEF InvokerNext, Step, Destructor, AsyncInvoke, DoInvoke, Post, Push, Quit,
        OnMessage, FunctorReturns, DestroyClosure, SetEvent, BeginDestroy,
        ClearNext, ClearOwn, Wait, Goto, Back, InvokerTypeInv, invokerVars
  <2>2. ~(pending_invocations > 0) /\ UNCHANGED pending_invocations
    BY <2>1, OwnerAssumption DEF TestPending, Goto, InvokerTypeInv
  <2>3. pending_invocations \in Nat
    BY FS_CardinalityType DEF Count, PendingIsExact
  <2> QED BY <2>2, <2>3
<1> QED BY <1>1, <1>2

(* After ~AsyncInvoker (async_invoker.cc) nothing refers to the invoker:   *)
(* no message in a queue, no functor, no call of AsyncInvoke.              *)
THEOREM NothingOutlivesTheInvoker == InvokerSpec => []NoUseAfterDestruction
<1>1. InvokerInit => DoneInv
  BY OwnerAssumption DEF InvokerInit, DoneInv
<1>2. InvokerTypeInv /\ Count /\ DoneInv => NoUseAfterDestruction
  BY NoClosures
  DEF DoneInv, NoUseAfterDestruction, InvokerTypeInv, Loop, Destroying
<1> QED BY <1>1, <1>2, InvokerTypeInvHolds, CountHolds, DoneStep, PTL
    DEF InvokerSpec

=============================================================================

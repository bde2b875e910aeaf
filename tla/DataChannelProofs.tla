-------------------------- MODULE DataChannelProofs --------------------------
(***************************************************************************)
(* The data channel, for every bound on its queues and on what the         *)
(* application, the transport and the peer do.  The invariant is about the *)
(* channel's record: every method of ChannelObject keeps it, so every      *)
(* handler of DataChannel does.  The last part shows that the channel      *)
(* keeps its contract: what each method does is a step of ChannelContract, *)
(* or none.                                                                *)
(***************************************************************************)
EXTENDS DataChannel, SequenceTheorems, TLAPS

States == {"connecting", "open", "closing", "closed"}

Handshakes == {"ShouldSendOpen", "ShouldSendAck", "WaitingForAck", "Ready"}

Sent == [id : Nat, ordered : BOOLEAN]

Messages == Seq(Nat)
SentMessages == Seq(Sent)
Amount == Int

Channel ==
    [role : Roles, ordered : BOOLEAN, state : States, handshake : Handshakes,
     connected : BOOLEAN, writable : BOOLEAN, observer : BOOLEAN,
     sid : BOOLEAN, started : BOOLEAN, control : Nat, send : Messages,
     recv : Messages, buffered : Amount, error : BOOLEAN, controls : Nat,
     sent : SentMessages, delivered : Messages, blocked : BOOLEAN]

LEMMA Nothing == <<>> \in Messages /\ <<>> \in SentMessages /\ 0 \in Amount
BY DEF Messages, SentMessages, Amount

(* The fields the arguments are about.                                     *)
LEMMA Fields ==
    ASSUME NEW c \in Channel
    PROVE  /\ c.state \in States /\ c.handshake \in Handshakes
           /\ c.send \in Seq(Nat) /\ c.recv \in Seq(Nat)
           /\ c.delivered \in Seq(Nat) /\ c.sent \in Seq(Sent)
           /\ c.buffered \in Int /\ c.control \in Nat /\ c.controls \in Nat
BY DEF Channel, Messages, SentMessages, Amount

-----------------------------------------------------------------------------
(* Sequences of messages.                                                  *)

(* Element by element, what a concatenation is.                            *)
LEMMA Concatenated ==
    ASSUME NEW S, NEW a \in Seq(S), NEW b \in Seq(S)
    PROVE  /\ a \o b \in Seq(S)
           /\ Len(a) \in Nat /\ Len(b) \in Nat
           /\ Len(a \o b) = Len(a) + Len(b)
           /\ \A i \in 1 .. Len(a) : (a \o b)[i] = a[i]
           /\ \A i \in 1 .. Len(b) : (a \o b)[Len(a) + i] = b[i]
<1>1. Len(a) \in Nat /\ Len(b) \in Nat
  BY LenProperties
<1>2. /\ a \o b \in Seq(S)
      /\ Len(a \o b) = Len(a) + Len(b)
      /\ \A i \in 1 .. Len(a) + Len(b) :
             (a \o b)[i] = IF i <= Len(a) THEN a[i] ELSE b[i - Len(a)]
  BY ConcatProperties
<1>3. ASSUME NEW i \in 1 .. Len(a)
      PROVE  (a \o b)[i] = a[i]
  <2>1. i \in 1 .. Len(a) + Len(b) /\ i <= Len(a)
    BY <1>1
  <2> QED BY <1>2, <2>1
<1>4. ASSUME NEW i \in 1 .. Len(b)
      PROVE  (a \o b)[Len(a) + i] = b[i]
  <2> DEFINE j == Len(a) + i
  <2>1. j \in 1 .. Len(a) + Len(b) /\ ~(j <= Len(a)) /\ j - Len(a) = i
    BY <1>1
  <2> HIDE DEF j
  <2>2. (a \o b)[j] = b[i]
    BY <1>2, <2>1
  <2> QED BY <2>2 DEF j
<1> QED BY <1>1, <1>2, <1>3, <1>4

(* Two runs of numbers that meet make one.                                 *)
LEMMA NumbersJoined ==
    ASSUME NEW a \in Seq(Nat), NEW b \in Seq(Nat),
           \A i \in 1 .. Len(a) : a[i] = i,
           \A i \in 1 .. Len(b) : b[i] = Len(a) + i
    PROVE  /\ a \o b \in Seq(Nat) /\ Len(a \o b) = Len(a) + Len(b)
           /\ \A i \in 1 .. Len(a \o b) : (a \o b)[i] = i
           /\ a \o b = Numbers(Len(a) + Len(b))
<1> DEFINE m == Len(a)
           n == Len(b)
           ab == a \o b
<1>1. /\ ab \in Seq(Nat) /\ m \in Nat /\ n \in Nat /\ Len(ab) = m + n
      /\ \A i \in 1 .. m : ab[i] = i
      /\ \A i \in 1 .. n : ab[m + i] = m + i
  BY Concatenated
<1> HIDE DEF m, n, ab
<1>2. ASSUME NEW i \in 1 .. m + n
      PROVE  ab[i] = i
  <2>1. CASE i \in 1 .. m
    BY <1>1, <2>1
  <2>2. CASE i \notin 1 .. m
    <3>1. i - m \in 1 .. n /\ m + (i - m) = i
      BY <1>1, <2>2
    <3> QED BY <1>1, <3>1
  <2> QED BY <2>1, <2>2
<1>3. ab = Numbers(m + n)
  <2>1. ab = [i \in 1 .. Len(ab) |-> ab[i]]
    BY <1>1, LenProperties
  <2> QED BY <1>1, <1>2, <2>1 DEF Numbers
<1> QED BY <1>1, <1>2, <1>3 DEF m, n, ab

(* The ids of the sent messages, and the queue after them, count up.       *)
Numbered(sent, send) ==
    /\ \A i \in 1 .. Len(sent) : sent[i].id = i
    /\ \A i \in 1 .. Len(send) : send[i] = Len(sent) + i

Total(sent, send) == Len(sent) + Len(send)

(* The first k messages of a queue, as they are sent, and the others.      *)
Taken(q, k, o) == [i \in 1 .. k |-> [id |-> q[i], ordered |-> o]]

Remaining(q, k) == SubSeq(q, k + 1, Len(q))

LEMMA TakenProperties ==
    ASSUME NEW q \in Seq(Nat), NEW k \in Nat, k <= Len(q), NEW o \in BOOLEAN
    PROVE  /\ Taken(q, k, o) \in Seq(Sent) /\ Len(Taken(q, k, o)) = k
           /\ \A i \in 1 .. k : /\ Taken(q, k, o)[i].id = q[i]
                                /\ Taken(q, k, o)[i].ordered = o
<1> DEFINE new == Taken(q, k, o)
<1>1. Len(q) \in Nat /\ \A i \in 1 .. Len(q) : q[i] \in Nat
  BY LenProperties
<1>2. \A i \in 1 .. k : [id |-> q[i], ordered |-> o] \in Sent
  BY <1>1 DEF Sent
<1>3. new \in Seq(Sent)
  BY <1>2, IsASeq DEF Taken
<1>4. DOMAIN new = 1 .. k
  BY DEF Taken
<1>5. DOMAIN new = 1 .. Len(new) /\ Len(new) \in Nat
  BY <1>3, LenProperties
<1>6. \A i \in 1 .. k : new[i].id = q[i] /\ new[i].ordered = o
  BY DEF Taken
<1> HIDE DEF new
<1>7. Len(new) = k
  BY <1>4, <1>5
<1> QED BY <1>3, <1>6, <1>7 DEF new

LEMMA RemainingProperties ==
    ASSUME NEW q \in Seq(Nat), NEW k \in Nat, k <= Len(q)
    PROVE  /\ Remaining(q, k) \in Seq(Nat)
           /\ Len(Remaining(q, k)) = Len(q) - k
           /\ \A i \in 1 .. Len(Remaining(q, k)) :
                  Remaining(q, k)[i] = q[k + i]
<1> DEFINE rest == Remaining(q, k)
<1>1. Len(q) \in Nat /\ \A i \in 1 .. Len(q) : q[i] \in Nat
  BY LenProperties
<1>2. /\ rest \in Seq(Nat)
      /\ Len(rest) = IF k + 1 <= Len(q) THEN Len(q) - (k + 1) + 1 ELSE 0
      /\ \A i \in 1 .. Len(q) - (k + 1) + 1 : rest[i] = q[(k + 1) + i - 1]
  <2>1. \A i \in k + 1 .. Len(q) : q[i] \in Nat
    BY <1>1
  <2>2. k + 1 \in Int /\ Len(q) \in Int
    BY <1>1
  <2> QED BY <2>1, <2>2, SubSeqProperties DEF Remaining
<1> HIDE DEF rest
<1>3. Len(rest) = Len(q) - k
  BY <1>1, <1>2
<1>4. ASSUME NEW i \in 1 .. Len(rest)
      PROVE  rest[i] = q[k + i]
  <2>1. i \in 1 .. Len(q) - (k + 1) + 1 /\ (k + 1) + i - 1 = k + i
    BY <1>1, <1>3
  <2> QED BY <1>2, <2>1
<1> QED BY <1>2, <1>3, <1>4 DEF rest

(* What is true of the messages sent and left when the first k queued ones *)
(* are sent: the numbering goes on.                                        *)
Continues(sent, q, k, o, done, rest) ==
    /\ done \in SentMessages /\ rest \in Seq(Nat)
    /\ Len(sent) \in Nat /\ Len(q) \in Nat
    /\ Len(done) = Len(sent) + k /\ Len(rest) = Len(q) - k
    /\ Numbered(done, rest) /\ Total(done, rest) = Total(sent, q)
    /\ \A i \in 1 .. Len(done) :
           (i \in 1 .. Len(sent) /\ done[i] = sent[i]) \/ done[i].ordered = o
    /\ done # <<>> \/ rest # <<>> => sent # <<>> \/ q # <<>>

LEMMA Moved ==
    ASSUME NEW sent \in SentMessages, NEW q \in Seq(Nat), NEW k \in Nat,
           k <= Len(q), NEW o \in BOOLEAN, Numbered(sent, q),
           NEW done, done = sent \o Taken(q, k, o),
           NEW rest, rest = Remaining(q, k)
    PROVE  Continues(sent, q, k, o, done, rest)
<1> DEFINE new == Taken(q, k, o)
<1>1. /\ new \in Seq(Sent) /\ Len(new) = k
      /\ \A i \in 1 .. k : new[i].id = q[i] /\ new[i].ordered = o
  BY TakenProperties
<1>2. /\ rest \in Seq(Nat) /\ Len(rest) = Len(q) - k
      /\ \A i \in 1 .. Len(rest) : rest[i] = q[k + i]
  BY RemainingProperties
<1>3. done = sent \o new
  OBVIOUS
<1> HIDE DEF new
<1>4. /\ done \in Seq(Sent) /\ Len(sent) \in Nat
      /\ Len(done) = Len(sent) + k
      /\ \A i \in 1 .. Len(sent) : done[i] = sent[i]
      /\ \A i \in 1 .. k : done[Len(sent) + i] = new[i]
  <2> DEFINE S == Sent
  <2>1. sent \in Seq(S) /\ new \in Seq(S)
    BY <1>1 DEF SentMessages
  <2> HIDE DEF S
  <2>2. /\ sent \o new \in Seq(S)
        /\ Len(sent) \in Nat /\ Len(new) \in Nat
        /\ Len(sent \o new) = Len(sent) + Len(new)
        /\ \A i \in 1 .. Len(sent) : (sent \o new)[i] = sent[i]
        /\ \A i \in 1 .. Len(new) : (sent \o new)[Len(sent) + i] = new[i]
    BY <2>1, Concatenated
  <2>3. done \in Seq(Sent)
    BY <1>3, <2>2 DEF S
  <2> QED BY <1>1, <1>3, <2>2, <2>3
<1>5. Len(q) \in Nat
  BY LenProperties
<1>6. /\ \A i \in 1 .. Len(sent) : sent[i].id = i
      /\ \A i \in 1 .. Len(q) : q[i] = Len(sent) + i
  BY DEF Numbered
<1>7. ASSUME NEW i \in 1 .. Len(done)
      PROVE  \/ i \in 1 .. Len(sent) /\ done[i] = sent[i] /\ done[i].id = i
             \/ done[i].ordered = o /\ done[i].id = i
  <2>1. CASE i \in 1 .. Len(sent)
    BY <1>4, <1>6, <2>1
  <2>2. CASE i \notin 1 .. Len(sent)
    <3> DEFINE j == i - Len(sent)
    <3>1. j \in 1 .. k /\ j \in 1 .. Len(q) /\ Len(sent) + j = i
      BY <1>4, <1>5, <2>2
    <3> HIDE DEF j
    <3> QED BY <1>1, <1>4, <1>6, <3>1
  <2> QED BY <2>1, <2>2
<1>8. ASSUME NEW i \in 1 .. Len(rest)
      PROVE  rest[i] = Len(done) + i
  <2>1. k + i \in 1 .. Len(q)
    BY <1>2, <1>5
  <2>2. rest[i] = Len(sent) + (k + i)
    BY <1>2, <1>6, <2>1
  <2> QED BY <1>4, <2>2
<1>9. Total(done, rest) = Total(sent, q)
  BY <1>2, <1>4, <1>5 DEF Total
<1>10. done # <<>> \/ rest # <<>> => sent # <<>> \/ q # <<>>
  BY <1>2, <1>4, <1>5, EmptySeq
<1>11. done \in SentMessages
  BY <1>4 DEF SentMessages
<1> QED BY <1>11, <1>2, <1>4, <1>5, <1>7, <1>8, <1>9, <1>10
    DEF Numbered, Continues

-----------------------------------------------------------------------------
(* The invariant of the record.                                            *)

(* A closed channel hears nothing of the transport any more, and while it  *)
(* is not closed, buffered_amount_ covers what is queued.                  *)
LifePart(c) ==
    /\ c.state = "closed" => ~c.connected
    /\ c.state # "closed" => Len(c.send) <= c.buffered

(* Received messages are delivered in order: nothing waits in the queue    *)
(* when one may be delivered directly.                                     *)
RecvPart(c, got) ==
    /\ c.state = "open" /\ c.observer => c.recv = <<>>
    /\ \A i \in 1 .. Len(c.delivered) : c.delivered[i] = i
    /\ \A i \in 1 .. Len(c.recv) : c.recv[i] = Len(c.delivered) + i
    /\ c.state # "closed" => Total(c.delivered, c.recv) = got

(* The queue goes on where the sent messages end, and up to the last one   *)
(* accepted unless the channel gave up messages.                           *)
SendPart(c, acc, peer) ==
    /\ Numbered(c.sent, c.send)
    /\ c.state \in {"connecting", "open"} \/ (c.state = "closing" /\ ~peer) =>
           Total(c.sent, c.send) = acc

(* The opener's handshake: the OPEN message is out before there is data,   *)
(* and the handshake is not done before the peer was heard.                *)
OpenPart(c, h) ==
    c.role = "opener" =>
        /\ c.handshake # "ShouldSendAck"
        /\ c.handshake # "ShouldSendOpen" => c.controls > 0
        /\ c.state = "open" \/ c.send # <<>> \/ c.sent # <<>> =>
               c.handshake # "ShouldSendOpen"
        /\ c.handshake = "Ready" => h
        /\ (\E i \in 1 .. Len(c.sent) : ~c.sent[i].ordered) => h

ChannelInv(c, acc, peer, h, got) ==
    /\ c \in Channel
    /\ LifePart(c) /\ RecvPart(c, got)
    /\ SendPart(c, acc, peer) /\ OpenPart(c, h)

-----------------------------------------------------------------------------
(* The methods keep it.                                                    *)

(* A method that leaves the messages alone.                                *)
LEMMA SameMessages ==
    ASSUME NEW c, NEW d, NEW acc, NEW peer, NEW h, NEW got,
           ChannelInv(c, acc, peer, h, got), d \in Channel,
           d.role = c.role, d.handshake = c.handshake,
           d.controls = c.controls, d.observer = c.observer,
           d.send = c.send, d.recv = c.recv, d.buffered = c.buffered,
           d.sent = c.sent, d.delivered = c.delivered,
           d.state = "closed" => ~d.connected,
           \/ d.state = c.state
           \/ d.state = "closing" /\ c.state # "closed"
           \/ d.state = "closed"
    PROVE  ChannelInv(d, acc, peer, h, got)
<1>1. LifePart(d)
  BY DEF ChannelInv, LifePart
<1>2. RecvPart(d, got)
  BY DEF ChannelInv, RecvPart
<1>3. SendPart(d, acc, peer)
  <2>1. c.state \in States
    BY Fields DEF ChannelInv
  <2> QED BY <2>1 DEF ChannelInv, SendPart, States
<1>4. OpenPart(d, h)
  BY DEF ChannelInv, OpenPart
<1> QED BY <1>1, <1>2, <1>3, <1>4 DEF ChannelInv

LEMMA CloseAbruptlyKeeps ==
    ASSUME NEW c, NEW acc, NEW peer, NEW h, NEW got,
           ChannelInv(c, acc, peer, h, got)
    PROVE  /\ ChannelInv(CloseAbruptly(c), acc, peer, h, got)
           /\ CloseAbruptly(c).state = "closed"
           /\ ~CloseAbruptly(c).connected
           /\ CloseAbruptly(c).handshake = c.handshake
<1>1. CASE c.state = "closed"
  BY <1>1 DEF CloseAbruptly, ChannelInv, LifePart
<1>2. CASE c.state # "closed"
  <2> DEFINE d == CloseAbruptly(c)
  <2>1. d = [c EXCEPT !.connected = FALSE, !.send = <<>>, !.buffered = 0,
                      !.control = 0, !.error = TRUE, !.state = "closed"]
    BY <1>2 DEF CloseAbruptly
  <2>2. c \in Channel
    BY DEF ChannelInv
  <2>8. d \in Channel
    <3>1. "closed" \in States
      BY DEF States
    <3>2. \A v \in Messages, a \in Amount, e \in States :
              [c EXCEPT !.connected = FALSE, !.send = v, !.buffered = a,
                        !.control = 0, !.error = TRUE, !.state = e] \in Channel
      BY <2>2 DEF Channel
    <3>3. [c EXCEPT !.connected = FALSE, !.send = <<>>, !.buffered = 0,
                    !.control = 0, !.error = TRUE, !.state = "closed"]
              \in Channel
      BY <3>1, <3>2, Nothing
    <3> HIDE DEF d
    <3> QED BY <2>1, <3>3
  <2>3. /\ d.state = "closed" /\ d.connected = FALSE /\ d.send = <<>>
        /\ d.role = c.role /\ d.handshake = c.handshake
        /\ d.controls = c.controls /\ d.observer = c.observer
        /\ d.recv = c.recv /\ d.sent = c.sent /\ d.delivered = c.delivered
    BY <2>1, <2>2 DEF Channel, States
  <2> HIDE DEF d
  <2>4. LifePart(d)
    BY <2>3 DEF LifePart
  <2>5. RecvPart(d, got)
    BY <2>3 DEF ChannelInv, RecvPart
  <2>6. SendPart(d, acc, peer)
    BY <2>3 DEF ChannelInv, SendPart, Numbered
  <2>7. OpenPart(d, h)
    BY <2>3 DEF ChannelInv, OpenPart
  <2> QED BY <2>3, <2>4, <2>5, <2>6, <2>7, <2>8 DEF ChannelInv, d
<1> QED BY <1>1, <1>2

(* Updates of single fields.                                               *)
LEMMA Updates ==
    ASSUME NEW c \in Channel
    PROVE  /\ \A v \in Messages : [c EXCEPT !.send = v] \in Channel
           /\ \A v \in Nat : [c EXCEPT !.control = v] \in Channel
           /\ \A v \in Amount : [c EXCEPT !.buffered = v] \in Channel
           /\ \A v \in States : [c EXCEPT !.state = v] \in Channel
           /\ \A v \in BOOLEAN : [c EXCEPT !.blocked = v] \in Channel
           /\ \A v \in BOOLEAN : [c EXCEPT !.started = v] \in Channel
           /\ \A v \in BOOLEAN : [c EXCEPT !.writable = v] \in Channel
           /\ \A v \in BOOLEAN : [c EXCEPT !.observer = v] \in Channel
<1>1. \A v \in Messages : [c EXCEPT !.send = v] \in Channel
  BY DEF Channel
<1>2. \A v \in Nat : [c EXCEPT !.control = v] \in Channel
  BY DEF Channel
<1>3. \A v \in Amount : [c EXCEPT !.buffered = v] \in Channel
  BY DEF Channel
<1>4. \A v \in States : [c EXCEPT !.state = v] \in Channel
  BY DEF Channel
<1>5. \A v \in BOOLEAN : [c EXCEPT !.blocked = v] \in Channel
  BY DEF Channel
<1>6. \A v \in BOOLEAN : [c EXCEPT !.started = v] \in Channel
  BY DEF Channel
<1>7. \A v \in BOOLEAN : [c EXCEPT !.writable = v] \in Channel
  BY DEF Channel
<1>8. \A v \in BOOLEAN : [c EXCEPT !.observer = v] \in Channel
  BY DEF Channel
<1> QED BY <1>1, <1>2, <1>3, <1>4, <1>5, <1>6, <1>7, <1>8

LEMMA DeliverKeeps ==
    ASSUME NEW c, NEW acc, NEW peer, NEW h, NEW got,
           c \in Channel, LifePart(c), SendPart(c, acc, peer), OpenPart(c, h),
           \A i \in 1 .. Len(c.delivered) : c.delivered[i] = i,
           \A i \in 1 .. Len(c.recv) : c.recv[i] = Len(c.delivered) + i,
           c.state # "closed" => Total(c.delivered, c.recv) = got
    PROVE  /\ ChannelInv(DeliverQueuedReceivedData(c), acc, peer, h, got)
           /\ DeliverQueuedReceivedData(c).state = c.state
           /\ DeliverQueuedReceivedData(c).connected = c.connected
           /\ DeliverQueuedReceivedData(c).send = c.send
           /\ DeliverQueuedReceivedData(c).control = c.control
           /\ DeliverQueuedReceivedData(c).blocked = c.blocked
<1>1. CASE ~c.observer
  BY <1>1 DEF DeliverQueuedReceivedData, ChannelInv, RecvPart
<1>2. CASE c.observer
  <2> DEFINE all == c.delivered \o c.recv
             d == [c EXCEPT !.delivered = all, !.recv = <<>>]
  <2>1. DeliverQueuedReceivedData(c) = d
    BY <1>2 DEF DeliverQueuedReceivedData
  <2>2. c.delivered \in Seq(Nat) /\ c.recv \in Seq(Nat)
    BY Fields
  <2>3. /\ all \in Seq(Nat)
        /\ \A i \in 1 .. Len(all) : all[i] = i
        /\ Total(all, <<>>) = Total(c.delivered, c.recv)
    <3> DEFINE a == c.delivered
               b == c.recv
    <3>1. /\ a \in Seq(Nat) /\ b \in Seq(Nat)
          /\ \A i \in 1 .. Len(a) : a[i] = i
          /\ \A i \in 1 .. Len(b) : b[i] = Len(a) + i
      BY <2>2
    <3> HIDE DEF a, b
    <3>2. /\ a \o b \in Seq(Nat) /\ Len(a \o b) = Len(a) + Len(b)
          /\ \A i \in 1 .. Len(a \o b) : (a \o b)[i] = i
      BY <3>1, NumbersJoined
    <3>3. Len(a) \in Nat /\ Len(b) \in Nat
      BY <3>1, LenProperties
    <3>4. Total(a \o b, <<>>) = Total(a, b)
      BY <3>2, <3>3 DEF Total
    <3> QED BY <3>2, <3>4 DEF a, b
  <2>4. all \in Messages
    BY <2>3 DEF Messages
  <2> HIDE DEF all
  <2>5. d \in Channel
    <3>1. \A v \in Messages, w \in Messages :
              [c EXCEPT !.delivered = v, !.recv = w] \in Channel
      BY DEF Channel
    <3> QED BY <2>4, <3>1, Nothing
  <2>6. /\ d.delivered = all /\ d.recv = <<>>
        /\ d.role = c.role /\ d.handshake = c.handshake /\ d.state = c.state
        /\ d.connected = c.connected /\ d.controls = c.controls
        /\ d.send = c.send /\ d.sent = c.sent /\ d.buffered = c.buffered
        /\ d.control = c.control /\ d.blocked = c.blocked
    BY DEF Channel
  <2> HIDE DEF d
  <2>7. LifePart(d)
    BY <2>6 DEF LifePart
  <2>8. SendPart(d, acc, peer)
    BY <2>6 DEF SendPart
  <2>9. OpenPart(d, h)
    BY <2>6 DEF OpenPart
  <2>10. RecvPart(d, got)
    <3>1. 1 .. Len(d.recv) = {}
      BY <2>6
    <3> QED BY <2>3, <2>6, <3>1 DEF RecvPart
  <2> QED BY <2>1, <2>5, <2>6, <2>7, <2>8, <2>9, <2>10 DEF ChannelInv
<1> QED BY <1>1, <1>2

LEMMA ControlSentKeeps ==
    ASSUME NEW c, NEW acc, NEW peer, NEW h, NEW got,
           ChannelInv(c, acc, peer, h, got),
           NEW n \in Nat
    PROVE  /\ ChannelInv(ControlSent(c, n), acc, peer, h, got)
           /\ ControlSent(c, n).state = c.state
           /\ ControlSent(c, n).connected = c.connected
           /\ ControlSent(c, n).control = c.control
           /\ ControlSent(c, n).blocked = c.blocked
           /\ ControlSent(c, n).send = c.send
<1>1. CASE n = 0
  BY <1>1 DEF ControlSent
<1>2. CASE n # 0
  <2> DEFINE next == NextHandshake[c.handshake]
             d == [c EXCEPT !.controls = c.controls + n, !.handshake = next]
  <2>1. ControlSent(c, n) = d
    BY <1>2 DEF ControlSent
  <2>2. c \in Channel /\ c.handshake \in Handshakes /\ c.controls \in Nat
    BY Fields DEF ChannelInv
  <2>3. /\ next \in Handshakes
        /\ next \notin {"ShouldSendOpen", "ShouldSendAck"}
        /\ next = "Ready" => c.handshake \in {"Ready", "ShouldSendAck"}
    BY <2>2 DEF NextHandshake, Handshakes
  <2> HIDE DEF next
  <2>4. d \in Channel
    <3>1. \A v \in Nat, w \in Handshakes :
              [c EXCEPT !.controls = v, !.handshake = w] \in Channel
      BY <2>2 DEF Channel
    <3>2. c.controls + n \in Nat
      BY <2>2
    <3> QED BY <2>3, <3>1, <3>2
  <2>5. /\ d.controls = c.controls + n /\ d.handshake = next
        /\ d.role = c.role /\ d.state = c.state /\ d.observer = c.observer
        /\ d.connected = c.connected /\ d.control = c.control
        /\ d.blocked = c.blocked /\ d.recv = c.recv
        /\ d.delivered = c.delivered
        /\ d.send = c.send /\ d.sent = c.sent /\ d.buffered = c.buffered
    BY <2>2 DEF Channel
  <2> HIDE DEF d
  <2>6. LifePart(d)
    BY <2>5 DEF LifePart, ChannelInv
  <2>7. SendPart(d, acc, peer)
    BY <2>5 DEF SendPart, ChannelInv
  <2>8. OpenPart(d, h)
    BY <1>2, <2>2, <2>3, <2>5 DEF OpenPart, ChannelInv
  <2>9. RecvPart(d, got)
    BY <2>5 DEF RecvPart, ChannelInv
  <2> QED BY <2>1, <2>4, <2>5, <2>6, <2>7, <2>8, <2>9 DEF ChannelInv
<1> QED BY <1>1, <1>2

LEMMA ControlBlockedKeeps ==
    ASSUME NEW c, NEW acc, NEW peer, NEW h, NEW got,
           ChannelInv(c, acc, peer, h, got),
           NEW n \in Nat
    PROVE  /\ ChannelInv(ControlBlocked(c, n), acc, peer, h, got)
           /\ ControlBlocked(c, n).state = c.state
           /\ ControlBlocked(c, n).handshake = c.handshake
           /\ ControlBlocked(c, n).connected = c.connected
           /\ \/ ControlBlocked(c, n).blocked
              \/ /\ ControlBlocked(c, n).blocked = c.blocked
                 /\ ControlBlocked(c, n).control = c.control
                 /\ ControlBlocked(c, n).send = c.send
<1>1. CASE n = 0
  BY <1>1 DEF ControlBlocked
<1>2. CASE n # 0
  <2> DEFINE d == [c EXCEPT !.control = c.control + n, !.blocked = TRUE]
  <2>1. ControlBlocked(c, n) = d
    BY <1>2 DEF ControlBlocked
  <2>2. c \in Channel /\ c.control \in Nat
    BY Fields DEF ChannelInv
  <2>3. d \in Channel
    <3>1. \A v \in Nat, w \in BOOLEAN :
              [c EXCEPT !.control = v, !.blocked = w] \in Channel
      BY <2>2 DEF Channel
    <3>2. c.control + n \in Nat
      BY <2>2
    <3> QED BY <3>1, <3>2
  <2>4. /\ d.role = c.role /\ d.handshake = c.handshake
        /\ d.controls = c.controls /\ d.observer = c.observer
        /\ d.send = c.send /\ d.recv = c.recv /\ d.buffered = c.buffered
        /\ d.sent = c.sent /\ d.delivered = c.delivered
        /\ d.state = c.state /\ d.connected = c.connected /\ d.blocked = TRUE
    BY <2>2 DEF Channel
  <2> HIDE DEF d
  <2>5. ChannelInv(d, acc, peer, h, got)
    <3>1. d.state = "closed" => ~d.connected
      BY <2>4 DEF ChannelInv, LifePart
    <3> QED BY <2>3, <2>4, <3>1, SameMessages
  <2> QED BY <2>1, <2>4, <2>5
<1> QED BY <1>1, <1>2

LEMMA DataSentKeeps ==
    ASSUME NEW c, NEW acc, NEW peer, NEW h, NEW got,
           ChannelInv(c, acc, peer, h, got),
           NEW k \in Nat, k <= Len(c.send)
    PROVE  /\ ChannelInv(DataSent(c, k), acc, peer, h, got)
           /\ DataSent(c, k).state = c.state
           /\ DataSent(c, k).connected = c.connected
           /\ DataSent(c, k).control = c.control
           /\ DataSent(c, k).blocked = c.blocked
           /\ Len(DataSent(c, k).send) = Len(c.send) - k
<1> DEFINE o == c.ordered \/ c.handshake # "Ready"
           done == c.sent \o Taken(c.send, k, o)
           rest == Remaining(c.send, k)
           d == [c EXCEPT !.sent = done, !.send = rest,
                          !.buffered = c.buffered - k]
<1>1. DataSent(c, k) = d
  BY DEF DataSent, Taken, Remaining
<1>2. /\ c \in Channel /\ c.send \in Seq(Nat) /\ c.sent \in SentMessages
      /\ c.buffered \in Int /\ c.ordered \in BOOLEAN
  BY Fields DEF ChannelInv, Channel
<1>3. o \in BOOLEAN
  BY <1>2
<1>4. o = FALSE => c.handshake = "Ready"
  BY <1>3, Zenon
<1>5. done = c.sent \o Taken(c.send, k, o) /\ rest = Remaining(c.send, k)
  OBVIOUS
<1>6. Numbered(c.sent, c.send)
  BY DEF ChannelInv, SendPart
<1> HIDE DEF o, done, rest
<1>7. /\ done \in SentMessages /\ rest \in Seq(Nat) /\ Len(c.send) \in Nat
      /\ Len(rest) = Len(c.send) - k
      /\ Numbered(done, rest) /\ Total(done, rest) = Total(c.sent, c.send)
      /\ \A i \in 1 .. Len(done) :
             (i \in 1 .. Len(c.sent) /\ done[i] = c.sent[i])
                 \/ done[i].ordered = o
      /\ done # <<>> \/ rest # <<>> => c.sent # <<>> \/ c.send # <<>>
  <2>1. Continues(c.sent, c.send, k, o, done, rest)
    BY <1>2, <1>3, <1>5, <1>6, Moved, Zenon
  <2> QED BY <2>1 DEF Continues
<1>8. d \in Channel
  <2>1. \A v \in SentMessages, w \in Messages, a \in Amount :
            [c EXCEPT !.sent = v, !.send = w, !.buffered = a] \in Channel
    BY <1>2 DEF Channel
  <2>2. /\ done \in SentMessages /\ rest \in Messages
        /\ c.buffered - k \in Amount
    BY <1>2, <1>7 DEF SentMessages, Messages, Amount
  <2> QED BY <2>1, <2>2
<1>9. /\ d.sent = done /\ d.send = rest /\ d.buffered = c.buffered - k
      /\ d.role = c.role /\ d.handshake = c.handshake /\ d.state = c.state
      /\ d.connected = c.connected /\ d.controls = c.controls
      /\ d.observer = c.observer /\ d.control = c.control
      /\ d.recv = c.recv /\ d.delivered = c.delivered
      /\ d.blocked = c.blocked
  BY <1>2 DEF Channel
<1> HIDE DEF d
<1>10. LifePart(d)
  <2>1. \A m \in Nat, b \in Int : m <= b => m - k <= b - k
    OBVIOUS
  <2>2. c.state # "closed" => Len(c.send) - k <= c.buffered - k
    BY <1>2, <1>7, <2>1 DEF LifePart, ChannelInv
  <2> QED BY <1>7, <1>9, <2>2 DEF LifePart, ChannelInv
<1>11. RecvPart(d, got)
  BY <1>9 DEF RecvPart, ChannelInv
<1>12. SendPart(d, acc, peer)
  BY <1>7, <1>9 DEF SendPart, ChannelInv
<1>13. OpenPart(d, h)
  <2> SUFFICES ASSUME c.role = "opener"
               PROVE  OpenPart(d, h)
    BY <1>9 DEF OpenPart
  <2>1. ASSUME NEW i \in 1 .. Len(done), ~done[i].ordered
        PROVE  h
    <3>1. CASE i \in 1 .. Len(c.sent) /\ done[i] = c.sent[i]
      BY <2>1, <3>1 DEF OpenPart, ChannelInv
    <3>2. CASE done[i].ordered = o
      <4>1. o = FALSE
        BY <1>3, <2>1, <3>2
      <4> QED BY <1>4, <4>1 DEF OpenPart, ChannelInv
    <3> QED BY <1>7, <3>1, <3>2
  <2> QED BY <1>7, <1>9, <2>1 DEF OpenPart, ChannelInv
<1> QED BY <1>1, <1>7, <1>8, <1>9, <1>10, <1>11, <1>12, <1>13 DEF ChannelInv

(* A channel that gives up messages it has queued.                         *)
LEMMA DropKeeps ==
    ASSUME NEW c, NEW d, NEW acc, NEW peer, NEW h, NEW got,
           ChannelInv(c, acc, peer, h, got), d \in Channel,
           d.role = c.role, d.handshake = c.handshake,
           d.controls = c.controls, d.observer = c.observer,
           d.recv = c.recv, d.sent = c.sent, d.delivered = c.delivered,
           d.state = "closed", ~d.connected,
           \/ d.send = <<>>
           \/ c.send # <<>> /\ Len(d.send) = 1 /\ d.send[1] = c.send[1]
           \/ d.send = c.send
    PROVE  ChannelInv(d, acc, peer, h, got)
<1>1. LifePart(d)
  BY DEF LifePart
<1>2. RecvPart(d, got)
  BY DEF RecvPart, ChannelInv
<1>3. SendPart(d, acc, peer)
  <2>1. \A i \in 1 .. Len(d.send) : d.send[i] = Len(d.sent) + i
    <3>1. CASE d.send = <<>>
      BY <3>1
    <3>2. CASE c.send # <<>> /\ Len(d.send) = 1 /\ d.send[1] = c.send[1]
      <4>1. c.send \in Seq(Nat)
        BY Fields DEF ChannelInv
      <4>2. 1 \in 1 .. Len(c.send)
        BY <3>2, <4>1, EmptySeq
      <4>3. c.send[1] = Len(c.sent) + 1
        BY <4>2 DEF SendPart, ChannelInv, Numbered
      <4>4. \A i \in 1 .. Len(d.send) : i = 1
        BY <3>2
      <4> QED BY <3>2, <4>3, <4>4
    <3>3. CASE d.send = c.send
      BY <3>3 DEF SendPart, ChannelInv, Numbered
    <3> QED BY <3>1, <3>2, <3>3
  <2> QED BY <2>1 DEF SendPart, ChannelInv, Numbered
<1>4. OpenPart(d, h)
  BY DEF OpenPart, ChannelInv
<1> QED BY <1>1, <1>2, <1>3, <1>4 DEF ChannelInv

LEMMA DataFailedKeeps ==
    ASSUME NEW c, NEW acc, NEW peer, NEW h, NEW got,
           ChannelInv(c, acc, peer, h, got),
           c.send # <<>>
    PROVE  /\ ChannelInv(DataFailed(c), acc, peer, h, got)
           /\ DataFailed(c).state = "closed" /\ ~DataFailed(c).connected
<1> DEFINE first == Head(c.send)
           rest == Tail(c.send)
<1>1. c \in Channel /\ c.send \in Seq(Nat)
  BY Fields DEF ChannelInv
<1>2. first \in Nat /\ rest \in Seq(Nat) /\ c.send = <<first>> \o rest
      /\ c.send[1] = first
  <2> DEFINE q == c.send
  <2>1. q \in Seq(Nat) /\ q # <<>>
    BY <1>1
  <2> HIDE DEF q
  <2>2. Head(q) \in Nat /\ Tail(q) \in Seq(Nat) /\ q = <<Head(q)>> \o Tail(q)
        /\ q[1] = Head(q)
    BY <2>1
  <2> QED BY <2>2 DEF q
<1> HIDE DEF first, rest
<1>3. CASE c.state = "closed"
  <2> DEFINE d == [[c EXCEPT !.send = rest] EXCEPT
                       !.send = <<first>> \o rest]
  <2>1. DataFailed(c) = d
    BY <1>1, <1>3 DEF DataFailed, CloseAbruptly, Channel, first, rest
  <2>2. d = c
    BY <1>1, <1>2 DEF Channel
  <2> QED BY <1>3, <2>1, <2>2 DEF ChannelInv, LifePart
<1>4. CASE c.state # "closed"
  <2> DEFINE d == [c EXCEPT !.connected = FALSE, !.send = <<first>> \o <<>>,
                            !.buffered = 0, !.control = 0, !.error = TRUE,
                            !.state = "closed"]
  <2>1. DataFailed(c) = d
    BY <1>1, <1>4 DEF DataFailed, CloseAbruptly, Channel, first, rest
  <2>2. <<first>> \o <<>> \in Messages
    BY <1>2 DEF Messages
  <2>3. d \in Channel
    <3>1. "closed" \in States
      BY DEF States
    <3>2. \A v \in Messages, a \in Amount, e \in States :
              [c EXCEPT !.connected = FALSE, !.send = v, !.buffered = a,
                        !.control = 0, !.error = TRUE, !.state = e] \in Channel
      BY <1>1 DEF Channel
    <3> QED BY <2>2, <3>1, <3>2, Nothing
  <2>4. /\ d.state = "closed" /\ d.connected = FALSE
        /\ d.send = <<first>> \o <<>>
        /\ d.role = c.role /\ d.handshake = c.handshake
        /\ d.controls = c.controls /\ d.observer = c.observer
        /\ d.recv = c.recv /\ d.sent = c.sent /\ d.delivered = c.delivered
    BY <1>1 DEF Channel
  <2> HIDE DEF d
  <2>5. Len(d.send) = 1 /\ d.send[1] = c.send[1]
    BY <1>2, <2>4
  <2>6. ChannelInv(d, acc, peer, h, got)
    BY <2>3, <2>4, <2>5, DropKeeps
  <2> QED BY <2>1, <2>4, <2>6
<1> QED BY <1>3, <1>4

-----------------------------------------------------------------------------
(* The handlers keep it, and leave nothing behind that a later signal of   *)
(* the transport does not wake.                                            *)

(* Nothing is queued on a connected channel, unless sending blocked.       *)
Flushed(c) == c.connected => c.blocked \/ c.control = 0

Quiet(c) == c.connected => c.blocked \/ (c.send = <<>> /\ c.control = 0)

LEMMA BlockedKeeps ==
    ASSUME NEW c, NEW acc, NEW peer, NEW h, NEW got,
           ChannelInv(c, acc, peer, h, got),
           NEW b \in BOOLEAN
    PROVE  /\ ChannelInv([c EXCEPT !.blocked = b], acc, peer, h, got)
           /\ [c EXCEPT !.blocked = b].blocked = b
           /\ [c EXCEPT !.blocked = b].connected = c.connected
           /\ [c EXCEPT !.blocked = b].send = c.send
           /\ [c EXCEPT !.blocked = b].control = c.control
           /\ [c EXCEPT !.blocked = b].state = c.state
<1> DEFINE d == [c EXCEPT !.blocked = b]
<1>1. c \in Channel
  BY DEF ChannelInv
<1>2. d \in Channel
  BY <1>1, Updates
<1>3. /\ d.role = c.role /\ d.handshake = c.handshake
      /\ d.controls = c.controls /\ d.observer = c.observer
      /\ d.send = c.send /\ d.recv = c.recv /\ d.buffered = c.buffered
      /\ d.sent = c.sent /\ d.delivered = c.delivered
      /\ d.state = c.state /\ d.connected = c.connected
      /\ d.control = c.control /\ d.blocked = b
  BY <1>1 DEF Channel
<1> HIDE DEF d
<1>4. d.state = "closed" => ~d.connected
  BY <1>3 DEF ChannelInv, LifePart
<1>5. ChannelInv(d, acc, peer, h, got)
  BY <1>2, <1>3, <1>4, SameMessages
<1> QED BY <1>3, <1>5 DEF d

LEMMA SendQueuedDataKeeps ==
    ASSUME NEW c, NEW acc, NEW peer, NEW h, NEW got, NEW t,
           ChannelInv(c, acc, peer, h, got), Flushed(c),
           NEW e \in SendQueuedDataMessages(c, t)
    PROVE  /\ ChannelInv(e, acc, peer, h, got) /\ Quiet(e)
           /\ e.connected => c.connected
           /\ c.state = "closed" => e.state = "closed"
<1>1. c.send \in Seq(Nat)
  BY Fields DEF ChannelInv
<1>2. Len(c.send) \in Nat
  BY <1>1, LenProperties
<1>3. PICK k \in 0 .. Len(c.send) :
          \/ k = Len(c.send) /\ e = DataSent(c, k)
          \/ e = [DataSent(c, k) EXCEPT !.blocked = TRUE]
          \/ k < Len(c.send) /\ e = DataFailed(DataSent(c, k))
  BY <1>2 DEF SendQueuedDataMessages
<1> DEFINE d == DataSent(c, k)
<1>4. k \in Nat /\ k <= Len(c.send)
  BY <1>2, <1>3
<1>5. /\ ChannelInv(d, acc, peer, h, got) /\ d.state = c.state
      /\ d.connected = c.connected /\ d.control = c.control
      /\ d.blocked = c.blocked /\ Len(d.send) = Len(c.send) - k
  BY <1>4, DataSentKeeps
<1> HIDE DEF d
<1>6. d.send \in Seq(Nat)
  BY <1>5, Fields DEF ChannelInv
<1>7. CASE k = Len(c.send) /\ e = d
  <2>1. Len(d.send) = 0
    BY <1>2, <1>5, <1>7
  <2>2. d.send = <<>>
    BY <1>6, <2>1, EmptySeq
  <2> QED BY <1>5, <1>7, <2>2 DEF Quiet, Flushed
<1>8. CASE e = [d EXCEPT !.blocked = TRUE]
  <2>1. /\ e.blocked = TRUE /\ ChannelInv(e, acc, peer, h, got)
        /\ e.connected = d.connected /\ e.state = d.state
    BY <1>5, <1>8, BlockedKeeps
  <2> QED BY <1>5, <2>1 DEF Quiet
<1>9. CASE k < Len(c.send) /\ e = DataFailed(d)
  <2>1. Len(d.send) # 0
    BY <1>2, <1>5, <1>9
  <2>2. d.send # <<>>
    BY <2>1
  <2>3. /\ ChannelInv(e, acc, peer, h, got)
        /\ ~e.connected /\ e.state = "closed"
    BY <1>5, <1>9, <2>2, DataFailedKeeps
  <2> QED BY <2>3 DEF Quiet
<1> QED BY <1>3, <1>7, <1>8, <1>9 DEF d

LEMMA SendQueuedControlKeeps ==
    ASSUME NEW c, NEW acc, NEW peer, NEW h, NEW got, NEW t,
           ChannelInv(c, acc, peer, h, got),
           NEW e \in SendQueuedControlMessages(c, t)
    PROVE  /\ ChannelInv(e, acc, peer, h, got) /\ Flushed(e)
           /\ e.connected => c.connected
           /\ c.state = "closed" => e.state = "closed"
<1> DEFINE swapped == [c EXCEPT !.control = 0]
<1>1. c \in Channel /\ c.control \in Nat
  BY Fields DEF ChannelInv
<1>2. /\ ChannelInv(swapped, acc, peer, h, got)
      /\ swapped.control = 0 /\ swapped.connected = c.connected
      /\ swapped.state = c.state
  <2>1. swapped \in Channel
    BY <1>1, Updates
  <2>2. /\ swapped.role = c.role /\ swapped.handshake = c.handshake
        /\ swapped.controls = c.controls /\ swapped.observer = c.observer
        /\ swapped.send = c.send /\ swapped.recv = c.recv
        /\ swapped.buffered = c.buffered /\ swapped.sent = c.sent
        /\ swapped.delivered = c.delivered /\ swapped.state = c.state
        /\ swapped.connected = c.connected /\ swapped.control = 0
    BY <1>1 DEF Channel
  <2> HIDE DEF swapped
  <2>3. swapped.state = "closed" => ~swapped.connected
    BY <2>2 DEF ChannelInv, LifePart
  <2> QED BY <2>1, <2>2, <2>3, SameMessages
<1>3. \/ \E b \in 0 .. c.control :
             e = ControlBlocked(ControlSent(swapped, c.control - b), b)
      \/ \E n \in Nat, b \in Nat :
             e = ControlBlocked(ControlSent(CloseAbruptly(swapped), n), b)
  BY <1>1 DEF SendQueuedControlMessages
<1> HIDE DEF swapped
<1>4. CASE \E b \in 0 .. c.control :
               e = ControlBlocked(ControlSent(swapped, c.control - b), b)
  <2>1. PICK b \in 0 .. c.control :
            e = ControlBlocked(ControlSent(swapped, c.control - b), b)
    BY <1>4
  <2> DEFINE n == c.control - b
             d == ControlSent(swapped, n)
  <2>2. n \in Nat /\ b \in Nat
    BY <1>1
  <2> HIDE DEF n
  <2>3. /\ ChannelInv(d, acc, peer, h, got)
        /\ d.control = 0 /\ d.connected = c.connected /\ d.state = c.state
    BY <1>2, <2>2, ControlSentKeeps
  <2>4. e = ControlBlocked(d, b)
    BY <2>1 DEF n
  <2> HIDE DEF d
  <2>5. /\ ChannelInv(e, acc, peer, h, got)
        /\ e.connected = d.connected /\ e.state = d.state
        /\ e.blocked \/ e.control = d.control
    BY <2>2, <2>3, <2>4, ControlBlockedKeeps
  <2> QED BY <2>3, <2>5 DEF Flushed
<1>5. CASE \E n \in Nat, b \in Nat :
               e = ControlBlocked(ControlSent(CloseAbruptly(swapped), n), b)
  <2>1. PICK n \in Nat, b \in Nat :
            e = ControlBlocked(ControlSent(CloseAbruptly(swapped), n), b)
    BY <1>5
  <2> DEFINE a == CloseAbruptly(swapped)
             d == ControlSent(a, n)
  <2>2. /\ ChannelInv(a, acc, peer, h, got)
        /\ ~a.connected /\ a.state = "closed"
    BY <1>2, CloseAbruptlyKeeps
  <2> HIDE DEF a
  <2>3. /\ ChannelInv(d, acc, peer, h, got)
        /\ d.connected = a.connected /\ d.state = a.state
    BY <2>2, ControlSentKeeps
  <2>4. e = ControlBlocked(d, b)
    BY <2>1 DEF a
  <2> HIDE DEF d
  <2>5. /\ ChannelInv(e, acc, peer, h, got)
        /\ e.connected = d.connected /\ e.state = d.state
    BY <2>3, <2>4, ControlBlockedKeeps
  <2> QED BY <2>2, <2>3, <2>5 DEF Flushed
<1> QED BY <1>3, <1>4, <1>5

LEMMA SendControlKeeps ==
    ASSUME NEW c, NEW acc, NEW peer, NEW h, NEW got, NEW t,
           ChannelInv(c, acc, peer, h, got), c.state = "connecting",
           c.handshake \in {"ShouldSendOpen", "ShouldSendAck"},
           NEW d \in SendControlMessage(c, t)
    PROVE  /\ ChannelInv(d, acc, peer, h, got)
           /\ Quiet(c) => Quiet(d)
           /\ d.connected => c.connected
           /\ \/ d.state = "connecting"
              \/ d.handshake \notin {"Ready", "WaitingForAck"}
<1>1. \/ d = ControlSent(c, 1) \/ d = CloseAbruptly(c)
      \/ d = ControlBlocked(c, 1)
  BY DEF SendControlMessage
<1>2. CASE d = ControlSent(c, 1)
  BY <1>2, ControlSentKeeps DEF Quiet
<1>3. CASE d = CloseAbruptly(c)
  BY <1>3, CloseAbruptlyKeeps DEF Quiet
<1>4. CASE d = ControlBlocked(c, 1)
  BY <1>4, ControlBlockedKeeps DEF Quiet
<1> QED BY <1>1, <1>2, <1>3, <1>4

LEMMA OpenedKeeps ==
    ASSUME NEW c, NEW acc, NEW peer, NEW h, NEW got,
           ChannelInv(c, acc, peer, h, got),
           \/ c.state = "connecting"
           \/ c.handshake \notin {"Ready", "WaitingForAck"}
    PROVE  /\ ChannelInv(Opened(c), acc, peer, h, got)
           /\ Quiet(c) => Quiet(Opened(c))
           /\ Opened(c).connected = c.connected
<1>1. CASE ~(c.writable /\ c.handshake \in {"Ready", "WaitingForAck"})
  BY <1>1 DEF Opened
<1>2. CASE c.writable /\ c.handshake \in {"Ready", "WaitingForAck"}
  <2> DEFINE d == [c EXCEPT !.state = "open"]
  <2>1. Opened(c) = DeliverQueuedReceivedData(d)
    BY <1>2 DEF Opened
  <2>2. c \in Channel
    BY DEF ChannelInv
  <2>3. d \in Channel
    <3>1. "open" \in States
      BY DEF States
    <3> QED BY <2>2, <3>1, Updates
  <2>4. /\ d.role = c.role /\ d.handshake = c.handshake
        /\ d.controls = c.controls /\ d.observer = c.observer
        /\ d.send = c.send /\ d.recv = c.recv /\ d.buffered = c.buffered
        /\ d.sent = c.sent /\ d.delivered = c.delivered
        /\ d.state = "open" /\ d.connected = c.connected
        /\ d.control = c.control /\ d.blocked = c.blocked
    BY <2>2 DEF Channel
  <2> HIDE DEF d
  <2>5. LifePart(d)
    BY <1>2, <2>4 DEF ChannelInv, LifePart
  <2>6. SendPart(d, acc, peer)
    BY <1>2, <2>4 DEF ChannelInv, SendPart
  <2>7. OpenPart(d, h)
    BY <1>2, <2>4 DEF ChannelInv, OpenPart
  <2>8. /\ \A i \in 1 .. Len(d.delivered) : d.delivered[i] = i
        /\ \A i \in 1 .. Len(d.recv) : d.recv[i] = Len(d.delivered) + i
        /\ Total(d.delivered, d.recv) = got
    BY <1>2, <2>4 DEF ChannelInv, RecvPart
  <2> DEFINE e == DeliverQueuedReceivedData(d)
  <2>9. /\ ChannelInv(e, acc, peer, h, got)
        /\ e.connected = d.connected /\ e.send = d.send
        /\ e.control = d.control /\ e.blocked = d.blocked
    BY <2>3, <2>5, <2>6, <2>7, <2>8, DeliverKeeps
  <2> HIDE DEF e
  <2>10. Quiet(c) => Quiet(e)
    BY <2>4, <2>9 DEF Quiet
  <2> QED BY <2>1, <2>4, <2>9, <2>10 DEF e
<1> QED BY <1>1, <1>2

LEMMA UpdateStateKeeps ==
    ASSUME NEW c, NEW acc, NEW peer, NEW h, NEW got, NEW t,
           ChannelInv(c, acc, peer, h, got), NEW d \in UpdateState(c, t)
    PROVE  /\ ChannelInv(d, acc, peer, h, got)
           /\ Quiet(c) => Quiet(d)
           /\ d.connected => c.connected
           /\ c.state # "connecting" =>
                  /\ d.state = c.state
                  /\ d.connected = c.connected /\ d.send = c.send
                  /\ d.control = c.control /\ d.blocked = c.blocked
<1>1. CASE c.state = "connecting" /\ c.connected
  <2>1. PICK e \in IF c.handshake \in {"ShouldSendOpen", "ShouldSendAck"}
                   THEN SendControlMessage(c, t) ELSE {c} : d = Opened(e)
    BY <1>1 DEF UpdateState
  <2>2. /\ ChannelInv(e, acc, peer, h, got) /\ (Quiet(c) => Quiet(e))
        /\ e.connected => c.connected
        /\ \/ e.state = "connecting"
           \/ e.handshake \notin {"Ready", "WaitingForAck"}
    <3>1. CASE c.handshake \in {"ShouldSendOpen", "ShouldSendAck"}
      <4>1. e \in SendControlMessage(c, t)
        BY <2>1, <3>1
      <4> QED BY <1>1, <3>1, <4>1, SendControlKeeps
    <3>2. CASE c.handshake \notin {"ShouldSendOpen", "ShouldSendAck"}
      <4>1. e = c
        BY <2>1, <3>2
      <4> QED BY <1>1, <4>1
    <3> QED BY <3>1, <3>2
  <2>3. /\ ChannelInv(d, acc, peer, h, got) /\ (Quiet(e) => Quiet(d))
        /\ d.connected = e.connected
    BY <2>1, <2>2, OpenedKeeps
  <2> QED BY <1>1, <2>2, <2>3
<1>2. CASE d = [c EXCEPT !.started = TRUE]
  <2>1. c \in Channel
    BY DEF ChannelInv
  <2>2. d \in Channel
    BY <1>2, <2>1, Updates
  <2>3. /\ d.role = c.role /\ d.handshake = c.handshake
        /\ d.controls = c.controls /\ d.observer = c.observer
        /\ d.send = c.send /\ d.recv = c.recv /\ d.buffered = c.buffered
        /\ d.sent = c.sent /\ d.delivered = c.delivered
        /\ d.state = c.state /\ d.connected = c.connected
        /\ d.control = c.control /\ d.blocked = c.blocked
    BY <1>2, <2>1 DEF Channel
  <2>4. d.state = "closed" => ~d.connected
    BY <2>3 DEF ChannelInv, LifePart
  <2>5. ChannelInv(d, acc, peer, h, got)
    BY <2>2, <2>3, <2>4, SameMessages
  <2> QED BY <2>3, <2>5 DEF Quiet
<1>3. CASE d = c
  BY <1>3
<1>4. \/ c.state = "connecting" /\ c.connected
      \/ d = [c EXCEPT !.started = TRUE] \/ d = c
  BY DEF UpdateState
<1> QED BY <1>1, <1>2, <1>3, <1>4

LEMMA OnChannelReadyKeeps ==
    ASSUME NEW c, NEW acc, NEW peer, NEW h, NEW got, NEW t,
           ChannelInv(c, acc, peer, h, got), NEW d \in OnChannelReady(c, t)
    PROVE  /\ ChannelInv(d, acc, peer, h, got) /\ Quiet(d)
           /\ d.connected => c.connected
           /\ c.state = "closed" => d.state = "closed"
<1> DEFINE w == [c EXCEPT !.writable = TRUE]
<1>1. PICK a \in SendQueuedControlMessages(w, t) :
          \E e \in SendQueuedDataMessages(a, t) : d \in UpdateState(e, t)
  BY DEF OnChannelReady
<1>2. PICK e \in SendQueuedDataMessages(a, t) : d \in UpdateState(e, t)
  BY <1>1
<1>3. /\ ChannelInv(w, acc, peer, h, got)
      /\ w.connected = c.connected /\ w.state = c.state
  <2>1. c \in Channel
    BY DEF ChannelInv
  <2>2. w \in Channel
    BY <2>1, Updates
  <2>3. /\ w.role = c.role /\ w.handshake = c.handshake
        /\ w.controls = c.controls /\ w.observer = c.observer
        /\ w.send = c.send /\ w.recv = c.recv /\ w.buffered = c.buffered
        /\ w.sent = c.sent /\ w.delivered = c.delivered
        /\ w.state = c.state /\ w.connected = c.connected
    BY <2>1 DEF Channel
  <2> HIDE DEF w
  <2>4. w.state = "closed" => ~w.connected
    BY <2>3 DEF ChannelInv, LifePart
  <2> QED BY <2>2, <2>3, <2>4, SameMessages
<1> HIDE DEF w
<1>4. /\ ChannelInv(a, acc, peer, h, got) /\ Flushed(a)
      /\ a.connected => c.connected
      /\ c.state = "closed" => a.state = "closed"
  BY <1>3, SendQueuedControlKeeps
<1>5. /\ ChannelInv(e, acc, peer, h, got) /\ Quiet(e)
      /\ e.connected => c.connected
      /\ c.state = "closed" => e.state = "closed"
  BY <1>4, SendQueuedDataKeeps
<1> QED BY <1>2, <1>5, UpdateStateKeeps

LEMMA CloseKeeps ==
    ASSUME NEW c, NEW acc, NEW peer, NEW h, NEW got, NEW t,
           ChannelInv(c, acc, peer, h, got), NEW d \in Close(c, t)
    PROVE  /\ ChannelInv(d, acc, peer, h, got)
           /\ d.connected = c.connected /\ d.send = c.send
           /\ d.control = c.control /\ d.blocked = c.blocked
           /\ c.state = "closed" => d.state = "closed"
<1>1. CASE c.state = "closed"
  BY <1>1 DEF Close
<1>2. CASE c.state # "closed"
  <2> DEFINE w == [c EXCEPT !.state = "closing"]
  <2>1. d \in UpdateState(w, t)
    BY <1>2 DEF Close
  <2>2. c \in Channel
    BY DEF ChannelInv
  <2>3. w \in Channel
    <3>1. "closing" \in States
      BY DEF States
    <3> QED BY <2>2, <3>1, Updates
  <2>4. /\ w.role = c.role /\ w.handshake = c.handshake
        /\ w.controls = c.controls /\ w.observer = c.observer
        /\ w.send = c.send /\ w.recv = c.recv /\ w.buffered = c.buffered
        /\ w.sent = c.sent /\ w.delivered = c.delivered
        /\ w.state = "closing" /\ w.connected = c.connected
        /\ w.control = c.control /\ w.blocked = c.blocked
    BY <2>2 DEF Channel
  <2> HIDE DEF w
  <2>5. ChannelInv(w, acc, peer, h, got)
    BY <1>2, <2>3, <2>4, SameMessages
  <2>6. /\ ChannelInv(d, acc, peer, h, got)
        /\ d.connected = w.connected /\ d.send = w.send
        /\ d.control = w.control /\ d.blocked = w.blocked
    BY <2>1, <2>4, <2>5, UpdateStateKeeps
  <2> QED BY <1>2, <2>4, <2>6
<1> QED BY <1>1, <1>2

(* What a handler leaves queued on a connected channel was queued before,  *)
(* or sending blocked.                                                     *)
Waiting(c) == c.connected /\ (c.send # <<>> \/ c.control > 0)

(* The numbers of accepted and received messages do not matter once the    *)
(* channel is closed.                                                      *)
LEMMA ClosedKeeps ==
    ASSUME NEW c, NEW acc, NEW peer, NEW h, NEW got, NEW more, NEW any,
           ChannelInv(c, acc, peer, h, got), c.state = "closed"
    PROVE  ChannelInv(c, more, peer, h, any)
BY DEF ChannelInv, SendPart, RecvPart

(* A message at the end of the queue.                                      *)
LEMMA Queued ==
    ASSUME NEW sent \in SentMessages, NEW q \in Seq(Nat), NEW acc \in Nat,
           Numbered(sent, q), Total(sent, q) = acc
    PROVE  /\ Append(q, acc + 1) \in Seq(Nat)
           /\ Len(q) \in Nat /\ Len(Append(q, acc + 1)) = Len(q) + 1
           /\ Numbered(sent, Append(q, acc + 1))
           /\ Total(sent, Append(q, acc + 1)) = acc + 1
           /\ Append(q, acc + 1) # <<>>
<1> DEFINE r == Append(q, acc + 1)
<1>1. Len(sent) \in Nat /\ Len(q) \in Nat
  BY LenProperties DEF SentMessages
<1>2. /\ r \in Seq(Nat) /\ Len(r) = Len(q) + 1
      /\ \A i \in 1 .. Len(q) : r[i] = q[i]
      /\ r[Len(q) + 1] = acc + 1 /\ r # <<>>
  BY AppendProperties
<1> HIDE DEF r
<1>3. Len(sent) + Len(q) = acc
  BY DEF Total
<1>4. Total(sent, r) = acc + 1
  BY <1>1, <1>2, <1>3 DEF Total
<1>5. ASSUME NEW i \in 1 .. Len(r)
      PROVE  r[i] = Len(sent) + i
  <2>1. CASE i \in 1 .. Len(q)
    BY <1>2, <2>1 DEF Numbered
  <2>2. CASE i = Len(q) + 1
    BY <1>1, <1>2, <1>3, <2>2
  <2> QED BY <1>1, <1>2, <2>1, <2>2
<1>6. Numbered(sent, r)
  BY <1>5 DEF Numbered
<1> QED BY <1>1, <1>2, <1>4, <1>6 DEF r

(* Send() of an open channel puts the message at the end of the queue.     *)
Queueing(c, m) == [c EXCEPT !.buffered = @ + 1, !.send = Append(@, m)]

LEMMA QueueingKeeps ==
    ASSUME NEW c, NEW acc \in Nat, NEW peer, NEW h, NEW got,
           ChannelInv(c, acc, peer, h, got), c.state = "open"
    PROVE  /\ ChannelInv(Queueing(c, acc + 1), acc + 1, peer, h, got)
           /\ Queueing(c, acc + 1).send = Append(c.send, acc + 1)
           /\ Queueing(c, acc + 1).connected = c.connected
           /\ Queueing(c, acc + 1).control = c.control
           /\ Queueing(c, acc + 1).blocked = c.blocked
<1> DEFINE e == Queueing(c, acc + 1)
<1> DEFINE r == Append(c.send, acc + 1)
<1>1. /\ c \in Channel /\ c.send \in Seq(Nat) /\ c.sent \in SentMessages
      /\ c.buffered \in Int
  BY Fields DEF ChannelInv, Channel
<1>2. Numbered(c.sent, c.send) /\ Total(c.sent, c.send) = acc
  BY DEF ChannelInv, SendPart
<1>3. /\ r \in Seq(Nat) /\ Len(c.send) \in Nat /\ Len(r) = Len(c.send) + 1
      /\ Numbered(c.sent, r) /\ Total(c.sent, r) = acc + 1
  BY <1>1, <1>2, Queued, Zenon
<1>4. e = [c EXCEPT !.buffered = c.buffered + 1, !.send = r]
  BY DEF Queueing
<1> HIDE DEF r, e
<1>5. e \in Channel
  <2>1. \A v \in Amount, w \in Messages :
            [c EXCEPT !.buffered = v, !.send = w] \in Channel
    BY <1>1 DEF Channel
  <2>2. c.buffered + 1 \in Amount /\ r \in Messages
    BY <1>1, <1>3 DEF Amount, Messages
  <2> QED BY <1>4, <2>1, <2>2
<1>6. /\ e.send = r /\ e.buffered = c.buffered + 1
      /\ e.role = c.role /\ e.handshake = c.handshake /\ e.state = c.state
      /\ e.controls = c.controls /\ e.observer = c.observer
      /\ e.recv = c.recv /\ e.sent = c.sent /\ e.delivered = c.delivered
      /\ e.connected = c.connected /\ e.control = c.control
      /\ e.blocked = c.blocked
  BY <1>1, <1>4 DEF Channel
<1>7. LifePart(e)
  <2>1. \A m \in Nat, b \in Int : m <= b => m + 1 <= b + 1
    OBVIOUS
  <2>2. Len(c.send) + 1 <= c.buffered + 1
    BY <1>1, <1>3, <2>1 DEF ChannelInv, LifePart
  <2> QED BY <1>3, <1>6, <2>2 DEF LifePart
<1>8. RecvPart(e, got)
  BY <1>6 DEF ChannelInv, RecvPart
<1>9. SendPart(e, acc + 1, peer)
  BY <1>3, <1>6 DEF SendPart
<1>10. OpenPart(e, h)
  BY <1>6 DEF ChannelInv, OpenPart
<1> QED BY <1>5, <1>6, <1>7, <1>8, <1>9, <1>10 DEF ChannelInv, r, e

LEMMA SendKeeps ==
    ASSUME NEW c, NEW acc \in Nat, NEW peer, NEW h, NEW got, NEW t,
           ChannelInv(c, acc, peer, h, got), NEW e \in Send(c, acc + 1, t)
    PROVE  /\ ChannelInv(e, IF c.state = "open" THEN acc + 1 ELSE acc,
                         peer, h, got)
           /\ Waiting(e) => e.blocked \/ Waiting(c)
           /\ e.connected => c.connected
           /\ c.state = "closed" => e.state = "closed"
<1> DEFINE d == [c EXCEPT !.buffered = @ + 1]
           q == [d EXCEPT !.send = Append(@, acc + 1)]
<1>1. c \in Channel /\ c.buffered \in Int /\ c.send \in Seq(Nat)
  BY Fields DEF ChannelInv
<1>2. /\ ChannelInv(d, acc, peer, h, got)
      /\ d.connected = c.connected /\ d.send = c.send /\ d.state = c.state
      /\ d.control = c.control
  <2>1. c.buffered + 1 \in Amount /\ c.buffered <= c.buffered + 1
    BY <1>1 DEF Amount
  <2>2. d \in Channel
    BY <1>1, <2>1, Updates
  <2>3. /\ d.role = c.role /\ d.handshake = c.handshake /\ d.state = c.state
        /\ d.controls = c.controls /\ d.observer = c.observer
        /\ d.recv = c.recv /\ d.sent = c.sent /\ d.delivered = c.delivered
        /\ d.send = c.send /\ d.buffered = c.buffered + 1
        /\ d.connected = c.connected /\ d.control = c.control
    BY <1>1 DEF Channel
  <2> HIDE DEF d
  <2>4. LifePart(d)
    <3>1. Len(c.send) \in Nat
      BY <1>1, LenProperties
    <3>2. \A m \in Nat, b \in Int : m <= b => m <= b + 1
      OBVIOUS
    <3> QED BY <1>1, <2>3, <3>1, <3>2 DEF ChannelInv, LifePart
  <2>5. RecvPart(d, got)
    BY <2>3 DEF ChannelInv, RecvPart
  <2>6. SendPart(d, acc, peer)
    BY <2>3 DEF ChannelInv, SendPart
  <2>7. OpenPart(d, h)
    BY <2>3 DEF ChannelInv, OpenPart
  <2> QED BY <2>2, <2>3, <2>4, <2>5, <2>6, <2>7 DEF ChannelInv
<1>3. CASE c.state # "open"
  <2>1. e = d
    BY <1>3 DEF Send
  <2> HIDE DEF d
  <2> QED BY <1>2, <1>3, <2>1 DEF Waiting
<1>4. CASE c.state = "open"
  <2>1. \/ e = CloseAbruptly(d)
        \/ e = q /\ c.send # <<>>
        \/ c.send = <<>> /\ e = DataSent([d EXCEPT !.send = <<acc + 1>>], 1)
        \/ e = [CloseAbruptly(d) EXCEPT !.blocked = TRUE]
        \/ e = [q EXCEPT !.blocked = TRUE]
    BY <1>1, <1>4 DEF Send, QueueSendDataMessage, Channel
  <2>2. /\ ChannelInv(q, acc + 1, peer, h, got)
        /\ q.send = Append(c.send, acc + 1)
        /\ q.connected = c.connected /\ q.control = c.control
    <3>1. q = Queueing(c, acc + 1)
      BY <1>1 DEF Channel, Queueing
    <3> HIDE DEF d, q
    <3> QED BY <1>4, <3>1, QueueingKeeps
  <2>3. c.send = <<>> => q = [d EXCEPT !.send = <<acc + 1>>]
    <3>1. c.send = <<>> => Append(c.send, acc + 1) = <<acc + 1>>
      OBVIOUS
    <3> QED BY <1>2, <3>1
  <2> DEFINE a == CloseAbruptly(d)
  <2> HIDE DEF d, q
  <2>4. ChannelInv(a, acc + 1, peer, h, got) /\ ~a.connected
    <3>1. /\ ChannelInv(a, acc, peer, h, got)
          /\ a.state = "closed" /\ ~a.connected
      BY <1>2, CloseAbruptlyKeeps
    <3> HIDE DEF a
    <3> QED BY <3>1, ClosedKeeps
  <2> HIDE DEF a
  <2>5. CASE e = a
    BY <1>4, <2>4, <2>5 DEF Waiting
  <2>6. CASE e = q /\ c.send # <<>>
    BY <1>4, <2>2, <2>6 DEF Waiting
  <2>7. CASE c.send = <<>> /\ e = DataSent(q, 1)
    <3>1. Len(q.send) = 1
      BY <2>2, <2>7
    <3>2. /\ ChannelInv(e, acc + 1, peer, h, got)
          /\ e.connected = q.connected /\ e.control = q.control
          /\ Len(e.send) = Len(q.send) - 1
      <4>1. 1 \in Nat /\ 1 <= Len(q.send)
        BY <3>1
      <4> QED BY <2>2, <2>7, <4>1, DataSentKeeps
    <3>3. e.send = <<>>
      <4>1. e.send \in Seq(Nat)
        BY <3>2, Fields DEF ChannelInv
      <4>2. Len(e.send) = 0
        BY <3>1, <3>2
      <4> QED BY <4>1, <4>2, EmptySeq
    <3> QED BY <1>4, <2>2, <3>2, <3>3 DEF Waiting
  <2>8. CASE e = [a EXCEPT !.blocked = TRUE]
    BY <1>4, <2>4, <2>8, BlockedKeeps DEF Waiting
  <2>9. CASE e = [q EXCEPT !.blocked = TRUE]
    BY <1>4, <2>2, <2>9, BlockedKeeps DEF Waiting
  <2> QED BY <2>1, <2>3, <2>5, <2>6, <2>7, <2>8, <2>9 DEF a
<1> QED BY <1>3, <1>4

(* The peer may close its stream and be heard at any time.                 *)
LEMMA PeerKeeps ==
    ASSUME NEW c, NEW acc, NEW peer, NEW h, NEW got,
           ChannelInv(c, acc, peer, h, got)
    PROVE  /\ ChannelInv(c, acc, TRUE, h, got)
           /\ ChannelInv(c, acc, peer, TRUE, got)
<1>1. SendPart(c, acc, TRUE)
  BY DEF ChannelInv, SendPart
<1>2. OpenPart(c, TRUE)
  BY DEF ChannelInv, OpenPart
<1> QED BY <1>1, <1>2 DEF ChannelInv

LEMMA ConnectedKeeps ==
    ASSUME NEW c, NEW acc, NEW peer, NEW h, NEW got,
           ChannelInv(c, acc, peer, h, got)
    PROVE  /\ c.state # "closed" =>
                  ChannelInv([c EXCEPT !.connected = TRUE], acc, peer, h, got)
           /\ ChannelInv([c EXCEPT !.sid = TRUE], acc, peer, h, got)
           /\ Waiting([c EXCEPT !.sid = TRUE]) => Waiting(c)
           /\ [c EXCEPT !.sid = TRUE].connected = c.connected
           /\ [c EXCEPT !.sid = TRUE].state = c.state
<1>1. c \in Channel
  BY DEF ChannelInv
<1>2. ASSUME c.state # "closed"
      PROVE  ChannelInv([c EXCEPT !.connected = TRUE], acc, peer, h, got)
  <2> DEFINE d == [c EXCEPT !.connected = TRUE]
  <2>1. d \in Channel
    BY <1>1 DEF Channel
  <2>2. /\ d.role = c.role /\ d.handshake = c.handshake
        /\ d.controls = c.controls /\ d.observer = c.observer
        /\ d.send = c.send /\ d.recv = c.recv /\ d.buffered = c.buffered
        /\ d.sent = c.sent /\ d.delivered = c.delivered
        /\ d.state = c.state
    BY <1>1 DEF Channel
  <2> HIDE DEF d
  <2>3. ChannelInv(d, acc, peer, h, got)
    BY <1>2, <2>1, <2>2, SameMessages
  <2> QED BY <2>3 DEF d
<1>3. /\ ChannelInv([c EXCEPT !.sid = TRUE], acc, peer, h, got)
      /\ Waiting([c EXCEPT !.sid = TRUE]) => Waiting(c)
      /\ [c EXCEPT !.sid = TRUE].connected = c.connected
      /\ [c EXCEPT !.sid = TRUE].state = c.state
  <2> DEFINE d == [c EXCEPT !.sid = TRUE]
  <2>1. d \in Channel
    BY <1>1 DEF Channel
  <2>2. /\ d.role = c.role /\ d.handshake = c.handshake
        /\ d.controls = c.controls /\ d.observer = c.observer
        /\ d.send = c.send /\ d.recv = c.recv /\ d.buffered = c.buffered
        /\ d.sent = c.sent /\ d.delivered = c.delivered
        /\ d.state = c.state /\ d.connected = c.connected
        /\ d.control = c.control
    BY <1>1 DEF Channel
  <2> HIDE DEF d
  <2>3. d.state = "closed" => ~d.connected
    BY <2>2 DEF ChannelInv, LifePart
  <2>4. ChannelInv(d, acc, peer, h, got)
    BY <2>1, <2>2, <2>3, SameMessages
  <2> QED BY <2>2, <2>4 DEF d, Waiting
<1> QED BY <1>2, <1>3

LEMMA ObserverKeeps ==
    ASSUME NEW c, NEW acc, NEW peer, NEW h, NEW got,
           ChannelInv(c, acc, peer, h, got),
           NEW d \in {RegisterObserver(c), UnregisterObserver(c)}
    PROVE  /\ ChannelInv(d, acc, peer, h, got)
           /\ d.connected = c.connected /\ d.send = c.send
           /\ d.control = c.control /\ d.state = c.state
<1>1. c \in Channel
  BY DEF ChannelInv
<1>2. ASSUME NEW b \in BOOLEAN, NEW e, e = [c EXCEPT !.observer = b]
      PROVE  /\ e \in Channel
             /\ e.observer = b
             /\ e.role = c.role /\ e.handshake = c.handshake
             /\ e.controls = c.controls /\ e.state = c.state
             /\ e.connected = c.connected /\ e.control = c.control
             /\ e.send = c.send /\ e.sent = c.sent
             /\ e.buffered = c.buffered
             /\ e.recv = c.recv /\ e.delivered = c.delivered
             /\ LifePart(e) /\ SendPart(e, acc, peer) /\ OpenPart(e, h)
  <2>1. e \in Channel
    BY <1>1, <1>2, Updates
  <2>2. /\ e.observer = b
        /\ e.role = c.role /\ e.handshake = c.handshake
        /\ e.controls = c.controls /\ e.state = c.state
        /\ e.connected = c.connected /\ e.control = c.control
        /\ e.send = c.send /\ e.sent = c.sent /\ e.buffered = c.buffered
        /\ e.recv = c.recv /\ e.delivered = c.delivered
    BY <1>1, <1>2 DEF Channel
  <2>3. LifePart(e)
    BY <2>2 DEF ChannelInv, LifePart
  <2>4. SendPart(e, acc, peer)
    BY <2>2 DEF ChannelInv, SendPart
  <2>5. OpenPart(e, h)
    BY <2>2 DEF ChannelInv, OpenPart
  <2> QED BY <2>1, <2>2, <2>3, <2>4, <2>5
<1>3. CASE d = RegisterObserver(c)
  <2> DEFINE e == [c EXCEPT !.observer = TRUE]
  <2>1. d = DeliverQueuedReceivedData(e)
    BY <1>3 DEF RegisterObserver
  <2>2. e = [c EXCEPT !.observer = TRUE]
    OBVIOUS
  <2> HIDE DEF e
  <2>3. /\ e \in Channel /\ e.state = c.state
        /\ e.connected = c.connected /\ e.control = c.control
        /\ e.send = c.send /\ e.recv = c.recv /\ e.delivered = c.delivered
        /\ LifePart(e) /\ SendPart(e, acc, peer) /\ OpenPart(e, h)
    BY <1>2, <2>2
  <2>4. /\ \A i \in 1 .. Len(e.delivered) : e.delivered[i] = i
        /\ \A i \in 1 .. Len(e.recv) : e.recv[i] = Len(e.delivered) + i
        /\ e.state # "closed" => Total(e.delivered, e.recv) = got
    BY <2>3 DEF ChannelInv, RecvPart
  <2> QED BY <2>1, <2>3, <2>4, DeliverKeeps
<1>4. CASE d = UnregisterObserver(c)
  <2>1. d = [c EXCEPT !.observer = FALSE]
    BY <1>4 DEF UnregisterObserver
  <2>2. /\ d \in Channel /\ d.observer = FALSE /\ d.state = c.state
        /\ d.connected = c.connected /\ d.control = c.control
        /\ d.send = c.send /\ d.recv = c.recv /\ d.delivered = c.delivered
        /\ LifePart(d) /\ SendPart(d, acc, peer) /\ OpenPart(d, h)
    BY <1>2, <2>1
  <2>3. RecvPart(d, got)
    BY <2>2 DEF ChannelInv, RecvPart
  <2> QED BY <2>2, <2>3 DEF ChannelInv
<1> QED BY <1>3, <1>4

LEMMA ClosedRemotelyKeeps ==
    ASSUME NEW c, NEW acc, NEW h, NEW got, ChannelInv(c, acc, TRUE, h, got)
    PROVE  /\ ChannelInv(OnClosingProcedureStartedRemotely(c),
                         acc, TRUE, h, got)
           /\ Waiting(OnClosingProcedureStartedRemotely(c)) => Waiting(c)
           /\ OnClosingProcedureStartedRemotely(c).connected = c.connected
           /\ c.state = "closed" =>
                  OnClosingProcedureStartedRemotely(c).state = "closed"
<1>1. CASE c.state \in {"closing", "closed"}
  BY <1>1 DEF OnClosingProcedureStartedRemotely
<1>2. CASE c.state \notin {"closing", "closed"}
  <2> DEFINE d == OnClosingProcedureStartedRemotely(c)
  <2>1. c \in Channel /\ c.buffered \in Int /\ c.send \in Seq(Nat)
    BY Fields DEF ChannelInv
  <2>2. d = [c EXCEPT !.send = <<>>, !.control = 0, !.started = TRUE,
                      !.state = "closing"]
    BY <1>2 DEF OnClosingProcedureStartedRemotely
  <2> HIDE DEF d
  <2>3. d \in Channel
    <3>1. \A v \in Messages, e \in States :
              [c EXCEPT !.send = v, !.control = 0, !.started = TRUE,
                        !.state = e] \in Channel
      BY <2>1 DEF Channel
    <3>2. "closing" \in States
      BY DEF States
    <3> QED BY <2>2, <3>1, <3>2, Nothing
  <2>4. /\ d.state = "closing" /\ d.send = <<>> /\ d.control = 0
        /\ d.role = c.role /\ d.handshake = c.handshake
        /\ d.controls = c.controls /\ d.observer = c.observer
        /\ d.recv = c.recv /\ d.sent = c.sent /\ d.delivered = c.delivered
        /\ d.buffered = c.buffered /\ d.connected = c.connected
    BY <2>1, <2>2 DEF Channel
  <2>5. LifePart(d)
    <3>1. Len(c.send) \in Nat /\ Len(c.send) <= c.buffered
      BY <1>2, <2>1, LenProperties DEF ChannelInv, LifePart
    <3>2. \A m \in Nat, b \in Int : m <= b => 0 <= b
      OBVIOUS
    <3>3. 0 <= c.buffered /\ Len(<<>>) = 0
      BY <2>1, <3>1, <3>2
    <3> QED BY <2>4, <3>3 DEF LifePart
  <2>6. RecvPart(d, got)
    BY <1>2, <2>4 DEF ChannelInv, RecvPart
  <2>7. SendPart(d, acc, TRUE)
    BY <2>4 DEF ChannelInv, SendPart, Numbered
  <2>8. OpenPart(d, h)
    BY <2>4 DEF ChannelInv, OpenPart
  <2>9. ChannelInv(d, acc, TRUE, h, got)
    BY <2>3, <2>5, <2>6, <2>7, <2>8 DEF ChannelInv
  <2>10. ~Waiting(d)
    <3>1. ~(0 > 0)
      OBVIOUS
    <3> QED BY <2>4, <3>1 DEF Waiting
  <2> QED BY <1>2, <2>4, <2>9, <2>10 DEF d
<1> QED BY <1>1, <1>2

LEMMA CompleteKeeps ==
    ASSUME NEW c, NEW acc, NEW peer, NEW h, NEW got,
           ChannelInv(c, acc, peer, h, got)
    PROVE  /\ ChannelInv(OnClosingProcedureComplete(c), acc, peer, h, got)
           /\ OnClosingProcedureComplete(c).connected = FALSE
<1> DEFINE d == OnClosingProcedureComplete(c)
<1>1. c \in Channel
  BY DEF ChannelInv
<1>2. d = [c EXCEPT !.connected = FALSE, !.state = "closed"]
  BY DEF OnClosingProcedureComplete
<1> HIDE DEF d
<1>3. d \in Channel
  <2>1. \A e \in States :
            [c EXCEPT !.connected = FALSE, !.state = e] \in Channel
    BY <1>1 DEF Channel
  <2>2. "closed" \in States
    BY DEF States
  <2> QED BY <1>2, <2>1, <2>2
<1>4. /\ d.state = "closed" /\ d.send = c.send
      /\ d.role = c.role /\ d.handshake = c.handshake
      /\ d.controls = c.controls /\ d.observer = c.observer
      /\ d.recv = c.recv /\ d.sent = c.sent /\ d.delivered = c.delivered
      /\ d.connected = FALSE
  BY <1>1, <1>2 DEF Channel
<1>5. ChannelInv(d, acc, peer, h, got)
  BY <1>3, <1>4, DropKeeps
<1> QED BY <1>4, <1>5 DEF d

(* The OPEN_ACK, or any data: the peer has the OPEN message.               *)
LEMMA AcknowledgedKeeps ==
    ASSUME NEW c, NEW acc, NEW peer, NEW h, NEW got,
           ChannelInv(c, acc, peer, h, got)
    PROVE  /\ ChannelInv(Acknowledged(c), acc, peer, TRUE, got)
           /\ Acknowledged(c).state = c.state
           /\ Acknowledged(c).connected = c.connected
           /\ Acknowledged(c).send = c.send
           /\ Acknowledged(c).control = c.control
<1>1. CASE c.handshake # "WaitingForAck"
  BY <1>1, PeerKeeps DEF Acknowledged
<1>2. CASE c.handshake = "WaitingForAck"
  <2> DEFINE d == Acknowledged(c)
  <2>1. c \in Channel
    BY DEF ChannelInv
  <2>2. d = [c EXCEPT !.handshake = "Ready"]
    BY <1>2 DEF Acknowledged
  <2> HIDE DEF d
  <2>3. d \in Channel
    <3>1. \A e \in Handshakes : [c EXCEPT !.handshake = e] \in Channel
      BY <2>1 DEF Channel
    <3>2. "Ready" \in Handshakes
      BY DEF Handshakes
    <3> QED BY <2>2, <3>1, <3>2
  <2>4. /\ d.handshake = "Ready" /\ d.state = c.state /\ d.role = c.role
        /\ d.controls = c.controls /\ d.observer = c.observer
        /\ d.send = c.send /\ d.recv = c.recv /\ d.buffered = c.buffered
        /\ d.sent = c.sent /\ d.delivered = c.delivered
        /\ d.connected = c.connected /\ d.control = c.control
    BY <2>1, <2>2 DEF Channel
  <2>5. LifePart(d)
    BY <2>4 DEF ChannelInv, LifePart
  <2>6. RecvPart(d, got)
    BY <2>4 DEF ChannelInv, RecvPart
  <2>7. SendPart(d, acc, peer)
    BY <2>4 DEF ChannelInv, SendPart
  <2>8. OpenPart(d, TRUE)
    BY <1>2, <2>4 DEF ChannelInv, OpenPart
  <2>9. ChannelInv(d, acc, peer, TRUE, got)
    BY <2>3, <2>5, <2>6, <2>7, <2>8 DEF ChannelInv
  <2> QED BY <2>4, <2>9 DEF d
<1> QED BY <1>1, <1>2

(* The next message of the peer, at the end of what was received.          *)
LEMMA Arrived ==
    ASSUME NEW a \in Seq(Nat), NEW b \in Seq(Nat), NEW got,
           \A i \in 1 .. Len(a) : a[i] = i,
           \A i \in 1 .. Len(b) : b[i] = Len(a) + i,
           Total(a, b) = got
    PROVE  /\ got \in Nat
           /\ Append(b, got + 1) \in Seq(Nat)
           /\ \A i \in 1 .. Len(Append(b, got + 1)) :
                  Append(b, got + 1)[i] = Len(a) + i
           /\ Total(a, Append(b, got + 1)) = got + 1
<1> DEFINE r == Append(b, got + 1)
<1>1. Len(a) \in Nat /\ Len(b) \in Nat
  BY LenProperties
<1>2. got = Len(a) + Len(b) /\ got \in Nat
  BY <1>1 DEF Total
<1>3. /\ r \in Seq(Nat) /\ Len(r) = Len(b) + 1
      /\ \A i \in 1 .. Len(b) : r[i] = b[i]
      /\ r[Len(b) + 1] = got + 1
  BY <1>2, AppendProperties
<1> HIDE DEF r
<1>4. ASSUME NEW i \in 1 .. Len(r)
      PROVE  r[i] = Len(a) + i
  <2>1. CASE i \in 1 .. Len(b)
    BY <1>3, <2>1
  <2>2. CASE i = Len(b) + 1
    BY <1>1, <1>2, <1>3, <2>2
  <2> QED BY <1>1, <1>3, <2>1, <2>2
<1>5. Total(a, r) = got + 1
  BY <1>1, <1>2, <1>3 DEF Total
<1> QED BY <1>2, <1>3, <1>4, <1>5 DEF r

LEMMA ReceivedKeeps ==
    ASSUME NEW c, NEW acc, NEW peer, NEW h, NEW got,
           ChannelInv(c, acc, peer, h, got), c.state # "closed"
    PROVE  /\ ChannelInv(OnDataReceived(c, got + 1), acc, peer, TRUE, got + 1)
           /\ Waiting(OnDataReceived(c, got + 1)) => Waiting(c)
           /\ OnDataReceived(c, got + 1).connected => c.connected
<1> DEFINE d == Acknowledged(c)
           e == OnDataReceived(c, got + 1)
<1>1. /\ ChannelInv(d, acc, peer, TRUE, got)
      /\ d.state = c.state /\ d.connected = c.connected
      /\ d.send = c.send /\ d.control = c.control
  BY AcknowledgedKeeps
<1>2. \/ /\ d.state = "open" /\ d.observer
         /\ e = [d EXCEPT !.delivered = Append(@, got + 1)]
      \/ e = CloseAbruptly([d EXCEPT !.recv = <<>>])
      \/ /\ ~(d.state = "open" /\ d.observer)
         /\ e = [d EXCEPT !.recv = Append(@, got + 1)]
  BY DEF OnDataReceived
<1> HIDE DEF d, e
<1>3. /\ d \in Channel /\ d.delivered \in Seq(Nat) /\ d.recv \in Seq(Nat)
  BY <1>1, Fields DEF ChannelInv
<1>4. /\ \A i \in 1 .. Len(d.delivered) : d.delivered[i] = i
      /\ \A i \in 1 .. Len(d.recv) : d.recv[i] = Len(d.delivered) + i
      /\ Total(d.delivered, d.recv) = got
  BY <1>1 DEF ChannelInv, RecvPart
<1>5. CASE /\ d.state = "open" /\ d.observer
           /\ e = [d EXCEPT !.delivered = Append(@, got + 1)]
  <2> DEFINE r == Append(d.delivered, got + 1)
  <2>1. d.recv = <<>>
    BY <1>1, <1>5 DEF ChannelInv, RecvPart
  <2>2. /\ r \in Seq(Nat)
        /\ \A i \in 1 .. Len(r) : r[i] = i
        /\ Total(r, <<>>) = got + 1
    <3> DEFINE a == d.delivered
               s == Append(a, got + 1)
    <3>1. /\ a \in Seq(Nat) /\ Len(a) \in Nat /\ Total(a, <<>>) = got
          /\ \A i \in 1 .. Len(a) : a[i] = i
      BY <1>3, <1>4, <2>1, LenProperties
    <3>2. r = s
      OBVIOUS
    <3> HIDE DEF a, r
    <3>3. Len(a) = got
      BY <3>1 DEF Total
    <3>4. /\ s \in Seq(Nat) /\ Len(s) = Len(a) + 1
          /\ \A i \in 1 .. Len(a) : s[i] = a[i]
          /\ s[Len(a) + 1] = got + 1
      BY <3>1, <3>3, AppendProperties
    <3> HIDE DEF s
    <3>5. \A i \in 1 .. Len(s) : s[i] = i
      BY <3>1, <3>3, <3>4
    <3>6. Total(s, <<>>) = got + 1
      BY <3>1, <3>3, <3>4 DEF Total
    <3> QED BY <3>2, <3>4, <3>5, <3>6
  <2>3. e = [d EXCEPT !.delivered = r]
    BY <1>5
  <2> HIDE DEF r
  <2>4. e \in Channel
    <3>1. \A v \in Messages : [d EXCEPT !.delivered = v] \in Channel
      BY <1>3 DEF Channel
    <3>2. r \in Messages
      BY <2>2 DEF Messages
    <3> QED BY <2>3, <3>1, <3>2
  <2>5. /\ e.delivered = r /\ e.recv = <<>> /\ e.observer = d.observer
        /\ e.role = d.role /\ e.handshake = d.handshake /\ e.state = d.state
        /\ e.connected = d.connected /\ e.controls = d.controls
        /\ e.send = d.send /\ e.sent = d.sent /\ e.buffered = d.buffered
        /\ e.control = d.control
    BY <1>3, <2>1, <2>3 DEF Channel
  <2>6. LifePart(e)
    BY <1>1, <2>5 DEF ChannelInv, LifePart
  <2>7. RecvPart(e, got + 1)
    <3>1. 1 .. Len(e.recv) = {}
      BY <2>5
    <3> QED BY <2>2, <2>5, <3>1 DEF RecvPart
  <2>8. SendPart(e, acc, peer)
    BY <1>1, <2>5 DEF ChannelInv, SendPart
  <2>9. OpenPart(e, TRUE)
    BY <1>1, <2>5 DEF ChannelInv, OpenPart
  <2>10. ChannelInv(e, acc, peer, TRUE, got + 1)
    BY <2>4, <2>6, <2>7, <2>8, <2>9 DEF ChannelInv
  <2> QED BY <1>1, <2>5, <2>10 DEF Waiting, e
<1>6. CASE e = CloseAbruptly([d EXCEPT !.recv = <<>>])
  <2> DEFINE f == [d EXCEPT !.recv = <<>>]
             any == Total(d.delivered, <<>>)
  <2>1. f \in Channel
    <3>1. \A v \in Messages : [d EXCEPT !.recv = v] \in Channel
      BY <1>3 DEF Channel
    <3> QED BY <3>1, Nothing
  <2>2. /\ f.delivered = d.delivered /\ f.recv = <<>>
        /\ f.observer = d.observer
        /\ f.role = d.role /\ f.handshake = d.handshake /\ f.state = d.state
        /\ f.connected = d.connected /\ f.controls = d.controls
        /\ f.send = d.send /\ f.sent = d.sent /\ f.buffered = d.buffered
    BY <1>3 DEF Channel
  <2>3. e = CloseAbruptly(f)
    BY <1>6
  <2>4. Total(f.delivered, f.recv) = any
    BY <2>2
  <2> HIDE DEF f, any
  <2>5. LifePart(f)
    BY <1>1, <2>2 DEF ChannelInv, LifePart
  <2>6. RecvPart(f, any)
    <3>1. 1 .. Len(f.recv) = {}
      BY <2>2
    <3> QED BY <1>4, <2>2, <2>4, <3>1 DEF RecvPart
  <2>7. SendPart(f, acc, peer)
    BY <1>1, <2>2 DEF ChannelInv, SendPart
  <2>8. OpenPart(f, TRUE)
    BY <1>1, <2>2 DEF ChannelInv, OpenPart
  <2>9. ChannelInv(f, acc, peer, TRUE, any)
    BY <2>1, <2>5, <2>6, <2>7, <2>8 DEF ChannelInv
  <2>10. /\ ChannelInv(e, acc, peer, TRUE, any)
         /\ e.state = "closed" /\ ~e.connected
    BY <2>3, <2>9, CloseAbruptlyKeeps
  <2>11. ChannelInv(e, acc, peer, TRUE, got + 1)
    BY <2>10, ClosedKeeps
  <2> QED BY <2>10, <2>11 DEF Waiting, e
<1>7. CASE /\ ~(d.state = "open" /\ d.observer)
           /\ e = [d EXCEPT !.recv = Append(@, got + 1)]
  <2> DEFINE r == Append(d.recv, got + 1)
  <2>1. /\ r \in Seq(Nat)
        /\ \A i \in 1 .. Len(r) : r[i] = Len(d.delivered) + i
        /\ Total(d.delivered, r) = got + 1
    <3> DEFINE a == d.delivered
               b == d.recv
               s == Append(b, got + 1)
    <3>1. /\ a \in Seq(Nat) /\ b \in Seq(Nat) /\ Total(a, b) = got
          /\ \A i \in 1 .. Len(a) : a[i] = i
          /\ \A i \in 1 .. Len(b) : b[i] = Len(a) + i
      BY <1>3, <1>4
    <3>2. r = s
      OBVIOUS
    <3> HIDE DEF a, b, r
    <3>3. /\ s \in Seq(Nat)
          /\ \A i \in 1 .. Len(s) : s[i] = Len(a) + i
          /\ Total(a, s) = got + 1
      BY <3>1, Arrived
    <3> HIDE DEF s
    <3> QED BY <3>2, <3>3 DEF a
  <2>2. e = [d EXCEPT !.recv = r]
    BY <1>7
  <2> HIDE DEF r
  <2>3. e \in Channel
    <3>1. \A v \in Messages : [d EXCEPT !.recv = v] \in Channel
      BY <1>3 DEF Channel
    <3>2. r \in Messages
      BY <2>1 DEF Messages
    <3> QED BY <2>2, <3>1, <3>2
  <2>4. /\ e.delivered = d.delivered /\ e.recv = r
        /\ e.observer = d.observer
        /\ e.role = d.role /\ e.handshake = d.handshake /\ e.state = d.state
        /\ e.connected = d.connected /\ e.controls = d.controls
        /\ e.send = d.send /\ e.sent = d.sent /\ e.buffered = d.buffered
        /\ e.control = d.control
    BY <1>3, <2>2 DEF Channel
  <2>5. LifePart(e)
    BY <1>1, <2>4 DEF ChannelInv, LifePart
  <2>6. RecvPart(e, got + 1)
    BY <1>4, <1>7, <2>1, <2>4 DEF RecvPart
  <2>7. SendPart(e, acc, peer)
    BY <1>1, <2>4 DEF ChannelInv, SendPart
  <2>8. OpenPart(e, TRUE)
    BY <1>1, <2>4 DEF ChannelInv, OpenPart
  <2>9. ChannelInv(e, acc, peer, TRUE, got + 1)
    BY <2>3, <2>5, <2>6, <2>7, <2>8 DEF ChannelInv
  <2> QED BY <1>1, <2>4, <2>9 DEF Waiting, e
<1> QED BY <1>2, <1>5, <1>6, <1>7

-----------------------------------------------------------------------------
(* The tasks of the signaling thread.                                      *)

Kinds == {"init_ready", "ready", "changed", "ack", "data", "closing", "closed"}

Task == Kinds \X Nat

(* A ready signal is under way.                                            *)
Woken(ts) == \E i \in 1 .. Len(ts) : ts[i][1] \in {"ready", "init_ready"}

(* The data messages under way are those after the first got ones, up to   *)
(* the last one sent, in order.                                            *)
Coming(ts, got, last) ==
    /\ got \in Nat /\ last \in Nat /\ got <= last
    /\ \A i \in 1 .. Len(ts) :
           ts[i][1] = "data" => ts[i][2] \in got + 1 .. last
    /\ \A i, j \in 1 .. Len(ts) :
           i < j /\ ts[i][1] = "data" /\ ts[j][1] = "data" =>
               ts[i][2] < ts[j][2]
    /\ \A m \in got + 1 .. last : \E i \in 1 .. Len(ts) : ts[i] = <<"data", m>>

(* The peer reset its stream before it is said to close the channel.       *)
ClosingOnly(ts, peer) == \A i \in 1 .. Len(ts) : ts[i][1] = "closing" => peer

LEMMA Posted ==
    ASSUME NEW ts \in Seq(Task), NEW kind \in Kinds, NEW m \in Nat, NEW us,
           us = Append(ts, <<kind, m>>)
    PROVE  /\ us \in Seq(Task)
           /\ Woken(ts) \/ kind = "ready" => Woken(us)
           /\ \A got, last : kind # "data" /\ Coming(ts, got, last) =>
                  Coming(us, got, last)
           /\ \A got, last : kind = "data" /\ m = last + 1
                             /\ Coming(ts, got, last) =>
                  Coming(us, got, last + 1)
           /\ \A peer : ClosingOnly(ts, peer) /\ (kind = "closing" => peer) =>
                  ClosingOnly(us, peer)
<1> DEFINE t == <<kind, m>>
<1>1. t \in Task /\ t[1] = kind /\ t[2] = m
  BY DEF Task
<1>2. us = Append(ts, t)
  OBVIOUS
<1>3. Len(ts) \in Nat
  BY LenProperties
<1> HIDE DEF t
<1>4. /\ us \in Seq(Task) /\ Len(us) = Len(ts) + 1
      /\ \A i \in 1 .. Len(ts) : us[i] = ts[i]
      /\ us[Len(ts) + 1] = t
  BY <1>1, <1>2, AppendProperties
<1>5. /\ \A i \in 1 .. Len(ts) : i \in 1 .. Len(us) /\ us[i] = ts[i]
      /\ Len(us) \in 1 .. Len(us) /\ us[Len(us)] = t
      /\ \A i \in 1 .. Len(us) : i \in 1 .. Len(ts) \/ i = Len(us)
  BY <1>3, <1>4
<1>6. Woken(ts) \/ kind = "ready" => Woken(us)
  BY <1>1, <1>5 DEF Woken
<1>7. ASSUME NEW peer, ClosingOnly(ts, peer), kind = "closing" => peer
      PROVE  ClosingOnly(us, peer)
  BY <1>1, <1>5, <1>7 DEF ClosingOnly
<1>8. ASSUME NEW got, NEW last, kind # "data", Coming(ts, got, last)
      PROVE  Coming(us, got, last)
  <2>1. \A i \in 1 .. Len(us) : us[i][1] = "data" =>
            i \in 1 .. Len(ts) /\ us[i] = ts[i]
    BY <1>1, <1>5, <1>8
  <2>2. \A i \in 1 .. Len(us) :
            us[i][1] = "data" => us[i][2] \in got + 1 .. last
    BY <1>8, <2>1 DEF Coming
  <2>3. ASSUME NEW i \in 1 .. Len(us), NEW j \in 1 .. Len(us), i < j,
               us[i][1] = "data", us[j][1] = "data"
        PROVE  us[i][2] < us[j][2]
    BY <1>8, <2>1, <2>3 DEF Coming
  <2>4. \A k \in got + 1 .. last :
            \E i \in 1 .. Len(us) : us[i] = <<"data", k>>
    BY <1>5, <1>8 DEF Coming
  <2> QED BY <1>8, <2>2, <2>3, <2>4 DEF Coming
<1>9. ASSUME NEW got, NEW last, kind = "data", m = last + 1,
             Coming(ts, got, last)
      PROVE  Coming(us, got, last + 1)
  <2>1. got \in Nat /\ last \in Nat /\ got <= last
    BY <1>9 DEF Coming
  <2>2. \A i \in 1 .. Len(ts) : us[i][1] = "data" =>
            us[i][2] \in got + 1 .. last
    BY <1>5, <1>9 DEF Coming
  <2>3. us[Len(us)][2] = last + 1 /\ us[Len(us)] = <<"data", last + 1>>
    BY <1>1, <1>5, <1>9 DEF t
  <2>4. \A i \in 1 .. Len(us) : us[i][1] = "data" =>
            us[i][2] \in got + 1 .. last + 1
    BY <1>5, <2>1, <2>2, <2>3
  <2>5. ASSUME NEW i \in 1 .. Len(us), NEW j \in 1 .. Len(us), i < j,
               us[i][1] = "data", us[j][1] = "data"
        PROVE  us[i][2] < us[j][2]
    <3>1. i \in 1 .. Len(ts)
      BY <1>3, <1>4, <2>5
    <3>2. CASE j \in 1 .. Len(ts)
      BY <1>5, <1>9, <2>5, <3>1, <3>2 DEF Coming
    <3>3. CASE j = Len(us)
      <4>1. us[i][2] \in got + 1 .. last
        BY <2>2, <2>5, <3>1
      <4>2. us[j][2] = last + 1
        BY <2>3, <3>3
      <4> QED BY <2>1, <4>1, <4>2
    <3> QED BY <1>5, <3>2, <3>3
  <2>6. ASSUME NEW k \in got + 1 .. last + 1
        PROVE  \E i \in 1 .. Len(us) : us[i] = <<"data", k>>
    <3>1. CASE k = last + 1
      BY <1>5, <2>3, <3>1
    <3>2. CASE k # last + 1
      <4>1. k \in got + 1 .. last
        BY <2>1, <3>2
      <4> QED BY <1>5, <1>9, <4>1 DEF Coming
    <3> QED BY <3>1, <3>2
  <2>7. got <= last + 1 /\ last + 1 \in Nat
    BY <2>1
  <2> QED BY <2>1, <2>4, <2>5, <2>6, <2>7 DEF Coming
<1> QED BY <1>4, <1>6, <1>7, <1>8, <1>9

(* What is true of the tasks us left when ts began with a task.            *)
Leaves(ts, kind, m, us) ==
    /\ us \in Seq(Task)
    /\ Woken(ts) /\ kind \notin {"ready", "init_ready"} => Woken(us)
    /\ \A got, last : kind # "data" /\ Coming(ts, got, last) =>
           Coming(us, got, last)
    /\ \A got, last : kind = "data" /\ Coming(ts, got, last) =>
           m = got + 1 /\ Coming(us, got + 1, last)
    /\ \A peer : ClosingOnly(ts, peer) =>
           ClosingOnly(us, peer) /\ (kind = "closing" => peer)

LEMMA Handled ==
    ASSUME NEW ts \in Seq(Task), ts # <<>>, NEW kind, NEW m,
           Head(ts) = <<kind, m>>, NEW us, us = Tail(ts)
    PROVE  Leaves(ts, kind, m, us)
<1> DEFINE t == <<kind, m>>
<1>1. t[1] = kind /\ t[2] = m
  OBVIOUS
<1>2. /\ us \in Seq(Task) /\ Len(ts) \in Nat /\ Len(us) = Len(ts) - 1
      /\ Len(ts) # 0
      /\ \A i \in 1 .. Len(us) : us[i] = ts[i + 1]
  BY HeadTailProperties, EmptySeq, LenProperties
<1>3. ts[1] = t
  OBVIOUS
<1> HIDE DEF t
<1>4. /\ 1 \in 1 .. Len(ts)
      /\ \A i \in 1 .. Len(us) : i + 1 \in 1 .. Len(ts) /\ us[i] = ts[i + 1]
      /\ \A i \in 1 .. Len(ts) : i # 1 =>
             i - 1 \in 1 .. Len(us) /\ us[i - 1] = ts[i] /\ 1 < i
  <2>1. 1 \in 1 .. Len(ts)
    BY <1>2
  <2>2. \A i \in 1 .. Len(us) : i + 1 \in 1 .. Len(ts) /\ us[i] = ts[i + 1]
    BY <1>2
  <2>3. ASSUME NEW i \in 1 .. Len(ts), i # 1
        PROVE  i - 1 \in 1 .. Len(us) /\ us[i - 1] = ts[i] /\ 1 < i
    <3>1. i - 1 \in 1 .. Len(us) /\ (i - 1) + 1 = i /\ 1 < i
      BY <1>2, <2>3
    <3>2. us[i - 1] = ts[(i - 1) + 1]
      BY <1>2, <3>1
    <3> QED BY <3>1, <3>2
  <2> QED BY <2>1, <2>2, <2>3
<1>5. Woken(ts) /\ kind \notin {"ready", "init_ready"} => Woken(us)
  BY <1>1, <1>3, <1>4 DEF Woken
<1>6. ASSUME NEW peer, ClosingOnly(ts, peer)
      PROVE  ClosingOnly(us, peer) /\ (kind = "closing" => peer)
  BY <1>1, <1>3, <1>4, <1>6 DEF ClosingOnly
<1>7. ASSUME NEW got, NEW last, Coming(ts, got, last)
      PROVE  \A i, j \in 1 .. Len(us) :
                 i < j /\ us[i][1] = "data" /\ us[j][1] = "data" =>
                     us[i][2] < us[j][2]
  <2>1. SUFFICES ASSUME NEW i \in 1 .. Len(us), NEW j \in 1 .. Len(us),
                        i < j, us[i][1] = "data", us[j][1] = "data"
                 PROVE  us[i][2] < us[j][2]
    OBVIOUS
  <2>2. i + 1 < j + 1
    BY <1>2, <2>1
  <2> QED BY <1>4, <1>7, <2>1, <2>2 DEF Coming
<1>8. ASSUME NEW got, NEW last, kind # "data", Coming(ts, got, last)
      PROVE  Coming(us, got, last)
  <2>1. \A i \in 1 .. Len(us) :
            us[i][1] = "data" => us[i][2] \in got + 1 .. last
    BY <1>4, <1>8 DEF Coming
  <2>2. ASSUME NEW k \in got + 1 .. last
        PROVE  \E i \in 1 .. Len(us) : us[i] = <<"data", k>>
    <3>1. PICK i \in 1 .. Len(ts) : ts[i] = <<"data", k>>
      BY <1>8 DEF Coming
    <3>2. i # 1
      BY <1>1, <1>3, <1>8, <3>1
    <3> QED BY <1>4, <3>1, <3>2
  <2> QED BY <1>7, <1>8, <2>1, <2>2 DEF Coming
<1>9. ASSUME NEW got, NEW last, kind = "data", Coming(ts, got, last)
      PROVE  m = got + 1 /\ Coming(us, got + 1, last)
  <2>1. got \in Nat /\ last \in Nat /\ got <= last
    BY <1>9 DEF Coming
  <2>2. m \in got + 1 .. last
    BY <1>1, <1>3, <1>4, <1>9 DEF Coming
  <2>3. got + 1 \in got + 1 .. last
    BY <2>1, <2>2
  <2>4. PICK first \in 1 .. Len(ts) : ts[first] = <<"data", got + 1>>
    BY <1>9, <2>3 DEF Coming
  <2>5. m = got + 1
    <3>1. CASE first = 1
      BY <1>1, <1>3, <2>4, <3>1
    <3>2. CASE first # 1
      <4>1. 1 < first /\ ts[1][1] = "data" /\ ts[first][1] = "data"
            /\ ts[first][2] = got + 1 /\ ts[1][2] = m
        BY <1>1, <1>3, <1>4, <1>9, <2>4, <3>2
      <4>2. m < got + 1
        BY <1>4, <1>9, <4>1 DEF Coming
      <4> QED BY <2>1, <2>2, <4>2
    <3> QED BY <3>1, <3>2
  <2>6. ASSUME NEW i \in 1 .. Len(us), us[i][1] = "data"
        PROVE  us[i][2] \in (got + 1) + 1 .. last
    <3>1. us[i][2] \in got + 1 .. last
      BY <1>4, <1>9, <2>6 DEF Coming
    <3>2. 1 < i + 1 /\ ts[1][1] = "data" /\ ts[1][2] = m
      BY <1>1, <1>3, <1>9
    <3>3. m < us[i][2]
      BY <1>4, <1>9, <2>6, <3>2 DEF Coming
    <3> QED BY <2>1, <2>5, <3>1, <3>3
  <2>7. ASSUME NEW k \in (got + 1) + 1 .. last
        PROVE  \E i \in 1 .. Len(us) : us[i] = <<"data", k>>
    <3>1. k \in got + 1 .. last /\ k # m
      BY <2>1, <2>5
    <3>2. PICK i \in 1 .. Len(ts) : ts[i] = <<"data", k>>
      BY <1>9, <3>1 DEF Coming
    <3>3. i # 1
      BY <1>1, <1>3, <3>1, <3>2
    <3> QED BY <1>4, <3>2, <3>3
  <2>8. got + 1 \in Nat /\ got + 1 <= last
    BY <2>1, <2>3
  <2> QED BY <1>7, <1>9, <2>1, <2>5, <2>6, <2>7, <2>8 DEF Coming
<1> QED BY <1>2, <1>5, <1>6, <1>8, <1>9 DEF Leaves

-----------------------------------------------------------------------------
(* The system.                                                             *)

Got == Total(channel.delivered, channel.recv)

(* The inductive invariant.  The data messages under way go on where the   *)
(* received ones end, a channel without a transport has no tasks, and what *)
(* waits on a connected channel will be woken.                             *)
DataChannelInv ==
    /\ accepted \in Nat /\ heard \in BOOLEAN /\ peerReset \in BOOLEAN
    /\ tasks \in Seq(Task) /\ received \in Nat
    /\ ChannelInv(channel, accepted, peerReset, heard, Got)
    /\ transport = "none" =>
           tasks = <<>> /\ ~up /\ ~ready /\ stream = "absent"
    /\ ClosingOnly(tasks, peerReset)
    /\ channel.state # "closed" /\ (channel.connected \/ transport = "none") =>
           Coming(tasks, Got, received)
    /\ Waiting(channel) => ~ready \/ Woken(tasks)

LEMMA Recounted ==
    ASSUME NEW c, NEW acc, NEW peer, NEW h, NEW got,
           ChannelInv(c, acc, peer, h, got)
    PROVE  /\ ChannelInv(c, acc, peer, h, Total(c.delivered, c.recv))
           /\ c.state # "closed" => Total(c.delivered, c.recv) = got
BY DEF ChannelInv, RecvPart

(* What a step has to show.                                                *)
LEMMA StepKeeps ==
    ASSUME NEW got, ChannelInv(channel', accepted', peerReset', heard', got),
           accepted' \in Nat, heard' \in BOOLEAN, peerReset' \in BOOLEAN,
           tasks' \in Seq(Task), received' \in Nat,
           transport' = "none" =>
               tasks' = <<>> /\ ~up' /\ ~ready' /\ stream' = "absent",
           ClosingOnly(tasks', peerReset'),
           channel'.state # "closed"
               /\ (channel'.connected \/ transport' = "none") =>
                   Coming(tasks', got, received'),
           Waiting(channel') => ~ready' \/ Woken(tasks')
    PROVE  DataChannelInv'
<1>1. /\ ChannelInv(channel', accepted', peerReset', heard', Got')
      /\ channel'.state # "closed" => Got' = got
  BY Recounted DEF Got
<1> QED BY <1>1 DEF DataChannelInv

LEMMA BecomesKeeps ==
    ASSUME NEW c, NEW acc, NEW peer, NEW h, NEW got,
           ChannelInv(c, acc, peer, h, got), Becomes(c)
    PROVE  /\ ChannelInv(channel', acc, peer, h, got)
           /\ channel'.connected = c.connected /\ channel'.state = c.state
           /\ Waiting(channel') => Waiting(c)
           /\ ready' => ready /\ ~c.blocked
           /\ up' = up /\ received' = received
           /\ stream = "absent" => stream' = "absent"
<1>1. /\ channel' = [c EXCEPT !.blocked = FALSE]
      /\ ready' = (ready /\ ~c.blocked)
      /\ up' = up /\ received' = received
      /\ stream = "absent" => stream' = "absent"
  BY DEF Becomes
<1> DEFINE d == [c EXCEPT !.blocked = FALSE]
<1>2. /\ ChannelInv(d, acc, peer, h, got) /\ d.state = c.state
      /\ d.connected = c.connected /\ d.send = c.send
      /\ d.control = c.control
  BY BlockedKeeps
<1> HIDE DEF d
<1>3. channel' = d
  BY <1>1 DEF d
<1>4. ready' => ready /\ ~c.blocked
  BY <1>1, Zenon
<1> QED BY <1>1, <1>2, <1>3, <1>4 DEF Waiting

(* Calls of the application.                                               *)
LEMMA AppSendStep ==
    ASSUME DataChannelInv, AppSend
    PROVE  DataChannelInv'
<1>1. PICK c \in Send(channel, accepted + 1, Answers) : Becomes(c)
  BY DEF AppSend
<1>2. /\ accepted' = IF channel.state = "open" THEN accepted + 1 ELSE accepted
      /\ peerReset' = peerReset /\ transport' = transport /\ tasks' = tasks
      /\ heard' = heard
  BY DEF AppSend
<1>3. accepted \in Nat /\ ChannelInv(channel, accepted, peerReset, heard, Got)
  BY DEF DataChannelInv
<1>4. /\ ChannelInv(c, accepted', peerReset', heard', Got)
      /\ Waiting(c) => c.blocked \/ Waiting(channel)
      /\ c.connected => channel.connected
      /\ channel.state = "closed" => c.state = "closed"
  BY <1>2, <1>3, SendKeeps
<1>5. /\ ChannelInv(channel', accepted', peerReset', heard', Got)
      /\ channel'.connected = c.connected /\ channel'.state = c.state
      /\ Waiting(channel') => Waiting(c)
      /\ ready' => ready /\ ~c.blocked
      /\ up' = up /\ received' = received
      /\ stream = "absent" => stream' = "absent"
  BY <1>1, <1>4, BecomesKeeps
<1>6. accepted' \in Nat
  BY <1>2, <1>3
<1>7. Coming(tasks, Got, received) => Coming(tasks', Got, received')
  BY <1>2, <1>5
<1> QED BY <1>2, <1>4, <1>5, <1>6, <1>7, StepKeeps DEF DataChannelInv

LEMMA AppCloseStep ==
    ASSUME DataChannelInv, AppClose
    PROVE  DataChannelInv'
<1>1. PICK c \in Close(channel, Answers) : Becomes(c)
  BY DEF AppClose
<1>2. /\ accepted' = accepted /\ peerReset' = peerReset
      /\ transport' = transport /\ tasks' = tasks /\ heard' = heard
  BY DEF AppClose
<1>3. ChannelInv(channel, accepted, peerReset, heard, Got)
  BY DEF DataChannelInv
<1>4. /\ ChannelInv(c, accepted, peerReset, heard, Got)
      /\ c.connected = channel.connected /\ c.send = channel.send
      /\ c.control = channel.control
      /\ channel.state = "closed" => c.state = "closed"
  BY <1>1, <1>3, CloseKeeps
<1>5. /\ ChannelInv(channel', accepted, peerReset, heard, Got)
      /\ channel'.connected = c.connected /\ channel'.state = c.state
      /\ Waiting(channel') => Waiting(c)
      /\ ready' => ready /\ ~c.blocked
      /\ up' = up /\ received' = received
      /\ stream = "absent" => stream' = "absent"
  BY <1>1, <1>4, BecomesKeeps
<1>6. Waiting(channel') => Waiting(channel)
  BY <1>4, <1>5 DEF Waiting
<1> QED BY <1>2, <1>4, <1>5, <1>6, StepKeeps DEF DataChannelInv

(* A step that leaves the transport and the tasks alone.                   *)
LEMMA ChannelStep ==
    ASSUME DataChannelInv,
           ChannelInv(channel', accepted, peerReset, heard, Got),
           channel'.connected => channel.connected,
           channel.state = "closed" => channel'.state = "closed",
           Waiting(channel') => Waiting(channel),
           accepted' = accepted, heard' = heard, peerReset' = peerReset,
           transport' = transport, tasks' = tasks, up' = up, ready' = ready,
           received' = received,
           transport = "none" /\ stream = "absent" => stream' = "absent"
    PROVE  DataChannelInv'
BY StepKeeps DEF DataChannelInv

LEMMA AppObserveStep ==
    ASSUME DataChannelInv, AppObserve
    PROVE  DataChannelInv'
<1>1. /\ accepted' = accepted /\ heard' = heard /\ peerReset' = peerReset
      /\ transport' = transport /\ tasks' = tasks /\ up' = up
      /\ ready' = ready /\ received' = received /\ stream' = stream
  BY DEF AppObserve, environment, boundVars
<1>2. channel' \in {RegisterObserver(channel), UnregisterObserver(channel)}
  BY DEF AppObserve
<1>3. ChannelInv(channel, accepted, peerReset, heard, Got)
  BY DEF DataChannelInv
<1>4. /\ ChannelInv(channel', accepted, peerReset, heard, Got)
      /\ channel'.connected = channel.connected
      /\ channel'.send = channel.send /\ channel'.control = channel.control
      /\ channel'.state = channel.state
  BY <1>2, <1>3, ObserverKeeps
<1>5. Waiting(channel') => Waiting(channel)
  BY <1>4 DEF Waiting
<1> QED BY <1>1, <1>4, <1>5, ChannelStep

(* Calls of PeerConnection and DataChannelController.                      *)
LEMMA CreatedStep ==
    ASSUME DataChannelInv, OnTransportChannelCreated
    PROVE  DataChannelInv'
<1>1. /\ transport = "none" /\ channel.state # "closed"
      /\ transport' = "set" /\ channel' = [channel EXCEPT !.connected = TRUE]
      /\ accepted' = accepted /\ heard' = heard /\ peerReset' = peerReset
      /\ tasks' = tasks /\ up' = up /\ ready' = ready /\ received' = received
  BY DEF OnTransportChannelCreated, boundVars
<1>2. ChannelInv(channel, accepted, peerReset, heard, Got)
  BY DEF DataChannelInv
<1>3. ChannelInv(channel', accepted, peerReset, heard, Got)
  BY <1>1, <1>2, ConnectedKeeps
<1>4. Coming(tasks, Got, received) /\ ~ready
  BY <1>1 DEF DataChannelInv
<1> QED BY <1>1, <1>3, <1>4, StepKeeps DEF DataChannelInv

LEMMA SetSctpSidStep ==
    ASSUME DataChannelInv, SetSctpSid
    PROVE  DataChannelInv'
<1>1. /\ channel' = [channel EXCEPT !.sid = TRUE]
      /\ accepted' = accepted /\ heard' = heard /\ peerReset' = peerReset
      /\ transport' = transport /\ tasks' = tasks /\ up' = up
      /\ ready' = ready /\ received' = received
      /\ transport = "none" /\ stream = "absent" => stream' = "absent"
  BY DEF SetSctpSid, AddSctpDataStream, boundVars
<1>2. ChannelInv(channel, accepted, peerReset, heard, Got)
  BY DEF DataChannelInv
<1>3. /\ ChannelInv(channel', accepted, peerReset, heard, Got)
      /\ Waiting(channel') => Waiting(channel)
      /\ channel'.connected = channel.connected
      /\ channel'.state = channel.state
  BY <1>1, <1>2, ConnectedKeeps
<1> QED BY <1>1, <1>3, ChannelStep

LEMMA CloseAbruptlyStep ==
    ASSUME DataChannelInv,
           CloseAbruptlyWithDataChannelFailure \/ OnTransportChannelClosed
    PROVE  DataChannelInv'
<1>1. /\ channel' = CloseAbruptly(channel)
      /\ accepted' = accepted /\ heard' = heard /\ peerReset' = peerReset
      /\ transport' = transport /\ tasks' = tasks /\ up' = up
      /\ ready' = ready /\ received' = received /\ stream' = stream
  BY DEF CloseAbruptlyWithDataChannelFailure, OnTransportChannelClosed,
         environment, boundVars
<1>2. ChannelInv(channel, accepted, peerReset, heard, Got)
  BY DEF DataChannelInv
<1>3. /\ ChannelInv(channel', accepted, peerReset, heard, Got)
      /\ ~channel'.connected /\ channel'.state = "closed"
  BY <1>1, <1>2, CloseAbruptlyKeeps
<1>4. ~Waiting(channel')
  BY <1>3 DEF Waiting
<1> QED BY <1>1, <1>3, <1>4, ChannelStep

(* Steps that post a task, or only change the transport's status.          *)
LEMMA PostStep ==
    ASSUME DataChannelInv, NEW kind \in Kinds, NEW m \in Nat,
           tasks' = Append(tasks, <<kind, m>>), channel' = channel,
           accepted' = accepted, heard' = heard, transport' = transport,
           transport # "none", peerReset' \in BOOLEAN, peerReset => peerReset',
           kind = "closing" => peerReset',
           ready' => ready \/ kind = "ready",
           \/ kind # "data" /\ received' = received
           \/ kind = "data" /\ m = received + 1 /\ received' = received + 1
    PROVE  DataChannelInv'
<1>1. /\ tasks \in Seq(Task)
      /\ ChannelInv(channel, accepted, peerReset, heard, Got)
      /\ ClosingOnly(tasks, peerReset) /\ peerReset \in BOOLEAN
  BY DEF DataChannelInv
<1>2. /\ tasks' \in Seq(Task)
      /\ Woken(tasks) \/ kind = "ready" => Woken(tasks')
      /\ kind # "data" /\ Coming(tasks, Got, received) =>
             Coming(tasks', Got, received)
      /\ kind = "data" /\ m = received + 1 /\ Coming(tasks, Got, received) =>
             Coming(tasks', Got, received + 1)
      /\ ClosingOnly(tasks, peerReset') /\ (kind = "closing" => peerReset') =>
             ClosingOnly(tasks', peerReset')
  BY <1>1, Posted
<1>3. ChannelInv(channel', accepted', peerReset', heard', Got)
  <2>1. CASE peerReset' = TRUE
    BY <1>1, <2>1, PeerKeeps
  <2>2. CASE peerReset' = FALSE
    <3>1. peerReset = FALSE
      BY <1>1, <2>2
    <3> QED BY <1>1, <2>2, <3>1
  <2> QED BY <2>1, <2>2
<1>4. ClosingOnly(tasks, peerReset')
  BY <1>1 DEF ClosingOnly
<1>5. Coming(tasks, Got, received) => Coming(tasks', Got, received')
  BY <1>2
<1>6. received' \in Nat
  BY DEF DataChannelInv
<1> QED BY <1>2, <1>3, <1>4, <1>5, <1>6, StepKeeps DEF DataChannelInv

LEMMA NetworkStep ==
    ASSUME DataChannelInv,
           \/ OnTransportChanged \/ SetReadyToSendData \/ PeerSends
           \/ PeerCloses \/ ResetComplete
    PROVE  DataChannelInv'
<1>1. peerReset \in BOOLEAN /\ (up \/ stream # "absent" => transport # "none")
  BY DEF DataChannelInv
<1>2. CASE OnTransportChanged
  <2>1. /\ tasks' = Append(tasks, <<"changed", 0>>) /\ channel' = channel
        /\ accepted' = accepted /\ heard' = heard /\ transport' = transport
        /\ transport # "none" /\ peerReset' = peerReset /\ ready' = ready
        /\ received' = received /\ "changed" \in Kinds
    BY <1>2 DEF OnTransportChanged, Kinds
  <2> QED BY <1>1, <2>1, PostStep
<1>3. CASE SetReadyToSendData
  <2>1. /\ tasks' = Append(tasks, <<"ready", 0>>) /\ channel' = channel
        /\ accepted' = accepted /\ heard' = heard /\ transport' = transport
        /\ transport # "none" /\ peerReset' = peerReset
        /\ received' = received /\ "ready" \in Kinds
    BY <1>3 DEF SetReadyToSendData, Post, Kinds, boundVars
  <2> QED BY <1>1, <2>1, PostStep
<1>4. CASE PeerSends
  <2>1. /\ channel' = channel
        /\ accepted' = accepted /\ heard' = heard /\ transport' = transport
        /\ transport # "none" /\ peerReset' = peerReset /\ ready' = ready
        /\ "ack" \in Kinds /\ "data" \in Kinds
        /\ \/ tasks' = Append(tasks, <<"ack", 0>>) /\ received' = received
           \/ /\ tasks' = Append(tasks, <<"data", received + 1>>)
              /\ received' = received + 1
    BY <1>1, <1>4 DEF PeerSends, Post, Kinds
  <2>2. CASE tasks' = Append(tasks, <<"ack", 0>>) /\ received' = received
    BY <1>1, <2>1, <2>2, PostStep
  <2>3. CASE /\ tasks' = Append(tasks, <<"data", received + 1>>)
             /\ received' = received + 1
    <3>1. received + 1 \in Nat
      BY DEF DataChannelInv
    <3> QED BY <1>1, <2>1, <2>3, <3>1, PostStep
  <2> QED BY <2>1, <2>2, <2>3
<1>5. CASE PeerCloses
  <2>1. /\ tasks' = Append(tasks, <<"closing", 0>>) /\ channel' = channel
        /\ accepted' = accepted /\ heard' = heard /\ transport' = transport
        /\ transport # "none" /\ peerReset' = TRUE /\ ready' = ready
        /\ received' = received /\ "closing" \in Kinds
    BY <1>1, <1>5 DEF PeerCloses, Post, Kinds, boundVars
  <2> QED BY <1>1, <2>1, PostStep
<1>6. CASE ResetComplete
  <2>1. /\ tasks' = Append(tasks, <<"closed", 0>>) /\ channel' = channel
        /\ accepted' = accepted /\ heard' = heard /\ transport' = transport
        /\ transport # "none" /\ peerReset' = peerReset /\ ready' = ready
        /\ received' = received /\ "closed" \in Kinds
    BY <1>1, <1>6 DEF ResetComplete, Post, Kinds, boundVars
  <2> QED BY <1>1, <2>1, PostStep
<1> QED BY <1>2, <1>3, <1>4, <1>5, <1>6

LEMMA TransportStep ==
    ASSUME DataChannelInv,
           OtherChannelBlocks \/ PeerAnswersReset \/ UnsentReset
    PROVE  DataChannelInv'
<1>1. /\ tasks' = tasks /\ channel' = channel /\ accepted' = accepted
      /\ heard' = heard /\ transport' = transport /\ up' = up
      /\ received' = received
      /\ ready' => ready
      /\ peerReset' = peerReset \/ peerReset' = TRUE
      /\ transport = "none" /\ stream = "absent" => stream' = "absent"
  BY DEF OtherChannelBlocks, PeerAnswersReset, UnsentReset, boundVars
<1>2. ChannelInv(channel, accepted, peerReset, heard, Got)
  BY DEF DataChannelInv
<1>3. ChannelInv(channel', accepted', peerReset', heard', Got)
  BY <1>1, <1>2, PeerKeeps
<1>4. ClosingOnly(tasks', peerReset')
  BY <1>1 DEF DataChannelInv, ClosingOnly
<1> QED BY <1>1, <1>3, <1>4, StepKeeps DEF DataChannelInv

(* Tasks.                                                                  *)
LEMMA HandledStep ==
    ASSUME DataChannelInv, NEW kind, NEW m, Signal(kind, m)
    PROVE  /\ tasks' \in Seq(Task) /\ transport # "none"
           /\ transport' = transport /\ peerReset' = peerReset
           /\ accepted' = accepted
           /\ ClosingOnly(tasks', peerReset')
           /\ kind = "closing" => peerReset
           /\ Woken(tasks) /\ kind \notin {"ready", "init_ready"} =>
                  Woken(tasks')
           /\ kind # "data" /\ Coming(tasks, Got, received) =>
                  Coming(tasks', Got, received)
           /\ kind = "data" /\ Coming(tasks, Got, received) =>
                  m = Got + 1 /\ Coming(tasks', Got + 1, received)
<1>1. /\ tasks # <<>> /\ Head(tasks) = <<kind, m>> /\ tasks' = Tail(tasks)
      /\ transport' = transport /\ peerReset' = peerReset
      /\ accepted' = accepted
  BY DEF Signal
<1>2. /\ tasks \in Seq(Task) /\ ClosingOnly(tasks, peerReset)
      /\ transport # "none"
  BY <1>1 DEF DataChannelInv
<1>3. Leaves(tasks, kind, m, tasks')
  BY <1>1, <1>2, Handled, Zenon
<1> QED BY <1>1, <1>2, <1>3 DEF Leaves

LEMMA ReadyStep ==
    ASSUME DataChannelInv, OnInitReady \/ SignalWritable
    PROVE  DataChannelInv'
<1>1. PICK kind \in {"init_ready", "ready"} : Signal(kind, 0)
  BY DEF OnInitReady, SignalWritable
<1>2. /\ tasks' \in Seq(Task) /\ transport # "none"
      /\ transport' = transport /\ peerReset' = peerReset
      /\ accepted' = accepted /\ ClosingOnly(tasks', peerReset')
      /\ Coming(tasks, Got, received) => Coming(tasks', Got, received)
  BY <1>1, HandledStep
<1>3. /\ heard' = heard
      /\ \E c : /\ \/ c \in OnChannelReady(channel, Answers)
                   \/ c = channel /\ ~channel.connected
                /\ Becomes(c)
  BY DEF OnInitReady, SignalWritable
<1>4. PICK c : /\ \/ c \in OnChannelReady(channel, Answers)
                  \/ c = channel /\ ~channel.connected
               /\ Becomes(c)
  BY <1>3
<1>5. ChannelInv(channel, accepted, peerReset, heard, Got)
  BY DEF DataChannelInv
<1>6. /\ ChannelInv(c, accepted, peerReset, heard, Got)
      /\ Quiet(c) /\ (c.connected => channel.connected)
      /\ channel.state = "closed" => c.state = "closed"
  <2>1. CASE c \in OnChannelReady(channel, Answers)
    BY <1>5, <2>1, OnChannelReadyKeeps
  <2>2. CASE c = channel /\ ~channel.connected
    BY <1>5, <2>2 DEF Quiet
  <2> QED BY <1>4, <2>1, <2>2
<1>7. /\ ChannelInv(channel', accepted, peerReset, heard, Got)
      /\ channel'.connected = c.connected /\ channel'.state = c.state
      /\ Waiting(channel') => Waiting(c)
      /\ ready' => ready /\ ~c.blocked
      /\ received' = received
  BY <1>4, <1>6, BecomesKeeps
<1>8. Waiting(c) => c.blocked
  <2>1. ~(0 > 0)
    OBVIOUS
  <2> QED BY <1>6, <2>1 DEF Quiet, Waiting
<1> QED BY <1>2, <1>3, <1>6, <1>7, <1>8, StepKeeps DEF DataChannelInv

LEMMA ChangedStep ==
    ASSUME DataChannelInv, TransportChanged
    PROVE  DataChannelInv'
<1>1. /\ Signal("changed", 0) /\ channel' = channel /\ ready' = ready
      /\ heard' = heard /\ received' = received
  BY DEF TransportChanged, boundVars
<1>2. /\ tasks' \in Seq(Task) /\ transport # "none"
      /\ transport' = transport /\ peerReset' = peerReset
      /\ accepted' = accepted /\ ClosingOnly(tasks', peerReset')
      /\ Woken(tasks) => Woken(tasks')
      /\ Coming(tasks, Got, received) => Coming(tasks', Got, received)
  BY <1>1, HandledStep
<1> QED BY <1>1, <1>2, StepKeeps DEF DataChannelInv

LEMMA ClosingStep ==
    ASSUME DataChannelInv, SignalChannelClosing \/ SignalChannelClosed
    PROVE  DataChannelInv'
<1>1. /\ ready' = ready /\ heard' = heard /\ received' = received
  BY DEF SignalChannelClosing, SignalChannelClosed, boundVars
<1>2. PICK kind \in {"closing", "closed"} :
          /\ Signal(kind, 0)
          /\ \/ channel' = channel
             \/ /\ kind = "closing"
                /\ channel' = OnClosingProcedureStartedRemotely(channel)
             \/ channel' = OnClosingProcedureComplete(channel)
  BY DEF SignalChannelClosing, SignalChannelClosed
<1>3. /\ tasks' \in Seq(Task) /\ transport # "none"
      /\ transport' = transport /\ peerReset' = peerReset
      /\ accepted' = accepted /\ ClosingOnly(tasks', peerReset')
      /\ kind = "closing" => peerReset
      /\ Woken(tasks) => Woken(tasks')
      /\ Coming(tasks, Got, received) => Coming(tasks', Got, received)
  BY <1>2, HandledStep
<1>4. /\ ChannelInv(channel, accepted, peerReset, heard, Got)
      /\ peerReset \in BOOLEAN
  BY DEF DataChannelInv
<1>5. /\ ChannelInv(channel', accepted, peerReset, heard, Got)
      /\ channel'.connected => channel.connected
      /\ Waiting(channel') => Waiting(channel)
  <2>1. CASE channel' = channel
    BY <1>4, <2>1
  <2>2. CASE /\ kind = "closing"
             /\ channel' = OnClosingProcedureStartedRemotely(channel)
    <3>1. peerReset = TRUE
      BY <1>3, <1>4, <2>2
    <3> QED BY <1>4, <2>2, <3>1, ClosedRemotelyKeeps
  <2>3. CASE channel' = OnClosingProcedureComplete(channel)
    <3>1. /\ ChannelInv(channel', accepted, peerReset, heard, Got)
          /\ channel'.connected = FALSE
      BY <1>4, <2>3, CompleteKeeps
    <3> QED BY <3>1 DEF Waiting
  <2> QED BY <1>2, <2>1, <2>2, <2>3
<1>6. channel.connected => channel.state # "closed"
  BY <1>4 DEF ChannelInv, LifePart
<1> QED BY <1>1, <1>3, <1>5, <1>6, StepKeeps DEF DataChannelInv

LEMMA DataStep ==
    ASSUME DataChannelInv, SignalReceivedData
    PROVE  DataChannelInv'
<1>1. /\ ready' = ready /\ received' = received
      /\ heard' = (heard \/ channel.connected)
  BY DEF SignalReceivedData, boundVars
<1>2. \/ /\ Signal("ack", 0)
         /\ channel' = IF channel.connected THEN OnAckReceived(channel)
                       ELSE channel
      \/ \E m \in Nat :
                /\ Signal("data", m)
                /\ channel' = IF channel.connected
                              THEN OnDataReceived(channel, m) ELSE channel
  BY DEF SignalReceivedData
<1>3. PICK kind \in {"ack", "data"}, m \in Nat :
          /\ Signal(kind, m)
          /\ ~channel.connected => channel' = channel
          /\ channel.connected /\ kind = "ack" =>
                 channel' = Acknowledged(channel)
          /\ channel.connected /\ kind = "data" =>
                 channel' = OnDataReceived(channel, m)
  BY <1>2 DEF OnAckReceived
<1>4. /\ tasks' \in Seq(Task) /\ transport # "none"
      /\ transport' = transport /\ peerReset' = peerReset
      /\ accepted' = accepted /\ ClosingOnly(tasks', peerReset')
      /\ Woken(tasks) => Woken(tasks')
      /\ kind # "data" /\ Coming(tasks, Got, received) =>
             Coming(tasks', Got, received)
      /\ kind = "data" /\ Coming(tasks, Got, received) =>
             m = Got + 1 /\ Coming(tasks', Got + 1, received)
  BY <1>3, HandledStep
<1>5. /\ ChannelInv(channel, accepted, peerReset, heard, Got)
      /\ heard \in BOOLEAN
  BY DEF DataChannelInv
<1>6. /\ channel.connected \in BOOLEAN
      /\ channel.connected => channel.state # "closed"
  BY <1>5 DEF ChannelInv, LifePart, Channel
<1>7. CASE ~channel.connected
  <2>1. heard' = heard
    BY <1>1, <1>5, <1>6, <1>7
  <2>2. channel' = channel
    BY <1>3, <1>7
  <2> QED BY <1>1, <1>4, <1>5, <1>7, <2>1, <2>2, StepKeeps
          DEF DataChannelInv
<1>8. CASE channel.connected /\ kind = "ack"
  <2>1. heard' = TRUE
    BY <1>1, <1>6, <1>8
  <2>2. /\ ChannelInv(channel', accepted, peerReset, TRUE, Got)
        /\ channel'.connected = channel.connected
        /\ channel'.state = channel.state /\ channel'.send = channel.send
        /\ channel'.control = channel.control
    BY <1>3, <1>5, <1>8, AcknowledgedKeeps
  <2>3. Waiting(channel') => Waiting(channel)
    BY <2>2 DEF Waiting
  <2> QED BY <1>1, <1>4, <1>8, <2>1, <2>2, <2>3, StepKeeps
          DEF DataChannelInv
<1>9. CASE channel.connected /\ kind = "data"
  <2>1. heard' = TRUE
    BY <1>1, <1>6, <1>9
  <2>2. m = Got + 1 /\ Coming(tasks', Got + 1, received)
    BY <1>4, <1>6, <1>9 DEF DataChannelInv
  <2>3. /\ ChannelInv(channel', accepted, peerReset, TRUE, Got + 1)
        /\ Waiting(channel') => Waiting(channel)
    BY <1>3, <1>5, <1>6, <1>9, <2>2, ReceivedKeeps
  <2> QED BY <1>1, <1>4, <2>1, <2>2, <2>3, StepKeeps DEF DataChannelInv
<1> QED BY <1>3, <1>7, <1>8, <1>9

-----------------------------------------------------------------------------

LEMMA NewChannelKeeps ==
    ASSUME NEW role \in Roles, NEW ordered \in BOOLEAN, NEW sid \in BOOLEAN,
           NEW connected \in BOOLEAN, NEW c,
           c = NewChannel(role, ordered, sid, connected)
    PROVE  /\ ChannelInv(c, 0, FALSE, FALSE, 0)
           /\ Total(c.delivered, c.recv) = 0 /\ ~Waiting(c)
<1>1. FirstHandshake[role] \in Handshakes
  BY DEF Roles, FirstHandshake, Handshakes
<1>2. /\ c.role = role /\ c.state = "connecting"
      /\ c.handshake = FirstHandshake[role] /\ c.connected = connected
      /\ c.send = <<>> /\ c.recv = <<>> /\ c.sent = <<>>
      /\ c.delivered = <<>> /\ c.buffered = 0 /\ c.control = 0
  BY DEF NewChannel
<1>3. c \in Channel
  <2>1. "connecting" \in States
    BY DEF States
  <2> QED BY <1>1, <2>1, Nothing DEF NewChannel, Channel
<1>4. role = "opener" => FirstHandshake[role] = "ShouldSendOpen"
  BY DEF FirstHandshake
<1>5. Len(<<>>) = 0 /\ Total(<<>>, <<>>) = 0 /\ ~(0 > 0) /\ 0 <= 0
      /\ 1 .. 0 = {}
  BY DEF Total
<1>6. LifePart(c)
  BY <1>2, <1>5 DEF LifePart
<1>7. RecvPart(c, 0)
  BY <1>2, <1>5 DEF RecvPart
<1>8. SendPart(c, 0, FALSE)
  BY <1>2, <1>5 DEF SendPart, Numbered
<1>9. OpenPart(c, FALSE)
  BY <1>2, <1>4, <1>5 DEF OpenPart
<1> QED BY <1>2, <1>3, <1>5, <1>6, <1>7, <1>8, <1>9 DEF ChannelInv, Waiting

(* The tasks of a channel that is created on a transport.                  *)
LEMMA StartedTasks ==
    ASSUME NEW n \in 0 .. MaxAhead
    PROVE  /\ Started(n) \in Seq(Task)
           /\ \A i \in 1 .. Len(Started(n)) :
                  /\ Started(n)[i][1] \in {"ready", "init_ready"}
                  /\ Started(n)[i][1] = "init_ready" => i = n + 1
                  /\ i <= n => Started(n)[i][1] = "ready"
           /\ Len(Started(n)) = n + 1
<1>1. n \in Nat /\ n + 1 \in Nat
  BY ChannelBoundsAssumption
<1>2. <<"ready", 0>> \in Task /\ InitReady \in Task
      /\ InitReady[1] = "init_ready"
  BY DEF Task, Kinds, InitReady
<1>3. Started(n) \in [1 .. n + 1 -> Task]
  BY <1>2 DEF Started
<1>4. Started(n) \in Seq(Task) /\ Len(Started(n)) = n + 1
  BY <1>1, <1>3
<1>5. ASSUME NEW i \in 1 .. n + 1
      PROVE  Started(n)[i] = IF i <= n THEN <<"ready", 0>> ELSE InitReady
  BY DEF Started
<1>6. ASSUME NEW i \in 1 .. n + 1
      PROVE  /\ Started(n)[i][1] \in {"ready", "init_ready"}
             /\ Started(n)[i][1] = "init_ready" => i = n + 1
             /\ i <= n => Started(n)[i][1] = "ready"
  BY <1>1, <1>2, <1>5
<1> QED BY <1>4, <1>6

LEMMA InitKeeps ==
    ASSUME Init
    PROVE  DataChannelInv
<1>1. /\ accepted = 0 /\ heard = FALSE /\ peerReset = FALSE /\ received = 0
      /\ up = ready
      /\ stream = IF transport = "set" THEN "open" ELSE "absent"
  BY DEF Init
<1>2. \E role \in Roles, ordered \in BOOLEAN, sid \in BOOLEAN,
         connected \in BOOLEAN :
             channel = NewChannel(role, ordered, sid, connected)
  BY DEF Init, Roles
<1>3. /\ ChannelInv(channel, 0, FALSE, FALSE, 0) /\ Got = 0
      /\ ~Waiting(channel)
  BY <1>2, NewChannelKeeps DEF Got
<1>4. \/ transport = "none" /\ ready = FALSE /\ tasks = <<>>
      \/ transport = "set" /\ \E n \in 0 .. MaxAhead : tasks = Started(n)
  BY DEF Init
<1>5. /\ tasks \in Seq(Task)
      /\ \A i \in 1 .. Len(tasks) : tasks[i][1] \notin {"data", "closing"}
  <2>1. CASE tasks = <<>>
    BY <2>1
  <2>2. ASSUME NEW n \in 0 .. MaxAhead, tasks = Started(n)
        PROVE  /\ tasks \in Seq(Task)
               /\ \A i \in 1 .. Len(tasks) :
                      tasks[i][1] \notin {"data", "closing"}
    BY <2>2, StartedTasks
  <2> QED BY <1>4, <2>1, <2>2
<1>6. Coming(tasks, 0, 0) /\ ClosingOnly(tasks, FALSE)
  <2>1. 0 + 1 .. 0 = {}
    OBVIOUS
  <2> QED BY <1>5, <2>1 DEF Coming, ClosingOnly
<1> QED BY <1>1, <1>3, <1>4, <1>5, <1>6 DEF DataChannelInv

LEMMA NextKeeps ==
    ASSUME DataChannelInv, [Next]_vars
    PROVE  DataChannelInv'
<1>1. CASE UNCHANGED vars
  BY <1>1 DEF DataChannelInv, Got, vars, environment, boundVars
<1>2. CASE Next
  BY <1>2, AppSendStep, AppCloseStep, AppObserveStep, CreatedStep,
     SetSctpSidStep, CloseAbruptlyStep, NetworkStep, TransportStep,
     ReadyStep, ChangedStep, ClosingStep, DataStep DEF Next
<1> QED BY <1>1, <1>2

LEMMA Invariant == Spec => []DataChannelInv
BY InitKeeps, NextKeeps, PTL DEF Spec

(* For every size of the queues: the observer gets the peer's messages in  *)
(* order and without gaps, whether they were queued first                  *)
(* (DeliverQueuedReceivedData) or delivered directly (OnDataReceived).     *)
THEOREM MessagesArriveInOrder == Spec => []ReceiveOrder
<1>1. ASSUME DataChannelInv
      PROVE  ReceiveOrder
  <2> DEFINE a == channel.delivered
             b == channel.recv
  <2>1. /\ a \in Seq(Nat) /\ b \in Seq(Nat)
        /\ \A i \in 1 .. Len(a) : a[i] = i
        /\ \A i \in 1 .. Len(b) : b[i] = Len(a) + i
    BY <1>1, Fields DEF DataChannelInv, ChannelInv, RecvPart
  <2> HIDE DEF a, b
  <2>2. a \o b = Numbers(Len(a \o b))
    <3>1. a \o b = Numbers(Len(a) + Len(b)) /\ Len(a \o b) = Len(a) + Len(b)
      BY <2>1, NumbersJoined
    <3> QED BY <3>1
  <2> QED BY <2>2 DEF ReceiveOrder, a, b
<1> QED BY <1>1, Invariant, PTL

(* For every number of blocked handlers: messages reach the transport in   *)
(* the order Send() accepted them, and until the channel is closed or the  *)
(* peer closes it, each accepted message is either sent or queued          *)
(* (SendQueuedDataMessages, QueueSendDataMessage).                         *)
THEOREM MessagesAreSentInOrder == Spec => []SendOrder
<1>1. ASSUME DataChannelInv
      PROVE  SendOrder
  <2> DEFINE s == channel.sent
             q == channel.send
             ids == [i \in 1 .. Len(s) |-> s[i].id]
  <2>1. /\ s \in Seq(Sent) /\ q \in Seq(Nat) /\ Numbered(s, q)
        /\ channel.state \in States
    BY <1>1, Fields DEF DataChannelInv, ChannelInv, SendPart
  <2>2. channel.state # "closed" /\ ~peerReset => Total(s, q) = accepted
    BY <1>1, <2>1 DEF DataChannelInv, ChannelInv, SendPart, States
  <2>3. SentIds = ids
    BY DEF SentIds
  <2>4. channel.send = q /\ channel.sent = s
    OBVIOUS
  <2> HIDE DEF s, q
  <2>5. Len(s) \in Nat /\ ids = Numbers(Len(s))
    BY <2>1, LenProperties DEF Numbered, Numbers
  <2>6. /\ Numbers(Len(s)) \in Seq(Nat) /\ Len(Numbers(Len(s))) = Len(s)
        /\ \A i \in 1 .. Len(s) : Numbers(Len(s))[i] = i
    BY <2>5 DEF Numbers
  <2> DEFINE a == Numbers(Len(s))
  <2> HIDE DEF a
  <2>7. a \o q = Numbers(Len(s) + Len(q))
    <3>1. /\ a \in Seq(Nat) /\ Len(a) = Len(s)
          /\ \A i \in 1 .. Len(a) : a[i] = i
          /\ \A i \in 1 .. Len(q) : q[i] = Len(a) + i
      BY <2>1, <2>6 DEF a, Numbered
    <3>2. a \o q = Numbers(Len(a) + Len(q))
      BY <2>1, <3>1, NumbersJoined
    <3> QED BY <3>1, <3>2
  <2> HIDE DEF ids
  <2> QED BY <2>2, <2>3, <2>4, <2>5, <2>7 DEF SendOrder, Total, a
<1> QED BY <1>1, Invariant, PTL

(* OPEN is out before any data, and data is unordered only after the peer  *)
(* was heard (SendDataMessage, OnDataReceived).                            *)
THEOREM OpenComesFirst == Spec => []OpenBeforeData
<1>1. ASSUME DataChannelInv
      PROVE  OpenBeforeData
  BY <1>1 DEF DataChannelInv, ChannelInv, OpenPart, OpenBeforeData
<1> QED BY <1>1, Invariant, PTL

(* Until the channel is closed, buffered_amount_ covers every queue, so    *)
(* that SendDataMessage's subtraction does not run below zero.             *)
THEOREM AmountCoversQueue == Spec => []BufferedAmountCoversQueue
<1>1. ASSUME DataChannelInv
      PROVE  BufferedAmountCoversQueue
  BY <1>1 DEF DataChannelInv, ChannelInv, LifePart, BufferedAmountCoversQueue
<1> QED BY <1>1, Invariant, PTL

(* No queue of a connected channel is forgotten: what OnChannelReady,      *)
(* Send or UpdateState left queued waits for a signal that is under way or *)
(* that the transport, blocked, owes.                                      *)
THEOREM QueuesAreWoken == Spec => []BlockedQueueIsWoken
<1>1. ASSUME DataChannelInv
      PROVE  BlockedQueueIsWoken
  BY <1>1 DEF DataChannelInv, Waiting, Woken, BlockedQueueIsWoken
<1> QED BY <1>1, Invariant, PTL

-----------------------------------------------------------------------------
(* What the methods do with the life cycle and with the messages, for the  *)
(* contract with the application.                                          *)

(* The fields the contract is about stay as they are.                      *)
Same(c, d) ==
    /\ d.state = c.state /\ d.started = c.started /\ d.error = c.error
    /\ d.send = c.send /\ d.sent = c.sent
    /\ d.role = c.role /\ d.sid = c.sid /\ d.connected = c.connected

(* The channel is closed with an error and drops its queue.                *)
Aborts(c, d) ==
    /\ c.state # "closed" /\ d.state = "closed" /\ d.error = TRUE
    /\ d.started = c.started /\ d.send = <<>>
    /\ Len(d.sent) = Len(c.sent)
    /\ d.role = c.role /\ d.sid = c.sid

LEMMA AbruptlyAborts ==
    ASSUME NEW c \in Channel
    PROVE  /\ c.state = "closed" => Same(c, CloseAbruptly(c))
           /\ c.state # "closed" => Aborts(c, CloseAbruptly(c))
           /\ CloseAbruptly(c).handshake = c.handshake
           /\ CloseAbruptly(c).controls = c.controls
<1>1. CASE c.state = "closed"
  BY <1>1 DEF CloseAbruptly, Same
<1>2. CASE c.state # "closed"
  <2> DEFINE d == [c EXCEPT !.connected = FALSE, !.send = <<>>,
                            !.buffered = 0, !.control = 0, !.error = TRUE,
                            !.state = "closed"]
  <2>1. CloseAbruptly(c) = d
    BY <1>2 DEF CloseAbruptly
  <2>2. /\ d.state = "closed" /\ d.error = TRUE /\ d.started = c.started
        /\ d.send = <<>> /\ d.sent = c.sent /\ d.role = c.role
        /\ d.sid = c.sid /\ d.handshake = c.handshake
        /\ d.controls = c.controls
    BY DEF Channel
  <2> HIDE DEF d
  <2> QED BY <1>2, <2>1, <2>2 DEF Aborts
<1> QED BY <1>1, <1>2

LEMMA ControlIsSame ==
    ASSUME NEW c \in Channel, NEW n
    PROVE  Same(c, ControlSent(c, n)) /\ Same(c, ControlBlocked(c, n))
<1>1. CASE n = 0
  BY <1>1 DEF ControlSent, ControlBlocked, Same
<1>2. CASE n # 0
  BY <1>2 DEF ControlSent, ControlBlocked, Same, Channel
<1> QED BY <1>1, <1>2

LEMMA ChainedSame ==
    ASSUME NEW c, NEW d, NEW e, Same(d, e)
    PROVE  /\ Same(c, d) => Same(c, e)
           /\ Aborts(c, d) => Aborts(c, e)
           /\ Same(d, c) => Same(e, c)
BY DEF Same, Aborts

LEMMA QueuedControlMoves ==
    ASSUME NEW c, NEW acc, NEW peer, NEW h, NEW got, NEW t,
           ChannelInv(c, acc, peer, h, got),
           NEW e \in SendQueuedControlMessages(c, t)
    PROVE  Same(c, e) \/ Aborts(c, e)
<1> DEFINE swapped == [c EXCEPT !.control = 0]
<1>1. c \in Channel /\ c.control \in Nat
  BY Fields DEF ChannelInv
<1>2. swapped \in Channel /\ Same(c, swapped)
  <2>1. swapped \in Channel
    BY <1>1, Updates
  <2>2. Same(c, swapped)
    BY <1>1 DEF Same, Channel
  <2> QED BY <2>1, <2>2
<1>3. \/ \E n \in Nat, b \in Nat :
             e = ControlBlocked(ControlSent(swapped, n), b)
      \/ \E n \in Nat, b \in Nat :
             e = ControlBlocked(ControlSent(CloseAbruptly(swapped), n), b)
  BY <1>1 DEF SendQueuedControlMessages
<1> HIDE DEF swapped
<1>4. ASSUME NEW d, ChannelInv(d, acc, peer, h, got),
             Same(c, d) \/ Aborts(c, d),
             NEW n \in Nat, NEW b \in Nat,
             e = ControlBlocked(ControlSent(d, n), b)
      PROVE  Same(c, e) \/ Aborts(c, e)
  <2> DEFINE s == ControlSent(d, n)
  <2>1. Same(d, s) /\ s \in Channel
    BY <1>4, ControlIsSame, ControlSentKeeps DEF ChannelInv
  <2>2. e = ControlBlocked(s, b)
    BY <1>4
  <2> HIDE DEF s
  <2>3. Same(s, e)
    BY <2>1, <2>2, ControlIsSame
  <2> QED BY <1>4, <2>1, <2>3, ChainedSame
<1>5. ChannelInv(swapped, acc, peer, h, got)
  <2>1. /\ swapped.role = c.role /\ swapped.handshake = c.handshake
        /\ swapped.controls = c.controls /\ swapped.observer = c.observer
        /\ swapped.send = c.send /\ swapped.recv = c.recv
        /\ swapped.buffered = c.buffered /\ swapped.sent = c.sent
        /\ swapped.delivered = c.delivered /\ swapped.state = c.state
        /\ swapped.connected = c.connected
    BY <1>1 DEF Channel, swapped
  <2>2. swapped.state = "closed" => ~swapped.connected
    BY <2>1 DEF ChannelInv, LifePart
  <2> QED BY <1>2, <2>1, <2>2, SameMessages
<1>6. CASE \E n \in Nat, b \in Nat :
               e = ControlBlocked(ControlSent(swapped, n), b)
  BY <1>2, <1>4, <1>5, <1>6
<1>7. CASE \E n \in Nat, b \in Nat :
               e = ControlBlocked(ControlSent(CloseAbruptly(swapped), n), b)
  <2> DEFINE a == CloseAbruptly(swapped)
  <2>1. ChannelInv(a, acc, peer, h, got)
    BY <1>5, CloseAbruptlyKeeps
  <2>2. Same(swapped, a) \/ Aborts(swapped, a)
    BY <1>2, AbruptlyAborts
  <2> HIDE DEF a
  <2>3. Same(c, a) \/ Aborts(c, a)
    BY <1>2, <2>2 DEF Same, Aborts
  <2> QED BY <1>4, <1>7, <2>1, <2>3 DEF a
<1> QED BY <1>3, <1>6, <1>7

(* The first k queued messages are sent; the next one may fail.            *)
Flushes(c, e, k) ==
    /\ e.role = c.role /\ e.sid = c.sid /\ e.started = c.started
    /\ Len(e.sent) = Len(c.sent) + k
    /\ \/ /\ e.state = c.state /\ e.error = c.error
          /\ e.connected = c.connected /\ Len(e.send) = Len(c.send) - k
       \/ /\ k < Len(c.send) /\ e.state = "closed"
          /\ c.state # "closed" => e.error = TRUE

LEMMA DataSentFlushes ==
    ASSUME NEW c, NEW acc, NEW peer, NEW h, NEW got,
           ChannelInv(c, acc, peer, h, got), NEW k \in Nat, k <= Len(c.send)
    PROVE  /\ DataSent(c, k).role = c.role /\ DataSent(c, k).sid = c.sid
           /\ DataSent(c, k).started = c.started
           /\ DataSent(c, k).error = c.error
           /\ DataSent(c, k).state = c.state
           /\ DataSent(c, k).connected = c.connected
           /\ Len(DataSent(c, k).sent) = Len(c.sent) + k
           /\ Len(DataSent(c, k).send) = Len(c.send) - k
<1> DEFINE o == c.ordered \/ c.handshake # "Ready"
           done == c.sent \o Taken(c.send, k, o)
           rest == Remaining(c.send, k)
           d == [c EXCEPT !.sent = done, !.send = rest,
                          !.buffered = c.buffered - k]
<1>1. DataSent(c, k) = d
  BY DEF DataSent, Taken, Remaining
<1>2. /\ c \in Channel /\ c.send \in Seq(Nat) /\ c.sent \in SentMessages
      /\ c.ordered \in BOOLEAN
  BY Fields DEF ChannelInv, Channel
<1>3. o \in BOOLEAN
  BY <1>2
<1>4. done = c.sent \o Taken(c.send, k, o) /\ rest = Remaining(c.send, k)
  OBVIOUS
<1>5. Numbered(c.sent, c.send)
  BY DEF ChannelInv, SendPart
<1> HIDE DEF o, done, rest
<1>6. Len(done) = Len(c.sent) + k /\ Len(rest) = Len(c.send) - k
  <2>1. Continues(c.sent, c.send, k, o, done, rest)
    BY <1>2, <1>3, <1>4, <1>5, Moved, Zenon
  <2> QED BY <2>1 DEF Continues
<1>7. /\ d.sent = done /\ d.send = rest /\ d.role = c.role /\ d.sid = c.sid
      /\ d.started = c.started /\ d.error = c.error /\ d.state = c.state
      /\ d.connected = c.connected
  BY <1>2 DEF Channel
<1> HIDE DEF d
<1> QED BY <1>1, <1>6, <1>7

LEMMA DataFailedFlushes ==
    ASSUME NEW c \in Channel
    PROVE  /\ DataFailed(c).role = c.role /\ DataFailed(c).sid = c.sid
           /\ DataFailed(c).started = c.started
           /\ DataFailed(c).sent = c.sent
           /\ DataFailed(c).state = "closed"
           /\ c.state # "closed" => DataFailed(c).error = TRUE
BY DEF DataFailed, CloseAbruptly, Channel

LEMMA QueuedDataMoves ==
    ASSUME NEW c, NEW acc, NEW peer, NEW h, NEW got, NEW t,
           ChannelInv(c, acc, peer, h, got),
           NEW e \in SendQueuedDataMessages(c, t)
    PROVE  \E k \in 0 .. Len(c.send) : Flushes(c, e, k) /\ (k # 0 => t.live)
<1>1. c.send \in Seq(Nat)
  BY Fields DEF ChannelInv
<1>2. Len(c.send) \in Nat
  BY <1>1, LenProperties
<1>3. PICK k \in 0 .. Len(c.send) :
          /\ k # 0 => t.live
          /\ \/ e = DataSent(c, k)
             \/ e = [DataSent(c, k) EXCEPT !.blocked = TRUE]
             \/ k < Len(c.send) /\ e = DataFailed(DataSent(c, k))
  BY <1>2 DEF SendQueuedDataMessages
<1> DEFINE d == DataSent(c, k)
<1>4. k \in Nat /\ k <= Len(c.send)
  BY <1>2
<1>5. d \in Channel
  BY <1>4, DataSentKeeps DEF ChannelInv
<1>6. /\ d.role = c.role /\ d.sid = c.sid /\ d.started = c.started
      /\ d.error = c.error /\ d.state = c.state
      /\ d.connected = c.connected
      /\ Len(d.sent) = Len(c.sent) + k /\ Len(d.send) = Len(c.send) - k
  BY <1>4, DataSentFlushes
<1> HIDE DEF d
<1>7. CASE e = d
  BY <1>3, <1>6, <1>7 DEF Flushes
<1>8. CASE e = [d EXCEPT !.blocked = TRUE]
  <2>1. /\ e.role = d.role /\ e.sid = d.sid /\ e.started = d.started
        /\ e.error = d.error /\ e.state = d.state /\ e.sent = d.sent
        /\ e.connected = d.connected /\ e.send = d.send
    BY <1>5, <1>8 DEF Channel
  <2> QED BY <1>3, <1>6, <2>1 DEF Flushes
<1>9. CASE k < Len(c.send) /\ e = DataFailed(d)
  <2>1. /\ e.role = d.role /\ e.sid = d.sid /\ e.started = d.started
        /\ e.sent = d.sent /\ e.state = "closed"
        /\ d.state # "closed" => e.error = TRUE
    BY <1>5, <1>9, DataFailedFlushes
  <2> QED BY <1>3, <1>6, <1>9, <2>1 DEF Flushes
<1> QED BY <1>3, <1>7, <1>8, <1>9 DEF d

(* UpdateState() opens a connecting channel, or closes it when its OPEN or *)
(* OPEN_ACK message fails, and starts the closing procedure of a closing   *)
(* channel that has nothing to send.                                       *)
Advances(e, d) ==
    \/ Same(e, d)
    \/ e.state = "connecting" /\ Aborts(e, d)
    \/ /\ e.state = "connecting" /\ d.state = "open"
       /\ d.started = e.started /\ d.error = e.error
       /\ d.send = e.send /\ d.sent = e.sent
       /\ d.role = e.role /\ d.sid = e.sid /\ d.connected = e.connected
    \/ /\ e.state = "closing" /\ d.state = "closing" /\ e.send = <<>>
       /\ d.started = TRUE /\ d.error = e.error
       /\ d.send = e.send /\ d.sent = e.sent
       /\ d.role = e.role /\ d.sid = e.sid /\ d.connected = e.connected

LEMMA OpenedMoves ==
    ASSUME NEW c \in Channel
    PROVE  /\ c.handshake \notin {"Ready", "WaitingForAck"} =>
                  Same(c, Opened(c))
           /\ c.state = "connecting" => Advances(c, Opened(c))
<1>1. CASE ~(c.writable /\ c.handshake \in {"Ready", "WaitingForAck"})
  BY <1>1 DEF Opened, Same, Advances
<1>2. CASE c.writable /\ c.handshake \in {"Ready", "WaitingForAck"}
  <2> DEFINE d == [c EXCEPT !.state = "open"]
             e == DeliverQueuedReceivedData(d)
  <2>1. Opened(c) = e
    BY <1>2 DEF Opened
  <2>2. d \in Channel
    <3>1. "open" \in States
      BY DEF States
    <3> QED BY <3>1, Updates
  <2>3. /\ d.state = "open" /\ d.started = c.started /\ d.error = c.error
        /\ d.send = c.send /\ d.sent = c.sent /\ d.role = c.role
        /\ d.sid = c.sid /\ d.connected = c.connected
    BY DEF Channel
  <2> HIDE DEF d
  <2>4. Same(d, e)
    BY <2>2 DEF DeliverQueuedReceivedData, Same, Channel
  <2> QED BY <1>2, <2>1, <2>3, <2>4 DEF Same, Advances
<1> QED BY <1>1, <1>2

LEMMA UpdateStateMoves ==
    ASSUME NEW c, NEW acc, NEW peer, NEW h, NEW got, NEW t,
           ChannelInv(c, acc, peer, h, got), NEW d \in UpdateState(c, t)
    PROVE  /\ Advances(c, d)
           /\ c.state # "connecting" => d.controls = c.controls
<1>1. c \in Channel
  BY DEF ChannelInv
<1>2. CASE c.state = "connecting" /\ c.connected
  <2>1. PICK e \in IF c.handshake \in {"ShouldSendOpen", "ShouldSendAck"}
                   THEN SendControlMessage(c, t) ELSE {c} : d = Opened(e)
    BY <1>2 DEF UpdateState
  <2>2. CASE e = c
    BY <1>1, <1>2, <2>1, <2>2, OpenedMoves
  <2>3. CASE /\ c.handshake \in {"ShouldSendOpen", "ShouldSendAck"}
             /\ e = ControlSent(c, 1) \/ e = ControlBlocked(c, 1)
    <3>1. Same(c, e) /\ e \in Channel
      BY <2>3, <1>1, ControlIsSame, ControlSentKeeps, ControlBlockedKeeps
         DEF ChannelInv
    <3>2. Advances(e, d)
      BY <1>2, <2>1, <3>1, OpenedMoves DEF Same
    <3> QED BY <1>2, <3>1, <3>2 DEF Advances, Same, Aborts
  <2>4. CASE /\ c.handshake \in {"ShouldSendOpen", "ShouldSendAck"}
             /\ e = CloseAbruptly(c)
    <3>1. /\ Aborts(c, e) /\ e \in Channel
          /\ e.handshake \notin {"Ready", "WaitingForAck"}
      BY <1>1, <1>2, <2>4, AbruptlyAborts, CloseAbruptlyKeeps DEF ChannelInv
    <3>2. Same(e, d)
      BY <2>1, <3>1, OpenedMoves
    <3> QED BY <1>2, <3>1, <3>2, ChainedSame DEF Advances
  <2>5. \/ e = c
        \/ /\ c.handshake \in {"ShouldSendOpen", "ShouldSendAck"}
           /\ \/ e = ControlSent(c, 1) \/ e = ControlBlocked(c, 1)
              \/ e = CloseAbruptly(c)
    BY <2>1 DEF SendControlMessage
  <2> QED BY <1>2, <2>2, <2>3, <2>4, <2>5
<1>3. CASE /\ c.state = "closing" /\ c.send = <<>>
           /\ d = [c EXCEPT !.started = TRUE]
  BY <1>1, <1>3 DEF Advances, Channel
<1>4. CASE d = c
  BY <1>4 DEF Advances, Same
<1>5. \/ c.state = "connecting" /\ c.connected
      \/ /\ c.state = "closing" /\ c.send = <<>>
         /\ d = [c EXCEPT !.started = TRUE]
      \/ d = c
  BY DEF UpdateState
<1> QED BY <1>2, <1>3, <1>4, <1>5

(* The record's part of the invariant: the closing procedure begins on a   *)
(* closing channel only, when nothing is queued; before that every message *)
(* accepted is sent or queued.                                             *)
PromisePart(c, acc) ==
    /\ c.state \in {"connecting", "open"} => ~c.started
    /\ c.state = "connecting" => c.send = <<>>
    /\ c.state # "closed" /\ c.started => c.send = <<>>
    /\ c.state # "closed" /\ ~c.started => Total(c.sent, c.send) = acc
    /\ Len(c.sent) <= acc

(* A step the contract allows, where the transport takes messages only if  *)
(* live.                                                                   *)
Moves(c, d, acc, live) ==
    \/ /\ d.state = c.state /\ d.started = c.started /\ d.error = c.error
       /\ Len(d.sent) = Len(c.sent)
    \/ /\ c.state = "connecting" /\ d.state = "open"
       /\ d.started = c.started /\ d.error = c.error
       /\ Len(d.sent) = Len(c.sent)
    \/ /\ c.state \in {"open", "closing"} /\ d.state = c.state
       /\ live /\ ~c.started /\ d.error = c.error
       /\ Len(d.sent) \in Len(c.sent) + 1 .. acc
       /\ d.started => c.state = "closing" /\ Len(d.sent) = acc
    \/ /\ c.state # "closed" /\ d.state = "closing"
       /\ d.error = c.error /\ Len(d.sent) = Len(c.sent)
       /\ d.started = c.started \/ (d.started = TRUE /\ Len(c.sent) = acc)
    \/ /\ c.state # "closed" /\ d.state = "closed"
       /\ d.started = c.started /\ d.error = TRUE
       /\ Len(d.sent) \in Len(c.sent) .. acc

(* What no method does: the role and the sid stay, the life cycle and the  *)
(* closing procedure only advance, and only a closing of the channel       *)
(* disconnects it.                                                         *)
Onward(c, d) ==
    /\ d.role = c.role /\ d.sid = c.sid
    /\ c.started => d.started
    /\ c.state \in {"closing", "closed"} => d.state \in {"closing", "closed"}
    /\ d.state # "closed" => c.state # "closed" /\ d.connected = c.connected

LEMMA SentLengths ==
    ASSUME NEW c \in Channel
    PROVE  /\ Len(c.sent) \in Nat /\ Len(c.send) \in Nat
           /\ Len(c.send) = 0 <=> c.send = <<>>
           /\ Total(c.sent, c.send) = Len(c.sent) + Len(c.send)
           /\ c.started \in BOOLEAN /\ c.error \in BOOLEAN
           /\ c.state \in States
<1> DEFINE s == c.sent
           q == c.send
<1>1. s \in Seq(Sent) /\ q \in Seq(Nat)
  BY Fields
<1>2. /\ c.started \in BOOLEAN /\ c.error \in BOOLEAN /\ c.state \in States
  BY DEF Channel
<1> HIDE DEF s, q
<1>3. Len(s) \in Nat /\ Len(q) \in Nat /\ (Len(q) = 0 <=> q = <<>>)
  BY <1>1, LenProperties, EmptySeq
<1> QED BY <1>2, <1>3 DEF s, q, Total

LEMMA SameMoves ==
    ASSUME NEW c, NEW d, NEW acc, NEW live, PromisePart(c, acc), Same(c, d)
    PROVE  PromisePart(d, acc) /\ Moves(c, d, acc, live) /\ Onward(c, d)
BY DEF PromisePart, Same, Moves, Onward

LEMMA AbortMoves ==
    ASSUME NEW c \in Channel, NEW d, NEW acc \in Nat, NEW live,
           PromisePart(c, acc), Aborts(c, d)
    PROVE  PromisePart(d, acc) /\ Moves(c, d, acc, live) /\ Onward(c, d)
<1>1. Len(c.sent) \in Nat
  BY SentLengths
<1>2. Len(d.sent) = Len(c.sent) /\ Len(c.sent) <= acc
  BY DEF PromisePart, Aborts
<1>3. Len(d.sent) \in Len(c.sent) .. acc
  BY <1>1, <1>2
<1>4. d.state = "closed" /\ d.started = c.started
  BY DEF Aborts
<1>5. PromisePart(d, acc)
  BY <1>2, <1>4 DEF PromisePart
<1>6. Moves(c, d, acc, live)
  BY <1>3 DEF Moves, Aborts
<1>7. Onward(c, d)
  BY DEF Aborts, Onward
<1> QED BY <1>5, <1>6, <1>7

LEMMA OnChannelReadyMoves ==
    ASSUME NEW c, NEW acc \in Nat, NEW peer, NEW h, NEW got, NEW t,
           ChannelInv(c, acc, peer, h, got), PromisePart(c, acc),
           c.state = "closed" => c.send = <<>>,
           NEW d \in OnChannelReady(c, t)
    PROVE  /\ PromisePart(d, acc) /\ Moves(c, d, acc, t.live) /\ Onward(c, d)
           /\ c.send = <<>> => d.send = <<>>
<1> DEFINE w == [c EXCEPT !.writable = TRUE]
<1>1. PICK a \in SendQueuedControlMessages(w, t) :
          \E e \in SendQueuedDataMessages(a, t) : d \in UpdateState(e, t)
  BY DEF OnChannelReady
<1>2. PICK e \in SendQueuedDataMessages(a, t) : d \in UpdateState(e, t)
  BY <1>1
<1>3. ChannelInv(w, acc, peer, h, got) /\ Same(c, w) /\ c \in Channel
  <2>1. c \in Channel
    BY DEF ChannelInv
  <2>2. w \in Channel
    BY <2>1, Updates
  <2>3. /\ w.role = c.role /\ w.handshake = c.handshake
        /\ w.controls = c.controls /\ w.observer = c.observer
        /\ w.send = c.send /\ w.recv = c.recv /\ w.buffered = c.buffered
        /\ w.sent = c.sent /\ w.delivered = c.delivered
        /\ w.state = c.state /\ w.connected = c.connected
        /\ w.started = c.started /\ w.error = c.error /\ w.sid = c.sid
    BY <2>1 DEF Channel
  <2> HIDE DEF w
  <2>4. w.state = "closed" => ~w.connected
    BY <2>3 DEF ChannelInv, LifePart
  <2> QED BY <2>1, <2>2, <2>3, <2>4, SameMessages DEF Same
<1> HIDE DEF w
<1>4. ChannelInv(a, acc, peer, h, got) /\ (Same(c, a) \/ Aborts(c, a))
  <2>1. Same(w, a) \/ Aborts(w, a)
    BY <1>3, QueuedControlMoves
  <2>2. ChannelInv(a, acc, peer, h, got)
    BY <1>3, SendQueuedControlKeeps
  <2> QED BY <1>3, <2>1, <2>2 DEF Same, Aborts
<1>5. ChannelInv(a, acc, peer, h, got) /\ Flushed(a)
  BY <1>3, SendQueuedControlKeeps
<1>6. ChannelInv(e, acc, peer, h, got)
  BY <1>5, SendQueuedDataKeeps
<1>7. PICK k \in 0 .. Len(a.send) : Flushes(a, e, k) /\ (k # 0 => t.live)
  BY <1>4, QueuedDataMoves
<1>8. Advances(e, d) /\ ChannelInv(d, acc, peer, h, got)
  BY <1>2, <1>6, UpdateStateMoves, UpdateStateKeeps
<1>9. a \in Channel /\ e \in Channel /\ d \in Channel
  BY <1>4, <1>6, <1>8 DEF ChannelInv
<1> DEFINE n == Len(c.sent)
           q == Len(c.send)
<1>10. /\ n \in Nat /\ q \in Nat /\ c.started \in BOOLEAN
       /\ q = 0 <=> c.send = <<>>
       /\ c.state # "closed" /\ ~c.started => n + q = acc
       /\ n <= acc
  BY <1>3, SentLengths DEF PromisePart
<1>11. CASE a.send = <<>>
  <2>1. Len(a.send) = 0 /\ Len(a.sent) \in Nat
    BY <1>9, <1>11, SentLengths
  <2>2. k = 0 /\ ~(k < Len(a.send))
    BY <1>7, <2>1
  <2>3. /\ e.role = a.role /\ e.sid = a.sid /\ e.started = a.started
        /\ e.state = a.state /\ e.error = a.error
        /\ e.connected = a.connected /\ Len(e.send) = 0
        /\ Len(e.sent) = Len(a.sent)
    BY <1>7, <2>1, <2>2 DEF Flushes
  <2>4. e.send = <<>> /\ d.send = <<>>
    <3>1. e.send = <<>>
      BY <1>9, <2>3, SentLengths
    <3> QED BY <1>8, <3>1 DEF Advances, Same, Aborts
  <2>5. CASE Aborts(c, a)
    <3>1. Same(e, d)
      BY <1>8, <2>3, <2>5 DEF Advances, Aborts
    <3>2. Aborts(c, d)
      BY <2>3, <2>4, <2>5, <3>1 DEF Same, Aborts
    <3> QED BY <1>3, <2>4, <3>2, AbortMoves
  <2>6. CASE Same(c, a)
    <3>1. /\ e.role = c.role /\ e.sid = c.sid /\ e.started = c.started
          /\ e.state = c.state /\ e.error = c.error
          /\ e.connected = c.connected
          /\ Len(e.sent) = n /\ c.send = <<>> /\ q = 0
      BY <1>10, <1>11, <2>3, <2>6 DEF Same
    <3>2. CASE e.state = "connecting" /\ Aborts(e, d)
      <4>1. Aborts(c, d)
        BY <2>4, <3>1, <3>2 DEF Aborts
      <4> QED BY <1>3, <2>4, <4>1, AbortMoves
    <3>3. CASE ~(e.state = "connecting" /\ Aborts(e, d))
      <4>1. /\ d.role = c.role /\ d.sid = c.sid /\ d.error = c.error
            /\ d.connected = c.connected /\ Len(d.sent) = n
            /\ \/ d.state = c.state /\ d.started = c.started
               \/ /\ c.state = "connecting" /\ d.state = "open"
                  /\ d.started = c.started
               \/ /\ c.state = "closing" /\ d.state = "closing"
                  /\ d.started = TRUE
        BY <1>8, <3>1, <3>3 DEF Advances, Same
      <4>2. c.state # "closed" /\ ~c.started => n = acc
        BY <1>10, <3>1
      <4>3. Total(d.sent, d.send) = n
        BY <1>10, <2>4, <4>1 DEF Total
      <4>4. PromisePart(d, acc)
        BY <1>10, <2>4, <4>1, <4>2, <4>3 DEF PromisePart
      <4>5. Moves(c, d, acc, t.live)
        BY <1>10, <4>1, <4>2 DEF Moves
      <4>6. Onward(c, d)
        BY <4>1 DEF Onward
      <4> QED BY <2>4, <4>4, <4>5, <4>6
    <3> QED BY <3>2, <3>3
  <2> QED BY <1>4, <2>5, <2>6
<1>12. CASE a.send # <<>>
  <2>1. Same(c, a) /\ c.send # <<>>
    BY <1>4, <1>12 DEF Same, Aborts
  <2>2. /\ c.state \in {"open", "closing"} /\ c.started = FALSE
        /\ n + q = acc
    <3>1. c.state \in States
      BY <1>3, SentLengths
    <3> QED BY <1>10, <2>1, <3>1 DEF PromisePart, States
  <2>3. /\ e.role = c.role /\ e.sid = c.sid /\ e.started = FALSE
        /\ Len(e.sent) = n + k /\ k \in 0 .. q
        /\ \/ /\ e.state = c.state /\ e.error = c.error
              /\ e.connected = c.connected /\ Len(e.send) = q - k
           \/ e.state = "closed" /\ e.error = TRUE
    BY <1>7, <2>1, <2>2 DEF Flushes, Same
  <2> HIDE DEF n, q
  <2>4. CASE e.state = "closed"
    <3>1. Same(e, d)
      BY <1>8, <2>4 DEF Advances
    <3>2. e.error = TRUE
      BY <2>2, <2>3, <2>4
    <3>3. n + k \in n .. acc /\ n + k <= acc
      BY <1>10, <2>2, <2>3
    <3>4. /\ d.state = "closed" /\ d.error = TRUE /\ d.started = FALSE
          /\ Len(d.sent) = n + k /\ d.role = c.role /\ d.sid = c.sid
      BY <2>3, <2>4, <3>1, <3>2 DEF Same
    <3>5. PromisePart(d, acc)
      BY <3>3, <3>4 DEF PromisePart
    <3>6. Moves(c, d, acc, t.live)
      BY <2>2, <3>3, <3>4 DEF Moves, n
    <3>7. Onward(c, d)
      BY <2>2, <3>4 DEF Onward
    <3> QED BY <2>1, <3>5, <3>6, <3>7
  <2>5. CASE e.state # "closed"
    <3>1. /\ e.state = c.state /\ e.error = c.error
          /\ e.connected = c.connected /\ Len(e.send) = q - k
      BY <2>3, <2>5
    <3>2. /\ d.state = c.state /\ d.error = c.error
          /\ d.connected = c.connected /\ Len(d.send) = q - k
          /\ Len(d.sent) = n + k /\ d.role = c.role /\ d.sid = c.sid
          /\ \/ d.started = FALSE
             \/ d.started = TRUE /\ c.state = "closing" /\ d.send = <<>>
      BY <1>8, <2>2, <2>3, <3>1 DEF Advances, Same
    <3>3. (n + k) + (q - k) = acc /\ n + k <= acc
      BY <1>10, <2>2, <2>3
    <3>4. Total(d.sent, d.send) = acc
      BY <3>2, <3>3 DEF Total
    <3>5. PromisePart(d, acc)
      BY <2>2, <3>2, <3>3, <3>4 DEF PromisePart
    <3>6. Onward(c, d)
      BY <2>2, <3>2 DEF Onward
    <3>7. d.started = TRUE => q = k
      <4>1. d.started = TRUE => Len(d.send) = 0
        BY <3>2
      <4> QED BY <1>10, <2>3, <3>2, <4>1
    <3>8. CASE k = 0
      <4>1. q # 0
        BY <1>10, <2>1 DEF q
      <4>2. d.started = FALSE /\ n + k = n
        BY <1>10, <3>2, <3>7, <3>8, <4>1
      <4>3. Moves(c, d, acc, t.live)
        BY <2>2, <3>2, <4>2 DEF Moves, n
      <4> QED BY <2>1, <3>5, <3>6, <4>3
    <3>9. CASE k # 0
      <4>1. n + k \in n + 1 .. acc
        BY <1>10, <2>2, <2>3, <3>9
      <4>2. d.started = TRUE => n + k = acc
        BY <2>2, <3>7
      <4>3. Moves(c, d, acc, t.live)
        BY <1>7, <2>2, <3>2, <3>9, <4>1, <4>2 DEF Moves, n
      <4> QED BY <2>1, <3>5, <3>6, <4>3
    <3> QED BY <3>8, <3>9
  <2> QED BY <2>4, <2>5
<1> QED BY <1>11, <1>12

(* A call that is not a task of the signaling thread sends no control      *)
(* message, leaves nothing queued when it closes the channel, and queues   *)
(* nothing unless the channel is open.                                     *)
Calm(c, d) ==
    /\ d.controls = c.controls
    /\ d.state = "closed" =>
           d.send = <<>> \/ (c.state = "closed" /\ d.send = c.send)
    /\ c.send = <<>> /\ c.state # "open" =>
           d.send = <<>> /\ d.state # "open"

LEMMA SameIsCalm ==
    ASSUME NEW c, NEW d, Same(c, d), d.controls = c.controls
    PROVE  Calm(c, d)
BY DEF Same, Calm

LEMMA AbruptlyMoves ==
    ASSUME NEW c \in Channel, NEW acc \in Nat, NEW live, PromisePart(c, acc)
    PROVE  /\ PromisePart(CloseAbruptly(c), acc)
           /\ Moves(c, CloseAbruptly(c), acc, live)
           /\ Onward(c, CloseAbruptly(c)) /\ Calm(c, CloseAbruptly(c))
<1> DEFINE d == CloseAbruptly(c)
<1>1. /\ c.state = "closed" => Same(c, d)
      /\ c.state # "closed" => Aborts(c, d)
      /\ d.controls = c.controls
  BY AbruptlyAborts
<1> HIDE DEF d
<1>2. CASE c.state = "closed"
  BY <1>1, <1>2, SameMoves, SameIsCalm DEF d
<1>3. CASE c.state # "closed"
  <2>1. Calm(c, d)
    BY <1>1, <1>3 DEF Calm, Aborts
  <2> QED BY <1>1, <1>3, <2>1, AbortMoves DEF d
<1> QED BY <1>2, <1>3

LEMMA CloseMoves ==
    ASSUME NEW c, NEW acc \in Nat, NEW peer, NEW h, NEW got, NEW t,
           ChannelInv(c, acc, peer, h, got), PromisePart(c, acc),
           NEW d \in Close(c, t)
    PROVE  /\ PromisePart(d, acc) /\ Moves(c, d, acc, t.live) /\ Onward(c, d)
           /\ Calm(c, d)
<1>1. c \in Channel
  BY DEF ChannelInv
<1>2. CASE c.state = "closed"
  <2>1. d = c
    BY <1>2 DEF Close
  <2>2. Same(c, d)
    BY <2>1 DEF Same
  <2> QED BY <2>1, <2>2, SameMoves, SameIsCalm
<1>3. CASE c.state # "closed"
  <2> DEFINE w == [c EXCEPT !.state = "closing"]
  <2>1. d \in UpdateState(w, t)
    BY <1>3 DEF Close
  <2>2. /\ w.state = "closing" /\ w.started = c.started
        /\ w.error = c.error /\ w.send = c.send /\ w.sent = c.sent
        /\ w.role = c.role /\ w.sid = c.sid /\ w.connected = c.connected
        /\ w.controls = c.controls
    BY <1>1 DEF Channel
  <2>3. \/ /\ w.state = "closing" /\ w.send = <<>>
           /\ d = [w EXCEPT !.started = TRUE]
        \/ d = w
    <3> HIDE DEF w
    <3> QED BY <2>1, <2>2 DEF UpdateState
  <2>4. w \in Channel
    <3>1. "closing" \in States
      BY DEF States
    <3> QED BY <1>1, <3>1, Updates
  <2> HIDE DEF w
  <2>5. /\ d.state = "closing" /\ d.error = c.error /\ d.send = c.send
        /\ d.sent = c.sent /\ d.role = c.role /\ d.sid = c.sid
        /\ d.connected = c.connected /\ d.controls = c.controls
        /\ \/ d.started = c.started
           \/ d.started = TRUE /\ c.send = <<>>
    BY <2>2, <2>3, <2>4 DEF Channel
  <2> DEFINE n == Len(c.sent)
             q == Len(c.send)
  <2>6. /\ n \in Nat /\ q \in Nat /\ c.started \in BOOLEAN
        /\ q = 0 <=> c.send = <<>>
        /\ c.started = FALSE => n + q = acc
    BY <1>1, <1>3, SentLengths DEF PromisePart
  <2>7. Len(d.sent) = n
    BY <2>5
  <2> HIDE DEF n, q
  <2>8. d.started = c.started \/ (d.started = TRUE /\ n = acc)
    <3>1. c.send = <<>> /\ c.started = FALSE => n = acc
      BY <2>6
    <3> QED BY <2>5, <2>6, <3>1
  <2>9. PromisePart(d, acc)
    BY <1>3, <2>5, <2>6 DEF PromisePart
  <2>10. Moves(c, d, acc, t.live)
    BY <1>3, <2>5, <2>7, <2>8 DEF Moves, n
  <2>11. Onward(c, d) /\ Calm(c, d)
    BY <1>3, <2>5 DEF Onward, Calm
  <2> QED BY <2>9, <2>10, <2>11
<1> QED BY <1>2, <1>3

(* Send() of an open channel: the message is queued, or sent if none is    *)
(* queued before it, or closes the channel.                                *)
Accepts(c, d, acc, live) ==
    /\ c.state = "open" /\ d.started = c.started
    /\ \/ /\ d.state = "open" /\ d.error = c.error
          /\ \/ Len(d.sent) = Len(c.sent)
             \/ live /\ Len(c.sent) = acc /\ Len(d.sent) = acc + 1
       \/ /\ d.state = "closed" /\ d.error = TRUE
          /\ Len(d.sent) = Len(c.sent)

LEMMA SendMoves ==
    ASSUME NEW c, NEW acc \in Nat, NEW peer, NEW h, NEW got, NEW t,
           ChannelInv(c, acc, peer, h, got), PromisePart(c, acc),
           NEW e \in Send(c, acc + 1, t)
    PROVE  /\ c.state # "open" => Same(c, e)
           /\ c.state = "open" =>
                  Accepts(c, e, acc, t.live) /\ PromisePart(e, acc + 1)
           /\ Onward(c, e) /\ Calm(c, e)
<1> DEFINE d == [c EXCEPT !.buffered = @ + 1]
           q == [d EXCEPT !.send = Append(@, acc + 1)]
<1>1. c \in Channel /\ c.buffered \in Int /\ c.send \in Seq(Nat)
  BY Fields DEF ChannelInv
<1>2. d \in Channel /\ Same(c, d) /\ d.controls = c.controls
  <2>1. c.buffered + 1 \in Amount
    BY <1>1 DEF Amount
  <2>2. d \in Channel
    BY <1>1, <2>1, Updates
  <2> QED BY <1>1, <2>2 DEF Same, Channel
<1>3. CASE c.state # "open"
  <2>1. e = d
    BY <1>3 DEF Send
  <2> HIDE DEF d
  <2> QED BY <1>2, <1>3, <2>1, SameMoves, SameIsCalm
<1>4. CASE c.state = "open"
  <2>1. \/ e = CloseAbruptly(d)
        \/ e = q
        \/ /\ c.send = <<>> /\ t.live
           /\ e = DataSent([d EXCEPT !.send = <<acc + 1>>], 1)
        \/ e = [CloseAbruptly(d) EXCEPT !.blocked = TRUE]
        \/ e = [q EXCEPT !.blocked = TRUE]
    BY <1>1, <1>4 DEF Send, QueueSendDataMessage, Channel
  <2>2. /\ ChannelInv(q, acc + 1, peer, h, got)
        /\ q.send = Append(c.send, acc + 1)
    <3>1. q = Queueing(c, acc + 1)
      BY <1>1 DEF Channel, Queueing
    <3> HIDE DEF d, q
    <3> QED BY <1>4, <3>1, QueueingKeeps
  <2>3. c.send = <<>> => q = [d EXCEPT !.send = <<acc + 1>>]
    <3>1. c.send = <<>> => Append(c.send, acc + 1) = <<acc + 1>>
      OBVIOUS
    <3>2. d.send = c.send
      BY <1>2 DEF Same
    <3> QED BY <3>1, <3>2
  <2>4. /\ q.state = d.state /\ q.started = d.started /\ q.error = d.error
        /\ q.sent = d.sent /\ q.role = d.role /\ q.sid = d.sid
        /\ q.connected = d.connected /\ q.controls = d.controls
    BY <1>2 DEF Channel
  <2> DEFINE a == CloseAbruptly(d)
  <2>5. /\ Aborts(d, a) /\ a.controls = d.controls /\ a \in Channel
    <3>1. d.state # "closed"
      BY <1>2, <1>4 DEF Same
    <3>2. Aborts(d, a) /\ a.controls = d.controls
      BY <1>2, <3>1, AbruptlyAborts
    <3>3. "closed" \in States
      BY DEF States
    <3>4. \A v \in Messages, z \in Amount, s \in States :
              [d EXCEPT !.connected = FALSE, !.send = v, !.buffered = z,
                        !.control = 0, !.error = TRUE, !.state = s] \in Channel
      BY <1>2 DEF Channel
    <3>5. a = [d EXCEPT !.connected = FALSE, !.send = <<>>, !.buffered = 0,
                        !.control = 0, !.error = TRUE, !.state = "closed"]
      BY <3>1 DEF CloseAbruptly
    <3> HIDE DEF a, d
    <3>6. a \in Channel
      BY <3>3, <3>4, <3>5, Nothing
    <3> QED BY <3>2, <3>6
  <2>6. e = [a EXCEPT !.blocked = TRUE] => Same(a, e) /\ e.controls = a.controls
    BY <2>5 DEF Same, Channel
  <2>7. e = [q EXCEPT !.blocked = TRUE] => Same(q, e) /\ e.controls = q.controls
    <3>1. q \in Channel
      BY <2>2 DEF ChannelInv
    <3> HIDE DEF q
    <3> QED BY <3>1 DEF Same, Channel
  <2>8. /\ Len(c.sent) \in Nat /\ Len(c.send) \in Nat
        /\ Len(c.send) = 0 <=> c.send = <<>>
        /\ Len(c.sent) + Len(c.send) = acc /\ c.started = FALSE
        /\ Len(c.sent) <= acc /\ Len(c.sent) <= acc + 1
    <3> DEFINE n == Len(c.sent)
               l == Len(c.send)
    <3>1. /\ n \in Nat /\ l \in Nat /\ (l = 0 <=> c.send = <<>>)
          /\ c.started = FALSE /\ n + l = acc
      BY <1>1, <1>4, SentLengths DEF PromisePart
    <3> HIDE DEF n, l
    <3>2. n <= acc /\ n <= acc + 1
      BY <3>1
    <3> QED BY <3>1, <3>2 DEF n, l
  <2> HIDE DEF d, q, a
  <2>9. CASE e = a \/ e = [a EXCEPT !.blocked = TRUE]
    <3>1. Aborts(d, e) /\ e.controls = d.controls
      BY <2>5, <2>6, <2>9, ChainedSame
    <3>2. Aborts(c, e) /\ e.controls = c.controls
      BY <1>2, <3>1 DEF Aborts, Same
    <3>3. Accepts(c, e, acc, t.live) /\ Onward(c, e) /\ Calm(c, e)
      BY <1>4, <3>2 DEF Aborts, Accepts, Onward, Calm
    <3>4. PromisePart(e, acc + 1)
      BY <2>8, <3>2 DEF Aborts, PromisePart
    <3> QED BY <1>4, <3>3, <3>4
  <2>10. CASE e = q \/ e = [q EXCEPT !.blocked = TRUE]
    <3>1. Same(q, e) /\ e.controls = q.controls
      BY <2>7, <2>10 DEF Same
    <3>2. /\ e.state = "open" /\ e.started = FALSE /\ e.error = c.error
          /\ e.sent = c.sent /\ e.role = c.role /\ e.sid = c.sid
          /\ e.connected = c.connected /\ e.controls = c.controls
          /\ e.send = Append(c.send, acc + 1)
      BY <1>2, <1>4, <2>2, <2>4, <2>8, <3>1 DEF Same
    <3>3. Total(e.sent, e.send) = acc + 1
      <4> DEFINE s == c.send
      <4>1. s \in Seq(Nat)
        BY <1>1
      <4> HIDE DEF s
      <4>2. Len(Append(s, acc + 1)) = Len(s) + 1
        BY <4>1
      <4>3. Len(e.send) = Len(c.send) + 1
        BY <3>2, <4>2 DEF s
      <4> DEFINE n == Len(c.sent)
                 l == Len(c.send)
      <4>4. n \in Nat /\ l \in Nat /\ n + l = acc
        BY <2>8
      <4>5. Len(e.sent) = n /\ Len(e.send) = l + 1
        BY <3>2, <4>3
      <4> HIDE DEF n, l
      <4>6. n + (l + 1) = acc + 1
        BY <4>4
      <4> QED BY <4>5, <4>6 DEF Total
    <3>4. Accepts(c, e, acc, t.live) /\ Onward(c, e) /\ Calm(c, e)
      BY <1>4, <2>8, <3>2 DEF Accepts, Onward, Calm
    <3>5. PromisePart(e, acc + 1)
      BY <2>8, <3>2, <3>3 DEF PromisePart
    <3> QED BY <1>4, <3>4, <3>5
  <2>11. CASE c.send = <<>> /\ t.live /\ e = DataSent(q, 1)
    <3>1. Len(q.send) = 1 /\ Len(c.sent) = acc
      <4>1. Len(q.send) = 1
        BY <2>2, <2>11
      <4>2. Len(c.send) = 0
        BY <2>8, <2>11
      <4>3. \A x \in Nat : x + 0 = acc => x = acc
        OBVIOUS
      <4> QED BY <2>8, <4>1, <4>2, <4>3
    <3>2. /\ e.role = q.role /\ e.sid = q.sid /\ e.started = q.started
          /\ e.error = q.error /\ e.state = q.state
          /\ e.connected = q.connected
          /\ Len(e.sent) = Len(q.sent) + 1 /\ Len(e.send) = 0
      <4>1. 1 \in Nat /\ 1 <= Len(q.send) /\ Len(q.send) - 1 = 0
        BY <3>1
      <4> QED BY <2>2, <2>11, <4>1, DataSentFlushes
    <3>3. e.controls = q.controls
      <4>1. q \in Channel
        BY <2>2 DEF ChannelInv
      <4> QED BY <2>11, <4>1 DEF DataSent, Channel
    <3>4. /\ e.state = "open" /\ e.started = FALSE /\ e.error = c.error
          /\ e.role = c.role /\ e.sid = c.sid
          /\ e.connected = c.connected /\ e.controls = c.controls
          /\ Len(e.sent) = acc + 1 /\ Len(e.send) = 0
      BY <1>2, <1>4, <2>4, <2>8, <3>1, <3>2, <3>3 DEF Same
    <3>5. Total(e.sent, e.send) = acc + 1 /\ acc + 1 <= acc + 1
      BY <3>4 DEF Total
    <3>6. Accepts(c, e, acc, t.live) /\ Onward(c, e) /\ Calm(c, e)
      BY <1>4, <2>8, <2>11, <3>1, <3>4 DEF Accepts, Onward, Calm
    <3>7. PromisePart(e, acc + 1)
      BY <3>4, <3>5 DEF PromisePart
    <3> QED BY <1>4, <3>6, <3>7
  <2> QED BY <2>1, <2>3, <2>9, <2>10, <2>11 DEF a
<1> QED BY <1>3, <1>4

LEMMA ReceivedMoves ==
    ASSUME NEW c \in Channel, NEW acc \in Nat, NEW live, NEW m,
           PromisePart(c, acc),
           NEW d \in {OnAckReceived(c), OnDataReceived(c, m)}
    PROVE  PromisePart(d, acc) /\ Moves(c, d, acc, live) /\ Onward(c, d)
<1> DEFINE a == Acknowledged(c)
<1>1. Same(c, a) /\ a \in Channel
  <2>1. Same(c, a)
    BY DEF Acknowledged, Same, Channel
  <2>2. "Ready" \in Handshakes
    BY DEF Handshakes
  <2>3. \A v \in Handshakes : [c EXCEPT !.handshake = v] \in Channel
    BY DEF Channel
  <2>4. a \in Channel
    BY <2>2, <2>3 DEF Acknowledged
  <2> QED BY <2>1, <2>4
<1>2. \/ d = a
      \/ d = [a EXCEPT !.delivered = Append(@, m)]
      \/ d = CloseAbruptly([a EXCEPT !.recv = <<>>])
      \/ d = [a EXCEPT !.recv = Append(@, m)]
  BY DEF OnAckReceived, OnDataReceived
<1> HIDE DEF a
<1>3. CASE \/ d = a \/ d = [a EXCEPT !.delivered = Append(@, m)]
           \/ d = [a EXCEPT !.recv = Append(@, m)]
  <2>1. Same(a, d)
    BY <1>1, <1>3 DEF Same, Channel
  <2> QED BY <1>1, <2>1, SameMoves, ChainedSame
<1>4. CASE d = CloseAbruptly([a EXCEPT !.recv = <<>>])
  <2> DEFINE b == [a EXCEPT !.recv = <<>>]
  <2>1. b \in Channel
    <3>1. \A v \in Messages : [a EXCEPT !.recv = v] \in Channel
      BY <1>1 DEF Channel
    <3> QED BY <3>1, Nothing
  <2>2. Same(a, b)
    BY <1>1 DEF Same, Channel
  <2>3. Same(c, b)
    BY <1>1, <2>2, ChainedSame
  <2>4. d = CloseAbruptly(b)
    BY <1>4
  <2> HIDE DEF b
  <2>5. \/ c.state = "closed" /\ Same(b, d)
        \/ c.state # "closed" /\ Aborts(b, d)
    BY <2>1, <2>3, <2>4, AbruptlyAborts DEF Same
  <2>6. Same(c, d) \/ Aborts(c, d)
    BY <2>3, <2>5 DEF Same, Aborts
  <2> QED BY <2>6, SameMoves, AbortMoves
<1> QED BY <1>2, <1>3, <1>4

LEMMA ObserverIsSame ==
    ASSUME NEW c \in Channel,
           NEW d \in {RegisterObserver(c), UnregisterObserver(c)}
    PROVE  Same(c, d) /\ d.controls = c.controls
<1>1. CASE d = UnregisterObserver(c)
  BY <1>1 DEF UnregisterObserver, Same, Channel
<1>2. CASE d = RegisterObserver(c)
  <2> DEFINE e == [c EXCEPT !.observer = TRUE]
  <2>1. e \in Channel /\ Same(c, e) /\ e.controls = c.controls
    <3>1. e \in Channel
      BY Updates
    <3> QED BY <3>1 DEF Same, Channel
  <2>2. d = DeliverQueuedReceivedData(e)
    BY <1>2 DEF RegisterObserver
  <2> HIDE DEF e
  <2>3. Same(e, d) /\ d.controls = e.controls
    BY <2>1, <2>2 DEF DeliverQueuedReceivedData, Same, Channel
  <2> QED BY <2>1, <2>3, ChainedSame
<1> QED BY <1>1, <1>2

(* The peer starts the closing procedure, or it is complete.               *)
LEMMA RemoteMoves ==
    ASSUME NEW c \in Channel, NEW acc, PromisePart(c, acc), NEW d,
           d = OnClosingProcedureStartedRemotely(c)
    PROVE  /\ PromisePart(d, acc) /\ Onward(c, d)
           /\ d.state \in {"closing", "closed"}
           /\ \/ d = c
              \/ /\ c.state \in {"connecting", "open"}
                 /\ d.state = "closing" /\ d.started = TRUE
                 /\ d.error = c.error /\ d.sent = c.sent
<1>1. CASE c.state \in {"closing", "closed"}
  BY <1>1 DEF OnClosingProcedureStartedRemotely, Onward
<1>2. CASE c.state \notin {"closing", "closed"}
  <2>1. d = [c EXCEPT !.send = <<>>, !.control = 0, !.started = TRUE,
                      !.state = "closing"]
    BY <1>2 DEF OnClosingProcedureStartedRemotely
  <2>2. /\ d.state = "closing" /\ d.started = TRUE /\ d.send = <<>>
        /\ d.error = c.error /\ d.sent = c.sent /\ d.role = c.role
        /\ d.sid = c.sid /\ d.connected = c.connected
    BY <2>1 DEF Channel
  <2>3. c.state \in {"connecting", "open"}
    BY <1>2, SentLengths DEF States
  <2> QED BY <2>2, <2>3 DEF PromisePart, Onward
<1> QED BY <1>1, <1>2

LEMMA CompleteMoves ==
    ASSUME NEW c \in Channel, NEW acc, PromisePart(c, acc), NEW d,
           d = OnClosingProcedureComplete(c)
    PROVE  /\ PromisePart(d, acc) /\ Onward(c, d)
           /\ d.state = "closed" /\ d.started = c.started
           /\ d.error = c.error /\ d.sent = c.sent
<1>1. d = [c EXCEPT !.connected = FALSE, !.state = "closed"]
  BY DEF OnClosingProcedureComplete
<1>2. /\ d.state = "closed" /\ d.started = c.started /\ d.error = c.error
      /\ d.sent = c.sent /\ d.role = c.role /\ d.sid = c.sid
  BY <1>1 DEF Channel
<1> QED BY <1>2 DEF PromisePart, Onward

-----------------------------------------------------------------------------
(* The tasks, once more: the order in which the transport posts them.      *)

Ended(c) == c.state \in {"closing", "closed"}

Changing(ts) == \E i \in 1 .. Len(ts) : ts[i][1] = "changed"

(* A change of transport is told before anything else.                     *)
ChangedFirst(ts) == \A i \in 1 .. Len(ts) : ts[i][1] = "changed" => i = 1

OnlyChanges(ts) == \A i \in 1 .. Len(ts) : ts[i][1] = "changed"

(* While the task of Init() waits, no signal made the channel queue data   *)
(* that a failed send would leave on a closed channel.                     *)
Starting(ts, c) ==
    \A i \in 1 .. Len(ts) : ts[i][1] = "init_ready" =>
        \/ i = 1 /\ (c.state = "closed" => c.send = <<>>)
        \/ /\ i = 2 /\ ts[1][1] = "ready"
           /\ c.state # "open" /\ c.send = <<>>

Closing(ts) == \E i \in 1 .. Len(ts) : ts[i][1] = "closing"

(* The end of the closing procedure is told after its start here or at the *)
(* peer.                                                                   *)
ClosedLast(ts, c, peer) ==
    \A i \in 1 .. Len(ts) : ts[i][1] = "closed" =>
        /\ peer
        /\ Ended(c) \/ \E j \in 1 .. Len(ts) : j < i /\ ts[j][1] = "closing"

Grows(ts, kind, us) ==
    /\ ChangedFirst(ts) => ChangedFirst(us)
    /\ Changing(us) => Changing(ts)
    /\ \A c : Starting(ts, c) => Starting(us, c)
    /\ Closing(ts) \/ kind = "closing" => Closing(us)
    /\ \A c, peer :
           ClosedLast(ts, c, peer)
           /\ (kind = "closed" => peer /\ (Ended(c) \/ Closing(ts))) =>
               ClosedLast(us, c, peer)

LEMMA PostedGrows ==
    ASSUME NEW ts \in Seq(Task), NEW kind \in Kinds, NEW m \in Nat, NEW us,
           us = Append(ts, <<kind, m>>),
           kind \notin {"init_ready", "changed"}
    PROVE  Grows(ts, kind, us)
<1> DEFINE t == <<kind, m>>
<1>1. t \in Task /\ t[1] = kind
  BY DEF Task
<1>2. us = Append(ts, t)
  OBVIOUS
<1>3. Len(ts) \in Nat
  BY LenProperties
<1> HIDE DEF t
<1>4. /\ us \in Seq(Task) /\ Len(us) = Len(ts) + 1
      /\ \A i \in 1 .. Len(ts) : us[i] = ts[i]
      /\ us[Len(ts) + 1] = t
  BY <1>1, <1>2, AppendProperties
<1>5. /\ \A i \in 1 .. Len(ts) : i \in 1 .. Len(us) /\ us[i] = ts[i]
                                 /\ i < Len(us)
      /\ Len(us) \in 1 .. Len(us) /\ us[Len(us)] = t
      /\ \A i \in 1 .. Len(us) : i \in 1 .. Len(ts) \/ i = Len(us)
  BY <1>3, <1>4
<1>6. (ChangedFirst(ts) => ChangedFirst(us)) /\ (Changing(us) => Changing(ts))
  BY <1>1, <1>5 DEF ChangedFirst, Changing
<1>7. ASSUME NEW c, Starting(ts, c)
      PROVE  Starting(us, c)
  <2>1. ASSUME NEW i \in 1 .. Len(us), us[i][1] = "init_ready"
        PROVE  \/ i = 1 /\ (c.state = "closed" => c.send = <<>>)
               \/ /\ i = 2 /\ us[1][1] = "ready"
                  /\ c.state # "open" /\ c.send = <<>>
    <3>1. i \in 1 .. Len(ts) /\ ts[i][1] = "init_ready"
      BY <1>1, <1>5, <2>1
    <3>2. i = 2 => us[1] = ts[1]
      <4>1. i = 2 => 1 \in 1 .. Len(ts)
        BY <1>3, <3>1
      <4> QED BY <1>5, <4>1
    <3> QED BY <1>7, <3>1, <3>2 DEF Starting
  <2> QED BY <2>1 DEF Starting
<1>8. Closing(ts) \/ kind = "closing" => Closing(us)
  BY <1>1, <1>5 DEF Closing
<1>9. ASSUME NEW c, NEW peer, ClosedLast(ts, c, peer),
             kind = "closed" => peer /\ (Ended(c) \/ Closing(ts))
      PROVE  ClosedLast(us, c, peer)
  <2>1. ASSUME NEW i \in 1 .. Len(us), us[i][1] = "closed"
        PROVE  /\ peer
               /\ Ended(c) \/ \E j \in 1 .. Len(us) :
                                  j < i /\ us[j][1] = "closing"
    <3>1. CASE i \in 1 .. Len(ts)
      BY <1>5, <1>9, <2>1, <3>1 DEF ClosedLast
    <3>2. CASE i = Len(us)
      BY <1>1, <1>5, <1>9, <2>1, <3>2 DEF Closing
    <3> QED BY <1>5, <3>1, <3>2
  <2> QED BY <2>1 DEF ClosedLast
<1> QED BY <1>6, <1>7, <1>8, <1>9 DEF Grows

Shrinks(ts, kind, us) ==
    /\ ChangedFirst(ts) => ~Changing(us)
    /\ OnlyChanges(ts) => kind = "changed" /\ OnlyChanges(us)
    /\ kind = "changed" => Changing(ts)
    /\ \A c, d :
           Starting(ts, c)
           /\ (kind = "ready" /\ c.send = <<>> => d.send = <<>>) =>
               Starting(us, d)
    /\ \A c : Starting(ts, c) /\ kind = "init_ready" /\ c.state = "closed" =>
           c.send = <<>>
    /\ Closing(ts) => Closing(us) \/ kind = "closing"
    /\ \A c, d, peer :
           ClosedLast(ts, c, peer)
           /\ (Ended(c) \/ kind = "closing" => Ended(d)) =>
               ClosedLast(us, d, peer)
    /\ \A c, peer : ClosedLast(ts, c, peer) /\ kind = "closed" =>
           peer /\ Ended(c)

LEMMA HandledShrinks ==
    ASSUME NEW ts \in Seq(Task), ts # <<>>, NEW kind, NEW m,
           Head(ts) = <<kind, m>>, NEW us, us = Tail(ts)
    PROVE  Shrinks(ts, kind, us)
<1> DEFINE t == <<kind, m>>
<1>1. t[1] = kind
  OBVIOUS
<1>2. /\ us \in Seq(Task) /\ Len(ts) \in Nat /\ Len(us) = Len(ts) - 1
      /\ Len(ts) # 0
      /\ \A i \in 1 .. Len(us) : us[i] = ts[i + 1]
  BY HeadTailProperties, EmptySeq, LenProperties
<1>3. ts[1] = t
  OBVIOUS
<1> HIDE DEF t
<1>4. 1 \in 1 .. Len(ts) /\ ts[1][1] = kind
  BY <1>1, <1>2, <1>3
<1>5. \A i \in 1 .. Len(us) : /\ i + 1 \in 1 .. Len(ts) /\ us[i] = ts[i + 1]
                              /\ i + 1 # 1
  BY <1>2
<1>6. ASSUME NEW i \in 1 .. Len(ts), i # 1
      PROVE  \E j \in 1 .. Len(us) : j + 1 = i /\ us[j] = ts[i]
  <2>1. i - 1 \in 1 .. Len(us) /\ (i - 1) + 1 = i
    BY <1>2, <1>6
  <2>2. us[i - 1] = ts[(i - 1) + 1]
    BY <1>2, <2>1
  <2> QED BY <2>1, <2>2
<1>7. /\ ChangedFirst(ts) => ~Changing(us)
      /\ OnlyChanges(ts) => kind = "changed" /\ OnlyChanges(us)
      /\ kind = "changed" => Changing(ts)
  BY <1>4, <1>5 DEF ChangedFirst, Changing, OnlyChanges
<1>8. ASSUME NEW c, NEW d, Starting(ts, c),
             kind = "ready" /\ c.send = <<>> => d.send = <<>>
      PROVE  Starting(us, d)
  <2>1. ASSUME NEW i \in 1 .. Len(us), us[i][1] = "init_ready"
        PROVE  i = 1 /\ d.send = <<>>
    <3>1. i + 1 = 2 /\ ts[1][1] = "ready" /\ c.send = <<>>
      BY <1>5, <1>8, <2>1 DEF Starting
    <3>2. i = 1
      BY <3>1
    <3> QED BY <1>4, <1>8, <3>1, <3>2
  <2> QED BY <2>1 DEF Starting
<1>9. ASSUME NEW c, Starting(ts, c), kind = "init_ready", c.state = "closed"
      PROVE  c.send = <<>>
  BY <1>4, <1>9 DEF Starting
<1>10. Closing(ts) => Closing(us) \/ kind = "closing"
  BY <1>4, <1>6 DEF Closing
<1>11. ASSUME NEW c, NEW d, NEW peer, ClosedLast(ts, c, peer),
              Ended(c) \/ kind = "closing" => Ended(d)
       PROVE  ClosedLast(us, d, peer)
  <2>1. ASSUME NEW i \in 1 .. Len(us), us[i][1] = "closed", ~Ended(d)
        PROVE  \E j \in 1 .. Len(us) : j < i /\ us[j][1] = "closing"
    <3>1. PICK l \in 1 .. Len(ts) : l < i + 1 /\ ts[l][1] = "closing"
      BY <1>5, <1>11, <2>1 DEF ClosedLast
    <3>2. l # 1
      BY <1>4, <1>11, <2>1, <3>1
    <3>3. PICK j \in 1 .. Len(us) : j + 1 = l /\ us[j] = ts[l]
      BY <1>6, <3>2
    <3>4. j < i
      BY <1>2, <3>1, <3>3
    <3> QED BY <3>1, <3>3, <3>4
  <2>2. \A i \in 1 .. Len(us) : us[i][1] = "closed" => peer
    BY <1>5, <1>11 DEF ClosedLast
  <2> QED BY <2>1, <2>2 DEF ClosedLast
<1>12. ASSUME NEW c, NEW peer, ClosedLast(ts, c, peer), kind = "closed"
       PROVE  peer /\ Ended(c)
  <2>1. \A j \in 1 .. Len(ts) : ~(j < 1)
    BY <1>2
  <2> QED BY <1>4, <1>12, <2>1 DEF ClosedLast
<1> QED BY <1>7, <1>8, <1>9, <1>10, <1>11, <1>12 DEF Shrinks

-----------------------------------------------------------------------------
(* The system keeps the contract.                                          *)

(* The channel has a transport when it is connected, and an association    *)
(* only if it has a sid, which the application's own channels bring.       *)
WiredPart ==
    /\ stream \in {"absent", "open", "closing", "unsent"}
    /\ transport \in {"none", "set"} /\ up \in BOOLEAN
    /\ transport = "set" /\ channel.state # "closed" => channel.connected
    /\ ~channel.sid => ~up /\ channel.role = "opener"

(* Before the association nothing was sent and the peer reset nothing.     *)
DownPart ==
    ~up => /\ channel.controls = 0 /\ channel.role # "acker"
           /\ ~peerReset /\ stream # "closing"
           /\ OnlyChanges(tasks)
           /\ changes = 0 => tasks = <<>>

(* While the channel is not told of its new transport, it cannot have sent *)
(* the OPEN message the peer must see before it closes the channel.        *)
ChangePart ==
    /\ ChangedFirst(tasks)
    /\ Changing(tasks) =>
           /\ channel.controls = 0 /\ channel.role # "acker"
           /\ channel.role = "none" => stream = "absent"
           /\ peerReset \/ stream \in {"closing", "unsent"} =>
                  channel.started

(* A stream is reset for a channel that is closing or will hear of it, and *)
(* one the peer reset is not used again.                                   *)
StreamPart ==
    /\ stream \in {"closing", "unsent"} => Ended(channel) \/ Closing(tasks)
    /\ stream = "open" /\ peerReset => channel.started

ContractInv ==
    /\ changes \in Nat
    /\ PromisePart(channel, accepted)
    /\ WiredPart /\ DownPart /\ ChangePart /\ StreamPart
    /\ Starting(tasks, channel)
    /\ ClosedLast(tasks, channel, peerReset)

(* The steps of the contract.                                              *)
LEMMA MovesKeepContract ==
    ASSUME DataChannelInv, ContractInv,
           Moves(channel, channel', accepted, stream = "open"),
           channel' \in Channel,
           accepted' = accepted, peerReset' = peerReset
    PROVE  [Contract!Next]_(Contract!vars)
<1> DEFINE n == Len(channel.sent)
           m == Len(channel'.sent)
<1>1. /\ n \in Nat /\ m \in Nat /\ n <= accepted /\ accepted \in Nat
      /\ channel.started \in BOOLEAN /\ channel'.started \in BOOLEAN
      /\ peerReset \in BOOLEAN
  BY SentLengths DEF DataChannelInv, ContractInv, PromisePart, ChannelInv
<1>2. ~channel.started /\ stream = "open" => ~peerReset
  BY DEF ContractInv, StreamPart
<1> DEFINE
      Stays == /\ channel'.state = channel.state
               /\ channel'.started = channel.started
               /\ channel'.error = channel.error /\ m = n
      Opens == /\ channel.state = "connecting" /\ channel'.state = "open"
               /\ channel'.started = channel.started
               /\ channel'.error = channel.error /\ m = n
      Sends == /\ channel.state \in {"open", "closing"}
               /\ channel'.state = channel.state
               /\ stream = "open" /\ ~channel.started
               /\ channel'.error = channel.error
               /\ m \in n + 1 .. accepted
               /\ channel'.started =>
                      channel.state = "closing" /\ m = accepted
      Closes == /\ channel.state # "closed" /\ channel'.state = "closing"
                /\ channel'.error = channel.error /\ m = n
                /\ \/ channel'.started = channel.started
                   \/ channel'.started = TRUE /\ n = accepted
      Fails == /\ channel.state # "closed" /\ channel'.state = "closed"
               /\ channel'.started = channel.started
               /\ channel'.error = TRUE
               /\ m \in n .. accepted
<1>3. Stays \/ Opens \/ Sends \/ Closes \/ Fails
  BY DEF Moves
<1>4. CASE Stays
  BY <1>4 DEF Contract!vars
<1>5. CASE Opens
  <2>1. Contract!Open
    BY <1>5 DEF Contract!Open
  <2> QED BY <2>1 DEF Contract!Next
<1>6. CASE Sends
  <2>1. \/ channel'.started = FALSE
        \/ channel'.started = (channel.state = "closing" /\ m = accepted)
    BY <1>1, <1>6
  <2>2. Contract!Transmit
    BY <1>1, <1>2, <1>6, <2>1 DEF Contract!Transmit
  <2> QED BY <2>2 DEF Contract!Next
<1>7. CASE Closes
  <2>1. \/ channel'.started = channel.started
        \/ channel'.started = (channel.started \/ n = accepted)
    BY <1>1, <1>7
  <2>2. Contract!Close
    BY <1>7, <2>1 DEF Contract!Close
  <2> QED BY <2>2 DEF Contract!Next
<1>8. CASE Fails
  <2>1. Contract!Abort
    BY <1>8 DEF Contract!Abort
  <2> QED BY <2>1 DEF Contract!Next
<1> QED BY <1>3, <1>4, <1>5, <1>6, <1>7, <1>8

LEMMA AcceptKeepsContract ==
    ASSUME DataChannelInv, ContractInv,
           Accepts(channel, channel', accepted, stream = "open"),
           accepted' = accepted + 1, peerReset' = peerReset
    PROVE  Contract!Next
<1>1. channel.started = FALSE /\ accepted \in Nat
  BY SentLengths
     DEF DataChannelInv, ContractInv, PromisePart, ChannelInv, Accepts
<1>2. stream = "open" => ~peerReset
  BY <1>1 DEF ContractInv, StreamPart
<1>3. Len(channel.sent) \in Len(channel.sent) .. accepted
  <2> DEFINE n == Len(channel.sent)
  <2>1. n \in Nat /\ n <= accepted
    BY SentLengths DEF DataChannelInv, ContractInv, PromisePart, ChannelInv
  <2> HIDE DEF n
  <2>2. n \in n .. accepted
    BY <1>1, <2>1
  <2> QED BY <2>2 DEF n
<1>4. CASE channel'.state = "open"
  <2>1. Contract!Accept
    BY <1>2, <1>4 DEF Accepts, Contract!Accept
  <2> QED BY <2>1 DEF Contract!Next
<1>5. CASE channel'.state = "closed"
  <2>1. Contract!Abort
    BY <1>3, <1>5 DEF Accepts, Contract!Abort
  <2> QED BY <2>1 DEF Contract!Next
<1> QED BY <1>4, <1>5 DEF Accepts

(* A call of the application or of PeerConnection: the tasks stay, and the *)
(* stream is reset when the closing procedure starts.                      *)
LEMMA CallKeepsContractInv ==
    ASSUME DataChannelInv, ContractInv, channel' \in Channel,
           PromisePart(channel', accepted'),
           Onward(channel, channel'), Calm(channel, channel'),
           tasks' = tasks, transport' = transport, up' = up,
           peerReset' = peerReset, changes' = changes,
           \/ stream' = stream
           \/ /\ stream = "open" /\ channel'.started
              /\ stream' = IF up THEN "closing" ELSE "unsent"
    PROVE  ContractInv'
<1>1. WiredPart'
  BY DEF ContractInv, WiredPart, Onward
<1>2. DownPart'
  BY DEF ContractInv, WiredPart, DownPart, Onward, Calm
<1>3. ChangePart'
  BY DEF ContractInv, ChangePart, Onward, Calm
<1>4. StreamPart'
  <2>1. channel'.started => Ended(channel')
    <3>1. channel'.state \in States
      BY SentLengths
    <3> QED BY <3>1 DEF PromisePart, Ended, States
  <2>2. Ended(channel) => Ended(channel')
    BY DEF Onward, Ended
  <2> QED BY <2>1, <2>2 DEF ContractInv, WiredPart, StreamPart, Onward
<1>5. Starting(tasks', channel')
  BY DEF ContractInv, Starting, Calm
<1>6. ClosedLast(tasks', channel', peerReset')
  BY DEF ContractInv, ClosedLast, Onward, Ended
<1>7. changes' \in Nat
  BY DEF ContractInv
<1> QED BY <1>1, <1>2, <1>3, <1>4, <1>5, <1>6, <1>7 DEF ContractInv

(* SDR_BLOCK is forgotten once ready_to_send_data_ is cleared.             *)
LEMMA BecomesSame ==
    ASSUME NEW c \in Channel, Becomes(c)
    PROVE  /\ Same(c, channel') /\ channel'.controls = c.controls
           /\ up' = up /\ changes' = changes
           /\ \/ stream' = stream
              \/ /\ stream = "open" /\ channel'.started
                 /\ stream' = IF up THEN "closing" ELSE "unsent"
<1>1. channel' = [c EXCEPT !.blocked = FALSE]
  BY DEF Becomes
<1>2. Same(c, channel') /\ channel'.controls = c.controls
  BY <1>1 DEF Same, Channel
<1>3. channel'.started = c.started
  BY <1>2 DEF Same
<1> QED BY <1>2, <1>3 DEF Becomes

LEMMA SameCarries ==
    ASSUME NEW c, NEW d, NEW e, NEW acc, NEW live, Same(d, e),
           e.controls = d.controls
    PROVE  /\ PromisePart(d, acc) => PromisePart(e, acc)
           /\ Moves(c, d, acc, live) => Moves(c, e, acc, live)
           /\ Accepts(c, d, acc, live) => Accepts(c, e, acc, live)
           /\ Onward(c, d) => Onward(c, e)
           /\ Calm(c, d) => Calm(c, e)
BY DEF Same, PromisePart, Moves, Accepts, Onward, Calm

LEMMA ChannelParts ==
    ASSUME DataChannelInv, ContractInv
    PROVE  /\ channel \in Channel /\ accepted \in Nat
           /\ ChannelInv(channel, accepted, peerReset, heard, Got)
           /\ PromisePart(channel, accepted)
           /\ Answers.live = (stream = "open")
BY DEF DataChannelInv, ContractInv, ChannelInv, Answers

LEMMA AppSendContract ==
    ASSUME DataChannelInv, ContractInv, DataChannelInv', AppSend
    PROVE  ContractInv' /\ [Contract!Next]_(Contract!vars)
<1>1. PICK c \in Send(channel, accepted + 1, Answers) : Becomes(c)
  BY DEF AppSend
<1>2. /\ accepted' = IF channel.state = "open" THEN accepted + 1 ELSE accepted
      /\ peerReset' = peerReset /\ transport' = transport /\ tasks' = tasks
  BY DEF AppSend
<1>3. /\ channel \in Channel /\ accepted \in Nat
      /\ ChannelInv(channel, accepted, peerReset, heard, Got)
      /\ PromisePart(channel, accepted)
      /\ Answers.live = (stream = "open")
  BY ChannelParts
<1>4. /\ channel.state # "open" => Same(channel, c)
      /\ channel.state = "open" =>
             /\ Accepts(channel, c, accepted, Answers.live)
             /\ PromisePart(c, accepted + 1)
      /\ Onward(channel, c) /\ Calm(channel, c)
  BY <1>3, SendMoves
<1>5. c \in Channel
  BY <1>3, SendKeeps DEF ChannelInv
<1>6. /\ Same(c, channel') /\ channel'.controls = c.controls
      /\ up' = up /\ changes' = changes
      /\ \/ stream' = stream
         \/ /\ stream = "open" /\ channel'.started
            /\ stream' = IF up THEN "closing" ELSE "unsent"
  BY <1>1, <1>5, BecomesSame
<1>7. channel' \in Channel
  BY DEF DataChannelInv, ChannelInv
<1>8. Onward(channel, channel') /\ Calm(channel, channel')
  BY <1>4, <1>6, SameCarries
<1>9. CASE channel.state # "open"
  <2>1. Same(channel, channel') /\ accepted' = accepted
    BY <1>2, <1>4, <1>6, <1>9, ChainedSame
  <2>2. /\ PromisePart(channel', accepted)
        /\ Moves(channel, channel', accepted, stream = "open")
    BY <1>3, <2>1, SameMoves
  <2>3. ContractInv'
    BY <1>2, <1>6, <1>7, <1>8, <2>1, <2>2, CallKeepsContractInv
  <2> QED BY <1>2, <1>7, <2>1, <2>2, <2>3, MovesKeepContract
<1>10. CASE channel.state = "open"
  <2>1. /\ Accepts(channel, channel', accepted, stream = "open")
        /\ PromisePart(channel', accepted + 1) /\ accepted' = accepted + 1
    BY <1>2, <1>3, <1>4, <1>6, <1>10, SameCarries
  <2>2. ContractInv'
    BY <1>2, <1>6, <1>7, <1>8, <2>1, CallKeepsContractInv
  <2> QED BY <1>2, <2>1, <2>2, AcceptKeepsContract
<1> QED BY <1>9, <1>10

LEMMA AppCloseContract ==
    ASSUME DataChannelInv, ContractInv, DataChannelInv', AppClose
    PROVE  ContractInv' /\ [Contract!Next]_(Contract!vars)
<1>1. PICK c \in Close(channel, Answers) : Becomes(c)
  BY DEF AppClose
<1>2. /\ accepted' = accepted /\ peerReset' = peerReset
      /\ transport' = transport /\ tasks' = tasks
  BY DEF AppClose
<1>3. /\ channel \in Channel /\ accepted \in Nat
      /\ ChannelInv(channel, accepted, peerReset, heard, Got)
      /\ PromisePart(channel, accepted)
      /\ Answers.live = (stream = "open")
  BY ChannelParts
<1>4. /\ PromisePart(c, accepted)
      /\ Moves(channel, c, accepted, Answers.live)
      /\ Onward(channel, c) /\ Calm(channel, c)
  BY <1>3, CloseMoves
<1>5. c \in Channel
  BY <1>1, <1>3, CloseKeeps DEF ChannelInv
<1>6. /\ Same(c, channel') /\ channel'.controls = c.controls
      /\ up' = up /\ changes' = changes
      /\ \/ stream' = stream
         \/ /\ stream = "open" /\ channel'.started
            /\ stream' = IF up THEN "closing" ELSE "unsent"
  BY <1>1, <1>5, BecomesSame
<1>7. channel' \in Channel
  BY DEF DataChannelInv, ChannelInv
<1>8. /\ PromisePart(channel', accepted)
      /\ Moves(channel, channel', accepted, stream = "open")
      /\ Onward(channel, channel') /\ Calm(channel, channel')
  BY <1>3, <1>4, <1>6, SameCarries
<1>9. ContractInv'
  BY <1>2, <1>6, <1>7, <1>8, CallKeepsContractInv
<1> QED BY <1>2, <1>7, <1>8, <1>9, MovesKeepContract

LEMMA CallContract ==
    ASSUME DataChannelInv, ContractInv, DataChannelInv',
           \/ AppObserve \/ CloseAbruptlyWithDataChannelFailure
           \/ OnTransportChannelClosed
    PROVE  ContractInv' /\ [Contract!Next]_(Contract!vars)
<1>1. /\ accepted' = accepted /\ peerReset' = peerReset
      /\ transport' = transport /\ tasks' = tasks /\ up' = up
      /\ stream' = stream /\ changes' = changes
  BY DEF AppObserve, CloseAbruptlyWithDataChannelFailure,
         OnTransportChannelClosed, environment, boundVars
<1>2. \/ channel' \in {RegisterObserver(channel), UnregisterObserver(channel)}
      \/ channel' = CloseAbruptly(channel)
  BY DEF AppObserve, CloseAbruptlyWithDataChannelFailure,
         OnTransportChannelClosed
<1>3. /\ channel \in Channel /\ accepted \in Nat
      /\ PromisePart(channel, accepted)
  BY ChannelParts
<1>4. channel' \in Channel
  BY DEF DataChannelInv, ChannelInv
<1>5. /\ PromisePart(channel', accepted)
      /\ Moves(channel, channel', accepted, stream = "open")
      /\ Onward(channel, channel') /\ Calm(channel, channel')
  <2>1. CASE channel' \in
                 {RegisterObserver(channel), UnregisterObserver(channel)}
    <3>1. /\ Same(channel, channel')
          /\ channel'.controls = channel.controls
      BY <1>3, <2>1, ObserverIsSame
    <3> QED BY <1>3, <3>1, SameMoves, SameIsCalm
  <2>2. CASE channel' = CloseAbruptly(channel)
    BY <1>3, <2>2, AbruptlyMoves
  <2> QED BY <1>2, <2>1, <2>2
<1>6. ContractInv'
  BY <1>1, <1>4, <1>5, CallKeepsContractInv
<1> QED BY <1>1, <1>4, <1>5, <1>6, MovesKeepContract

(* The negotiation: a transport and a sid, before the association.         *)
LEMMA NegotiationContract ==
    ASSUME DataChannelInv, ContractInv, DataChannelInv',
           OnTransportChannelCreated \/ SetSctpSid
    PROVE  ContractInv' /\ [Contract!Next]_(Contract!vars)
<1>1. /\ accepted' = accepted /\ peerReset' = peerReset /\ tasks' = tasks
      /\ up' = up /\ changes' = changes
      /\ stream' \in {stream, "open"}
      /\ stream' # stream => stream = "absent" /\ stream' = "open"
      /\ channel.state # "closed"
  BY DEF OnTransportChannelCreated, SetSctpSid, AddSctpDataStream, boundVars
<1>2. channel \in Channel /\ PromisePart(channel, accepted)
  BY ChannelParts
<1>3. /\ channel'.state = channel.state
      /\ channel'.started = channel.started
      /\ channel'.error = channel.error /\ channel'.send = channel.send
      /\ channel'.sent = channel.sent /\ channel'.role = channel.role
      /\ channel'.controls = channel.controls
      /\ \/ /\ transport = "none" /\ transport' = "set"
            /\ channel'.connected = TRUE /\ channel'.sid = channel.sid
         \/ /\ ~channel.sid /\ transport' = transport
            /\ channel'.connected = channel.connected
            /\ channel'.sid = TRUE
  BY <1>2 DEF OnTransportChannelCreated, SetSctpSid, Channel
<1>4. ~up /\ ~peerReset
  <2>1. transport = "none" \/ ~channel.sid
    BY <1>3
  <2>2. ~up
    BY <2>1 DEF DataChannelInv, ContractInv, WiredPart
  <2> QED BY <2>2 DEF ContractInv, DownPart
<1>5. WiredPart'
  BY <1>1, <1>3, <1>4 DEF ContractInv, WiredPart
<1>6. DownPart'
  BY <1>1, <1>3 DEF ContractInv, DownPart
<1>7. ChangePart'
  <2>1. Changing(tasks) => ~channel.sid
    <3>1. transport = "none" => ~Changing(tasks)
      BY DEF DataChannelInv, Changing
    <3> QED BY <1>3, <3>1
  <2>2. ~channel.sid => channel.role # "none"
    BY DEF ContractInv, WiredPart
  <2> QED BY <1>1, <1>3, <1>4, <2>1, <2>2 DEF ContractInv, ChangePart
<1>8. StreamPart'
  BY <1>1, <1>3, <1>4 DEF ContractInv, StreamPart, Ended
<1>9. PromisePart(channel', accepted')
  BY <1>1, <1>2, <1>3 DEF PromisePart
<1>10. Starting(tasks', channel') /\ ClosedLast(tasks', channel', peerReset')
  BY <1>1, <1>3 DEF ContractInv, Starting, ClosedLast, Ended
<1>11. ContractInv'
  BY <1>1, <1>5, <1>6, <1>7, <1>8, <1>9, <1>10 DEF ContractInv
<1>12. UNCHANGED Contract!vars
  BY <1>1, <1>3 DEF Contract!vars
<1> QED BY <1>11, <1>12

(* Steps of the transport and the peer.                                    *)
LEMMA TransportContract ==
    ASSUME DataChannelInv, ContractInv, DataChannelInv',
           OtherChannelBlocks \/ PeerAnswersReset \/ UnsentReset
    PROVE  ContractInv' /\ [Contract!Next]_(Contract!vars)
<1>1. /\ channel' = channel /\ accepted' = accepted /\ tasks' = tasks
      /\ transport' = transport /\ up' = up /\ changes' = changes
      /\ \/ stream' = stream /\ peerReset' = peerReset
         \/ /\ stream = "closing" /\ ~peerReset
            /\ stream' = stream /\ peerReset' = TRUE
         \/ /\ up /\ stream = "unsent"
            /\ stream' = "closing" /\ peerReset' = peerReset
  BY DEF OtherChannelBlocks, PeerAnswersReset, UnsentReset, boundVars
<1>2. WiredPart' /\ DownPart'
  BY <1>1 DEF ContractInv, WiredPart, DownPart
<1>3. ChangePart'
  BY <1>1 DEF ContractInv, ChangePart
<1>4. StreamPart'
  BY <1>1 DEF ContractInv, StreamPart
<1>5. ClosedLast(tasks', channel', peerReset')
  BY <1>1 DEF ContractInv, ClosedLast
<1>6. ContractInv'
  BY <1>1, <1>2, <1>3, <1>4, <1>5 DEF ContractInv
<1>7. CASE peerReset' = peerReset
  BY <1>1, <1>6, <1>7 DEF Contract!vars
<1>8. CASE ~peerReset /\ peerReset' = TRUE
  <2>1. Contract!PeerResets
    BY <1>1, <1>8 DEF Contract!PeerResets
  <2> QED BY <1>6, <2>1 DEF Contract!Next
<1> QED BY <1>1, <1>7, <1>8

LEMMA PostContract ==
    ASSUME DataChannelInv, ContractInv, DataChannelInv',
           \/ SetReadyToSendData \/ PeerSends \/ PeerCloses \/ ResetComplete
    PROVE  ContractInv' /\ [Contract!Next]_(Contract!vars)
<1>1. /\ channel' = channel /\ accepted' = accepted
      /\ transport' = transport /\ changes' = changes
      /\ tasks \in Seq(Task) /\ received \in Nat
  BY DEF SetReadyToSendData, PeerSends, PeerCloses, ResetComplete, boundVars,
         DataChannelInv
<1>2. PICK kind \in {"ready", "ack", "data", "closing", "closed"}, m \in Nat :
          /\ tasks' = Append(tasks, <<kind, m>>)
          /\ \/ /\ kind = "ready" /\ up' = TRUE /\ channel.sid
                /\ stream' = stream /\ peerReset' = peerReset
             \/ /\ kind \in {"ack", "data"} /\ up /\ up' = up
                /\ stream' = stream /\ peerReset' = peerReset
             \/ /\ kind = "closing" /\ up /\ up' = up
                /\ stream = "open" /\ ~peerReset
                /\ channel.role = "opener" => channel.controls > 0
                /\ stream' = "closing" /\ peerReset' = TRUE
             \/ /\ kind = "closed" /\ up' = up
                /\ stream = "closing" /\ peerReset
                /\ stream' = "absent" /\ peerReset' = peerReset
  BY <1>1 DEF SetReadyToSendData, PeerSends, PeerCloses, ResetComplete, Post
<1>3. kind \in Kinds /\ kind \notin {"init_ready", "changed"}
  BY DEF Kinds
<1>4. Grows(tasks, kind, tasks')
  BY <1>1, <1>2, <1>3, PostedGrows, Zenon
<1>5. up' = TRUE
  BY <1>2 DEF ContractInv, WiredPart, DownPart
<1>6. WiredPart' /\ DownPart'
  BY <1>1, <1>2, <1>5 DEF ContractInv, WiredPart, DownPart
<1>7. ChangePart'
  <2>1. ChangedFirst(tasks') /\ (Changing(tasks') => Changing(tasks))
    BY <1>4 DEF Grows, ContractInv, ChangePart
  <2>2. CASE kind = "closing"
    <3>1. ~Changing(tasks)
      <4>1. channel.role \in Roles /\ ~(0 > 0)
        BY ChannelParts DEF Channel
      <4> QED BY <1>2, <2>2, <4>1 DEF ContractInv, ChangePart, Roles
    <3> QED BY <2>1, <3>1 DEF ChangePart
  <2>3. CASE kind # "closing"
    BY <1>1, <1>2, <2>1, <2>3 DEF ContractInv, ChangePart
  <2> QED BY <2>2, <2>3
<1>8. StreamPart'
  <2>1. Closing(tasks) \/ kind = "closing" => Closing(tasks')
    BY <1>4 DEF Grows
  <2> QED BY <1>1, <1>2, <2>1 DEF ContractInv, StreamPart
<1>9. Starting(tasks', channel')
  BY <1>1, <1>4 DEF Grows, ContractInv
<1>10. ClosedLast(tasks', channel', peerReset')
  <2>1. ClosedLast(tasks, channel, peerReset')
    BY <1>2 DEF ContractInv, ClosedLast
  <2>2. kind = "closed" => peerReset' /\ (Ended(channel) \/ Closing(tasks))
    BY <1>2 DEF ContractInv, StreamPart
  <2> QED BY <1>1, <1>4, <2>1, <2>2 DEF Grows
<1>11. ContractInv'
  BY <1>1, <1>6, <1>7, <1>8, <1>9, <1>10 DEF ContractInv
<1>12. CASE peerReset' = peerReset
  BY <1>1, <1>11, <1>12 DEF Contract!vars
<1>13. CASE ~peerReset /\ peerReset' = TRUE
  <2>1. Contract!PeerResets
    BY <1>1, <1>13 DEF Contract!PeerResets
  <2> QED BY <1>11, <2>1 DEF Contract!Next
<1> QED BY <1>2, <1>12, <1>13

LEMMA ChangeContract ==
    ASSUME DataChannelInv, ContractInv, OnTransportChanged, changes' <= 1
    PROVE  ContractInv' /\ [Contract!Next]_(Contract!vars)
<1>1. /\ channel' = channel /\ accepted' = accepted
      /\ transport' = transport /\ up' = up /\ peerReset' = peerReset
      /\ transport = "set" /\ ~up /\ stream' = "absent"
      /\ changes' = changes + 1 /\ changes \in Nat
      /\ tasks' = Append(tasks, <<"changed", 0>>)
  BY DEF OnTransportChanged, ContractInv
<1>2. changes = 0 /\ changes' = 1
  BY <1>1
<1>3. tasks = <<>>
  BY <1>1, <1>2 DEF ContractInv, DownPart
<1>4. tasks' = <<<<"changed", 0>>>>
  BY <1>1, <1>3
<1>5. \A i \in 1 .. Len(tasks') : i = 1 /\ tasks'[i][1] = "changed"
  BY <1>4
<1>6. ~peerReset
  BY <1>1 DEF ContractInv, DownPart
<1>7. WiredPart'
  BY <1>1 DEF ContractInv, WiredPart
<1>8. DownPart'
  BY <1>1, <1>2, <1>5 DEF ContractInv, DownPart, OnlyChanges
<1>9. ChangePart'
  BY <1>1, <1>5, <1>6 DEF ContractInv, DownPart, ChangePart, ChangedFirst
<1>10. StreamPart'
  BY <1>1, <1>6 DEF StreamPart
<1>11. Starting(tasks', channel') /\ ClosedLast(tasks', channel', peerReset')
  BY <1>5 DEF Starting, ClosedLast
<1>12. ContractInv'
  BY <1>1, <1>2, <1>7, <1>8, <1>9, <1>10, <1>11 DEF ContractInv
<1> QED BY <1>1, <1>12 DEF Contract!vars

-----------------------------------------------------------------------------
(* Tasks of the signaling thread.                                          *)

LEMMA SignalShrinks ==
    ASSUME DataChannelInv, ContractInv, NEW kind, NEW m, Signal(kind, m)
    PROVE  /\ Shrinks(tasks, kind, tasks')
           /\ transport' = transport /\ peerReset' = peerReset
           /\ accepted' = accepted /\ transport = "set"
           /\ kind # "changed" => up
           /\ tasks # <<>>
<1>1. /\ tasks # <<>> /\ Head(tasks) = <<kind, m>> /\ tasks' = Tail(tasks)
      /\ transport' = transport /\ peerReset' = peerReset
      /\ accepted' = accepted
  BY DEF Signal
<1>2. tasks \in Seq(Task) /\ transport = "set"
  BY <1>1 DEF DataChannelInv, ContractInv, WiredPart
<1>3. Shrinks(tasks, kind, tasks')
  BY <1>1, <1>2, HandledShrinks, Zenon
<1>4. kind # "changed" => up
  BY <1>3 DEF Shrinks, ContractInv, DownPart
<1> QED BY <1>1, <1>2, <1>3, <1>4

(* A task that changes the channel only, once the association is up.       *)
LEMMA SignalKeepsContractInv ==
    ASSUME DataChannelInv, ContractInv, channel' \in Channel,
           NEW kind, Shrinks(tasks, kind, tasks'), kind # "changed",
           PromisePart(channel', accepted'), Onward(channel, channel'),
           kind = "ready" /\ channel.send = <<>> => channel'.send = <<>>,
           kind = "closing" => Ended(channel'),
           transport' = transport, up, up' = up,
           peerReset' = peerReset, changes' = changes,
           \/ stream' = stream
           \/ /\ stream = "open" /\ channel'.started
              /\ stream' = IF up THEN "closing" ELSE "unsent"
    PROVE  ContractInv'
<1>1. WiredPart' /\ DownPart'
  BY DEF ContractInv, WiredPart, DownPart, Onward
<1>2. ChangePart'
  BY DEF ContractInv, ChangePart, Shrinks, ChangedFirst, Changing
<1>3. StreamPart'
  <2>1. channel'.started => Ended(channel')
    <3>1. channel'.state \in States
      BY SentLengths
    <3> QED BY <3>1 DEF PromisePart, Ended, States
  <2>2. Ended(channel) => Ended(channel')
    BY DEF Onward, Ended
  <2>3. Closing(tasks) => Closing(tasks') \/ Ended(channel')
    BY DEF Shrinks
  <2> QED BY <2>1, <2>2, <2>3 DEF ContractInv, WiredPart, StreamPart, Onward
<1>4. Starting(tasks', channel')
  BY DEF ContractInv, Shrinks
<1>5. ClosedLast(tasks', channel', peerReset')
  <2>1. Ended(channel) \/ kind = "closing" => Ended(channel')
    BY DEF Onward, Ended
  <2> QED BY <2>1 DEF ContractInv, Shrinks
<1>6. changes' \in Nat
  BY DEF ContractInv
<1> QED BY <1>1, <1>2, <1>3, <1>4, <1>5, <1>6 DEF ContractInv

LEMMA ReadyContract ==
    ASSUME DataChannelInv, ContractInv, DataChannelInv',
           OnInitReady \/ SignalWritable
    PROVE  ContractInv' /\ [Contract!Next]_(Contract!vars)
<1>1. PICK kind \in {"init_ready", "ready"} :
          /\ Signal(kind, 0)
          /\ \E c : /\ \/ /\ c \in OnChannelReady(channel, Answers)
                          /\ kind = "ready" => channel.connected
                       \/ c = channel
                    /\ Becomes(c)
  BY DEF OnInitReady, SignalWritable
<1>2. PICK c : /\ \/ /\ c \in OnChannelReady(channel, Answers)
                     /\ kind = "ready" => channel.connected
                  \/ c = channel
               /\ Becomes(c)
  BY <1>1
<1>3. /\ Shrinks(tasks, kind, tasks')
      /\ transport' = transport /\ peerReset' = peerReset
      /\ accepted' = accepted /\ up
  BY <1>1, SignalShrinks
<1>4. /\ channel \in Channel /\ accepted \in Nat
      /\ ChannelInv(channel, accepted, peerReset, heard, Got)
      /\ PromisePart(channel, accepted)
      /\ Answers.live = (stream = "open")
  BY ChannelParts
<1>5. /\ c \in Channel /\ PromisePart(c, accepted)
      /\ Moves(channel, c, accepted, Answers.live) /\ Onward(channel, c)
      /\ channel.send = <<>> => c.send = <<>>
  <2>1. CASE c = channel
    <3>1. Same(channel, c)
      BY <2>1 DEF Same
    <3> QED BY <1>4, <2>1, <3>1, SameMoves
  <2>2. CASE /\ c \in OnChannelReady(channel, Answers)
             /\ kind = "ready" => channel.connected
    <3>1. channel.state = "closed" => channel.send = <<>>
      <4>1. CASE kind = "ready"
        BY <1>4, <2>2, <4>1 DEF ChannelInv, LifePart
      <4>2. CASE kind = "init_ready"
        BY <1>3, <4>2 DEF Shrinks, ContractInv
      <4> QED BY <4>1, <4>2
    <3>2. c \in Channel
      BY <1>4, <2>2, OnChannelReadyKeeps DEF ChannelInv
    <3> QED BY <1>4, <2>2, <3>1, <3>2, OnChannelReadyMoves
  <2> QED BY <1>2, <2>1, <2>2
<1>6. /\ Same(c, channel') /\ channel'.controls = c.controls
      /\ up' = up /\ changes' = changes
      /\ \/ stream' = stream
         \/ /\ stream = "open" /\ channel'.started
            /\ stream' = IF up THEN "closing" ELSE "unsent"
  BY <1>2, <1>5, BecomesSame
<1>7. channel' \in Channel
  BY DEF DataChannelInv, ChannelInv
<1>8. /\ PromisePart(channel', accepted)
      /\ Moves(channel, channel', accepted, stream = "open")
      /\ Onward(channel, channel')
  BY <1>4, <1>5, <1>6, SameCarries
<1>9. channel.send = <<>> => channel'.send = <<>>
  BY <1>5, <1>6 DEF Same
<1>10. ContractInv'
  BY <1>1, <1>3, <1>6, <1>7, <1>8, <1>9, SignalKeepsContractInv
<1> QED BY <1>3, <1>7, <1>8, <1>10, MovesKeepContract

LEMMA ReceiveContract ==
    ASSUME DataChannelInv, ContractInv, DataChannelInv', SignalReceivedData
    PROVE  ContractInv' /\ [Contract!Next]_(Contract!vars)
<1>1. PICK kind \in {"ack", "data"}, m \in Nat :
          /\ Signal(kind, m)
          /\ \/ channel' = channel
             \/ channel' \in {OnAckReceived(channel),
                              OnDataReceived(channel, m)}
  BY DEF SignalReceivedData
<1>2. stream' = stream /\ up' = up /\ changes' = changes
  BY DEF SignalReceivedData, boundVars
<1>3. /\ Shrinks(tasks, kind, tasks')
      /\ transport' = transport /\ peerReset' = peerReset
      /\ accepted' = accepted /\ up
  BY <1>1, SignalShrinks
<1>4. /\ channel \in Channel /\ accepted \in Nat
      /\ PromisePart(channel, accepted)
  BY ChannelParts
<1>5. /\ PromisePart(channel', accepted)
      /\ Moves(channel, channel', accepted, stream = "open")
      /\ Onward(channel, channel')
  <2>1. CASE channel' = channel
    <3>1. Same(channel, channel')
      BY <2>1 DEF Same
    <3> QED BY <1>4, <3>1, SameMoves
  <2>2. CASE channel' \in {OnAckReceived(channel),
                           OnDataReceived(channel, m)}
    BY <1>4, <2>2, ReceivedMoves
  <2> QED BY <1>1, <2>1, <2>2
<1>6. channel' \in Channel
  BY DEF DataChannelInv, ChannelInv
<1>7. ContractInv'
  BY <1>1, <1>2, <1>3, <1>5, <1>6, SignalKeepsContractInv
<1> QED BY <1>3, <1>5, <1>6, <1>7, MovesKeepContract

LEMMA ClosingContract ==
    ASSUME DataChannelInv, ContractInv, DataChannelInv', SignalChannelClosing
    PROVE  ContractInv' /\ [Contract!Next]_(Contract!vars)
<1>1. /\ Signal("closing", 0)
      /\ stream' = stream /\ up' = up /\ changes' = changes
      /\ \/ ~channel.connected /\ channel' = channel
         \/ channel' = OnClosingProcedureStartedRemotely(channel)
  BY DEF SignalChannelClosing, boundVars
<1>2. /\ Shrinks(tasks, "closing", tasks')
      /\ transport' = transport /\ peerReset' = peerReset
      /\ accepted' = accepted /\ up /\ transport = "set"
  BY <1>1, SignalShrinks
<1>3. peerReset
  BY <1>1, HandledStep
<1>4. channel \in Channel /\ PromisePart(channel, accepted)
  BY ChannelParts
<1>5. /\ PromisePart(channel', accepted) /\ Onward(channel, channel')
      /\ Ended(channel')
      /\ \/ channel' = channel
         \/ /\ channel.state \in {"connecting", "open"}
            /\ channel'.state = "closing" /\ channel'.started = TRUE
            /\ channel'.error = channel.error
            /\ channel'.sent = channel.sent
  <2>1. CASE ~channel.connected /\ channel' = channel
    <3>1. channel.state = "closed"
      BY <1>2, <2>1 DEF ContractInv, WiredPart
    <3> QED BY <1>4, <2>1, <3>1 DEF Onward, Ended
  <2>2. CASE channel' = OnClosingProcedureStartedRemotely(channel)
    BY <1>4, <2>2, RemoteMoves DEF Ended
  <2> QED BY <1>1, <2>1, <2>2
<1>6. channel' \in Channel
  BY DEF DataChannelInv, ChannelInv
<1>7. ContractInv'
  BY <1>1, <1>2, <1>5, <1>6, SignalKeepsContractInv
<1>8. CASE channel' = channel
  BY <1>2, <1>7, <1>8 DEF Contract!vars
<1>9. CASE channel' # channel
  <2>1. Contract!ClosedByPeer
    BY <1>2, <1>3, <1>5, <1>9 DEF Contract!ClosedByPeer
  <2> QED BY <1>7, <2>1 DEF Contract!Next
<1> QED BY <1>8, <1>9

LEMMA ClosedContract ==
    ASSUME DataChannelInv, ContractInv, DataChannelInv', SignalChannelClosed
    PROVE  ContractInv' /\ [Contract!Next]_(Contract!vars)
<1>1. /\ Signal("closed", 0)
      /\ stream' = stream /\ up' = up /\ changes' = changes
      /\ \/ channel' = channel
         \/ /\ channel.connected
            /\ channel' = OnClosingProcedureComplete(channel)
  BY DEF SignalChannelClosed, boundVars
<1>2. /\ Shrinks(tasks, "closed", tasks')
      /\ transport' = transport /\ peerReset' = peerReset
      /\ accepted' = accepted /\ up
  BY <1>1, SignalShrinks
<1>3. peerReset /\ Ended(channel)
  BY <1>2 DEF Shrinks, ContractInv
<1>4. /\ channel \in Channel /\ PromisePart(channel, accepted)
      /\ channel.state = "closed" => ~channel.connected
  BY ChannelParts DEF ChannelInv, LifePart
<1>5. /\ PromisePart(channel', accepted) /\ Onward(channel, channel')
      /\ \/ channel' = channel
         \/ /\ channel.state = "closing"
            /\ channel'.state = "closed"
            /\ channel'.started = channel.started
            /\ channel'.error = channel.error
            /\ channel'.sent = channel.sent
  <2>1. CASE channel' = channel
    BY <1>4, <2>1 DEF Onward
  <2>2. CASE /\ channel.connected
             /\ channel' = OnClosingProcedureComplete(channel)
    BY <1>3, <1>4, <2>2, CompleteMoves DEF Ended
  <2> QED BY <1>1, <2>1, <2>2
<1>6. channel' \in Channel
  BY DEF DataChannelInv, ChannelInv
<1>7. ContractInv'
  BY <1>1, <1>2, <1>5, <1>6, SignalKeepsContractInv
<1>8. CASE channel' = channel
  BY <1>2, <1>7, <1>8 DEF Contract!vars
<1>9. CASE channel' # channel
  <2>1. Contract!Finish
    BY <1>2, <1>3, <1>5, <1>9 DEF Contract!Finish
  <2> QED BY <1>7, <2>1 DEF Contract!Next
<1> QED BY <1>8, <1>9

(* The channel hears of its new transport and adds its stream there: the   *)
(* peer can have reset it only if the channel was closing here.            *)
LEMMA ChangedContract ==
    ASSUME DataChannelInv, ContractInv, DataChannelInv', TransportChanged
    PROVE  ContractInv' /\ [Contract!Next]_(Contract!vars)
<1>1. /\ Signal("changed", 0) /\ channel' = channel
      /\ up' = up /\ changes' = changes
      /\ stream' = stream \/ (stream = "absent" /\ stream' = "open")
  BY DEF TransportChanged, AddSctpDataStream, boundVars
<1>2. /\ Shrinks(tasks, "changed", tasks')
      /\ transport' = transport /\ peerReset' = peerReset
      /\ accepted' = accepted /\ tasks # <<>>
  BY <1>1, SignalShrinks
<1>3. WiredPart'
  BY <1>1, <1>2 DEF ContractInv, WiredPart
<1>4. DownPart'
  BY <1>1, <1>2 DEF ContractInv, DownPart, Shrinks
<1>5. ChangePart'
  BY <1>2 DEF ContractInv, ChangePart, Shrinks, ChangedFirst, Changing
<1>6. StreamPart'
  <2>1. Changing(tasks) /\ (Closing(tasks) => Closing(tasks'))
    BY <1>2 DEF Shrinks
  <2> QED BY <1>1, <1>2, <2>1 DEF ContractInv, ChangePart, StreamPart
<1>7. Starting(tasks', channel')
  BY <1>1, <1>2 DEF ContractInv, Shrinks
<1>8. ClosedLast(tasks', channel', peerReset')
  BY <1>1, <1>2 DEF ContractInv, Shrinks
<1>9. ContractInv'
  BY <1>1, <1>2, <1>3, <1>4, <1>5, <1>6, <1>7, <1>8 DEF ContractInv
<1> QED BY <1>1, <1>2, <1>9 DEF Contract!vars

-----------------------------------------------------------------------------

LEMMA InitContract ==
    ASSUME Init, MaxAhead <= 1
    PROVE  ContractInv /\ Contract!Init
<1>1. PICK role \in Roles, ordered \in BOOLEAN, sid \in BOOLEAN,
           connected \in BOOLEAN :
          /\ channel = NewChannel(role, ordered, sid, connected)
          /\ \/ /\ transport = "none" /\ ready = FALSE /\ tasks = <<>>
                /\ role \in {"opener", "none"} /\ sid = (role = "none")
             \/ /\ transport = "set" /\ ready = TRUE
                /\ \E n \in 0 .. MaxAhead : tasks = Started(n)
                /\ sid = TRUE /\ connected = TRUE
  BY DEF Init, Roles
<1>2. /\ channel.role = role /\ channel.state = "connecting"
      /\ channel.connected = connected /\ channel.sid = sid
      /\ channel.started = FALSE /\ channel.error = FALSE
      /\ channel.send = <<>> /\ channel.sent = <<>>
      /\ channel.controls = 0
  BY <1>1 DEF NewChannel
<1>3. /\ accepted = 0 /\ peerReset = FALSE /\ changes = 0 /\ up = ready
      /\ stream = IF transport = "set" THEN "open" ELSE "absent"
  BY DEF Init
<1>4. /\ Len(<<>>) = 0 /\ Total(<<>>, <<>>) = 0 /\ 0 <= 0
  BY DEF Total
<1>5. PromisePart(channel, accepted)
  BY <1>2, <1>3, <1>4 DEF PromisePart
<1>6. WiredPart
  BY <1>1, <1>2, <1>3 DEF WiredPart
<1>7. DownPart
  BY <1>1, <1>2, <1>3 DEF DownPart, OnlyChanges
<1>8. /\ \A i \in 1 .. Len(tasks) :
             tasks[i][1] \in {"ready", "init_ready"}
      /\ \A i \in 1 .. Len(tasks) : tasks[i][1] = "init_ready" =>
             i = 1 \/ (i = 2 /\ tasks[1][1] = "ready")
  <2>1. CASE tasks = <<>>
    BY <2>1
  <2>2. ASSUME NEW n \in 0 .. MaxAhead, tasks = Started(n)
        PROVE  /\ \A i \in 1 .. Len(tasks) :
                      tasks[i][1] \in {"ready", "init_ready"}
               /\ \A i \in 1 .. Len(tasks) : tasks[i][1] = "init_ready" =>
                      i = 1 \/ (i = 2 /\ tasks[1][1] = "ready")
    <3>1. n = 0 \/ n = 1
      BY ChannelBoundsAssumption
    <3> QED BY <2>2, <3>1, StartedTasks
  <2> QED BY <1>1, <2>1, <2>2
<1>9. ChangePart
  BY <1>8 DEF ChangePart, ChangedFirst, Changing
<1>10. StreamPart
  BY <1>3 DEF StreamPart
<1>11. Starting(tasks, channel) /\ ClosedLast(tasks, channel, peerReset)
  BY <1>2, <1>8 DEF Starting, ClosedLast
<1>12. Contract!Init
  BY <1>2, <1>3, <1>4 DEF Contract!Init
<1> QED BY <1>3, <1>5, <1>6, <1>7, <1>9, <1>10, <1>11, <1>12 DEF ContractInv

LEMMA NextContract ==
    ASSUME DataChannelInv, ContractInv, DataChannelInv', (changes <= 1)',
           [Next]_vars
    PROVE  ContractInv' /\ [Contract!Next]_(Contract!vars)
<1>1. CASE UNCHANGED vars
  <2>1. ContractInv'
    BY <1>1 DEF ContractInv, WiredPart, DownPart, ChangePart, StreamPart,
                vars, environment, boundVars
  <2> QED BY <1>1, <2>1 DEF vars, environment, Contract!vars
<1>2. CASE Next
  BY <1>2, AppSendContract, AppCloseContract, CallContract,
     NegotiationContract, TransportContract, PostContract, ChangeContract,
     ReadyContract, ReceiveContract, ClosingContract, ClosedContract,
     ChangedContract DEF Next
<1> QED BY <1>1, <1>2

(* In every behaviour in which the transport changes at most once and at   *)
(* most one ready signal is ahead of the task of Init(), for every size of *)
(* the queues and every number of messages: the channel keeps its contract *)
(* (pc/data_channel.h, DataChannelInterface).  Its state only advances,    *)
(* nothing is sent twice or unaccepted, the closing procedure begins when  *)
(* every accepted message was sent or the peer closed, and only an error   *)
(* closes a channel that the peer did not reset.                           *)
THEOREM ChannelKeepsContract ==
    ASSUME MaxAhead <= 1
    PROVE  Spec /\ [](changes <= 1) => KeepsContract
<1>1. Init => ContractInv /\ Contract!Init
  BY InitContract
<1>2. DataChannelInv /\ DataChannelInv' /\ ContractInv /\ (changes <= 1)'
          /\ [Next]_vars => ContractInv' /\ [Contract!Next]_(Contract!vars)
  BY NextContract
<1>3. Spec /\ [](changes <= 1) =>
          Contract!Init /\ [][Contract!Next]_(Contract!vars)
  BY <1>1, <1>2, Invariant, PTL DEF Spec
<1> QED BY <1>3 DEF KeepsContract, Contract!Spec

-----------------------------------------------------------------------------
(* The amount of buffered data of a closed channel.                        *)

Covered(c) == Len(c.send) <= c.buffered

(* The queue and its amount stay as they are, or both are cleared.         *)
AmountKept(c, d) ==
    \/ d.send = c.send /\ d.buffered = c.buffered
    \/ d.send = <<>> /\ d.buffered = 0

LEMMA KeptAmounts ==
    ASSUME NEW c \in Channel, NEW d \in Channel, AmountKept(c, d)
    PROVE  /\ Covered(c) => Covered(d)
           /\ Covered(c) => c.buffered >= 0
           /\ c.buffered >= 0 => d.buffered >= 0
<1>1. c.send \in Seq(Nat) /\ c.buffered \in Int
  BY Fields
<1>2. Len(c.send) \in Nat /\ Len(<<>>) = 0
  BY <1>1, LenProperties
<1> QED BY <1>1, <1>2 DEF AmountKept, Covered

LEMMA ChainedAmounts ==
    ASSUME NEW c, NEW d, NEW e, AmountKept(c, d), AmountKept(d, e)
    PROVE  AmountKept(c, e)
BY DEF AmountKept

LEMMA AbruptlyKeepsAmount ==
    ASSUME NEW c \in Channel
    PROVE  AmountKept(c, CloseAbruptly(c))
<1>1. CASE c.state = "closed"
  BY <1>1 DEF CloseAbruptly, AmountKept
<1>2. CASE c.state # "closed"
  <2> DEFINE d == [c EXCEPT !.connected = FALSE, !.send = <<>>,
                            !.buffered = 0, !.control = 0, !.error = TRUE,
                            !.state = "closed"]
  <2>1. CloseAbruptly(c) = d
    BY <1>2 DEF CloseAbruptly
  <2>2. d.send = <<>> /\ d.buffered = 0
    BY DEF Channel
  <2> HIDE DEF d
  <2> QED BY <2>1, <2>2 DEF AmountKept
<1> QED BY <1>1, <1>2

LEMMA ControlKeepsAmount ==
    ASSUME NEW c \in Channel, NEW n
    PROVE  /\ AmountKept(c, ControlSent(c, n))
           /\ AmountKept(c, ControlBlocked(c, n))
<1>1. CASE n = 0
  BY <1>1 DEF ControlSent, ControlBlocked, AmountKept
<1>2. CASE n # 0
  BY <1>2 DEF ControlSent, ControlBlocked, AmountKept, Channel
<1> QED BY <1>1, <1>2

LEMMA QueuedControlKeepsAmount ==
    ASSUME NEW c, NEW acc, NEW peer, NEW h, NEW got, NEW t,
           ChannelInv(c, acc, peer, h, got),
           NEW e \in SendQueuedControlMessages(c, t)
    PROVE  AmountKept(c, e)
<1> DEFINE swapped == [c EXCEPT !.control = 0]
<1>1. c \in Channel /\ c.control \in Nat
  BY Fields DEF ChannelInv
<1>2. swapped \in Channel
  BY <1>1, Updates
<1>3. /\ swapped.send = c.send /\ swapped.buffered = c.buffered
      /\ swapped.role = c.role /\ swapped.handshake = c.handshake
      /\ swapped.controls = c.controls /\ swapped.observer = c.observer
      /\ swapped.recv = c.recv /\ swapped.sent = c.sent
      /\ swapped.delivered = c.delivered /\ swapped.state = c.state
      /\ swapped.connected = c.connected
  BY <1>1 DEF Channel
<1>4. PICK n \in Nat, b \in Nat :
          \/ e = ControlBlocked(ControlSent(swapped, n), b)
          \/ e = ControlBlocked(ControlSent(CloseAbruptly(swapped), n), b)
  BY <1>1 DEF SendQueuedControlMessages
<1> HIDE DEF swapped
<1>5. ChannelInv(swapped, acc, peer, h, got)
  <2>1. swapped.state = "closed" => ~swapped.connected
    BY <1>3 DEF ChannelInv, LifePart
  <2> QED BY <1>2, <1>3, <2>1, SameMessages
<1>6. AmountKept(c, swapped)
  BY <1>3 DEF AmountKept
<1>7. ASSUME NEW d, ChannelInv(d, acc, peer, h, got), AmountKept(c, d),
             e = ControlBlocked(ControlSent(d, n), b)
      PROVE  AmountKept(c, e)
  <2> DEFINE s == ControlSent(d, n)
  <2>1. AmountKept(d, s) /\ s \in Channel
    BY <1>7, ControlKeepsAmount, ControlSentKeeps DEF ChannelInv
  <2>2. e = ControlBlocked(s, b)
    BY <1>7
  <2> HIDE DEF s
  <2>3. AmountKept(s, e)
    BY <2>1, <2>2, ControlKeepsAmount
  <2> QED BY <1>7, <2>1, <2>3, ChainedAmounts
<1>8. CASE e = ControlBlocked(ControlSent(swapped, n), b)
  BY <1>5, <1>6, <1>7, <1>8
<1>9. CASE e = ControlBlocked(ControlSent(CloseAbruptly(swapped), n), b)
  <2> DEFINE a == CloseAbruptly(swapped)
  <2>1. ChannelInv(a, acc, peer, h, got) /\ AmountKept(swapped, a)
    BY <1>2, <1>5, CloseAbruptlyKeeps, AbruptlyKeepsAmount
  <2>2. AmountKept(c, a)
    BY <1>6, <2>1, ChainedAmounts
  <2>3. e = ControlBlocked(ControlSent(a, n), b)
    BY <1>9
  <2> HIDE DEF a
  <2> QED BY <1>7, <2>1, <2>2, <2>3
<1> QED BY <1>4, <1>8, <1>9

(* Sending what the amount covers leaves it at zero or above.              *)
LEMMA QueuedDataAmount ==
    ASSUME NEW c, NEW acc, NEW peer, NEW h, NEW got, NEW t,
           ChannelInv(c, acc, peer, h, got), Covered(c),
           NEW e \in SendQueuedDataMessages(c, t)
    PROVE  e.buffered >= 0
<1>1. c \in Channel /\ c.send \in Seq(Nat) /\ c.buffered \in Int
  BY Fields DEF ChannelInv
<1>2. Len(c.send) \in Nat
  BY <1>1, LenProperties
<1>3. PICK k \in 0 .. Len(c.send) :
          \/ e = DataSent(c, k)
          \/ e = [DataSent(c, k) EXCEPT !.blocked = TRUE]
          \/ e = DataFailed(DataSent(c, k))
  BY <1>2 DEF SendQueuedDataMessages
<1> DEFINE d == DataSent(c, k)
<1>4. k \in Nat /\ k <= Len(c.send)
  BY <1>2
<1>5. d \in Channel
  BY <1>4, DataSentKeeps DEF ChannelInv
<1>6. d.buffered = c.buffered - k
  BY <1>1 DEF DataSent, Channel
<1> HIDE DEF d
<1>7. d.buffered >= 0
  BY <1>1, <1>2, <1>4, <1>6 DEF Covered
<1>8. CASE e = d
  BY <1>7, <1>8
<1>9. CASE e = [d EXCEPT !.blocked = TRUE]
  BY <1>5, <1>7, <1>9 DEF Channel
<1>10. CASE e = DataFailed(d)
  <2>1. e.buffered = d.buffered \/ e.buffered = 0
    BY <1>5, <1>10 DEF DataFailed, CloseAbruptly, Channel
  <2> QED BY <1>7, <2>1
<1> QED BY <1>3, <1>8, <1>9, <1>10 DEF d

LEMMA OpenedKeepsAmount ==
    ASSUME NEW c \in Channel
    PROVE  AmountKept(c, Opened(c))
<1> DEFINE d == [c EXCEPT !.state = "open"]
<1>1. d \in Channel /\ d.send = c.send /\ d.buffered = c.buffered
  <2>1. "open" \in States
    BY DEF States
  <2>2. d \in Channel
    BY <2>1, Updates
  <2>3. d.send = c.send /\ d.buffered = c.buffered
    BY DEF Channel
  <2> QED BY <2>2, <2>3
<1>2. Opened(c) = c \/ Opened(c) = DeliverQueuedReceivedData(d)
  BY DEF Opened
<1> HIDE DEF d
<1>3. AmountKept(d, DeliverQueuedReceivedData(d))
  BY <1>1 DEF DeliverQueuedReceivedData, AmountKept, Channel
<1>4. AmountKept(c, c) /\ AmountKept(c, d)
  BY <1>1 DEF AmountKept
<1> QED BY <1>2, <1>3, <1>4, ChainedAmounts

LEMMA UpdateStateKeepsAmount ==
    ASSUME NEW c, NEW acc, NEW peer, NEW h, NEW got, NEW t,
           ChannelInv(c, acc, peer, h, got), NEW d \in UpdateState(c, t)
    PROVE  AmountKept(c, d)
<1>1. c \in Channel
  BY DEF ChannelInv
<1>2. ASSUME NEW e, d = Opened(e),
             \/ e = c \/ e = ControlSent(c, 1) \/ e = ControlBlocked(c, 1)
             \/ e = CloseAbruptly(c)
      PROVE  AmountKept(c, d)
  <2>1. e \in Channel
    <3>1. ChannelInv(e, acc, peer, h, got)
      BY <1>2, ControlSentKeeps, ControlBlockedKeeps, CloseAbruptlyKeeps
    <3> QED BY <3>1 DEF ChannelInv
  <2>2. AmountKept(c, e)
    <3>1. AmountKept(c, c)
      BY DEF AmountKept
    <3> QED BY <1>1, <1>2, <3>1, ControlKeepsAmount, AbruptlyKeepsAmount
  <2>3. AmountKept(e, d)
    BY <1>2, <2>1, OpenedKeepsAmount
  <2> QED BY <2>2, <2>3, ChainedAmounts
<1>3. \/ \E e : /\ d = Opened(e)
                /\ \/ e = c \/ e = ControlSent(c, 1)
                   \/ e = ControlBlocked(c, 1) \/ e = CloseAbruptly(c)
      \/ d = [c EXCEPT !.started = TRUE] \/ d = c
  BY DEF UpdateState, SendControlMessage
<1>4. CASE d = [c EXCEPT !.started = TRUE] \/ d = c
  BY <1>1, <1>4 DEF AmountKept, Channel
<1> QED BY <1>2, <1>3, <1>4

LEMMA ReadyAmount ==
    ASSUME NEW c, NEW acc, NEW peer, NEW h, NEW got, NEW t,
           ChannelInv(c, acc, peer, h, got), Covered(c),
           NEW d \in OnChannelReady(c, t)
    PROVE  d.buffered >= 0
<1> DEFINE w == [c EXCEPT !.writable = TRUE]
<1>1. PICK a \in SendQueuedControlMessages(w, t) :
          \E e \in SendQueuedDataMessages(a, t) : d \in UpdateState(e, t)
  BY DEF OnChannelReady
<1>2. PICK e \in SendQueuedDataMessages(a, t) : d \in UpdateState(e, t)
  BY <1>1
<1>3. ChannelInv(w, acc, peer, h, got) /\ Covered(w)
  <2>1. c \in Channel
    BY DEF ChannelInv
  <2>2. w \in Channel
    BY <2>1, Updates
  <2>3. /\ w.role = c.role /\ w.handshake = c.handshake
        /\ w.controls = c.controls /\ w.observer = c.observer
        /\ w.send = c.send /\ w.recv = c.recv /\ w.buffered = c.buffered
        /\ w.sent = c.sent /\ w.delivered = c.delivered
        /\ w.state = c.state /\ w.connected = c.connected
    BY <2>1 DEF Channel
  <2> HIDE DEF w
  <2>4. w.state = "closed" => ~w.connected
    BY <2>3 DEF ChannelInv, LifePart
  <2>5. Covered(w)
    BY <2>3 DEF Covered
  <2> QED BY <2>2, <2>3, <2>4, <2>5, SameMessages
<1> HIDE DEF w
<1>4. ChannelInv(a, acc, peer, h, got) /\ Flushed(a) /\ AmountKept(w, a)
  BY <1>3, SendQueuedControlKeeps, QueuedControlKeepsAmount
<1>5. Covered(a)
  BY <1>3, <1>4, KeptAmounts DEF ChannelInv
<1>6. ChannelInv(e, acc, peer, h, got) /\ e.buffered >= 0
  BY <1>4, <1>5, SendQueuedDataKeeps, QueuedDataAmount
<1>7. AmountKept(e, d)
  BY <1>2, <1>6, UpdateStateKeepsAmount
<1>8. d.buffered = e.buffered \/ d.buffered = 0
  BY <1>7 DEF AmountKept
<1> QED BY <1>6, <1>8

LEMMA SendAmount ==
    ASSUME NEW c \in Channel, c.buffered >= 0, NEW m, NEW t,
           NEW d \in Send(c, m, t)
    PROVE  d.buffered >= 0
<1> DEFINE e == [c EXCEPT !.buffered = c.buffered + 1]
           one == [e EXCEPT !.send = <<m>>]
           q == QueueSendDataMessage(e, m)
<1>1. c.buffered \in Int
  BY Fields
<1>2. e \in Channel /\ e.buffered = c.buffered + 1
  <2>1. c.buffered + 1 \in Amount
    BY <1>1 DEF Amount
  <2>2. e \in Channel
    BY <2>1, Updates
  <2>3. e.buffered = c.buffered + 1
    BY DEF Channel
  <2> QED BY <2>2, <2>3
<1>3. \/ d = e \/ d = q \/ d = CloseAbruptly(e) \/ d = DataSent(one, 1)
      \/ d = [q EXCEPT !.blocked = TRUE]
  BY DEF Send
<1>4. DataSent(one, 1).buffered = e.buffered - 1
  <2>1. /\ one.buffered = e.buffered
        /\ DataSent(one, 1).buffered = one.buffered - 1
    BY <1>2 DEF DataSent, Channel
  <2> QED BY <2>1
<1>5. CloseAbruptly(e).buffered = e.buffered \/ CloseAbruptly(e).buffered = 0
  BY <1>2, AbruptlyKeepsAmount DEF AmountKept
<1>6. /\ q.buffered = e.buffered \/ q.buffered = 0
      /\ [q EXCEPT !.blocked = TRUE].buffered = q.buffered
  <2>1. q = [e EXCEPT !.send = Append(@, m)] \/ q = CloseAbruptly(e)
    BY DEF QueueSendDataMessage
  <2>2. CASE q = [e EXCEPT !.send = Append(@, m)]
    BY <1>2, <2>2 DEF Channel
  <2>3. CASE q = CloseAbruptly(e)
    BY <1>2, <1>5, <2>3 DEF CloseAbruptly, Channel
  <2> QED BY <2>1, <2>2, <2>3
<1> HIDE DEF e, one, q
<1>7. \/ d.buffered = e.buffered \/ d.buffered = 0
      \/ d.buffered = e.buffered - 1
  BY <1>3, <1>4, <1>5, <1>6, Zenon
<1> QED BY <1>1, <1>2, <1>7

(* The methods that send nothing.                                          *)
LEMMA OthersKeepAmount ==
    ASSUME NEW c \in Channel, NEW m,
           NEW d \in {RegisterObserver(c), UnregisterObserver(c),
                      OnAckReceived(c), OnDataReceived(c, m),
                      OnClosingProcedureStartedRemotely(c),
                      OnClosingProcedureComplete(c), CloseAbruptly(c)}
    PROVE  d.buffered = c.buffered \/ d.buffered = 0
<1>1. CASE d = RegisterObserver(c) \/ d = UnregisterObserver(c)
  BY <1>1 DEF RegisterObserver, UnregisterObserver,
              DeliverQueuedReceivedData, Channel
<1>2. CASE d = OnAckReceived(c) \/ d = OnDataReceived(c, m)
  <2> DEFINE a == Acknowledged(c)
  <2>1. a.buffered = c.buffered /\ a \in Channel
    <3>1. "Ready" \in Handshakes
      BY DEF Handshakes
    <3>2. \A v \in Handshakes : [c EXCEPT !.handshake = v] \in Channel
      BY DEF Channel
    <3> QED BY <3>1, <3>2 DEF Acknowledged, Channel
  <2>2. \/ d = a
        \/ d = [a EXCEPT !.delivered = Append(@, m)]
        \/ d = CloseAbruptly([a EXCEPT !.recv = <<>>])
        \/ d = [a EXCEPT !.recv = Append(@, m)]
    BY <1>2 DEF OnAckReceived, OnDataReceived
  <2> HIDE DEF a
  <2> QED BY <2>1, <2>2 DEF CloseAbruptly, Channel
<1>3. CASE \/ d = OnClosingProcedureStartedRemotely(c)
           \/ d = OnClosingProcedureComplete(c)
  BY <1>3 DEF OnClosingProcedureStartedRemotely, OnClosingProcedureComplete,
              Channel
<1>4. CASE d = CloseAbruptly(c)
  BY <1>4, AbruptlyKeepsAmount DEF AmountKept
<1> QED BY <1>1, <1>2, <1>3, <1>4

LEMMA BecomesAmount ==
    ASSUME NEW c \in Channel, Becomes(c)
    PROVE  channel'.buffered = c.buffered
BY DEF Becomes, Channel

LEMMA NextAmount ==
    ASSUME DataChannelInv, ContractInv, AmountDoesNotWrap, [Next]_vars
    PROVE  AmountDoesNotWrap'
<1>1. /\ channel \in Channel /\ accepted \in Nat
      /\ ChannelInv(channel, accepted, peerReset, heard, Got)
      /\ channel.buffered \in Int
  BY Fields DEF DataChannelInv, ChannelInv
<1>2. channel.buffered >= 0
  BY DEF AmountDoesNotWrap
<1>3. ASSUME channel'.buffered = channel.buffered \/ channel'.buffered = 0
      PROVE  AmountDoesNotWrap'
  BY <1>2, <1>3 DEF AmountDoesNotWrap
<1>4. CASE AppSend
  <2>1. PICK c \in Send(channel, accepted + 1, Answers) : Becomes(c)
    BY <1>4 DEF AppSend
  <2>2. c \in Channel
    <3> DEFINE acc == IF channel.state = "open" THEN accepted + 1
                      ELSE accepted
    <3>1. ChannelInv(c, acc, peerReset, heard, Got)
      BY <1>1, SendKeeps
    <3> QED BY <3>1 DEF ChannelInv
  <2>3. c.buffered >= 0
    BY <1>1, <1>2, SendAmount
  <2> QED BY <2>1, <2>2, <2>3, BecomesAmount DEF AmountDoesNotWrap
<1>5. CASE AppClose
  <2>1. PICK c \in Close(channel, Answers) : Becomes(c)
    BY <1>5 DEF AppClose
  <2> DEFINE d == [channel EXCEPT !.state = "closing"]
  <2>2. CASE c = channel
    BY <1>1, <1>3, <2>1, <2>2, BecomesAmount
  <2>3. CASE channel.state # "closed" /\ c \in UpdateState(d, Answers)
    <3>1. /\ d.role = channel.role /\ d.handshake = channel.handshake
          /\ d.controls = channel.controls /\ d.observer = channel.observer
          /\ d.send = channel.send /\ d.recv = channel.recv
          /\ d.buffered = channel.buffered /\ d.sent = channel.sent
          /\ d.delivered = channel.delivered /\ d.state = "closing"
      BY <1>1 DEF Channel
    <3>2. d \in Channel
      <4>1. "closing" \in States
        BY DEF States
      <4> QED BY <1>1, <4>1, Updates
    <3> HIDE DEF d
    <3>3. ChannelInv(d, accepted, peerReset, heard, Got)
      BY <1>1, <2>3, <3>1, <3>2, SameMessages
    <3>4. c \in Channel /\ AmountKept(d, c)
      BY <2>3, <3>3, UpdateStateKeeps, UpdateStateKeepsAmount DEF ChannelInv
    <3> QED BY <1>3, <2>1, <3>1, <3>4, BecomesAmount DEF AmountKept
  <2> QED BY <2>1, <2>2, <2>3 DEF Close
<1>6. CASE OnInitReady \/ SignalWritable
  <2>1. PICK c : /\ \/ c = channel
                    \/ /\ c \in OnChannelReady(channel, Answers)
                       /\ channel.connected \/ Signal("init_ready", 0)
                 /\ Becomes(c)
    BY <1>6 DEF OnInitReady, SignalWritable
  <2>2. CASE c = channel
    BY <1>1, <1>3, <2>1, <2>2, BecomesAmount
  <2>3. CASE /\ c \in OnChannelReady(channel, Answers)
             /\ channel.connected \/ Signal("init_ready", 0)
    <3>1. Covered(channel)
      <4>1. CASE channel.state # "closed"
        BY <1>1, <4>1 DEF ChannelInv, LifePart, Covered
      <4>2. CASE channel.state = "closed"
        <5>1. Signal("init_ready", 0)
          BY <1>1, <2>3, <4>2 DEF ChannelInv, LifePart
        <5>2. Shrinks(tasks, "init_ready", tasks')
          BY <5>1, SignalShrinks
        <5>3. channel.send = <<>>
          BY <4>2, <5>2 DEF Shrinks, ContractInv
        <5> QED BY <1>1, <1>2, <5>3 DEF Covered
      <4> QED BY <4>1, <4>2
    <3>2. c \in Channel /\ c.buffered >= 0
      BY <1>1, <2>3, <3>1, OnChannelReadyKeeps, ReadyAmount DEF ChannelInv
    <3> QED BY <2>1, <3>2, BecomesAmount DEF AmountDoesNotWrap
  <2> QED BY <2>1, <2>2, <2>3
<1>7. CASE \/ AppObserve \/ CloseAbruptlyWithDataChannelFailure
           \/ OnTransportChannelClosed \/ SignalReceivedData
           \/ SignalChannelClosing \/ SignalChannelClosed
  <2>1. \/ channel' = channel
        \/ \E m : channel' \in
               {RegisterObserver(channel), UnregisterObserver(channel),
                OnAckReceived(channel), OnDataReceived(channel, m),
                OnClosingProcedureStartedRemotely(channel),
                OnClosingProcedureComplete(channel), CloseAbruptly(channel)}
    BY <1>7 DEF AppObserve, CloseAbruptlyWithDataChannelFailure,
                OnTransportChannelClosed, SignalReceivedData,
                SignalChannelClosing, SignalChannelClosed
  <2> QED BY <1>1, <1>3, <2>1, OthersKeepAmount
<1>8. CASE OnTransportChannelCreated \/ SetSctpSid
  <2>1. \/ channel' = [channel EXCEPT !.connected = TRUE]
        \/ channel' = [channel EXCEPT !.sid = TRUE]
    BY <1>8 DEF OnTransportChannelCreated, SetSctpSid
  <2> QED BY <1>1, <1>3, <2>1 DEF Channel
<1>9. CASE \/ OnTransportChanged \/ TransportChanged \/ SetReadyToSendData
           \/ OtherChannelBlocks \/ PeerSends \/ PeerCloses
           \/ PeerAnswersReset \/ ResetComplete \/ UnsentReset
           \/ UNCHANGED vars
  <2>1. channel' = channel
    BY <1>9 DEF OnTransportChanged, TransportChanged, SetReadyToSendData,
                OtherChannelBlocks, PeerSends, PeerCloses, PeerAnswersReset,
                ResetComplete, UnsentReset, vars
  <2> QED BY <1>3, <2>1
<1> QED BY <1>4, <1>5, <1>6, <1>7, <1>8, <1>9 DEF Next

(* In every behaviour in which the transport changes at most once and at   *)
(* most one ready signal is ahead of the task of Init(): buffered_amount_  *)
(* never falls below zero, on a closed channel either                      *)
(* (RTC_DCHECK(buffered_amount_ >= buffer.size()) of SendDataMessage).     *)
THEOREM AmountNeverWraps ==
    ASSUME MaxAhead <= 1
    PROVE  Spec /\ [](changes <= 1) => []AmountDoesNotWrap
<1>1. Init => ContractInv /\ AmountDoesNotWrap
  <2>1. Init => channel.buffered = 0
    BY DEF Init, NewChannel
  <2> QED BY <2>1, InitContract DEF AmountDoesNotWrap
<1>2. DataChannelInv /\ DataChannelInv' /\ ContractInv /\ (changes <= 1)'
          /\ [Next]_vars => ContractInv'
  BY NextContract
<1>3. DataChannelInv /\ ContractInv /\ AmountDoesNotWrap /\ [Next]_vars
          => AmountDoesNotWrap'
  BY NextAmount
<1> QED BY <1>1, <1>2, <1>3, Invariant, PTL DEF Spec

=============================================================================

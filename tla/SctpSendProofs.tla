---------------------------- MODULE SctpSendProofs ----------------------------
(***************************************************************************)
(* How messages reach usrsctp, for any number of streams, any buffer and   *)
(* any sizes.  AcceptedIsSentOrBuffered relates the last piece to what is  *)
(* buffered, which makes PiecesStayTogether inductive: the next piece      *)
(* either continues the buffered message or, with nothing buffered, begins *)
(* the next one.                                                           *)
(***************************************************************************)
EXTENDS SctpSend, SequenceTheorems, TLAPS

Piece == [id : Nat, size : Nat \ {0}, left : Nat]

TypeInv ==
    /\ partial \in {<<>>} \cup {<<m>> : m \in Message}
    /\ ready \in BOOLEAN
    /\ accepted \in Seq(Nat)
    /\ pieces \in Seq(Piece)
    /\ buffer \in 0 .. BufferSize
    /\ dry \in Nat

(* A piece of a message was handed to usrsctp.                             *)
Handed(m, n) == [id |-> m.id, size |-> n, left |-> m.left - n]

(* What sendv takes is no more than the message and than the room.         *)
LEMMA SendvTakes ==
    ASSUME NEW size \in Nat, NEW room \in Nat, NEW n \in sendv(size, room)
    PROVE  n \in Nat /\ n <= size /\ n <= room /\ (n < size => room < size)
BY DEF sendv

(* A message and what Advance leaves of it.                                *)
LEMMA AdvanceLeaves ==
    ASSUME NEW m \in Message, NEW n \in 0 .. m.left
    PROVE  /\ Advance(m, n) \in {<<>>} \cup {<<r>> : r \in Message}
           /\ Advance(m, n) = <<>> <=> n = m.left
           /\ Advance(m, n) # <<>> =>
                  /\ Head(Advance(m, n)).left = m.left - n
                  /\ Head(Advance(m, n)).id = m.id
                  /\ Head(Advance(m, n)).sid = m.sid
                  /\ Head(Advance(m, n)).type = m.type
<1>1. CASE n = m.left
  BY <1>1 DEF Advance
<1>2. CASE n # m.left
  <2> DEFINE r == [m EXCEPT !.left = m.left - n]
  <2>1. /\ r \in Message
        /\ r.left = m.left - n /\ r.id = m.id /\ r.sid = m.sid
        /\ r.type = m.type
    BY <1>2, BufferAssumption, SendBoundsAssumption DEF Message
  <2>2. Advance(m, n) = <<r>>
    BY <1>2 DEF Advance
  <2>3. Head(<<r>>) = r /\ <<r>> # <<>>
    OBVIOUS
  <2> QED BY <1>2, <2>1, <2>2, <2>3
<1> QED BY <1>1, <1>2

SendInv ==
    /\ TypeInv
    /\ PiecesStayTogether
    /\ AcceptedIsSentOrBuffered
    /\ partial # <<>> => pieces # <<>>

(* The next message, with nothing buffered, or the buffered one.           *)
Turn(m) == \/ partial = <<>> /\ m.id = Len(accepted) + 1
           \/ partial = <<m>>

(* A piece of the message whose turn it is keeps the pieces together.      *)
LEMMA PieceHanded ==
    ASSUME SendInv, NEW m \in Message, NEW n \in 1 .. m.left, Turn(m),
           pieces' = Append(pieces, Handed(m, n))
    PROVE  /\ pieces' \in Seq(Piece) /\ pieces' # <<>>
           /\ pieces'[Len(pieces')] = Handed(m, n)
           /\ PiecesStayTogether'
<1> DEFINE piece == Handed(m, n)
<1>1. /\ piece \in Piece
      /\ piece.id = m.id /\ piece.size = n /\ piece.left = m.left - n
  BY BufferAssumption, SendBoundsAssumption DEF Handed, Message, Piece
<1>2. pieces \in Seq(Piece)
  BY DEF SendInv, TypeInv
<1>3. /\ pieces' \in Seq(Piece) /\ pieces' # <<>>
      /\ Len(pieces') = Len(pieces) + 1
      /\ \A i \in 1 .. Len(pieces) : pieces'[i] = pieces[i]
      /\ pieces'[Len(pieces) + 1] = piece
  BY <1>1, <1>2, AppendProperties
<1>4. ASSUME pieces # <<>>
      PROVE  LET last == pieces[Len(pieces)] IN
             /\ last.left > 0 => /\ piece.id = last.id
                                 /\ piece.size + piece.left = last.left
             /\ last.left = 0 => piece.id = last.id + 1
  <2>1. Len(pieces) \in Nat \ {0} /\ pieces[Len(pieces)] \in Piece
    BY <1>2, <1>4
  <2>2. CASE partial = <<>> /\ m.id = Len(accepted) + 1
    BY <1>1, <1>4, <2>1, <2>2 DEF SendInv, AcceptedIsSentOrBuffered, Piece
  <2>3. CASE partial = <<m>>
    <3>1. partial # <<>> /\ Head(partial) = m
      BY <2>3
    <3> QED BY <1>1, <1>4, <2>1, <3>1
            DEF SendInv, AcceptedIsSentOrBuffered, Piece, Message
  <2> QED BY <2>2, <2>3 DEF Turn
<1>5. PiecesStayTogether'
  <2> SUFFICES ASSUME NEW i \in 1 .. Len(pieces), i < Len(pieces')
               PROVE  /\ pieces'[i].left > 0 =>
                             /\ pieces'[i + 1].id = pieces'[i].id
                             /\ pieces'[i + 1].size + pieces'[i + 1].left
                                    = pieces'[i].left
                      /\ pieces'[i].left = 0 =>
                             pieces'[i + 1].id = pieces'[i].id + 1
    BY <1>2, <1>3 DEF PiecesStayTogether
  <2>1. CASE i = Len(pieces)
    BY <1>2, <1>3, <1>4, <2>1
  <2>2. CASE i < Len(pieces)
    BY <1>2, <1>3, <2>2 DEF SendInv, PiecesStayTogether
  <2> QED BY <1>2, <2>1, <2>2
<1> QED BY <1>2, <1>3, <1>5

(* The buffered message.                                                   *)
LEMMA Buffered ==
    ASSUME TypeInv, partial # <<>>
    PROVE  Head(partial) \in Message /\ partial = <<Head(partial)>>
BY DEF TypeInv

(* Handing over n units of the message whose turn it is, with what         *)
(* Advance leaves of it in the buffer of the transport.                    *)
LEMMA HandedStep ==
    ASSUME SendInv, NEW m \in Message, NEW n \in 1 .. m.left, Turn(m),
           pieces' = SendMessageInternal(m, n),
           partial' = Advance(m, n),
           accepted' \in Seq(Nat), Len(accepted') = m.id,
           ready' \in BOOLEAN, buffer' \in 0 .. BufferSize, dry' \in Nat
    PROVE  SendInv'
<1>1. pieces' = Append(pieces, Handed(m, n))
  BY DEF SendMessageInternal, Handed
<1>2. /\ pieces' \in Seq(Piece) /\ pieces' # <<>>
      /\ pieces'[Len(pieces')] = Handed(m, n)
      /\ PiecesStayTogether'
  BY <1>1, PieceHanded
<1>3. /\ Handed(m, n).left = m.left - n /\ Handed(m, n).id = m.id
      /\ m.left \in Nat
  BY DEF Handed, Message
<1>4. /\ partial' \in {<<>>} \cup {<<r>> : r \in Message}
      /\ partial' = <<>> <=> n = m.left
      /\ partial' # <<>> => /\ Head(partial').left = m.left - n
                            /\ Head(partial').id = m.id
  BY AdvanceLeaves, n \in 0 .. m.left
<1>5. TypeInv'
  BY <1>2, <1>4 DEF TypeInv
<1>6. AcceptedIsSentOrBuffered'
  BY <1>2, <1>3, <1>4 DEF AcceptedIsSentOrBuffered
<1> QED BY <1>2, <1>5, <1>6 DEF SendInv

(* A step that hands nothing over.                                         *)
LEMMA QuietStep ==
    ASSUME SendInv, UNCHANGED <<pieces, partial, accepted>>,
           ready' \in BOOLEAN, buffer' \in 0 .. BufferSize, dry' \in Nat
    PROVE  SendInv'
BY DEF SendInv, TypeInv, PiecesStayTogether, AcceptedIsSentOrBuffered

LEMMA SendDataStep ==
    ASSUME SendInv, NEW m \in Message, SendData(m)
    PROVE  SendInv'
<1>1. ready \in BOOLEAN /\ buffer \in 0 .. BufferSize /\ dry' \in Nat
  BY DEF SendInv, TypeInv, SendData
<1>2. CASE partial # <<>> /\ ready' = FALSE
           /\ UNCHANGED <<partial, accepted, pieces, buffer>>
  BY <1>1, <1>2, QuietStep
<1>3. CASE partial = <<>> /\ Try(m)
  <2>1. PICK n \in sendv(m.left, BufferSize - buffer) :
            /\ buffer' = buffer + n
            /\ pieces' = SendMessageInternal(m, n)
            /\ ready' = (ready /\ n > 0)
            /\ accepted' = IF n > 0 THEN Append(accepted, m.left)
                           ELSE accepted
            /\ partial' = IF n > 0 THEN Advance(m, n) ELSE partial
    BY <1>3 DEF Try
  <2>2. m.left \in 1 .. BufferSize /\ m.left \in Nat
    BY BufferAssumption DEF Message
  <2>3. n \in Nat /\ n <= m.left /\ n <= BufferSize - buffer
    BY <1>1, <2>1, <2>2, SendvTakes, BufferAssumption
  <2>4. buffer' \in 0 .. BufferSize /\ ready' \in BOOLEAN
    BY <1>1, <2>1, <2>3, BufferAssumption
  <2>5. CASE n = 0
    <3>1. UNCHANGED <<pieces, partial, accepted>>
      BY <2>1, <2>5 DEF SendMessageInternal
    <3> QED BY <1>1, <2>4, <3>1, QuietStep
  <2>6. CASE n > 0
    <3>1. accepted \in Seq(Nat)
      BY DEF SendInv, TypeInv
    <3>2. m.id = Len(accepted) + 1
      BY DEF SendData
    <3>3. accepted' \in Seq(Nat) /\ Len(accepted') = m.id
      BY <2>1, <2>2, <2>6, <3>1, <3>2
    <3>4. Turn(m)
      BY <1>3, <3>2 DEF Turn
    <3>5. n \in 1 .. m.left /\ partial' = Advance(m, n)
      BY <2>1, <2>2, <2>3, <2>6
    <3> QED BY <1>1, <2>1, <2>4, <3>3, <3>4, <3>5, HandedStep
  <2> QED BY <2>3, <2>5, <2>6
<1> QED BY <1>2, <1>3 DEF SendData

(* The buffer drains to rest: what becomes of the buffered message.        *)
LEMMA ThresholdStep ==
    ASSUME SendInv, NEW rest \in 0 .. BufferSize,
           OnSendThresholdCallback(rest), dry' \in Nat, UNCHANGED accepted
    PROVE  SendInv'
<1>1. ready \in BOOLEAN /\ accepted \in Seq(Nat)
  BY DEF SendInv, TypeInv
<1>2. CASE partial = <<>>
  BY <1>1, <1>2, QuietStep DEF OnSendThresholdCallback
<1>3. CASE partial # <<>>
  <2> DEFINE m == Head(partial)
  <2>1. m \in Message /\ partial = <<m>> /\ m.left \in 1 .. BufferSize
    BY <1>3, Buffered DEF SendInv, Message
  <2>2. SendBufferedMessage(rest) /\ ready' \in BOOLEAN
    BY <1>1, <1>3 DEF OnSendThresholdCallback
  <2>3. CASE Refused(m)
    BY <1>1, <2>2, <2>3, QuietStep DEF SendBufferedMessage
  <2>4. CASE ~Refused(m)
    <3>1. PICK n \in sendv(m.left, BufferSize - rest) :
              /\ buffer' = rest + n
              /\ pieces' = SendMessageInternal(m, n)
              /\ partial' = Advance(m, n)
      BY <2>2, <2>4 DEF SendBufferedMessage
    <3>2. n \in Nat /\ n <= m.left /\ n <= BufferSize - rest
      BY <2>1, <3>1, SendvTakes, BufferAssumption
    <3>3. buffer' \in 0 .. BufferSize
      BY <3>1, <3>2, BufferAssumption
    <3>4. CASE n = 0
      <4>1. [m EXCEPT !.left = m.left - n] = m
        BY <2>1, <3>4 DEF Message
      <4>2. UNCHANGED <<pieces, partial>>
        BY <2>1, <3>1, <3>4, <4>1 DEF SendMessageInternal, Advance
      <4> QED BY <2>2, <3>3, <4>2, QuietStep
    <3>5. CASE n > 0
      <4>1. n \in 1 .. m.left /\ Turn(m)
        BY <2>1, <3>2, <3>5 DEF Turn
      <4>2. accepted' \in Seq(Nat) /\ Len(accepted') = m.id
        <5>1. pieces # <<>> /\ pieces[Len(pieces)] \in Piece
          BY <1>3 DEF SendInv, TypeInv
        <5> QED BY <1>1, <1>3, <5>1
                DEF SendInv, AcceptedIsSentOrBuffered, Piece
      <4> QED BY <2>1, <2>2, <3>1, <3>3, <4>1, <4>2, HandedStep
    <3> QED BY <3>2, <3>4, <3>5
  <2> QED BY <2>3, <2>4
<1> QED BY <1>2, <1>3

LEMMA SendStep == SendInv /\ [Next]_vars => SendInv'
<1> SUFFICES ASSUME SendInv, [Next]_vars
             PROVE  SendInv'
  OBVIOUS
<1> USE BufferAssumption
<1>1. /\ ready \in BOOLEAN /\ buffer \in 0 .. BufferSize /\ dry \in Nat
  BY DEF SendInv, TypeInv
<1>2. CASE UNCHANGED vars
  BY <1>1, <1>2, QuietStep DEF vars
<1>3. ASSUME NEW m \in Message, SendData(m)
      PROVE  SendInv'
  BY <1>3, SendDataStep
<1>4. ASSUME NEW s \in Sids, ResetStream(s)
      PROVE  SendInv'
  BY <1>1, <1>4, QuietStep DEF ResetStream
<1>5. CASE Acknowledge
  <2>1. PICK rest \in 0 .. buffer :
            /\ rest < buffer
            /\ dry' = IF rest = 0 THEN dry + 1 ELSE dry
            /\ IF BufferSize - rest >= BufferSize \div 2
               THEN OnSendThresholdCallback(rest)
               ELSE buffer' = rest /\ UNCHANGED <<partial, ready, pieces>>
            /\ UNCHANGED <<closing, accepted>>
    BY <1>5 DEF Acknowledge
  <2>2. rest \in 0 .. BufferSize /\ dry' \in Nat
    BY <1>1, <2>1
  <2>3. CASE OnSendThresholdCallback(rest)
    BY <2>1, <2>2, <2>3, ThresholdStep
  <2>4. CASE buffer' = rest /\ UNCHANGED <<partial, ready, pieces>>
    BY <1>1, <2>1, <2>2, <2>4, QuietStep
  <2> QED BY <2>1, <2>3, <2>4
<1>6. CASE OnSenderDry
  BY <1>1, <1>6, QuietStep DEF OnSenderDry
<1> QED BY <1>2, <1>3, <1>4, <1>5, <1>6 DEF Next

LEMMA SendInvHolds == Spec => []SendInv
<1>1. Init => SendInv
  BY BufferAssumption
  DEF Init, SendInv, TypeInv, PiecesStayTogether, AcceptedIsSentOrBuffered
<1> QED BY <1>1, SendStep, PTL DEF Spec

(* For any number of streams, messages and sizes and any send buffer,      *)
(* usrsctp gets the pieces of one message after the other                  *)
(* (partial_outgoing_message_, SendData and SendBufferedMessage).          *)
THEOREM PiecesAreNotMixed == Spec => []PiecesStayTogether
<1>1. SendInv => PiecesStayTogether
  BY DEF SendInv
<1> QED BY <1>1, SendInvHolds, PTL

(* For any instance, a message for which SendData returned true is sent    *)
(* completely, except for what partial_outgoing_message_ still holds.      *)
THEOREM AcceptedIsNotLost == Spec => []AcceptedIsSentOrBuffered
<1>1. SendInv => AcceptedIsSentOrBuffered
  BY DEF SendInv
<1> QED BY <1>1, SendInvHolds, PTL

-----------------------------------------------------------------------------
(* Waking up.  BlockedIsWoken is not inductive: when the notification that *)
(* the buffer is empty has been handled, only data in the buffer can wake  *)
(* a buffered message.  A message is no larger than the buffer, so the     *)
(* callback at an empty buffer always sends all of it.                     *)

WakeInv ==
    /\ partial # <<>> => buffer > 0 \/ Stuck
    /\ ~ready => buffer > 0 \/ dry > 0 \/ Stuck

LEMMA WakeStep == SendInv /\ WakeInv /\ [Next]_vars => WakeInv'
<1> SUFFICES ASSUME SendInv, WakeInv, [Next]_vars
             PROVE  WakeInv'
  OBVIOUS
<1> USE BufferAssumption
<1>1. /\ ready \in BOOLEAN /\ buffer \in 0 .. BufferSize /\ dry \in Nat
  BY DEF SendInv, TypeInv
<1>2. CASE UNCHANGED vars
  BY <1>2 DEF vars, WakeInv, Stuck, Refused
<1>3. ASSUME NEW m \in Message, SendData(m)
      PROVE  WakeInv'
  <2>1. CASE partial # <<>> /\ ready' = FALSE
             /\ UNCHANGED <<partial, accepted, pieces, buffer>>
    BY <1>3, <2>1 DEF SendData, WakeInv, Stuck, Refused
  <2>2. CASE partial = <<>> /\ Try(m)
    <3>1. PICK n \in sendv(m.left, BufferSize - buffer) :
              /\ buffer' = buffer + n
              /\ ready' = (ready /\ n > 0)
              /\ partial' = IF n > 0 THEN Advance(m, n) ELSE partial
      BY <2>2 DEF Try
    <3>2. m.left \in 1 .. BufferSize
      BY DEF Message
    <3>3. n \in Nat /\ (n < m.left => BufferSize - buffer < m.left)
      BY <1>1, <3>1, <3>2, SendvTakes
    <3>4. buffer' > 0
      BY <1>1, <3>1, <3>2, <3>3
    <3> QED BY <3>4 DEF WakeInv
  <2> QED BY <1>3, <2>1, <2>2 DEF SendData
<1>4. ASSUME NEW s \in Sids, ResetStream(s)
      PROVE  WakeInv'
  BY <1>4 DEF ResetStream, WakeInv, Stuck, Refused
<1>5. CASE Acknowledge
  <2>1. PICK rest \in 0 .. buffer :
            /\ rest < buffer
            /\ dry' = IF rest = 0 THEN dry + 1 ELSE dry
            /\ IF BufferSize - rest >= BufferSize \div 2
               THEN OnSendThresholdCallback(rest)
               ELSE buffer' = rest /\ UNCHANGED <<partial, ready, pieces>>
            /\ UNCHANGED <<closing, accepted>>
    BY <1>5 DEF Acknowledge
  <2>2. rest \in 0 .. BufferSize /\ (rest = 0 => dry' > 0)
    BY <1>1, <2>1
  <2>3. CASE OnSendThresholdCallback(rest)
    <3>1. CASE partial = <<>>
      BY <2>3, <3>1 DEF OnSendThresholdCallback, WakeInv
    <3>2. CASE partial # <<>>
      <4> DEFINE m == Head(partial)
      <4>1. m \in Message /\ m.left \in 1 .. BufferSize
        BY <3>2, Buffered DEF SendInv, Message
      <4>2. SendBufferedMessage(rest)
        BY <2>3, <3>2 DEF OnSendThresholdCallback
      <4>3. CASE Refused(m)
        <5>1. Stuck'
          BY <2>1, <3>2, <4>2, <4>3 DEF SendBufferedMessage, Stuck, Refused
        <5> QED BY <5>1 DEF WakeInv
      <4>4. CASE ~Refused(m)
        <5>1. PICK n \in sendv(m.left, BufferSize - rest) :
                  buffer' = rest + n /\ partial' = Advance(m, n)
          BY <4>2, <4>4 DEF SendBufferedMessage
        <5>2. n \in Nat /\ n <= m.left
              /\ (n < m.left => BufferSize - rest < m.left)
          BY <2>2, <4>1, <5>1, SendvTakes
        <5>3. buffer' > 0
          BY <2>2, <4>1, <5>1, <5>2
        <5> QED BY <5>3 DEF WakeInv
      <4> QED BY <4>3, <4>4
    <3> QED BY <3>1, <3>2
  <2>4. CASE /\ ~(BufferSize - rest >= BufferSize \div 2)
             /\ buffer' = rest /\ UNCHANGED <<partial, ready, pieces>>
    <3>1. buffer' > 0
      BY <2>2, <2>4
    <3> QED BY <3>1 DEF WakeInv
  <2> QED BY <2>1, <2>3, <2>4
<1>6. CASE OnSenderDry
  BY <1>1, <1>6 DEF OnSenderDry, WakeInv, Stuck, Refused
<1> QED BY <1>2, <1>3, <1>4, <1>5, <1>6 DEF Next

(* For any instance, a refused sender and a message of which only a part   *)
(* was taken always have something that wakes them, unless the stream of   *)
(* the buffered message was closed (OnSendThresholdCallback and            *)
(* SCTP_SENDER_DRY_EVENT are the only wake-ups).                           *)
THEOREM SendersAreWoken == Spec => []BlockedIsWoken
<1>1. Init => WakeInv
  BY DEF Init, WakeInv
<1>2. WakeInv => BlockedIsWoken
  BY DEF WakeInv, BlockedIsWoken
<1> QED BY <1>1, <1>2, SendInvHolds, WakeStep, PTL DEF Spec
=============================================================================

------------------------------- MODULE SctpSend -------------------------------
(***************************************************************************)
(* How cricket::SctpTransport (media/sctp/sctp_transport.cc) hands         *)
(* messages to usrsctp.  usrsctp_sendv is not atomic (explicit EOR): when  *)
(* the send buffer has room for a part of a message only, the transport    *)
(* keeps the rest in partial_outgoing_message_ and refuses other messages  *)
(* until the buffer drained and the rest is gone.                          *)
(*                                                                         *)
(* Sizes are counted in units of the send buffer.  Streams are open or     *)
(* closing here: StreamReset models what closing does.  All steps are on   *)
(* the network thread; usrsctp calls back from usrsctp_conninput, and      *)
(* posts its SENDER_DRY notification.                                      *)
(***************************************************************************)
EXTENDS Naturals, Sequences, FiniteSets

CONSTANTS
    Sids,           \* the streams
    BufferSize,     \* kSctpSendBufferSize, also the largest max_message_size_
    MaxMessages,    \* bound: calls of SendData that are accepted
    MaxResets       \* bound: streams the application resets

ASSUME BufferAssumption == BufferSize \in Nat \ {0}
ASSUME SendBoundsAssumption == MaxMessages \in Nat /\ MaxResets \in Nat

VARIABLES
    closing,    \* streams that are not is_open any more
    partial,    \* partial_outgoing_message_: a sequence of at most one
    ready,      \* ready_to_send_data_
    accepted,   \* sizes of the messages for which SendData returned true
    pieces,     \* what usrsctp_sendv took, in order
    buffer,     \* usrsctp: units in the send buffer
    dry         \* SENDER_DRY notifications posted to the network thread

vars == <<closing, partial, ready, accepted, pieces, buffer, dry>>

Message == [id : 1 .. MaxMessages, sid : Sids, type : {"CONTROL", "DATA"},
            left : 1 .. BufferSize]

Init ==
    /\ closing = {} /\ partial = <<>> /\ ready = TRUE
    /\ accepted = <<>> /\ pieces = <<>> /\ buffer = 0 /\ dry = 0

-----------------------------------------------------------------------------
(* usrsctp_sendv (external) takes a message that fits whole; of one that   *)
(* does not fit it takes a part or, with EWOULDBLOCK, nothing (0).         *)
sendv(size, room) == IF size <= room THEN {size} ELSE 0 .. room

(* SendMessageInternal refuses data on a stream that is not open ...       *)
Refused(message) == message.type = "DATA" /\ message.sid \in closing

(* ... and otherwise hands n units to usrsctp.                             *)
SendMessageInternal(message, n) ==
    IF n = 0 THEN pieces
    ELSE Append(pieces, [id |-> message.id, size |-> n,
                         left |-> message.left - n])

(* OutgoingMessage::Advance: what has to be buffered of the message.       *)
Advance(message, n) ==
    IF n = message.left THEN <<>>
    ELSE <<[message EXCEPT !.left = @ - n]>>

(* A message that no buffered one is ahead of is tried.  EWOULDBLOCK       *)
(* clears ready_to_send_data_; SDR_ERROR, for a closing stream or a        *)
(* failure of usrsctp, changes nothing.                                    *)
Try(message) ==
    /\ ~Refused(message)
    /\ \E n \in sendv(message.left, BufferSize - buffer) :
          /\ buffer' = buffer + n
          /\ pieces' = SendMessageInternal(message, n)
          /\ ready' = (ready /\ n > 0)
          /\ accepted' = IF n > 0 THEN Append(accepted, message.left)
                         ELSE accepted
          /\ partial' = IF n > 0 THEN Advance(message, n) ELSE partial

(* Variant: a message is tried although another one is unfinished.         *)
SendDataOvertakes(message) ==
    /\ message.id = Len(accepted) + 1
    /\ Try(message)
    /\ UNCHANGED <<closing, dry>>

SendData(message) ==
    /\ message.id = Len(accepted) + 1
    /\ \/ /\ partial # <<>>
          /\ ready' = FALSE
          /\ UNCHANGED <<partial, accepted, pieces, buffer>>
       \/ partial = <<>> /\ Try(message)
    /\ UNCHANGED <<closing, dry>>

(* The part of ResetStream, and of a reset by the peer, that SendData sees.*)
ResetStream(s) ==
    /\ s \notin closing
    /\ Cardinality(closing) < MaxResets
    /\ closing' = closing \cup {s}
    /\ UNCHANGED <<partial, ready, accepted, pieces, buffer, dry>>

-----------------------------------------------------------------------------
(* The send buffer drains to rest.                                         *)

(* Variant: what usrsctp does not take of the buffered message is dropped. *)
SendBufferedDropsRest(rest) ==
    IF Refused(Head(partial))
    THEN buffer' = rest /\ UNCHANGED <<partial, pieces>>
    ELSE \E n \in sendv(Head(partial).left, BufferSize - rest) :
            /\ buffer' = rest + n
            /\ pieces' = SendMessageInternal(Head(partial), n)
            /\ partial' = <<>>

(* SendBufferedMessage.  On a closing stream SendMessageInternal fails,    *)
(* and the message stays.                                                  *)
SendBufferedMessage(rest) ==
    IF Refused(Head(partial))
    THEN buffer' = rest /\ UNCHANGED <<partial, pieces>>
    ELSE \E n \in sendv(Head(partial).left, BufferSize - rest) :
            /\ buffer' = rest + n
            /\ pieces' = SendMessageInternal(Head(partial), n)
            /\ partial' = Advance(Head(partial), n)

(* Variant: a buffered message is only tried when somebody was refused     *)
(* since.                                                                  *)
ThresholdWhenRefused(rest) ==
    IF partial # <<>> /\ ~ready
    THEN SendBufferedMessage(rest) /\ ready' = (partial' = <<>>)
    ELSE buffer' = rest /\ ready' = TRUE /\ UNCHANGED <<partial, pieces>>

(* EWOULDBLOCK took nothing and cleared ready_to_send_data_.               *)
OnSendThresholdCallback(rest) ==
    IF partial # <<>>
    THEN /\ SendBufferedMessage(rest)
         /\ ready' = (\/ partial' = <<>>
                      \/ ready /\ (pieces' # pieces \/ Refused(Head(partial))))
    ELSE buffer' = rest /\ ready' = TRUE /\ UNCHANGED <<partial, pieces>>

(* usrsctp (external) processes an acknowledgement.  It calls back when    *)
(* half of the buffer is free, and notifies when nothing is left.          *)
Acknowledge ==
    \E rest \in 0 .. buffer :
        /\ rest < buffer
        /\ dry' = IF rest = 0 THEN dry + 1 ELSE dry
        /\ IF BufferSize - rest >= BufferSize \div 2
           THEN OnSendThresholdCallback(rest)
           ELSE buffer' = rest /\ UNCHANGED <<partial, ready, pieces>>
        /\ UNCHANGED <<closing, accepted>>

(* SCTP_SENDER_DRY_EVENT: SetReadyToSendData without a look at the         *)
(* buffered message.                                                       *)
OnSenderDry ==
    /\ dry > 0
    /\ dry' = dry - 1
    /\ ready' = TRUE
    /\ UNCHANGED <<closing, partial, accepted, pieces, buffer>>

-----------------------------------------------------------------------------

Next ==
    \/ \E message \in Message : SendData(message)
    \/ \E s \in Sids : ResetStream(s)
    \/ Acknowledge
    \/ OnSenderDry

Spec == Init /\ [][Next]_vars

(* The peer acknowledges data, and the network thread runs its tasks.      *)
FairSpec == Spec /\ WF_vars(Acknowledge) /\ WF_vars(OnSenderDry)

-----------------------------------------------------------------------------
(* Properties.                                                             *)

(* usrsctp gets the pieces of a message one after the other, and no other  *)
(* message before the last one: with explicit EOR it would append the      *)
(* piece of another message to the unfinished one.                         *)
PiecesStayTogether ==
    \A i \in 1 .. Len(pieces) :
        /\ pieces[i].left > 0 /\ i < Len(pieces) =>
               /\ pieces[i + 1].id = pieces[i].id
               /\ pieces[i + 1].size + pieces[i + 1].left = pieces[i].left
        /\ pieces[i].left = 0 /\ i < Len(pieces) =>
               pieces[i + 1].id = pieces[i].id + 1

(* "If any data is sent, we accept the message. In the case that data was  *)
(* partially accepted by the sctp library, the remaining is buffered"      *)
(* (SendData): an accepted message is sent completely, except for what     *)
(* partial_outgoing_message_ holds of the last one.                        *)
AcceptedIsSentOrBuffered ==
    /\ accepted # <<>> => pieces # <<>>
    /\ pieces # <<>> =>
           LET last == pieces[Len(pieces)] IN
           /\ last.id = Len(accepted)
           /\ IF last.left = 0 THEN partial = <<>>
              ELSE partial # <<>> /\ Head(partial).id = last.id
                       /\ Head(partial).left = last.left

(* The message of a stream that closes before it is sent.                  *)
Stuck == partial # <<>> /\ Refused(Head(partial))

(* A sender that was refused, and a message of which only a part was       *)
(* taken, are not forgotten: as long as one of them waits, there is data   *)
(* to be acknowledged or a notification under way, unless the message is   *)
(* stuck.                                                                  *)
BlockedIsWoken ==
    ~ready \/ partial # <<>> => buffer > 0 \/ dry > 0 \/ Stuck

(* A message of which a part was accepted is sent to its end, and a        *)
(* transport that is not ready becomes ready, unless the message is stuck. *)
SenderMakesProgress ==
    /\ partial # <<>> ~> partial = <<>> \/ Stuck
    /\ ~ready ~> ready \/ Stuck

(* ReadyToSendData "indicates when the SCTP socket is created and not      *)
(* blocked by congestion control" (sctp_transport_internal.h): when it is  *)
(* false, data waits for an acknowledgement, or the notification that none *)
(* does is under way.                                                      *)
NotReadyMeansCongested == ~ready => buffer > 0 \/ dry > 0

=============================================================================

---------------------------- MODULE ChannelObject ----------------------------
(***************************************************************************)
(* webrtc::DataChannel (pc/data_channel.{h,cc}) for SCTP: the members of   *)
(* one channel as a record, and what its methods make of them.             *)
(*                                                                         *)
(* Methods that call provider_->SendData have one outcome per result the   *)
(* SCTP transport may return (SDR_SUCCESS, SDR_BLOCK, SDR_ERROR), so they  *)
(* are sets of records.  transport.live says whether the transport still   *)
(* accepts data for the channel's stream, transport.full whether it may    *)
(* answer SDR_BLOCK.                                                       *)
(*                                                                         *)
(* Messages are numbered in the order the application sends them and all   *)
(* have size 1, so a queue's byte_count() is its length.  A channel only   *)
(* ever sends one kind of control message, OPEN or OPEN_ACK, so the queue  *)
(* of control messages is a number.                                        *)
(***************************************************************************)
EXTENDS Naturals, Sequences

CONSTANTS
    MaxQueuedSendData,      \* kMaxQueuedSendDataBytes
    MaxQueuedReceivedData   \* kMaxQueuedReceivedDataBytes

ASSUME QueueBoundsAssumption ==
    MaxQueuedSendData \in Nat /\ MaxQueuedReceivedData \in Nat

Roles == {"opener", "acker", "none"}

(* Init(): the handshake still to do, by open_handshake_role.              *)
FirstHandshake ==
    [opener |-> "ShouldSendOpen", acker |-> "ShouldSendAck", none |-> "Ready"]

(* The handshake after a control message was sent.                         *)
NextHandshake ==
    [ShouldSendOpen |-> "WaitingForAck", ShouldSendAck |-> "Ready",
     WaitingForAck |-> "WaitingForAck", Ready |-> "Ready"]

(* Create(): a channel, with its sid assigned or not, connected to the     *)
(* provider's transport or not.                                            *)
NewChannel(role, ordered, sid, connected) ==
    [role |-> role, ordered |-> ordered,                        \* config_
     state |-> "connecting", handshake |-> FirstHandshake[role],
     connected |-> connected,                   \* connected_to_provider_
     writable |-> FALSE, observer |-> FALSE,
     sid |-> sid,                               \* config_.id >= 0
     started |-> FALSE,                         \* started_closing_procedure_
     control |-> 0,                             \* queued_control_data_
     send |-> <<>>, recv |-> <<>>,              \* queued_send/received_data_
     buffered |-> 0,                            \* buffered_amount_
     error |-> FALSE,                           \* error_ is set
     \* What went through the interfaces: control and data messages the
     \* provider took, messages the observer got, an SDR_BLOCK answer.
     controls |-> 0, sent |-> <<>>, delivered |-> <<>>, blocked |-> FALSE]

-----------------------------------------------------------------------------
(* Closing abruptly, and delivering what was received.                     *)

(* Variant: DisconnectFromProvider is forgotten.                           *)
CloseAbruptlyConnected(c) ==
    IF c.state = "closed" THEN c
    ELSE [c EXCEPT !.send = <<>>, !.buffered = 0, !.control = 0,
                   !.error = TRUE, !.state = "closed"]

CloseAbruptly(c) ==
    IF c.state = "closed" THEN c
    ELSE [c EXCEPT !.connected = FALSE, !.send = <<>>, !.buffered = 0,
                   !.control = 0, !.error = TRUE, !.state = "closed"]

DeliverQueuedReceivedData(c) ==
    IF c.observer
    THEN [c EXCEPT !.delivered = @ \o c.recv, !.recv = <<>>]
    ELSE c

-----------------------------------------------------------------------------
(* Control messages.                                                       *)

(* n of them were taken by the provider.                                   *)
ControlSent(c, n) ==
    IF n = 0 THEN c
    ELSE [c EXCEPT !.controls = @ + n, !.handshake = NextHandshake[@]]

ControlBlocked(c, n) ==
    IF n = 0 THEN c ELSE [c EXCEPT !.control = @ + n, !.blocked = TRUE]

SendControlMessage(c, transport) ==
    {ControlSent(c, 1), CloseAbruptly(c)}
        \cup {ControlBlocked(c, n) : n \in IF transport.full THEN {1} ELSE {}}

(* The loop tries every queued message once.  Blocked ones are queued      *)
(* again; the first error closes the channel, dropping what was queued     *)
(* again so far, and the loop goes on.                                     *)
SendQueuedControlMessages(c, transport) ==
    LET swapped == [c EXCEPT !.control = 0]
        blocked == IF transport.full THEN 0 .. c.control ELSE {0}
    IN {ControlBlocked(ControlSent(swapped, c.control - b), b) : b \in blocked}
       \cup
       {ControlBlocked(ControlSent(CloseAbruptly(swapped), n[1]), n[2]) :
            n \in {m \in (0 .. c.control) \X blocked : m[1] + m[2] < c.control}}

-----------------------------------------------------------------------------
(* Data messages.                                                          *)

(* Variant: the handshake is ignored.                                      *)
DataSentUnordered(c, k) ==
    [c EXCEPT !.sent = @ \o [i \in 1 .. k |->
                    [id |-> c.send[i], ordered |-> c.ordered]],
              !.send = SubSeq(@, k + 1, Len(@)),
              !.buffered = @ - k]

(* The first k queued messages were taken by the provider: as unordered    *)
(* only once the handshake is done.                                        *)
DataSent(c, k) ==
    [c EXCEPT !.sent = @ \o [i \in 1 .. k |->
                    [id |-> c.send[i],
                     ordered |-> c.ordered \/ c.handshake # "Ready"]],
              !.send = SubSeq(@, k + 1, Len(@)),
              !.buffered = @ - k]

(* A failed send closes the channel while the message is off the queue;    *)
(* SendQueuedDataMessages then puts it back.                               *)
DataFailed(c) ==
    LET closed == CloseAbruptly([c EXCEPT !.send = Tail(@)])
    IN [closed EXCEPT !.send = <<Head(c.send)>> \o @]

(* Variant: a blocked message goes back to the end of the queue.           *)
SendQueuedDataPushBack(c, transport) ==
    LET taken == IF transport.live THEN 0 .. Len(c.send) ELSE {0}
        left == {k \in taken : k < Len(c.send)}
    IN {DataSent(c, k) : k \in {Len(c.send)} \cap taken}
       \cup {[DataSent(c, k) EXCEPT !.blocked = TRUE,
                                     !.send = Append(Tail(@), Head(@))] :
                 k \in IF transport.full THEN left ELSE {}}
       \cup {DataFailed(DataSent(c, k)) : k \in left}

SendQueuedDataMessages(c, transport) ==
    LET taken == IF transport.live THEN 0 .. Len(c.send) ELSE {0}
        left == {k \in taken : k < Len(c.send)}
    IN {DataSent(c, k) : k \in {Len(c.send)} \cap taken}
       \cup {[DataSent(c, k) EXCEPT !.blocked = TRUE] :
                 k \in IF transport.full THEN left ELSE {}}
       \cup {DataFailed(DataSent(c, k)) : k \in left}

(* QueueSendDataMessage(): the callers close the channel when it fails.    *)
QueueSendDataMessage(c, m) ==
    IF Len(c.send) + 1 > MaxQueuedSendData THEN CloseAbruptly(c)
    ELSE [c EXCEPT !.send = Append(@, m)]

(* Send() of message m.                                                    *)
Send(c, m, transport) ==
    LET d == [c EXCEPT !.buffered = @ + 1] IN
    CASE c.state # "open" -> {d}
      [] c.state = "open" /\ c.send # <<>> -> {QueueSendDataMessage(d, m)}
      [] OTHER ->
           {CloseAbruptly(d)}
           \cup {DataSent([d EXCEPT !.send = <<m>>], k) :
                     k \in IF transport.live THEN {1} ELSE {}}
           \cup {[QueueSendDataMessage(d, m) EXCEPT !.blocked = TRUE] :
                     k \in IF transport.full THEN {1} ELSE {}}

-----------------------------------------------------------------------------
(* The state machine.                                                      *)

(* Variant: what was received before stays queued.                         *)
OpenedWithoutDelivery(c) ==
    IF c.writable /\ c.handshake \in {"Ready", "WaitingForAck"}
    THEN [c EXCEPT !.state = "open"] ELSE c

Opened(c) ==
    IF c.writable /\ c.handshake \in {"Ready", "WaitingForAck"}
    THEN DeliverQueuedReceivedData([c EXCEPT !.state = "open"])
    ELSE c

(* UpdateState(): in kClosing, RemoveSctpDataStream is called when started *)
(* becomes true.                                                           *)
UpdateState(c, transport) ==
    CASE c.state = "connecting" /\ c.connected ->
           {Opened(d) : d \in
                IF c.handshake \in {"ShouldSendOpen", "ShouldSendAck"}
                THEN SendControlMessage(c, transport) ELSE {c}}
      [] c.state = "closing" /\ c.send = <<>> /\ c.control = 0
             /\ c.connected /\ c.sid ->
           {[c EXCEPT !.started = TRUE]}
      [] OTHER -> {c}

(* Variant: no look at the state once the queues are flushed.              *)
OnChannelReadyWithoutUpdate(c, transport) ==
    UNION {SendQueuedDataMessages(d, transport) :
        d \in SendQueuedControlMessages([c EXCEPT !.writable = TRUE],
                                        transport)}

OnChannelReady(c, transport) ==
    UNION {UpdateState(e, transport) :
        e \in UNION {SendQueuedDataMessages(d, transport) :
            d \in SendQueuedControlMessages([c EXCEPT !.writable = TRUE],
                                            transport)}}

(* Variant: the closing procedure does not wait for the queue.             *)
CloseWithoutFlush(c, transport) ==
    IF c.state = "closed" THEN {c}
    ELSE {[c EXCEPT !.state = "closing", !.started = c.connected /\ c.sid]}

Close(c, transport) ==
    IF c.state = "closed" THEN {c}
    ELSE UpdateState([c EXCEPT !.state = "closing"], transport)

-----------------------------------------------------------------------------
(* Slots connected to the provider's signals, for the channel's sid.       *)

OnClosingProcedureStartedRemotely(c) ==
    IF c.state \in {"closing", "closed"} THEN c
    ELSE [c EXCEPT !.send = <<>>, !.control = 0, !.started = TRUE,
                   !.state = "closing"]

OnClosingProcedureComplete(c) ==
    [c EXCEPT !.connected = FALSE, !.state = "closed"]

Acknowledged(c) ==
    IF c.handshake = "WaitingForAck" THEN [c EXCEPT !.handshake = "Ready"]
    ELSE c

(* OnDataReceived of an OPEN_ACK and of data message m.                    *)
OnAckReceived(c) == Acknowledged(c)

OnDataReceived(c, m) ==
    LET d == Acknowledged(c) IN
    CASE d.state = "open" /\ d.observer ->
           [d EXCEPT !.delivered = Append(@, m)]
      [] ~(d.state = "open" /\ d.observer)
             /\ Len(d.recv) + 1 > MaxQueuedReceivedData ->
           CloseAbruptly([d EXCEPT !.recv = <<>>])
      [] OTHER -> [d EXCEPT !.recv = Append(@, m)]

RegisterObserver(c) == DeliverQueuedReceivedData([c EXCEPT !.observer = TRUE])

UnregisterObserver(c) == [c EXCEPT !.observer = FALSE]

=============================================================================

----------------------------- MODULE DataChannel -----------------------------
(***************************************************************************)
(* One SCTP data channel of a PeerConnection, from Create() to kClosed,    *)
(* with everything that may happen to it on the signaling thread: calls of *)
(* the application, of PeerConnection and DataChannelController, and tasks *)
(* the network thread posts.  The SCTP transport below is reduced to what  *)
(* it promises for the channel's stream: StreamReset models how it keeps   *)
(* that promise.                                                           *)
(***************************************************************************)
EXTENDS ChannelObject

CONSTANTS
    MaxSends,       \* bound: calls of Send
    MaxReceives,    \* bound: data messages from the peer
    MaxBlocks,      \* bound: handlers that meet SDR_BLOCK
    MaxChanges,     \* bound: changes of the data channel transport (bundling)
    MaxAhead        \* bound: ready signals ahead of the task of Init()

ASSUME ChannelBoundsAssumption ==
    /\ MaxSends \in Nat /\ MaxReceives \in Nat
    /\ MaxBlocks \in Nat /\ MaxChanges \in Nat /\ MaxAhead \in Nat

VARIABLES
    channel,    \* the DataChannel object
    stream,     \* SctpTransport's status of the channel's stream
    up,         \* SctpTransport connected
    peerReset,  \* the peer's outgoing stream was reset
    transport,  \* DataChannelController's data_channel_transport()
    ready,      \* SctpTransport: ready_to_send_data_
    tasks,      \* tasks posted to the signaling thread
    sends,      \* calls of Send so far
    accepted,   \* those made while the channel was open
    heard,      \* the channel processed an ACK or data of the peer
    received, acked, blocks, changes    \* bounds

boundVars == <<received, acked, blocks, changes>>
environment == <<stream, up, peerReset, transport, ready, tasks>>
vars == <<channel, environment, sends, accepted, heard, boundVars>>

(* OnChannelReady(true), posted by Init() when the transport is ready.     *)
(* Ready signals of the network thread may be ahead of it: one for each    *)
(* time that another channel blocked before this one was created.          *)
InitReady == <<"init_ready", 0>>

Started(n) ==
    [i \in 1 .. n + 1 |-> IF i <= n THEN <<"ready", 0>> ELSE InitReady]

(* A channel created by the application has no sid and no transport before *)
(* the negotiation, unless it is negotiated by the application and brings  *)
(* its own sid.  One created later, or from an OPEN message, has both.     *)
Init ==
    /\ \/ /\ transport = "none" /\ ready = FALSE /\ tasks = <<>>
          /\ \E role \in {"opener", "none"}, ordered \in BOOLEAN :
                 channel = NewChannel(role, ordered, role = "none", FALSE)
       \/ /\ transport = "set" /\ ready = TRUE
          /\ \E n \in 0 .. MaxAhead : tasks = Started(n)
          /\ \E role \in Roles, ordered \in BOOLEAN :
                 channel = NewChannel(role, ordered, TRUE, TRUE)
    /\ stream = IF transport = "set" THEN "open" ELSE "absent"
    /\ up = ready
    /\ peerReset = FALSE
    /\ sends = 0 /\ accepted = 0 /\ heard = FALSE
    /\ received = 0 /\ acked = FALSE /\ blocks = 0 /\ changes = 0

-----------------------------------------------------------------------------
(* What the transport may answer: data goes to an open stream only, and    *)
(* SDR_BLOCK clears ready_to_send_data_.                                   *)

Answers == [live |-> stream = "open", full |-> blocks < MaxBlocks]

(* Variant: SDR_BLOCK leaves ready_to_send_data_ set.                      *)
BecomesStillReady(c) ==
    /\ channel' = [c EXCEPT !.blocked = FALSE]
    /\ ready' = ready
    /\ blocks' = IF c.blocked THEN blocks + 1 ELSE blocks
    /\ stream' = IF stream = "open" /\ c.started /\ ~channel.started
                 THEN IF up THEN "closing" ELSE "unsent"
                 ELSE stream
    /\ UNCHANGED <<up, received, acked, changes>>

(* The channel becomes c.  RemoveSctpDataStream resets an open stream; a   *)
(* reset asked for before the socket exists fails.                         *)
Becomes(c) ==
    /\ channel' = [c EXCEPT !.blocked = FALSE]
    /\ ready' = (ready /\ ~c.blocked)
    /\ blocks' = IF c.blocked THEN blocks + 1 ELSE blocks
    /\ stream' = IF stream = "open" /\ c.started /\ ~channel.started
                 THEN IF up THEN "closing" ELSE "unsent"
                 ELSE stream
    /\ UNCHANGED <<up, received, acked, changes>>

AddSctpDataStream(c) ==
    stream' = IF c.sid /\ transport' = "set" /\ stream = "absent"
              THEN "open" ELSE stream

-----------------------------------------------------------------------------
(* The application.                                                        *)

AppSend ==
    /\ sends < MaxSends
    /\ sends' = sends + 1
    /\ accepted' = IF channel.state = "open" THEN accepted + 1 ELSE accepted
    /\ \E c \in Send(channel, accepted + 1, Answers) : Becomes(c)
    /\ UNCHANGED <<peerReset, transport, tasks, heard>>

AppClose ==
    /\ \E c \in Close(channel, Answers) : Becomes(c)
    /\ UNCHANGED <<peerReset, transport, tasks, sends, accepted, heard>>

AppObserve ==
    /\ channel' = IF channel.observer THEN UnregisterObserver(channel)
                  ELSE RegisterObserver(channel)
    /\ UNCHANGED <<environment, sends, accepted, heard, boundVars>>

-----------------------------------------------------------------------------
(* PeerConnection and DataChannelController.                               *)

(* CreateDataChannel(mid) sets up the transport, then tells each channel.  *)
OnTransportChannelCreated ==
    /\ transport = "none" /\ channel.state # "closed"
    /\ transport' = "set"
    /\ channel' = [channel EXCEPT !.connected = TRUE]
    /\ AddSctpDataStream(channel)
    /\ UNCHANGED <<up, peerReset, ready, tasks, sends, accepted, heard,
                   boundVars>>

(* OnTransportChanged, on the network thread: a new SctpTransport, which   *)
(* knows no streams, before any of them connected.  The channels are told  *)
(* on the signaling thread.                                                *)
OnTransportChanged ==
    /\ transport = "set" /\ ~up /\ changes < MaxChanges
    /\ changes' = changes + 1
    /\ stream' = "absent"
    /\ tasks' = Append(tasks, <<"changed", 0>>)
    /\ UNCHANGED <<channel, up, peerReset, transport, ready, sends,
                   accepted, heard, received, acked, blocks>>

(* AllocateSctpSids, once the DTLS role is known.                          *)
SetSctpSid ==
    /\ ~channel.sid /\ channel.state # "closed"
    /\ channel' = [channel EXCEPT !.sid = TRUE]
    /\ transport' = transport
    /\ AddSctpDataStream(channel')
    /\ UNCHANGED <<up, peerReset, ready, tasks, sends, accepted, heard,
                   boundVars>>

CloseAbruptlyWithDataChannelFailure ==
    /\ ~channel.sid /\ channel.state # "closed"
    /\ channel' = CloseAbruptly(channel)
    /\ UNCHANGED <<environment, sends, accepted, heard, boundVars>>

(* The m= section was rejected or the DTLS transport closed.               *)
OnTransportChannelClosed ==
    /\ transport = "set" /\ channel.state # "closed"
    /\ channel' = CloseAbruptly(channel)
    /\ UNCHANGED <<environment, sends, accepted, heard, boundVars>>

-----------------------------------------------------------------------------
(* Tasks of the network thread, in the order it posted them.  A signal     *)
(* reaches the channel while it is connected to the provider.              *)

Signal(kind, m) ==
    /\ tasks # <<>> /\ Head(tasks) = <<kind, m>>
    /\ tasks' = Tail(tasks)
    /\ UNCHANGED <<peerReset, transport, sends, accepted>>

OnInitReady ==
    /\ Signal("init_ready", 0)
    /\ \E c \in OnChannelReady(channel, Answers) : Becomes(c)
    /\ UNCHANGED heard

(* OnTransportChannelCreated of a connected channel.                       *)
TransportChanged ==
    /\ Signal("changed", 0)
    /\ IF channel.state = "closed" THEN UNCHANGED stream
       ELSE AddSctpDataStream(channel)
    /\ UNCHANGED <<channel, up, ready, heard, boundVars>>

SignalWritable ==
    /\ Signal("ready", 0)
    /\ \E c \in IF channel.connected THEN OnChannelReady(channel, Answers)
                ELSE {channel} : Becomes(c)
    /\ UNCHANGED heard

SignalReceivedData ==
    /\ \/ /\ Signal("ack", 0)
          /\ channel' = IF channel.connected THEN OnAckReceived(channel)
                        ELSE channel
       \/ \E m \in 1 .. MaxReceives :
             /\ Signal("data", m)
             /\ channel' = IF channel.connected THEN OnDataReceived(channel, m)
                           ELSE channel
    /\ heard' = (heard \/ channel.connected)
    /\ UNCHANGED <<stream, up, ready, boundVars>>

SignalChannelClosing ==
    /\ Signal("closing", 0)
    /\ channel' = IF channel.connected
                  THEN OnClosingProcedureStartedRemotely(channel) ELSE channel
    /\ UNCHANGED <<stream, up, ready, heard, boundVars>>

SignalChannelClosed ==
    /\ Signal("closed", 0)
    /\ channel' = IF channel.connected
                  THEN OnClosingProcedureComplete(channel) ELSE channel
    /\ UNCHANGED <<stream, up, ready, heard, boundVars>>

-----------------------------------------------------------------------------
(* The SCTP transport and the peer.                                        *)

Post(kind, m) == tasks' = Append(tasks, <<kind, m>>)

(* SetReadyToSendData: connected, or the send buffer drained.  Sids are    *)
(* assigned before the association can form.                               *)
SetReadyToSendData ==
    /\ transport = "set" /\ ~ready /\ channel.sid
    /\ ready' = TRUE /\ up' = TRUE
    /\ Post("ready", 0)
    /\ UNCHANGED <<channel, stream, peerReset, transport, sends,
                   accepted, heard, boundVars>>

(* Another channel of the transport meets SDR_BLOCK.                       *)
OtherChannelBlocks ==
    /\ ready /\ blocks < MaxBlocks
    /\ ready' = FALSE
    /\ blocks' = blocks + 1
    /\ UNCHANGED <<channel, stream, up, peerReset, transport, tasks, sends,
                   accepted, heard, received, acked, changes>>

(* The peer acknowledges an OPEN, or sends data.                           *)
PeerSends ==
    /\ up /\ ~peerReset
    /\ \/ /\ channel.role = "opener" /\ channel.controls > 0 /\ ~acked
          /\ acked' = TRUE
          /\ Post("ack", 0)
          /\ UNCHANGED received
       \/ /\ received < MaxReceives
          /\ channel.role = "opener" => channel.controls > 0
          /\ received' = received + 1
          /\ Post("data", received + 1)
          /\ UNCHANGED acked
    /\ UNCHANGED <<channel, stream, up, peerReset, transport, ready, sends,
                   accepted, heard, blocks, changes>>

(* The peer starts the closing procedure: SctpTransport signals it and     *)
(* resets the outgoing stream too.                                         *)
PeerCloses ==
    /\ up /\ stream = "open" /\ ~peerReset
    /\ channel.role = "opener" => channel.controls > 0
    /\ peerReset' = TRUE
    /\ stream' = "closing"
    /\ Post("closing", 0)
    /\ UNCHANGED <<channel, up, transport, ready, sends, accepted,
                   heard, boundVars>>

(* The peer answers the closing procedure started here.                    *)
PeerAnswersReset ==
    /\ stream = "closing" /\ ~peerReset
    /\ peerReset' = TRUE
    /\ UNCHANGED <<channel, stream, up, transport, ready, tasks, sends,
                   accepted, heard, boundVars>>

ResetComplete ==
    /\ stream = "closing" /\ peerReset
    /\ stream' = "absent"
    /\ Post("closed", 0)
    /\ UNCHANGED <<channel, up, peerReset, transport, ready, sends,
                   accepted, heard, boundVars>>

(* A reset that failed before the socket existed is sent when a reset of   *)
(* some other stream makes progress, if ever.                              *)
UnsentReset ==
    /\ up /\ stream = "unsent"
    /\ stream' = "closing"
    /\ UNCHANGED <<channel, up, peerReset, transport, ready, tasks, sends,
                   accepted, heard, boundVars>>

-----------------------------------------------------------------------------

Next ==
    \/ AppSend \/ AppClose \/ AppObserve
    \/ OnTransportChannelCreated \/ OnTransportChanged \/ SetSctpSid
    \/ CloseAbruptlyWithDataChannelFailure \/ OnTransportChannelClosed
    \/ OnInitReady \/ TransportChanged \/ SignalWritable
    \/ SignalReceivedData \/ SignalChannelClosing \/ SignalChannelClosed
    \/ SetReadyToSendData \/ OtherChannelBlocks
    \/ PeerSends \/ PeerCloses \/ PeerAnswersReset \/ ResetComplete
    \/ UnsentReset

Spec == Init /\ [][Next]_vars

(* The signaling thread runs its tasks, the negotiation gets done, the     *)
(* send buffer drains and the peer answers a reset (StreamReset).  Nothing *)
(* makes an application or the peer send or close.                         *)
FairSpec ==
    /\ Spec
    /\ WF_vars(OnInitReady \/ TransportChanged \/ SignalWritable
               \/ SignalReceivedData \/ SignalChannelClosing
               \/ SignalChannelClosed)
    /\ WF_vars(OnTransportChannelCreated) /\ WF_vars(SetSctpSid)
    /\ WF_vars(SetReadyToSendData)
    /\ WF_vars(PeerAnswersReset) /\ WF_vars(ResetComplete)

-----------------------------------------------------------------------------
(* Properties.                                                             *)

SentIds == [i \in 1 .. Len(channel.sent) |-> channel.sent[i].id]

Numbers(n) == [i \in 1 .. n |-> i]

(* Messages reach the transport in the order Send accepted them, none is   *)
(* skipped or sent twice, however often sending blocks halfway, and until  *)
(* the channel is closed or the peer closes it, every accepted message is  *)
(* either sent or queued.                                                  *)
SendOrder ==
    /\ SentIds = Numbers(Len(channel.sent))
    /\ channel.state # "closed" /\ ~peerReset
           => SentIds \o channel.send = Numbers(accepted)

(* OPEN goes out before any data, and data goes out unordered (where it    *)
(* could overtake OPEN) only after the peer showed that it has the OPEN    *)
(* message: by its OPEN_ACK or by data of its own.                         *)
OpenBeforeData ==
    channel.role = "opener" =>
        /\ channel.sent # <<>> => channel.controls > 0
        /\ (\E i \in 1 .. Len(channel.sent) : ~channel.sent[i].ordered) => heard

(* The observer gets the peer's messages in order and without gaps: those  *)
(* queued while there was no observer or the channel was not open come     *)
(* before the ones delivered directly.                                     *)
ReceiveOrder ==
    channel.delivered \o channel.recv =
        Numbers(Len(channel.delivered \o channel.recv))

(* SendDataMessage subtracts the size of each sent message from            *)
(* buffered_amount_: while the channel is not closed, the queued bytes     *)
(* never exceed it, so that sending them all leaves it at zero or above.   *)
BufferedAmountCoversQueue ==
    channel.state # "closed" => Len(channel.send) <= channel.buffered

(* RTC_DCHECK(buffered_amount_ >= buffer.size()) of SendDataMessage, in    *)
(* every state: the amount, unsigned in the code, does not fall below zero *)
(* and wrap around, although an abrupt close sets it to zero and           *)
(* SendQueuedDataMessages then puts the message that failed back into the  *)
(* queue.  It holds where at most one ready signal is ahead of the task    *)
(* that Init() posted (MaxAhead = 1).                                      *)
AmountDoesNotWrap == channel.buffered >= 0

(* A queue that blocked is not forgotten: while an open or closing channel *)
(* has messages queued, a ready signal is under way or the transport will  *)
(* send one.                                                               *)
BlockedQueueIsWoken ==
    channel.connected /\ (channel.send # <<>> \/ channel.control > 0)
        => \/ ~ready
           \/ \E i \in 1 .. Len(tasks) : tasks[i][1] \in {"ready", "init_ready"}

(* The channel keeps its contract with the application: see                *)
(* ChannelContract.  Among others, the state only advances, nothing is     *)
(* sent that was not accepted, the closing procedure begins only when      *)
(* every accepted message was sent ("Will send queued data before          *)
(* beginning the underlying closing procedure", Close), and a channel      *)
(* closes without an error only after the peer reset its stream as well.   *)
Contract == INSTANCE ChannelContract WITH
    state <- channel.state, accepted <- accepted, sent <- Len(channel.sent),
    reset <- channel.started, peerClosed <- peerReset, aborted <- channel.error

KeepsContract == Contract!Spec

(* A closing channel ends up closed ("after calling RemoveSctpDataStream,  *)
(* OnClosingProcedureComplete will end up called asynchronously            *)
(* afterwards"), except where the transport never sent its reset           *)
(* (StreamReset).                                                          *)
ClosingEnds ==
    (channel.state = "closing" /\ stream # "unsent")
        ~> (channel.state = "closed" \/ stream = "unsent")

=============================================================================

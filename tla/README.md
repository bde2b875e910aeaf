# WebRTC: TLA+ models, checks and proofs

This directory holds TLA+ specifications of the data channel system of this
repository, of the threads and queues it runs on, and of the retransmission of
RTP packets; the TLC configurations that check them on small instances; and
proofs that TLAPS checks for every instance. Paths below are relative to the
repository; `sctp_transport.cc` is `src/media/sctp/sctp_transport.cc`,
`thread.cc`, `async_invoker.cc` and `operations_chain.h` are in `src/rtc_base/`,
`nack_module.cc` is in `src/modules/video_coding/`, `rtp_packet_history.cc` in
`src/modules/rtp_rtcp/source/`, and the other files without a directory are in
`src/pc/`.

## 1. The system

The repository is the native WebRTC library: a `PeerConnection` negotiates a
session, ICE and DTLS transports carry it, RTP carries media and SCTP carries
data channels. This project models the data channels, whose state machines run
across two endpoints and two threads; the message queues under all of it
(`Thread`, `AsyncInvoker`, `OperationsChain`); and the two ends of NACK based
retransmission (`NackModule`, `RtpPacketHistory`), which live on sequence
numbers that wrap around. In all three the bugs are orders of events no unit
test contains.

### Components, their state and operations

| component | state | operations | what makes it correct |
|---|---|---|---|
| `SctpTransport`, closing procedure (`sctp_transport.{h,cc}`) | `stream_status_by_sid_`: per stream `closure_initiated`, `outgoing_reset_initiated`, `outgoing_reset_complete`, `incoming_reset_complete`; `sock_` | `OpenStream`, `ResetStream`, `SendQueuedStreamResets`, `OnStreamResetEvent`, `Connect` | every closing stream ends up closed at both ends; no reset is forgotten or sent for nothing; an id is free when it is used again |
| `SctpTransport`, sending | `partial_outgoing_message_`, `ready_to_send_data_` | `SendData`, `SendMessageInternal`, `SendBufferedMessage`, `OnSendThresholdCallback`, `SCTP_SENDER_DRY_EVENT` | parts of messages are never mixed; what was accepted is sent; who was refused is woken |
| `SctpTransport`, receiving | `partial_incoming_message_`, parameters of the current message | `OnSctpInboundPacket`, `OnInboundPacketFromSctpToTransport`, `OnDataFromSctpToTransport` | messages are put together from the parts of one message |
| `DataChannel` (`data_channel.{h,cc}`) | `state_`, `handshake_state_`, `connected_to_provider_`, `writable_`, `started_closing_procedure_`, `queued_send_data_`, `queued_received_data_`, `queued_control_data_`, `buffered_amount_`, `error_`, observer | `Send`, `Close`, `RegisterObserver`, `OnChannelReady`, `OnDataReceived`, `OnClosingProcedureStartedRemotely`, `OnClosingProcedureComplete`, `OnTransportChannelCreated`, `SetSctpSid`, `CloseAbruptlyWithError` | order of messages, OPEN before data, data sent before the stream closes, no lost wake-up, `kClosing` leads to `kClosed` |
| `DataChannelController` | `sctp_data_channels_`, `sctp_data_channels_to_free_`, `sid_allocator_`, `data_channel_transport_` | `SendData`, `AddSctpDataStream`, `RemoveSctpDataStream`, `HandleOpenMessage_s`, `AllocateSctpSids`, `OnSctpDataChannelClosed`, `OnTransportChannelClosed`, `OnTransportChanged` | ids are unique and released once; signals reach the channel they are for |
| `SctpDataChannelTransport` | `ready_to_send_`, sink | forwards calls down and signals up | - |
| `Thread` (`src/rtc_base`) | `messages_`, `delayed_messages_`, `stop_`, the socket server's event, `send_graph_` | `Get`, `Post`, `PostDelayed`, `Send`, `Quit` | no lost wake-up, no circle of blocked senders, everything queued is handled |
| `AsyncInvoker` (`src/rtc_base`) | `pending_invocations_`, `destroying_`, `invocation_complete_` | `AsyncInvoke`, `OnMessage`, destructor | nothing runs after the destructor, and the destructor ends |
| `OperationsChain` (`src/rtc_base`) | queue of operations | `ChainOperation`, completion callbacks | one operation at a time, in order, and the chain outlives them |
| PeerConnection signaling, `JsepTransportController` | signaling state, transceivers, transports | `SetLocalDescription`, `SetRemoteDescription`, rollback, bundling | offer/answer state, transports in use are alive |
| ICE, DTLS (`src/p2p`) | candidate pairs, nomination, handshake | checks, nomination, restart | a usable pair is selected and kept |
| `NackModule` (`src/modules/video_coding`) | `nack_list_`, `keyframe_list_`, `recovered_list_`, `newest_seq_num_` | `OnReceivedPacket`, `ClearUpTo`, `Process` | every loss is asked for or given up for a reason, nothing that arrived is asked for, lists are bounded over wrap-around |
| `RtpPacketHistory` (`src/modules/rtp_rtcp`) | `packet_history_`, `padding_priority_` | `PutRtpPacket`, `GetPacketAndMarkAsPending`, `MarkPacketAsSent`, `GetPayloadPaddingPacket`, `CullAcknowledgedPackets`, `SetRtt`, `Clear` | packets are found by number, pending packets are in the pacer once, no pointer dangles |
| packet and frame buffers, pacing (`src/modules`) | lists keyed by sequence numbers, budgets | insert, assemble, send | frames are complete and in order |
| congestion control, codecs, audio processing, SDK bindings | numeric state | - | not protocol logic |

### How they interact

The application and `PeerConnection` call a `DataChannel` on the **signaling
thread**. A channel calls its provider, `DataChannelController`, which invokes
`SctpTransport` on the **network thread** and waits for the answer
(`SDR_SUCCESS`, `SDR_BLOCK`, `SDR_ERROR`). In the other direction the network
thread posts tasks (`AsyncInvoke`) that fire the controller's signals on the
signaling thread: ready to send, data received, channel closing, channel
closed. So a channel acts on a transport that is current, and the transport's
events reach a channel that may have moved on. usrsctp runs inside the network
thread: it calls back when acknowledgements free the send buffer, and its
notifications (stream resets, sender dry) are posted to the network thread.
Two such stacks, one per endpoint, exchange OPEN / OPEN_ACK messages, data and
stream resets.

### What is hard

* Closing is a handshake of two stream resets, one per direction, and usrsctp
  allows one outstanding request per association: resets wait for each other,
  may be refused, and both endpoints may close the same or different streams
  at once.
* usrsctp takes messages in parts, and tells when it can take more only if
  something is there to be acknowledged.
* A channel may be closed before it has an id, before it has a transport,
  before the transport has a socket, while it is blocked, while the peer closes
  it, and while its transport is being replaced.
* Ids are used again as soon as one side thinks they are free.
* Queues are bounded, and overflow closes the channel in the middle of other
  operations.
* A thread reads its queue, its quit flag and its event in separate steps, and
  `Send` waits on the same event as the message loop.
* Functors post others while the invoker they use is being destroyed; operations
  complete inside the call that starts them.
* Sequence numbers wrap around while packets are reordered, recovered, given up
  and retransmitted from lists that are full.

`PROJECT.json` lists each of these at the line where it bites, with the
properties that cover it.

## 2. Modules

| module | models |
|---|---|
| `StreamReset` | the closing procedure of two endpoints and usrsctp between them |
| `StreamResetProofs` | theorems about `StreamReset` |
| `SctpSend` | the sending half of `SctpTransport` over usrsctp's send buffer |
| `SctpSendProofs` | theorems about `SctpSend` |
| `ChannelObject` | the members and methods of one `DataChannel`, as a record and operators on it (no variables) |
| `DataChannel` | one channel with its application, controller, posted tasks, transport and peer; uses `ChannelObject` |
| `ChannelContract` | abstract specification of what a channel promises; `DataChannel` implements it |
| `DataChannelProofs` | theorems about `ChannelObject` and `DataChannel`, and that it implements `ChannelContract` |
| `DataChannelController` | the channels and stream ids of both endpoints, over the transport of `StreamReset`, which it instantiates |
| `DataChannelControllerProofs` | theorems about `DataChannelController` |
| `Thread` | message queues, wake-ups, blocking `Send`, `Quit` |
| `ThreadProofs` | theorems about `Thread` |
| `AsyncInvoker` | closures posted to threads and the destructor that waits for them |
| `OperationsQueue` | abstract specification of what `OperationsChain` promises |
| `OperationsChain` | the chain with its nested calls and references; implements `OperationsQueue` |
| `RtcBaseProofs` | theorems about `OperationsChain` and `AsyncInvoker` |
| `NackModule` | the receiver's list of missing packets |
| `NackModuleProofs` | theorems about `NackModule` |
| `RtpPacketHistory` | the sender's store of sent packets, with the pacer's queue |
| `RtpPacketHistoryProofs` | theorems about `RtpPacketHistory` |

Operators named `...Keeps...`, `...Without...` and the like, marked *Variant*
in their comment, are altered forms of the definition that follows them. They
are not part of any specification: they show that a property can fail.

### StreamReset

The four flags of `StreamStatus` are sets of ids per endpoint; `known[p]` is
the set of keys of `stream_status_by_sid_`. `OpenChannel` is the opening side
(id of its own parity, OPEN message sent), `HandleOpenMessage` the receiving
side, which runs on the signaling thread some time after the message arrived,
so resets may overtake it. `ResetStream` is the application's close;
`ResetFailed`, `IncomingReset` and `OutgoingReset` are the three flags of
`OnStreamResetEvent`, each with the call of `SendQueuedStreamResets` at its
end. `SendQueuedStreamResets` is given the sets it would compute after the
flags changed; its `setsockopt` fails without a socket and while a request is
outstanding, and the failure is ignored, as in the code.
`SendQueuedStreamResets` also skips its call when nothing needs a reset.

usrsctp is external: `PerformReset`, `DenyReset` and `ReceiveResponse` carry
one request at a time and notify each outcome once. `SSN` numbers and request
retransmission are below this level. `AllocateSid` takes the lowest free id;
the model takes any free id of the parity, which includes it.

### SctpSend

A message has a size in units of the send buffer, at most the whole buffer.
`sendv` is what `usrsctp_sendv` may do: take everything that fits, otherwise
any part, or nothing (`EWOULDBLOCK`). `SendData` refuses while
`partial_outgoing_message_` is in use. `Acknowledge` frees any part of the
buffer and, above the threshold of half the buffer, runs
`OnSendThresholdCallback` with the buffered message first, in the same step.
The last acknowledgement posts `SENDER_DRY`. `pieces` records what usrsctp
took. The actions of `SendData` that only return an error are stutters.

### ChannelObject and DataChannel

`ChannelObject` translates the methods one by one. Methods that call
`provider_->SendData` are sets of results, one per answer of the transport at
each call. Messages have size 1 and are numbered in the order `Send` accepted
them, so order, loss and repetition are visible. Empty messages, which skip
the observer and the accounting, are left out. A channel sends control messages
of one kind only, so their queue is a number.

`DataChannel` runs the object: `AppSend`, `AppClose`, `AppObserve` by the
application; `OnTransportChannelCreated`, `SetSctpSid`,
`CloseAbruptlyWithDataChannelFailure`, `OnTransportChannelClosed` by
`PeerConnection` and the controller; `OnInitReady`, `TransportChanged` and the
`Signal...` actions are the posted tasks, first in, first out. The transport is
the status of the channel's own stream (`stream`), whether the association is
up, and `ready`. A channel created on a transport that is ready starts with the
task `Init()` posts and up to `MaxAhead` ready signals ahead of it, one for
each time another channel blocked and was woken before. Bundling
(`OnTransportChanged`) replaces the transport before the association is up, as
the negotiation does: the network thread switches at once, the channels learn
of it in a task. `Becomes` applies a result: a channel that starts its closing
procedure resets its stream, and `SDR_BLOCK` clears `ready_to_send_data_`. How
the two stream resets get done is the subject of `StreamReset`, and here one
step of the peer and one of the transport.

`ChannelContract` knows the state, how many messages were accepted and sent,
and three facts (closing procedure begun, peer reset its stream, closed with an
error). Its steps say: messages are accepted by an open channel only; a channel
that closes sends what it accepted before its closing procedure begins, unless
the peer closed it or it fails; after the closing procedure began nothing is
sent; it gets to `closed` without an error only after the peer reset as well;
the state never goes back.

### DataChannelController

Composes the channel layer of both endpoints with the transport of
`StreamReset`: its variables are shared, and `OnStreamResetEvent` here is the
handler there together with the signals it fires. A channel is a number; its two
ends have a state each. `AllocateSctpSids`, `CreateDataChannel` and
`HandleOpenMessage` give it an id, `OnSctpDataChannelClosed` releases it.
Tasks of the signaling thread carry an id, and find the channel that holds the
id when they run, as the connected signals do. Messages travel per stream, in
order, and a reset is performed after the messages sent before it on its
stream. The deferred free of a closed channel is not a step: nothing refers to
the channel any more. The transport is always ready to send, so a channel's
queues are empty; they are the subject of `DataChannel`.

### Thread

Each step is one critical section, one atomic access or one access to the
event of the socket server: `Get` under `crit_`, `CheckQuitting` after it,
`WaitEnds`; `BeginPost` reads the quit flag, `Push` queues, `WakeUp` sets the
event. `Send` posts a task and waits on its own thread's event (`SendTest`,
`SendWait`); the task's deletion sets `ready` and wakes it. Handlers make any
calls in any order. `SendLoop` is the check of debug builds against threads
that send to each other; it is a guard here, as it aborts the program. The
search that collects what the target reaches is given by what it computes: the
source is found exactly if it is in every set that contains the target and is
closed under the edges of `send_graph_`.

### AsyncInvoker

`Closures` are identified by where they are: a place in a queue, the hands of
the thread that is about to post one, or of the one that runs it.
`BeginDestroy`, `ClearNext`, `TestPending`, `ClearOwn` and `Wait` are the
destructor, step by step; `DoInvoke` and `Post` are separate because the flag
may be set between them. `Post` reads the quit flag of the target thread and
destroys the closure when it is set, and `Push` queues it, possibly after a
`Quit` in between. A thread that quits may take messages but need not. As the
header demands, invocations start on the owner's thread or in a functor.

### OperationsQueue and OperationsChain

Everything runs on one sequence, but calls nest, so the stack of calls that
have not returned is a variable. A functor may complete its own operation,
chain others or drop the user's reference before it returns; a completion runs
the next functor inside the callback. References are a set of holders: the
user, and each callback handle until it has called the chain.
`OperationsQueue` is the class comment: first in first out, one at a time,
started at once when the chain is empty or else when the previous one
completes.

### NackModule

The module sees numbers modulo `M`; the sender's real numbers are kept beside
them, and the properties compare the two. `OnReceivedPacket` has one action
for each way through it. `AddPacketsToNack` is a function of the lists:
`Helpful` key frames are those that make enough room, and the oldest of them
is where the loop of `RemovePacketsUntilKeyFrame` stops. Time is whether an
entry still waits (`Elapse`): for the optional delay before the first NACK,
then for the time to resend. `ClearUpTo` may name any packet that arrived, also
one beyond `newest_seq_num_` that was recovered. The network (`Window`)
reorders and loses within less than half a cycle, and `KeepsUp` assumes that
`recovered_list_`, which is pruned only by recoveries and continuous frames,
does not span more either.

### RtpPacketHistory

`packet_history_` is a sequence with a placeholder for every number without a
packet. The age of an entry stands for the time since it was sent, against the
round trip and the two culling limits; entries age independently, which
includes every real order. `padding_priority_` is a set of numbers, and
`Erase` goes by the comparator, as `std::set::erase` does. `ReSendPacket`
takes a packet through `GetPacketAndMarkAsPending` into the pacer's queue
(`queued`), `SendRetransmission` marks it as sent, and `DropRetransmission`
is the pacer giving it up without telling the history. The history's lock is
released between marking a packet and handing it to the pacer, so `queued` also
holds what is on its way there: until the pacer sends it, nothing in the history
can tell the two apart. `Near` is what the sender guarantees by counting
(`RTPSender::AssignSequenceNumber`): the packets in the history at a time and
the one it puts lie within half a cycle. `SetSequenceNumber`, which breaks the
count, clears the history.

## 3. Runs

All runs are plain TLC runs of a `.cfg` here. Deadlock is not checked: closed
channels and exhausted bounds are ends the real system has.

### Runs that pass

| run | instance | shows |
|---|---|---|
| `closing` | two streams open at both ends, one refusal | `NoForgottenReset`, `InitiatedResetIsOutstanding`, `CompleteStreamsAreGone`, `CompletionIsAgreed`, and under fairness `ClosingCompletes`: every closing procedure that starts on connected endpoints completes, in every overlap |
| `closing_reuse` | two ids of different parity, one of them open at first, not connected at first, each opened once more, one refusal | `InitiatedResetIsOutstanding` survives late connection, crossing OPEN messages and reuse of ids |
| `sending` | two streams, a buffer of three units, three messages of any size, one stream reset | `PiecesStayTogether`, `AcceptedIsSentOrBuffered`, `BlockedIsWoken`, and under fairness `SenderMakesProgress` |
| `channel` | send queue of two, receive queue of one, three sends, two receives, two blocks, one change of transport, at most one ready signal ahead of the task of `Init()` | `DataChannel` implements `ChannelContract` (`KeepsContract`); `ReceiveOrder`, `SendOrder`, `OpenBeforeData`, `AmountDoesNotWrap`, `BlockedQueueIsWoken` |
| `channel_closing` | queues of one, two sends, one receive, two blocks, no change of transport | under fairness `ClosingEnds`: a closing channel gets closed |
| `controller` | two channels of one endpoint and one id of its parity, so that the id is used twice; one of them created before the role is known, two messages, one overflow, one lost transport, openers that wait for the answer to OPEN before they close (`CloseAfterAck`) | `UsedSidsAreListed`, `SignalsReachTheirChannel`, and under fairness `BothEndsClose` |
| `thread` | three threads, one of them busy, three calls, one `Quit` | `NoLostWakeUp`, `NoSendDeadlock`, and under fairness `EverythingIsHandled` |
| `invoker` | three threads, four closures at a time, two nested invocations per functor, any thread told to quit at any time | `PendingIsExact`, `NoUseAfterDestruction`, and under fairness `DestructorEnds`, which excepts a closure left in the queue of another thread that quit |
| `operations` | five operations | `FrontIsTheRunningOne`, `AliveWhileUsed`, the chain implements `OperationsQueue` (`KeepsPromise`), and under fairness `AllExecuted` |
| `nack` | seven packets across the wrap-around of `M = 16`, two entries, two retries, packets older than four forgotten, one key frame, one recovered packet at a time | `ListsAreSmall`, `NackedAreMissing`, `AskedAtMost`, `NoSilentLoss`, and under fairness `MissingIsResolved` |
| `history` | the numbers 7, 0 and 2 across the wrap-around of `M = 8`, capacity three, padding set of two, three insertions, two retransmissions each, one reset | `EntriesAreInPlace`, `PaddingIsStored`, `PendingIsQueued`, and the action property `CullingKeepsPending` |

### A run that finds a violation

`sending_stuck` (`NotReadyMeansCongested`): `sctp_transport_internal.h` says of
`ReadyToSendData` "not blocked by congestion control". A message is partly
taken, its stream is reset, `SendBufferedMessage` gets `SDR_ERROR` for ever and
keeps the message: every later `SendData` of any stream is refused although
nothing is congested.

### Observations

Other sentences of the repository that the code does not keep, each met by TLC
on the module named, with the altered configuration described. They have no
run of their own.

* `StreamReset`, endpoints not connected at first: `ResetStream` before
  `Connect` marks the stream and `setsockopt` fails; only a reset event would
  try again, and none comes. (`ResetStream` "will eventually result in
  SignalClosingProcedureComplete", `sctp_transport_internal.h:95`.)
* `StreamReset` and `DataChannelController` with `CloseAfterAck = FALSE`: the
  opener closes at once, the reset reaches the peer's network thread before its
  signaling thread handled OPEN and is ignored as unknown, and the peer never
  resets its side.
* `StreamReset` with ids used again: the side that completes first opens the id
  again while the other still waits for its own response, and the OPEN message
  finds the id in use ("it's safe to use this ID for another data channel",
  `data_channel_controller.cc:352`).
* `DataChannel` with a change of transport: when it is replaced after the
  closing procedure started, the stream is opened on the new one and
  `started_closing_procedure_` keeps anybody from closing it
  (`data_channel.cc:552`).
* `DataChannel` with two changes of transport: the tasks that tell the channel
  of them may both be pending. The first one adds the stream, the association
  comes up, the peer closes the channel and its reset completes; the second
  adds the stream again (`data_channel_controller.cc:222`), so a channel
  without handshake can send after the peer has closed. `KeepsContract` is
  checked, and proved, for at most one change; the other theorems about
  `DataChannel` hold for any number.
* `DataChannel` with `MaxAhead = 2`: `AmountDoesNotWrap` fails
  (`RTC_DCHECK(buffered_amount_ >= buffer.size())`, `data_channel.cc:654`). Two
  ready signals are ahead of the task of `Init()`. The first opens the channel,
  `Send` blocks and queues a message, the second sends it and fails: the channel
  closes abruptly, which sets the amount to zero and empties the queue, and
  `SendQueuedDataMessages` puts the message back. The task of `Init()` then
  sends it on the closed channel. This takes a send that fails and one on the
  same stream that succeeds after it.
* `DataChannel`, the queue when `OnClosingProcedureComplete` runs
  (`RTC_DCHECK(queued_send_data_.Empty())`, `data_channel.cc:351`): a channel
  that is `kClosing` with data queued ignores that the peer closes too, and the
  completion finds the data still there. `ChannelContract` allows it.
* `DataChannelController`, the state of the channel that `SignalChannelClosed`
  finds (`RTC_DCHECK_EQ(state_, kClosing)`, `data_channel.cc:350`): `Send` fails
  on a stream that the peer's reset closes at the transport, the abrupt close
  releases the id, the next channel takes it, and the signal that the old
  stream's closing procedure is complete closes the new channel.
  `SignalsReachTheirChannel` excepts the ids that an abrupt close released
  (`aborted`).
* `NackModule`: `ClearUpTo` beyond `newest_seq_num_` takes recovered packets
  from `recovered_list_`; when a newer packet arrives they are asked for ("Do
  not send nack for packets that are already recovered by FEC or RTX",
  `nack_module.cc:282`). `NackedAreMissing` excepts them (`cleared`).
* `RtpPacketHistory`: the pacer's packet router finds no module for the packet,
  or the module does not send media any more, and the packet stays pending until
  the capacity removes it ("True if the packet is currently in the pacer queue
  pending transmission", `rtp_packet_history.h:162`). `PendingIsQueued` excepts
  such packets (`dropped`).
* `Thread`: `Get` reads the quit flag after it released the lock under which it
  found the queue empty (`thread.cc:485`). A message posted and a `Quit` in
  between leave the message in the queue when the loop has ended, and a `Send`
  among them blocked until the thread object is destroyed. (`thread.h`:
  pending sends and ready posts "will be delivered before Get (or Peek) returns
  false".)
* `AsyncInvoker`: a functor posts to a thread that is told to quit between the
  test in `Thread::Post` and the lock; when the destructor has cleared that
  queue already, it waits until the thread object is destroyed.
* `RtpPacketHistory`: `RemovePacket` trims the front of the deque only, so the
  last entry may be empty ("The first and last entry in the queue will however
  always be populated", `rtp_packet_history.h:205`). Removing a placeholder
  erases the first packet ever inserted from `padding_priority_`, as both
  compare equal.
* Seen while modelling: `Send` adds to `buffered_amount_` before it looks at the
  state (`data_channel.cc:269`); `OnChannelReady` sends data even if control
  messages blocked again (`data_channel.cc:470`).

### Why the bounds are enough

* Two streams give every overlap of a reset with another one on the same
  association: one request outstanding, one stream waiting. More streams only
  make the sets larger; the theorems below cover them.
* One refusal reaches the retry that clears all `outgoing_reset_initiated`.
* A buffer of three units has room for no, a part of and all of a message, and
  three messages are one that is partial, one that is refused and one after.
* A send queue of two is the smallest that can be flushed halfway; a queue of
  one overflows with the second message. Two blocks allow a flush that blocks
  twice, or one block of this and one of another channel.
* One id for two channels is what makes signals of the first meet the second;
  the closing procedure of one stream next to others is in `closing`.
* Three threads are the smallest circle of senders that no pair shows, and
  three calls close it; one `Quit` races each of them.
* Three threads give the owner, one that runs a functor and one it posts to;
  a functor that makes two invocations posts before and after the queues are
  cleared.
* Five operations nest three deep and leave two queued; the theorems cover any
  number.
* In `nack` two entries overflow with the third loss, two retries distinguish
  the first, the last and none, and seven packets lie on both sides of the
  wrap-around. The second packet, if it is missing, gets too old when the
  seventh arrives. In seven numbers out of 16 no two are half a cycle apart, so
  the parts of `ListsAreSmall` about the order of the lists cannot fail here
  (numbers that span half a cycle take TLC too long); the theorem
  `ListsStaySmall` shows them.
* In `history` three entries reach the capacity, two the normal size and the
  padding limit; the numbers 7, 0 and 2 are on both sides of the wrap-around
  with a gap between, and are put before, behind and between others. Two
  retransmissions of a packet make `VerifyRtt` refuse the second one until the
  round trip has passed.

### Fairness

Weak fairness of the posted tasks (both threads run their queues), of `Connect`
and the negotiation (DTLS becomes writable, sids get assigned), of the steps
of usrsctp that retransmit until answered, and of acknowledgements. Threads are
scheduled, handlers and functors return, delayed messages become due, and
operations complete as their contract demands. In `AsyncInvoker` a thread that
was told to quit need not serve its queue. In `NackModule` the process
thread runs and time passes; packets may all be lost. Nothing makes an
application or a peer open, send, observe or close, a transport get lost, a
thread quit, an invoker be destroyed, and nothing makes a refusal happen.

## 4. Proofs

`StreamResetProofs` extends `StreamReset`. From `SidsAssumption` (ids are
natural numbers, the pre-opened ones among them), `ConnectedAssumption` and
`BoundsAssumption`, for any set of ids and any bounds:

* `TypeCorrect`: `Spec => []TypeOK`. `TypeOK` has two parts that are not
  types: all flags belong to streams of the map, and only an outstanding request
  is performed. They make it inductive, and the later proofs use them.
* `ResetsAreNotForgotten`: `Spec => []NoForgottenReset`. The invariant is
  `ServedInv`: both endpoints have a socket, and one that has a stream in need
  has a request outstanding or a notification coming. The key lemma
  (`SendQueuedServes`): after `SendQueuedStreamResets`, called with every
  stream in need, none is in need or a request is outstanding. So the last
  notification of an endpoint leaves it served, and a request ends only by
  posting a notification (`NotifyServes`).
* `InitiatedResetsAreNotLost`: `Spec => []InitiatedResetIsOutstanding`. Per
  endpoint, `Outstanding` says it for all streams. A request that ends becomes
  a notification naming its streams (`NotifyKeeps`), and the handler that takes
  a notification either marks these streams complete, drops them, or clears
  the marks of all (`TakeKeeps`).
* `CompleteStreamsLeave`: `Spec => []CompleteStreamsAreGone`. Each handler
  subtracts the streams that became complete from both directions, and the
  property is inductive over `TypeOK`.

* `EndpointsAgree`: `Spec => []CompletionIsAgreed`. For a pre-opened stream
  that was not opened again, `Agreed` says of both endpoints: a request for the
  stream was sent by an endpoint that is done with it or closing it (`Over`),
  and so it was whenever the other endpoint has the notification of it, has
  marked its incoming direction complete, or has dropped the stream. No step
  takes an endpoint back from `Over` (`OverStays`), so each of the four facts
  follows from the one before it on the way of a reset from the request to the
  removal of the stream.

`SctpSendProofs` extends `SctpSend`; for every set of streams, every size of
the buffer (`BufferAssumption`) and any number of messages and resets:

* `PiecesAreNotMixed` and `AcceptedIsNotLost`: `Spec => []PiecesStayTogether`
  and `Spec => []AcceptedIsSentOrBuffered`. They are inductive together with
  types (`SendInv`): that the next piece belongs to the unfinished message
  needs to know that this message is the buffered one, and the other way round.
  `PieceHanded` is the step they share, for new and for buffered messages.
* `SendersAreWoken`: `Spec => []BlockedIsWoken`. The property is not inductive:
  a buffered message with nothing but a dry notification to wait for would be
  forgotten when the notification has come. `WakeInv` says that a buffered
  message always has data outstanding, unless it is stuck; since a message fits
  into an empty buffer, the acknowledgement that empties it sends the rest.

`DataChannelProofs` extends `DataChannel`; for all sizes of the two queues and
any number of sends, receives, blocks and changes of transport
(`QueueBoundsAssumption`, `ChannelBoundsAssumption`):

* `MessagesArriveInOrder` (`ReceiveOrder`), `MessagesAreSentInOrder`
  (`SendOrder`), `OpenComesFirst` (`OpenBeforeData`), `AmountCoversQueue`
  (`BufferedAmountCoversQueue`) and `QueuesAreWoken` (`BlockedQueueIsWoken`).
  The inductive invariant `DataChannelInv` has two layers. `ChannelInv` is
  about the object, and every method of `ChannelObject` is shown to keep it,
  the flush that stops halfway included: nothing is queued for an observer of
  an open channel (so a message delivered directly overtakes none); the send
  queue goes on where the sent messages end; the opener's handshake is past
  `kHandshakeShouldSendOpen` only when OPEN is out, and done only when the peer
  was heard. The second layer is about the tasks of the signaling thread: the
  data messages among them are exactly those after the received ones, in order
  (`Coming`), the closing signal comes only after the peer's reset, and a
  connected channel that waits has a transport that is not ready or a ready
  task pending.
* `ChannelKeepsContract`: if `MaxAhead <= 1` then `Spec /\ [](changes <= 1) =>
  KeepsContract`, the refinement of `ChannelContract` in every behaviour with
  at most one change of transport and at most one ready signal ahead of the
  task of `Init()`. Each method of `ChannelObject` moves the channel by one
  step of the contract or leaves what the contract sees alone (`Moves`,
  `Accepts`, one lemma per method), under the invariant `ContractInv`: the
  closing procedure begins only on a closing channel with nothing queued, and
  before that every message accepted is sent or queued (`PromisePart`); before
  the association is up nothing was sent and the peer has reset nothing
  (`DownPart`); while the channel has not been told of a change, the peer can
  have reset only the stream of a channel that closes here (`ChangePart`); a
  stream the peer has reset is not used again (`StreamPart`); and the tasks
  come in the order that this needs (`Starting`, `ClosedLast`). The hypothesis
  on changes is used in one step, the one that changes the transport: after a
  second change two tasks may be pending, and the later one may add a stream
  that the peer has reset (section 3). The one on `MaxAhead` is used for the
  initial states: with two ready signals ahead a closed channel may send (section 3,
  observations).
* `AmountNeverWraps`: under the same hypotheses, `[]AmountDoesNotWrap`. Each
  method leaves the queue and the amount as they are, clears both
  (`AmountKept`), or sends what the amount covers (`Covered`). A closed channel
  need not be covered, because of the message that was put back; only the task
  of `Init()` makes it send, and `Starting` says that nothing is queued then.

The other theorems hold for any `MaxAhead`.

`DataChannelControllerProofs` extends `DataChannelController`. From
`NumbersAssumption` (each channel has one endpoint that opens it, and there are
finitely many) and `LimitsAssumption`, for any channels, any range of ids and
any bounds:

* `SidsAreListed`: `Spec => []UsedSidsAreListed`. `ChannelsInv` has three
  parts. `UsedInv` is the property without cardinalities: a listed channel's id
  is in use, no two listed channels share one, and an id in use has its channel
  while no transport is lost. `IdInv`: the other end of a channel exists only
  once the channel has an id, and the id has the parity of the opener; so the
  ids that the two ends give out cannot collide. `TypeInv`: tasks and messages
  carry the id of the channel they name, so that `OnDataChannelOpenMessage`
  reserves the id the channel really has. `Allocated` is what `AllocateSid`
  returns, different free ids of the right parity, from the fact that the rank
  of an element in a finite set grows with it (`RankGrows`); `Ordered` and
  `SignalsOrder` say what a loop posts.
* `SignalsFindTheirChannel`: `Spec => []SignalsReachTheirChannel`, for the ids
  no abrupt close released. `SignalsInv` follows an id through both ends:
  - `Streams`: the flags of `StreamStatus`, the outstanding request and the
    notifications agree, and each completed reset is notified once;
  - `Local`: a stream that leaves the map leaves CLOSED to its channel, which
    keeps the id until then; and a channel that does not know yet that it
    closes has CLOSING in its queue, before CLOSED;
  - `Cross`, while the transport is not lost: the peer of the endpoint that
    owns the id uses the stream only between OPEN and its own reset, which is
    asked for, on its way or handled, in one of these places at most. The owner
    gives the id out again only after it, so no OPEN is on its way before that,
    and no data of the old channel after it;
  - `Order`: in the queue of the peer, data of any channel but the one that has
    the id comes after CLOSING, and what follows OPEN is of its channel; at the
    owner all data is of the channel that has the id.

  Each part alone is not inductive: `Local` needs `Streams` to know that a
  stream completes only after CLOSING was posted, `Order` needs `Cross` when an
  id is opened again (`Fresh`, `OpenSent`), and `Cross` needs `Local` when
  CLOSED releases the id. There is one lemma per action (`...Signals`);
  `PlainStep` deals with the streams an action does not touch, and
  `EventHandled` with the two sets of streams that `OnStreamResetEvent` changes
  at once.

`ThreadProofs` extends `Thread`; for every set of threads and any number of
calls:

* `NoWakeUpIsLost`: `Spec => []NoLostWakeUp`. `WakeInv` extends the property to
  the step between finding the queue empty and going to sleep: work that comes
  in this gap leaves the event set, or a thread about to set it.
* `SendersNeverDeadlock`: `Spec => []NoSendDeadlock`. `GraphInv`: every `Send`
  that has not ended has its edge in `send_graph_`, and no nonempty set of
  threads has an edge from each member into the set (`Circle`).
  `NewEdgeClosesNoCircle`: what the check collects from the target cuts every
  circle the new edge could close.

`RtpPacketHistoryProofs` extends `RtpPacketHistory`; for every even modulus,
every set of sequence numbers below it, all limits and any number of
operations:

* `PacketsAreInPlace` (`EntriesAreInPlace`), `PointersDoNotDangle`
  (`PaddingIsStored`), `PendingIsInThePacer` (`PendingIsQueued`) and the action
  property `CullingSparesPending` (`CullingKeepsPending`). The inductive
  invariant `HistoryInv` adds to them that no stored packet is half a cycle or
  more behind the front, without which `GetPacketIndex` would look for it in
  front of the deque (`FoundInPlace`, `FoundIsIt`: a packet is found where it
  is, and nothing else is found); that a packet that is not pending is not in
  the pacer's queue; and that a history that does not store is empty.
  `Removed`, `Culled` and `StoreKeeps` say what each operation does to the set
  of stored packets; `NewIsNear` is where the assumption `Near` is used, also
  for a packet put before the front, which moves every other one away from it.

`NackModuleProofs` extends `NackModule`; for every even modulus, every stretch
of numbers of the sender however often it wraps around, all limits and any
number of key frames:

* `ListsStaySmall` (`ListsAreSmall`), `ArrivedAreNotNacked`
  (`NackedAreMissing`), `RetriesAreLimited` (`AskedAtMost`) and
  `LossesAreAccountedFor` (`NoSilentLoss`). The module knows remainders only;
  `NackInv` says which of the sender's numbers they stand for: an entry of
  `nack_list_` is a number at most `kMaxPacketAge` behind the newest one, an
  entry of `keyframe_list_` a key frame that arrived between there and
  `MaxJump` ahead, an entry of `recovered_list_` a packet that arrived and is
  less than half a cycle behind what may come next. On such numbers comparing
  remainders is comparing numbers (`Compare`), a remainder has one number
  (`SentIs`, `SameNumber`), and each `erase(begin(), lower_bound())` drops
  exactly the smaller ones (`FromIs`). `NackInv` also says that `retries` is
  how often the packet was asked for, that nothing ahead of the newest packet
  was asked for yet (so no packet gets a second life in the list), and that
  what arrived ahead of it is in `recovered_list_` or was cleared. `AddIs` is
  what `AddPacketsToNack` leaves in its three cases, `BatchStep` what
  `GetNackBatch` does.
* Assumptions on the constants: `LimitAssumption` has
  `kMaxNackPackets <= kMaxPacketAge` (1000 and 10000 in the code), without
  which the packets added at once could be too old already; the window of
  `WindowAssumption`; and `JumpAssumption`, that no packet is further ahead of
  the newest one than packets are kept: else recovering it would take the
  recovered packets behind it, which are still to be skipped, from
  `recovered_list_`. `KeepsUp` is the assumption on the environment that
  section 2 describes.

`RtcBaseProofs` extends `OperationsChain`. From `OperationsAssumption`
(the bound is a natural number):

* `InOrder`: `Spec => []FrontIsTheRunningOne`. The property is inductive
  together with `Types`, which adds that the queue is no longer than the number
  of operations chained (`OrderInv`). The key lemma (`RunningIsFront`): the
  only operation whose callback can be invoked is at the front, so `pop` takes
  the one that completed.
* `ChainKeepsPromise`: `Spec => KeepsPromise`, the refinement of
  `OperationsQueue`. Under `OrderInv`, `ChainOperation` is a `Chain` step
  (the queue is empty exactly when nothing runs), `OnOperationComplete` a
  `Complete` step, and the others stutter.
* `OutlivesItsWork`: `Spec => []AliveWhileUsed`. `HolderInv` adds that every
  operation that has not completed has its reference, and that each callback
  frame on the stack still holds the reference of its own operation, with no
  two frames for the same one (`Held`); so a return gives up a reference that
  no other frame relies on.

`RtcBaseProofs` extends `AsyncInvoker` as well; for every set of threads that
has the owner, and any nesting:

* `ClosuresAreCounted`: `InvokerSpec => []PendingIsExact`. The invariant adds
  that the closures are finitely many; each step adds one, removes one or moves
  one from a place to another (`Moved`), or removes a whole queue
  (`QueueSize`).
* `NothingOutlivesTheInvoker`: `InvokerSpec => []NoUseAfterDestruction`. The
  destructor ends only with a count of zero (`DoneInv`), and a count that is
  exact leaves no closure to start another one.

Every invariant, action property and refinement that a passing run checks is
stated by a theorem; `BufferedAmountCoversQueue`, the part of the accounting
that holds for any `MaxAhead` and any number of changes, is proved only.
Model-checked only: everything under fairness (`ClosingCompletes`,
`SenderMakesProgress`, `ClosingEnds`, `BothEndsClose`, `EverythingIsHandled`,
`DestructorEnds`, `AllExecuted`, `MissingIsResolved`), since liveness is outside
what the prover handles.

## 5. What is left out

* The data: payloads, PPIDs, byte encodings of OPEN and OPEN_ACK, sizes beyond
  the accounting, reliability parameters, labels and protocols.
* Calls of the application from inside an observer callback (`OnMessage`,
  `OnStateChange`, `OnBufferedAmountChange`): the methods of a channel are one
  step each. Making `DeliverQueuedReceivedData` and `SendQueuedDataMessages`
  loops that an observer can re-enter is part of the plan.
* In `SctpSend`, failures of `usrsctp_sendv` other than `EWOULDBLOCK` while a
  buffered message is tried again, and empty messages.
* In `StreamReset`, loss of the association, and an endpoint that is destroyed.
* The receiving half of `SctpTransport`; channels with ids chosen by the
  application (`negotiated`).
* In `Thread`: `Peek`, starting, joining and deleting threads, socket servers
  other than the null one. In `AsyncInvoker`: `Flush`, `GuardedAsyncInvoker`,
  and the destruction of a thread, which destroys the closures in its queue.
* In `NackModule`: `Clear`, which nothing calls, and the reordering histogram,
  which this code never fills. In `RtpPacketHistory`: the operations only tests
  call (`GetPacketAndSetSendTime`, `SetPendingTransmission`, packets stored
  without a send time).
* The DTLS role: endpoint 1 is the client.
* RTP data channels, codecs, ICE, DTLS, signaling and the rest of the table in
  section 1; `PROJECT.json` gives the reason for each. The repository has many
  more subsystems than this project can hold; the ones modelled were chosen
  for their concurrency and protocol state.

## 6. Plan

Done: `StreamReset`, `OperationsChain`, `SctpSend`, `ChannelObject`,
`DataChannel`, `DataChannelController`, `Thread`, `AsyncInvoker`, `NackModule`
and `RtpPacketHistory` with proofs; `ChannelContract` and its refinement.

Modules that would follow: re-entrant observer callbacks in `DataChannel`;
`SctpReceive`, reassembly of inbound messages and notifications on usrsctp's
thread; the signaling state of `PeerConnection`; connection selection in
`P2PTransportChannel`; the window of `PseudoTcp`.

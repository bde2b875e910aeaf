------------------------ MODULE DataChannelController ------------------------
(***************************************************************************)
(* webrtc::DataChannelController (pc/data_channel_controller.cc) and       *)
(* SctpSidAllocator (pc/data_channel.cc) at the two ends of one SCTP       *)
(* association: the channels of each end, the stream ids they hold, and    *)
(* the signals that travel from the network thread to the signaling        *)
(* thread, where they find a channel by its id.                            *)
(*                                                                         *)
(* The transport below is module StreamReset: its state is shared, its     *)
(* actions are conjoined with the signals they fire.  A channel is its     *)
(* number: state[p][n] is the state of the end of channel n at endpoint p. *)
(* The send and receive queues of a channel are in module DataChannel;     *)
(* here the transport is always ready to send.                             *)
(***************************************************************************)
EXTENDS Integers, Sequences, FiniteSets

CONSTANTS
    MaxSid,         \* kMaxSctpSid
    OpenedBy1, OpenedBy2,  \* numbers of the channels each endpoint opens
    Early,          \* channels created before the SSL role was known
    MaxData,        \* bound: data messages sent
    MaxOverflows,   \* bound: receive queues that overflow
    MaxLosses,      \* bound: endpoints that lose the DTLS transport
    CloseAfterAck   \* do openers close only once the peer answered?

Peers == {1, 2}
Channels == <<OpenedBy1, OpenedBy2>>
Numbers == OpenedBy1 \cup OpenedBy2
Sids == 0 .. MaxSid

ASSUME NumbersAssumption ==
    /\ Numbers \subseteq Nat \ {0} /\ IsFiniteSet(Numbers)
    /\ OpenedBy1 \cap OpenedBy2 = {}
    /\ Early \subseteq Numbers
ASSUME LimitsAssumption ==
    /\ MaxSid \in Nat /\ MaxData \in Nat /\ MaxOverflows \in Nat
    /\ MaxLosses \in Nat /\ CloseAfterAck \in BOOLEAN

VARIABLES
    known, closure_initiated, outgoing_reset_initiated,
    outgoing_reset_complete, incoming_reset_complete,
    request, performed, events,   \* the transport: see StreamReset
    state,      \* DataChannel::state_ of each end, or "none"
    sid,        \* config_.id of each channel, -1 while it has none
    started,    \* channels with started_closing_procedure_
    acked,      \* channels of the endpoint with kHandshakeReady
    used,       \* SctpSidAllocator::used_sids_
    negotiated, \* endpoints that know their SSL role
    tasks,      \* tasks posted to the signaling thread
    wire,       \* messages on their way to the endpoint, per stream
    sent,       \* number of data messages sent
    overflows,  \* number of receive queues that overflowed
    lost,       \* endpoints whose DTLS transport closed
    aborted     \* ids that an abrupt close released

streamVars == <<known, closure_initiated, outgoing_reset_initiated,
                outgoing_reset_complete, incoming_reset_complete,
                request, performed, events>>
channelVars == <<state, sid, started, acked, used, negotiated, aborted>>
boundVars == <<sent, overflows, lost>>
vars == <<streamVars, channelVars, tasks, wire, boundVars>>

S == INSTANCE StreamReset WITH
         Preopened <- {}, StartConnected <- TRUE, MaxOpens <- 0,
         MaxDenials <- 0, connected <- [p \in Peers |-> TRUE],
         opening <- <<>>, opens <- <<>>, denials <- 0

Other(p) == 3 - p

(* sctp_data_channels_: OnSctpDataChannelClosed and                        *)
(* OnTransportChannelClosed take a channel off the list in the same step   *)
(* in which it becomes closed.                                             *)
sctp_data_channels(p) ==
    {n \in Numbers : state[p][n] \in {"connecting", "open", "closing"}}

(* The channels a signal for stream s reaches: the connected ones.         *)
WithSid(p, s) == {n \in sctp_data_channels(p) : sid[n] = s}

Task(kind, s, n) == [kind |-> kind, sid |-> s, n |-> n]

Init ==
    /\ known = [p \in Peers |-> {}]
    /\ closure_initiated = [p \in Peers |-> {}]
    /\ outgoing_reset_initiated = [p \in Peers |-> {}]
    /\ outgoing_reset_complete = [p \in Peers |-> {}]
    /\ incoming_reset_complete = [p \in Peers |-> {}]
    /\ request = [p \in Peers |-> {}]
    /\ performed = [p \in Peers |-> FALSE]
    /\ events = [p \in Peers |-> <<>>]
    /\ state = [p \in Peers |-> [n \in Numbers |->
           IF n \in Early \cap Channels[p] THEN "connecting" ELSE "none"]]
    /\ sid = [n \in Numbers |-> -1]
    /\ started = [p \in Peers |-> {}]
    /\ acked = [p \in Peers |-> {}]
    /\ used = [p \in Peers |-> {}]
    /\ negotiated = {}
    /\ tasks = [p \in Peers |-> <<>>]
    /\ wire = [p \in Peers |-> [s \in Sids |-> <<>>]]
    /\ sent = 0 /\ overflows = 0 /\ lost = {}
    /\ aborted = {}

-----------------------------------------------------------------------------
(* SctpSidAllocator.                                                       *)

(* The ids AllocateSid goes through: even for the SSL client (endpoint 1), *)
(* odd for the server.                                                     *)
Available(p) == {s \in Sids \ used[p] : s % 2 = p - 1}

(* How many members of X are smaller than x.                              *)
Rank(X, x) == Cardinality({y \in X : y < x})

(* Ids for the channels in want, in order of creation and of ids; the ones *)
(* that find no id are missing from the domain.                            *)
AllocateSid(p, want) ==
    LET Its(n) == {s \in Available(p) : Rank(Available(p), s) = Rank(want, n)}
    IN [n \in {c \in want : Its(c) # {}} |-> CHOOSE s \in Its(n) : TRUE]

-----------------------------------------------------------------------------
(* Tasks and messages.                                                     *)

Post(p, task) == tasks' = [tasks EXCEPT ![p] = Append(@, task)]

(* The tasks a loop posts that goes through the streams in order; the      *)
(* closing procedure of a stream starts before it completes.               *)
Before(x, y) ==
    \/ x.sid < y.sid
    \/ x.sid = y.sid /\ x.kind = "CLOSING" /\ y.kind = "CLOSED"

InOrder(new) ==
    {q \in [1 .. Cardinality(new) -> new] :
        /\ \A x \in new : \E i \in DOMAIN q : q[i] = x
        /\ \A i, j \in DOMAIN q : i < j => Before(q[i], q[j])}

PostAll(p, new) ==
    \E q \in InOrder(new) : tasks' = [tasks EXCEPT ![p] = @ \o q]

(* DataChannel::SendControlMessage and SendDataMessage hand a message to   *)
(* SCTP; a message of a lost transport goes nowhere.                       *)
SendTo(p, s, kind, n) ==
    wire' = IF lost = {}
            THEN [wire EXCEPT ![Other(p)][s] = Append(@, <<kind, n>>)]
            ELSE wire

(* The network thread reports every message to the signaling thread,       *)
(* whether the stream is known or not, after what was notified before.     *)
OnDataReceived(p, s) ==
    /\ events[p] = <<>> /\ wire[p][s] # <<>>
    /\ Post(p, Task(Head(wire[p][s])[1], s, Head(wire[p][s])[2]))
    /\ wire' = [wire EXCEPT ![p][s] = Tail(@)]
    /\ UNCHANGED <<streamVars, channelVars, boundVars>>

-----------------------------------------------------------------------------
(* Creating channels.                                                      *)

(* Variant: the stream is not opened at the transport.                     *)
OpenedWithoutStream(p, ids) == UNCHANGED streamVars

(* DataChannel::Init of channels with an id: AddSctpDataStream opens the   *)
(* stream, unless the transport still knows it, and OnChannelReady is      *)
(* posted.                                                                 *)
Opened(p, ids) ==
    /\ known' = [known EXCEPT ![p] = @ \cup {ids[n] : n \in DOMAIN ids}]
    /\ UNCHANGED <<closure_initiated, outgoing_reset_initiated,
                   outgoing_reset_complete, incoming_reset_complete,
                   request, performed, events>>

Ready(ids) == {Task("READY", ids[n], n) : n \in DOMAIN ids}

(* SetSctpSid.                                                             *)
Identified(ids) ==
    sid' = [n \in Numbers |-> IF n \in DOMAIN ids THEN ids[n] ELSE sid[n]]

(* AllocateSctpSids, once the SSL role is known: channels that get no id   *)
(* close abruptly.                                                         *)
AllocateSctpSids(p) ==
    /\ p \notin negotiated
    /\ LET want == {n \in sctp_data_channels(p) : sid[n] = -1}
           ids == AllocateSid(p, want)
       IN /\ Identified(ids)
          /\ used' = [used EXCEPT ![p] = @ \cup {ids[n] : n \in DOMAIN ids}]
          /\ state' = [state EXCEPT ![p] = [n \in Numbers |->
                 IF n \in want \ DOMAIN ids THEN "closed" ELSE @[n]]]
          /\ Opened(p, ids)
          /\ PostAll(p, Ready(ids))
    /\ negotiated' = negotiated \cup {p}
    /\ UNCHANGED <<started, acked, aborted, wire, boundVars>>

(* The application's CreateDataChannel.                                    *)
CreateDataChannel(p, n) ==
    /\ p \in negotiated
    /\ n \in Channels[p] /\ state[p][n] = "none"
    /\ \A c \in Channels[p] : c < n => state[p][c] # "none"
    /\ LET ids == AllocateSid(p, {n}) IN
          /\ n \in DOMAIN ids
          /\ Identified(ids)
          /\ used' = [used EXCEPT ![p] = @ \cup {ids[n]}]
          /\ state' = [state EXCEPT ![p][n] = "connecting"]
          /\ Opened(p, ids)
          /\ PostAll(p, Ready(ids))
    /\ UNCHANGED <<started, acked, negotiated, aborted, wire, boundVars>>

Head1(p, kind) == tasks[p] # <<>> /\ Head(tasks[p]).kind = kind

(* HandleOpenMessage_s and OnDataChannelOpenMessage: the id is reserved    *)
(* and the acker's end is created, or the message is dropped.              *)
HandleOpenMessage(p) ==
    /\ Head1(p, "OPEN")
    /\ LET s == Head(tasks[p]).sid
           n == Head(tasks[p]).n
           ids == [c \in {n} |-> s]
       IN IF s \in used[p]
          THEN /\ tasks' = [tasks EXCEPT ![p] = Tail(@)]
               /\ UNCHANGED <<streamVars, channelVars, wire, boundVars>>
          ELSE /\ used' = [used EXCEPT ![p] = @ \cup {s}]
               /\ state' = [state EXCEPT ![p][n] = "connecting"]
               /\ Opened(p, ids)
               /\ tasks' = [tasks EXCEPT
                      ![p] = Append(Tail(@), Task("READY", s, n))]
               /\ UNCHANGED <<sid, started, acked, negotiated, aborted, wire,
                              boundVars>>

-----------------------------------------------------------------------------
(* Closing channels.                                                       *)

(* RemoveSctpDataStream: ResetStream refuses a stream that is not open.    *)
RemoveSctpDataStream(p, s) ==
    \/ S!ResetStream(p, s)
    \/ /\ ~(s \in known[p] /\ S!is_open(p, s))
       /\ UNCHANGED streamVars

(* UpdateState of a channel that is closing; its queues are empty.         *)
BeginClosing(p, n) ==
    IF sid[n] >= 0 /\ n \notin started[p]
    THEN /\ started' = [started EXCEPT ![p] = @ \cup {n}]
         /\ RemoveSctpDataStream(p, sid[n])
    ELSE UNCHANGED <<started, streamVars>>

(* Close.  An application that follows CloseAfterAck waits for the answer  *)
(* of the peer before it closes a channel it opened.                       *)
AppClose(p, n) ==
    /\ state[p][n] \in {"connecting", "open"}
    /\ CloseAfterAck => n \in acked[p]
    /\ state' = [state EXCEPT ![p][n] = "closing"]
    /\ BeginClosing(p, n)
    /\ UNCHANGED <<sid, acked, used, negotiated, aborted, tasks, wire,
                   boundVars>>

(* Variant: the id of a closed channel stays in use.                       *)
OnSctpDataChannelClosedLeaks(p, n) ==
    /\ state' = [state EXCEPT ![p][n] = "closed"]
    /\ UNCHANGED used

(* SetState(kClosed) fires SignalClosed: OnSctpDataChannelClosed releases  *)
(* the id.  (The object is freed by a task of its own, after which nothing *)
(* refers to it.)                                                          *)
OnSctpDataChannelClosed(p, n) ==
    /\ state' = [state EXCEPT ![p][n] = "closed"]
    /\ used' = [used EXCEPT ![p] = @ \ {sid[n]}]

(* CloseAbruptlyWithError: the channel disconnects and closes at once; the *)
(* stream is not reset.                                                    *)
CloseAbruptlyWithError(p, n) ==
    /\ OnSctpDataChannelClosed(p, n)
    /\ aborted' = aborted \cup ({sid[n]} \cap Sids)
    /\ UNCHANGED <<streamVars, sid, started, acked, negotiated>>

(* Send of an open channel.  The transport refuses data on a stream that   *)
(* is unknown or closing, and the channel closes abruptly.                 *)
AppSend(p, n) ==
    /\ state[p][n] = "open" /\ sent < MaxData
    /\ sent' = sent + 1
    /\ IF sid[n] \in known[p] /\ S!is_open(p, sid[n])
       THEN /\ SendTo(p, sid[n], "DATA", n)
            /\ UNCHANGED <<streamVars, channelVars>>
       ELSE /\ CloseAbruptlyWithError(p, n)
            /\ UNCHANGED wire
    /\ UNCHANGED <<tasks, overflows, lost>>

-----------------------------------------------------------------------------
(* Tasks of the signaling thread.                                          *)

(* OnChannelReady: the opener sends OPEN and the acker OPEN_ACK, and the   *)
(* channel is open; a channel that is closing begins its closing procedure *)
(* if it has not.                                                          *)
OnChannelReady(p) ==
    /\ Head1(p, "READY")
    /\ tasks' = [tasks EXCEPT ![p] = Tail(@)]
    /\ LET n == Head(tasks[p]).n IN
          \/ /\ state[p][n] = "connecting"
             /\ state' = [state EXCEPT ![p][n] = "open"]
             /\ acked' = IF n \in Channels[p] THEN acked
                         ELSE [acked EXCEPT ![p] = @ \cup {n}]
             /\ SendTo(p, sid[n], IF n \in Channels[p] THEN "OPEN" ELSE "ACK",
                       n)
             /\ UNCHANGED <<streamVars, started>>
          \/ /\ state[p][n] = "closing"
             /\ BeginClosing(p, n)
             /\ UNCHANGED <<state, acked, wire>>
          \/ /\ state[p][n] = "closed"
             /\ UNCHANGED <<streamVars, state, started, acked, wire>>
    /\ UNCHANGED <<sid, used, negotiated, aborted, boundVars>>

(* SignalDataChannelTransportReceivedData_s: OnDataReceived of the channel *)
(* with the id.  The first answer ends the handshake.  Data is delivered,  *)
(* or queued while the channel is not open or has no observer, and a queue *)
(* that is full closes the channel.                                        *)
ReceiveData(p) ==
    /\ Head1(p, "DATA") \/ Head1(p, "ACK")
    /\ tasks' = [tasks EXCEPT ![p] = Tail(@)]
    /\ LET to == WithSid(p, Head(tasks[p]).sid) IN
          \/ /\ acked' = [acked EXCEPT ![p] =
                    @ \cup {n \in to : state[p][n] = "open"}]
             /\ UNCHANGED <<streamVars, state, sid, started, used, negotiated,
                            aborted, overflows>>
          \/ /\ Head1(p, "DATA") /\ overflows < MaxOverflows
             /\ overflows' = overflows + 1
             /\ \E n \in to : CloseAbruptlyWithError(p, n)
    /\ UNCHANGED <<wire, sent, lost>>

(* Variant: a channel ignores that the peer closes it.                     *)
OnChannelClosingIgnored(p) ==
    /\ Head1(p, "CLOSING")
    /\ tasks' = [tasks EXCEPT ![p] = Tail(@)]
    /\ UNCHANGED <<streamVars, channelVars, wire, boundVars>>

(* SignalDataChannelTransportChannelClosing_s.                             *)
OnChannelClosing(p) ==
    /\ Head1(p, "CLOSING")
    /\ tasks' = [tasks EXCEPT ![p] = Tail(@)]
    /\ LET to == {n \in WithSid(p, Head(tasks[p]).sid) :
                     state[p][n] # "closing"}
       IN /\ state' = [state EXCEPT ![p] = [n \in Numbers |->
                          IF n \in to THEN "closing" ELSE @[n]]]
          /\ started' = [started EXCEPT ![p] = @ \cup to]
    /\ UNCHANGED <<streamVars, sid, acked, used, negotiated, aborted, wire,
                   boundVars>>

(* SignalDataChannelTransportChannelClosed_s.                              *)
OnChannelClosed(p) ==
    /\ Head1(p, "CLOSED")
    /\ tasks' = [tasks EXCEPT ![p] = Tail(@)]
    /\ LET to == WithSid(p, Head(tasks[p]).sid) IN
          IF to = {} THEN UNCHANGED <<state, used>>
          ELSE \E n \in to : OnSctpDataChannelClosed(p, n)
    /\ UNCHANGED <<streamVars, sid, started, acked, negotiated, aborted, wire,
                   boundVars>>

(* OnTransportChannelClosed swaps the list away before it closes the       *)
(* channels, so that their ids are not released.                           *)
OnTransportChannelClosed(p) ==
    /\ Head1(p, "TRANSPORT_CLOSED")
    /\ tasks' = [tasks EXCEPT ![p] = Tail(@)]
    /\ state' = [state EXCEPT ![p] = [n \in Numbers |->
           IF n \in sctp_data_channels(p) THEN "closed" ELSE @[n]]]
    /\ UNCHANGED <<streamVars, sid, started, acked, used, negotiated, aborted,
                   wire, boundVars>>

SignalingThread(p) ==
    \/ HandleOpenMessage(p) \/ OnChannelReady(p) \/ ReceiveData(p)
    \/ OnChannelClosing(p) \/ OnChannelClosed(p) \/ OnTransportChannelClosed(p)

-----------------------------------------------------------------------------
(* The network thread and the transport.                                   *)

(* SignalClosingProcedureStartedRemotely and -Complete of an event, one    *)
(* stream after the other.                                                 *)
Signals(started_remotely, complete) ==
    {Task("CLOSING", s, 0) : s \in started_remotely}
        \cup {Task("CLOSED", s, 0) : s \in complete}

OnStreamResetEvent(p) ==
    /\ \/ /\ S!IncomingReset(p)
          /\ PostAll(p, Signals((Head(events[p]).sids \cap known[p])
                                    \ closure_initiated[p],
                                known[p] \ known'[p]))
       \/ /\ S!OutgoingReset(p)
          /\ PostAll(p, Signals({}, known[p] \ known'[p]))
    /\ UNCHANGED <<channelVars, wire, boundVars>>

(* usrsctp (external): the reset of a stream is performed after the data   *)
(* sent on it before.                                                      *)
PerformReset(p) ==
    /\ lost = {}
    /\ \A s \in request[p] : wire[Other(p)][s] = <<>>
    /\ S!PerformReset(p)
    /\ UNCHANGED <<channelVars, tasks, wire, boundVars>>

ReceiveResponse(p) ==
    /\ lost = {}
    /\ S!ReceiveResponse(p)
    /\ UNCHANGED <<channelVars, tasks, wire, boundVars>>

(* SctpTransport::OnClosed, when the DTLS transport closes: the channels   *)
(* learn of it by a task.                                                  *)
OnTransportClosed(p) ==
    /\ p \notin lost /\ Cardinality(lost) < MaxLosses
    /\ lost' = lost \cup {p}
    /\ Post(p, Task("TRANSPORT_CLOSED", -1, 0))
    /\ wire' = [q \in Peers |-> [s \in Sids |-> <<>>]]
    /\ UNCHANGED <<streamVars, channelVars, sent, overflows>>

NetworkThread(p) ==
    \/ \E s \in Sids : OnDataReceived(p, s)
    \/ OnStreamResetEvent(p) \/ PerformReset(p) \/ ReceiveResponse(p)

-----------------------------------------------------------------------------

Application(p) ==
    \E n \in Numbers :
        CreateDataChannel(p, n) \/ AppSend(p, n) \/ AppClose(p, n)

Next ==
    \E p \in Peers :
        \/ AllocateSctpSids(p) \/ Application(p)
        \/ SignalingThread(p)
        \/ NetworkThread(p)
        \/ OnTransportClosed(p)

Spec == Init /\ [][Next]_vars

(* The threads run their tasks and SCTP delivers; nothing makes an         *)
(* application act or a transport close.                                   *)
FairSpec ==
    /\ Spec
    /\ \A p \in Peers :
           /\ WF_vars(AllocateSctpSids(p))
           /\ WF_vars(SignalingThread(p))
           /\ WF_vars(NetworkThread(p))

-----------------------------------------------------------------------------
(* Properties.                                                             *)

(* The allocator and the list of channels agree: an id is in used_sids_    *)
(* exactly as long as a channel on the list holds it, and no two channels  *)
(* on a list share one, through allocation, reservation, the closing       *)
(* procedure and abrupt closes.  An id that stayed would never be          *)
(* available again; one released twice would be given to two channels.     *)
(* (OnTransportChannelClosed does leave the ids of the channels in use.)   *)
UsedSidsAreListed ==
    \A p \in Peers :
        LET listed == {n \in sctp_data_channels(p) : sid[n] >= 0}
            ids == {sid[n] : n \in listed}
        IN /\ ids \subseteq used[p]
           /\ Cardinality(ids) = Cardinality(listed)
           /\ lost = {} => used[p] = ids

(* Tasks find their channel by an id that may have passed to another       *)
(* channel since the network thread posted them.  Yet, unless an abrupt    *)
(* close released the id, data is delivered to the channel it was sent on, *)
(* and SignalChannelClosed finds a channel that is closing: "If the        *)
(* closing procedure is complete, we should have ... transitioned to       *)
(* kClosing already" (RTC_DCHECK in OnClosingProcedureComplete).           *)
SignalsReachTheirChannel ==
    \A p \in Peers, n \in Numbers :
        tasks[p] # <<>> /\ Head(tasks[p]).sid = sid[n] /\ sid[n] \notin aborted
            => /\ Head1(p, "DATA") /\ state[p][n] = "open"
                      => Head(tasks[p]).n = n
               /\ Head1(p, "CLOSED") /\ n \in WithSid(p, sid[n])
                      => state[p][n] = "closing"

(* A channel that is closed at one end is closed at both in the end,       *)
(* whichever end closes first and whatever other channels do meanwhile:    *)
(* again and again there is a moment at which no channel is closing or     *)
(* closed at one end only, except those whose id was released abruptly or  *)
(* whose transport is lost.  It holds where openers wait for the answer to *)
(* OPEN before they close (CloseAfterAck); the reset of one that does not  *)
(* may be dropped by a peer that has not handled the OPEN message yet.     *)
HalfClosed(n) ==
    /\ \E p \in Peers : state[p][n] \in {"closing", "closed"}
    /\ \E p \in Peers : state[p][n] \notin {"closed", "none"}

BothEndsClose ==
    []<>(\A n \in Numbers : HalfClosed(n) => sid[n] \in aborted \/ lost # {})

=============================================================================

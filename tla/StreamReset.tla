----------------------------- MODULE StreamReset -----------------------------
(***************************************************************************)
(* The closing procedure of cricket::SctpTransport                         *)
(* (media/sctp/sctp_transport.{h,cc}): the StreamStatus map each endpoint  *)
(* of an SCTP association keeps on its network thread, the stream resets   *)
(* (RFC 6525 RE-CONFIG requests) it asks usrsctp for, and the              *)
(* SCTP_STREAM_RESET_EVENT notifications usrsctp posts back.               *)
(*                                                                         *)
(* The boolean members of StreamStatus are sets of stream ids, one per     *)
(* endpoint: s \in closure_initiated[p] is                                 *)
(* stream_status_by_sid_[s].closure_initiated at endpoint p, and known[p]  *)
(* is the set of keys of the map.                                          *)
(*                                                                         *)
(* The data channel layer above appears as the two ways it opens a stream: *)
(* the opener of a channel takes an id of its own parity that is not in    *)
(* use and sends an OPEN message, and the receiver of the OPEN opens the   *)
(* same id, on its signaling thread, some time later.                      *)
(***************************************************************************)
EXTENDS Naturals, Sequences

CONSTANTS
    Sids,           \* the stream ids in use
    Preopened,      \* streams both applications opened before the first step
    StartConnected, \* did both endpoints connect before the first step?
    MaxOpens,       \* bound: times the owner of a stream id opens it
    MaxDenials      \* bound: reset requests the peer's SCTP stack refuses

ASSUME SidsAssumption == Sids \subseteq Nat /\ Preopened \subseteq Sids
ASSUME ConnectedAssumption == StartConnected \in BOOLEAN
ASSUME BoundsAssumption == MaxOpens \in Nat /\ MaxDenials \in Nat

VARIABLES
    known, closure_initiated, outgoing_reset_initiated,
    outgoing_reset_complete, incoming_reset_complete,
    connected,  \* Connect() ran: sock_ is not null
    request,    \* usrsctp: streams of the endpoint's outstanding request
    performed,  \* usrsctp: the peer performed it, the response is under way
    events,     \* notifications posted to the endpoint's network thread
    opening,    \* OPEN messages on their way to the endpoint's channel layer
    opens,      \* how often the owner of each stream id opened it
    denials     \* how many requests were refused so far

statusVars == <<known, closure_initiated, outgoing_reset_initiated,
                outgoing_reset_complete, incoming_reset_complete>>
usrsctpVars == <<request, performed, events, denials>>
channelVars == <<opening, opens>>
vars == <<statusVars, connected, usrsctpVars, channelVars>>

Peers == {1, 2}
Other(p) == 3 - p

ResetEvent == [flags : {"INCOMING_SSN", "OUTGOING_SSN", "FAILED"},
               sids : SUBSET Sids]

Init ==
    /\ known = [p \in Peers |-> Preopened]
    /\ closure_initiated = [p \in Peers |-> {}]
    /\ outgoing_reset_initiated = [p \in Peers |-> {}]
    /\ outgoing_reset_complete = [p \in Peers |-> {}]
    /\ incoming_reset_complete = [p \in Peers |-> {}]
    /\ connected = [p \in Peers |-> StartConnected]
    /\ request = [p \in Peers |-> {}]
    /\ performed = [p \in Peers |-> FALSE]
    /\ events = [p \in Peers |-> <<>>]
    /\ denials = 0
    /\ opening = [p \in Peers |-> <<>>]
    /\ opens = [s \in Sids |-> 0]

-----------------------------------------------------------------------------
(* StreamStatus::is_open, need_outgoing_reset and reset_complete.          *)

is_open(p, s) ==
    s \notin closure_initiated[p] \cup incoming_reset_complete[p]
                                  \cup outgoing_reset_complete[p]

need_outgoing_reset(p) ==
    (incoming_reset_complete[p] \cup closure_initiated[p])
        \ outgoing_reset_initiated[p]

(* The streams of an event for one direction that complete, given those    *)
(* whose opposite direction is reset.  Variants: none, or one direction    *)
(* is enough.                                                              *)
CompleteNever(sids, opposite) == {}

CompleteOneWay(sids, opposite) == sids

reset_complete(sids, opposite) == sids \cap opposite

(* Variant: the streams are marked although the request was refused.       *)
MarkUnsentResets(p, need, initiated) ==
    LET sendable == need # {} /\ connected[p] /\ request[p] = {} IN
    /\ request' = [request EXCEPT ![p] = IF sendable THEN need ELSE @]
    /\ outgoing_reset_initiated' =
           [outgoing_reset_initiated EXCEPT ![p] = initiated \cup need]

(* SendQueuedStreamResets at p, called once the handler around it left the *)
(* streams in need without an outgoing reset and those in initiated with   *)
(* one.  usrsctp_setsockopt(SCTP_RESET_STREAMS) fails without a socket and *)
(* while a reset is in progress.                                           *)
SendQueuedStreamResets(p, need, initiated) ==
    LET sendable == need # {} /\ connected[p] /\ request[p] = {} IN
    /\ request' = [request EXCEPT ![p] = IF sendable THEN need ELSE @]
    /\ outgoing_reset_initiated' =
           [outgoing_reset_initiated EXCEPT
               ![p] = IF sendable THEN initiated \cup need ELSE initiated]

-----------------------------------------------------------------------------
(* Calls of the data channel layer, on the network thread.                 *)

(* OpenStream for the sid.  A sid that is in the map, open or closing, is  *)
(* refused.                                                                *)
OpenStream(p, s) ==
    /\ known' = [known EXCEPT ![p] = @ \cup {s}]
    /\ UNCHANGED <<closure_initiated, outgoing_reset_initiated,
                   outgoing_reset_complete, incoming_reset_complete>>

(* The opener of a channel: AllocateSid gives the SSL client (endpoint 1)  *)
(* the even ids and the server the odd ones, and an OPEN message goes out. *)
OpenChannel(p, s) ==
    /\ connected[p] /\ s % 2 = p - 1
    /\ s \notin known[p]
    /\ opens[s] < MaxOpens
    /\ OpenStream(p, s)
    /\ opening' = [opening EXCEPT ![Other(p)] = Append(@, s)]
    /\ opens' = [opens EXCEPT ![s] = @ + 1]
    /\ UNCHANGED <<connected, usrsctpVars>>

(* The receiver of the OPEN message: OnDataReceived posted it from the     *)
(* network to the signaling thread, which calls back into OpenStream.      *)
HandleOpenMessage(p) ==
    /\ connected[p] /\ opening[p] # <<>>
    /\ OpenStream(p, Head(opening[p]))
    /\ opening' = [opening EXCEPT ![p] = Tail(@)]
    /\ UNCHANGED <<connected, usrsctpVars, opens>>

ResetStream(p, s) ==
    /\ s \in known[p] /\ is_open(p, s)
    /\ closure_initiated' = [closure_initiated EXCEPT ![p] = @ \cup {s}]
    /\ SendQueuedStreamResets(p,
           need_outgoing_reset(p) \cup ({s} \ outgoing_reset_initiated[p]),
           outgoing_reset_initiated[p])
    /\ UNCHANGED <<known, outgoing_reset_complete, incoming_reset_complete,
                   connected, performed, events, denials, channelVars>>

-----------------------------------------------------------------------------
(* OnStreamResetEvent.  done are the streams this event completes: they    *)
(* leave the map, and SignalClosingProcedureComplete fires.                *)

(* Variant: the refused resets still count as initiated.                   *)
ResetFailedKeepsInitiated(p) ==
    /\ events[p] # <<>> /\ Head(events[p]).flags = "FAILED"
    /\ events' = [events EXCEPT ![p] = Tail(@)]
    /\ SendQueuedStreamResets(p, need_outgoing_reset(p),
                              outgoing_reset_initiated[p])
    /\ UNCHANGED <<known, closure_initiated, outgoing_reset_complete,
                   incoming_reset_complete, connected, performed, denials,
                   channelVars>>

ResetFailed(p) ==
    /\ events[p] # <<>> /\ Head(events[p]).flags = "FAILED"
    /\ events' = [events EXCEPT ![p] = Tail(@)]
    /\ SendQueuedStreamResets(p,
           incoming_reset_complete[p] \cup closure_initiated[p], {})
    /\ UNCHANGED <<known, closure_initiated, outgoing_reset_complete,
                   incoming_reset_complete, connected, performed, denials,
                   channelVars>>

(* Variant: a flag outlives the entry of its stream.                       *)
FinishKeepsClosure(p, done) ==
    /\ known' = [known EXCEPT ![p] = @ \ done]
    /\ UNCHANGED closure_initiated

Finish(p, done) ==
    /\ known' = [known EXCEPT ![p] = @ \ done]
    /\ closure_initiated' = [closure_initiated EXCEPT ![p] = @ \ done]

IncomingReset(p) ==
    /\ events[p] # <<>> /\ Head(events[p]).flags = "INCOMING_SSN"
    /\ LET sids == Head(events[p]).sids \cap known[p]
           done == reset_complete(sids, outgoing_reset_complete[p])
       IN /\ events' = [events EXCEPT ![p] = Tail(@)]
          /\ Finish(p, done)
          /\ incoming_reset_complete' =
                 [incoming_reset_complete EXCEPT ![p] = (@ \cup sids) \ done]
          /\ outgoing_reset_complete' =
                 [outgoing_reset_complete EXCEPT ![p] = @ \ done]
          /\ SendQueuedStreamResets(p,
                 (need_outgoing_reset(p)
                     \cup (sids \ outgoing_reset_initiated[p])) \ done,
                 outgoing_reset_initiated[p] \ done)
    /\ UNCHANGED <<connected, performed, denials, channelVars>>

(* Variant: no attempt to send the resets that were waiting.               *)
OutgoingResetWithoutRetry(p) ==
    /\ events[p] # <<>> /\ Head(events[p]).flags = "OUTGOING_SSN"
    /\ LET sids == Head(events[p]).sids \cap known[p]
           done == reset_complete(sids, incoming_reset_complete[p])
       IN /\ events' = [events EXCEPT ![p] = Tail(@)]
          /\ Finish(p, done)
          /\ outgoing_reset_complete' =
                 [outgoing_reset_complete EXCEPT ![p] = (@ \cup sids) \ done]
          /\ incoming_reset_complete' =
                 [incoming_reset_complete EXCEPT ![p] = @ \ done]
          /\ outgoing_reset_initiated' =
                 [outgoing_reset_initiated EXCEPT ![p] = @ \ done]
    /\ UNCHANGED <<connected, request, performed, denials, channelVars>>

OutgoingReset(p) ==
    /\ events[p] # <<>> /\ Head(events[p]).flags = "OUTGOING_SSN"
    /\ LET sids == Head(events[p]).sids \cap known[p]
           done == reset_complete(sids, incoming_reset_complete[p])
       IN /\ events' = [events EXCEPT ![p] = Tail(@)]
          /\ Finish(p, done)
          /\ outgoing_reset_complete' =
                 [outgoing_reset_complete EXCEPT ![p] = (@ \cup sids) \ done]
          /\ incoming_reset_complete' =
                 [incoming_reset_complete EXCEPT ![p] = @ \ done]
          /\ SendQueuedStreamResets(p, need_outgoing_reset(p) \ done,
                 outgoing_reset_initiated[p] \ done)
    /\ UNCHANGED <<connected, performed, denials, channelVars>>

OnStreamResetEvent(p) == ResetFailed(p) \/ IncomingReset(p) \/ OutgoingReset(p)

-----------------------------------------------------------------------------
(* Connect() creates and connects the socket, once the DTLS transport is   *)
(* writable and Start() was called.                                        *)
Connect(p) ==
    /\ ~connected[p]
    /\ connected' = [connected EXCEPT ![p] = TRUE]
    /\ UNCHANGED <<statusVars, usrsctpVars, channelVars>>

(* usrsctp (external): requests and responses are retransmitted until they *)
(* arrive, a request is performed once, and each outcome is notified once. *)

Notify(p, flags, sids) ==
    events' = [events EXCEPT ![p] = Append(@, [flags |-> flags, sids |-> sids])]

PerformReset(p) ==
    /\ request[p] # {} /\ ~performed[p] /\ connected[Other(p)]
    /\ performed' = [performed EXCEPT ![p] = TRUE]
    /\ Notify(Other(p), "INCOMING_SSN", request[p])
    /\ UNCHANGED <<statusVars, connected, request, denials, channelVars>>

DenyReset(p) ==
    /\ request[p] # {} /\ ~performed[p] /\ connected[Other(p)]
    /\ denials < MaxDenials
    /\ denials' = denials + 1
    /\ request' = [request EXCEPT ![p] = {}]
    /\ Notify(p, "FAILED", {})
    /\ UNCHANGED <<statusVars, connected, performed, channelVars>>

ReceiveResponse(p) ==
    /\ performed[p]
    /\ performed' = [performed EXCEPT ![p] = FALSE]
    /\ request' = [request EXCEPT ![p] = {}]
    /\ Notify(p, "OUTGOING_SSN", request[p])
    /\ UNCHANGED <<statusVars, connected, denials, channelVars>>

-----------------------------------------------------------------------------

Next ==
    \E p \in Peers :
        \/ \E s \in Sids : OpenChannel(p, s) \/ ResetStream(p, s)
        \/ HandleOpenMessage(p)
        \/ OnStreamResetEvent(p)
        \/ Connect(p)
        \/ PerformReset(p) \/ DenyReset(p) \/ ReceiveResponse(p)

Spec == Init /\ [][Next]_vars

(* Both threads run their posted tasks, the DTLS transport becomes         *)
(* writable, and SCTP retransmits until each request and each response got *)
(* through.  Nothing makes an application open or close a channel.         *)
FairSpec ==
    /\ Spec
    /\ \A p \in Peers : /\ WF_vars(OnStreamResetEvent(p))
                        /\ WF_vars(HandleOpenMessage(p))
                        /\ WF_vars(Connect(p))
                        /\ WF_vars(PerformReset(p))
                        /\ WF_vars(ReceiveResponse(p))

-----------------------------------------------------------------------------
(* Properties.                                                             *)

(* Every variable has its type, the flags of a stream that is not in the   *)
(* map are gone with it (stream_status_by_sid_.erase), and only an         *)
(* outstanding request can have been performed.                            *)
TypeOK ==
    /\ known \in [Peers -> SUBSET Sids]
    /\ closure_initiated \in [Peers -> SUBSET Sids]
    /\ outgoing_reset_initiated \in [Peers -> SUBSET Sids]
    /\ outgoing_reset_complete \in [Peers -> SUBSET Sids]
    /\ incoming_reset_complete \in [Peers -> SUBSET Sids]
    /\ connected \in [Peers -> BOOLEAN]
    /\ request \in [Peers -> SUBSET Sids]
    /\ performed \in [Peers -> BOOLEAN]
    /\ events \in [Peers -> Seq(ResetEvent)]
    /\ denials \in 0 .. MaxDenials
    /\ opening \in [Peers -> Seq(Sids)]
    /\ opens \in [Sids -> 0 .. MaxOpens]
    /\ \A p \in Peers :
           /\ closure_initiated[p] \cup outgoing_reset_initiated[p]
                  \cup outgoing_reset_complete[p]
                  \cup incoming_reset_complete[p] \subseteq known[p]
           /\ performed[p] => request[p] # {}

(* SendQueuedStreamResets ignores a failed setsockopt, relying on a later  *)
(* OnStreamResetEvent to call it again.  So whenever a stream waits for    *)
(* its outgoing reset, some reset must be outstanding at usrsctp or some   *)
(* notification must be on its way to this endpoint: otherwise nothing     *)
(* ever resets the stream.  (With a socket from the start; see             *)
(* ClosingCompletes for a stream closed before Connect.)                   *)
NoForgottenReset ==
    StartConnected =>
        \A p \in Peers :
            need_outgoing_reset(p) # {} => request[p] # {} \/ events[p] # <<>>

(* An outgoing reset that was initiated and has not completed is the       *)
(* subject of the outstanding request or of a notification on its way, so  *)
(* outgoing_reset_initiated never records a request that was lost: neither *)
(* a refusal nor a completion that overlaps other resets strands a stream. *)
Outcome(evt, s) ==
    \/ evt.flags = "FAILED"
    \/ evt.flags = "OUTGOING_SSN" /\ s \in evt.sids

InitiatedResetIsOutstanding ==
    \A p \in Peers :
        \A s \in outgoing_reset_initiated[p] \ outgoing_reset_complete[p] :
            \/ s \in request[p]
            \/ \E i \in 1 .. Len(events[p]) : Outcome(events[p][i], s)

(* Streams whose two directions are both reset have left the map: an entry *)
(* that stayed would block its stream id for good.                         *)
CompleteStreamsAreGone ==
    \A p \in Peers : outgoing_reset_complete[p]
                         \cap incoming_reset_complete[p] = {}

(* An endpoint is done with a stream (SignalClosingProcedureComplete fired)*)
(* only when the other endpoint knows that the stream is closing or is     *)
(* done too, or does not use it: the two applications never disagree on    *)
(* whether a channel is in use once one side reports it closed.  Stated    *)
(* for streams that both sides opened before and nobody opens again.       *)
CompletionIsAgreed ==
    \A p \in Peers, s \in Preopened :
        s \notin known[p] /\ opens[s] = 0 /\ s \in known[Other(p)]
            => ~is_open(Other(p), s)

(* ResetStream "begins the closing procedure, which will eventually result *)
(* in SignalClosingProcedureComplete on the side that initiates it, and    *)
(* both SignalClosingProcedureStartedRemotely and                          *)
(* SignalClosingProcedureComplete on the other side"                       *)
(* (sctp_transport_internal.h): a stream that is closing leaves the map.   *)
ClosingCompletes ==
    \A p \in Peers, s \in Sids :
        (s \in known[p] /\ ~is_open(p, s)) ~> (s \notin known[p])

=============================================================================

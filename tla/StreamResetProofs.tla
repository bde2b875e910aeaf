-------------------------- MODULE StreamResetProofs --------------------------
(***************************************************************************)
(* What the closing procedure of SctpTransport guarantees for every set of *)
(* stream ids and every number of openings and refusals: the type          *)
(* invariant, that no stream waiting for its outgoing reset is forgotten,  *)
(* that no initiated reset is lost, that no completed stream stays in the  *)
(* map, and that the two endpoints agree on what is closed.                *)
(***************************************************************************)
EXTENDS StreamReset, TLAPS

-----------------------------------------------------------------------------
(* Facts about the two endpoints and about a queue of notifications.       *)

(* The other endpoint is an endpoint, and a different one.                 *)
LEMMA OtherPeer == \A p \in Peers : Other(p) \in Peers /\ Other(p) # p
  BY DEF Peers, Other

(* Appending a notification keeps the ones already there.                  *)
LEMMA AppendKeeps ==
  ASSUME NEW S, NEW q \in Seq(S), NEW e \in S, NEW i \in 1 .. Len(q)
  PROVE  i \in 1 .. Len(Append(q, e)) /\ Append(q, e)[i] = q[i]
  OBVIOUS

(* The appended notification is the last one.                              *)
LEMMA AppendAdds ==
  ASSUME NEW S, NEW q \in Seq(S), NEW e \in S
  PROVE  /\ Append(q, e) \in Seq(S) /\ Append(q, e) # <<>>
         /\ Len(Append(q, e)) \in 1 .. Len(Append(q, e))
         /\ Append(q, e)[Len(Append(q, e))] = e
  OBVIOUS

(* Handling the first notification keeps the others.                       *)
LEMMA TailKeeps ==
  ASSUME NEW S, NEW q \in Seq(S), q # <<>>
  PROVE  /\ Head(q) \in S /\ Tail(q) \in Seq(S)
         /\ \A i \in 1 .. Len(q) :
                q[i] = Head(q) \/ \E j \in 1 .. Len(Tail(q)) : Tail(q)[j] = q[i]
<1>1. Head(q) \in S /\ Tail(q) \in Seq(S)
  OBVIOUS
<1>2. ASSUME NEW i \in 1 .. Len(q), i # 1
      PROVE  i - 1 \in 1 .. Len(Tail(q)) /\ Tail(q)[i - 1] = q[i]
  BY <1>2
<1>3. q[1] = Head(q)
  OBVIOUS
<1> QED BY <1>1, <1>2, <1>3

(* What is left was one place further back.                                *)
LEMMA TailShifts ==
  ASSUME NEW S, NEW q \in Seq(S), q # <<>>, NEW i \in 1 .. Len(Tail(q))
  PROVE  i + 1 \in 1 .. Len(q) /\ Tail(q)[i] = q[i + 1]
  OBVIOUS

-----------------------------------------------------------------------------
(* Type correctness.                                                       *)

(* The type of the resets SendQueuedStreamResets leaves at usrsctp.        *)
LEMMA SendQueuedType ==
  ASSUME TypeOK, NEW p \in Peers,
         NEW need \in SUBSET Sids, NEW initiated \in SUBSET Sids,
         SendQueuedStreamResets(p, need, initiated)
  PROVE  /\ request' \in [Peers -> SUBSET Sids]
         /\ outgoing_reset_initiated' \in [Peers -> SUBSET Sids]
         /\ \A q \in Peers : /\ request[q] # {} => request'[q] = request[q]
                             /\ outgoing_reset_initiated'[q] \subseteq
                                    IF q = p THEN need \cup initiated
                                    ELSE outgoing_reset_initiated[q]
  BY DEF TypeOK, SendQueuedStreamResets

(* Posting a notification leaves every queue a queue of notifications.     *)
LEMMA NotifyType ==
  ASSUME TypeOK, NEW p \in Peers, NEW sids \in SUBSET Sids,
         NEW flags \in {"INCOMING_SSN", "OUTGOING_SSN", "FAILED"},
         Notify(p, flags, sids)
  PROVE  events' \in [Peers -> Seq(ResetEvent)]
<1>1. [flags |-> flags, sids |-> sids] \in ResetEvent
  BY DEF ResetEvent
<1>2. Append(events[p], [flags |-> flags, sids |-> sids]) \in Seq(ResetEvent)
  BY <1>1, AppendAdds DEF TypeOK
<1> QED BY <1>2 DEF TypeOK, Notify

(* Taking the first notification leaves a queue of notifications.          *)
LEMMA TakeEventType ==
  ASSUME TypeOK, NEW p \in Peers, events[p] # <<>>,
         events' = [events EXCEPT ![p] = Tail(@)]
  PROVE  /\ events' \in [Peers -> Seq(ResetEvent)]
         /\ Head(events[p]).sids \in SUBSET Sids
<1>1. Head(events[p]) \in ResetEvent /\ Tail(events[p]) \in Seq(ResetEvent)
  BY TailKeeps DEF TypeOK
<1> QED BY <1>1 DEF TypeOK, ResetEvent

(* Every step of every endpoint keeps the types.                           *)
LEMMA TypeStep == TypeOK /\ [Next]_vars => TypeOK'
<1> SUFFICES ASSUME TypeOK, [Next]_vars
             PROVE  TypeOK'
  OBVIOUS
<1> USE SidsAssumption, BoundsAssumption
<1>1. CASE UNCHANGED vars
  BY <1>1 DEF TypeOK, vars, statusVars, usrsctpVars, channelVars, ResetEvent
<1>2. ASSUME NEW p \in Peers, NEW s \in Sids, OpenChannel(p, s)
      PROVE  TypeOK'
  <2>1. Append(opening[Other(p)], s) \in Seq(Sids)
    BY OtherPeer, AppendAdds DEF TypeOK
  <2>2. opening' \in [Peers -> Seq(Sids)]
    BY <1>2, <2>1 DEF TypeOK, OpenChannel
  <2>3. opens' \in [Sids -> 0 .. MaxOpens]
    <3>1. opens \in [Sids -> 0 .. MaxOpens] /\ opens[s] < MaxOpens
      BY <1>2 DEF TypeOK, OpenChannel
    <3>2. opens[s] + 1 \in 0 .. MaxOpens
      BY <3>1
    <3> QED BY <1>2, <3>1, <3>2 DEF OpenChannel
  <2> QED BY <1>2, <2>2, <2>3 DEF TypeOK, OpenChannel, OpenStream, usrsctpVars
<1>3. ASSUME NEW p \in Peers, NEW s \in Sids, ResetStream(p, s)
      PROVE  TypeOK'
  <2> DEFINE need == need_outgoing_reset(p)
                         \cup ({s} \ outgoing_reset_initiated[p])
  <2>1. need \in SUBSET Sids /\ need \subseteq known[p]
    BY <1>3 DEF TypeOK, need_outgoing_reset, ResetStream
  <2>2. SendQueuedStreamResets(p, need, outgoing_reset_initiated[p])
    BY <1>3 DEF ResetStream
  <2> HIDE DEF need
  <2>3. /\ request' \in [Peers -> SUBSET Sids]
        /\ outgoing_reset_initiated' \in [Peers -> SUBSET Sids]
        /\ \A q \in Peers : /\ request[q] # {} => request'[q] = request[q]
                            /\ outgoing_reset_initiated'[q] \subseteq
                                   IF q = p THEN need \cup outgoing_reset_initiated[p]
                                   ELSE outgoing_reset_initiated[q]
    BY <2>1, <2>2, SendQueuedType DEF TypeOK
  <2>4. \A q \in Peers :
            closure_initiated'[q] \cup outgoing_reset_initiated'[q]
                \cup outgoing_reset_complete'[q]
                \cup incoming_reset_complete'[q] \subseteq known'[q]
    BY <1>3, <2>1, <2>3 DEF TypeOK, ResetStream
  <2>5. \A q \in Peers : performed'[q] => request'[q] # {}
    BY <1>3, <2>3 DEF TypeOK, ResetStream
  <2> QED BY <1>3, <2>3, <2>4, <2>5 DEF TypeOK, ResetStream, channelVars
<1>4. ASSUME NEW p \in Peers, HandleOpenMessage(p)
      PROVE  TypeOK'
  <2>1. Head(opening[p]) \in Sids /\ Tail(opening[p]) \in Seq(Sids)
    BY <1>4, TailKeeps DEF TypeOK, HandleOpenMessage
  <2> QED BY <1>4, <2>1
          DEF TypeOK, HandleOpenMessage, OpenStream, usrsctpVars
<1>5. ASSUME NEW p \in Peers, ResetFailed(p)
      PROVE  TypeOK'
  <2>1. events' \in [Peers -> Seq(ResetEvent)]
    BY <1>5, TakeEventType DEF ResetFailed
  <2> DEFINE need == incoming_reset_complete[p] \cup closure_initiated[p]
  <2>2. need \in SUBSET Sids /\ need \subseteq known[p]
    BY DEF TypeOK
  <2>3. SendQueuedStreamResets(p, need, {})
    BY <1>5 DEF ResetFailed
  <2> HIDE DEF need
  <2>4. /\ request' \in [Peers -> SUBSET Sids]
        /\ outgoing_reset_initiated' \in [Peers -> SUBSET Sids]
        /\ \A q \in Peers : /\ request[q] # {} => request'[q] = request[q]
                            /\ outgoing_reset_initiated'[q] \subseteq
                                   IF q = p THEN need \cup {}
                                   ELSE outgoing_reset_initiated[q]
    BY <2>2, <2>3, SendQueuedType
  <2>5. \A q \in Peers :
            closure_initiated'[q] \cup outgoing_reset_initiated'[q]
                \cup outgoing_reset_complete'[q]
                \cup incoming_reset_complete'[q] \subseteq known'[q]
    BY <1>5, <2>2, <2>4 DEF TypeOK, ResetFailed
  <2>6. \A q \in Peers : performed'[q] => request'[q] # {}
    BY <1>5, <2>4 DEF TypeOK, ResetFailed
  <2> QED BY <1>5, <2>1, <2>4, <2>5, <2>6 DEF TypeOK, ResetFailed, channelVars
<1>6. ASSUME NEW p \in Peers, IncomingReset(p)
      PROVE  TypeOK'
  <2> DEFINE sids == Head(events[p]).sids \cap known[p]
             done == sids \cap outgoing_reset_complete[p]
             need == (need_outgoing_reset(p)
                         \cup (sids \ outgoing_reset_initiated[p])) \ done
             initiated == outgoing_reset_initiated[p] \ done
  <2>1. /\ events' \in [Peers -> Seq(ResetEvent)]
        /\ sids \in SUBSET known[p]
    BY <1>6, TakeEventType DEF IncomingReset
  <2>2. /\ need \in SUBSET Sids /\ need \subseteq known[p] \ done
        /\ initiated \in SUBSET Sids /\ initiated \subseteq known[p] \ done
    BY <2>1 DEF TypeOK, need_outgoing_reset
  <2>3. SendQueuedStreamResets(p, need, initiated)
    BY <1>6 DEF IncomingReset, reset_complete
  <2>4. /\ known' = [known EXCEPT ![p] = @ \ done]
        /\ closure_initiated' = [closure_initiated EXCEPT ![p] = @ \ done]
        /\ incoming_reset_complete' =
               [incoming_reset_complete EXCEPT ![p] = (@ \cup sids) \ done]
        /\ outgoing_reset_complete' =
               [outgoing_reset_complete EXCEPT ![p] = @ \ done]
        /\ UNCHANGED <<connected, performed, denials, opening, opens>>
    BY <1>6 DEF IncomingReset, reset_complete, Finish, channelVars
  <2> HIDE DEF sids, done, need, initiated
  <2>5. /\ request' \in [Peers -> SUBSET Sids]
        /\ outgoing_reset_initiated' \in [Peers -> SUBSET Sids]
        /\ \A q \in Peers : /\ request[q] # {} => request'[q] = request[q]
                            /\ outgoing_reset_initiated'[q] \subseteq
                                   IF q = p THEN need \cup initiated
                                   ELSE outgoing_reset_initiated[q]
    BY <2>2, <2>3, SendQueuedType
  <2>6. \A q \in Peers :
            closure_initiated'[q] \cup outgoing_reset_initiated'[q]
                \cup outgoing_reset_complete'[q]
                \cup incoming_reset_complete'[q] \subseteq known'[q]
    <3>1. TypeOK /\ p \in Peers
      OBVIOUS
    <3>2. /\ known'[p] = known[p] \ done
          /\ closure_initiated'[p] \subseteq known[p] \ done
          /\ incoming_reset_complete'[p] \subseteq known[p] \ done
          /\ outgoing_reset_complete'[p] \subseteq known[p] \ done
      BY <2>1, <2>4, <3>1 DEF TypeOK
    <3>3. outgoing_reset_initiated'[p] \subseteq known[p] \ done
      BY <2>2, <2>5
    <3>4. ASSUME NEW q \in Peers, q # p
          PROVE  /\ known'[q] = known[q]
                 /\ closure_initiated'[q] = closure_initiated[q]
                 /\ incoming_reset_complete'[q] = incoming_reset_complete[q]
                 /\ outgoing_reset_complete'[q] = outgoing_reset_complete[q]
                 /\ outgoing_reset_initiated'[q] \subseteq
                        outgoing_reset_initiated[q]
      BY <2>4, <2>5, <3>4 DEF TypeOK
    <3> QED BY <3>2, <3>3, <3>4 DEF TypeOK
  <2>7. \A q \in Peers : performed'[q] => request'[q] # {}
    BY <2>4, <2>5 DEF TypeOK
  <2> QED BY <2>1, <2>4, <2>5, <2>6, <2>7 DEF TypeOK
<1>7. ASSUME NEW p \in Peers, OutgoingReset(p)
      PROVE  TypeOK'
  <2> DEFINE sids == Head(events[p]).sids \cap known[p]
             done == sids \cap incoming_reset_complete[p]
             need == need_outgoing_reset(p) \ done
             initiated == outgoing_reset_initiated[p] \ done
  <2>1. /\ events' \in [Peers -> Seq(ResetEvent)]
        /\ sids \in SUBSET known[p]
    BY <1>7, TakeEventType DEF OutgoingReset
  <2>2. /\ need \in SUBSET Sids /\ need \subseteq known[p] \ done
        /\ initiated \in SUBSET Sids /\ initiated \subseteq known[p] \ done
    BY <2>1 DEF TypeOK, need_outgoing_reset
  <2>3. SendQueuedStreamResets(p, need, initiated)
    BY <1>7 DEF OutgoingReset, reset_complete
  <2>4. /\ known' = [known EXCEPT ![p] = @ \ done]
        /\ closure_initiated' = [closure_initiated EXCEPT ![p] = @ \ done]
        /\ outgoing_reset_complete' =
               [outgoing_reset_complete EXCEPT ![p] = (@ \cup sids) \ done]
        /\ incoming_reset_complete' =
               [incoming_reset_complete EXCEPT ![p] = @ \ done]
        /\ UNCHANGED <<connected, performed, denials, opening, opens>>
    BY <1>7 DEF OutgoingReset, reset_complete, Finish, channelVars
  <2> HIDE DEF sids, done, need, initiated
  <2>5. /\ request' \in [Peers -> SUBSET Sids]
        /\ outgoing_reset_initiated' \in [Peers -> SUBSET Sids]
        /\ \A q \in Peers : /\ request[q] # {} => request'[q] = request[q]
                            /\ outgoing_reset_initiated'[q] \subseteq
                                   IF q = p THEN need \cup initiated
                                   ELSE outgoing_reset_initiated[q]
    BY <2>2, <2>3, SendQueuedType
  <2>6. \A q \in Peers :
            closure_initiated'[q] \cup outgoing_reset_initiated'[q]
                \cup outgoing_reset_complete'[q]
                \cup incoming_reset_complete'[q] \subseteq known'[q]
    <3>1. TypeOK /\ p \in Peers
      OBVIOUS
    <3>2. /\ known'[p] = known[p] \ done
          /\ closure_initiated'[p] \subseteq known[p] \ done
          /\ incoming_reset_complete'[p] \subseteq known[p] \ done
          /\ outgoing_reset_complete'[p] \subseteq known[p] \ done
      BY <2>1, <2>4, <3>1 DEF TypeOK
    <3>3. outgoing_reset_initiated'[p] \subseteq known[p] \ done
      BY <2>2, <2>5
    <3>4. ASSUME NEW q \in Peers, q # p
          PROVE  /\ known'[q] = known[q]
                 /\ closure_initiated'[q] = closure_initiated[q]
                 /\ incoming_reset_complete'[q] = incoming_reset_complete[q]
                 /\ outgoing_reset_complete'[q] = outgoing_reset_complete[q]
                 /\ outgoing_reset_initiated'[q] \subseteq
                        outgoing_reset_initiated[q]
      BY <2>4, <2>5, <3>4 DEF TypeOK
    <3> QED BY <3>2, <3>3, <3>4 DEF TypeOK
  <2>7. \A q \in Peers : performed'[q] => request'[q] # {}
    BY <2>4, <2>5 DEF TypeOK
  <2> QED BY <2>1, <2>4, <2>5, <2>6, <2>7 DEF TypeOK
<1>8. ASSUME NEW p \in Peers, Connect(p)
      PROVE  TypeOK'
  BY <1>8 DEF TypeOK, Connect, statusVars, usrsctpVars, channelVars
<1>9. ASSUME NEW p \in Peers, PerformReset(p)
      PROVE  TypeOK'
  <2>1. request[p] \in SUBSET Sids
    BY DEF TypeOK
  <2>2. events' \in [Peers -> Seq(ResetEvent)]
    BY <1>9, <2>1, OtherPeer, NotifyType DEF PerformReset
  <2> QED BY <1>9, <2>2 DEF TypeOK, PerformReset, statusVars, channelVars
<1>10. ASSUME NEW p \in Peers, DenyReset(p)
       PROVE  TypeOK'
  <2>1. events' \in [Peers -> Seq(ResetEvent)]
    BY <1>10, NotifyType DEF DenyReset
  <2>2. denials' \in 0 .. MaxDenials
    <3>1. denials \in 0 .. MaxDenials /\ denials < MaxDenials
      BY <1>10 DEF TypeOK, DenyReset
    <3> QED BY <1>10, <3>1 DEF DenyReset
  <2>3. request' \in [Peers -> SUBSET Sids]
    BY <1>10 DEF TypeOK, DenyReset
  <2>4. \A q \in Peers : performed'[q] => request'[q] # {}
    BY <1>10 DEF TypeOK, DenyReset
  <2> QED BY <1>10, <2>1, <2>2, <2>3, <2>4
          DEF TypeOK, DenyReset, statusVars, channelVars
<1>11. ASSUME NEW p \in Peers, ReceiveResponse(p)
       PROVE  TypeOK'
  <2>1. request[p] \in SUBSET Sids
    BY DEF TypeOK
  <2>2. events' \in [Peers -> Seq(ResetEvent)]
    BY <1>11, <2>1, NotifyType DEF ReceiveResponse
  <2> QED BY <1>11, <2>2 DEF TypeOK, ReceiveResponse, statusVars, channelVars
<1> QED BY <1>1, <1>2, <1>3, <1>4, <1>5, <1>6, <1>7, <1>8, <1>9, <1>10, <1>11
        DEF Next, OnStreamResetEvent

(* The initial state is well typed.                                        *)
LEMMA TypeInit == Init => TypeOK
<1> SUFFICES ASSUME Init
             PROVE  TypeOK
  OBVIOUS
<1>1. denials \in 0 .. MaxDenials /\ opens \in [Sids -> 0 .. MaxOpens]
  BY BoundsAssumption DEF Init
<1>2. /\ events \in [Peers -> Seq(ResetEvent)]
      /\ opening \in [Peers -> Seq(Sids)]
  BY DEF Init
<1> QED BY <1>1, <1>2, SidsAssumption, ConnectedAssumption DEF Init, TypeOK

(* Every reachable state of two endpoints is well typed: no handler leaves *)
(* a flag behind for a stream whose status it erased.                      *)
THEOREM TypeCorrect == Spec => []TypeOK
<1>1. Init => TypeOK
  BY TypeInit
<1>2. TypeOK /\ [Next]_vars => TypeOK'
  BY TypeStep
<1> QED BY <1>1, <1>2, PTL DEF Spec

-----------------------------------------------------------------------------
(* No stream waiting for its outgoing reset is forgotten.                  *)

(* The part of NoForgottenReset about one endpoint, and the inductive      *)
(* invariant: an endpoint that started with a socket keeps it.             *)
Served(p) == need_outgoing_reset(p) # {} => request[p] # {} \/ events[p] # <<>>

ServedInv == /\ \A p \in Peers : connected[p]
             /\ \A p \in Peers : Served(p)

(* After SendQueuedStreamResets, called with all streams in need, nothing  *)
(* is in need any more or a request is outstanding.                        *)
LEMMA SendQueuedServes ==
  ASSUME TypeOK, NEW p \in Peers, connected[p],
         NEW need \in SUBSET Sids, NEW initiated \in SUBSET Sids,
         SendQueuedStreamResets(p, need, initiated),
         (incoming_reset_complete'[p] \cup closure_initiated'[p])
             \ initiated \subseteq need
  PROVE  need_outgoing_reset(p)' = {} \/ request'[p] # {}
<1>1. CASE need # {} /\ request[p] = {}
  BY <1>1 DEF TypeOK, SendQueuedStreamResets
<1>2. CASE request[p] # {}
  BY <1>2 DEF TypeOK, SendQueuedStreamResets
<1>3. CASE need = {}
  <2>1. outgoing_reset_initiated'[p] = initiated
    BY <1>3 DEF TypeOK, SendQueuedStreamResets
  <2> QED BY <1>3, <2>1 DEF need_outgoing_reset
<1> QED BY <1>1, <1>2, <1>3

(* SendQueuedStreamResets changes nothing of the other endpoint.           *)
LEMMA SendQueuedFrame ==
  ASSUME TypeOK, NEW p \in Peers, NEW q \in Peers, p # q,
         NEW need, NEW initiated, SendQueuedStreamResets(p, need, initiated)
  PROVE  /\ request'[q] = request[q]
         /\ outgoing_reset_initiated'[q] = outgoing_reset_initiated[q]
  BY DEF TypeOK, SendQueuedStreamResets

(* A step that leaves an endpoint's part alone keeps it served.            *)
LEMMA ServedFrame ==
  ASSUME NEW q \in Peers, Served(q),
         closure_initiated'[q] = closure_initiated[q],
         incoming_reset_complete'[q] = incoming_reset_complete[q],
         outgoing_reset_initiated'[q] = outgoing_reset_initiated[q],
         request'[q] = request[q], events'[q] = events[q]
  PROVE  Served(q)'
  BY DEF Served, need_outgoing_reset

(* Posting a notification serves the endpoint it goes to.                  *)
LEMMA NotifyServes ==
  ASSUME TypeOK, NEW p \in Peers, NEW flags, NEW sids, Notify(p, flags, sids)
  PROVE  /\ events'[p] # <<>>
         /\ \A q \in Peers : q # p => events'[q] = events[q]
<1> DEFINE e == [flags |-> flags, sids |-> sids]
<1>1. events \in [Peers -> Seq(ResetEvent)]
  BY DEF TypeOK
<1>2. events' = [events EXCEPT ![p] = Append(@, e)]
  BY DEF Notify
<1> HIDE DEF e
<1>3. Append(events[p], e) # <<>>
  BY <1>1
<1> QED BY <1>1, <1>2, <1>3

(* Every step keeps both endpoints served.                                 *)
LEMMA ServedStep == TypeOK /\ ServedInv /\ [Next]_vars => ServedInv'
<1> SUFFICES ASSUME TypeOK, ServedInv, [Next]_vars
             PROVE  ServedInv'
  OBVIOUS
<1>1. CASE UNCHANGED vars
  BY <1>1 DEF ServedInv, Served, need_outgoing_reset,
              vars, statusVars, usrsctpVars, channelVars
<1>2. ASSUME NEW p \in Peers, NEW s \in Sids, OpenChannel(p, s)
      PROVE  ServedInv'
  BY <1>2 DEF ServedInv, Served, need_outgoing_reset, OpenChannel, OpenStream,
              usrsctpVars
<1>3. ASSUME NEW p \in Peers, HandleOpenMessage(p)
      PROVE  ServedInv'
  BY <1>3 DEF ServedInv, Served, need_outgoing_reset, HandleOpenMessage,
              OpenStream, usrsctpVars
<1>4. ASSUME NEW p \in Peers, NEW s \in Sids, ResetStream(p, s)
      PROVE  ServedInv'
  <2> DEFINE need == need_outgoing_reset(p)
                         \cup ({s} \ outgoing_reset_initiated[p])
  <2>1. need \in SUBSET Sids /\ outgoing_reset_initiated[p] \in SUBSET Sids
    BY DEF TypeOK, need_outgoing_reset
  <2>2. SendQueuedStreamResets(p, need, outgoing_reset_initiated[p])
    BY <1>4 DEF ResetStream
  <2>3. (incoming_reset_complete'[p] \cup closure_initiated'[p])
            \ outgoing_reset_initiated[p] \subseteq need
    BY <1>4 DEF TypeOK, ResetStream, need_outgoing_reset
  <2>4. Served(p)'
    <3>1. need_outgoing_reset(p)' = {} \/ request'[p] # {}
      BY <2>1, <2>2, <2>3, SendQueuedServes DEF ServedInv
    <3> QED BY <3>1 DEF Served
  <2> HIDE DEF need
  <2>5. ASSUME NEW q \in Peers, q # p
        PROVE  Served(q)'
    <3>1. /\ request'[q] = request[q]
          /\ outgoing_reset_initiated'[q] = outgoing_reset_initiated[q]
      BY <2>2, <2>5, SendQueuedFrame
    <3>2. /\ closure_initiated'[q] = closure_initiated[q]
          /\ incoming_reset_complete'[q] = incoming_reset_complete[q]
          /\ events'[q] = events[q]
      BY <1>4, <2>5 DEF TypeOK, ResetStream
    <3> QED BY <3>1, <3>2, ServedFrame DEF ServedInv
  <2> QED BY <1>4, <2>4, <2>5 DEF ServedInv, ResetStream
<1>5. ASSUME NEW p \in Peers, ResetFailed(p)
      PROVE  ServedInv'
  <2> DEFINE need == incoming_reset_complete[p] \cup closure_initiated[p]
  <2>1. need \in SUBSET Sids
    BY DEF TypeOK
  <2>2. SendQueuedStreamResets(p, need, {})
    BY <1>5 DEF ResetFailed
  <2>3. (incoming_reset_complete'[p] \cup closure_initiated'[p]) \ {}
            \subseteq need
    BY <1>5 DEF ResetFailed
  <2>4. Served(p)'
    <3>1. need_outgoing_reset(p)' = {} \/ request'[p] # {}
      BY <2>1, <2>2, <2>3, SendQueuedServes DEF ServedInv
    <3> QED BY <3>1 DEF Served
  <2> HIDE DEF need
  <2>5. ASSUME NEW q \in Peers, q # p
        PROVE  Served(q)'
    <3>1. /\ request'[q] = request[q]
          /\ outgoing_reset_initiated'[q] = outgoing_reset_initiated[q]
      BY <2>2, <2>5, SendQueuedFrame
    <3>2. /\ closure_initiated'[q] = closure_initiated[q]
          /\ incoming_reset_complete'[q] = incoming_reset_complete[q]
          /\ events'[q] = events[q]
      BY <1>5, <2>5 DEF TypeOK, ResetFailed
    <3> QED BY <3>1, <3>2, ServedFrame DEF ServedInv
  <2> QED BY <1>5, <2>4, <2>5 DEF ServedInv, ResetFailed
<1>6. ASSUME NEW p \in Peers, IncomingReset(p)
      PROVE  ServedInv'
  <2> DEFINE sids == Head(events[p]).sids \cap known[p]
             done == sids \cap outgoing_reset_complete[p]
             need == (need_outgoing_reset(p)
                         \cup (sids \ outgoing_reset_initiated[p])) \ done
             initiated == outgoing_reset_initiated[p] \ done
  <2>1. need \in SUBSET Sids /\ initiated \in SUBSET Sids
    BY DEF TypeOK, need_outgoing_reset
  <2>2. SendQueuedStreamResets(p, need, initiated)
    BY <1>6 DEF IncomingReset, reset_complete
  <2>3. (incoming_reset_complete'[p] \cup closure_initiated'[p])
            \ initiated \subseteq need
    <3>1. /\ closure_initiated'[p] = closure_initiated[p] \ done
          /\ incoming_reset_complete'[p] =
                 (incoming_reset_complete[p] \cup sids) \ done
      BY <1>6 DEF TypeOK, IncomingReset, reset_complete, Finish
    <3> QED BY <3>1 DEF need_outgoing_reset
  <2>4. Served(p)'
    <3>1. need_outgoing_reset(p)' = {} \/ request'[p] # {}
      BY <2>1, <2>2, <2>3, SendQueuedServes DEF ServedInv
    <3> QED BY <3>1 DEF Served
  <2> HIDE DEF need, initiated
  <2>5. ASSUME NEW q \in Peers, q # p
        PROVE  Served(q)'
    <3>1. /\ request'[q] = request[q]
          /\ outgoing_reset_initiated'[q] = outgoing_reset_initiated[q]
      BY <2>2, <2>5, SendQueuedFrame
    <3>2. /\ closure_initiated'[q] = closure_initiated[q]
          /\ incoming_reset_complete'[q] = incoming_reset_complete[q]
          /\ events'[q] = events[q]
      BY <1>6, <2>5 DEF TypeOK, IncomingReset, Finish
    <3> QED BY <3>1, <3>2, ServedFrame DEF ServedInv
  <2> QED BY <1>6, <2>4, <2>5 DEF ServedInv, IncomingReset
<1>7. ASSUME NEW p \in Peers, OutgoingReset(p)
      PROVE  ServedInv'
  <2> DEFINE sids == Head(events[p]).sids \cap known[p]
             done == sids \cap incoming_reset_complete[p]
             need == need_outgoing_reset(p) \ done
             initiated == outgoing_reset_initiated[p] \ done
  <2>1. need \in SUBSET Sids /\ initiated \in SUBSET Sids
    BY DEF TypeOK, need_outgoing_reset
  <2>2. SendQueuedStreamResets(p, need, initiated)
    BY <1>7 DEF OutgoingReset, reset_complete
  <2>3. (incoming_reset_complete'[p] \cup closure_initiated'[p])
            \ initiated \subseteq need
    <3>1. /\ closure_initiated'[p] = closure_initiated[p] \ done
          /\ incoming_reset_complete'[p] = incoming_reset_complete[p] \ done
      BY <1>7 DEF TypeOK, OutgoingReset, reset_complete, Finish
    <3> QED BY <3>1 DEF need_outgoing_reset
  <2>4. Served(p)'
    <3>1. need_outgoing_reset(p)' = {} \/ request'[p] # {}
      BY <2>1, <2>2, <2>3, SendQueuedServes DEF ServedInv
    <3> QED BY <3>1 DEF Served
  <2> HIDE DEF need, initiated
  <2>5. ASSUME NEW q \in Peers, q # p
        PROVE  Served(q)'
    <3>1. /\ request'[q] = request[q]
          /\ outgoing_reset_initiated'[q] = outgoing_reset_initiated[q]
      BY <2>2, <2>5, SendQueuedFrame
    <3>2. /\ closure_initiated'[q] = closure_initiated[q]
          /\ incoming_reset_complete'[q] = incoming_reset_complete[q]
          /\ events'[q] = events[q]
      BY <1>7, <2>5 DEF TypeOK, OutgoingReset, Finish
    <3> QED BY <3>1, <3>2, ServedFrame DEF ServedInv
  <2> QED BY <1>7, <2>4, <2>5 DEF ServedInv, OutgoingReset
<1>8. ASSUME NEW p \in Peers, Connect(p)
      PROVE  ServedInv'
  BY <1>8 DEF ServedInv, Connect
<1>9. ASSUME NEW p \in Peers, PerformReset(p)
      PROVE  ServedInv'
  <2>1. \A q \in Peers : events[q] # <<>> => events'[q] # <<>>
    BY <1>9, OtherPeer, NotifyServes DEF PerformReset
  <2> QED BY <1>9, <2>1 DEF ServedInv, Served, need_outgoing_reset, PerformReset,
                            statusVars
<1>10. ASSUME NEW p \in Peers, DenyReset(p)
       PROVE  ServedInv'
  <2>1. events'[p] # <<>> /\ \A q \in Peers : q # p => events'[q] = events[q]
    BY <1>10, NotifyServes DEF DenyReset
  <2>2. \A q \in Peers : q # p => request'[q] = request[q]
    BY <1>10 DEF TypeOK, DenyReset
  <2> QED BY <1>10, <2>1, <2>2 DEF ServedInv, Served, need_outgoing_reset,
                                   DenyReset, statusVars
<1>11. ASSUME NEW p \in Peers, ReceiveResponse(p)
       PROVE  ServedInv'
  <2>1. events'[p] # <<>> /\ \A q \in Peers : q # p => events'[q] = events[q]
    BY <1>11, NotifyServes DEF ReceiveResponse
  <2>2. \A q \in Peers : q # p => request'[q] = request[q]
    BY <1>11 DEF TypeOK, ReceiveResponse
  <2> QED BY <1>11, <2>1, <2>2 DEF ServedInv, Served, need_outgoing_reset,
                                   ReceiveResponse, statusVars
<1> QED BY <1>1, <1>2, <1>3, <1>4, <1>5, <1>6, <1>7, <1>8, <1>9, <1>10, <1>11
        DEF Next, OnStreamResetEvent

(* With a socket from the start, a stream that needs an outgoing reset     *)
(* always has an outstanding request or a notification to come that will   *)
(* call SendQueuedStreamResets again: a failed setsockopt never strands it.*)
THEOREM ResetsAreNotForgotten == Spec => []NoForgottenReset
<1>1. CASE StartConnected
  <2>1. Init => TypeOK /\ ServedInv
    <3>1. Init => ServedInv
      BY <1>1 DEF Init, ServedInv, Served, need_outgoing_reset
    <3> QED BY <3>1, TypeInit
  <2>2. TypeOK /\ ServedInv /\ [Next]_vars => TypeOK' /\ ServedInv'
    BY TypeStep, ServedStep
  <2>3. ServedInv => NoForgottenReset
    BY DEF ServedInv, Served, NoForgottenReset
  <2> QED BY <2>1, <2>2, <2>3, PTL DEF Spec
<1>2. CASE ~StartConnected
  <2>1. NoForgottenReset
    BY <1>2 DEF NoForgottenReset
  <2> QED BY <2>1, PTL
<1> QED BY <1>1, <1>2

-----------------------------------------------------------------------------
(* No initiated reset is lost.                                             *)

(* The part of InitiatedResetIsOutstanding about one stream of one         *)
(* endpoint.                                                               *)
Notified(p, s) == \E i \in 1 .. Len(events[p]) : Outcome(events[p][i], s)

Outstanding(p) ==
    \A s \in outgoing_reset_initiated[p] \ outgoing_reset_complete[p] :
        s \in request[p] \/ Notified(p, s)

(* Posting a notification keeps the outcomes under way and adds its own.   *)
LEMMA NotifyKeeps ==
  ASSUME TypeOK, NEW p \in Peers, NEW sids \in SUBSET Sids,
         NEW flags \in {"INCOMING_SSN", "OUTGOING_SSN", "FAILED"},
         Notify(p, flags, sids), NEW q \in Peers, NEW s
  PROVE  /\ Notified(q, s) => Notified(q, s)'
         /\ Outcome([flags |-> flags, sids |-> sids], s) => Notified(p, s)'
<1> DEFINE e == [flags |-> flags, sids |-> sids]
<1>1. e \in ResetEvent
  BY DEF ResetEvent
<1>2. events \in [Peers -> Seq(ResetEvent)]
  BY DEF TypeOK
<1>3. events' = [events EXCEPT ![p] = Append(@, e)]
  BY DEF Notify
<1> HIDE DEF e
<1>4. /\ events'[p] = Append(events[p], e)
      /\ q # p => events'[q] = events[q]
      /\ events[p] \in Seq(ResetEvent)
  BY <1>2, <1>3
<1>5. ASSUME Notified(p, s)
      PROVE  Notified(p, s)'
  <2>1. PICK i \in 1 .. Len(events[p]) : Outcome(events[p][i], s)
    BY <1>5 DEF Notified
  <2>2. i \in 1 .. Len(events'[p]) /\ events'[p][i] = events[p][i]
    BY <1>1, <1>4, AppendKeeps
  <2> QED BY <2>1, <2>2 DEF Notified, Outcome
<1>6. ASSUME Outcome(e, s)
      PROVE  Notified(p, s)'
  <2>1. /\ Len(events'[p]) \in 1 .. Len(events'[p])
        /\ events'[p][Len(events'[p])] = e
    BY <1>1, <1>4, AppendAdds
  <2> QED BY <1>6, <2>1 DEF Notified, Outcome
<1>7. q # p /\ Notified(q, s) => Notified(q, s)'
  BY <1>4 DEF Notified, Outcome
<1> QED BY <1>5, <1>6, <1>7 DEF e

(* Handling a notification that is no outcome for s keeps the outcomes     *)
(* for s under way.                                                        *)
LEMMA TakeKeeps ==
  ASSUME TypeOK, NEW p \in Peers, events[p] # <<>>,
         events' = [events EXCEPT ![p] = Tail(@)], NEW q \in Peers, NEW s,
         Notified(q, s), q = p => ~Outcome(Head(events[p]), s)
  PROVE  Notified(q, s)'
<1>1. events[p] \in Seq(ResetEvent)
  BY DEF TypeOK
<1>2. events'[p] = Tail(events[p]) /\ (q # p => events'[q] = events[q])
  BY DEF TypeOK
<1>3. CASE q # p
  BY <1>2, <1>3 DEF Notified, Outcome
<1>4. CASE q = p
  <2>1. PICK i \in 1 .. Len(events[p]) : Outcome(events[p][i], s)
    BY <1>4 DEF Notified
  <2>2. events[p][i] # Head(events[p])
    BY <1>4, <2>1
  <2>3. PICK j \in 1 .. Len(Tail(events[p])) : Tail(events[p])[j] = events[p][i]
    BY <1>1, <2>2, TailKeeps
  <2> QED BY <1>2, <1>4, <2>1, <2>3 DEF Notified, Outcome
<1> QED BY <1>3, <1>4

(* Streams newly marked by SendQueuedStreamResets are in its request, and  *)
(* it replaces no request that is outstanding.                             *)
LEMMA SendQueuedMarks ==
  ASSUME TypeOK, NEW p \in Peers, NEW need \in SUBSET Sids,
         NEW initiated \in SUBSET Sids,
         SendQueuedStreamResets(p, need, initiated), NEW q \in Peers
  PROVE  /\ request[q] \subseteq request'[q]
         /\ q = p => \A s \in outgoing_reset_initiated'[q] :
                         s \in initiated \/ s \in request'[q]
         /\ q # p => outgoing_reset_initiated'[q] = outgoing_reset_initiated[q]
<1>1. CASE q # p
  BY <1>1, SendQueuedFrame
<1>2. CASE q = p /\ need # {} /\ connected[p] /\ request[p] = {}
  BY <1>2 DEF TypeOK, SendQueuedStreamResets
<1>3. CASE q = p /\ ~(need # {} /\ connected[p] /\ request[p] = {})
  <2>1. request'[p] = request[p] /\ outgoing_reset_initiated'[p] = initiated
    BY <1>3 DEF TypeOK, SendQueuedStreamResets
  <2> QED BY <1>3, <2>1
<1> QED BY <1>1, <1>2, <1>3

(* Every step keeps every initiated reset outstanding.                     *)
LEMMA OutstandingStep ==
  ASSUME TypeOK, \A p \in Peers : Outstanding(p), [Next]_vars
  PROVE  \A p \in Peers : Outstanding(p)'
<1> SUFFICES ASSUME NEW q \in Peers, Outstanding(q)
             PROVE  Outstanding(q)'
  OBVIOUS
<1>1. CASE UNCHANGED vars
  BY <1>1 DEF Outstanding, Notified, Outcome, vars, statusVars, usrsctpVars
<1>2. ASSUME NEW p \in Peers, NEW s \in Sids, OpenChannel(p, s)
      PROVE  Outstanding(q)'
  BY <1>2 DEF Outstanding, Notified, Outcome, OpenChannel, OpenStream,
              usrsctpVars
<1>3. ASSUME NEW p \in Peers, HandleOpenMessage(p)
      PROVE  Outstanding(q)'
  BY <1>3 DEF Outstanding, Notified, Outcome, HandleOpenMessage, OpenStream,
              usrsctpVars
<1>4. ASSUME NEW p \in Peers, NEW s \in Sids, ResetStream(p, s)
      PROVE  Outstanding(q)'
  <2> DEFINE need == need_outgoing_reset(p)
                         \cup ({s} \ outgoing_reset_initiated[p])
  <2>1. need \in SUBSET Sids /\ outgoing_reset_initiated[p] \in SUBSET Sids
    BY DEF TypeOK, need_outgoing_reset
  <2>2. SendQueuedStreamResets(p, need, outgoing_reset_initiated[p])
    BY <1>4 DEF ResetStream
  <2> HIDE DEF need
  <2>3. /\ request[q] \subseteq request'[q]
        /\ \A t \in outgoing_reset_initiated'[q] :
               t \in outgoing_reset_initiated[q] \/ t \in request'[q]
    BY <2>1, <2>2, SendQueuedMarks
  <2>4. UNCHANGED <<events, outgoing_reset_complete>>
    BY <1>4 DEF ResetStream
  <2> QED BY <2>3, <2>4 DEF Outstanding, Notified, Outcome
<1>5. ASSUME NEW p \in Peers, ResetFailed(p)
      PROVE  Outstanding(q)'
  <2> DEFINE need == incoming_reset_complete[p] \cup closure_initiated[p]
  <2>1. need \in SUBSET Sids
    BY DEF TypeOK
  <2>2. SendQueuedStreamResets(p, need, {})
    BY <1>5 DEF ResetFailed
  <2> HIDE DEF need
  <2>3. /\ request[q] \subseteq request'[q]
        /\ q = p => \A t \in outgoing_reset_initiated'[q] : t \in request'[q]
        /\ q # p => outgoing_reset_initiated'[q] = outgoing_reset_initiated[q]
    <3> DEFINE none == {}
    <3>1. none \in SUBSET Sids /\ SendQueuedStreamResets(p, need, none)
      BY <2>2
    <3>2. \A t : t \notin none
      OBVIOUS
    <3> HIDE DEF none
    <3> QED BY <2>1, <3>1, <3>2, SendQueuedMarks
  <2>4. /\ events[p] # <<>>
        /\ events' = [events EXCEPT ![p] = Tail(@)]
        /\ UNCHANGED outgoing_reset_complete
    BY <1>5 DEF ResetFailed
  <2>5. \A t : q # p /\ Notified(q, t) => Notified(q, t)'
    BY <2>4, TakeKeeps
  <2> QED BY <2>3, <2>4, <2>5 DEF Outstanding
<1>6. ASSUME NEW p \in Peers, IncomingReset(p)
      PROVE  Outstanding(q)'
  <2> DEFINE sids == Head(events[p]).sids \cap known[p]
             done == sids \cap outgoing_reset_complete[p]
             need == (need_outgoing_reset(p)
                         \cup (sids \ outgoing_reset_initiated[p])) \ done
             initiated == outgoing_reset_initiated[p] \ done
  <2>1. need \in SUBSET Sids /\ initiated \in SUBSET Sids
    BY DEF TypeOK, need_outgoing_reset
  <2>2. SendQueuedStreamResets(p, need, initiated)
    BY <1>6 DEF IncomingReset, reset_complete
  <2>3. /\ events[p] # <<>> /\ Head(events[p]).flags = "INCOMING_SSN"
        /\ events' = [events EXCEPT ![p] = Tail(@)]
    BY <1>6 DEF IncomingReset
  <2>4. /\ q = p => outgoing_reset_complete'[q] =
                        outgoing_reset_complete[q] \ done
        /\ q # p => outgoing_reset_complete'[q] = outgoing_reset_complete[q]
    BY <1>6 DEF TypeOK, IncomingReset, reset_complete
  <2> HIDE DEF need
  <2>5. /\ request[q] \subseteq request'[q]
        /\ q = p => \A t \in outgoing_reset_initiated'[q] :
                        t \in initiated \/ t \in request'[q]
        /\ q # p => outgoing_reset_initiated'[q] = outgoing_reset_initiated[q]
    BY <2>1, <2>2, SendQueuedMarks
  <2>6. \A t : Notified(q, t) => Notified(q, t)'
    <3>1. \A t : ~Outcome(Head(events[p]), t)
      BY <2>3 DEF Outcome
    <3> QED BY <2>3, <3>1, TakeKeeps
  <2> QED BY <2>4, <2>5, <2>6 DEF Outstanding
<1>7. ASSUME NEW p \in Peers, OutgoingReset(p)
      PROVE  Outstanding(q)'
  <2> DEFINE sids == Head(events[p]).sids \cap known[p]
             done == sids \cap incoming_reset_complete[p]
             need == need_outgoing_reset(p) \ done
             initiated == outgoing_reset_initiated[p] \ done
  <2>1. need \in SUBSET Sids /\ initiated \in SUBSET Sids
    BY DEF TypeOK, need_outgoing_reset
  <2>2. SendQueuedStreamResets(p, need, initiated)
    BY <1>7 DEF OutgoingReset, reset_complete
  <2>3. /\ events[p] # <<>> /\ Head(events[p]).flags = "OUTGOING_SSN"
        /\ events' = [events EXCEPT ![p] = Tail(@)]
    BY <1>7 DEF OutgoingReset
  <2>4. /\ q = p => outgoing_reset_complete'[q] =
                        (outgoing_reset_complete[q] \cup sids) \ done
        /\ q # p => outgoing_reset_complete'[q] = outgoing_reset_complete[q]
    BY <1>7 DEF TypeOK, OutgoingReset, reset_complete
  <2> HIDE DEF need
  <2>5. /\ request[q] \subseteq request'[q]
        /\ q = p => \A t \in outgoing_reset_initiated'[q] :
                        t \in initiated \/ t \in request'[q]
        /\ q # p => outgoing_reset_initiated'[q] = outgoing_reset_initiated[q]
    BY <2>1, <2>2, SendQueuedMarks
  <2>6. ASSUME NEW t, Notified(q, t), q = p => t \notin Head(events[p]).sids
        PROVE  Notified(q, t)'
    <3>1. q = p => ~Outcome(Head(events[p]), t)
      BY <2>3, <2>6 DEF Outcome
    <3> QED BY <2>3, <2>6, <3>1, TakeKeeps
  <2>7. outgoing_reset_initiated[q] \subseteq known[q]
    BY DEF TypeOK
  <2>8. CASE q # p
    BY <2>4, <2>5, <2>6, <2>8 DEF Outstanding
  <2>9. CASE q = p
    <3> SUFFICES ASSUME NEW t \in outgoing_reset_initiated'[q],
                        t \notin outgoing_reset_complete'[q],
                        t \notin request'[q]
                 PROVE  Notified(q, t)'
      BY DEF Outstanding
    <3>1. t \in outgoing_reset_initiated[q] /\ t \notin done
      BY <2>5, <2>9
    <3>2. t \notin sids /\ t \notin outgoing_reset_complete[q]
      BY <2>4, <2>9, <3>1
    <3>3. t \notin Head(events[p]).sids
      BY <2>7, <2>9, <3>1, <3>2
    <3>4. Notified(q, t)
      BY <2>5, <3>1, <3>2 DEF Outstanding
    <3> QED BY <2>6, <3>3, <3>4
  <2> QED BY <2>8, <2>9
<1>8. ASSUME NEW p \in Peers, Connect(p)
      PROVE  Outstanding(q)'
  BY <1>8 DEF Outstanding, Notified, Outcome, Connect, statusVars, usrsctpVars
<1>9. ASSUME NEW p \in Peers, PerformReset(p)
      PROVE  Outstanding(q)'
  <2>1. request[p] \in SUBSET Sids
    BY DEF TypeOK
  <2>2. \A t : Notified(q, t) => Notified(q, t)'
    BY <1>9, <2>1, OtherPeer, NotifyKeeps DEF PerformReset
  <2> QED BY <1>9, <2>2 DEF Outstanding, PerformReset, statusVars
<1>10. ASSUME NEW p \in Peers, DenyReset(p)
       PROVE  Outstanding(q)'
  <2>1. \A t : Notified(q, t) => Notified(q, t)'
    BY <1>10, NotifyKeeps DEF DenyReset
  <2>2. \A t : Notified(p, t)'
    <3>1. \A t : Outcome([flags |-> "FAILED", sids |-> {}], t)
      BY DEF Outcome
    <3> QED BY <1>10, <3>1, NotifyKeeps DEF DenyReset
  <2>3. q # p => request'[q] = request[q]
    BY <1>10 DEF TypeOK, DenyReset
  <2> QED BY <1>10, <2>1, <2>2, <2>3 DEF Outstanding, DenyReset, statusVars
<1>11. ASSUME NEW p \in Peers, ReceiveResponse(p)
       PROVE  Outstanding(q)'
  <2>1. request[p] \in SUBSET Sids
    BY DEF TypeOK
  <2>2. \A t : Notified(q, t) => Notified(q, t)'
    BY <1>11, <2>1, NotifyKeeps DEF ReceiveResponse
  <2>3. \A t \in request[p] : Notified(p, t)'
    <3>1. \A t \in request[p] :
              Outcome([flags |-> "OUTGOING_SSN", sids |-> request[p]], t)
      BY DEF Outcome
    <3> QED BY <1>11, <2>1, <3>1, NotifyKeeps DEF ReceiveResponse
  <2>4. q # p => request'[q] = request[q]
    BY <1>11 DEF TypeOK, ReceiveResponse
  <2> QED BY <1>11, <2>2, <2>3, <2>4
             DEF Outstanding, ReceiveResponse, statusVars
<1> QED BY <1>1, <1>2, <1>3, <1>4, <1>5, <1>6, <1>7, <1>8, <1>9, <1>10, <1>11
        DEF Next, OnStreamResetEvent

(* An outgoing reset that was initiated and is not complete is always part *)
(* of the outstanding request or of a notification to come, whatever is    *)
(* refused, opened again or overlaps: no reset request is lost.            *)
THEOREM InitiatedResetsAreNotLost == Spec => []InitiatedResetIsOutstanding
<1> DEFINE Inv == \A p \in Peers : Outstanding(p)
<1>1. Init => TypeOK /\ Inv
  <2>1. Init => Inv
    BY DEF Init, Outstanding
  <2> QED BY <2>1, TypeInit
<1>2. TypeOK /\ Inv /\ [Next]_vars => TypeOK' /\ Inv'
  BY TypeStep, OutstandingStep
<1>3. Inv => InitiatedResetIsOutstanding
  BY DEF Outstanding, Notified, InitiatedResetIsOutstanding
<1> HIDE DEF Inv
<1> QED BY <1>1, <1>2, <1>3, PTL DEF Spec

-----------------------------------------------------------------------------
(* No stream stays in the map with both directions reset.                  *)

(* Each handler that completes a direction drops the streams whose other   *)
(* direction was complete; all other steps leave both sets alone.          *)
LEMMA CompleteStep ==
  ASSUME TypeOK, CompleteStreamsAreGone, [Next]_vars
  PROVE  CompleteStreamsAreGone'
<1> SUFFICES ASSUME NEW q \in Peers
             PROVE  (outgoing_reset_complete[q]
                         \cap incoming_reset_complete[q] = {})'
  BY DEF CompleteStreamsAreGone
<1>1. outgoing_reset_complete[q] \cap incoming_reset_complete[q] = {}
  BY DEF CompleteStreamsAreGone
<1>2. CASE UNCHANGED <<outgoing_reset_complete, incoming_reset_complete>>
  BY <1>1, <1>2
<1>3. ASSUME NEW p \in Peers, IncomingReset(p)
      PROVE  outgoing_reset_complete'[q] \cap incoming_reset_complete'[q] = {}
  BY <1>1, <1>3 DEF TypeOK, IncomingReset, reset_complete
<1>4. ASSUME NEW p \in Peers, OutgoingReset(p)
      PROVE  outgoing_reset_complete'[q] \cap incoming_reset_complete'[q] = {}
  BY <1>1, <1>4 DEF TypeOK, OutgoingReset, reset_complete
<1>5. \/ UNCHANGED <<outgoing_reset_complete, incoming_reset_complete>>
      \/ \E p \in Peers : IncomingReset(p) \/ OutgoingReset(p)
  BY DEF Next, vars, statusVars, OpenChannel, OpenStream, ResetStream,
         HandleOpenMessage, OnStreamResetEvent, ResetFailed, Connect,
         PerformReset, DenyReset, ReceiveResponse
<1> QED BY <1>2, <1>3, <1>4, <1>5

(* A stream whose two directions are reset has left the map at every       *)
(* endpoint: OnStreamResetEvent never leaves a completed entry behind that *)
(* would block its id.                                                     *)
THEOREM CompleteStreamsLeave == Spec => []CompleteStreamsAreGone
<1>1. Init => TypeOK /\ CompleteStreamsAreGone
  <2>1. Init => CompleteStreamsAreGone
    BY DEF Init, CompleteStreamsAreGone
  <2> QED BY <2>1, TypeInit
<1>2. TypeOK /\ CompleteStreamsAreGone /\ [Next]_vars
          => TypeOK' /\ CompleteStreamsAreGone'
  BY TypeStep, CompleteStep
<1> QED BY <1>1, <1>2, PTL DEF Spec

-----------------------------------------------------------------------------
(* The two endpoints agree.  A stream that nobody opens again stops being  *)
(* open at an endpoint before the endpoint's request for it goes out, and  *)
(* stays so; everything the other endpoint learns of the stream comes from *)
(* such a request.                                                         *)

(* The endpoint is closing the stream or done with it.                     *)
Over(p, s) == s \notin known[p] \/ ~is_open(p, s)

(* The peer reset the stream: the notification is on its way to p.         *)
IncomingFor(p, s) ==
    \E i \in 1 .. Len(events[p]) :
        events[p][i].flags = "INCOMING_SSN" /\ s \in events[p][i].sids

(* No OPEN message for the stream is on its way.                           *)
NoOpenMessage(s) ==
    \A p \in Peers : \A i \in 1 .. Len(opening[p]) : opening[p][i] # s

Agreed(s) ==
    /\ NoOpenMessage(s)
    /\ \A p \in Peers :
           /\ s \in request[p] => Over(p, s)
           /\ IncomingFor(p, s) => Over(Other(p), s)
           /\ s \in incoming_reset_complete[p] => Over(Other(p), s)
           /\ s \notin known[p] => Over(Other(p), s)

AgreedInv == \A s \in Preopened : opens[s] = 0 => Agreed(s)

(* A stream that was never opened again was not before, either, and no     *)
(* OPEN message for it goes out.                                           *)
LEMMA OpensStep ==
  ASSUME TypeOK, [Next]_vars, NEW s \in Sids, opens'[s] = 0
  PROVE  /\ opens[s] = 0
         /\ NoOpenMessage(s) => NoOpenMessage(s)'
<1>1. CASE UNCHANGED <<opening, opens>>
  BY <1>1 DEF NoOpenMessage
<1>2. ASSUME NEW p \in Peers, NEW t \in Sids, OpenChannel(p, t)
      PROVE  /\ opens[s] = 0
             /\ NoOpenMessage(s) => NoOpenMessage(s)'
  <2>1. opens \in [Sids -> 0 .. MaxOpens]
        /\ opens' = [opens EXCEPT ![t] = opens[t] + 1]
    BY <1>2 DEF TypeOK, OpenChannel
  <2>2. t # s /\ opens[s] = 0
    BY <2>1, BoundsAssumption
  <2>3. /\ opening' = [opening EXCEPT ![Other(p)] = Append(opening[Other(p)], t)]
        /\ Other(p) \in Peers /\ opening \in [Peers -> Seq(Sids)]
    BY <1>2, OtherPeer DEF TypeOK, OpenChannel
  <2>4. ASSUME NoOpenMessage(s), NEW q \in Peers,
               NEW i \in 1 .. Len(opening'[q])
        PROVE  opening'[q][i] # s
    <3>1. CASE q # Other(p)
      BY <2>3, <2>4, <3>1 DEF NoOpenMessage
    <3>2. CASE q = Other(p)
      <4>1. opening[q] \in Seq(Sids) /\ opening'[q] = Append(opening[q], t)
        BY <2>3, <3>2
      <4>2. \/ i \in 1 .. Len(opening[q]) /\ opening'[q][i] = opening[q][i]
            \/ opening'[q][i] = t
        BY <4>1
      <4> QED BY <2>2, <2>4, <4>2 DEF NoOpenMessage
    <3> QED BY <3>1, <3>2
  <2> QED BY <2>2, <2>4 DEF NoOpenMessage
<1>3. ASSUME NEW p \in Peers, HandleOpenMessage(p)
      PROVE  /\ opens[s] = 0
             /\ NoOpenMessage(s) => NoOpenMessage(s)'
  <2>1. /\ opening' = [opening EXCEPT ![p] = Tail(opening[p])]
        /\ opening \in [Peers -> Seq(Sids)] /\ opening[p] # <<>>
        /\ UNCHANGED opens
    BY <1>3 DEF TypeOK, HandleOpenMessage
  <2>2. ASSUME NoOpenMessage(s), NEW q \in Peers,
               NEW i \in 1 .. Len(opening'[q])
        PROVE  opening'[q][i] # s
    <3>1. CASE q # p
      BY <2>1, <2>2, <3>1 DEF NoOpenMessage
    <3>2. CASE q = p
      <4>1. /\ opening[q] \in Seq(Sids) /\ opening'[q] = Tail(opening[q])
            /\ opening[q] # <<>>
        BY <2>1, <3>2
      <4>2. /\ i + 1 \in 1 .. Len(opening[q])
            /\ opening'[q][i] = opening[q][i + 1]
        BY <4>1, TailShifts
      <4> QED BY <2>2, <4>2 DEF NoOpenMessage
    <3> QED BY <3>1, <3>2
  <2> QED BY <2>1, <2>2 DEF NoOpenMessage
<1> QED
  BY <1>1, <1>2, <1>3
  DEF Next, vars, channelVars, OnStreamResetEvent, ResetStream, ResetFailed,
      IncomingReset, OutgoingReset, Connect, PerformReset, DenyReset,
      ReceiveResponse

(* A stream that is closing or gone stays so.                              *)
LEMMA OverStays ==
  ASSUME TypeOK, [Next]_vars, NEW s \in Sids, opens'[s] = 0,
         NoOpenMessage(s), NEW q \in Peers, Over(q, s)
  PROVE  Over(q, s)'
<1>1. CASE UNCHANGED statusVars
  BY <1>1 DEF statusVars, Over, is_open
<1>2. ASSUME NEW p \in Peers, NEW t \in Sids, OpenChannel(p, t)
      PROVE  Over(q, s)'
  <2>1. opens \in [Sids -> 0 .. MaxOpens]
        /\ opens' = [opens EXCEPT ![t] = opens[t] + 1]
    BY <1>2 DEF TypeOK, OpenChannel
  <2>2. t # s
    BY <2>1, BoundsAssumption
  <2> QED BY <1>2, <2>2 DEF OpenChannel, OpenStream, Over, is_open, TypeOK
<1>3. ASSUME NEW p \in Peers, HandleOpenMessage(p)
      PROVE  Over(q, s)'
  <2>1. opening[p] \in Seq(Sids) /\ opening[p] # <<>>
    BY <1>3 DEF TypeOK, HandleOpenMessage
  <2>2. Head(opening[p]) = opening[p][1] /\ 1 \in 1 .. Len(opening[p])
    BY <2>1
  <2>3. Head(opening[p]) # s
    BY <2>2 DEF NoOpenMessage
  <2> QED BY <1>3, <2>3
          DEF HandleOpenMessage, OpenStream, Over, is_open, TypeOK
<1>4. ASSUME NEW p \in Peers, NEW t \in Sids, ResetStream(p, t)
      PROVE  Over(q, s)'
  BY <1>4 DEF ResetStream, Over, is_open, TypeOK
<1>5. ASSUME NEW p \in Peers, ResetFailed(p)
      PROVE  Over(q, s)'
  BY <1>5 DEF ResetFailed, Over, is_open
<1>6. ASSUME NEW p \in Peers, IncomingReset(p)
      PROVE  Over(q, s)'
  BY <1>6 DEF IncomingReset, reset_complete, Finish, Over, is_open, TypeOK
<1>7. ASSUME NEW p \in Peers, OutgoingReset(p)
      PROVE  Over(q, s)'
  BY <1>7 DEF OutgoingReset, reset_complete, Finish, Over, is_open, TypeOK
<1> QED
  BY <1>1, <1>2, <1>3, <1>4, <1>5, <1>6, <1>7
  DEF Next, vars, OnStreamResetEvent, Connect, PerformReset, DenyReset,
      ReceiveResponse

(* A request is only sent for streams that are closing.                    *)
LEMMA RequestIsOver ==
  ASSUME TypeOK, [Next]_vars, NEW s \in Sids, NEW q \in Peers,
         s \in request'[q]
  PROVE  s \in request[q] \/ Over(q, s)'
<1>1. CASE UNCHANGED request
  BY <1>1
<1>2. ASSUME NEW p \in Peers, NEW t \in Sids, ResetStream(p, t)
      PROVE  s \in request[q] \/ Over(q, s)'
  <2>1. s \in request[q] \/ (q = p /\ s \in need_outgoing_reset(p) \cup {t})
    BY <1>2 DEF ResetStream, SendQueuedStreamResets, TypeOK
  <2> QED BY <1>2, <2>1
          DEF ResetStream, need_outgoing_reset, Over, is_open, TypeOK
<1>3. ASSUME NEW p \in Peers, ResetFailed(p)
      PROVE  s \in request[q] \/ Over(q, s)'
  BY <1>3 DEF ResetFailed, SendQueuedStreamResets, Over, is_open, TypeOK
<1>4. ASSUME NEW p \in Peers, IncomingReset(p)
      PROVE  s \in request[q] \/ Over(q, s)'
  <2> DEFINE sids == Head(events[p]).sids \cap known[p]
             done == sids \cap outgoing_reset_complete[p]
             need == (need_outgoing_reset(p)
                         \cup (sids \ outgoing_reset_initiated[p])) \ done
  <2>1. SendQueuedStreamResets(p, need, outgoing_reset_initiated[p] \ done)
    BY <1>4 DEF IncomingReset, reset_complete
  <2>2. /\ closure_initiated'[p] = closure_initiated[p] \ done
        /\ incoming_reset_complete'[p] =
               (incoming_reset_complete[p] \cup sids) \ done
    BY <1>4 DEF IncomingReset, reset_complete, Finish, TypeOK
  <2>3. s \in request[q] \/ (q = p /\ s \in need)
    BY <2>1 DEF SendQueuedStreamResets, TypeOK
  <2> QED BY <2>2, <2>3 DEF need_outgoing_reset, Over, is_open
<1>5. ASSUME NEW p \in Peers, OutgoingReset(p)
      PROVE  s \in request[q] \/ Over(q, s)'
  <2> DEFINE sids == Head(events[p]).sids \cap known[p]
             done == sids \cap incoming_reset_complete[p]
             need == need_outgoing_reset(p) \ done
  <2>1. SendQueuedStreamResets(p, need, outgoing_reset_initiated[p] \ done)
    BY <1>5 DEF OutgoingReset, reset_complete
  <2>2. /\ closure_initiated'[p] = closure_initiated[p] \ done
        /\ incoming_reset_complete'[p] = incoming_reset_complete[p] \ done
    BY <1>5 DEF OutgoingReset, reset_complete, Finish, TypeOK
  <2>3. s \in request[q] \/ (q = p /\ s \in need)
    BY <2>1 DEF SendQueuedStreamResets, TypeOK
  <2> QED BY <2>2, <2>3 DEF need_outgoing_reset, Over, is_open
<1>6. ASSUME NEW p \in Peers, DenyReset(p) \/ ReceiveResponse(p)
      PROVE  s \in request[q] \/ Over(q, s)'
  BY <1>6 DEF DenyReset, ReceiveResponse, TypeOK
<1> QED
  BY <1>1, <1>2, <1>3, <1>4, <1>5, <1>6
  DEF Next, vars, usrsctpVars, OnStreamResetEvent, OpenChannel,
      HandleOpenMessage, Connect, PerformReset

(* Posting a notification adds at most the streams it is about.            *)
LEMMA NotifyIncoming ==
  ASSUME TypeOK, NEW p \in Peers, NEW sids \in SUBSET Sids,
         NEW flags \in {"INCOMING_SSN", "OUTGOING_SSN", "FAILED"},
         Notify(p, flags, sids), NEW q \in Peers, NEW s, IncomingFor(q, s)'
  PROVE  IncomingFor(q, s)
         \/ (q = p /\ flags = "INCOMING_SSN" /\ s \in sids)
<1> DEFINE e == [flags |-> flags, sids |-> sids]
<1>1. e \in ResetEvent /\ e.flags = flags /\ e.sids = sids
  BY DEF ResetEvent
<1>2. events \in [Peers -> Seq(ResetEvent)]
  BY DEF TypeOK
<1>3. events' = [events EXCEPT ![p] = Append(events[p], e)]
  BY DEF Notify
<1> HIDE DEF e
<1>4. PICK i \in 1 .. Len(events'[q]) :
          events'[q][i].flags = "INCOMING_SSN" /\ s \in events'[q][i].sids
  BY DEF IncomingFor
<1>5. CASE q # p
  BY <1>2, <1>3, <1>4, <1>5 DEF IncomingFor
<1>6. CASE q = p
  <2>1. events[q] \in Seq(ResetEvent) /\ events'[q] = Append(events[q], e)
    BY <1>2, <1>3, <1>6
  <2>2. \/ i \in 1 .. Len(events[q]) /\ events'[q][i] = events[q][i]
        \/ events'[q][i] = e
    BY <2>1
  <2> QED BY <1>1, <1>4, <1>6, <2>2 DEF IncomingFor
<1> QED BY <1>5, <1>6

(* Handling a notification adds none.                                      *)
LEMMA TakeIncoming ==
  ASSUME TypeOK, NEW p \in Peers, events[p] # <<>>,
         events' = [events EXCEPT ![p] = Tail(@)], NEW q \in Peers, NEW s,
         IncomingFor(q, s)'
  PROVE  IncomingFor(q, s)
<1>1. events \in [Peers -> Seq(ResetEvent)]
  BY DEF TypeOK
<1>2. PICK i \in 1 .. Len(events'[q]) :
          events'[q][i].flags = "INCOMING_SSN" /\ s \in events'[q][i].sids
  BY DEF IncomingFor
<1>3. CASE q # p
  BY <1>1, <1>2, <1>3 DEF IncomingFor
<1>4. CASE q = p
  <2>1. /\ events[q] \in Seq(ResetEvent) /\ events'[q] = Tail(events[q])
        /\ events[q] # <<>>
    BY <1>1, <1>4
  <2>2. i + 1 \in 1 .. Len(events[q]) /\ events'[q][i] = events[q][i + 1]
    BY <2>1, TailShifts
  <2> QED BY <1>2, <2>2 DEF IncomingFor
<1> QED BY <1>3, <1>4

(* What an endpoint hears of a stream, it hears because the other endpoint *)
(* had asked for its reset.                                                *)
LEMMA IncomingWasRequested ==
  ASSUME TypeOK, [Next]_vars, NEW s \in Sids, NEW q \in Peers,
         IncomingFor(q, s)'
  PROVE  IncomingFor(q, s) \/ s \in request[Other(q)]
<1>1. CASE UNCHANGED events
  BY <1>1 DEF IncomingFor
<1>2. ASSUME NEW p \in Peers, events[p] # <<>>,
             events' = [events EXCEPT ![p] = Tail(@)]
      PROVE  IncomingFor(q, s)
  BY <1>2, TakeIncoming
<1>3. ASSUME NEW p \in Peers, PerformReset(p)
      PROVE  IncomingFor(q, s) \/ s \in request[Other(q)]
  <2>1. request[p] \in SUBSET Sids /\ Other(p) \in Peers
        /\ Other(Other(p)) = p
    BY DEF TypeOK, Peers, Other
  <2>2. Notify(Other(p), "INCOMING_SSN", request[p])
    BY <1>3 DEF PerformReset
  <2>3. IncomingFor(q, s) \/ (q = Other(p) /\ s \in request[p])
    BY <2>1, <2>2, NotifyIncoming
  <2> QED BY <2>1, <2>3
<1>4. ASSUME NEW p \in Peers, DenyReset(p)
      PROVE  IncomingFor(q, s)
  BY <1>4, NotifyIncoming DEF DenyReset
<1>5. ASSUME NEW p \in Peers, ReceiveResponse(p)
      PROVE  IncomingFor(q, s)
  <2>1. request[p] \in SUBSET Sids
    BY DEF TypeOK
  <2> QED BY <1>5, <2>1, NotifyIncoming DEF ReceiveResponse
<1> QED
  BY <1>1, <1>2, <1>3, <1>4, <1>5
  DEF Next, vars, usrsctpVars, OnStreamResetEvent, OpenChannel, ResetStream,
      HandleOpenMessage, ResetFailed, IncomingReset, OutgoingReset, Connect

(* The incoming reset of a stream completes, and its entry leaves the map, *)
(* only when the notification of an incoming reset has come.               *)
LEMMA LeavingWasRequested ==
  ASSUME TypeOK, [Next]_vars, NEW s \in Sids, NEW q \in Peers,
         \/ s \in incoming_reset_complete'[q]
         \/ s \notin known'[q] /\ s \in known[q]
  PROVE  IncomingFor(q, s) \/ s \in incoming_reset_complete[q]
<1>1. CASE /\ UNCHANGED incoming_reset_complete
           /\ \A p \in Peers : known[p] \subseteq known'[p]
  BY <1>1
<1>2. ASSUME NEW p \in Peers, IncomingReset(p)
      PROVE  IncomingFor(q, s) \/ s \in incoming_reset_complete[q]
  <2>1. \/ s \in incoming_reset_complete[q]
        \/ q = p /\ s \in Head(events[p]).sids
    BY <1>2 DEF IncomingReset, reset_complete, Finish, TypeOK
  <2>2. events[p] \in Seq(ResetEvent) /\ events[p] # <<>>
        /\ Head(events[p]).flags = "INCOMING_SSN"
    BY <1>2 DEF IncomingReset, TypeOK
  <2>3. Head(events[p]) = events[p][1] /\ 1 \in 1 .. Len(events[p])
    BY <2>2
  <2> QED BY <2>1, <2>2, <2>3 DEF IncomingFor
<1>3. ASSUME NEW p \in Peers, OutgoingReset(p)
      PROVE  IncomingFor(q, s) \/ s \in incoming_reset_complete[q]
  BY <1>3 DEF OutgoingReset, reset_complete, Finish, TypeOK
<1>4. ASSUME NEW p \in Peers, \E t : OpenStream(p, t)
      PROVE  IncomingFor(q, s) \/ s \in incoming_reset_complete[q]
  BY <1>4 DEF OpenStream, TypeOK
<1> QED
  BY <1>1, <1>2, <1>3, <1>4
  DEF Next, vars, statusVars, OnStreamResetEvent, OpenChannel, ResetStream,
      HandleOpenMessage, ResetFailed, Connect, PerformReset, DenyReset,
      ReceiveResponse

LEMMA AgreedStep == TypeOK /\ AgreedInv /\ [Next]_vars => AgreedInv'
<1> SUFFICES ASSUME TypeOK, AgreedInv, [Next]_vars,
                    NEW s \in Preopened, opens'[s] = 0
             PROVE  Agreed(s)'
  BY DEF AgreedInv
<1>1. s \in Sids
  BY SidsAssumption
<1>2. Agreed(s) /\ NoOpenMessage(s) /\ NoOpenMessage(s)'
  BY <1>1, OpensStep DEF AgreedInv, Agreed
<1>3. \A q \in Peers : Over(q, s) => Over(q, s)'
  BY <1>1, <1>2, OverStays
<1>4. ASSUME NEW p \in Peers
      PROVE  /\ s \in request'[p] => Over(p, s)'
             /\ IncomingFor(p, s)' => Over(Other(p), s)'
             /\ s \in incoming_reset_complete'[p] => Over(Other(p), s)'
             /\ s \notin known'[p] => Over(Other(p), s)'
  <2>1. Other(p) \in Peers
    BY OtherPeer
  <2>2. s \in request'[p] => Over(p, s)'
    BY <1>1, <1>2, <1>3, RequestIsOver DEF Agreed
  <2>3. IncomingFor(p, s)' => Over(Other(p), s)'
    BY <1>1, <1>2, <1>3, <2>1, IncomingWasRequested DEF Agreed
  <2>4. s \in incoming_reset_complete'[p] => Over(Other(p), s)'
    BY <1>1, <1>2, <1>3, <2>1, LeavingWasRequested DEF Agreed
  <2>5. s \notin known'[p] => Over(Other(p), s)'
    BY <1>1, <1>2, <1>3, <2>1, LeavingWasRequested DEF Agreed
  <2> QED BY <2>2, <2>3, <2>4, <2>5
<1> QED BY <1>2, <1>4 DEF Agreed

(* When SctpTransport reports at one endpoint that a stream is closed      *)
(* (SignalClosingProcedureComplete), the other endpoint does not have it   *)
(* open any more, whatever is refused, delayed or closed from both sides.  *)
THEOREM EndpointsAgree == Spec => []CompletionIsAgreed
<1>1. Init => TypeOK /\ AgreedInv
  <2>1. ASSUME Init
        PROVE  AgreedInv
    <3> SUFFICES ASSUME NEW s \in Preopened
                 PROVE  Agreed(s)
      BY DEF AgreedInv
    <3>1. \A p \in Peers :
              /\ opening[p] = <<>> /\ events[p] = <<>>
              /\ request[p] = {} /\ incoming_reset_complete[p] = {}
              /\ known[p] = Preopened
      BY <2>1 DEF Init
    <3> QED BY <3>1 DEF Agreed, NoOpenMessage, IncomingFor
  <2> QED BY <2>1, TypeInit
<1>2. TypeOK /\ AgreedInv /\ [Next]_vars => TypeOK' /\ AgreedInv'
  BY TypeStep, AgreedStep
<1>3. AgreedInv => CompletionIsAgreed
  BY DEF AgreedInv, Agreed, CompletionIsAgreed, Over
<1> QED BY <1>1, <1>2, <1>3, PTL DEF Spec

=============================================================================

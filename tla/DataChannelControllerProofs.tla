--------------------- MODULE DataChannelControllerProofs ---------------------
(***************************************************************************)
(* The ids and signals of DataChannelController, for any number of         *)
(* channels, any range of ids and any bounds.                              *)
(*                                                                         *)
(* First the ids: UsedInv says what UsedSidsAreListed counts, one id at a  *)
(* time.  It is inductive once every task and message is known to carry    *)
(* the id its channel still has (TypeInv), and ids to have the parity of   *)
(* the endpoint that opened the channel (IdInv).                           *)
(*                                                                         *)
(* Then the signals: a task meets the wrong channel only if an id is given *)
(* out again while something of its first channel is on its way.           *)
(* SignalsInv follows an id through both ends: the flags of its stream     *)
(* (Streams), its channel and the tasks at one end (Local), the resets     *)
(* between the ends (Cross) and the messages between them (Order).         *)
(***************************************************************************)
EXTENDS DataChannelController, FiniteSetTheorems, FunctionTheorems,
        SequenceTheorems, TLAPS

States == {"none", "connecting", "open", "closing", "closed"}

Event == [flags : {"INCOMING_SSN", "OUTGOING_SSN"}, sids : SUBSET Sids]

Message == {"OPEN", "ACK", "DATA"} \X Numbers

TaskType ==
    [kind : {"READY", "OPEN", "ACK", "DATA"}, sid : Sids, n : Numbers]
        \cup [kind : {"CLOSING", "CLOSED"}, sid : Sids, n : {0}]
        \cup [kind : {"TRANSPORT_CLOSED"}, sid : {-1}, n : {0}]

StreamTypes ==
    /\ known \in [Peers -> SUBSET Sids]
    /\ closure_initiated \in [Peers -> SUBSET Sids]
    /\ outgoing_reset_initiated \in [Peers -> SUBSET Sids]
    /\ outgoing_reset_complete \in [Peers -> SUBSET Sids]
    /\ incoming_reset_complete \in [Peers -> SUBSET Sids]
    /\ request \in [Peers -> SUBSET Sids]
    /\ performed \in [Peers -> BOOLEAN]
    /\ events \in [Peers -> Seq(Event)]

(* Messages and tasks carry the id of the channel they are about, and OPEN *)
(* comes from the endpoint that opens the channel.                         *)
GoodTask(p) ==
    {t \in TaskType :
        /\ t.n \in Numbers => sid[t.n] = t.sid
        /\ t.kind = "OPEN" => t.n \in Channels[Other(p)]
        /\ t.kind = "TRANSPORT_CLOSED" => lost # {}}

GoodMessage(p, s) ==
    {m \in Message :
        /\ sid[m[2]] = s
        /\ m[1] = "OPEN" => m[2] \in Channels[Other(p)]}

TypeInv ==
    /\ StreamTypes
    /\ state \in [Peers -> [Numbers -> States]]
    /\ sid \in [Numbers -> Sids \cup {-1}]
    /\ used \in [Peers -> SUBSET Sids]
    /\ DOMAIN tasks = Peers
    /\ \A p \in Peers : tasks[p] \in Seq(GoodTask(p))
    /\ DOMAIN wire = Peers
    /\ \A p \in Peers : /\ DOMAIN wire[p] = Sids
                        /\ \A s \in Sids : wire[p][s] \in Seq(GoodMessage(p, s))

(* The opener of a channel has its end before the channel has an id, and   *)
(* the other end exists only once it has one.                              *)
IdInv ==
    /\ \A p \in Peers : \A n \in Channels[p] :
           /\ state[p][n] = "none" => sid[n] = -1
           /\ state[Other(p)][n] # "none" => sid[n] >= 0
           /\ sid[n] >= 0 => sid[n] % 2 = p - 1
    /\ lost # {} => \A p \in Peers, s \in Sids : wire[p][s] = << >>

UsedInv ==
    \A p \in Peers :
        /\ \A n \in sctp_data_channels(p) : sid[n] >= 0 => sid[n] \in used[p]
        /\ \A n, m \in sctp_data_channels(p) :
               sid[n] >= 0 /\ sid[n] = sid[m] => n = m
        /\ lost = {} => \A s \in used[p] : WithSid(p, s) # {}

-----------------------------------------------------------------------------
(* The operators of the model.                                             *)

LEMMA TheOther ==
    ASSUME NEW p \in Peers
    PROVE  /\ Other(p) \in Peers /\ Other(p) # p /\ Other(Other(p)) = p
           /\ Peers = {p, Other(p)} /\ p \in Int
BY DEF Peers, Other

LEMMA ChannelSets ==
    /\ Numbers \subseteq Nat \ {0} /\ IsFiniteSet(Numbers)
    /\ \A n \in Numbers : \E p \in Peers : n \in Channels[p]
    /\ \A p \in Peers : Channels[p] \subseteq Numbers
    /\ \A p \in Peers, n \in Numbers :
           n \in Channels[p] <=> n \notin Channels[Other(p)]
BY NumbersAssumption DEF Channels, Numbers, Peers, Other

LEMMA SidSet == Sids \subseteq Nat /\ IsFiniteSet(Sids) /\ -1 \notin Sids
<1>1. MaxSid \in Int
  BY LimitsAssumption
<1>2. IsFiniteSet(0 .. MaxSid)
  BY <1>1, FS_Interval
<1> QED BY <1>2, LimitsAssumption DEF Sids

(* Ranks tell the members of a finite set of numbers apart.                *)
LEMMA RankGrows ==
    ASSUME NEW X, IsFiniteSet(X), X \subseteq Nat, NEW x \in X, NEW y \in X,
           Rank(X, x) = Rank(X, y)
    PROVE  x = y
<1>1. ASSUME NEW a \in X, NEW b \in X, a < b
      PROVE  Rank(X, a) # Rank(X, b)
  <2> DEFINE A == {c \in X : c < a}
             B == {c \in X : c < b}
  <2>0. \A c \in X : c \in Nat
    OBVIOUS
  <2>1. A \in SUBSET B /\ B \in SUBSET X /\ a \in B /\ a \notin A
    <3>1. a \in Nat /\ b \in Nat /\ \A c \in X : c < a => c < b
      BY <1>1, <2>0
    <3>2. ~(a < a)
      BY <3>1
    <3> QED BY <1>1, <3>1, <3>2, Zenon
  <2> HIDE DEF A, B
  <2>2. IsFiniteSet(B)
    BY <2>1, FS_Subset
  <2>3. Cardinality(B) = Cardinality(A) => B = A
    BY <2>1, <2>2, FS_Subset
  <2>4. Cardinality(B) # Cardinality(A)
    BY <2>1, <2>3
  <2> QED BY <2>4 DEF Rank, A, B
<1>2. x \in Nat /\ y \in Nat
  OBVIOUS
<1> QED BY <1>1, <1>2

LEMMA Allocated ==
    ASSUME NEW p \in Peers, NEW want, want \subseteq Numbers
    PROVE  LET ids == AllocateSid(p, want) IN
           /\ DOMAIN ids \subseteq want
           /\ \A n \in DOMAIN ids :
                  /\ ids[n] \in Sids \ used[p]
                  /\ ids[n] % 2 = p - 1
           /\ \A n, m \in DOMAIN ids : ids[n] = ids[m] => n = m
<1> DEFINE Its(n) == {s \in Available(p) : Rank(Available(p), s) = Rank(want, n)}
           ids == [n \in {c \in want : Its(c) # {}} |-> CHOOSE s \in Its(n) : TRUE]
<1>1. AllocateSid(p, want) = ids
  BY DEF AllocateSid
<1>2. IsFiniteSet(want) /\ want \subseteq Nat
  BY ChannelSets, FS_Subset
<1>3. \A n \in DOMAIN ids : ids[n] \in Its(n)
  OBVIOUS
<1>4. \A n \in DOMAIN ids :
          /\ ids[n] \in Sids \ used[p] /\ ids[n] % 2 = p - 1
          /\ Rank(Available(p), ids[n]) = Rank(want, n)
  BY <1>3 DEF Available
<1>5. DOMAIN ids \subseteq want
  OBVIOUS
<1> HIDE DEF ids
<1>6. ASSUME NEW n \in DOMAIN ids, NEW m \in DOMAIN ids, ids[n] = ids[m]
      PROVE  n = m
  <2>1. Rank(want, n) = Rank(want, m)
    BY <1>4, <1>6
  <2> QED BY <1>2, <1>5, <2>1, RankGrows
<1> QED BY <1>1, <1>4, <1>5, <1>6

LEMMA Ordered ==
    ASSUME NEW new, IsFiniteSet(new), NEW q \in InOrder(new)
    PROVE  /\ q \in Seq(new)
           /\ \A x \in new : \E i \in DOMAIN q : q[i] = x
           /\ \A i, j \in DOMAIN q : i < j => Before(q[i], q[j])
<1>1. Cardinality(new) \in Nat
  BY FS_CardinalityType
<1>2. /\ q \in [1 .. Cardinality(new) -> new]
      /\ \A x \in new : \E i \in DOMAIN q : q[i] = x
      /\ \A i, j \in DOMAIN q : i < j => Before(q[i], q[j])
  BY DEF InOrder
<1> QED BY <1>1, <1>2

LEMMA FiniteReady ==
    ASSUME NEW ids, IsFiniteSet(DOMAIN ids)
    PROVE  IsFiniteSet(Ready(ids))
<1> DEFINE f == [n \in DOMAIN ids |-> Task("READY", ids[n], n)]
<1>1. f \in Surjection(DOMAIN ids, Ready(ids))
  BY DEF Ready, Surjection
<1> QED BY <1>1, FS_Surjection

LEMMA FiniteSignals ==
    ASSUME NEW C \in SUBSET Sids, NEW D \in SUBSET Sids
    PROVE  IsFiniteSet(Signals(C, D))
<1>1. ASSUME NEW X \in SUBSET Sids, NEW kind
      PROVE  IsFiniteSet({Task(kind, s, 0) : s \in X})
  <2> DEFINE Y == {Task(kind, s, 0) : s \in X}
             f == [s \in X |-> Task(kind, s, 0)]
  <2>1. f \in Surjection(X, Y)
    BY DEF Surjection
  <2>2. IsFiniteSet(X)
    BY SidSet, FS_Subset
  <2> HIDE DEF f
  <2> QED BY <2>1, <2>2, FS_Surjection
<1>2. /\ IsFiniteSet({Task("CLOSING", s, 0) : s \in C})
      /\ IsFiniteSet({Task("CLOSED", s, 0) : s \in D})
  BY <1>1
<1> QED BY <1>2, FS_Union DEF Signals

(* What PostAll appends.                                                   *)
LEMMA PostedAll ==
    ASSUME NEW p \in Peers, NEW new, IsFiniteSet(new), PostAll(p, new)
    PROVE  \E q \in Seq(new) :
               /\ tasks' = [tasks EXCEPT ![p] = @ \o q]
               /\ \A x \in new : \E i \in DOMAIN q : q[i] = x
               /\ \A i, j \in DOMAIN q : i < j => Before(q[i], q[j])
<1>1. PICK q \in InOrder(new) : tasks' = [tasks EXCEPT ![p] = @ \o q]
  BY DEF PostAll
<1> QED BY <1>1, Ordered

(* Channels keep the id they have, and a transport stays lost.             *)
Keeps ==
    /\ \A n \in Numbers : sid[n] \in Sids => sid'[n] = sid[n]
    /\ lost # {} => lost' # {}

LEMMA GoodStays ==
    ASSUME Keeps, NEW p \in Peers
    PROVE  /\ GoodTask(p) \subseteq GoodTask(p)'
           /\ \A s \in Sids : GoodMessage(p, s) \subseteq GoodMessage(p, s)'
<1>1. ASSUME NEW t \in GoodTask(p)
      PROVE  t \in GoodTask(p)'
  <2>1. t \in TaskType /\ (t.n \in Numbers => t.sid \in Sids)
    BY ChannelSets DEF GoodTask, TaskType
  <2> QED BY <2>1 DEF GoodTask, Keeps
<1>2. ASSUME NEW s \in Sids, NEW m \in GoodMessage(p, s)
      PROVE  m \in GoodMessage(p, s)'
  BY DEF GoodMessage, Message, Keeps
<1> QED BY <1>1, <1>2

LEMMA TasksStay ==
    ASSUME TypeInv, Keeps, NEW p \in Peers
    PROVE  /\ tasks[p] \in Seq(GoodTask(p)')
           /\ tasks[p] # << >> => Tail(tasks[p]) \in Seq(GoodTask(p)')
           /\ \A s \in Sids :
                  /\ wire[p][s] \in Seq(GoodMessage(p, s)')
                  /\ wire[p][s] # << >> =>
                         Tail(wire[p][s]) \in Seq(GoodMessage(p, s)')
<1>1. tasks[p] \in Seq(GoodTask(p)')
  BY GoodStays, SeqMonotonic DEF TypeInv
<1>2. \A s \in Sids : wire[p][s] \in Seq(GoodMessage(p, s)')
  BY GoodStays, SeqMonotonic DEF TypeInv
<1> QED BY <1>1, <1>2, HeadTailProperties

-----------------------------------------------------------------------------
(* Types and ids.                                                          *)

LEMMA OpenedTypes ==
    ASSUME StreamTypes, NEW p \in Peers, NEW ids, Opened(p, ids),
           \A n \in DOMAIN ids : ids[n] \in Sids
    PROVE  StreamTypes'
BY DEF StreamTypes, Opened

LEMMA ResetTypes ==
    ASSUME StreamTypes, NEW p \in Peers, NEW s \in Sids,
           RemoveSctpDataStream(p, s)
    PROVE  StreamTypes'
<1>1. CASE UNCHANGED streamVars
  BY <1>1 DEF StreamTypes, streamVars
<1>2. CASE S!ResetStream(p, s)
  BY <1>2 DEF StreamTypes, S!ResetStream, S!SendQueuedStreamResets,
              S!need_outgoing_reset
<1> QED BY <1>1, <1>2 DEF RemoveSctpDataStream

LEMMA EventTypes ==
    ASSUME StreamTypes, NEW p \in Peers, S!IncomingReset(p) \/ S!OutgoingReset(p)
    PROVE  /\ StreamTypes'
           /\ Head(events[p]) \in Event
           /\ events' = [events EXCEPT ![p] = Tail(@)]
<1>1. /\ events[p] \in Seq(Event) /\ events[p] # << >>
      /\ events' = [events EXCEPT ![p] = Tail(@)]
  BY DEF StreamTypes, S!IncomingReset, S!OutgoingReset
<1>2. Tail(events[p]) \in Seq(Event) /\ Head(events[p]) \in Event
  BY <1>1, HeadTailProperties
<1>3. events' \in [Peers -> Seq(Event)]
  BY <1>1, <1>2 DEF StreamTypes
<1>4. Head(events[p]).sids \in SUBSET Sids
  BY <1>2 DEF Event
<1>5. CASE S!IncomingReset(p)
  BY <1>3, <1>4, <1>5, <1>1, <1>2
  DEF StreamTypes, S!IncomingReset, S!SendQueuedStreamResets,
      S!need_outgoing_reset, S!Finish, S!reset_complete
<1>6. CASE S!OutgoingReset(p)
  BY <1>3, <1>4, <1>6, <1>1, <1>2
  DEF StreamTypes, S!OutgoingReset, S!SendQueuedStreamResets,
      S!need_outgoing_reset, S!Finish, S!reset_complete
<1> QED BY <1>1, <1>2, <1>5, <1>6

LEMMA NotifiedTypes ==
    ASSUME StreamTypes, NEW p \in Peers, S!PerformReset(p) \/ S!ReceiveResponse(p)
    PROVE  StreamTypes'
<1>1. \A f \in {"INCOMING_SSN", "OUTGOING_SSN"} :
          [flags |-> f, sids |-> request[p]] \in Event
  BY DEF StreamTypes, Event
<1>2. \A u \in Peers, e \in Event :
          [events EXCEPT ![u] = Append(@, e)] \in [Peers -> Seq(Event)]
  BY DEF StreamTypes
<1>3. events' \in [Peers -> Seq(Event)]
  <2>1. CASE S!PerformReset(p)
    <3>1. Other(p) \in Peers
      BY TheOther
    <3>2. events' = [events EXCEPT ![Other(p)] =
              Append(@, [flags |-> "INCOMING_SSN", sids |-> request[p]])]
      BY <2>1 DEF S!PerformReset, S!Notify, S!Other, Other
    <3> QED BY <1>1, <1>2, <3>1, <3>2
  <2>2. CASE S!ReceiveResponse(p)
    <3>1. events' = [events EXCEPT ![p] =
              Append(@, [flags |-> "OUTGOING_SSN", sids |-> request[p]])]
      BY <2>2 DEF S!ReceiveResponse, S!Notify
    <3> QED BY <1>1, <1>2, <3>1
  <2> QED BY <2>1, <2>2
<1> QED BY <1>3 DEF StreamTypes, S!PerformReset, S!ReceiveResponse, S!statusVars

(* The steps that leave the messages alone, and those that leave the tasks *)
(* alone.                                                                  *)
LEMMA TypesWithTasks ==
    ASSUME TypeInv, Keeps, StreamTypes',
           state' \in [Peers -> [Numbers -> States]],
           sid' \in [Numbers -> Sids \cup {-1}],
           used' \in [Peers -> SUBSET Sids],
           NEW p \in Peers, NEW T \in Seq(GoodTask(p)'),
           tasks' = [tasks EXCEPT ![p] = T], wire' = wire
    PROVE  TypeInv'
<1>1. \A v \in Peers : tasks'[v] \in Seq(GoodTask(v)')
  <2>1. \A v \in Peers : tasks'[v] = IF v = p THEN T ELSE tasks[v]
    BY DEF TypeInv
  <2>2. \A v \in Peers : tasks[v] \in Seq(GoodTask(v)')
    BY TasksStay
  <2> QED BY <2>1, <2>2
<1>2. \A v \in Peers, r \in Sids : wire'[v][r] \in Seq(GoodMessage(v, r)')
  BY TasksStay
<1>3. /\ DOMAIN tasks' = Peers /\ DOMAIN wire' = Peers
      /\ \A v \in Peers : DOMAIN wire'[v] = Sids
  BY DEF TypeInv
<1> QED BY <1>1, <1>2, <1>3 DEF TypeInv

LEMMA TypesAlone ==
    ASSUME TypeInv, Keeps, StreamTypes',
           state' \in [Peers -> [Numbers -> States]],
           sid' \in [Numbers -> Sids \cup {-1}],
           used' \in [Peers -> SUBSET Sids],
           tasks' = tasks, wire' = wire
    PROVE  TypeInv'
<1>1. \A v \in Peers : tasks'[v] \in Seq(GoodTask(v)')
  BY TasksStay
<1>2. \A v \in Peers, r \in Sids : wire'[v][r] \in Seq(GoodMessage(v, r)')
  BY TasksStay
<1> QED BY <1>1, <1>2 DEF TypeInv

ChannelsInv == TypeInv /\ IdInv /\ UsedInv

Listed == {"connecting", "open", "closing"}

(* Steps that put no channel on a list and take none off.                  *)
LEMMA ListsStay ==
    ASSUME ChannelsInv, UNCHANGED <<sid, used>>,
           \A p \in Peers, n \in Numbers :
               /\ state'[p][n] \in Listed <=> state[p][n] \in Listed
               /\ state'[p][n] = "none" <=> state[p][n] = "none",
           lost # {} => lost' # {},
           lost' # {} => \A p \in Peers, s \in Sids : wire'[p][s] = << >>
    PROVE  IdInv' /\ UsedInv'
<1>1. \A p \in Peers : sctp_data_channels(p)' = sctp_data_channels(p)
  BY DEF sctp_data_channels, Listed
<1>2. \A p \in Peers : \A s : WithSid(p, s)' = WithSid(p, s)
  BY <1>1 DEF WithSid
<1>3. IdInv'
  <2>1. \A p \in Peers : Channels[p] \subseteq Numbers /\ Other(p) \in Peers
    BY ChannelSets, TheOther
  <2> QED BY <2>1 DEF ChannelsInv, IdInv
<1> QED BY <1>1, <1>2, <1>3 DEF ChannelsInv, UsedInv

(* A channel is closed and its id released.                                *)
LEMMA ReleaseStep ==
    ASSUME ChannelsInv, NEW p \in Peers, NEW n \in sctp_data_channels(p),
           OnSctpDataChannelClosed(p, n), UNCHANGED <<sid, lost, wire>>
    PROVE  /\ IdInv' /\ UsedInv'
           /\ state' \in [Peers -> [Numbers -> States]]
           /\ used' \in [Peers -> SUBSET Sids]
<1>1. n \in Numbers /\ state[p][n] \in Listed
  BY DEF sctp_data_channels, Listed
<1>2. /\ state' = [state EXCEPT ![p][n] = "closed"]
      /\ state' \in [Peers -> [Numbers -> States]]
      /\ used' = [used EXCEPT ![p] = @ \ {sid[n]}]
      /\ used' \in [Peers -> SUBSET Sids]
  BY <1>1 DEF ChannelsInv, TypeInv, OnSctpDataChannelClosed, States
<1>3. \A u \in Peers, m \in Numbers :
          state'[u][m] = IF u = p /\ m = n THEN "closed" ELSE state[u][m]
  BY <1>2 DEF ChannelsInv, TypeInv
<1>4. \A u \in Peers : used'[u] = IF u = p THEN used[p] \ {sid[n]} ELSE used[u]
  BY <1>2 DEF ChannelsInv, TypeInv
<1>5. \A u \in Peers : sctp_data_channels(u)' =
          IF u = p THEN sctp_data_channels(p) \ {n} ELSE sctp_data_channels(u)
  BY <1>3 DEF sctp_data_channels
<1>6. IdInv'
  <2>1. \A u \in Peers : Channels[u] \subseteq Numbers /\ Other(u) \in Peers
    BY ChannelSets, TheOther
  <2> QED BY <1>1, <1>3, <2>1 DEF ChannelsInv, IdInv, Listed
<1>7. ASSUME NEW u \in Peers
      PROVE  /\ \A m \in sctp_data_channels(u)' : sid[m] >= 0 => sid[m] \in used'[u]
             /\ \A m, k \in sctp_data_channels(u)' :
                    sid[m] >= 0 /\ sid[m] = sid[k] => m = k
             /\ lost = {} => \A s \in used'[u] : WithSid(u, s)' # {}
  <2>1. CASE u # p
    BY <1>4, <1>5, <2>1 DEF ChannelsInv, UsedInv, WithSid
  <2>2. CASE u = p
    <3>1. sctp_data_channels(p)' = sctp_data_channels(p) \ {n}
          /\ used'[p] = used[p] \ {sid[n]}
      BY <1>4, <1>5
    <3>2. ASSUME NEW s \in used[p] \ {sid[n]}, lost = {}
          PROVE  WithSid(p, s)' # {}
      <4>1. PICK m \in WithSid(p, s) : TRUE
        BY <3>2 DEF ChannelsInv, UsedInv
      <4> QED BY <3>1, <4>1 DEF WithSid
    <3>3. /\ \A m \in sctp_data_channels(p) : sid[m] >= 0 => sid[m] \in used[p]
          /\ \A m, k \in sctp_data_channels(p) :
                 sid[m] >= 0 /\ sid[m] = sid[k] => m = k
      BY DEF ChannelsInv, UsedInv
    <3> QED BY <2>2, <3>1, <3>2, <3>3
  <2> QED BY <2>1, <2>2
<1> QED BY <1>2, <1>6, <1>7 DEF UsedInv

(* Channels on the list of their opener get ids.                           *)
LEMMA IdentifiedStep ==
    ASSUME ChannelsInv, NEW p \in Peers, NEW ids,
           DOMAIN ids \subseteq Channels[p],
           \A n \in DOMAIN ids : /\ ids[n] \in Sids \ used[p]
                                 /\ ids[n] % 2 = p - 1
                                 /\ sid[n] = -1
                                 /\ state'[p][n] \in Listed,
           \A n, m \in DOMAIN ids : ids[n] = ids[m] => n = m,
           Identified(ids),
           used' = [used EXCEPT ![p] = @ \cup {ids[n] : n \in DOMAIN ids}],
           \A n \in Numbers \ DOMAIN ids :
               /\ state'[p][n] \in Listed => state[p][n] \in Listed
               /\ sid[n] >= 0 /\ state[p][n] \in Listed => state'[p][n] \in Listed
               /\ state'[p][n] = "none" <=> state[p][n] = "none",
           \A n \in Numbers : state'[Other(p)][n] = state[Other(p)][n],
           UNCHANGED <<lost, wire>>
    PROVE  /\ IdInv' /\ UsedInv' /\ Keeps
           /\ sid' \in [Numbers -> Sids \cup {-1}]
           /\ used' \in [Peers -> SUBSET Sids]
<1> DEFINE q == Other(p)
<1>1. /\ q \in Peers /\ q # p /\ Peers = {p, q} /\ Other(q) = p
      /\ Channels[p] \subseteq Numbers /\ Channels[q] \subseteq Numbers
      /\ \A n \in Channels[p] : n \notin Channels[q]
  BY TheOther, ChannelSets
<1>2. /\ \A n \in Numbers : sid'[n] = IF n \in DOMAIN ids THEN ids[n] ELSE sid[n]
      /\ sid' \in [Numbers -> Sids \cup {-1}]
  BY <1>1 DEF Identified, ChannelsInv, TypeInv
<1>3. /\ used'[p] = used[p] \cup {ids[n] : n \in DOMAIN ids}
      /\ used'[q] = used[q]
      /\ used' \in [Peers -> SUBSET Sids]
  BY <1>1 DEF ChannelsInv, TypeInv
<1>4. \A s \in Sids : s \in Nat /\ s # -1 /\ s >= 0
  BY SidSet
<1>5. Keeps
  BY <1>2, <1>4 DEF Keeps
<1>6. \A n \in DOMAIN ids : state[q][n] = "none"
  <2> SUFFICES ASSUME NEW n \in DOMAIN ids
               PROVE  state[q][n] = "none"
    OBVIOUS
  <2>1. n \in Channels[p] /\ sid[n] = -1
    OBVIOUS
  <2>2. state[q][n] # "none" => sid[n] >= 0
    BY <2>1 DEF ChannelsInv, IdInv
  <2> QED BY <2>1, <2>2
<1>7. IdInv'
  <2>1. ASSUME NEW n \in Channels[p]
        PROVE  /\ state'[p][n] = "none" => sid'[n] = -1
               /\ state'[q][n] # "none" => sid'[n] >= 0
               /\ sid'[n] >= 0 => sid'[n] % 2 = p - 1
    <3>1. /\ state[p][n] = "none" => sid[n] = -1
          /\ state[q][n] # "none" => sid[n] >= 0
          /\ sid[n] >= 0 => sid[n] % 2 = p - 1
      BY DEF ChannelsInv, IdInv
    <3>2. CASE n \in DOMAIN ids
      BY <1>1, <1>2, <1>4, <3>2 DEF Listed
    <3>3. CASE n \notin DOMAIN ids
      BY <1>1, <1>2, <3>1, <3>3
    <3> QED BY <3>2, <3>3
  <2>2. ASSUME NEW n \in Channels[q]
        PROVE  /\ state'[q][n] = "none" => sid'[n] = -1
               /\ state'[p][n] # "none" => sid'[n] >= 0
               /\ sid'[n] >= 0 => sid'[n] % 2 = q - 1
    <3>1. /\ state[q][n] = "none" => sid[n] = -1
          /\ state[p][n] # "none" => sid[n] >= 0
          /\ sid[n] >= 0 => sid[n] % 2 = q - 1
      BY <1>1 DEF ChannelsInv, IdInv
    <3>2. n \notin DOMAIN ids
      BY <1>1
    <3> QED BY <1>1, <1>2, <3>1, <3>2
  <2>3. lost' # {} => \A u \in Peers, s \in Sids : wire'[u][s] = << >>
    BY DEF ChannelsInv, IdInv
  <2>4. \A u \in Peers : u = p \/ u = q
    BY <1>1
  <2> QED BY <1>1, <2>1, <2>2, <2>3, <2>4 DEF IdInv
<1>8. /\ sctp_data_channels(q)' = sctp_data_channels(q)
      /\ \A n \in sctp_data_channels(q) : sid'[n] = sid[n]
  BY <1>1, <1>2, <1>6 DEF sctp_data_channels
<1>9. /\ \A n \in sctp_data_channels(q)' : sid'[n] >= 0 => sid'[n] \in used'[q]
      /\ \A n, m \in sctp_data_channels(q)' :
             sid'[n] >= 0 /\ sid'[n] = sid'[m] => n = m
      /\ lost' = {} => \A s \in used'[q] : WithSid(q, s)' # {}
  <2>1. /\ \A n \in sctp_data_channels(q) : sid[n] >= 0 => sid[n] \in used[q]
        /\ \A n, m \in sctp_data_channels(q) :
               sid[n] >= 0 /\ sid[n] = sid[m] => n = m
        /\ lost = {} => \A s \in used[q] : WithSid(q, s) # {}
    BY <1>1 DEF ChannelsInv, UsedInv
  <2>2. \A s : WithSid(q, s)' = WithSid(q, s)
    BY <1>8 DEF WithSid
  <2> QED BY <1>3, <1>8, <2>1, <2>2
<1>10. /\ \A n \in sctp_data_channels(p)' : sid'[n] >= 0 => sid'[n] \in used'[p]
       /\ \A n, m \in sctp_data_channels(p)' :
              sid'[n] >= 0 /\ sid'[n] = sid'[m] => n = m
       /\ lost' = {} => \A s \in used'[p] : WithSid(p, s)' # {}
  <2>1. /\ \A n \in sctp_data_channels(p) : sid[n] >= 0 => sid[n] \in used[p]
        /\ \A n, m \in sctp_data_channels(p) :
               sid[n] >= 0 /\ sid[n] = sid[m] => n = m
        /\ lost = {} => \A s \in used[p] : WithSid(p, s) # {}
    BY <1>1 DEF ChannelsInv, UsedInv
  <2>2. \A n \in sctp_data_channels(p)' :
            /\ n \in Numbers
            /\ n \notin DOMAIN ids => n \in sctp_data_channels(p)
    BY DEF sctp_data_channels, Listed
  <2>3. \A n \in sctp_data_channels(p)' : sid'[n] >= 0 => sid'[n] \in used'[p]
    BY <1>2, <1>3, <2>1, <2>2
  <2>4. ASSUME NEW n \in sctp_data_channels(p)', NEW m \in sctp_data_channels(p)',
               sid'[n] >= 0, sid'[n] = sid'[m]
        PROVE  n = m
    <3>1. CASE n \in DOMAIN ids /\ m \in DOMAIN ids
      BY <1>2, <2>2, <2>4, <3>1
    <3>2. CASE n \in DOMAIN ids /\ m \notin DOMAIN ids
      BY <1>2, <2>1, <2>2, <2>4, <3>2
    <3>3. CASE n \notin DOMAIN ids /\ m \in DOMAIN ids
      BY <1>2, <2>1, <2>2, <2>4, <3>3
    <3>4. CASE n \notin DOMAIN ids /\ m \notin DOMAIN ids
      BY <1>2, <2>1, <2>2, <2>4, <3>4
    <3> QED BY <3>1, <3>2, <3>3, <3>4
  <2>5. ASSUME lost' = {}, NEW s \in used'[p]
        PROVE  WithSid(p, s)' # {}
    <3>1. CASE s \in used[p]
      <4>1. PICK n \in WithSid(p, s) : TRUE
        BY <2>1, <2>5, <3>1
      <4>2. n \in Numbers /\ sid[n] = s /\ state[p][n] \in Listed /\ s >= 0
        BY <1>4, <3>1, <4>1 DEF WithSid, sctp_data_channels, Listed, ChannelsInv,
                                TypeInv
      <4>3. n \notin DOMAIN ids
        BY <1>4, <4>2
      <4>4. sid'[n] = s /\ state'[p][n] \in Listed
        BY <1>2, <4>2, <4>3
      <4> QED BY <4>2, <4>4 DEF WithSid, sctp_data_channels, Listed
    <3>2. CASE s \notin used[p]
      <4>1. PICK n \in DOMAIN ids : s = ids[n]
        BY <1>3, <3>2
      <4>2. n \in Numbers /\ sid'[n] = s /\ state'[p][n] \in Listed
        BY <1>1, <1>2, <4>1
      <4> QED BY <4>2 DEF WithSid, sctp_data_channels, Listed
    <3> QED BY <3>1, <3>2
  <2> QED BY <2>3, <2>4, <2>5
<1>11. UsedInv'
  <2>1. \A u \in Peers : u = p \/ u = q
    BY <1>1
  <2> QED BY <1>9, <1>10, <2>1 DEF UsedInv
<1> QED BY <1>2, <1>3, <1>5, <1>7, <1>11

LEMMA ReadyIsGood ==
    ASSUME NEW p \in Peers, NEW ids, DOMAIN ids \subseteq Numbers,
           \A n \in DOMAIN ids : ids[n] \in Sids /\ sid'[n] = ids[n]
    PROVE  Ready(ids) \subseteq GoodTask(p)'
<1>1. ASSUME NEW n \in DOMAIN ids
      PROVE  Task("READY", ids[n], n) \in GoodTask(p)'
  BY DEF Task, GoodTask, TaskType
<1> QED BY <1>1 DEF Ready

LEMMA ReadyPosted ==
    ASSUME TypeInv, Keeps, NEW p \in Peers, NEW ids, DOMAIN ids \subseteq Numbers,
           \A n \in DOMAIN ids : ids[n] \in Sids /\ sid'[n] = ids[n],
           PostAll(p, Ready(ids))
    PROVE  \E T \in Seq(GoodTask(p)') : tasks' = [tasks EXCEPT ![p] = T]
<1>1. IsFiniteSet(Ready(ids))
  BY ChannelSets, FS_Subset, FiniteReady
<1>2. PICK q \in Seq(Ready(ids)) : tasks' = [tasks EXCEPT ![p] = @ \o q]
  BY <1>1, PostedAll
<1>3. q \in Seq(GoodTask(p)')
  BY <1>2, ReadyIsGood, SeqMonotonic
<1>4. tasks[p] \o q \in Seq(GoodTask(p)')
  BY <1>3, TasksStay, ConcatProperties
<1> QED BY <1>2, <1>4

LEMMA AllocateStep ==
    ASSUME ChannelsInv, NEW p \in Peers, AllocateSctpSids(p)
    PROVE  ChannelsInv' /\ Keeps
<1> DEFINE want == {n \in sctp_data_channels(p) : sid[n] = -1}
           ids == AllocateSid(p, want)
<1>1. /\ Identified(ids)
      /\ used' = [used EXCEPT ![p] = @ \cup {ids[n] : n \in DOMAIN ids}]
      /\ state' = [state EXCEPT ![p] = [n \in Numbers |->
             IF n \in want \ DOMAIN ids THEN "closed" ELSE @[n]]]
      /\ Opened(p, ids)
      /\ PostAll(p, Ready(ids))
      /\ UNCHANGED <<wire, lost>>
  BY DEF AllocateSctpSids, boundVars
<1>2. /\ want \subseteq Channels[p]
      /\ want \subseteq sctp_data_channels(p)
      /\ \A n \in want : sid[n] = -1 /\ state[p][n] \in Listed
  <2> SUFFICES ASSUME NEW n \in want
               PROVE  n \in Channels[p] /\ state[p][n] \in Listed
    OBVIOUS
  <2>1. n \in Numbers /\ sid[n] = -1 /\ state[p][n] \in Listed
    BY DEF sctp_data_channels, Listed
  <2>2. n \in Channels[Other(p)] => (state[p][n] # "none" => sid[n] >= 0)
    BY TheOther DEF ChannelsInv, IdInv
  <2> QED BY <2>1, <2>2, ChannelSets DEF Listed
<1>3. /\ DOMAIN ids \subseteq want
      /\ \A n \in DOMAIN ids : ids[n] \in Sids \ used[p] /\ ids[n] % 2 = p - 1
      /\ \A n, m \in DOMAIN ids : ids[n] = ids[m] => n = m
  <2>1. want \subseteq Numbers
    BY DEF sctp_data_channels
  <2> HIDE DEF want
  <2> QED BY <2>1, Allocated
<1> HIDE DEF ids
<1>4. /\ \A n \in Numbers : state'[p][n] =
             IF n \in want \ DOMAIN ids THEN "closed" ELSE state[p][n]
      /\ \A n \in Numbers : state'[Other(p)][n] = state[Other(p)][n]
      /\ state' \in [Peers -> [Numbers -> States]]
  BY <1>1, TheOther DEF ChannelsInv, TypeInv, States
<1>5. \A n \in Numbers : n \in want <=> state[p][n] \in Listed /\ sid[n] = -1
  BY DEF sctp_data_channels, Listed
<1> HIDE DEF want
<1>6. \A n \in Numbers \ DOMAIN ids :
          /\ state'[p][n] \in Listed => state[p][n] \in Listed
          /\ sid[n] >= 0 /\ state[p][n] \in Listed => state'[p][n] \in Listed
          /\ state'[p][n] = "none" <=> state[p][n] = "none"
  BY <1>4, <1>5 DEF Listed
<1>7. \A n \in DOMAIN ids : /\ ids[n] \in Sids \ used[p]
                            /\ ids[n] % 2 = p - 1
                            /\ sid[n] = -1
                            /\ state'[p][n] \in Listed
  BY <1>2, <1>3, <1>4, ChannelSets
<1>8. /\ IdInv' /\ UsedInv' /\ Keeps
      /\ sid' \in [Numbers -> Sids \cup {-1}]
      /\ used' \in [Peers -> SUBSET Sids]
  BY <1>1, <1>2, <1>3, <1>4, <1>6, <1>7, IdentifiedStep
<1>9. DOMAIN ids \subseteq Numbers
      /\ \A n \in DOMAIN ids : ids[n] \in Sids /\ sid'[n] = ids[n]
  BY <1>1, <1>2, <1>3, ChannelSets DEF Identified
<1>10. StreamTypes'
  BY <1>1, <1>9, OpenedTypes DEF ChannelsInv, TypeInv
<1>11. PICK T \in Seq(GoodTask(p)') : tasks' = [tasks EXCEPT ![p] = T]
  BY <1>1, <1>8, <1>9, ReadyPosted DEF ChannelsInv
<1>12. TypeInv'
  BY <1>1, <1>4, <1>8, <1>10, <1>11, TypesWithTasks DEF ChannelsInv
<1> QED BY <1>8, <1>12 DEF ChannelsInv

LEMMA CreateStep ==
    ASSUME ChannelsInv, NEW p \in Peers, NEW n \in Numbers,
           CreateDataChannel(p, n)
    PROVE  ChannelsInv' /\ Keeps
<1> DEFINE ids == AllocateSid(p, {n})
<1>1. /\ n \in Channels[p] /\ state[p][n] = "none" /\ n \in DOMAIN ids
      /\ Identified(ids)
      /\ used' = [used EXCEPT ![p] = @ \cup {ids[n]}]
      /\ state' = [state EXCEPT ![p][n] = "connecting"]
      /\ Opened(p, ids)
      /\ PostAll(p, Ready(ids))
      /\ UNCHANGED <<wire, lost>>
  BY DEF CreateDataChannel, boundVars
<1>2. /\ DOMAIN ids \subseteq {n}
      /\ \A c \in DOMAIN ids : ids[c] \in Sids \ used[p] /\ ids[c] % 2 = p - 1
      /\ \A c, m \in DOMAIN ids : ids[c] = ids[m] => c = m
  <2>1. {n} \subseteq Numbers
    OBVIOUS
  <2> QED BY <2>1, Allocated
<1> HIDE DEF ids
<1>3. /\ \A c \in Numbers : state'[p][c] =
             IF c = n THEN "connecting" ELSE state[p][c]
      /\ \A c \in Numbers : state'[Other(p)][c] = state[Other(p)][c]
      /\ state' \in [Peers -> [Numbers -> States]]
  BY <1>1, TheOther DEF ChannelsInv, TypeInv, States
<1>4. DOMAIN ids = {n} /\ sid[n] = -1
  BY <1>1, <1>2 DEF ChannelsInv, IdInv
<1>5. used' = [used EXCEPT ![p] = @ \cup {ids[c] : c \in DOMAIN ids}]
  <2>1. {ids[c] : c \in DOMAIN ids} = {ids[n]}
    BY <1>4
  <2> QED BY <1>1, <2>1
<1>6. \A c \in DOMAIN ids : /\ ids[c] \in Sids \ used[p]
                            /\ ids[c] % 2 = p - 1
                            /\ sid[c] = -1
                            /\ state'[p][c] \in Listed
  BY <1>2, <1>3, <1>4 DEF Listed
<1>7. \A c \in Numbers \ DOMAIN ids : state'[p][c] = state[p][c]
  BY <1>3, <1>4
<1>8. /\ IdInv' /\ UsedInv' /\ Keeps
      /\ sid' \in [Numbers -> Sids \cup {-1}]
      /\ used' \in [Peers -> SUBSET Sids]
  <2>1. DOMAIN ids \subseteq Channels[p]
    BY <1>1, <1>4
  <2> QED BY <1>1, <1>2, <1>3, <1>5, <1>6, <1>7, <2>1, IdentifiedStep
<1>9. DOMAIN ids \subseteq Numbers
      /\ \A c \in DOMAIN ids : ids[c] \in Sids /\ sid'[c] = ids[c]
  BY <1>1, <1>2, <1>4 DEF Identified
<1>10. StreamTypes'
  BY <1>1, <1>9, OpenedTypes DEF ChannelsInv, TypeInv
<1>11. PICK T \in Seq(GoodTask(p)') : tasks' = [tasks EXCEPT ![p] = T]
  BY <1>1, <1>8, <1>9, ReadyPosted DEF ChannelsInv
<1>12. TypeInv'
  BY <1>1, <1>3, <1>8, <1>10, <1>11, TypesWithTasks DEF ChannelsInv
<1> QED BY <1>8, <1>12 DEF ChannelsInv

(* The task at the head.                                                   *)
LEMMA HeadIsGood ==
    ASSUME TypeInv, NEW p \in Peers, tasks[p] # << >>
    PROVE  /\ Head(tasks[p]) \in GoodTask(p)
           /\ Head(tasks[p]) = tasks[p][1] /\ 1 \in DOMAIN tasks[p]
<1>1. tasks[p] \in Seq(GoodTask(p))
  BY DEF TypeInv
<1> QED BY <1>1, HeadTailProperties

LEMMA SameIds ==
    ASSUME UNCHANGED <<sid, lost>>
    PROVE  Keeps
BY DEF Keeps

LEMMA HandleOpenStep ==
    ASSUME ChannelsInv, NEW p \in Peers, HandleOpenMessage(p)
    PROVE  ChannelsInv' /\ Keeps
<1> DEFINE s == Head(tasks[p]).sid
           n == Head(tasks[p]).n
           ids == [c \in {n} |-> s]
           q == Other(p)
<1>1. /\ n \in Numbers /\ s \in Sids /\ sid[n] = s
      /\ n \in Channels[q] /\ q \in Peers /\ q # p /\ Other(q) = p
      /\ tasks[p] # << >> /\ s >= 0
  BY HeadIsGood, TheOther, SidSet
  DEF ChannelsInv, HandleOpenMessage, Head1, GoodTask, TaskType
<1>2. /\ UNCHANGED <<sid, wire, lost>> /\ Keeps
  BY DEF HandleOpenMessage, Keeps, boundVars, channelVars
<1>3. Tail(tasks[p]) \in Seq(GoodTask(p)')
  BY <1>1, <1>2, TasksStay DEF ChannelsInv
<1>4. sid' \in [Numbers -> Sids \cup {-1}]
  BY <1>2 DEF ChannelsInv, TypeInv
<1>5. CASE s \in used[p]
  <2>1. /\ tasks' = [tasks EXCEPT ![p] = Tail(@)]
        /\ UNCHANGED <<streamVars, state, used>>
    BY <1>5 DEF HandleOpenMessage, channelVars
  <2>2. StreamTypes'
    BY <2>1 DEF ChannelsInv, TypeInv, StreamTypes, streamVars
  <2>3. state' \in [Peers -> [Numbers -> States]] /\ used' \in [Peers -> SUBSET Sids]
    BY <2>1 DEF ChannelsInv, TypeInv
  <2>4. TypeInv'
    BY <1>2, <1>3, <1>4, <2>1, <2>2, <2>3, TypesWithTasks DEF ChannelsInv
  <2>5. lost' # {} => \A u \in Peers, r \in Sids : wire'[u][r] = << >>
    BY <1>2 DEF ChannelsInv, IdInv
  <2>6. IdInv' /\ UsedInv'
    BY <1>2, <2>1, <2>5, ListsStay
  <2> QED BY <1>2, <2>4, <2>6 DEF ChannelsInv
<1>6. CASE s \notin used[p]
  <2>1. /\ used' = [used EXCEPT ![p] = @ \cup {s}]
        /\ state' = [state EXCEPT ![p][n] = "connecting"]
        /\ Opened(p, ids)
        /\ tasks' = [tasks EXCEPT ![p] = Append(Tail(@), Task("READY", s, n))]
    BY <1>6 DEF HandleOpenMessage
  <2>2. StreamTypes'
    BY <1>1, <2>1, OpenedTypes DEF ChannelsInv, TypeInv
  <2>3. Task("READY", s, n) \in GoodTask(p)'
    BY <1>1, <1>2 DEF Task, GoodTask, TaskType
  <2> HIDE DEF s, n
  <2>4. Append(Tail(tasks[p]), Task("READY", s, n)) \in Seq(GoodTask(p)')
    BY <1>3, <2>3, AppendProperties
  <2>5. /\ state' \in [Peers -> [Numbers -> States]]
        /\ used' \in [Peers -> SUBSET Sids]
        /\ \A u \in Peers, m \in Numbers : state'[u][m] =
               IF u = p /\ m = n THEN "connecting" ELSE state[u][m]
        /\ \A u \in Peers : used'[u] = IF u = p THEN used[u] \cup {s} ELSE used[u]
    BY <1>1, <2>1 DEF ChannelsInv, TypeInv, States
  <2>6. tasks' = [tasks EXCEPT
            ![p] = Append(Tail(tasks[p]), Task("READY", s, n))]
    BY <2>1
  <2>7. TypeInv'
    BY <1>2, <1>4, <2>2, <2>4, <2>5, <2>6, TypesWithTasks DEF ChannelsInv
  <2>8. IdInv'
    <3>1. \A u \in Peers : Channels[u] \subseteq Numbers /\ Other(u) \in Peers
      BY ChannelSets, TheOther
    <3>2. n \notin Channels[p] /\ sid[n] >= 0
      BY <1>1, ChannelSets
    <3>3. ASSUME NEW u \in Peers, NEW m \in Channels[u]
          PROVE  /\ state'[u][m] = "none" => sid'[m] = -1
                 /\ state'[Other(u)][m] # "none" => sid'[m] >= 0
                 /\ sid'[m] >= 0 => sid'[m] % 2 = u - 1
      <4>1. /\ state[u][m] = "none" => sid[m] = -1
            /\ state[Other(u)][m] # "none" => sid[m] >= 0
            /\ sid[m] >= 0 => sid[m] % 2 = u - 1
        BY DEF ChannelsInv, IdInv
      <4> QED BY <1>2, <2>5, <3>1, <3>2, <4>1
    <3>4. lost' # {} => \A u \in Peers, r \in Sids : wire'[u][r] = << >>
      BY <1>2 DEF ChannelsInv, IdInv
    <3> QED BY <3>3, <3>4 DEF IdInv
  <2>9. ASSUME NEW u \in Peers
        PROVE  /\ \A m \in sctp_data_channels(u)' :
                      sid'[m] >= 0 => sid'[m] \in used'[u]
               /\ \A m, k \in sctp_data_channels(u)' :
                      sid'[m] >= 0 /\ sid'[m] = sid'[k] => m = k
               /\ lost' = {} => \A r \in used'[u] : WithSid(u, r)' # {}
    <3>1. /\ \A m \in sctp_data_channels(u) : sid[m] >= 0 => sid[m] \in used[u]
          /\ \A m, k \in sctp_data_channels(u) :
                 sid[m] >= 0 /\ sid[m] = sid[k] => m = k
          /\ lost = {} => \A r \in used[u] : WithSid(u, r) # {}
      BY DEF ChannelsInv, UsedInv
    <3>2. CASE u # p
      <4>1. sctp_data_channels(u)' = sctp_data_channels(u) /\ used'[u] = used[u]
        BY <2>5, <3>2 DEF sctp_data_channels
      <4>2. \A r : WithSid(u, r)' = WithSid(u, r)
        BY <1>2, <4>1 DEF WithSid
      <4> QED BY <1>2, <3>1, <4>1, <4>2
    <3>3. CASE u = p
      <4>1. /\ sctp_data_channels(u)' = sctp_data_channels(u) \cup {n}
            /\ used'[u] = used[u] \cup {s}
        BY <1>1, <2>5, <3>3 DEF sctp_data_channels
      <4>2. ASSUME NEW r
            PROVE  WithSid(u, r)' =
                       IF r = s THEN WithSid(u, r) \cup {n} ELSE WithSid(u, r)
        BY <1>1, <1>2, <4>1 DEF WithSid
      <4>3. \A m \in sctp_data_channels(u) : sid[m] # s
        BY <1>1, <1>6, <3>1, <3>3
      <4> QED BY <1>1, <1>2, <3>1, <4>1, <4>2, <4>3
    <3> QED BY <3>2, <3>3
  <2> QED BY <1>2, <2>7, <2>8, <2>9 DEF ChannelsInv, UsedInv
<1> QED BY <1>5, <1>6

(* A message that an open channel, or one that opens, sends.               *)
LEMMA SentTypes ==
    ASSUME ChannelsInv, NEW p \in Peers, NEW n \in Numbers,
           NEW kind \in {"OPEN", "ACK", "DATA"},
           kind = "OPEN" => n \in Channels[p],
           SendTo(p, sid[n], kind, n), UNCHANGED <<sid, lost>>
    PROVE  /\ DOMAIN wire' = Peers
           /\ \A u \in Peers :
                  /\ DOMAIN wire'[u] = Sids
                  /\ \A s \in Sids :
                         /\ wire'[u][s] \in Seq(GoodMessage(u, s)')
                         /\ wire'[u][s] =
                                IF lost = {} /\ u = Other(p) /\ s = sid[n]
                                THEN Append(wire[u][s], <<kind, n>>)
                                ELSE wire[u][s]
           /\ lost' # {} => \A u \in Peers, s \in Sids : wire'[u][s] = << >>
<1> DEFINE q == Other(p)
<1>0. q \in Peers /\ Other(q) = p /\ Keeps
  BY TheOther, SameIds
<1>1. \A u \in Peers, s \in Sids : wire[u][s] \in Seq(GoodMessage(u, s)')
  BY <1>0, TasksStay DEF ChannelsInv
<1>2. CASE lost = {}
  <2>1. wire' = [wire EXCEPT ![q][sid[n]] = Append(@, <<kind, n>>)]
    BY <1>2 DEF SendTo
  <2>2. DOMAIN wire' = Peers /\ \A u \in Peers : DOMAIN wire'[u] = Sids
    BY <1>0, <2>1 DEF ChannelsInv, TypeInv
  <2>3. ASSUME NEW u \in Peers, NEW s \in Sids
        PROVE  wire'[u][s] = IF u = q /\ s = sid[n]
                             THEN Append(wire[u][s], <<kind, n>>)
                             ELSE wire[u][s]
    BY <1>0, <2>1 DEF ChannelsInv, TypeInv
  <2>4. ASSUME NEW u \in Peers, NEW s \in Sids
        PROVE  wire'[u][s] \in Seq(GoodMessage(u, s)')
    <3>1. CASE u = q /\ s = sid[n]
      <4>1. <<kind, n>> \in GoodMessage(u, s)'
        BY <1>0, <3>1 DEF GoodMessage, Message
      <4>2. wire'[u][s] = Append(wire[u][s], <<kind, n>>)
        BY <2>3, <3>1
      <4> QED BY <1>1, <4>1, <4>2, AppendProperties
    <3>2. CASE ~(u = q /\ s = sid[n])
      <4>1. wire'[u][s] = wire[u][s]
        BY <2>3, <3>2
      <4> QED BY <1>1, <4>1
    <3> QED BY <3>1, <3>2
  <2> QED BY <1>2, <2>2, <2>3, <2>4
<1>3. CASE lost # {}
  <2>1. wire' = wire
    BY <1>3 DEF SendTo
  <2> QED BY <1>1, <1>3, <2>1 DEF ChannelsInv, TypeInv, IdInv
<1> QED BY <1>2, <1>3

LEMMA Popped ==
    ASSUME TypeInv, Keeps, NEW p \in Peers, tasks[p] # << >>,
           tasks' = [tasks EXCEPT ![p] = Tail(@)]
    PROVE  /\ DOMAIN tasks' = Peers
           /\ \A u \in Peers : tasks'[u] \in Seq(GoodTask(u)')
           /\ tasks' = [tasks EXCEPT ![p] = Tail(tasks[p])]
           /\ Tail(tasks[p]) \in Seq(GoodTask(p)')
<1>1. \A u \in Peers : tasks'[u] = IF u = p THEN Tail(tasks[p]) ELSE tasks[u]
  BY DEF TypeInv
<1>2. \A u \in Peers : tasks[u] \in Seq(GoodTask(u)')
  BY TasksStay
<1>3. Tail(tasks[p]) \in Seq(GoodTask(p)')
  BY TasksStay
<1> QED BY <1>1, <1>2, <1>3 DEF TypeInv

LEMMA AppSendStep ==
    ASSUME ChannelsInv, NEW p \in Peers, NEW n \in Numbers, AppSend(p, n)
    PROVE  ChannelsInv' /\ Keeps
<1>1. UNCHANGED <<sid, tasks, lost, streamVars>> /\ Keeps /\ n \in sctp_data_channels(p)
  BY DEF AppSend, CloseAbruptlyWithError, Keeps, channelVars,
         sctp_data_channels
<1>2. StreamTypes'
  BY <1>1 DEF ChannelsInv, TypeInv, StreamTypes, streamVars
<1>3. sid' \in [Numbers -> Sids \cup {-1}]
  BY <1>1 DEF ChannelsInv, TypeInv
<1>4. CASE SendTo(p, sid[n], "DATA", n) /\ UNCHANGED channelVars
  <2>1. UNCHANGED <<state, used>>
    BY <1>4 DEF channelVars
  <2>2. /\ DOMAIN wire' = Peers
        /\ \A u \in Peers :
               /\ DOMAIN wire'[u] = Sids
               /\ \A s \in Sids : wire'[u][s] \in Seq(GoodMessage(u, s)')
        /\ lost' # {} => \A u \in Peers, s \in Sids : wire'[u][s] = << >>
    BY <1>1, <1>4, SentTypes
  <2>3. IdInv' /\ UsedInv'
    BY <1>1, <2>1, <2>2, ListsStay
  <2>4. \A u \in Peers : tasks'[u] \in Seq(GoodTask(u)')
    BY <1>1, TasksStay DEF ChannelsInv
  <2>5. TypeInv'
    BY <1>1, <1>2, <1>3, <2>1, <2>2, <2>4 DEF ChannelsInv, TypeInv
  <2> QED BY <1>1, <2>3, <2>5 DEF ChannelsInv
<1>5. CASE CloseAbruptlyWithError(p, n) /\ UNCHANGED wire
  <2>1. /\ IdInv' /\ UsedInv'
        /\ state' \in [Peers -> [Numbers -> States]]
        /\ used' \in [Peers -> SUBSET Sids]
    BY <1>1, <1>5, ReleaseStep DEF CloseAbruptlyWithError
  <2> QED BY <1>1, <1>2, <1>3, <1>5, <2>1, TypesAlone DEF ChannelsInv
<1> QED BY <1>4, <1>5 DEF AppSend

LEMMA BeginClosingTypes ==
    ASSUME ChannelsInv, NEW p \in Peers, NEW n \in Numbers, BeginClosing(p, n)
    PROVE  StreamTypes'
<1>1. CASE UNCHANGED streamVars
  BY <1>1 DEF ChannelsInv, TypeInv, StreamTypes, streamVars
<1>2. CASE sid[n] >= 0 /\ RemoveSctpDataStream(p, sid[n])
  <2>1. sid[n] \in Sids
    BY <1>2 DEF ChannelsInv, TypeInv
  <2> QED BY <1>2, <2>1, ResetTypes DEF ChannelsInv, TypeInv
<1> QED BY <1>1, <1>2 DEF BeginClosing

LEMMA AppCloseStep ==
    ASSUME ChannelsInv, NEW p \in Peers, NEW n \in Numbers, AppClose(p, n)
    PROVE  ChannelsInv' /\ Keeps
<1>1. /\ UNCHANGED <<sid, used, tasks, wire, lost>> /\ Keeps
      /\ state[p][n] \in {"connecting", "open"}
      /\ state' = [state EXCEPT ![p][n] = "closing"]
      /\ BeginClosing(p, n)
  BY DEF AppClose, Keeps, boundVars
<1>2. StreamTypes'
  BY <1>1, BeginClosingTypes
<1>3. /\ state' \in [Peers -> [Numbers -> States]]
      /\ \A u \in Peers, m \in Numbers : state'[u][m] =
             IF u = p /\ m = n THEN "closing" ELSE state[u][m]
      /\ used' \in [Peers -> SUBSET Sids]
      /\ sid' \in [Numbers -> Sids \cup {-1}]
  BY <1>1 DEF ChannelsInv, TypeInv, States
<1>4. TypeInv'
  BY <1>1, <1>2, <1>3, TypesAlone DEF ChannelsInv
<1>5. lost' # {} => \A u \in Peers, s \in Sids : wire'[u][s] = << >>
  BY <1>1 DEF ChannelsInv, IdInv
<1>6. \A u \in Peers, m \in Numbers :
          /\ state'[u][m] \in Listed <=> state[u][m] \in Listed
          /\ state'[u][m] = "none" <=> state[u][m] = "none"
  BY <1>1, <1>3 DEF Listed
<1>7. IdInv' /\ UsedInv'
  BY <1>1, <1>5, <1>6, ListsStay
<1> QED BY <1>1, <1>4, <1>7 DEF ChannelsInv

LEMMA ReadyStep ==
    ASSUME ChannelsInv, NEW p \in Peers, OnChannelReady(p)
    PROVE  ChannelsInv' /\ Keeps
<1> DEFINE n == Head(tasks[p]).n
<1>1. /\ UNCHANGED <<sid, used, lost>> /\ Keeps
      /\ tasks[p] # << >>
      /\ tasks' = [tasks EXCEPT ![p] = Tail(@)]
  BY DEF OnChannelReady, Keeps, boundVars, Head1
<1>2. n \in Numbers
  <2>1. Head(tasks[p]) \in GoodTask(p) /\ Head(tasks[p]).kind = "READY"
    BY <1>1, HeadIsGood DEF ChannelsInv, OnChannelReady, Head1
  <2> QED BY <2>1 DEF GoodTask, TaskType
<1>3. /\ DOMAIN tasks' = Peers
      /\ \A u \in Peers : tasks'[u] \in Seq(GoodTask(u)')
  BY <1>1, Popped DEF ChannelsInv
<1>4. used' \in [Peers -> SUBSET Sids] /\ sid' \in [Numbers -> Sids \cup {-1}]
  BY <1>1 DEF ChannelsInv, TypeInv
<1>5. CASE /\ state[p][n] = "connecting"
           /\ state' = [state EXCEPT ![p][n] = "open"]
           /\ SendTo(p, sid[n], IF n \in Channels[p] THEN "OPEN" ELSE "ACK", n)
           /\ UNCHANGED streamVars
  <2> DEFINE kind == IF n \in Channels[p] THEN "OPEN" ELSE "ACK"
  <2> HIDE DEF n
  <2>1. kind \in {"OPEN", "ACK", "DATA"} /\ (kind = "OPEN" => n \in Channels[p])
    OBVIOUS
  <2>2. SendTo(p, sid[n], kind, n)
    BY <1>5
  <2> HIDE DEF kind
  <2>3. /\ DOMAIN wire' = Peers
        /\ \A u \in Peers :
               /\ DOMAIN wire'[u] = Sids
               /\ \A s \in Sids : wire'[u][s] \in Seq(GoodMessage(u, s)')
        /\ lost' # {} => \A u \in Peers, s \in Sids : wire'[u][s] = << >>
    BY <1>1, <1>2, <2>1, <2>2, SentTypes
  <2>4. StreamTypes'
    BY <1>5 DEF ChannelsInv, TypeInv, StreamTypes, streamVars
  <2>5. /\ state' \in [Peers -> [Numbers -> States]]
        /\ \A u \in Peers, m \in Numbers : state'[u][m] =
               IF u = p /\ m = n THEN "open" ELSE state[u][m]
    BY <1>2, <1>5 DEF ChannelsInv, TypeInv, States
  <2>6. \A u \in Peers, m \in Numbers :
            /\ state'[u][m] \in Listed <=> state[u][m] \in Listed
            /\ state'[u][m] = "none" <=> state[u][m] = "none"
    BY <1>5, <2>5 DEF Listed
  <2>7. IdInv' /\ UsedInv'
    BY <1>1, <2>3, <2>6, ListsStay
  <2>8. TypeInv'
    BY <1>3, <1>4, <2>3, <2>4, <2>5 DEF TypeInv
  <2> QED BY <1>1, <2>7, <2>8 DEF ChannelsInv
<1>6. CASE UNCHANGED <<state, wire>> /\ (BeginClosing(p, n) \/ UNCHANGED streamVars)
  <2>1. StreamTypes'
    <3>1. CASE UNCHANGED streamVars
      BY <3>1 DEF ChannelsInv, TypeInv, StreamTypes, streamVars
    <3>2. CASE BeginClosing(p, n)
      BY <1>2, <3>2, BeginClosingTypes
    <3> QED BY <1>6, <3>1, <3>2
  <2>2. \A u \in Peers, s \in Sids : wire'[u][s] \in Seq(GoodMessage(u, s)')
    BY <1>1, <1>6, TasksStay DEF ChannelsInv
  <2>3. TypeInv'
    BY <1>3, <1>4, <1>6, <2>1, <2>2 DEF ChannelsInv, TypeInv
  <2>4. lost' # {} => \A u \in Peers, s \in Sids : wire'[u][s] = << >>
    BY <1>1, <1>6 DEF ChannelsInv, IdInv
  <2>5. IdInv' /\ UsedInv'
    BY <1>1, <1>6, <2>4, ListsStay
  <2> QED BY <1>1, <2>3, <2>5 DEF ChannelsInv
<1> QED BY <1>5, <1>6 DEF OnChannelReady

LEMMA ReceiveStep ==
    ASSUME ChannelsInv, NEW p \in Peers, ReceiveData(p)
    PROVE  ChannelsInv' /\ Keeps
<1>1. /\ UNCHANGED <<sid, wire, lost, streamVars>> /\ Keeps
      /\ tasks[p] # << >>
      /\ tasks' = [tasks EXCEPT ![p] = Tail(@)]
  BY DEF ReceiveData, CloseAbruptlyWithError, Keeps, Head1
<1>2. /\ Tail(tasks[p]) \in Seq(GoodTask(p)')
      /\ tasks' = [tasks EXCEPT ![p] = Tail(tasks[p])]
  BY <1>1, Popped DEF ChannelsInv
<1>3. StreamTypes' /\ sid' \in [Numbers -> Sids \cup {-1}]
  BY <1>1 DEF ChannelsInv, TypeInv, StreamTypes, streamVars
<1>4. CASE UNCHANGED <<state, used>>
  <2>1. state' \in [Peers -> [Numbers -> States]] /\ used' \in [Peers -> SUBSET Sids]
    BY <1>4 DEF ChannelsInv, TypeInv
  <2>2. TypeInv'
    BY <1>1, <1>2, <1>3, <2>1, TypesWithTasks DEF ChannelsInv
  <2>3. lost' # {} => \A u \in Peers, s \in Sids : wire'[u][s] = << >>
    BY <1>1 DEF ChannelsInv, IdInv
  <2>4. IdInv' /\ UsedInv'
    BY <1>1, <1>4, <2>3, ListsStay
  <2> QED BY <1>1, <2>2, <2>4 DEF ChannelsInv
<1>5. CASE \E n \in WithSid(p, Head(tasks[p]).sid) : CloseAbruptlyWithError(p, n)
  <2>1. PICK n \in sctp_data_channels(p) : OnSctpDataChannelClosed(p, n)
    BY <1>5 DEF WithSid, CloseAbruptlyWithError
  <2>2. /\ IdInv' /\ UsedInv'
        /\ state' \in [Peers -> [Numbers -> States]]
        /\ used' \in [Peers -> SUBSET Sids]
    BY <1>1, <2>1, ReleaseStep
  <2>3. TypeInv'
    BY <1>1, <1>2, <1>3, <2>2, TypesWithTasks DEF ChannelsInv
  <2> QED BY <1>1, <2>2, <2>3 DEF ChannelsInv
<1> QED BY <1>4, <1>5 DEF ReceiveData

LEMMA ClosingStep ==
    ASSUME ChannelsInv, NEW p \in Peers, OnChannelClosing(p)
    PROVE  ChannelsInv' /\ Keeps
<1> DEFINE to == {n \in WithSid(p, Head(tasks[p]).sid) :
                     state[p][n] # "closing"}
<1>1. /\ UNCHANGED <<sid, used, wire, lost, streamVars>> /\ Keeps
      /\ tasks[p] # << >>
      /\ tasks' = [tasks EXCEPT ![p] = Tail(@)]
      /\ state' = [state EXCEPT ![p] = [n \in Numbers |->
                       IF n \in to THEN "closing" ELSE @[n]]]
  BY DEF OnChannelClosing, Keeps, Head1, boundVars
<1>2. /\ Tail(tasks[p]) \in Seq(GoodTask(p)')
      /\ tasks' = [tasks EXCEPT ![p] = Tail(tasks[p])]
  BY <1>1, Popped DEF ChannelsInv
<1>3. /\ StreamTypes' /\ sid' \in [Numbers -> Sids \cup {-1}]
      /\ used' \in [Peers -> SUBSET Sids]
  BY <1>1 DEF ChannelsInv, TypeInv, StreamTypes, streamVars
<1>4. \A n \in to : state[p][n] \in Listed
  BY DEF WithSid, sctp_data_channels, Listed
<1> HIDE DEF to
<1>5. /\ state' \in [Peers -> [Numbers -> States]]
      /\ \A u \in Peers, m \in Numbers : state'[u][m] =
             IF u = p /\ m \in to THEN "closing" ELSE state[u][m]
  BY <1>1 DEF ChannelsInv, TypeInv, States
<1>6. TypeInv'
  BY <1>1, <1>2, <1>3, <1>5, TypesWithTasks DEF ChannelsInv
<1>7. \A u \in Peers, m \in Numbers :
          /\ state'[u][m] \in Listed <=> state[u][m] \in Listed
          /\ state'[u][m] = "none" <=> state[u][m] = "none"
  BY <1>4, <1>5 DEF Listed
<1>8. lost' # {} => \A u \in Peers, s \in Sids : wire'[u][s] = << >>
  BY <1>1 DEF ChannelsInv, IdInv
<1>9. IdInv' /\ UsedInv'
  BY <1>1, <1>7, <1>8, ListsStay
<1> QED BY <1>1, <1>6, <1>9 DEF ChannelsInv

LEMMA ClosedStep ==
    ASSUME ChannelsInv, NEW p \in Peers, OnChannelClosed(p)
    PROVE  ChannelsInv' /\ Keeps
<1>1. /\ UNCHANGED <<sid, wire, lost, streamVars>> /\ Keeps
      /\ tasks[p] # << >>
      /\ tasks' = [tasks EXCEPT ![p] = Tail(@)]
  BY DEF OnChannelClosed, Keeps, Head1, boundVars
<1>2. /\ Tail(tasks[p]) \in Seq(GoodTask(p)')
      /\ tasks' = [tasks EXCEPT ![p] = Tail(tasks[p])]
  BY <1>1, Popped DEF ChannelsInv
<1>3. StreamTypes' /\ sid' \in [Numbers -> Sids \cup {-1}]
  BY <1>1 DEF ChannelsInv, TypeInv, StreamTypes, streamVars
<1>4. CASE UNCHANGED <<state, used>>
  <2>1. state' \in [Peers -> [Numbers -> States]] /\ used' \in [Peers -> SUBSET Sids]
    BY <1>4 DEF ChannelsInv, TypeInv
  <2>2. TypeInv'
    BY <1>1, <1>2, <1>3, <2>1, TypesWithTasks DEF ChannelsInv
  <2>3. lost' # {} => \A u \in Peers, s \in Sids : wire'[u][s] = << >>
    BY <1>1 DEF ChannelsInv, IdInv
  <2>4. IdInv' /\ UsedInv'
    BY <1>1, <1>4, <2>3, ListsStay
  <2> QED BY <1>1, <2>2, <2>4 DEF ChannelsInv
<1>5. CASE \E n \in WithSid(p, Head(tasks[p]).sid) : OnSctpDataChannelClosed(p, n)
  <2>1. PICK n \in sctp_data_channels(p) : OnSctpDataChannelClosed(p, n)
    BY <1>5 DEF WithSid
  <2>2. /\ IdInv' /\ UsedInv'
        /\ state' \in [Peers -> [Numbers -> States]]
        /\ used' \in [Peers -> SUBSET Sids]
    BY <1>1, <2>1, ReleaseStep
  <2>3. TypeInv'
    BY <1>1, <1>2, <1>3, <2>2, TypesWithTasks DEF ChannelsInv
  <2> QED BY <1>1, <2>2, <2>3 DEF ChannelsInv
<1> QED BY <1>4, <1>5 DEF OnChannelClosed

LEMMA AllClosedStep ==
    ASSUME ChannelsInv, NEW p \in Peers, OnTransportChannelClosed(p)
    PROVE  ChannelsInv' /\ Keeps
<1>1. /\ UNCHANGED <<sid, used, wire, lost, streamVars>> /\ Keeps
      /\ tasks[p] # << >> /\ Head(tasks[p]).kind = "TRANSPORT_CLOSED"
      /\ tasks' = [tasks EXCEPT ![p] = Tail(@)]
      /\ state' = [state EXCEPT ![p] = [n \in Numbers |->
             IF n \in sctp_data_channels(p) THEN "closed" ELSE @[n]]]
  BY DEF OnTransportChannelClosed, Keeps, Head1, boundVars
<1>2. /\ Tail(tasks[p]) \in Seq(GoodTask(p)')
      /\ tasks' = [tasks EXCEPT ![p] = Tail(tasks[p])]
  BY <1>1, Popped DEF ChannelsInv
<1>3. /\ StreamTypes' /\ sid' \in [Numbers -> Sids \cup {-1}]
      /\ used' \in [Peers -> SUBSET Sids]
  BY <1>1 DEF ChannelsInv, TypeInv, StreamTypes, streamVars
<1>4. lost # {}
  BY <1>1, HeadIsGood DEF ChannelsInv, GoodTask
<1>5. /\ state' \in [Peers -> [Numbers -> States]]
      /\ \A u \in Peers, m \in Numbers : state'[u][m] =
             IF u = p /\ m \in sctp_data_channels(p) THEN "closed" ELSE state[u][m]
  BY <1>1 DEF ChannelsInv, TypeInv, States
<1>6. TypeInv'
  BY <1>1, <1>2, <1>3, <1>5, TypesWithTasks DEF ChannelsInv
<1>7. \A u \in Peers : /\ sctp_data_channels(u)' \subseteq sctp_data_channels(u)
                       /\ \A m \in Numbers :
                              state'[u][m] = "none" <=> state[u][m] = "none"
  BY <1>5 DEF sctp_data_channels
<1>8. UsedInv'
  BY <1>1, <1>4, <1>7 DEF ChannelsInv, UsedInv
<1>9. IdInv'
  <2>1. \A u \in Peers : Channels[u] \subseteq Numbers /\ Other(u) \in Peers
    BY ChannelSets, TheOther
  <2> QED BY <1>1, <1>7, <2>1 DEF ChannelsInv, IdInv
<1> QED BY <1>1, <1>6, <1>8, <1>9 DEF ChannelsInv

(* What OnDataReceived moves from the stream to the tasks.                 *)
LEMMA Arrives ==
    ASSUME TypeInv, NEW p \in Peers, NEW s \in Sids, wire[p][s] # << >>
    PROVE  LET m == Head(wire[p][s])
               t == Task(m[1], s, m[2])
           IN /\ m \in GoodMessage(p, s) /\ t \in GoodTask(p)
              /\ m = wire[p][s][1] /\ 1 \in DOMAIN wire[p][s]
              /\ t.kind = m[1] /\ t.sid = s /\ t.n = m[2]
<1> DEFINE m == Head(wire[p][s])
<1>1. wire[p][s] \in Seq(GoodMessage(p, s))
  BY DEF TypeInv
<1>2. m \in GoodMessage(p, s) /\ m = wire[p][s][1] /\ 1 \in DOMAIN wire[p][s]
  BY <1>1, HeadTailProperties
<1> HIDE DEF m
<1>3. /\ m[1] \in {"OPEN", "ACK", "DATA"} /\ m[2] \in Numbers /\ sid[m[2]] = s
      /\ m[1] = "OPEN" => m[2] \in Channels[Other(p)]
  BY <1>2 DEF GoodMessage, Message
<1>4. Task(m[1], s, m[2]) \in GoodTask(p)
  BY <1>3 DEF Task, GoodTask, TaskType
<1> QED BY <1>2, <1>4 DEF Task, m

LEMMA ReceivedStep ==
    ASSUME ChannelsInv, NEW p \in Peers, NEW s \in Sids, OnDataReceived(p, s)
    PROVE  ChannelsInv' /\ Keeps
<1> DEFINE t == Task(Head(wire[p][s])[1], s, Head(wire[p][s])[2])
<1>1. /\ UNCHANGED <<sid, used, state, lost, streamVars>> /\ Keeps
      /\ wire[p][s] # << >>
      /\ tasks' = [tasks EXCEPT ![p] = Append(@, t)]
      /\ wire' = [wire EXCEPT ![p][s] = Tail(@)]
  BY DEF OnDataReceived, Post, Keeps, channelVars, boundVars
<1>2. t \in GoodTask(p)'
  BY <1>1, Arrives, GoodStays DEF ChannelsInv
<1> HIDE DEF t
<1>3. DOMAIN tasks' = Peers /\ \A u \in Peers : tasks'[u] \in Seq(GoodTask(u)')
  <2>1. \A u \in Peers : tasks[u] \in Seq(GoodTask(u)')
    BY <1>1, TasksStay DEF ChannelsInv
  <2>2. Append(tasks[p], t) \in Seq(GoodTask(p)')
    BY <1>2, <2>1, AppendProperties
  <2> QED BY <1>1, <2>1, <2>2 DEF ChannelsInv, TypeInv
<1>4. /\ DOMAIN wire' = Peers
      /\ \A u \in Peers : DOMAIN wire'[u] = Sids
      /\ \A u \in Peers, r \in Sids :
             wire'[u][r] = IF u = p /\ r = s THEN Tail(wire[p][s]) ELSE wire[u][r]
  BY <1>1 DEF ChannelsInv, TypeInv
<1>5. \A u \in Peers, r \in Sids : wire'[u][r] \in Seq(GoodMessage(u, r)')
  <2>1. \A u \in Peers, r \in Sids : wire[u][r] \in Seq(GoodMessage(u, r)')
    BY <1>1, TasksStay DEF ChannelsInv
  <2>2. Tail(wire[p][s]) \in Seq(GoodMessage(p, s)')
    BY <1>1, TasksStay DEF ChannelsInv
  <2> QED BY <1>4, <2>1, <2>2
<1>6. StreamTypes'
  BY <1>1 DEF ChannelsInv, TypeInv, StreamTypes, streamVars
<1>7. TypeInv'
  BY <1>1, <1>3, <1>4, <1>5, <1>6 DEF ChannelsInv, TypeInv
<1>8. lost' # {} => \A u \in Peers, r \in Sids : wire'[u][r] = << >>
  BY <1>1 DEF ChannelsInv, IdInv
<1>9. IdInv' /\ UsedInv'
  BY <1>1, <1>8, ListsStay
<1> QED BY <1>1, <1>7, <1>9 DEF ChannelsInv

LEMMA SignalsAreGood ==
    ASSUME NEW p \in Peers, NEW C \in SUBSET Sids, NEW D \in SUBSET Sids
    PROVE  Signals(C, D) \subseteq GoodTask(p)
<1>1. 0 \notin Numbers
  BY ChannelSets
<1>2. ASSUME NEW s \in Sids, NEW kind \in {"CLOSING", "CLOSED"}
      PROVE  Task(kind, s, 0) \in GoodTask(p)
  BY <1>1 DEF Task, GoodTask, TaskType
<1> QED BY <1>2 DEF Signals

(* What OnStreamResetEvent posts: CLOSING for the streams of an incoming   *)
(* reset that were open, CLOSED for those that leave the map.              *)
Remotely(p) ==
    IF Head(events[p]).flags = "INCOMING_SSN"
    THEN (Head(events[p]).sids \cap known[p]) \ closure_initiated[p]
    ELSE {}

LEMMA EventPosts ==
    ASSUME StreamTypes, NEW p \in Peers, OnStreamResetEvent(p)
    PROVE  /\ UNCHANGED <<channelVars, wire, boundVars>>
           /\ S!IncomingReset(p) \/ S!OutgoingReset(p)
           /\ Remotely(p) \in SUBSET Sids
           /\ known[p] \ known'[p] \in SUBSET Sids
           /\ \E q \in Seq(Signals(Remotely(p), known[p] \ known'[p])) :
                  /\ tasks' = [tasks EXCEPT ![p] = @ \o q]
                  /\ \A x \in Signals(Remotely(p), known[p] \ known'[p]) :
                         \E i \in DOMAIN q : q[i] = x
                  /\ \A i, j \in DOMAIN q : i < j => Before(q[i], q[j])
<1>1. /\ UNCHANGED <<channelVars, wire, boundVars>>
      /\ S!IncomingReset(p) \/ S!OutgoingReset(p)
  BY DEF OnStreamResetEvent
<1>2. PostAll(p, Signals(Remotely(p), known[p] \ known'[p]))
  BY DEF OnStreamResetEvent, Remotely, S!IncomingReset, S!OutgoingReset
<1>3. Remotely(p) \in SUBSET Sids /\ known[p] \ known'[p] \in SUBSET Sids
  BY DEF StreamTypes, Remotely
<1>4. IsFiniteSet(Signals(Remotely(p), known[p] \ known'[p]))
  BY <1>3, FiniteSignals
<1> QED BY <1>1, <1>2, <1>3, <1>4, PostedAll

LEMMA EventStep ==
    ASSUME ChannelsInv, NEW p \in Peers, OnStreamResetEvent(p)
    PROVE  ChannelsInv' /\ Keeps
<1> DEFINE new == Signals(Remotely(p), known[p] \ known'[p])
<1>0. StreamTypes
  BY DEF ChannelsInv, TypeInv
<1>1. /\ UNCHANGED <<sid, used, state, wire, lost>> /\ Keeps
      /\ S!IncomingReset(p) \/ S!OutgoingReset(p)
  BY <1>0, EventPosts DEF Keeps, channelVars, boundVars
<1>2. PICK q \in Seq(new) : tasks' = [tasks EXCEPT ![p] = @ \o q]
  BY <1>0, EventPosts
<1>3. new \subseteq GoodTask(p)'
  <2>1. new \subseteq GoodTask(p)
    BY <1>0, EventPosts, SignalsAreGood
  <2> QED BY <1>1, <2>1, GoodStays
<1> HIDE DEF new
<1>4. q \in Seq(GoodTask(p)')
  BY <1>2, <1>3, SeqMonotonic
<1>5. tasks[p] \o q \in Seq(GoodTask(p)')
  BY <1>1, <1>4, TasksStay, ConcatProperties DEF ChannelsInv
<1>6. tasks' = [tasks EXCEPT ![p] = tasks[p] \o q]
  BY <1>2
<1>7. StreamTypes'
  BY <1>0, <1>1, EventTypes
<1>8. /\ state' \in [Peers -> [Numbers -> States]]
      /\ sid' \in [Numbers -> Sids \cup {-1}]
      /\ used' \in [Peers -> SUBSET Sids]
  BY <1>1 DEF ChannelsInv, TypeInv
<1>9. TypeInv'
  BY <1>1, <1>5, <1>6, <1>7, <1>8, TypesWithTasks DEF ChannelsInv
<1>10. lost' # {} => \A u \in Peers, r \in Sids : wire'[u][r] = << >>
  BY <1>1 DEF ChannelsInv, IdInv
<1>11. IdInv' /\ UsedInv'
  BY <1>1, <1>10, ListsStay
<1> QED BY <1>1, <1>9, <1>11 DEF ChannelsInv

LEMMA ResetStep ==
    ASSUME ChannelsInv, NEW p \in Peers, PerformReset(p) \/ ReceiveResponse(p)
    PROVE  ChannelsInv' /\ Keeps
<1>1. /\ UNCHANGED <<sid, used, state, tasks, wire, lost>> /\ Keeps
      /\ S!PerformReset(p) \/ S!ReceiveResponse(p)
  BY DEF PerformReset, ReceiveResponse, Keeps, channelVars, boundVars
<1>2. StreamTypes'
  BY <1>1, NotifiedTypes DEF ChannelsInv, TypeInv
<1>3. /\ state' \in [Peers -> [Numbers -> States]]
      /\ sid' \in [Numbers -> Sids \cup {-1}]
      /\ used' \in [Peers -> SUBSET Sids]
  BY <1>1 DEF ChannelsInv, TypeInv
<1>4. TypeInv'
  BY <1>1, <1>2, <1>3, TypesAlone DEF ChannelsInv
<1>5. lost' # {} => \A u \in Peers, r \in Sids : wire'[u][r] = << >>
  BY <1>1 DEF ChannelsInv, IdInv
<1>6. IdInv' /\ UsedInv'
  BY <1>1, <1>5, ListsStay
<1> QED BY <1>1, <1>4, <1>6 DEF ChannelsInv

LEMMA LossStep ==
    ASSUME ChannelsInv, NEW p \in Peers, OnTransportClosed(p)
    PROVE  ChannelsInv' /\ Keeps
<1> DEFINE t == Task("TRANSPORT_CLOSED", -1, 0)
<1>1. /\ UNCHANGED <<sid, used, state, streamVars>> /\ Keeps
      /\ lost' # {}
      /\ tasks' = [tasks EXCEPT ![p] = Append(@, t)]
      /\ wire' = [u \in Peers |-> [s \in Sids |-> << >>]]
  BY DEF OnTransportClosed, Post, Keeps, channelVars
<1>2. t \in GoodTask(p)'
  <2>1. 0 \notin Numbers
    BY ChannelSets
  <2> QED BY <1>1, <2>1 DEF Task, GoodTask, TaskType
<1> HIDE DEF t
<1>3. DOMAIN tasks' = Peers /\ \A u \in Peers : tasks'[u] \in Seq(GoodTask(u)')
  <2>1. \A u \in Peers : tasks[u] \in Seq(GoodTask(u)')
    BY <1>1, TasksStay DEF ChannelsInv
  <2>2. Append(tasks[p], t) \in Seq(GoodTask(p)')
    BY <1>2, <2>1, AppendProperties
  <2> QED BY <1>1, <2>1, <2>2 DEF ChannelsInv, TypeInv
<1>4. /\ DOMAIN wire' = Peers
      /\ \A u \in Peers : DOMAIN wire'[u] = Sids
      /\ \A u \in Peers, r \in Sids : wire'[u][r] = << >>
  BY <1>1
<1>5. \A u \in Peers, r \in Sids : wire'[u][r] \in Seq(GoodMessage(u, r)')
  <2>1. \A M : << >> \in Seq(M)
    OBVIOUS
  <2> QED BY <1>4, <2>1, Zenon
<1>6. StreamTypes'
  BY <1>1 DEF ChannelsInv, TypeInv, StreamTypes, streamVars
<1>7. TypeInv'
  BY <1>1, <1>3, <1>4, <1>5, <1>6 DEF ChannelsInv, TypeInv
<1>8. IdInv' /\ UsedInv'
  BY <1>1, <1>4, ListsStay
<1> QED BY <1>1, <1>7, <1>8 DEF ChannelsInv

LEMMA ChannelsStep == ChannelsInv /\ [Next]_vars => ChannelsInv'
<1> SUFFICES ASSUME ChannelsInv, [Next]_vars
             PROVE  ChannelsInv'
  OBVIOUS
<1>1. CASE UNCHANGED vars
  <2>1. UNCHANGED <<sid, used, state, tasks, wire, lost, streamVars>> /\ Keeps
    BY <1>1 DEF vars, channelVars, boundVars, Keeps
  <2>2. StreamTypes'
    BY <2>1 DEF ChannelsInv, TypeInv, StreamTypes, streamVars
  <2>3. /\ state' \in [Peers -> [Numbers -> States]]
        /\ sid' \in [Numbers -> Sids \cup {-1}]
        /\ used' \in [Peers -> SUBSET Sids]
    BY <2>1 DEF ChannelsInv, TypeInv
  <2>4. TypeInv'
    BY <2>1, <2>2, <2>3, TypesAlone DEF ChannelsInv
  <2>5. lost' # {} => \A u \in Peers, r \in Sids : wire'[u][r] = << >>
    BY <2>1 DEF ChannelsInv, IdInv
  <2>6. IdInv' /\ UsedInv'
    BY <2>1, <2>5, ListsStay
  <2> QED BY <2>4, <2>6 DEF ChannelsInv
<1>2. CASE Next
  <2> PICK p \in Peers : \/ AllocateSctpSids(p) \/ Application(p)
                         \/ SignalingThread(p)
                         \/ NetworkThread(p)
                         \/ OnTransportClosed(p)
    BY <1>2 DEF Next
  <2>1. CASE AllocateSctpSids(p)
    BY <2>1, AllocateStep
  <2>2. CASE Application(p)
    BY <2>2, CreateStep, AppSendStep, AppCloseStep DEF Application
  <2>3. CASE SignalingThread(p)
    BY <2>3, HandleOpenStep, ReadyStep, ReceiveStep, ClosingStep, ClosedStep,
       AllClosedStep DEF SignalingThread
  <2>4. CASE NetworkThread(p)
    BY <2>4, ReceivedStep, EventStep, ResetStep DEF NetworkThread
  <2>5. CASE OnTransportClosed(p)
    BY <2>5, LossStep
  <2> QED BY <2>1, <2>2, <2>3, <2>4, <2>5
<1> QED BY <1>1, <1>2

LEMMA ChannelsInit == Init => ChannelsInv
<1> SUFFICES ASSUME Init
             PROVE  ChannelsInv
  OBVIOUS
<1>1. StreamTypes
  BY DEF Init, StreamTypes
<1>2. \A p \in Peers, n \in Numbers :
          state[p][n] = IF n \in Early \cap Channels[p]
                        THEN "connecting" ELSE "none"
  BY DEF Init
<1>3. TypeInv
  <2>1. /\ state \in [Peers -> [Numbers -> States]]
        /\ sid \in [Numbers -> Sids \cup {-1}]
        /\ used \in [Peers -> SUBSET Sids]
    BY DEF Init, States
  <2>2. /\ DOMAIN tasks = Peers
        /\ \A p \in Peers : tasks[p] \in Seq(GoodTask(p))
        /\ DOMAIN wire = Peers
        /\ \A p \in Peers :
               /\ DOMAIN wire[p] = Sids
               /\ \A s \in Sids : wire[p][s] \in Seq(GoodMessage(p, s))
    BY DEF Init
  <2> QED BY <1>1, <2>1, <2>2 DEF TypeInv
<1>4. \A n \in Numbers : sid[n] = -1 /\ ~(sid[n] >= 0)
  BY DEF Init
<1>5. lost = {} /\ \A p \in Peers : used[p] = {}
  BY DEF Init
<1>6. IdInv
  <2>1. \A p \in Peers : /\ Channels[p] \subseteq Numbers /\ Other(p) \in Peers
                         /\ \A n \in Channels[p] : n \notin Channels[Other(p)]
    BY ChannelSets, TheOther
  <2> QED BY <1>2, <1>4, <1>5, <2>1 DEF IdInv
<1>7. UsedInv
  BY <1>4, <1>5 DEF UsedInv, sctp_data_channels
<1> QED BY <1>3, <1>6, <1>7 DEF ChannelsInv

LEMMA ChannelsListed == ChannelsInv => UsedSidsAreListed
<1> SUFFICES ASSUME ChannelsInv, NEW p \in Peers
             PROVE  LET listed == {n \in sctp_data_channels(p) : sid[n] >= 0}
                        ids == {sid[n] : n \in listed}
                    IN /\ ids \subseteq used[p]
                       /\ Cardinality(ids) = Cardinality(listed)
                       /\ lost = {} => used[p] = ids
  BY DEF UsedSidsAreListed
<1> DEFINE listed == {n \in sctp_data_channels(p) : sid[n] >= 0}
           ids == {sid[n] : n \in listed}
           f == [n \in listed |-> sid[n]]
<1>1. /\ \A n \in sctp_data_channels(p) : sid[n] >= 0 => sid[n] \in used[p]
      /\ \A n, m \in sctp_data_channels(p) :
             sid[n] >= 0 /\ sid[n] = sid[m] => n = m
      /\ lost = {} => \A s \in used[p] : WithSid(p, s) # {}
  BY DEF ChannelsInv, UsedInv
<1>2. ids \subseteq used[p]
  BY <1>1
<1>3. listed \subseteq Numbers
  BY DEF sctp_data_channels
<1>4. lost = {} => used[p] \subseteq ids
  <2> SUFFICES ASSUME lost = {}, NEW s \in used[p]
               PROVE  s \in ids
    OBVIOUS
  <2>1. PICK n \in WithSid(p, s) : TRUE
    BY <1>1
  <2>2. n \in sctp_data_channels(p) /\ sid[n] = s
    BY <2>1 DEF WithSid
  <2>3. s \in Sids
    BY DEF ChannelsInv, TypeInv
  <2>4. s >= 0
    BY <2>3, SidSet
  <2> QED BY <2>2, <2>4
<1>5. f \in Bijection(listed, ids)
  <2>1. f \in Surjection(listed, ids)
    BY DEF Surjection
  <2>2. f \in Injection(listed, ids)
    BY <1>1 DEF Injection, IsInjective
  <2> QED BY <2>1, <2>2 DEF Bijection
<1> HIDE DEF f, ids, listed
<1>6. IsFiniteSet(listed)
  BY <1>3, ChannelSets, FS_Subset
<1>7. Cardinality(ids) = Cardinality(listed)
  <2>1. ExistsBijection(listed, ids)
    BY <1>5 DEF ExistsBijection
  <2> QED BY <1>6, <2>1, FS_Bijection
<1> QED BY <1>2, <1>4, <1>7 DEF ids, listed

(* An id is in used_sids_ exactly as long as a channel on the list of the  *)
(* controller holds it, and no two channels on a list share one, for any   *)
(* number of channels and of ids: SctpSidAllocator and sctp_data_channels_ *)
(* agree through AllocateSctpSids, OnDataChannelOpenMessage,               *)
(* OnSctpDataChannelClosed and CloseAbruptlyWithError.                     *)
THEOREM SidsAreListed == Spec => []UsedSidsAreListed
<1>1. Spec => []ChannelsInv
  BY ChannelsInit, ChannelsStep, PTL DEF Spec
<1> QED BY <1>1, ChannelsListed, PTL

-----------------------------------------------------------------------------
(* Queues of tasks.                                                        *)

Is(t, kind, s) == t.kind = kind /\ t.sid = s

(* The channels that the tasks of a kind with id s name.                   *)
About(T, kind, s) == {T[i].n : i \in {j \in DOMAIN T : Is(T[j], kind, s)}}

Has(T, kind, s) == About(T, kind, s) # {}

Once(T, s) ==
    \A i, j \in DOMAIN T :
        Is(T[i], "CLOSED", s) /\ Is(T[j], "CLOSED", s) => i = j

(* CLOSED comes after CLOSING.                                             *)
Warned(T, s) ==
    \A i \in DOMAIN T :
        Is(T[i], "CLOSED", s) =>
            \E j \in DOMAIN T : j < i /\ Is(T[j], "CLOSING", s)

(* Data for any channel but n comes after CLOSING.                         *)
Own(T, s, n) ==
    \A i \in DOMAIN T :
        Is(T[i], "DATA", s) /\ T[i].n # n =>
            \E j \in DOMAIN T : j < i /\ Is(T[j], "CLOSING", s)

(* No data comes after CLOSED.                                             *)
Ends(T, s) ==
    \A i, j \in DOMAIN T :
        Is(T[i], "CLOSED", s) /\ Is(T[j], "DATA", s) => j < i

(* After OPEN comes no other OPEN and only data of its channel.            *)
Follow(T, s) ==
    \A i, j \in DOMAIN T :
        Is(T[i], "OPEN", s) /\ i < j =>
            /\ ~Is(T[j], "OPEN", s)
            /\ Is(T[j], "DATA", s) => T[j].n = T[i].n

(* U may stand for T in what is claimed of stream s.                       *)
Looks(T, U, s) ==
    /\ About(U, "OPEN", s) \subseteq About(T, "OPEN", s)
    /\ About(U, "DATA", s) \subseteq About(T, "DATA", s)
    /\ Has(U, "CLOSING", s) <=> Has(T, "CLOSING", s)
    /\ Has(U, "CLOSED", s) <=> Has(T, "CLOSED", s)
    /\ Once(T, s) => Once(U, s)
    /\ Warned(T, s) => Warned(U, s)
    /\ \A n : Own(T, s, n) => Own(U, s, n)
    /\ Ends(T, s) => Ends(U, s)
    /\ Follow(T, s) => Follow(U, s)

LEMMA LooksItself ==
    ASSUME NEW T, NEW s
    PROVE  Looks(T, T, s)
BY DEF Looks

(* The places of a queue and of its tail.                                  *)
LEMMA TailPlaces ==
    ASSUME NEW X, NEW T \in Seq(X), T # << >>
    PROVE  /\ \A i \in DOMAIN T : i \in Nat /\ 1 <= i
           /\ \A i \in DOMAIN Tail(T) : /\ i \in Nat /\ i + 1 \in DOMAIN T
                                        /\ Tail(T)[i] = T[i + 1]
           /\ \A i \in DOMAIN T :
                  \/ i = 1
                  \/ /\ 1 < i /\ i - 1 \in DOMAIN Tail(T)
                     /\ Tail(T)[i - 1] = T[i]
           /\ 1 \in DOMAIN T /\ Head(T) = T[1]
<1>1. Len(T) \in Nat /\ Len(T) > 0 /\ DOMAIN T = 1 .. Len(T)
  BY EmptySeq, LenProperties
<1>2. /\ Len(Tail(T)) = Len(T) - 1
      /\ DOMAIN Tail(T) = 1 .. (Len(T) - 1)
      /\ \A i \in 1 .. (Len(T) - 1) : Tail(T)[i] = T[i + 1]
      /\ Head(T) = T[1]
  BY <1>1
<1> QED BY <1>1, <1>2

LEMMA TailAbout ==
    ASSUME NEW X, NEW T \in Seq(X), T # << >>, NEW kind, NEW s
    PROVE  /\ About(Tail(T), kind, s) \subseteq About(T, kind, s)
           /\ About(T, kind, s) =
                  IF Is(Head(T), kind, s)
                  THEN About(Tail(T), kind, s) \cup {Head(T).n}
                  ELSE About(Tail(T), kind, s)
<1> DEFINE U == Tail(T)
<1>1. /\ \A i \in DOMAIN U : i + 1 \in DOMAIN T /\ U[i] = T[i + 1]
      /\ \A i \in DOMAIN T : i = 1 \/ (i - 1 \in DOMAIN U /\ U[i - 1] = T[i])
      /\ 1 \in DOMAIN T /\ Head(T) = T[1]
  BY TailPlaces
<1> HIDE DEF U
<1>2. ASSUME NEW x
      PROVE  /\ x \in About(U, kind, s) => x \in About(T, kind, s)
             /\ x \in About(T, kind, s) =>
                    \/ x \in About(U, kind, s)
                    \/ Is(Head(T), kind, s) /\ x = Head(T).n
             /\ Is(Head(T), kind, s) => Head(T).n \in About(T, kind, s)
  <2>1. x \in About(U, kind, s) => x \in About(T, kind, s)
    BY <1>1 DEF About
  <2>2. ASSUME x \in About(T, kind, s)
        PROVE  \/ x \in About(U, kind, s)
               \/ Is(Head(T), kind, s) /\ x = Head(T).n
    <3>1. PICK i \in DOMAIN T : Is(T[i], kind, s) /\ x = T[i].n
      BY <2>2 DEF About
    <3>2. CASE i = 1
      BY <1>1, <3>1, <3>2
    <3>3. CASE i - 1 \in DOMAIN U /\ U[i - 1] = T[i]
      BY <3>1, <3>3 DEF About
    <3> QED BY <1>1, <3>2, <3>3
  <2>3. Is(Head(T), kind, s) => Head(T).n \in About(T, kind, s)
    BY <1>1 DEF About
  <2> QED BY <2>1, <2>2, <2>3
<1> QED BY <1>2, Zenon DEF U

LEMMA TailOrder ==
    ASSUME NEW X, NEW T \in Seq(X), T # << >>, NEW s
    PROVE  /\ Once(T, s) => Once(Tail(T), s)
           /\ Warned(T, s) /\ ~Is(Head(T), "CLOSING", s) => Warned(Tail(T), s)
           /\ \A n : Own(T, s, n) /\ ~Is(Head(T), "CLOSING", s)
                         => Own(Tail(T), s, n)
           /\ Ends(T, s) => Ends(Tail(T), s)
           /\ Follow(T, s) => Follow(Tail(T), s)
<1> DEFINE U == Tail(T)
<1>1. /\ \A i \in DOMAIN T : i \in Nat /\ 1 <= i
      /\ \A i \in DOMAIN U : i \in Nat /\ i + 1 \in DOMAIN T /\ U[i] = T[i + 1]
      /\ \A i \in DOMAIN T :
             i = 1 \/ (1 < i /\ i - 1 \in DOMAIN U /\ U[i - 1] = T[i])
      /\ 1 \in DOMAIN T /\ Head(T) = T[1]
  BY TailPlaces
<1> HIDE DEF U
<1>2. Once(T, s) => Once(U, s)
  <2> SUFFICES ASSUME Once(T, s), NEW i \in DOMAIN U, NEW j \in DOMAIN U,
                      Is(U[i], "CLOSED", s), Is(U[j], "CLOSED", s)
               PROVE  i = j
    BY DEF Once
  <2>1. i + 1 = j + 1
    BY <1>1 DEF Once
  <2> QED BY <1>1, <2>1
<1>3. ASSUME NEW i \in DOMAIN U, ~Is(Head(T), "CLOSING", s),
             \E j \in DOMAIN T : j < i + 1 /\ Is(T[j], "CLOSING", s)
      PROVE  \E j \in DOMAIN U : j < i /\ Is(U[j], "CLOSING", s)
  <2>1. PICK j \in DOMAIN T : j < i + 1 /\ Is(T[j], "CLOSING", s)
    BY <1>3
  <2>2. j # 1
    BY <1>1, <1>3, <2>1
  <2>3. 1 < j /\ j - 1 \in DOMAIN U /\ U[j - 1] = T[j] /\ j \in Nat /\ i \in Nat
    BY <1>1, <2>2
  <2>4. j - 1 < i
    BY <2>1, <2>3
  <2> QED BY <2>1, <2>3, <2>4
<1>4. Warned(T, s) /\ ~Is(Head(T), "CLOSING", s) => Warned(U, s)
  BY <1>1, <1>3 DEF Warned
<1>5. ASSUME NEW n
      PROVE  Own(T, s, n) /\ ~Is(Head(T), "CLOSING", s) => Own(U, s, n)
  BY <1>1, <1>3 DEF Own
<1>6. Ends(T, s) => Ends(U, s)
  <2> SUFFICES ASSUME Ends(T, s), NEW i \in DOMAIN U, NEW j \in DOMAIN U,
                      Is(U[i], "CLOSED", s), Is(U[j], "DATA", s)
               PROVE  j < i
    BY DEF Ends
  <2>1. j + 1 < i + 1
    BY <1>1 DEF Ends
  <2> QED BY <1>1, <2>1
<1>7. Follow(T, s) => Follow(U, s)
  <2> SUFFICES ASSUME Follow(T, s), NEW i \in DOMAIN U, NEW j \in DOMAIN U,
                      Is(U[i], "OPEN", s), i < j
               PROVE  /\ ~Is(U[j], "OPEN", s)
                      /\ Is(U[j], "DATA", s) => U[j].n = U[i].n
    BY DEF Follow
  <2>1. i + 1 < j + 1
    BY <1>1
  <2> QED BY <1>1, <2>1 DEF Follow
<1> QED BY <1>2, <1>4, <1>5, <1>6, <1>7 DEF U

(* What holds once the head of a queue is handled.                         *)
LEMMA TailOfHead ==
    ASSUME NEW X, NEW T \in Seq(X), T # << >>, NEW s
    PROVE  /\ Once(T, s) /\ Is(Head(T), "CLOSED", s)
                  => ~Has(Tail(T), "CLOSED", s)
           /\ Warned(T, s) => ~Is(Head(T), "CLOSED", s)
           /\ \A n : Own(T, s, n) /\ Is(Head(T), "DATA", s) => Head(T).n = n
           /\ Ends(T, s) /\ Is(Head(T), "CLOSED", s) => ~Has(Tail(T), "DATA", s)
           /\ Follow(T, s) /\ Is(Head(T), "OPEN", s) =>
                  /\ ~Has(Tail(T), "OPEN", s)
                  /\ About(Tail(T), "DATA", s) \subseteq {Head(T).n}
<1> DEFINE U == Tail(T)
<1>1. /\ \A i \in DOMAIN T : i \in Nat /\ 1 <= i
      /\ \A i \in DOMAIN U : i \in Nat /\ i + 1 \in DOMAIN T /\ U[i] = T[i + 1]
      /\ 1 \in DOMAIN T /\ Head(T) = T[1]
  BY TailPlaces
<1> HIDE DEF U
<1>2. \A i \in DOMAIN U : 1 < i + 1 /\ ~(i + 1 = 1) /\ ~(i + 1 < 1)
  <2>1. \A i \in DOMAIN U : i + 1 \in Nat /\ 1 <= i + 1 /\ i \in Nat
    BY <1>1
  <2>2. ASSUME NEW i \in DOMAIN U
        PROVE  i >= 1
    BY TailPlaces DEF U
  <2> QED BY <2>1, <2>2
<1>3. \A i \in DOMAIN T : ~(i < 1)
  BY <1>1
<1>4. Once(T, s) /\ Is(Head(T), "CLOSED", s) => ~Has(U, "CLOSED", s)
  BY <1>1, <1>2 DEF Once, Has, About
<1>5. Warned(T, s) => ~Is(Head(T), "CLOSED", s)
  BY <1>1, <1>3 DEF Warned
<1>6. \A n : Own(T, s, n) /\ Is(Head(T), "DATA", s) => Head(T).n = n
  BY <1>1, <1>3 DEF Own
<1>7. Ends(T, s) /\ Is(Head(T), "CLOSED", s) => ~Has(U, "DATA", s)
  BY <1>1, <1>2 DEF Ends, Has, About
<1>8. Follow(T, s) /\ Is(Head(T), "OPEN", s) =>
          /\ ~Has(U, "OPEN", s) /\ About(U, "DATA", s) \subseteq {Head(T).n}
  BY <1>1, <1>2 DEF Follow, Has, About
<1> QED BY <1>4, <1>5, <1>6, <1>7, <1>8 DEF U

LEMMA PopLooks ==
    ASSUME NEW X, NEW T \in Seq(X), T # << >>, NEW s,
           ~Is(Head(T), "CLOSING", s), ~Is(Head(T), "CLOSED", s)
    PROVE  Looks(T, Tail(T), s)
BY TailAbout, TailOrder DEF Looks, Has

(* Queues that grew.                                                       *)
Grows(T, U) ==
    /\ \A i \in DOMAIN U : i \in Nat
    /\ \A i \in DOMAIN T : i \in DOMAIN U /\ U[i] = T[i]
    /\ \A i \in DOMAIN T : \A j \in DOMAIN U \ DOMAIN T : i < j

LEMMA AppendGrows ==
    ASSUME NEW X, NEW T \in Seq(X), NEW t
    PROVE  /\ Grows(T, Append(T, t))
           /\ DOMAIN Append(T, t) \ DOMAIN T = {Len(T) + 1}
           /\ Append(T, t)[Len(T) + 1] = t
<1>1. Len(T) \in Nat /\ DOMAIN T = 1 .. Len(T)
  BY LenProperties
<1>2. /\ DOMAIN Append(T, t) = 1 .. (Len(T) + 1)
      /\ \A i \in 1 .. Len(T) : Append(T, t)[i] = T[i]
      /\ Append(T, t)[Len(T) + 1] = t
  BY <1>1
<1> QED BY <1>1, <1>2 DEF Grows

LEMMA ConcatGrows ==
    ASSUME NEW X, NEW T \in Seq(X), NEW Y, NEW q \in Seq(Y)
    PROVE  /\ Grows(T, T \o q)
           /\ \A i \in DOMAIN (T \o q) \ DOMAIN T :
                  i - Len(T) \in DOMAIN q /\ (T \o q)[i] = q[i - Len(T)]
           /\ \A i \in DOMAIN q : /\ i + Len(T) \in DOMAIN (T \o q) \ DOMAIN T
                                  /\ (T \o q)[i + Len(T)] = q[i]
<1>1. /\ Len(T) \in Nat /\ DOMAIN T = 1 .. Len(T)
      /\ Len(q) \in Nat /\ DOMAIN q = 1 .. Len(q)
  BY LenProperties
<1>2. /\ Len(T \o q) = Len(T) + Len(q)
      /\ DOMAIN (T \o q) = 1 .. (Len(T) + Len(q))
      /\ \A i \in 1 .. (Len(T) + Len(q)) :
             (T \o q)[i] = IF i <= Len(T) THEN T[i] ELSE q[i - Len(T)]
  BY <1>1
<1> QED BY <1>1, <1>2 DEF Grows

LEMMA GrownAbout ==
    ASSUME NEW T, NEW U, Grows(T, U), NEW kind, NEW s
    PROVE  /\ About(T, kind, s) \subseteq About(U, kind, s)
           /\ \A x \in About(U, kind, s) :
                  \/ x \in About(T, kind, s)
                  \/ \E i \in DOMAIN U \ DOMAIN T :
                         Is(U[i], kind, s) /\ x = U[i].n
           /\ \A i \in DOMAIN U : Is(U[i], kind, s) => U[i].n \in About(U, kind, s)
BY DEF Grows, About

LEMMA GrownOrder ==
    ASSUME NEW T, NEW U, Grows(T, U), NEW s
    PROVE  LET new == DOMAIN U \ DOMAIN T IN
           /\ Once(T, s)
                  /\ (\A i, j \in new : Is(U[i], "CLOSED", s) /\ Is(U[j], "CLOSED", s)
                          => i = j)
                  /\ (\A i \in new : Is(U[i], "CLOSED", s) => ~Has(T, "CLOSED", s))
                  => Once(U, s)
           /\ Warned(T, s)
                  /\ (\A i \in new : Is(U[i], "CLOSED", s) => Has(T, "CLOSING", s))
                  => Warned(U, s)
           /\ \A n :
                  Own(T, s, n)
                      /\ (\A i \in new : Is(U[i], "DATA", s)
                              => U[i].n = n \/ Has(T, "CLOSING", s))
                      => Own(U, s, n)
           /\ Ends(T, s)
                  /\ (\A i \in new : Is(U[i], "DATA", s) =>
                          /\ ~Has(T, "CLOSED", s)
                          /\ \A j \in new : ~Is(U[j], "CLOSED", s))
                  => Ends(U, s)
           /\ Follow(T, s)
                  /\ (\A i \in new :
                          /\ Is(U[i], "OPEN", s) =>
                                 ~Has(T, "OPEN", s) /\ \A j \in new : i = j
                          /\ Is(U[i], "DATA", s) =>
                                 /\ About(T, "OPEN", s) \subseteq {U[i].n}
                                 /\ \A j \in new : ~Is(U[j], "OPEN", s))
                  => Follow(U, s)
<1> DEFINE new == DOMAIN U \ DOMAIN T
<1>1. /\ \A i \in DOMAIN T : i \in DOMAIN U /\ U[i] = T[i]
      /\ \A i \in DOMAIN T : \A j \in new : i < j
      /\ \A i \in DOMAIN U : i \in DOMAIN T \/ i \in new
      /\ \A i \in DOMAIN U : i \in Nat
      /\ \A i \in new : i \in DOMAIN U /\ i \notin DOMAIN T
  BY DEF Grows
<1>2. \A i \in DOMAIN T : \A kind : Is(T[i], kind, s) =>
          Has(T, kind, s) /\ T[i].n \in About(T, kind, s)
  BY DEF Has, About
<1>3. \A kind : Has(T, kind, s) => \E j \in DOMAIN T : Is(T[j], kind, s)
  BY DEF Has, About
<1> HIDE DEF new
<1>4. ASSUME Once(T, s),
             \A i, j \in new : Is(U[i], "CLOSED", s) /\ Is(U[j], "CLOSED", s) => i = j,
             \A i \in new : Is(U[i], "CLOSED", s) => ~Has(T, "CLOSED", s)
      PROVE  Once(U, s)
  BY <1>1, <1>2, <1>4 DEF Once
<1>5. ASSUME NEW i \in new, Has(T, "CLOSING", s)
      PROVE  \E j \in DOMAIN U : j < i /\ Is(U[j], "CLOSING", s)
  BY <1>1, <1>3, <1>5
<1>6. ASSUME Warned(T, s),
             \A i \in new : Is(U[i], "CLOSED", s) => Has(T, "CLOSING", s)
      PROVE  Warned(U, s)
  <2> SUFFICES ASSUME NEW i \in DOMAIN U, Is(U[i], "CLOSED", s)
               PROVE  \E j \in DOMAIN U : j < i /\ Is(U[j], "CLOSING", s)
    BY DEF Warned
  <2>1. CASE i \in new
    BY <1>5, <1>6, <2>1
  <2>2. CASE i \in DOMAIN T
    BY <1>1, <1>6, <2>2 DEF Warned
  <2> QED BY <1>1, <2>1, <2>2
<1>7. ASSUME NEW n, Own(T, s, n),
             \A i \in new : Is(U[i], "DATA", s) => U[i].n = n \/ Has(T, "CLOSING", s)
      PROVE  Own(U, s, n)
  <2> SUFFICES ASSUME NEW i \in DOMAIN U, Is(U[i], "DATA", s), U[i].n # n
               PROVE  \E j \in DOMAIN U : j < i /\ Is(U[j], "CLOSING", s)
    BY DEF Own
  <2>1. CASE i \in new
    BY <1>5, <1>7, <2>1
  <2>2. CASE i \in DOMAIN T
    BY <1>1, <1>7, <2>2 DEF Own
  <2> QED BY <1>1, <2>1, <2>2
<1>8. ASSUME Ends(T, s),
             \A i \in new : Is(U[i], "DATA", s) =>
                 ~Has(T, "CLOSED", s) /\ \A j \in new : ~Is(U[j], "CLOSED", s)
      PROVE  Ends(U, s)
  <2> SUFFICES ASSUME NEW i \in DOMAIN U, NEW j \in DOMAIN U,
                      Is(U[i], "CLOSED", s), Is(U[j], "DATA", s)
               PROVE  j < i
    BY DEF Ends
  <2>1. CASE j \in new
    BY <1>1, <1>2, <1>8, <2>1
  <2>2. CASE j \in DOMAIN T
    BY <1>1, <1>8, <2>2 DEF Ends
  <2> QED BY <1>1, <2>1, <2>2
<1>9. ASSUME Follow(T, s),
             \A i \in new :
                 /\ Is(U[i], "OPEN", s) =>
                        ~Has(T, "OPEN", s) /\ \A j \in new : i = j
                 /\ Is(U[i], "DATA", s) =>
                        /\ About(T, "OPEN", s) \subseteq {U[i].n}
                        /\ \A j \in new : ~Is(U[j], "OPEN", s)
      PROVE  Follow(U, s)
  <2> SUFFICES ASSUME NEW i \in DOMAIN U, NEW j \in DOMAIN U,
                      Is(U[i], "OPEN", s), i < j
               PROVE  /\ ~Is(U[j], "OPEN", s)
                      /\ Is(U[j], "DATA", s) => U[j].n = U[i].n
    BY DEF Follow
  <2>0. i \in Nat /\ j \in Nat /\ i # j
    BY <1>1
  <2>1. CASE i \in new
    <3>1. j \in DOMAIN T => j < i
      BY <1>1, <2>1
    <3>2. j \in new
      BY <1>1, <2>0, <3>1
    <3> QED BY <1>9, <2>0, <2>1, <3>2
  <2>2. CASE i \in DOMAIN T /\ j \in new
    <3>1. U[i].n \in About(T, "OPEN", s) /\ Has(T, "OPEN", s)
      BY <1>1, <1>2, <2>2
    <3> QED BY <1>9, <2>2, <3>1
  <2>3. CASE i \in DOMAIN T /\ j \in DOMAIN T
    BY <1>1, <1>9, <2>3 DEF Follow
  <2> QED BY <1>1, <2>1, <2>2, <2>3
<1> QED BY <1>4, <1>6, <1>7, <1>8, <1>9 DEF new

(* Tasks that claim nothing of stream s.                                   *)
LEMMA GrowLooks ==
    ASSUME NEW T, NEW U, Grows(T, U), NEW s,
           \A i \in DOMAIN U \ DOMAIN T :
               \A kind \in {"OPEN", "DATA", "CLOSING", "CLOSED"} :
                   ~Is(U[i], kind, s)
    PROVE  Looks(T, U, s)
<1>1. \A kind \in {"OPEN", "DATA", "CLOSING", "CLOSED"} :
          About(U, kind, s) = About(T, kind, s)
  BY GrownAbout
<1>2. \A i \in DOMAIN U \ DOMAIN T : /\ ~Is(U[i], "OPEN", s)
                                     /\ ~Is(U[i], "DATA", s)
                                     /\ ~Is(U[i], "CLOSING", s)
                                     /\ ~Is(U[i], "CLOSED", s)
  OBVIOUS
<1>3. /\ Once(T, s) => Once(U, s)
      /\ Warned(T, s) => Warned(U, s)
      /\ \A n : Own(T, s, n) => Own(U, s, n)
      /\ Ends(T, s) => Ends(U, s)
      /\ Follow(T, s) => Follow(U, s)
  BY <1>2, GrownOrder
<1> QED BY <1>1, <1>3 DEF Looks, Has

LEMMA LooksOn ==
    ASSUME NEW T, NEW U, NEW V, NEW s, Looks(T, U, s), Looks(U, V, s)
    PROVE  Looks(T, V, s)
BY DEF Looks

LEMMA IsTask ==
    ASSUME NEW kind, NEW s, NEW n, NEW k, NEW r
    PROVE  /\ Is(Task(kind, s, n), k, r) <=> kind = k /\ s = r
           /\ Task(kind, s, n).n = n
BY DEF Is, Task

LEMMA AppendLooks ==
    ASSUME NEW X, NEW T \in Seq(X), NEW t, NEW s,
           \A kind \in {"OPEN", "DATA", "CLOSING", "CLOSED"} : ~Is(t, kind, s)
    PROVE  Looks(T, Append(T, t), s)
<1> DEFINE U == Append(T, t)
<1>1. /\ Grows(T, U)
      /\ \A i \in DOMAIN U \ DOMAIN T : U[i] = t
  BY AppendGrows
<1> HIDE DEF U
<1>2. Looks(T, U, s)
  BY <1>1, GrowLooks
<1> QED BY <1>2 DEF U

(* A message that arrives.                                                 *)
LEMMA AppendOrder ==
    ASSUME NEW X, NEW T \in Seq(X), NEW s, NEW n,
           NEW k \in {"OPEN", "ACK", "DATA"}
    PROVE  LET U == Append(T, Task(k, s, n)) IN
           /\ \A kind : About(U, kind, s) =
                            IF kind = k THEN About(T, kind, s) \cup {n}
                            ELSE About(T, kind, s)
           /\ Once(T, s) => Once(U, s)
           /\ Warned(T, s) => Warned(U, s)
           /\ \A m : Own(T, s, m) /\ (k = "DATA" => n = m \/ Has(T, "CLOSING", s))
                         => Own(U, s, m)
           /\ Ends(T, s) /\ (k = "DATA" => ~Has(T, "CLOSED", s)) => Ends(U, s)
           /\ Follow(T, s) /\ (k = "OPEN" => ~Has(T, "OPEN", s))
                  /\ (k = "DATA" => About(T, "OPEN", s) \subseteq {n})
                  => Follow(U, s)
<1> DEFINE t == Task(k, s, n)
           U == Append(T, t)
           l == Len(T) + 1
<1>1. Grows(T, U) /\ DOMAIN U \ DOMAIN T = {l} /\ U[l] = t
  BY AppendGrows
<1>2. t.n = n /\ \A kind : Is(t, kind, s) <=> kind = k
  BY IsTask
<1> HIDE DEF U, t, l
<1>3. /\ \A i \in DOMAIN U \ DOMAIN T : i = l
      /\ l \in DOMAIN U \ DOMAIN T
      /\ U[l].n = n /\ \A kind : Is(U[l], kind, s) <=> kind = k
  BY <1>1, <1>2
<1>4. ASSUME NEW kind
      PROVE  About(U, kind, s) = IF kind = k THEN About(T, kind, s) \cup {n}
                                 ELSE About(T, kind, s)
  <2>1. /\ About(T, kind, s) \subseteq About(U, kind, s)
        /\ \A x \in About(U, kind, s) :
               x \in About(T, kind, s) \/ (kind = k /\ x = n)
        /\ kind = k => n \in About(U, kind, s)
    BY <1>1, <1>3, GrownAbout
  <2> QED BY <2>1
<1>5. k # "CLOSED" /\ k # "CLOSING" /\ l = l
  OBVIOUS
<1>6. Once(T, s) => Once(U, s)
  BY <1>1, <1>3, <1>5, GrownOrder
<1>7. Warned(T, s) => Warned(U, s)
  BY <1>1, <1>3, <1>5, GrownOrder
<1>8. \A m : Own(T, s, m) /\ (k = "DATA" => n = m \/ Has(T, "CLOSING", s))
                 => Own(U, s, m)
  BY <1>1, <1>3, GrownOrder
<1>9. Ends(T, s) /\ (k = "DATA" => ~Has(T, "CLOSED", s)) => Ends(U, s)
  BY <1>1, <1>3, <1>5, GrownOrder
<1>10. ASSUME Follow(T, s), k = "OPEN" => ~Has(T, "OPEN", s),
              k = "DATA" => About(T, "OPEN", s) \subseteq {n}
       PROVE  Follow(U, s)
  <2>1. \A i \in DOMAIN U \ DOMAIN T :
            /\ Is(U[i], "OPEN", s) =>
                   ~Has(T, "OPEN", s) /\ \A j \in DOMAIN U \ DOMAIN T : i = j
            /\ Is(U[i], "DATA", s) =>
                   /\ About(T, "OPEN", s) \subseteq {U[i].n}
                   /\ \A j \in DOMAIN U \ DOMAIN T : ~Is(U[j], "OPEN", s)
    BY <1>3, <1>10
  <2> QED BY <1>1, <1>10, <2>1, GrownOrder
<1> QED BY <1>4, <1>6, <1>7, <1>8, <1>9, <1>10 DEF U, t

(* The signals of an event.                                                *)
LEMMA SignalsOrder ==
    ASSUME NEW X, NEW T \in Seq(X), NEW C \in SUBSET Sids, NEW D \in SUBSET Sids,
           NEW q \in Seq(Signals(C, D)),
           \A x \in Signals(C, D) : \E i \in DOMAIN q : q[i] = x,
           \A i, j \in DOMAIN q : i < j => Before(q[i], q[j]),
           NEW s \in Sids
    PROVE  LET U == T \o q IN
           /\ About(U, "OPEN", s) = About(T, "OPEN", s)
           /\ About(U, "DATA", s) = About(T, "DATA", s)
           /\ Has(U, "CLOSING", s) <=> Has(T, "CLOSING", s) \/ s \in C
           /\ Has(U, "CLOSED", s) <=> Has(T, "CLOSED", s) \/ s \in D
           /\ Once(T, s) /\ (s \in D => ~Has(T, "CLOSED", s)) => Once(U, s)
           /\ Warned(T, s) /\ (s \in D => Has(T, "CLOSING", s)) => Warned(U, s)
           /\ \A n : Own(T, s, n) => Own(U, s, n)
           /\ Ends(T, s) => Ends(U, s)
           /\ Follow(T, s) => Follow(U, s)
<1> DEFINE U == T \o q
           new == DOMAIN U \ DOMAIN T
<1>1. /\ Grows(T, U)
      /\ \A i \in new : i - Len(T) \in DOMAIN q /\ U[i] = q[i - Len(T)]
      /\ \A i \in DOMAIN q : i + Len(T) \in new /\ U[i + Len(T)] = q[i]
      /\ Len(T) \in Nat
  BY ConcatGrows
<1> HIDE DEF U
<1>2. DOMAIN q \subseteq Nat /\ \A i \in DOMAIN q : q[i] \in Signals(C, D)
  BY LenProperties
<1>3. ASSUME NEW x \in Signals(C, D)
      PROVE  /\ ~Is(x, "OPEN", s) /\ ~Is(x, "DATA", s)
             /\ Is(x, "CLOSING", s) => s \in C
             /\ Is(x, "CLOSED", s) => s \in D
             /\ x.kind \in {"CLOSING", "CLOSED"} /\ x.sid \in Sids
  BY DEF Signals, Task, Is
<1>4. \A i \in new :
          /\ ~Is(U[i], "OPEN", s) /\ ~Is(U[i], "DATA", s)
          /\ Is(U[i], "CLOSING", s) => s \in C
          /\ Is(U[i], "CLOSED", s) => s \in D
  BY <1>1, <1>2, <1>3
<1>5. /\ s \in C => \E i \in new : Is(U[i], "CLOSING", s)
      /\ s \in D => \E i \in new : Is(U[i], "CLOSED", s)
  <2>1. /\ s \in C => Task("CLOSING", s, 0) \in Signals(C, D)
        /\ s \in D => Task("CLOSED", s, 0) \in Signals(C, D)
        /\ Is(Task("CLOSING", s, 0), "CLOSING", s)
        /\ Is(Task("CLOSED", s, 0), "CLOSED", s)
    BY IsTask DEF Signals
  <2> QED BY <1>1, <2>1
<1>6. ASSUME NEW i \in new, NEW j \in new,
             Is(U[i], "CLOSED", s), Is(U[j], "CLOSED", s)
      PROVE  i = j
  <2>1. ASSUME NEW a \in DOMAIN q, NEW b \in DOMAIN q, a < b,
               Is(q[a], "CLOSED", s), Is(q[b], "CLOSED", s)
        PROVE  FALSE
    <3>1. Before(q[a], q[b])
      BY <2>1
    <3>2. ~(s < s)
      BY SidSet
    <3> QED BY <2>1, <3>1, <3>2 DEF Before, Is
  <2>2. /\ i - Len(T) \in DOMAIN q /\ Is(q[i - Len(T)], "CLOSED", s)
        /\ j - Len(T) \in DOMAIN q /\ Is(q[j - Len(T)], "CLOSED", s)
    BY <1>1, <1>6
  <2>3. /\ ~(i - Len(T) < j - Len(T)) /\ ~(j - Len(T) < i - Len(T))
        /\ i \in Nat /\ j \in Nat
    BY <1>1, <2>1, <2>2 DEF Grows
  <2> QED BY <1>1, <2>3
<1>7. \A k :
          /\ About(T, k, s) \subseteq About(U, k, s)
          /\ \A x \in About(U, k, s) :
                 x \in About(T, k, s) \/ \E i \in new : Is(U[i], k, s)
          /\ \A i \in new : Is(U[i], k, s) => U[i].n \in About(U, k, s)
  <2>1. Grows(T, U)
    BY <1>1
  <2> QED BY <2>1, GrownAbout
<1>8. /\ About(U, "OPEN", s) = About(T, "OPEN", s)
      /\ About(U, "DATA", s) = About(T, "DATA", s)
  BY <1>4, <1>7, Zenon
<1>16. \A k : Has(U, k, s) <=> Has(T, k, s) \/ \E i \in new : Is(U[i], k, s)
  BY <1>7, Zenon DEF Has
<1>9. Has(U, "CLOSING", s) <=> Has(T, "CLOSING", s) \/ s \in C
  BY <1>4, <1>5, <1>16
<1>10. Has(U, "CLOSED", s) <=> Has(T, "CLOSED", s) \/ s \in D
  BY <1>4, <1>5, <1>16
<1>11. Once(T, s) /\ (s \in D => ~Has(T, "CLOSED", s)) => Once(U, s)
  BY <1>1, <1>4, <1>6, GrownOrder
<1>12. Warned(T, s) /\ (s \in D => Has(T, "CLOSING", s)) => Warned(U, s)
  BY <1>1, <1>4, GrownOrder
<1>13. \A n : Own(T, s, n) => Own(U, s, n)
  BY <1>1, <1>4, GrownOrder
<1>14. Ends(T, s) => Ends(U, s)
  BY <1>1, <1>4, GrownOrder
<1>15. Follow(T, s) => Follow(U, s)
  BY <1>1, <1>4, GrownOrder
<1> QED BY <1>8, <1>9, <1>10, <1>11, <1>12, <1>13, <1>14, <1>15 DEF U

LEMMA ReadyLooks ==
    ASSUME NEW X, NEW T \in Seq(X), NEW ids, NEW q \in Seq(Ready(ids)), NEW s
    PROVE  Looks(T, T \o q, s)
<1> DEFINE U == T \o q
<1>1. /\ Grows(T, U)
      /\ \A i \in DOMAIN U \ DOMAIN T :
             i - Len(T) \in DOMAIN q /\ U[i] = q[i - Len(T)]
  BY ConcatGrows
<1>2. \A i \in DOMAIN q : q[i] \in Ready(ids)
  OBVIOUS
<1>3. ASSUME NEW x \in Ready(ids),
             NEW kind \in {"OPEN", "DATA", "CLOSING", "CLOSED"}
      PROVE  ~Is(x, kind, s)
  BY DEF Ready, Task, Is
<1> HIDE DEF U
<1>4. Looks(T, U, s)
  BY <1>1, <1>2, <1>3, GrowLooks
<1> QED BY <1>4 DEF U

(* Messages on a stream.                                                   *)
Msgs(W, kind) == {W[i][2] : i \in {j \in DOMAIN W : W[j][1] = kind}}

Follows(W) ==
    \A i, j \in DOMAIN W :
        W[i][1] = "OPEN" /\ i < j =>
            /\ W[j][1] # "OPEN"
            /\ W[j][1] = "DATA" => W[j][2] = W[i][2]

LEMMA NoMessages == Follows(<< >>) /\ \A kind : Msgs(<< >>, kind) = {}
BY DEF Follows, Msgs

LEMMA TailMsgs ==
    ASSUME NEW X, NEW W \in Seq(X), W # << >>
    PROVE  /\ \A kind : Msgs(W, kind) = IF Head(W)[1] = kind
                                        THEN Msgs(Tail(W), kind) \cup {Head(W)[2]}
                                        ELSE Msgs(Tail(W), kind)
           /\ Follows(W) => Follows(Tail(W))
           /\ Follows(W) /\ Head(W)[1] = "OPEN" =>
                  /\ Msgs(Tail(W), "OPEN") = {}
                  /\ Msgs(Tail(W), "DATA") \subseteq {Head(W)[2]}
<1> DEFINE U == Tail(W)
<1>1. /\ \A i \in DOMAIN W : i \in Nat /\ 1 <= i
      /\ \A i \in DOMAIN U : i \in Nat /\ i + 1 \in DOMAIN W /\ U[i] = W[i + 1]
      /\ \A i \in DOMAIN W :
             i = 1 \/ (1 < i /\ i - 1 \in DOMAIN U /\ U[i - 1] = W[i])
      /\ 1 \in DOMAIN W /\ Head(W) = W[1]
      /\ \A i \in DOMAIN U : i >= 1
  BY TailPlaces
<1> HIDE DEF U
<1>2. ASSUME NEW kind
      PROVE  Msgs(W, kind) = IF Head(W)[1] = kind
                             THEN Msgs(U, kind) \cup {Head(W)[2]}
                             ELSE Msgs(U, kind)
  <2>1. Msgs(U, kind) \subseteq Msgs(W, kind)
    BY <1>1 DEF Msgs
  <2>2. Head(W)[1] = kind => Head(W)[2] \in Msgs(W, kind)
    BY <1>1 DEF Msgs
  <2>3. ASSUME NEW x \in Msgs(W, kind)
        PROVE  x \in Msgs(U, kind) \/ (Head(W)[1] = kind /\ x = Head(W)[2])
    <3>1. PICK i \in DOMAIN W : W[i][1] = kind /\ x = W[i][2]
      BY <2>3 DEF Msgs
    <3>2. CASE i = 1
      BY <1>1, <3>1, <3>2
    <3>3. CASE i - 1 \in DOMAIN U /\ U[i - 1] = W[i]
      BY <3>1, <3>3 DEF Msgs
    <3> QED BY <1>1, <3>2, <3>3
  <2> QED BY <2>1, <2>2, <2>3
<1>3. Follows(W) => Follows(U)
  <2> SUFFICES ASSUME Follows(W), NEW i \in DOMAIN U, NEW j \in DOMAIN U,
                      U[i][1] = "OPEN", i < j
               PROVE  /\ U[j][1] # "OPEN"
                      /\ U[j][1] = "DATA" => U[j][2] = U[i][2]
    BY DEF Follows
  <2>1. i + 1 < j + 1
    BY <1>1
  <2> QED BY <1>1, <2>1 DEF Follows
<1>4. ASSUME Follows(W), Head(W)[1] = "OPEN"
      PROVE  Msgs(U, "OPEN") = {} /\ Msgs(U, "DATA") \subseteq {Head(W)[2]}
  <2>1. \A j \in DOMAIN U : /\ U[j][1] # "OPEN"
                            /\ U[j][1] = "DATA" => U[j][2] = Head(W)[2]
    <3>1. \A j \in DOMAIN U : 1 < j + 1
      BY <1>1
    <3> QED BY <1>1, <1>4, <3>1 DEF Follows
  <2> QED BY <2>1 DEF Msgs
<1> QED BY <1>2, <1>3, <1>4 DEF U

LEMMA AppendMsgs ==
    ASSUME NEW X, NEW W \in Seq(X), NEW k, NEW n
    PROVE  LET U == Append(W, <<k, n>>) IN
           /\ \A kind : Msgs(U, kind) = IF kind = k THEN Msgs(W, kind) \cup {n}
                                        ELSE Msgs(W, kind)
           /\ Follows(W) /\ (k = "OPEN" => Msgs(W, "OPEN") = {})
                  /\ (k = "DATA" => Msgs(W, "OPEN") \subseteq {n})
                  => Follows(U)
<1> DEFINE m == <<k, n>>
           U == Append(W, m)
           l == Len(W) + 1
<1>1. Grows(W, U) /\ DOMAIN U \ DOMAIN W = {l} /\ U[l] = m
  BY AppendGrows
<1>2. m[1] = k /\ m[2] = n
  OBVIOUS
<1> HIDE DEF U, m, l
<1>3. /\ \A i \in DOMAIN U : i \in DOMAIN W \/ i = l
      /\ l \in DOMAIN U /\ l \notin DOMAIN W
      /\ \A i \in DOMAIN W : i \in DOMAIN U /\ U[i] = W[i] /\ i < l /\ i \in Nat
      /\ U[l][1] = k /\ U[l][2] = n /\ l \in Nat
  BY <1>1, <1>2 DEF Grows
<1>4. ASSUME NEW kind
      PROVE  Msgs(U, kind) = IF kind = k THEN Msgs(W, kind) \cup {n}
                             ELSE Msgs(W, kind)
  <2>1. Msgs(W, kind) \subseteq Msgs(U, kind)
    BY <1>3 DEF Msgs
  <2>2. kind = k => n \in Msgs(U, kind)
    BY <1>3 DEF Msgs
  <2>3. \A x \in Msgs(U, kind) : x \in Msgs(W, kind) \/ (kind = k /\ x = n)
    BY <1>3 DEF Msgs
  <2> QED BY <2>1, <2>2, <2>3
<1>5. ASSUME Follows(W), k = "OPEN" => Msgs(W, "OPEN") = {},
             k = "DATA" => Msgs(W, "OPEN") \subseteq {n}
      PROVE  Follows(U)
  <2> SUFFICES ASSUME NEW i \in DOMAIN U, NEW j \in DOMAIN U,
                      U[i][1] = "OPEN", i < j
               PROVE  /\ U[j][1] # "OPEN"
                      /\ U[j][1] = "DATA" => U[j][2] = U[i][2]
    BY DEF Follows
  <2>1. CASE i = l
    BY <1>3, <2>1
  <2>2. CASE i \in DOMAIN W /\ j = l
    <3>1. U[i][2] \in Msgs(W, "OPEN")
      BY <1>3, <2>2 DEF Msgs
    <3> QED BY <1>3, <1>5, <2>2, <3>1
  <2>3. CASE i \in DOMAIN W /\ j \in DOMAIN W
    BY <1>3, <1>5, <2>3 DEF Follows
  <2> QED BY <1>3, <2>1, <2>2, <2>3
<1> QED BY <1>4, <1>5 DEF U, m

(* Notifications.                                                          *)
Tells(e, flags, s) == e.flags = flags /\ s \in e.sids

Told(E, flags, s) == \E i \in DOMAIN E : Tells(E[i], flags, s)

ToldOnce(E, flags, s) ==
    \A i, j \in DOMAIN E :
        Tells(E[i], flags, s) /\ Tells(E[j], flags, s) => i = j

LEMMA TailTold ==
    ASSUME NEW X, NEW E \in Seq(X), E # << >>, NEW f, NEW s
    PROVE  /\ Told(E, f, s) <=> Tells(Head(E), f, s) \/ Told(Tail(E), f, s)
           /\ ToldOnce(E, f, s) =>
                  /\ ToldOnce(Tail(E), f, s)
                  /\ Tells(Head(E), f, s) => ~Told(Tail(E), f, s)
<1> DEFINE U == Tail(E)
<1>1. /\ \A i \in DOMAIN E : i \in Nat /\ 1 <= i
      /\ \A i \in DOMAIN U : i \in Nat /\ i + 1 \in DOMAIN E /\ U[i] = E[i + 1]
      /\ \A i \in DOMAIN E :
             i = 1 \/ (1 < i /\ i - 1 \in DOMAIN U /\ U[i - 1] = E[i])
      /\ 1 \in DOMAIN E /\ Head(E) = E[1]
      /\ \A i \in DOMAIN U : i >= 1
  BY TailPlaces
<1> HIDE DEF U
<1>2. Told(E, f, s) => Tells(Head(E), f, s) \/ Told(U, f, s)
  BY <1>1 DEF Told
<1>3. Tells(Head(E), f, s) \/ Told(U, f, s) => Told(E, f, s)
  BY <1>1 DEF Told
<1>4. ASSUME ToldOnce(E, f, s)
      PROVE  ToldOnce(U, f, s)
  <2> SUFFICES ASSUME NEW i \in DOMAIN U, NEW j \in DOMAIN U,
                      Tells(U[i], f, s), Tells(U[j], f, s)
               PROVE  i = j
    BY DEF ToldOnce
  <2>1. i + 1 = j + 1
    BY <1>1, <1>4 DEF ToldOnce
  <2> QED BY <1>1, <2>1
<1>5. ASSUME ToldOnce(E, f, s), Tells(Head(E), f, s)
      PROVE  ~Told(U, f, s)
  <2> SUFFICES ASSUME NEW i \in DOMAIN U, Tells(U[i], f, s)
               PROVE  FALSE
    BY DEF Told
  <2>1. i + 1 = 1
    BY <1>1, <1>5 DEF ToldOnce
  <2> QED BY <1>1, <2>1
<1> QED BY <1>2, <1>3, <1>4, <1>5 DEF U

LEMMA AppendTold ==
    ASSUME NEW X, NEW E \in Seq(X), NEW e, NEW f, NEW s
    PROVE  /\ Told(Append(E, e), f, s) <=> Told(E, f, s) \/ Tells(e, f, s)
           /\ ToldOnce(E, f, s) /\ (Tells(e, f, s) => ~Told(E, f, s))
                  => ToldOnce(Append(E, e), f, s)
<1> DEFINE U == Append(E, e)
           l == Len(E) + 1
<1>1. Grows(E, U) /\ DOMAIN U \ DOMAIN E = {l} /\ U[l] = e
  BY AppendGrows
<1> HIDE DEF U, l
<1>2. /\ \A i \in DOMAIN U : i \in DOMAIN E \/ i = l
      /\ l \in DOMAIN U /\ U[l] = e
      /\ \A i \in DOMAIN E : i \in DOMAIN U /\ U[i] = E[i]
  BY <1>1 DEF Grows
<1>3. Told(U, f, s) <=> Told(E, f, s) \/ Tells(e, f, s)
  BY <1>2 DEF Told
<1>4. ToldOnce(E, f, s) /\ (Tells(e, f, s) => ~Told(E, f, s)) => ToldOnce(U, f, s)
  BY <1>2 DEF Told, ToldOnce
<1> QED BY <1>3, <1>4 DEF U

-----------------------------------------------------------------------------
(* The inductive invariant behind SignalsReachTheirChannel.                *)

(* A stream at one end of the transport.                                   *)
Streams(p, s) ==
    /\ s \in closure_initiated[p] \cup incoming_reset_complete[p]
           => s \in known[p]
    /\ s \in outgoing_reset_initiated[p]
           => s \in closure_initiated[p] \cup incoming_reset_complete[p]
    /\ s \in outgoing_reset_complete[p] => s \in outgoing_reset_initiated[p]
    /\ s \in request[p] => /\ s \in outgoing_reset_initiated[p]
                           /\ s \notin outgoing_reset_complete[p]
    /\ Told(events[p], "OUTGOING_SSN", s) =>
           /\ s \in outgoing_reset_initiated[p]
           /\ s \notin outgoing_reset_complete[p]
           /\ s \notin request[p]
    /\ ToldOnce(events[p], "OUTGOING_SSN", s)

(* A stream and its channel at one end: the channel holds the id until     *)
(* CLOSED is handled, and knows, or will be told before, that it closes.   *)
Local(p, s) ==
    /\ s \in known[p] => s \in used[p]
    /\ Has(tasks[p], "CLOSED", s) => s \notin known[p] /\ s \in used[p]
    /\ Once(tasks[p], s)
    /\ \A n \in WithSid(p, s) : s \in known[p] \/ Has(tasks[p], "CLOSED", s)
    /\ \A n \in WithSid(p, s) :
           \/ state[p][n] = "closing"
           \/ /\ Warned(tasks[p], s)
              /\ s \in known[p] /\ ~S!is_open(p, s)
                     => Has(tasks[p], "CLOSING", s)

(* The endpoint that gives out the id.                                     *)
Owns(o, s) == s % 2 = o - 1

(* The reset of the peer on its way to the owner o of id s: asked of       *)
(* usrsctp, notified, or handled.                                          *)
Asked(o, s) == s \in request[Other(o)] /\ ~performed[Other(o)]
Coming(o, s) == Told(events[o], "INCOMING_SSN", s)
Came(o, s) == s \in incoming_reset_complete[o] \/ Has(tasks[o], "CLOSED", s)
Resets(o, s) == Asked(o, s) \/ Coming(o, s) \/ Came(o, s)

(* OPEN on its way to the peer, and a channel that has yet to send it.     *)
Opening(o, s) ==
    About(tasks[Other(o)], "OPEN", s) \cup Msgs(wire[Other(o)][s], "OPEN")
Connecting(o, s) == \E n \in WithSid(o, s) : state[o][n] = "connecting"

(* The peer of o uses the stream and has not asked for its reset.          *)
Uses(o, s) ==
    s \in known[Other(o)] /\ s \notin outgoing_reset_initiated[Other(o)]

(* The two ends of a stream: between two channels with the same id there   *)
(* is exactly one reset of the peer, and nothing of the first channel      *)
(* comes after it.                                                         *)
Cross(o, s) ==
    /\ Uses(o, s) =>
           /\ ~Resets(o, s) /\ s \in used[o]
           /\ ~Connecting(o, s) /\ Opening(o, s) = {}
           /\ WithSid(o, s) \cap WithSid(Other(o), s) # {}
    /\ Resets(o, s) =>
           Opening(o, s) = {} /\ ~Connecting(o, s) /\ s \in used[o]
    /\ Asked(o, s) => ~Coming(o, s) /\ ~Came(o, s)
    /\ Coming(o, s) => ~Came(o, s)
    /\ ToldOnce(events[o], "INCOMING_SSN", s)
    /\ s \notin used[o] \/ Connecting(o, s) => Opening(o, s) = {}
    /\ Opening(o, s) \subseteq WithSid(o, s)
    /\ Coming(o, s) \/ Came(o, s) \/ s \notin used[o]
           => Msgs(wire[o][s], "DATA") = {}

(* The data at both ends is for the channel that has the id, or comes      *)
(* after CLOSING.                                                          *)
Order(o, s) ==
    LET q == Other(o) IN
    /\ Follow(tasks[q], s) /\ Follows(wire[q][s])
    /\ Has(tasks[q], "OPEN", s) => Msgs(wire[q][s], "OPEN") = {}
    /\ \A n \in About(tasks[q], "OPEN", s) :
           Msgs(wire[q][s], "DATA") \subseteq {n}
    /\ \A n \in WithSid(q, s) :
           \/ state[q][n] = "closing"
           \/ /\ Own(tasks[q], s, n)
              /\ \/ Has(tasks[q], "CLOSING", s)
                 \/ Msgs(wire[q][s], "DATA") \subseteq {n}
    /\ \A n \in WithSid(o, s) :
           About(tasks[o], "DATA", s) \cup Msgs(wire[o][s], "DATA")
               \subseteq {n}
    /\ s \notin used[o] => ~Has(tasks[o], "DATA", s)
    /\ Ends(tasks[o], s)

Reaches(s) ==
    /\ \A p \in Peers : Local(p, s)
    /\ \A o \in Peers : Owns(o, s) => Order(o, s) /\ (lost = {} => Cross(o, s))

SignalsInv ==
    /\ \A p \in Peers, s \in Sids : Streams(p, s)
    /\ \A s \in Sids \ aborted : Reaches(s)

(* What an action that neither sends nor handles a signal of stream s      *)
(* leaves as it was.                                                       *)
LEMMA LocalStays ==
    ASSUME NEW p \in Peers, NEW s \in Sids, Local(p, s),
           s \in known'[p] <=> s \in known[p],
           s \in used'[p] <=> s \in used[p],
           S!is_open(p, s)' <=> S!is_open(p, s),
           WithSid(p, s)' \subseteq WithSid(p, s),
           \A n \in WithSid(p, s)' :
               state[p][n] = "closing" => state'[p][n] = "closing",
           Looks(tasks[p], tasks'[p], s)
    PROVE  Local(p, s)'
<1>1. /\ Has(tasks'[p], "CLOSING", s) <=> Has(tasks[p], "CLOSING", s)
      /\ Has(tasks'[p], "CLOSED", s) <=> Has(tasks[p], "CLOSED", s)
      /\ Once(tasks[p], s) => Once(tasks'[p], s)
      /\ Warned(tasks[p], s) => Warned(tasks'[p], s)
  BY DEF Looks
<1> QED BY <1>1 DEF Local

(* Nothing to be told apart came on a stream.                              *)
Fewer(W, V) ==
    /\ Follows(W) => Follows(V)
    /\ Msgs(V, "OPEN") \subseteq Msgs(W, "OPEN")
    /\ Msgs(V, "DATA") \subseteq Msgs(W, "DATA")

LEMMA OrderHolds ==
    ASSUME NEW o \in Peers, NEW s \in Sids, Order(o, s),
           s \in used[o] => s \in used'[o],
           WithSid(o, s)' \subseteq WithSid(o, s),
           WithSid(Other(o), s)' \subseteq WithSid(Other(o), s),
           \A n \in WithSid(Other(o), s)' :
               state[Other(o)][n] = "closing" => state'[Other(o)][n] = "closing",
           \A p \in Peers : /\ Looks(tasks[p], tasks'[p], s)
                            /\ Fewer(wire[p][s], wire'[p][s])
    PROVE  Order(o, s)'
<1> DEFINE q == Other(o)
<1>0. q \in Peers
  BY TheOther
<1>1. ASSUME NEW p \in Peers
      PROVE  /\ Has(tasks'[p], "OPEN", s) => Has(tasks[p], "OPEN", s)
             /\ Has(tasks'[p], "DATA", s) => Has(tasks[p], "DATA", s)
             /\ About(tasks'[p], "OPEN", s) \subseteq About(tasks[p], "OPEN", s)
             /\ About(tasks'[p], "DATA", s) \subseteq About(tasks[p], "DATA", s)
             /\ Has(tasks'[p], "CLOSING", s) <=> Has(tasks[p], "CLOSING", s)
             /\ \A n : Own(tasks[p], s, n) => Own(tasks'[p], s, n)
             /\ Ends(tasks[p], s) => Ends(tasks'[p], s)
             /\ Follow(tasks[p], s) => Follow(tasks'[p], s)
  <2>1. Looks(tasks[p], tasks'[p], s)
    OBVIOUS
  <2> QED BY <2>1, Zenon DEF Looks, Has
<1>2. ASSUME NEW p \in Peers
      PROVE  /\ Follows(wire[p][s]) => Follows(wire'[p][s])
             /\ Msgs(wire'[p][s], "OPEN") \subseteq Msgs(wire[p][s], "OPEN")
             /\ Msgs(wire'[p][s], "DATA") \subseteq Msgs(wire[p][s], "DATA")
  BY DEF Fewer
<1> HIDE DEF q
<1>3. Order(o, s)' <=>
        /\ Follow(tasks'[q], s) /\ Follows(wire'[q][s])
        /\ Has(tasks'[q], "OPEN", s) => Msgs(wire'[q][s], "OPEN") = {}
        /\ \A n \in About(tasks'[q], "OPEN", s) :
               Msgs(wire'[q][s], "DATA") \subseteq {n}
        /\ \A n \in WithSid(q, s)' :
               \/ state'[q][n] = "closing"
               \/ /\ Own(tasks'[q], s, n)
                  /\ \/ Has(tasks'[q], "CLOSING", s)
                     \/ Msgs(wire'[q][s], "DATA") \subseteq {n}
        /\ \A n \in WithSid(o, s)' :
               About(tasks'[o], "DATA", s) \cup Msgs(wire'[o][s], "DATA")
                   \subseteq {n}
        /\ s \notin used'[o] => ~Has(tasks'[o], "DATA", s)
        /\ Ends(tasks'[o], s)
  BY DEF Order, q
<1>4. /\ Follow(tasks[q], s) /\ Follows(wire[q][s])
      /\ Has(tasks[q], "OPEN", s) => Msgs(wire[q][s], "OPEN") = {}
      /\ \A n \in About(tasks[q], "OPEN", s) :
             Msgs(wire[q][s], "DATA") \subseteq {n}
      /\ \A n \in WithSid(q, s) :
             \/ state[q][n] = "closing"
             \/ /\ Own(tasks[q], s, n)
                /\ \/ Has(tasks[q], "CLOSING", s)
                   \/ Msgs(wire[q][s], "DATA") \subseteq {n}
      /\ \A n \in WithSid(o, s) :
             About(tasks[o], "DATA", s) \cup Msgs(wire[o][s], "DATA")
                 \subseteq {n}
      /\ s \notin used[o] => ~Has(tasks[o], "DATA", s)
      /\ Ends(tasks[o], s)
  BY DEF Order, q
<1>5. /\ Follow(tasks'[q], s) /\ Follows(wire'[q][s])
      /\ Has(tasks'[q], "OPEN", s) => Msgs(wire'[q][s], "OPEN") = {}
      /\ \A n \in About(tasks'[q], "OPEN", s) :
             Msgs(wire'[q][s], "DATA") \subseteq {n}
  <2>1. Msgs(wire'[q][s], "OPEN") \subseteq Msgs(wire[q][s], "OPEN")
        /\ Msgs(wire'[q][s], "DATA") \subseteq Msgs(wire[q][s], "DATA")
    BY <1>0, <1>2
  <2> QED BY <1>0, <1>1, <1>2, <1>4, <2>1
<1>6. ASSUME NEW n \in WithSid(q, s)'
      PROVE  \/ state'[q][n] = "closing"
             \/ /\ Own(tasks'[q], s, n)
                /\ \/ Has(tasks'[q], "CLOSING", s)
                   \/ Msgs(wire'[q][s], "DATA") \subseteq {n}
  <2>1. Msgs(wire'[q][s], "DATA") \subseteq Msgs(wire[q][s], "DATA")
    BY <1>0, <1>2
  <2>2. n \in WithSid(q, s)
        /\ (state[q][n] = "closing" => state'[q][n] = "closing")
    BY DEF q
  <2> QED BY <1>0, <1>1, <1>4, <2>1, <2>2
<1>7. /\ \A n \in WithSid(o, s)' :
             About(tasks'[o], "DATA", s) \cup Msgs(wire'[o][s], "DATA")
                 \subseteq {n}
      /\ s \notin used'[o] => ~Has(tasks'[o], "DATA", s)
      /\ Ends(tasks'[o], s)
  <2>1. Msgs(wire'[o][s], "DATA") \subseteq Msgs(wire[o][s], "DATA")
    BY <1>2
  <2> QED BY <1>1, <1>4, <2>1
<1> QED BY <1>3, <1>5, <1>6, <1>7

LEMMA OrderStays ==
    ASSUME NEW o \in Peers, NEW s \in Sids, Order(o, s),
           s \in used[o] => s \in used'[o],
           WithSid(o, s)' \subseteq WithSid(o, s),
           WithSid(Other(o), s)' \subseteq WithSid(Other(o), s),
           \A n \in WithSid(Other(o), s)' :
               state[Other(o)][n] = "closing" => state'[Other(o)][n] = "closing",
           \A p \in Peers : /\ Looks(tasks[p], tasks'[p], s)
                            /\ wire'[p][s] \in {wire[p][s], << >>}
    PROVE  Order(o, s)'
<1>1. \A p \in Peers : Fewer(wire[p][s], wire'[p][s])
  BY NoMessages DEF Fewer
<1> QED BY <1>1, OrderHolds

LEMMA CrossStays ==
    ASSUME NEW o \in Peers, NEW s \in Sids, Cross(o, s),
           Uses(o, s)' => Uses(o, s),
           Asked(o, s)' => Asked(o, s),
           Coming(o, s)' => Coming(o, s), Came(o, s)' => Came(o, s),
           ToldOnce(events'[o], "INCOMING_SSN", s),
           s \in used'[o] <=> s \in used[o],
           Opening(o, s)' \subseteq Opening(o, s),
           Connecting(o, s)' => Connecting(o, s),
           WithSid(o, s)' = WithSid(o, s),
           WithSid(Other(o), s)' = WithSid(Other(o), s),
           Msgs(wire'[o][s], "DATA") \subseteq Msgs(wire[o][s], "DATA")
    PROVE  Cross(o, s)'
BY DEF Cross, Resets

(* The step leaves stream s alone, and takes no CLOSING or CLOSED of it.   *)
Plain(s) ==
    /\ UNCHANGED <<closure_initiated, outgoing_reset_initiated,
                   outgoing_reset_complete, incoming_reset_complete,
                   request, performed, events>>
    /\ lost' = {} => lost = {}
    /\ \A p \in Peers :
           /\ s \in known'[p] <=> s \in known[p]
           /\ s \in used'[p] <=> s \in used[p]
           /\ WithSid(p, s)' = WithSid(p, s)
           /\ \A n \in WithSid(p, s) :
                  /\ state[p][n] = "closing" => state'[p][n] = "closing"
                  /\ state'[p][n] = "connecting" => state[p][n] = "connecting"
           /\ Looks(tasks[p], tasks'[p], s)
           /\ wire'[p][s] \in {wire[p][s], << >>}

LEMMA PlainStep ==
    ASSUME NEW s \in Sids, Reaches(s), Plain(s)
    PROVE  Reaches(s)'
<1>0. \A p \in Peers :
          /\ s \in known'[p] <=> s \in known[p]
          /\ s \in used'[p] <=> s \in used[p]
          /\ WithSid(p, s)' = WithSid(p, s)
          /\ \A n \in WithSid(p, s) :
                 /\ state[p][n] = "closing" => state'[p][n] = "closing"
                 /\ state'[p][n] = "connecting" => state[p][n] = "connecting"
          /\ Looks(tasks[p], tasks'[p], s)
          /\ wire'[p][s] \in {wire[p][s], << >>}
  BY DEF Plain
<1>1. ASSUME NEW p \in Peers
      PROVE  Local(p, s)'
  <2>1. S!is_open(p, s)' <=> S!is_open(p, s)
    BY DEF Plain, S!is_open
  <2> QED BY <1>0, <2>1, LocalStays DEF Reaches
<1>2. ASSUME NEW o \in Peers, Owns(o, s)
      PROVE  Order(o, s)'
  <2>1. Other(o) \in Peers
    BY TheOther
  <2> QED BY <1>0, <1>2, <2>1, OrderStays DEF Reaches
<1>3. ASSUME NEW o \in Peers, Owns(o, s), lost' = {}
      PROVE  Cross(o, s)'
  <2> DEFINE q == Other(o)
  <2>0. q \in Peers /\ Cross(o, s)
    BY <1>3, TheOther DEF Reaches, Plain
  <2>1. Uses(o, s)' => Uses(o, s)
    BY <1>0, <2>0 DEF Uses, Plain
  <2>2. Asked(o, s)' => Asked(o, s)
    BY DEF Asked, Plain
  <2>3. /\ Coming(o, s)' => Coming(o, s)
        /\ ToldOnce(events'[o], "INCOMING_SSN", s)
    BY <2>0 DEF Coming, Plain, Cross
  <2>4. Came(o, s)' => Came(o, s)
    <3>1. Has(tasks'[o], "CLOSED", s) <=> Has(tasks[o], "CLOSED", s)
      BY <1>0 DEF Looks
    <3> QED BY <3>1 DEF Came, Plain
  <2>5. Opening(o, s)' \subseteq Opening(o, s)
    <3>1. About(tasks'[q], "OPEN", s) \subseteq About(tasks[q], "OPEN", s)
      BY <1>0, <2>0 DEF Looks
    <3>2. Msgs(wire'[q][s], "OPEN") \subseteq Msgs(wire[q][s], "OPEN")
      BY <1>0, <2>0, NoMessages
    <3> QED BY <3>1, <3>2 DEF Opening
  <2>6. Connecting(o, s)' => Connecting(o, s)
    BY <1>0 DEF Connecting
  <2>7. Msgs(wire'[o][s], "DATA") \subseteq Msgs(wire[o][s], "DATA")
    BY <1>0, NoMessages
  <2> QED BY <1>0, <2>0, <2>1, <2>2, <2>3, <2>4, <2>5, <2>6, <2>7, CrossStays
<1> QED BY <1>1, <1>2, <1>3 DEF Reaches

LEMMA StreamsStay ==
    ASSUME NEW p \in Peers, NEW s \in Sids, Streams(p, s),
           UNCHANGED <<closure_initiated, outgoing_reset_initiated,
                       outgoing_reset_complete, incoming_reset_complete,
                       request, performed, events>>,
           s \in known[p] => s \in known'[p]
    PROVE  Streams(p, s)'
BY DEF Streams

(* The queues after a task was handled or posted.                          *)
LEMMA TasksAfterPop ==
    ASSUME ChannelsInv, NEW p \in Peers, tasks[p] # << >>,
           tasks' = [tasks EXCEPT ![p] = Tail(@)], NEW s,
           ~Is(Head(tasks[p]), "CLOSING", s), ~Is(Head(tasks[p]), "CLOSED", s)
    PROVE  \A u \in Peers : Looks(tasks[u], tasks'[u], s)
<1>1. \A u \in Peers : tasks'[u] = IF u = p THEN Tail(tasks[p]) ELSE tasks[u]
  BY DEF ChannelsInv, TypeInv
<1>2. tasks[p] \in Seq(GoodTask(p))
  BY DEF ChannelsInv, TypeInv
<1>3. Looks(tasks[p], Tail(tasks[p]), s)
  BY <1>2, PopLooks
<1> QED BY <1>1, <1>3, LooksItself

LEMMA ListsSame ==
    ASSUME sid' = sid, NEW u \in Peers,
           \A n \in Numbers : state'[u][n] \in Listed <=> state[u][n] \in Listed
    PROVE  \A s : WithSid(u, s)' = WithSid(u, s)
BY DEF WithSid, sctp_data_channels, Listed

LEMMA IsListed ==
    ASSUME NEW u, NEW s, NEW n \in WithSid(u, s)
    PROVE  n \in Numbers /\ sid[n] = s /\ state[u][n] \in Listed
BY DEF WithSid, sctp_data_channels, Listed

(* No two channels on a list have the same id.                             *)
LEMMA OneChannel ==
    ASSUME ChannelsInv, NEW u \in Peers, NEW s \in Sids,
           NEW n \in WithSid(u, s), NEW m \in WithSid(u, s)
    PROVE  n = m /\ s \in used[u]
<1>1. /\ n \in sctp_data_channels(u) /\ m \in sctp_data_channels(u)
      /\ sid[n] = s /\ sid[m] = s
  BY DEF WithSid
<1>2. s >= 0
  BY SidSet
<1> QED BY <1>1, <1>2 DEF ChannelsInv, UsedInv

(* Closing a channel concerns its own id only.                             *)
LEMMA OthersKept ==
    ASSUME ChannelsInv, NEW p \in Peers, NEW n \in Numbers,
           OnSctpDataChannelClosed(p, n), sid' = sid,
           NEW s \in Sids, s # sid[n]
    PROVE  \A u \in Peers : /\ s \in used'[u] <=> s \in used[u]
                            /\ WithSid(u, s)' = WithSid(u, s)
                            /\ \A m \in WithSid(u, s) : state'[u][m] = state[u][m]
<1>1. /\ \A u \in Peers, m \in Numbers :
             state'[u][m] = IF u = p /\ m = n THEN "closed" ELSE state[u][m]
      /\ \A u \in Peers :
             used'[u] = IF u = p THEN used[p] \ {sid[n]} ELSE used[u]
  BY DEF OnSctpDataChannelClosed, ChannelsInv, TypeInv
<1>2. \A u \in Peers : WithSid(u, s)' = WithSid(u, s)
  BY <1>1 DEF WithSid, sctp_data_channels
<1>3. \A u \in Peers : \A m \in WithSid(u, s) : m \in Numbers /\ m # n
  BY DEF WithSid, sctp_data_channels
<1> QED BY <1>1, <1>2, <1>3

LEMMA SignalsKept ==
    ASSUME SignalsInv, UNCHANGED streamVars, aborted \subseteq aborted',
           \A s \in Sids \ aborted' : Reaches(s) => Reaches(s)'
    PROVE  SignalsInv'
<1>1. \A p \in Peers, s \in Sids : Streams(p, s)'
  BY StreamsStay DEF SignalsInv, streamVars
<1> QED BY <1>1 DEF SignalsInv

-----------------------------------------------------------------------------
(* Tasks of the signaling thread, and the loss of the transport.           *)

LEMMA ReceiveSignals ==
    ASSUME ChannelsInv, SignalsInv, NEW p \in Peers, ReceiveData(p)
    PROVE  SignalsInv'
<1>1. /\ UNCHANGED <<sid, wire, lost, streamVars>>
      /\ tasks[p] # << >> /\ Head(tasks[p]).kind \in {"DATA", "ACK"}
      /\ tasks' = [tasks EXCEPT ![p] = Tail(@)]
  BY DEF ReceiveData, CloseAbruptlyWithError, Head1
<1>2. \A s : \A u \in Peers : Looks(tasks[u], tasks'[u], s)
  BY <1>1, TasksAfterPop DEF Is
<1>3. CASE UNCHANGED <<state, used, aborted>>
  <2>1. \A s \in Sids : Plain(s)
    <3>1. \A u \in Peers : \A s : WithSid(u, s)' = WithSid(u, s)
      BY <1>1, <1>3, ListsSame
    <3> QED BY <1>1, <1>2, <1>3, <3>1 DEF Plain, streamVars
  <2> QED BY <1>1, <1>3, <2>1, PlainStep, SignalsKept
<1>4. CASE \E n \in WithSid(p, Head(tasks[p]).sid) : CloseAbruptlyWithError(p, n)
  <2>1. PICK n \in Numbers : CloseAbruptlyWithError(p, n)
    BY <1>4 DEF WithSid, sctp_data_channels
  <2>2. OnSctpDataChannelClosed(p, n) /\ aborted' = aborted \cup ({sid[n]} \cap Sids)
    BY <2>1 DEF CloseAbruptlyWithError
  <2>3. \A s \in Sids \ aborted' : Plain(s)
    <3> SUFFICES ASSUME NEW s \in Sids \ aborted'
                 PROVE  Plain(s)
      OBVIOUS
    <3>1. s # sid[n]
      BY <2>2
    <3>2. \A u \in Peers :
              /\ s \in used'[u] <=> s \in used[u]
              /\ WithSid(u, s)' = WithSid(u, s)
              /\ \A m \in WithSid(u, s) : state'[u][m] = state[u][m]
      BY <1>1, <2>2, <3>1, OthersKept
    <3> QED BY <1>1, <1>2, <3>2 DEF Plain, streamVars
  <2> QED BY <1>1, <2>2, <2>3, PlainStep, SignalsKept
<1> QED BY <1>3, <1>4 DEF ReceiveData

LEMMA AllClosedSignals ==
    ASSUME ChannelsInv, SignalsInv, NEW p \in Peers, OnTransportChannelClosed(p)
    PROVE  SignalsInv'
<1>1. /\ UNCHANGED <<sid, used, wire, lost, aborted, streamVars>>
      /\ tasks[p] # << >> /\ Head(tasks[p]).kind = "TRANSPORT_CLOSED"
      /\ tasks' = [tasks EXCEPT ![p] = Tail(@)]
      /\ state' = [state EXCEPT ![p] = [n \in Numbers |->
             IF n \in sctp_data_channels(p) THEN "closed" ELSE @[n]]]
  BY DEF OnTransportChannelClosed, Head1, boundVars
<1>2. lost' # {}
  BY <1>1, HeadIsGood DEF ChannelsInv, GoodTask
<1>3. \A s : \A u \in Peers : Looks(tasks[u], tasks'[u], s)
  BY <1>1, TasksAfterPop DEF Is
<1>4. \A u \in Peers, m \in Numbers : state'[u][m] =
          IF u = p /\ m \in sctp_data_channels(p) THEN "closed" ELSE state[u][m]
  BY <1>1 DEF ChannelsInv, TypeInv
<1>5. ASSUME NEW u \in Peers, NEW s
      PROVE  /\ WithSid(u, s)' \subseteq WithSid(u, s)
             /\ \A n \in WithSid(u, s)' : state'[u][n] = state[u][n]
  BY <1>1, <1>4 DEF WithSid, sctp_data_channels
<1>6. ASSUME NEW s \in Sids, Reaches(s)
      PROVE  Reaches(s)'
  <2>1. ASSUME NEW u \in Peers
        PROVE  Local(u, s)'
    <3>1. S!is_open(u, s)' <=> S!is_open(u, s)
      BY <1>1 DEF S!is_open, streamVars
    <3>2. (s \in known'[u] <=> s \in known[u]) /\ (s \in used'[u] <=> s \in used[u])
      BY <1>1 DEF streamVars
    <3> QED BY <1>3, <1>5, <1>6, <3>1, <3>2, LocalStays DEF Reaches
  <2>2. ASSUME NEW o \in Peers, Owns(o, s)
        PROVE  Order(o, s)'
    <3>1. Other(o) \in Peers
      BY TheOther
    <3> QED BY <1>1, <1>3, <1>5, <1>6, <2>2, <3>1, OrderStays DEF Reaches
  <2> QED BY <1>2, <2>1, <2>2 DEF Reaches
<1> QED BY <1>1, <1>6, SignalsKept

LEMMA LossSignals ==
    ASSUME ChannelsInv, SignalsInv, NEW p \in Peers, OnTransportClosed(p)
    PROVE  SignalsInv'
<1> DEFINE t == Task("TRANSPORT_CLOSED", -1, 0)
<1>1. /\ UNCHANGED <<state, sid, used, aborted, streamVars>>
      /\ lost' # {}
      /\ tasks' = [tasks EXCEPT ![p] = Append(@, t)]
      /\ \A u \in Peers, s \in Sids : wire'[u][s] = << >>
  BY DEF OnTransportClosed, Post, channelVars
<1>2. \A kind \in {"OPEN", "DATA", "CLOSING", "CLOSED"} : \A s : ~Is(t, kind, s)
  BY IsTask
<1> HIDE DEF t
<1>3. ASSUME NEW s
      PROVE  \A u \in Peers : Looks(tasks[u], tasks'[u], s)
  <2>1. \A u \in Peers : tasks'[u] = IF u = p THEN Append(tasks[p], t) ELSE tasks[u]
    BY <1>1 DEF ChannelsInv, TypeInv
  <2>2. tasks[p] \in Seq(GoodTask(p))
    BY DEF ChannelsInv, TypeInv
  <2>3. Looks(tasks[p], Append(tasks[p], t), s)
    BY <1>2, <2>2, AppendLooks
  <2> QED BY <2>1, <2>3, LooksItself
<1>4. \A s \in Sids : Plain(s)
  <2>1. \A u \in Peers : \A s : WithSid(u, s)' = WithSid(u, s)
    BY <1>1, ListsSame
  <2> QED BY <1>1, <1>3, <2>1 DEF Plain, streamVars
<1> QED BY <1>1, <1>4, PlainStep, SignalsKept

(* The head of a queue is handled: what is left of the others' claims.     *)
LEMMA AfterPop ==
    ASSUME ChannelsInv, NEW p \in Peers, tasks[p] # << >>,
           tasks' = [tasks EXCEPT ![p] = Tail(@)], NEW s
    PROVE  /\ \A u \in Peers :
                  /\ About(tasks'[u], "OPEN", s) \subseteq About(tasks[u], "OPEN", s)
                  /\ About(tasks'[u], "DATA", s) \subseteq About(tasks[u], "DATA", s)
                  /\ Has(tasks'[u], "CLOSED", s) => Has(tasks[u], "CLOSED", s)
                  /\ ~Is(Head(tasks[p]), "CLOSED", s) =>
                         (Has(tasks'[u], "CLOSED", s) <=> Has(tasks[u], "CLOSED", s))
                  /\ Once(tasks[u], s) => Once(tasks'[u], s)
                  /\ Ends(tasks[u], s) => Ends(tasks'[u], s)
                  /\ Follow(tasks[u], s) => Follow(tasks'[u], s)
                  /\ u # p => tasks'[u] = tasks[u]
           /\ tasks'[p] = Tail(tasks[p])
           /\ tasks[p] \in Seq(GoodTask(p))
<1>1. \A u \in Peers : tasks'[u] = IF u = p THEN Tail(tasks[p]) ELSE tasks[u]
  BY DEF ChannelsInv, TypeInv
<1>2. tasks[p] \in Seq(GoodTask(p))
  BY DEF ChannelsInv, TypeInv
<1> DEFINE T == tasks[p]
           U == Tail(T)
<1>3. /\ About(U, "OPEN", s) \subseteq About(T, "OPEN", s)
      /\ About(U, "DATA", s) \subseteq About(T, "DATA", s)
      /\ About(U, "CLOSED", s) \subseteq About(T, "CLOSED", s)
      /\ ~Is(Head(T), "CLOSED", s) => About(U, "CLOSED", s) = About(T, "CLOSED", s)
      /\ Once(T, s) => Once(U, s)
      /\ Ends(T, s) => Ends(U, s)
      /\ Follow(T, s) => Follow(U, s)
  BY <1>2, TailAbout, TailOrder
<1>4. tasks'[p] = U /\ \A u \in Peers : u # p => tasks'[u] = tasks[u]
  BY <1>1
<1> HIDE DEF T, U
<1>5. /\ Has(U, "CLOSED", s) => Has(T, "CLOSED", s)
      /\ ~Is(Head(T), "CLOSED", s) => (Has(U, "CLOSED", s) <=> Has(T, "CLOSED", s))
  BY <1>3 DEF Has
<1>6. ASSUME NEW u \in Peers
      PROVE  /\ About(tasks'[u], "OPEN", s) \subseteq About(tasks[u], "OPEN", s)
             /\ About(tasks'[u], "DATA", s) \subseteq About(tasks[u], "DATA", s)
             /\ Has(tasks'[u], "CLOSED", s) => Has(tasks[u], "CLOSED", s)
             /\ ~Is(Head(tasks[p]), "CLOSED", s) =>
                    (Has(tasks'[u], "CLOSED", s) <=> Has(tasks[u], "CLOSED", s))
             /\ Once(tasks[u], s) => Once(tasks'[u], s)
             /\ Ends(tasks[u], s) => Ends(tasks'[u], s)
             /\ Follow(tasks[u], s) => Follow(tasks'[u], s)
  <2>1. CASE u = p
    BY <1>3, <1>4, <1>5, <2>1 DEF T
  <2>2. CASE u # p
    <3>1. tasks'[u] = tasks[u]
      BY <1>4, <2>2
    <3> QED BY <3>1
  <2> QED BY <2>1, <2>2
<1> QED BY <1>2, <1>4, <1>6, Zenon DEF T, U

LEMMA ClosingSignals ==
    ASSUME ChannelsInv, SignalsInv, NEW p \in Peers, OnChannelClosing(p)
    PROVE  SignalsInv'
<1> DEFINE r == Head(tasks[p]).sid
           to == {n \in WithSid(p, r) : state[p][n] # "closing"}
<1>1. /\ UNCHANGED <<sid, used, wire, lost, aborted, streamVars>>
      /\ tasks[p] # << >> /\ Head(tasks[p]).kind = "CLOSING"
      /\ tasks' = [tasks EXCEPT ![p] = Tail(@)]
      /\ state' = [state EXCEPT ![p] = [n \in Numbers |->
                       IF n \in to THEN "closing" ELSE @[n]]]
  BY DEF OnChannelClosing, Head1, boundVars
<1>2. \A u \in Peers, m \in Numbers : state'[u][m] =
          IF u = p /\ m \in to THEN "closing" ELSE state[u][m]
  BY <1>1 DEF ChannelsInv, TypeInv
<1>3. \A n \in Numbers : n \in to => state[p][n] \in Listed /\ sid[n] = r
  BY DEF WithSid, sctp_data_channels, Listed
<1>4. \A n \in WithSid(p, r) : n \in to \/ state[p][n] = "closing"
  OBVIOUS
<1> HIDE DEF to, r
<1>5. \A u \in Peers : \A s : WithSid(u, s)' = WithSid(u, s)
  <2>1. \A u \in Peers, n \in Numbers :
            state'[u][n] \in Listed <=> state[u][n] \in Listed
    BY <1>2, <1>3 DEF Listed
  <2> QED BY <1>1, <2>1, ListsSame
<1>6. \A u \in Peers : \A s : \A n \in WithSid(u, s) :
          /\ state[u][n] = "closing" => state'[u][n] = "closing"
          /\ state'[u][n] = "connecting" => state[u][n] = "connecting"
          /\ u = p /\ s = r => state'[u][n] = "closing"
  BY <1>2, <1>4, IsListed
<1>7. ASSUME NEW s \in Sids, Reaches(s), s # r
      PROVE  Reaches(s)'
  <2>1. \A u \in Peers : Looks(tasks[u], tasks'[u], s)
    BY <1>1, <1>7, TasksAfterPop DEF Is, r
  <2>2. Plain(s)
    BY <1>1, <1>5, <1>6, <2>1 DEF Plain, streamVars
  <2> QED BY <1>7, <2>2, PlainStep
<1>8. ASSUME NEW s \in Sids, Reaches(s), s = r
      PROVE  Reaches(s)'
  <2>1. /\ \A u \in Peers :
               /\ About(tasks'[u], "OPEN", s) \subseteq About(tasks[u], "OPEN", s)
               /\ About(tasks'[u], "DATA", s) \subseteq About(tasks[u], "DATA", s)
               /\ Has(tasks'[u], "CLOSED", s) <=> Has(tasks[u], "CLOSED", s)
               /\ Once(tasks[u], s) => Once(tasks'[u], s)
               /\ Ends(tasks[u], s) => Ends(tasks'[u], s)
               /\ Follow(tasks[u], s) => Follow(tasks'[u], s)
               /\ u # p => tasks'[u] = tasks[u]
    <3>1. ~Is(Head(tasks[p]), "CLOSED", s)
      BY <1>1 DEF Is
    <3> QED BY <1>1, <3>1, AfterPop
  <2>2. \A u \in Peers :
            /\ s \in known'[u] <=> s \in known[u]
            /\ s \in used'[u] <=> s \in used[u]
            /\ S!is_open(u, s)' <=> S!is_open(u, s)
            /\ WithSid(u, s)' = WithSid(u, s)
            /\ wire'[u][s] = wire[u][s]
    BY <1>1, <1>5 DEF streamVars, S!is_open
  <2>3. ASSUME NEW u \in Peers
        PROVE  Local(u, s)'
    <3>0. Local(u, s)
      BY <1>8 DEF Reaches
    <3>1. CASE u = p
      BY <1>6, <1>8, <2>1, <2>2, <3>0, <3>1 DEF Local
    <3>2. CASE u # p
      <4>1. Looks(tasks[u], tasks'[u], s)
        BY <2>1, <3>2, LooksItself
      <4> QED BY <1>6, <2>2, <3>0, <4>1, LocalStays
    <3> QED BY <3>1, <3>2
  <2>4. ASSUME NEW o \in Peers, Owns(o, s)
        PROVE  Order(o, s)'
    <3> DEFINE q == Other(o)
    <3>0. q \in Peers /\ Order(o, s)
      BY <1>8, <2>4, TheOther DEF Reaches
    <3>1. /\ Has(tasks'[q], "OPEN", s) => Has(tasks[q], "OPEN", s)
          /\ Has(tasks'[o], "DATA", s) => Has(tasks[o], "DATA", s)
      BY <2>1, <3>0 DEF Has
    <3>2. ASSUME NEW n \in WithSid(q, s)
          PROVE  \/ state'[q][n] = "closing"
                 \/ /\ Own(tasks'[q], s, n)
                    /\ \/ Has(tasks'[q], "CLOSING", s)
                       \/ Msgs(wire'[q][s], "DATA") \subseteq {n}
      <4>1. CASE q = p
        BY <1>6, <1>8, <4>1
      <4>2. CASE q # p
        <5>1. /\ tasks'[q] = tasks[q] /\ wire'[q][s] = wire[q][s]
              /\ state[q][n] = "closing" => state'[q][n] = "closing"
          BY <1>6, <2>1, <2>2, <3>0, <4>2
        <5> QED BY <3>0, <5>1 DEF Order
      <4> QED BY <4>1, <4>2
    <3> QED BY <2>1, <2>2, <3>0, <3>1, <3>2 DEF Order
  <2>5. ASSUME NEW o \in Peers, Owns(o, s), lost' = {}
        PROVE  Cross(o, s)'
    <3> DEFINE q == Other(o)
    <3>0. q \in Peers /\ Cross(o, s)
      BY <1>1, <1>8, <2>5, TheOther DEF Reaches
    <3>1. Uses(o, s)' => Uses(o, s)
      BY <1>1, <2>2, <3>0 DEF Uses, streamVars
    <3>2. Asked(o, s)' => Asked(o, s)
      BY <1>1 DEF Asked, streamVars
    <3>3. /\ Coming(o, s)' => Coming(o, s)
          /\ ToldOnce(events'[o], "INCOMING_SSN", s)
      BY <1>1, <3>0 DEF Coming, streamVars, Cross
    <3>4. Came(o, s)' => Came(o, s)
      BY <1>1, <2>1 DEF Came, streamVars
    <3>5. Opening(o, s)' \subseteq Opening(o, s)
      BY <2>1, <2>2, <3>0 DEF Opening
    <3>6. Connecting(o, s)' => Connecting(o, s)
      BY <1>6, <2>2 DEF Connecting
    <3> QED BY <2>2, <3>0, <3>1, <3>2, <3>3, <3>4, <3>5, <3>6, CrossStays
  <2> QED BY <2>3, <2>4, <2>5 DEF Reaches
<1> QED BY <1>1, <1>7, <1>8, SignalsKept

LEMMA ClosedSignals ==
    ASSUME ChannelsInv, SignalsInv, NEW p \in Peers, OnChannelClosed(p)
    PROVE  SignalsInv'
<1> DEFINE r == Head(tasks[p]).sid
<1>1. /\ UNCHANGED <<sid, wire, lost, aborted, streamVars>>
      /\ tasks[p] # << >> /\ Head(tasks[p]).kind = "CLOSED"
      /\ tasks' = [tasks EXCEPT ![p] = Tail(@)]
      /\ \/ WithSid(p, r) = {} /\ UNCHANGED <<state, used>>
         \/ \E n \in WithSid(p, r) : OnSctpDataChannelClosed(p, n)
  BY DEF OnChannelClosed, Head1, boundVars
<1> HIDE DEF r
<1>2. ASSUME NEW s \in Sids, s # r
      PROVE  \A u \in Peers :
                 /\ s \in used'[u] <=> s \in used[u]
                 /\ WithSid(u, s)' = WithSid(u, s)
                 /\ \A m \in WithSid(u, s) : state'[u][m] = state[u][m]
  <2>1. CASE UNCHANGED <<state, used>>
    BY <1>1, <2>1, ListsSame
  <2>2. CASE \E n \in WithSid(p, r) : OnSctpDataChannelClosed(p, n)
    <3>1. PICK n \in WithSid(p, r) : OnSctpDataChannelClosed(p, n)
      BY <2>2
    <3>2. n \in Numbers /\ sid[n] = r
      BY IsListed
    <3> QED BY <1>1, <1>2, <3>1, <3>2, OthersKept
  <2> QED BY <1>1, <2>1, <2>2
<1>3. ASSUME NEW s \in Sids, Reaches(s), s # r
      PROVE  Reaches(s)'
  <2>1. \A u \in Peers : Looks(tasks[u], tasks'[u], s)
    BY <1>1, <1>3, TasksAfterPop DEF Is, r
  <2>2. Plain(s)
    BY <1>1, <1>2, <1>3, <2>1 DEF Plain, streamVars
  <2> QED BY <1>3, <2>2, PlainStep
<1>4. ASSUME NEW s \in Sids, Reaches(s), s = r
      PROVE  Reaches(s)'
  <2>0. Is(Head(tasks[p]), "CLOSED", s)
    BY <1>1, <1>4 DEF Is, r
  <2>1. /\ \A u \in Peers :
               /\ About(tasks'[u], "OPEN", s) \subseteq About(tasks[u], "OPEN", s)
               /\ About(tasks'[u], "DATA", s) \subseteq About(tasks[u], "DATA", s)
               /\ Has(tasks'[u], "CLOSED", s) => Has(tasks[u], "CLOSED", s)
               /\ Once(tasks[u], s) => Once(tasks'[u], s)
               /\ Ends(tasks[u], s) => Ends(tasks'[u], s)
               /\ Follow(tasks[u], s) => Follow(tasks'[u], s)
               /\ u # p => tasks'[u] = tasks[u]
        /\ tasks'[p] = Tail(tasks[p])
        /\ tasks[p] \in Seq(GoodTask(p))
    BY <1>1, AfterPop
  <2>2. /\ Has(tasks[p], "CLOSED", s)
        /\ Once(tasks[p], s) => ~Has(tasks'[p], "CLOSED", s)
        /\ Ends(tasks[p], s) => ~Has(tasks'[p], "DATA", s)
    <3>1. Has(tasks[p], "CLOSED", s)
      <4> DEFINE T == tasks[p]
      <4>1. T \in Seq(GoodTask(p)) /\ T # << >> /\ Is(Head(T), "CLOSED", s)
        BY <1>1, <2>0, <2>1
      <4> HIDE DEF T
      <4>2. About(T, "CLOSED", s) = About(Tail(T), "CLOSED", s) \cup {Head(T).n}
        BY <4>1, TailAbout
      <4> QED BY <4>2 DEF Has, T
    <3> QED BY <1>1, <2>0, <2>1, <3>1, TailOfHead
  <2>3. \A u \in Peers :
            /\ s \in known'[u] <=> s \in known[u]
            /\ S!is_open(u, s)' <=> S!is_open(u, s)
            /\ wire'[u][s] = wire[u][s]
            /\ s \in used'[u] => s \in used[u]
            /\ WithSid(u, s)' \subseteq WithSid(u, s)
            /\ \A n \in WithSid(u, s)' : state'[u][n] = state[u][n]
            /\ u # p => /\ s \in used'[u] <=> s \in used[u]
                        /\ WithSid(u, s)' = WithSid(u, s)
    <3>1. CASE UNCHANGED <<state, used>>
      <4>1. \A u \in Peers : WithSid(u, s)' = WithSid(u, s)
        BY <1>1, <3>1, ListsSame
      <4> QED BY <1>1, <3>1, <4>1 DEF streamVars, S!is_open
    <3>2. CASE \E n \in WithSid(p, r) : OnSctpDataChannelClosed(p, n)
      <4>1. PICK n \in WithSid(p, r) : OnSctpDataChannelClosed(p, n)
        BY <3>2
      <4>2. n \in Numbers /\ sid[n] = r
        BY IsListed
      <4>3. /\ \A u \in Peers, m \in Numbers :
                   state'[u][m] = IF u = p /\ m = n THEN "closed" ELSE state[u][m]
            /\ \A u \in Peers :
                   used'[u] = IF u = p THEN used[p] \ {sid[n]} ELSE used[u]
        BY <4>1, <4>2 DEF OnSctpDataChannelClosed, ChannelsInv, TypeInv
      <4>4. \A u \in Peers :
                /\ WithSid(u, s)' \subseteq WithSid(u, s)
                /\ \A m \in WithSid(u, s)' : state'[u][m] = state[u][m]
                /\ u # p => WithSid(u, s)' = WithSid(u, s)
        BY <1>1, <4>3 DEF WithSid, sctp_data_channels
      <4> QED BY <1>1, <4>3, <4>4 DEF streamVars, S!is_open
    <3> QED BY <1>1, <3>1, <3>2
  <2>4. WithSid(p, s)' = {}
    <3>1. CASE WithSid(p, r) = {}
      BY <1>4, <2>3, <3>1
    <3>2. CASE \E n \in WithSid(p, r) : OnSctpDataChannelClosed(p, n)
      <4>1. PICK n \in WithSid(p, r) : OnSctpDataChannelClosed(p, n)
        BY <3>2
      <4>2. n \in Numbers /\ sid[n] = r
        BY IsListed
      <4>3. state'[p][n] = "closed"
        BY <4>1, <4>2 DEF OnSctpDataChannelClosed, ChannelsInv, TypeInv
      <4>4. n \notin WithSid(p, s)'
        BY <4>3 DEF WithSid, sctp_data_channels
      <4>5. \A m \in WithSid(p, s)' : m = n
        BY <1>4, <2>3, <4>1, OneChannel
      <4> QED BY <4>4, <4>5
    <3> QED BY <1>1, <3>1, <3>2
  <2>5. Local(p, s) /\ s \notin known[p]
    BY <1>4, <2>2 DEF Reaches, Local
  <2>6. ASSUME NEW u \in Peers
        PROVE  Local(u, s)'
    <3>1. CASE u = p
      BY <2>1, <2>2, <2>3, <2>4, <2>5, <3>1 DEF Local
    <3>2. CASE u # p
      <4>1. Looks(tasks[u], tasks'[u], s)
        BY <2>1, <3>2, LooksItself
      <4> QED BY <1>4, <2>3, <3>2, <4>1, LocalStays DEF Reaches
    <3> QED BY <3>1, <3>2
  <2>7. ASSUME NEW o \in Peers, Owns(o, s)
        PROVE  Order(o, s)'
    <3> DEFINE q == Other(o)
    <3>0. q \in Peers /\ Order(o, s)
      BY <1>4, <2>7, TheOther DEF Reaches
    <3>1. /\ Has(tasks'[q], "OPEN", s) => Has(tasks[q], "OPEN", s)
          /\ Has(tasks'[o], "DATA", s) => Has(tasks[o], "DATA", s)
      BY <2>1, <3>0 DEF Has
    <3>2. ASSUME NEW n \in WithSid(q, s)'
          PROVE  \/ state'[q][n] = "closing"
                 \/ /\ Own(tasks'[q], s, n)
                    /\ \/ Has(tasks'[q], "CLOSING", s)
                       \/ Msgs(wire'[q][s], "DATA") \subseteq {n}
      <4>1. CASE q = p
        BY <2>4, <4>1
      <4>2. CASE q # p
        <5>1. /\ tasks'[q] = tasks[q] /\ wire'[q][s] = wire[q][s]
              /\ state'[q][n] = state[q][n] /\ n \in WithSid(q, s)
          BY <2>1, <2>3, <3>0, <4>2
        <5> QED BY <3>0, <5>1 DEF Order
      <4> QED BY <4>1, <4>2
    <3>3. s \notin used'[o] => ~Has(tasks'[o], "DATA", s)
      <4>1. CASE o = p
        BY <2>2, <3>0, <4>1 DEF Order
      <4>2. CASE o # p
        BY <2>3, <3>0, <3>1, <4>2 DEF Order
      <4> QED BY <4>1, <4>2
    <3> QED BY <2>1, <2>3, <3>0, <3>1, <3>2, <3>3 DEF Order
  <2>8. ASSUME NEW o \in Peers, Owns(o, s), lost' = {}
        PROVE  Cross(o, s)'
    <3> DEFINE q == Other(o)
    <3>0. q \in Peers /\ Cross(o, s) /\ lost = {} /\ q # o
      BY <1>1, <1>4, <2>8, TheOther DEF Reaches
    <3>1. Uses(o, s)' => Uses(o, s)
      BY <1>1, <2>3, <3>0 DEF Uses, streamVars
    <3>2. Asked(o, s)' => Asked(o, s)
      BY <1>1 DEF Asked, streamVars
    <3>3. /\ Coming(o, s)' => Coming(o, s)
          /\ ToldOnce(events'[o], "INCOMING_SSN", s)
      BY <1>1, <3>0 DEF Coming, streamVars, Cross
    <3>4. Came(o, s)' => Came(o, s)
      BY <1>1, <2>1 DEF Came, streamVars
    <3>5. Opening(o, s)' \subseteq Opening(o, s)
      BY <2>1, <2>3, <3>0 DEF Opening
    <3>6. Connecting(o, s)' => Connecting(o, s)
      BY <2>3 DEF Connecting
    <3>7. CASE o # p
      <4>1. q = p
        BY <3>7, TheOther
      <4>2. /\ s \in used'[o] <=> s \in used[o]
            /\ WithSid(o, s)' = WithSid(o, s)
            /\ wire'[o][s] = wire[o][s]
        BY <2>3, <3>7
      <4>3. ~Uses(o, s)
        BY <2>5, <4>1 DEF Uses
      <4> QED BY <3>0, <3>1, <3>2, <3>3, <3>4, <3>5, <3>6, <4>2, <4>3
          DEF Cross, Resets
    <3>8. CASE o = p
      <4>1. Came(o, s) /\ Resets(o, s)
        BY <2>2, <3>8 DEF Came, Resets
      <4>2. /\ ~Uses(o, s) /\ ~Asked(o, s) /\ ~Coming(o, s)
            /\ Opening(o, s) = {} /\ ~Connecting(o, s)
            /\ Msgs(wire[o][s], "DATA") = {}
        BY <3>0, <4>1 DEF Cross
      <4>3. ~Came(o, s)'
        <5>1. s \notin incoming_reset_complete'[o]
          BY <1>1, <2>5, <3>8 DEF SignalsInv, Streams, streamVars
        <5> QED BY <2>2, <2>5, <3>8, <5>1 DEF Came, Local
      <4> QED BY <2>3, <3>1, <3>2, <3>3, <3>5, <3>6, <4>2, <4>3
          DEF Cross, Resets
    <3> QED BY <3>7, <3>8
  <2> QED BY <2>6, <2>7, <2>8 DEF Reaches
<1> QED BY <1>1, <1>3, <1>4, SignalsKept

-----------------------------------------------------------------------------
(* The invariant holds at first, and implies the property.                 *)

(* Every id belongs to one endpoint.                                       *)
LEMMA Owner ==
    ASSUME NEW s \in Sids
    PROVE  /\ \E o \in Peers : Owns(o, s)
           /\ \A o, u \in Peers : Owns(o, s) /\ Owns(u, s) => o = u
<1>1. s % 2 \in {0, 1}
  BY SidSet
<1> QED BY <1>1 DEF Owns, Peers

LEMMA SignalsFound == ChannelsInv /\ SignalsInv => SignalsReachTheirChannel
<1> SUFFICES ASSUME ChannelsInv, SignalsInv, NEW p \in Peers, NEW n \in Numbers,
                    tasks[p] # << >>, Head(tasks[p]).sid = sid[n],
                    sid[n] \notin aborted
             PROVE  /\ Head1(p, "DATA") /\ state[p][n] = "open"
                           => Head(tasks[p]).n = n
                    /\ Head1(p, "CLOSED") /\ n \in WithSid(p, sid[n])
                           => state[p][n] = "closing"
  BY DEF SignalsReachTheirChannel
<1> DEFINE T == tasks[p]
           s == sid[n]
<1>1. T \in Seq(GoodTask(p)) /\ T # << >> /\ Head(T) \in GoodTask(p)
  BY HeadIsGood DEF ChannelsInv, TypeInv
<1>2. Head(T).kind \in {"DATA", "CLOSED"} => s \in Sids /\ Reaches(s)
  BY <1>1 DEF GoodTask, TaskType, SignalsInv
<1>3. ASSUME Head(T).kind = "DATA", state[p][n] = "open"
      PROVE  Head(T).n = n
  <2>1. s \in Sids /\ Reaches(s) /\ Is(Head(T), "DATA", s)
    BY <1>2, <1>3 DEF Is
  <2>2. n \in WithSid(p, s)
    BY <1>3 DEF WithSid, sctp_data_channels
  <2>3. PICK o \in Peers : Owns(o, s)
    BY <2>1, Owner
  <2>4. Order(o, s)
    BY <2>1, <2>3 DEF Reaches
  <2> HIDE DEF T, s
  <2>5. CASE p = o
    <3>1. About(T, "DATA", s) \subseteq {n}
      BY <2>2, <2>4, <2>5 DEF Order, T
    <3>2. About(T, "DATA", s) = About(Tail(T), "DATA", s) \cup {Head(T).n}
      BY <1>1, <2>1, TailAbout
    <3> QED BY <3>1, <3>2
  <2>6. CASE p # o
    <3>1. p = Other(o)
      BY <2>6, TheOther
    <3>2. Own(T, s, n)
      BY <1>3, <2>2, <2>4, <3>1 DEF Order, T
    <3> QED BY <1>1, <2>1, <3>2, TailOfHead
  <2> QED BY <2>5, <2>6
<1>4. ASSUME Head(T).kind = "CLOSED", n \in WithSid(p, s)
      PROVE  state[p][n] = "closing"
  <2>1. s \in Sids /\ Local(p, s) /\ Is(Head(T), "CLOSED", s)
    BY <1>2, <1>4 DEF Is, Reaches
  <2>2. ~Warned(T, s)
    BY <1>1, <2>1, TailOfHead
  <2> QED BY <1>4, <2>1, <2>2 DEF Local
<1> QED BY <1>3, <1>4 DEF Head1

LEMMA SignalsInit == Init => SignalsInv
<1> SUFFICES ASSUME Init
             PROVE  SignalsInv
  OBVIOUS
<1>1. \A p \in Peers : /\ tasks[p] = << >> /\ events[p] = << >>
                       /\ known[p] = {} /\ closure_initiated[p] = {}
                       /\ outgoing_reset_initiated[p] = {}
                       /\ outgoing_reset_complete[p] = {}
                       /\ incoming_reset_complete[p] = {}
                       /\ request[p] = {} /\ used[p] = {}
                       /\ \A s \in Sids : wire[p][s] = << >>
  BY DEF Init
<1>2. \A f, s : ~Told(<< >>, f, s) /\ ToldOnce(<< >>, f, s)
  BY DEF Told, ToldOnce
<1>3. \A s, kind : About(<< >>, kind, s) = {} /\ ~Has(<< >>, kind, s)
  BY DEF About, Has
<1>4. \A s : /\ Once(<< >>, s) /\ Ends(<< >>, s) /\ Follow(<< >>, s)
  BY DEF Once, Ends, Follow
<1>5. \A p \in Peers, s \in Sids : WithSid(p, s) = {}
  BY SidSet DEF WithSid, sctp_data_channels, Init
<1>6. \A p \in Peers, s \in Sids : Streams(p, s)
  BY <1>1, <1>2 DEF Streams
<1>7. \A p \in Peers, s \in Sids : Local(p, s)
  BY <1>1, <1>3, <1>4, <1>5 DEF Local
<1>8. ASSUME NEW o \in Peers, NEW s \in Sids
      PROVE  Order(o, s) /\ Cross(o, s)
  <2>1. Other(o) \in Peers
    BY TheOther
  <2>2. Order(o, s)
    BY <1>1, <1>3, <1>4, <1>5, <2>1, NoMessages DEF Order
  <2>3. ~Uses(o, s) /\ ~Resets(o, s) /\ ~Connecting(o, s) /\ Opening(o, s) = {}
    BY <1>1, <1>2, <1>3, <1>5, <2>1, NoMessages
    DEF Uses, Resets, Asked, Coming, Came, Connecting, Opening
  <2>4. Cross(o, s)
    BY <1>1, <1>2, <2>3, NoMessages DEF Cross, Resets
  <2> QED BY <2>2, <2>4
<1> QED BY <1>6, <1>7, <1>8 DEF SignalsInv, Reaches

-----------------------------------------------------------------------------
(* Messages.                                                               *)

(* Streams in use at the two ends.                                         *)
LEMMA OpenUses ==
    ASSUME SignalsInv, NEW o \in Peers, NEW s \in Sids,
           s \in known[Other(o)], S!is_open(Other(o), s)
    PROVE  Uses(o, s)
<1>1. Streams(Other(o), s)
  BY TheOther DEF SignalsInv
<1> QED BY <1>1 DEF Uses, Streams, S!is_open

(* A channel that is not to close has an open stream.                      *)
LEMMA StillOpen ==
    ASSUME NEW u \in Peers, NEW s \in Sids, Local(u, s), NEW m \in WithSid(u, s),
           state[u][m] # "closing", ~Has(tasks[u], "CLOSING", s)
    PROVE  s \in known[u] /\ S!is_open(u, s) /\ ~Has(tasks[u], "CLOSED", s)
<1>1. /\ s \in known[u] \/ Has(tasks[u], "CLOSED", s)
      /\ Warned(tasks[u], s)
      /\ s \in known[u] /\ ~S!is_open(u, s) => Has(tasks[u], "CLOSING", s)
  BY DEF Local
<1>2. ~Has(tasks[u], "CLOSED", s)
  BY <1>1 DEF Warned, Has, About
<1> QED BY <1>1, <1>2

LEMMA CommonChannel ==
    ASSUME ChannelsInv, NEW o \in Peers, NEW s \in Sids, Cross(o, s), Uses(o, s),
           NEW n \in WithSid(o, s), NEW m \in WithSid(Other(o), s)
    PROVE  n = m
<1>1. Other(o) \in Peers
  BY TheOther
<1>2. PICK c : c \in WithSid(o, s) /\ c \in WithSid(Other(o), s)
  BY DEF Cross
<1>3. c = n
  BY <1>2, OneChannel
<1>4. c = m
  BY <1>1, <1>2, OneChannel
<1> QED BY <1>3, <1>4

LEMMA OnlyWire ==
    ASSUME UNCHANGED <<streamVars, state, sid, used, tasks>>
    PROVE  /\ \A u \in Peers, s \in Sids :
                  /\ WithSid(u, s)' = WithSid(u, s)
                  /\ Local(u, s) => Local(u, s)'
                  /\ Uses(u, s)' <=> Uses(u, s)
                  /\ Asked(u, s)' <=> Asked(u, s)
                  /\ Coming(u, s)' <=> Coming(u, s)
                  /\ Came(u, s)' <=> Came(u, s)
                  /\ Connecting(u, s)' <=> Connecting(u, s)
                  /\ ToldOnce(events'[u], "INCOMING_SSN", s) <=>
                         ToldOnce(events[u], "INCOMING_SSN", s)
<1>1. \A u \in Peers, s \in Sids : WithSid(u, s)' = WithSid(u, s)
  BY ListsSame
<1>2. \A u \in Peers, s \in Sids : S!is_open(u, s)' = S!is_open(u, s)
  BY DEF S!is_open, streamVars
<1>3. \A u \in Peers, s \in Sids : Local(u, s) => Local(u, s)'
  BY <1>1, <1>2 DEF Local, streamVars
<1> QED BY <1>1, <1>3 DEF Uses, Asked, Coming, Came, Connecting, streamVars

LEMMA Sent ==
    ASSUME ChannelsInv, NEW p \in Peers, NEW s \in Sids, NEW kind, NEW n,
           SendTo(p, s, kind, n)
    PROVE  \A u \in Peers, r \in Sids : wire'[u][r] =
               IF lost = {} /\ u = Other(p) /\ r = s
               THEN Append(wire[u][r], <<kind, n>>) ELSE wire[u][r]
BY TheOther DEF SendTo, ChannelsInv, TypeInv

LEMMA SendSignals ==
    ASSUME ChannelsInv, SignalsInv, NEW p \in Peers, NEW n \in Numbers,
           AppSend(p, n)
    PROVE  SignalsInv'
<1>1. UNCHANGED <<streamVars, sid, tasks, lost>>
  BY DEF AppSend, CloseAbruptlyWithError, channelVars
<1>2. CASE CloseAbruptlyWithError(p, n) /\ UNCHANGED wire
  <2>1. OnSctpDataChannelClosed(p, n) /\ aborted' = aborted \cup ({sid[n]} \cap Sids)
    BY <1>2 DEF CloseAbruptlyWithError
  <2>2. ASSUME NEW s \in Sids \ aborted'
        PROVE  Plain(s)
    <3>1. s # sid[n]
      BY <2>1
    <3>2. \A u \in Peers :
              /\ s \in used'[u] <=> s \in used[u]
              /\ WithSid(u, s)' = WithSid(u, s)
              /\ \A m \in WithSid(u, s) : state'[u][m] = state[u][m]
      BY <1>1, <2>1, <3>1, OthersKept
    <3> QED BY <1>1, <1>2, <3>2, LooksItself DEF Plain, streamVars
  <2> QED BY <1>1, <2>1, <2>2, PlainStep, SignalsKept
<1>3. CASE /\ sid[n] \in known[p] /\ S!is_open(p, sid[n])
           /\ SendTo(p, sid[n], "DATA", n) /\ UNCHANGED channelVars
  <2> DEFINE q == Other(p)
  <2>0. PICK s \in Sids : s = sid[n]
    BY <1>3 DEF ChannelsInv, TypeInv, StreamTypes
  <2>1. /\ UNCHANGED <<state, used, aborted>> /\ state[p][n] = "open"
        /\ q \in Peers /\ q # p
    BY <1>3, TheOther DEF channelVars, AppSend
  <2>2. \A u \in Peers, r \in Sids : wire'[u][r] =
            IF lost = {} /\ u = q /\ r = s
            THEN Append(wire[u][r], <<"DATA", n>>) ELSE wire[u][r]
    BY <1>1, <1>3, <2>0, Sent
  <2>3. /\ \A r : \A u \in Peers : WithSid(u, r)' = WithSid(u, r)
        /\ n \in WithSid(p, s)
    BY <1>1, <2>0, <2>1, ListsSame DEF WithSid, sctp_data_channels
  <2>4. ASSUME NEW r \in Sids, r # s \/ lost # {}
        PROVE  Plain(r)
    BY <1>1, <2>1, <2>2, <2>3, <2>4, LooksItself DEF Plain, streamVars
  <2>5. ASSUME Reaches(s), lost = {}
        PROVE  Reaches(s)'
    <3> DEFINE W == wire[q][s]
    <3>1. /\ wire'[q][s] = Append(W, <<"DATA", n>>)
          /\ wire'[p][s] = wire[p][s]
          /\ W \in Seq(GoodMessage(q, s))
      BY <2>1, <2>2, <2>5 DEF ChannelsInv, TypeInv
    <3> HIDE DEF W
    <3>2. /\ Msgs(wire'[q][s], "DATA") = Msgs(W, "DATA") \cup {n}
          /\ Msgs(wire'[q][s], "OPEN") = Msgs(W, "OPEN")
          /\ Follows(W) /\ Msgs(W, "OPEN") \subseteq {n} => Follows(wire'[q][s])
      <4>1. PICK k : k = "DATA"
        OBVIOUS
      <4> DEFINE U == Append(W, <<k, n>>)
      <4>2. /\ \A kind : Msgs(U, kind) = IF kind = k THEN Msgs(W, kind) \cup {n}
                                         ELSE Msgs(W, kind)
            /\ Follows(W) /\ (k = "OPEN" => Msgs(W, "OPEN") = {})
                   /\ (k = "DATA" => Msgs(W, "OPEN") \subseteq {n})
                   => Follows(U)
        BY <3>1, AppendMsgs
      <4>3. wire'[q][s] = U
        BY <3>1, <4>1
      <4> HIDE DEF U
      <4> QED BY <4>1, <4>2, <4>3
    <3>3. \A u \in Peers : Local(u, s)'
      BY <1>1, <2>1, <2>5, OnlyWire DEF Reaches
    <3>4. CASE Owns(p, s)
      <4>1. Order(p, s) /\ Cross(p, s) /\ \A o \in Peers : Owns(o, s) => o = p
        BY <2>1, <2>5, <3>4, Owner DEF Reaches
      <4>2. \A m \in Opening(p, s) : m = n
        BY <2>1, <2>3, <4>1, OneChannel DEF Cross
      <4>3. ASSUME NEW m \in WithSid(q, s), state[q][m] # "closing",
                   ~Has(tasks[q], "CLOSING", s)
            PROVE  m = n
        <5>1. s \in known[q] /\ S!is_open(q, s)
          BY <2>1, <2>5, <4>3, StillOpen DEF Reaches
        <5>2. Uses(p, s)
          BY <2>1, <5>1, OpenUses
        <5> QED BY <2>1, <2>3, <4>1, <4>3, <5>2, CommonChannel
      <4>4. Order(p, s)'
        <5>1. Follows(wire'[q][s])
          BY <3>2, <4>1, <4>2 DEF Order, Opening, W
        <5>2. \A m \in About(tasks[q], "OPEN", s) :
                  Msgs(wire'[q][s], "DATA") \subseteq {m}
          BY <3>2, <4>1, <4>2 DEF Order, Opening, W
        <5>3. \A m \in WithSid(q, s) :
                  \/ state[q][m] = "closing"
                  \/ /\ Own(tasks[q], s, m)
                     /\ \/ Has(tasks[q], "CLOSING", s)
                        \/ Msgs(wire'[q][s], "DATA") \subseteq {m}
          BY <3>2, <4>1, <4>3 DEF Order, W
        <5>4. /\ Msgs(wire'[q][s], "OPEN") = Msgs(wire[q][s], "OPEN")
              /\ wire'[p][s] = wire[p][s]
              /\ WithSid(q, s)' = WithSid(q, s) /\ WithSid(p, s)' = WithSid(p, s)
          BY <2>1, <2>3, <3>1, <3>2 DEF W
        <5> QED BY <1>1, <2>1, <4>1, <5>1, <5>2, <5>3, <5>4 DEF Order
      <4>5. Opening(p, s)' = Opening(p, s)
        BY <1>1, <3>2 DEF Opening, W
      <4>6. Cross(p, s)'
        BY <1>1, <2>1, <2>3, <3>1, <4>1, <4>5, OnlyWire DEF Cross, Resets
      <4> QED BY <3>3, <4>1, <4>4, <4>6 DEF Reaches
    <3>5. CASE ~Owns(p, s)
      <4>1. /\ Owns(q, s) /\ Order(q, s) /\ Cross(q, s)
            /\ \A o \in Peers : Owns(o, s) => o = q
        BY <2>1, <2>5, <3>5, Owner, TheOther DEF Reaches
      <4>2. Other(q) = p
        BY TheOther
      <4>3. Uses(q, s)
        BY <1>3, <2>0, <2>1, <4>2, OpenUses
      <4>4. \A m \in WithSid(q, s) : m = n
        BY <2>1, <2>3, <4>1, <4>2, <4>3, CommonChannel
      <4>5. Order(q, s)'
        BY <1>1, <2>1, <2>3, <3>1, <3>2, <4>1, <4>2, <4>4 DEF Order, W
      <4>6. Opening(q, s)' = Opening(q, s)
        BY <1>1, <3>1, <4>2 DEF Opening
      <4>7. Cross(q, s)'
        BY <1>1, <2>1, <2>3, <4>1, <4>2, <4>3, <4>6, OnlyWire DEF Cross, Resets
      <4> QED BY <3>3, <4>1, <4>5, <4>7 DEF Reaches
    <3> QED BY <3>4, <3>5
  <2> QED BY <1>1, <2>1, <2>4, <2>5, PlainStep, SignalsKept
<1> QED BY <1>2, <1>3 DEF AppSend

LEMMA ReceivedSignals ==
    ASSUME ChannelsInv, SignalsInv, NEW p \in Peers, NEW s \in Sids,
           OnDataReceived(p, s)
    PROVE  SignalsInv'
<1>1. /\ UNCHANGED <<streamVars, state, sid, used, aborted, lost>>
      /\ wire[p][s] # << >>
  BY DEF OnDataReceived, channelVars, boundVars
<1>2. PICK k \in {"OPEN", "ACK", "DATA"}, n \in Numbers : Head(wire[p][s]) = <<k, n>>
  BY <1>1, Arrives DEF ChannelsInv, GoodMessage, Message
<1>3. /\ \A u \in Peers : tasks'[u] =
             IF u = p THEN Append(tasks[p], Task(k, s, n)) ELSE tasks[u]
      /\ \A u \in Peers, r \in Sids : wire'[u][r] =
             IF u = p /\ r = s THEN Tail(wire[p][s]) ELSE wire[u][r]
  <2>1. Head(wire[p][s])[1] = k /\ Head(wire[p][s])[2] = n
    BY <1>2
  <2>2. /\ tasks' = [tasks EXCEPT ![p] = Append(@, Task(k, s, n))]
        /\ wire' = [wire EXCEPT ![p][s] = Tail(@)]
    BY <2>1 DEF OnDataReceived, Post
  <2> QED BY <2>2 DEF ChannelsInv, TypeInv
<1>4. lost = {}
  BY <1>1 DEF ChannelsInv, IdInv
<1>5. \A u \in Peers : \A r : WithSid(u, r)' = WithSid(u, r)
  BY <1>1, ListsSame
<1>6. tasks[p] \in Seq(GoodTask(p)) /\ wire[p][s] \in Seq(GoodMessage(p, s))
  BY DEF ChannelsInv, TypeInv
<1>7. ASSUME NEW r \in Sids, r # s
      PROVE  Plain(r)
  <2>1. \A kind : ~Is(Task(k, s, n), kind, r)
    BY <1>7, IsTask
  <2>2. Looks(tasks[p], Append(tasks[p], Task(k, s, n)), r)
    BY <1>6, <2>1, AppendLooks
  <2>3. \A u \in Peers : Looks(tasks[u], tasks'[u], r)
    BY <1>3, <2>2, LooksItself
  <2> QED BY <1>1, <1>3, <1>5, <1>7, <2>3 DEF Plain, streamVars
<1>8. ASSUME Reaches(s)
      PROVE  Reaches(s)'
  <2> DEFINE T == tasks[p]
             U == Append(T, Task(k, s, n))
             W == wire[p][s]
             V == Tail(W)
  <2>1. /\ \A kind : About(U, kind, s) = IF kind = k THEN About(T, kind, s) \cup {n}
                                         ELSE About(T, kind, s)
        /\ Once(T, s) => Once(U, s)
        /\ Warned(T, s) => Warned(U, s)
        /\ \A m : Own(T, s, m) /\ (k = "DATA" => n = m \/ Has(T, "CLOSING", s))
                      => Own(U, s, m)
        /\ Ends(T, s) /\ (k = "DATA" => ~Has(T, "CLOSED", s)) => Ends(U, s)
        /\ Follow(T, s) /\ (k = "OPEN" => ~Has(T, "OPEN", s))
               /\ (k = "DATA" => About(T, "OPEN", s) \subseteq {n})
               => Follow(U, s)
    <3>1. T \in Seq(GoodTask(p))
      BY <1>6
    <3> HIDE DEF T
    <3> QED BY <3>1, AppendOrder
  <2>2. /\ \A kind : Msgs(W, kind) = IF k = kind THEN Msgs(V, kind) \cup {n}
                                     ELSE Msgs(V, kind)
        /\ Follows(W) => Follows(V)
        /\ Follows(W) /\ k = "OPEN" => /\ Msgs(V, "OPEN") = {}
                                       /\ Msgs(V, "DATA") \subseteq {n}
    <3>1. W # << >> /\ Head(W)[1] = k /\ Head(W)[2] = n /\ W \in Seq(GoodMessage(p, s))
      BY <1>1, <1>2, <1>6
    <3> HIDE DEF W
    <3> QED BY <3>1, TailMsgs
  <2>3. /\ tasks'[p] = U /\ wire'[p][s] = V
        /\ \A u \in Peers : u # p => tasks'[u] = tasks[u] /\ wire'[u][s] = wire[u][s]
    BY <1>3
  <2> HIDE DEF U, V
  <2>4. /\ Has(U, "CLOSED", s) <=> Has(T, "CLOSED", s)
        /\ Has(U, "CLOSING", s) <=> Has(T, "CLOSING", s)
        /\ Has(U, "DATA", s) <=> Has(T, "DATA", s) \/ k = "DATA"
        /\ Has(U, "OPEN", s) <=> Has(T, "OPEN", s) \/ k = "OPEN"
    BY <2>1 DEF Has
  <2>5. ASSUME NEW u \in Peers
        PROVE  Local(u, s)'
    <3>1. Local(u, s)
      BY <1>8 DEF Reaches
    <3>2. /\ Has(tasks'[u], "CLOSED", s) <=> Has(tasks[u], "CLOSED", s)
          /\ Has(tasks'[u], "CLOSING", s) <=> Has(tasks[u], "CLOSING", s)
          /\ Once(tasks[u], s) => Once(tasks'[u], s)
          /\ Warned(tasks[u], s) => Warned(tasks'[u], s)
      <4>1. CASE u = p
        BY <2>1, <2>3, <2>4, <4>1
      <4>2. CASE u # p
        BY <2>3, <4>2
      <4> QED BY <4>1, <4>2
    <3>3. S!is_open(u, s)' <=> S!is_open(u, s)
      BY <1>1 DEF S!is_open, streamVars
    <3> QED BY <1>1, <1>5, <3>1, <3>2, <3>3 DEF Local, streamVars
  <2>6. ASSUME NEW o \in Peers, Owns(o, s)
        PROVE  Order(o, s)' /\ Cross(o, s)'
    <3> DEFINE q == Other(o)
    <3>0. q \in Peers /\ q # o /\ Peers = {q, o} /\ Order(o, s) /\ Cross(o, s)
      BY <1>4, <1>8, <2>6, TheOther DEF Reaches
    <3>1. CASE p = q
      <4>0. tasks'[o] = tasks[o] /\ wire'[o][s] = wire[o][s]
        BY <2>3, <3>0, <3>1
      <4>1. Follow(U, s) /\ Follows(V)
        <5>1. k = "OPEN" => ~Has(T, "OPEN", s)
          BY <2>2, <3>0, <3>1 DEF Order
        <5>2. k = "DATA" => About(T, "OPEN", s) \subseteq {n}
          BY <2>2, <3>0, <3>1 DEF Order
        <5> QED BY <2>1, <2>2, <3>0, <3>1, <5>1, <5>2 DEF Order
      <4>2. Has(U, "OPEN", s) => Msgs(V, "OPEN") = {}
        BY <2>2, <2>4, <3>0, <3>1 DEF Order
      <4>3. ASSUME NEW m \in About(U, "OPEN", s)
            PROVE  Msgs(V, "DATA") \subseteq {m}
        <5>1. CASE m \in About(T, "OPEN", s)
          <6>1. Msgs(W, "DATA") \subseteq {m}
            BY <3>0, <3>1, <5>1 DEF Order
          <6> QED BY <2>2, <6>1
        <5>2. CASE k = "OPEN" /\ m = n
          BY <2>2, <3>0, <3>1, <5>2 DEF Order
        <5> QED BY <2>1, <4>3, <5>1, <5>2
      <4>4. ASSUME NEW m \in WithSid(p, s), state[p][m] # "closing"
            PROVE  /\ Own(U, s, m)
                   /\ Has(U, "CLOSING", s) \/ Msgs(V, "DATA") \subseteq {m}
        <5>1. /\ Own(T, s, m)
              /\ Has(T, "CLOSING", s) \/ Msgs(W, "DATA") \subseteq {m}
          BY <3>0, <3>1, <4>4 DEF Order
        <5>2. k = "DATA" => n \in Msgs(W, "DATA")
          BY <2>2
        <5> QED BY <2>1, <2>2, <2>4, <5>1, <5>2
      <4>5. Order(o, s)'
        BY <1>1, <1>5, <2>3, <3>0, <3>1, <4>0, <4>1, <4>2, <4>3, <4>4 DEF Order
      <4>6. Opening(o, s)' \subseteq Opening(o, s)
        BY <2>1, <2>2, <2>3, <3>1 DEF Opening
      <4>7. Came(o, s)' <=> Came(o, s)
        BY <1>1, <4>0 DEF Came, streamVars
      <4>8. Cross(o, s)'
        BY <1>1, <1>5, <3>0, <4>0, <4>6, <4>7
        DEF Cross, Resets, Uses, Asked, Coming, Connecting, streamVars
      <4> QED BY <4>5, <4>8
    <3>2. CASE p = o
      <4>0. tasks'[q] = tasks[q] /\ wire'[q][s] = wire[q][s]
        BY <2>3, <3>0, <3>2
      <4>1. k = "DATA" => n \in Msgs(W, "DATA")
        BY <2>2
      <4>2. k = "DATA" => s \in used[o] /\ ~Has(T, "CLOSED", s)
        BY <3>0, <3>2, <4>1 DEF Cross, Came
      <4>3. Ends(U, s) /\ (s \notin used[o] => ~Has(U, "DATA", s))
        BY <2>1, <2>4, <3>0, <3>2, <4>2 DEF Order
      <4>4. About(U, "DATA", s) \cup Msgs(V, "DATA")
                \subseteq About(T, "DATA", s) \cup Msgs(W, "DATA")
        BY <2>1, <2>2
      <4>5. Order(o, s)'
        BY <1>1, <1>5, <2>3, <3>0, <3>2, <4>0, <4>3, <4>4 DEF Order
      <4>6. Opening(o, s)' = Opening(o, s)
        BY <4>0 DEF Opening
      <4>7. Came(o, s)' <=> Came(o, s)
        BY <1>1, <2>3, <2>4, <3>2 DEF Came, streamVars
      <4>8. Msgs(wire'[o][s], "DATA") \subseteq Msgs(wire[o][s], "DATA")
        BY <2>2, <2>3, <3>2
      <4>9. Cross(o, s)'
        BY <1>1, <1>5, <3>0, <4>6, <4>7, <4>8
        DEF Cross, Resets, Uses, Asked, Coming, Connecting, streamVars
      <4> QED BY <4>5, <4>9
    <3> QED BY <3>0, <3>1, <3>2
  <2> QED BY <2>5, <2>6 DEF Reaches
<1> QED BY <1>1, <1>7, <1>8, PlainStep, SignalsKept

-----------------------------------------------------------------------------
(* Channels and streams that are opened.                                   *)

LEMMA SignalsOpened ==
    ASSUME SignalsInv,
           UNCHANGED <<closure_initiated, outgoing_reset_initiated,
                       outgoing_reset_complete, incoming_reset_complete,
                       request, performed, events, aborted>>,
           \A u \in Peers : known[u] \subseteq known'[u],
           \A s \in Sids \ aborted : Reaches(s) => Reaches(s)'
    PROVE  SignalsInv'
<1>1. \A u \in Peers, s \in Sids : Streams(u, s)'
  BY StreamsStay DEF SignalsInv
<1> QED BY <1>1 DEF SignalsInv

(* A stream whose id is not in use is fresh.                               *)
LEMMA Fresh ==
    ASSUME ChannelsInv, SignalsInv, NEW u \in Peers, NEW s \in Sids, Reaches(s),
           s \notin used[u]
    PROVE  /\ s \notin known[u] /\ WithSid(u, s) = {} /\ S!is_open(u, s)
           /\ ~Has(tasks[u], "CLOSED", s) /\ Warned(tasks[u], s)
<1>1. s \notin known[u] /\ ~Has(tasks[u], "CLOSED", s)
  BY DEF Reaches, Local
<1>2. WithSid(u, s) = {}
  BY OneChannel
<1>3. S!is_open(u, s)
  BY <1>1 DEF SignalsInv, Streams, S!is_open
<1>4. Warned(tasks[u], s)
  BY <1>1 DEF Warned, Has, About
<1> QED BY <1>1, <1>2, <1>3, <1>4

LEMMA OpenSignals ==
    ASSUME ChannelsInv, SignalsInv, NEW p \in Peers, HandleOpenMessage(p)
    PROVE  SignalsInv'
<1> DEFINE o == Other(p)
<1>1. /\ tasks[p] # << >> /\ Head(tasks[p]).kind = "OPEN"
      /\ Head(tasks[p]) \in GoodTask(p) /\ tasks[p] \in Seq(GoodTask(p))
  BY HeadIsGood DEF HandleOpenMessage, Head1, ChannelsInv, TypeInv
<1>2. PICK s \in Sids, n \in Numbers :
          /\ s = Head(tasks[p]).sid /\ n = Head(tasks[p]).n
          /\ sid[n] = s /\ n \in Channels[o]
  BY <1>1 DEF GoodTask, TaskType
<1>3. CASE s \in used[p]
  <2>1. /\ tasks' = [tasks EXCEPT ![p] = Tail(@)]
        /\ UNCHANGED <<streamVars, state, sid, used, aborted, wire, lost>>
    BY <1>2, <1>3 DEF HandleOpenMessage, channelVars, boundVars
  <2>2. \A r : \A u \in Peers : Looks(tasks[u], tasks'[u], r)
    BY <1>1, <2>1, TasksAfterPop DEF Is
  <2>3. \A u \in Peers : \A r : WithSid(u, r)' = WithSid(u, r)
    BY <2>1, ListsSame
  <2>4. \A r \in Sids : Plain(r)
    BY <2>1, <2>2, <2>3 DEF Plain, streamVars
  <2> QED BY <2>1, <2>4, PlainStep, SignalsKept
<1>4. CASE s \notin used[p]
  <2> DEFINE t == Task("READY", s, n)
  <2>1. /\ used' = [used EXCEPT ![p] = @ \cup {s}]
        /\ state' = [state EXCEPT ![p][n] = "connecting"]
        /\ Opened(p, [c \in {n} |-> s])
        /\ tasks' = [tasks EXCEPT ![p] = Append(Tail(@), t)]
        /\ UNCHANGED <<sid, aborted, wire, lost>>
    BY <1>2, <1>4 DEF HandleOpenMessage, boundVars
  <2>2. /\ known' = [known EXCEPT ![p] = @ \cup {s}]
        /\ UNCHANGED <<closure_initiated, outgoing_reset_initiated,
                       outgoing_reset_complete, incoming_reset_complete,
                       request, performed, events>>
    BY <2>1 DEF Opened
  <2>3. /\ \A u \in Peers : used'[u] = IF u = p THEN used[u] \cup {s} ELSE used[u]
        /\ \A u \in Peers : known'[u] = IF u = p THEN known[u] \cup {s} ELSE known[u]
        /\ \A u \in Peers, m \in Numbers : state'[u][m] =
               IF u = p /\ m = n THEN "connecting" ELSE state[u][m]
        /\ \A u \in Peers : tasks'[u] =
               IF u = p THEN Append(Tail(tasks[p]), t) ELSE tasks[u]
    BY <2>1, <2>2 DEF ChannelsInv, TypeInv, StreamTypes
  <2>4. \A u \in Peers : \A r : WithSid(u, r)' =
            IF u = p /\ r = s THEN WithSid(u, r) \cup {n} ELSE WithSid(u, r)
    <3>1. state[p][n] \notin Listed
      <4>1. WithSid(p, s) = {}
        BY <1>4, OneChannel
      <4> QED BY <1>2, <4>1 DEF WithSid, sctp_data_channels, Listed
    <3> QED BY <1>2, <2>1, <2>3, <3>1 DEF WithSid, sctp_data_channels, Listed
  <2>5. Tail(tasks[p]) \in Seq(GoodTask(p))
    BY <1>1, HeadTailProperties
  <2>6. \A kind \in {"OPEN", "DATA", "CLOSING", "CLOSED"} : \A r : ~Is(t, kind, r)
    BY IsTask
  <2> HIDE DEF t
  <2>7. ASSUME NEW r
        PROVE  /\ Looks(Tail(tasks[p]), tasks'[p], r)
               /\ \A u \in Peers : Looks(tasks[u], tasks'[u], r)
    <3>1. Looks(Tail(tasks[p]), Append(Tail(tasks[p]), t), r)
      BY <2>5, <2>6, AppendLooks
    <3>2. Looks(tasks[p], Tail(tasks[p]), r)
      BY <1>1, PopLooks DEF Is
    <3>3. Looks(Tail(tasks[p]), tasks'[p], r)
      BY <2>3, <3>1
    <3>4. Looks(tasks[p], tasks'[p], r)
      BY <3>2, <3>3, LooksOn
    <3> QED BY <2>3, <3>3, <3>4, LooksItself
  <2>8. ASSUME NEW r \in Sids, r # s
        PROVE  Plain(r)
    <3>1. \A u \in Peers : WithSid(u, r)' = WithSid(u, r)
      BY <2>4, <2>8
    <3>2. \A u \in Peers : \A m \in WithSid(u, r) : state'[u][m] = state[u][m]
      BY <1>2, <2>3, <2>8, IsListed
    <3> QED BY <2>1, <2>2, <2>3, <2>7, <2>8, <3>1, <3>2 DEF Plain
  <2>9. ASSUME Reaches(s)
        PROVE  Reaches(s)'
    <3>0. /\ o \in Peers /\ Other(o) = p /\ o # p /\ Peers = {o, p}
          /\ Owns(o, s) /\ \A u \in Peers : Owns(u, s) => u = o
      <4>1. o \in Peers /\ sid[n] >= 0
        BY <1>2, TheOther, SidSet
      <4>2. Owns(o, s)
        BY <1>2, <4>1 DEF ChannelsInv, IdInv, Owns
      <4> QED BY <4>1, <4>2, Owner, TheOther
    <3>1. /\ s \notin known[p] /\ WithSid(p, s) = {} /\ S!is_open(p, s)
          /\ ~Has(tasks[p], "CLOSED", s) /\ Warned(tasks[p], s)
      BY <1>4, <2>9, Fresh
    <3>2. WithSid(p, s)' = {n} /\ WithSid(o, s)' = WithSid(o, s)
      BY <2>4, <3>0, <3>1
    <3>3. \A u \in Peers : S!is_open(u, s)' <=> S!is_open(u, s)
      BY <2>2 DEF S!is_open
    <3>4. /\ Looks(tasks[p], tasks'[p], s) /\ tasks'[o] = tasks[o]
          /\ state'[o] = state[o] /\ used'[o] = used[o] /\ known'[o] = known[o]
      BY <2>1, <2>2, <2>3, <2>7, <3>0 DEF ChannelsInv, TypeInv, StreamTypes
    <3>5. Local(o, s)'
      <4>1. Local(o, s) /\ Looks(tasks[o], tasks'[o], s)
        BY <2>9, <3>0, <3>4, LooksItself DEF Reaches
      <4> QED BY <3>0, <3>2, <3>3, <3>4, <4>1, LocalStays
    <3>6. Local(p, s)'
      <4>1. s \in known'[p] /\ s \in used'[p] /\ S!is_open(p, s)'
        BY <2>3, <3>1, <3>3
      <4>2. /\ ~Has(tasks'[p], "CLOSED", s) /\ Warned(tasks'[p], s)
            /\ Once(tasks'[p], s)
        BY <2>9, <3>1, <3>4 DEF Looks, Reaches, Local
      <4> QED BY <4>1, <4>2 DEF Local
    <3>7. /\ Is(Head(tasks[p]), "OPEN", s) /\ n \in About(tasks[p], "OPEN", s)
          /\ Has(tasks[p], "OPEN", s)
      <4>1. Is(Head(tasks[p]), "OPEN", s)
        BY <1>1, <1>2 DEF Is
      <4>2. About(tasks[p], "OPEN", s) =
                About(Tail(tasks[p]), "OPEN", s) \cup {Head(tasks[p]).n}
        BY <1>1, <4>1, TailAbout
      <4> QED BY <1>2, <4>1, <4>2 DEF Has
    <3>8. About(tasks'[p], "OPEN", s) = {} /\ About(tasks'[p], "DATA", s) \subseteq {n}
      <4>1. Follow(tasks[p], s)
        BY <2>9, <3>0 DEF Reaches, Order
      <4>2. /\ ~Has(Tail(tasks[p]), "OPEN", s)
            /\ About(Tail(tasks[p]), "DATA", s) \subseteq {Head(tasks[p]).n}
        BY <1>1, <3>7, <4>1, TailOfHead
      <4> QED BY <1>2, <2>7, <4>2 DEF Looks, Has
    <3>9. Order(o, s)'
      <4>1. Order(o, s)
        BY <2>9, <3>0 DEF Reaches
      <4>2. Own(tasks'[p], s, n)
        BY <3>8 DEF Own, About
      <4>3. Follow(tasks'[p], s)
        BY <3>0, <3>4, <4>1 DEF Order, Looks
      <4>4. Msgs(wire[p][s], "DATA") \subseteq {n}
        BY <3>0, <3>7, <4>1 DEF Order
      <4>5. ~Has(tasks'[p], "OPEN", s)
        BY <3>8 DEF Has
      <4> QED BY <2>1, <3>0, <3>2, <3>4, <3>8, <4>1, <4>2, <4>3, <4>4, <4>5 DEF Order
    <3>10. ASSUME lost' = {}
           PROVE  Cross(o, s)'
      <4>1. Cross(o, s) /\ Order(o, s) /\ lost = {}
        BY <2>1, <2>9, <3>0, <3>10 DEF Reaches
      <4>2. n \in Opening(o, s)
        BY <3>0, <3>7 DEF Opening
      <4>3. /\ ~Resets(o, s) /\ s \in used[o] /\ ~Connecting(o, s)
            /\ n \in WithSid(o, s)
        BY <4>1, <4>2 DEF Cross
      <4>4. Opening(o, s)' = {}
        BY <2>1, <3>0, <3>7, <3>8, <4>1 DEF Opening, Order
      <4>5. ~Resets(o, s)'
        BY <2>2, <3>4, <4>3 DEF Resets, Asked, Coming, Came
      <4>6. ~Connecting(o, s)'
        BY <3>2, <3>4, <4>3 DEF Connecting
      <4>7. ToldOnce(events'[o], "INCOMING_SSN", s)
        BY <2>2, <4>1 DEF Cross
      <4>8. n \in WithSid(o, s)' \cap WithSid(p, s)'
        BY <3>2, <4>3
      <4> QED BY <3>0, <3>4, <4>3, <4>4, <4>5, <4>6, <4>7, <4>8 DEF Cross, Resets
    <3> QED BY <3>0, <3>5, <3>6, <3>9, <3>10 DEF Reaches
  <2>10. \A u \in Peers : known[u] \subseteq known'[u]
    BY <2>3
  <2> QED BY <2>1, <2>2, <2>8, <2>9, <2>10, PlainStep, SignalsOpened
<1> QED BY <1>3, <1>4

(* Channels get their ids and open their streams.                          *)
LEMMA IdentifiedSignals ==
    ASSUME ChannelsInv, SignalsInv, NEW p \in Peers, NEW ids,
           DOMAIN ids \subseteq Channels[p],
           \A n \in DOMAIN ids : /\ ids[n] \in Sids \ used[p]
                                 /\ ids[n] % 2 = p - 1
                                 /\ sid[n] = -1,
           Identified(ids), Opened(p, ids), PostAll(p, Ready(ids)),
           used' = [used EXCEPT ![p] = @ \cup {ids[n] : n \in DOMAIN ids}],
           \A n \in Numbers \ DOMAIN ids :
               sid[n] \in Sids => state'[p][n] = state[p][n],
           \A n \in Numbers : state'[Other(p)][n] = state[Other(p)][n],
           UNCHANGED <<aborted, wire, lost>>
    PROVE  SignalsInv'
<1> DEFINE q == Other(p)
           new == {ids[n] : n \in DOMAIN ids}
<1>0. /\ q \in Peers /\ q # p /\ Other(q) = p /\ Peers = {p, q}
      /\ Channels[p] \subseteq Numbers /\ IsFiniteSet(Numbers)
  BY TheOther, ChannelSets
<1>1. /\ known' = [known EXCEPT ![p] = @ \cup new]
      /\ UNCHANGED <<closure_initiated, outgoing_reset_initiated,
                     outgoing_reset_complete, incoming_reset_complete,
                     request, performed, events>>
  BY DEF Opened
<1>2. /\ \A u \in Peers : used'[u] = IF u = p THEN used[u] \cup new ELSE used[u]
      /\ \A u \in Peers : known'[u] = IF u = p THEN known[u] \cup new ELSE known[u]
      /\ \A n \in Numbers : sid'[n] = IF n \in DOMAIN ids THEN ids[n] ELSE sid[n]
  BY <1>1 DEF ChannelsInv, TypeInv, StreamTypes, Identified
<1>3. \A n \in DOMAIN ids : n \in Numbers /\ ids[n] \in new /\ sid[n] \notin Sids
  BY <1>0, SidSet
<1>4. ASSUME NEW r
      PROVE  /\ \A u \in Peers : Looks(tasks[u], tasks'[u], r)
             /\ tasks'[q] = tasks[q]
  <2>1. IsFiniteSet(DOMAIN ids)
    <3> DEFINE D == DOMAIN ids
    <3>1. D \in SUBSET Numbers
      BY <1>0
    <3> HIDE DEF D
    <3>2. IsFiniteSet(D)
      BY <1>0, <3>1, FS_Subset
    <3> QED BY <3>2 DEF D
  <2>2. PICK Q \in Seq(Ready(ids)) : tasks' = [tasks EXCEPT ![p] = @ \o Q]
    BY <2>1, FiniteReady, PostedAll
  <2>3. \A u \in Peers : tasks'[u] = IF u = p THEN tasks[p] \o Q ELSE tasks[u]
    BY <2>2 DEF ChannelsInv, TypeInv
  <2>4. tasks[p] \in Seq(GoodTask(p))
    BY DEF ChannelsInv, TypeInv
  <2>5. Looks(tasks[p], tasks[p] \o Q, r)
    BY <2>4, ReadyLooks
  <2> QED BY <1>0, <2>3, <2>5, LooksItself
<1>5. \A r \in Sids : /\ WithSid(q, r)' = WithSid(q, r)
                      /\ \A n \in WithSid(q, r) : state'[q][n] = state[q][n]
  <2>1. \A n \in DOMAIN ids : state[q][n] = "none"
    BY <1>0 DEF ChannelsInv, IdInv
  <2> QED BY <1>2, <1>3, <2>1 DEF WithSid, sctp_data_channels
<1>6. \A r \in Sids \ new : /\ WithSid(p, r)' = WithSid(p, r)
                            /\ \A n \in WithSid(p, r) : state'[p][n] = state[p][n]
  <2>1. ASSUME NEW r \in Sids \ new, NEW n \in Numbers
        PROVE  /\ sid'[n] = r <=> sid[n] = r
               /\ sid[n] = r => state'[p][n] = state[p][n]
    BY <1>2, <1>3
  <2> HIDE DEF new
  <2>2. ASSUME NEW r \in Sids \ new
        PROVE  WithSid(p, r)' = WithSid(p, r)
    BY <2>1 DEF WithSid, sctp_data_channels
  <2>3. ASSUME NEW r \in Sids \ new, NEW n \in WithSid(p, r)
        PROVE  state'[p][n] = state[p][n]
    BY <2>1, IsListed
  <2> QED BY <2>2, <2>3
<1>7. \A s \in new : s \in Sids \ used[p] /\ Owns(p, s)
  BY DEF Owns
<1> HIDE DEF new
<1>8. ASSUME NEW r \in Sids \ new
      PROVE  Plain(r)
  BY <1>0, <1>1, <1>2, <1>4, <1>5, <1>6 DEF Plain
<1>9. ASSUME NEW s \in new, Reaches(s)
      PROVE  Reaches(s)'
  <2>0. s \in Sids /\ Owns(p, s) /\ \A u \in Peers : Owns(u, s) => u = p
    BY <1>7, Owner
  <2>1. s \in known'[p] /\ s \in used'[p]
    <3>1. known'[p] = known[p] \cup new /\ used'[p] = used[p] \cup new
      BY <1>2, Zenon
    <3> QED BY <3>1, Zenon
  <2>2. /\ s \notin known[p] /\ WithSid(p, s) = {} /\ S!is_open(p, s)
        /\ ~Has(tasks[p], "CLOSED", s) /\ Warned(tasks[p], s)
    BY <1>7, <1>9, Fresh
  <2>3. \A u \in Peers : S!is_open(u, s)' <=> S!is_open(u, s)
    BY <1>1 DEF S!is_open
  <2>4. Local(q, s)'
    <3>1. Local(q, s) /\ Looks(tasks[q], tasks'[q], s)
      BY <1>0, <1>4, <1>9 DEF Reaches
    <3> QED BY <1>0, <1>2, <1>5, <2>0, <2>3, <3>1, LocalStays
  <2>5. Local(p, s)'
    <3>1. s \in known'[p] /\ s \in used'[p] /\ S!is_open(p, s)'
      BY <2>2, <2>3, <2>1, Zenon
    <3>2. /\ ~Has(tasks'[p], "CLOSED", s) /\ Warned(tasks'[p], s)
          /\ Once(tasks'[p], s)
      BY <1>4, <1>9, <2>2 DEF Looks, Reaches, Local
    <3> QED BY <3>1, <3>2 DEF Local
  <2>6. Order(p, s)'
    <3>1. Order(p, s) /\ (lost = {} => Cross(p, s))
      BY <1>9, <2>0 DEF Reaches
    <3>2. About(tasks'[p], "DATA", s) = {}
      <4>1. About(tasks[p], "DATA", s) = {}
        BY <1>7, <3>1 DEF Order, Has
      <4> QED BY <1>4, <4>1 DEF Looks
    <3>3. Msgs(wire[p][s], "DATA") = {}
      <4>1. CASE lost = {}
        BY <1>7, <3>1, <4>1 DEF Cross
      <4>2. CASE lost # {}
        <5>1. wire[p][s] = << >>
          BY <2>0, <4>2 DEF ChannelsInv, IdInv
        <5> QED BY <5>1, NoMessages
      <4> QED BY <4>1, <4>2
    <3>4. Ends(tasks'[p], s)
      BY <1>4, <3>1 DEF Looks, Order
    <3>5. s \in used'[p] /\ tasks'[q] = tasks[q]
      BY <1>4, <2>1
    <3> QED BY <1>0, <1>5, <2>0, <3>1, <3>2, <3>3, <3>4, <3>5 DEF Order
  <2>7. ASSUME lost' = {}
        PROVE  Cross(p, s)'
    <3>1. Cross(p, s)
      BY <1>9, <2>0, <2>7 DEF Reaches
    <3>2. ~Uses(p, s) /\ ~Resets(p, s) /\ Opening(p, s) = {}
      BY <1>7, <3>1 DEF Cross
    <3>3. ~Uses(p, s)'
      BY <1>0, <1>1, <1>2, <3>2 DEF Uses
    <3>4. Has(tasks'[p], "CLOSED", s) <=> Has(tasks[p], "CLOSED", s)
      BY <1>4 DEF Looks
    <3>5. ~Resets(p, s)'
      BY <1>1, <3>2, <3>4 DEF Resets, Asked, Coming, Came
    <3>6. Opening(p, s)' = {}
      BY <1>4, <3>2 DEF Opening
    <3>7. ToldOnce(events'[p], "INCOMING_SSN", s) /\ s \in used'[p]
      BY <1>1, <2>1, <3>1 DEF Cross
    <3> QED BY <3>3, <3>5, <3>6, <3>7 DEF Cross, Resets
  <2> QED BY <1>0, <2>0, <2>4, <2>5, <2>6, <2>7 DEF Reaches
<1>10. \A u \in Peers : known[u] \subseteq known'[u]
  BY <1>2
<1> QED BY <1>1, <1>8, <1>9, <1>10, PlainStep, SignalsOpened

LEMMA AllocateSignals ==
    ASSUME ChannelsInv, SignalsInv, NEW p \in Peers, AllocateSctpSids(p)
    PROVE  SignalsInv'
<1> DEFINE want == {n \in sctp_data_channels(p) : sid[n] = -1}
           ids == AllocateSid(p, want)
<1>1. /\ Identified(ids) /\ Opened(p, ids) /\ PostAll(p, Ready(ids))
      /\ used' = [used EXCEPT ![p] = @ \cup {ids[n] : n \in DOMAIN ids}]
      /\ state' = [state EXCEPT ![p] = [n \in Numbers |->
             IF n \in want \ DOMAIN ids THEN "closed" ELSE @[n]]]
      /\ UNCHANGED <<aborted, wire, lost>>
  BY DEF AllocateSctpSids, boundVars
<1>2. want \subseteq Numbers /\ \A n \in want : sid[n] = -1 /\ state[p][n] # "none"
  BY DEF sctp_data_channels
<1>3. want \subseteq Channels[p]
  <2> SUFFICES ASSUME NEW n \in want, n \notin Channels[p]
               PROVE  FALSE
    OBVIOUS
  <2>1. n \in Channels[Other(p)] /\ Other(p) \in Peers /\ Other(Other(p)) = p
    BY <1>2, ChannelSets, TheOther
  <2>2. sid[n] >= 0
    BY <1>2, <2>1 DEF ChannelsInv, IdInv
  <2> QED BY <1>2, <2>2
<1>4. /\ DOMAIN ids \subseteq want
      /\ \A n \in DOMAIN ids : ids[n] \in Sids \ used[p] /\ ids[n] % 2 = p - 1
  BY <1>2, Allocated
<1>5. \A u \in Peers, n \in Numbers : state'[u][n] =
          IF u = p /\ n \in want \ DOMAIN ids THEN "closed" ELSE state[u][n]
  BY <1>1 DEF ChannelsInv, TypeInv
<1> HIDE DEF want, ids
<1>6. \A n \in Numbers \ DOMAIN ids : sid[n] \in Sids => state'[p][n] = state[p][n]
  BY <1>2, <1>5, SidSet
<1>7. \A n \in Numbers : state'[Other(p)][n] = state[Other(p)][n]
  BY <1>5, TheOther
<1>8. DOMAIN ids \subseteq Channels[p] /\ \A n \in DOMAIN ids : sid[n] = -1
  BY <1>2, <1>3, <1>4
<1> QED BY <1>1, <1>4, <1>6, <1>7, <1>8, IdentifiedSignals

LEMMA CreateSignals ==
    ASSUME ChannelsInv, SignalsInv, NEW p \in Peers, NEW n \in Numbers,
           CreateDataChannel(p, n)
    PROVE  SignalsInv'
<1> DEFINE ids == AllocateSid(p, {n})
<1>1. /\ n \in Channels[p] /\ state[p][n] = "none" /\ n \in DOMAIN ids
      /\ Identified(ids) /\ Opened(p, ids) /\ PostAll(p, Ready(ids))
      /\ used' = [used EXCEPT ![p] = @ \cup {ids[n]}]
      /\ state' = [state EXCEPT ![p][n] = "connecting"]
      /\ UNCHANGED <<aborted, wire, lost>>
  BY DEF CreateDataChannel, boundVars
<1>2. /\ DOMAIN ids \subseteq {n}
      /\ \A m \in DOMAIN ids : ids[m] \in Sids \ used[p] /\ ids[m] % 2 = p - 1
  BY Allocated
<1>3. sid[n] = -1
  BY <1>1 DEF ChannelsInv, IdInv
<1>4. \A u \in Peers, m \in Numbers : state'[u][m] =
          IF u = p /\ m = n THEN "connecting" ELSE state[u][m]
  BY <1>1 DEF ChannelsInv, TypeInv
<1> HIDE DEF ids
<1>5. DOMAIN ids = {n}
  BY <1>1, <1>2
<1>6. {ids[m] : m \in DOMAIN ids} = {ids[n]}
  BY <1>5
<1>7. used' = [used EXCEPT ![p] = @ \cup {ids[m] : m \in DOMAIN ids}]
  BY <1>1, <1>6
<1>8. \A m \in Numbers \ DOMAIN ids : sid[m] \in Sids => state'[p][m] = state[p][m]
  BY <1>4, <1>5
<1>9. \A m \in Numbers : state'[Other(p)][m] = state[Other(p)][m]
  BY <1>4, TheOther
<1>10. DOMAIN ids \subseteq Channels[p] /\ \A m \in DOMAIN ids : sid[m] = -1
  BY <1>1, <1>3, <1>5
<1> QED BY <1>1, <1>2, <1>7, <1>8, <1>9, <1>10, IdentifiedSignals

-----------------------------------------------------------------------------
(* Channels that close, and channels that are ready.                       *)

(* SendQueuedStreamResets asks for the reset of the streams in A.          *)
LEMMA QueuedResets ==
    ASSUME StreamTypes, NEW p \in Peers, NEW need, NEW initiated,
           S!SendQueuedStreamResets(p, need, initiated)
    PROVE  \E A \in SUBSET need :
               \A u \in Peers :
                   /\ request'[u] = IF u = p THEN request[u] \cup A ELSE request[u]
                   /\ outgoing_reset_initiated'[u] =
                          IF u = p THEN initiated \cup A
                          ELSE outgoing_reset_initiated[u]
<1> DEFINE sendable == need # {} /\ [v \in Peers |-> TRUE][p] /\ request[p] = {}
           A == IF sendable THEN need ELSE {}
<1>1. /\ request' = [request EXCEPT ![p] = IF sendable THEN need ELSE @]
      /\ outgoing_reset_initiated' = [outgoing_reset_initiated EXCEPT
             ![p] = IF sendable THEN initiated \cup need ELSE initiated]
  BY DEF S!SendQueuedStreamResets
<1>2. sendable => request[p] = {}
  OBVIOUS
<1> HIDE DEF sendable
<1>3. A \in SUBSET need
  OBVIOUS
<1>4. \A u \in Peers :
          /\ request'[u] = IF u = p THEN request[u] \cup A ELSE request[u]
          /\ outgoing_reset_initiated'[u] =
                 IF u = p THEN initiated \cup A ELSE outgoing_reset_initiated[u]
  BY <1>1, <1>2 DEF StreamTypes
<1> QED BY <1>3, <1>4

(* The peer of o asks for the reset of a stream it uses.                   *)
LEMMA AskedCross ==
    ASSUME NEW o \in Peers, NEW s \in Sids, Cross(o, s), Uses(o, s), ~Uses(o, s)',
           Coming(o, s)' => Coming(o, s), Came(o, s)' => Came(o, s),
           ToldOnce(events'[o], "INCOMING_SSN", s),
           s \in used[o] => s \in used'[o],
           Opening(o, s)' \subseteq Opening(o, s),
           Connecting(o, s)' => Connecting(o, s)
    PROVE  Cross(o, s)'
BY DEF Cross, Resets

LEMMA ResetOfStream ==
    ASSUME StreamTypes, NEW p \in Peers, NEW s \in Sids, S!ResetStream(p, s)
    PROVE  /\ s \in known[p]
           /\ UNCHANGED <<known, outgoing_reset_complete, incoming_reset_complete,
                          performed, events>>
           /\ \A u \in Peers, r \in Sids :
                  r \in closure_initiated'[u] <=>
                      r \in closure_initiated[u] \/ (u = p /\ r = s)
           /\ \E A \in SUBSET Sids :
                  /\ \A u \in Peers, r \in Sids :
                         /\ r \in request'[u] <=>
                                r \in request[u] \/ (u = p /\ r \in A)
                         /\ r \in outgoing_reset_initiated'[u] <=>
                                \/ r \in outgoing_reset_initiated[u]
                                \/ u = p /\ r \in A
                  /\ \A r \in A :
                         /\ r \notin outgoing_reset_initiated[p]
                         /\ \/ r = s
                            \/ r \in closure_initiated[p] \cup incoming_reset_complete[p]
<1> DEFINE need == S!need_outgoing_reset(p) \cup ({s} \ outgoing_reset_initiated[p])
           initiated == outgoing_reset_initiated[p]
<1>1. /\ s \in known[p]
      /\ closure_initiated' = [closure_initiated EXCEPT ![p] = @ \cup {s}]
      /\ UNCHANGED <<known, outgoing_reset_complete, incoming_reset_complete,
                     performed, events>>
      /\ S!SendQueuedStreamResets(p, need, initiated)
  BY DEF S!ResetStream
<1>2. \A r \in need :
          /\ r \in Sids /\ r \notin outgoing_reset_initiated[p]
          /\ r = s \/ r \in closure_initiated[p] \cup incoming_reset_complete[p]
  BY DEF S!need_outgoing_reset, StreamTypes
<1> HIDE DEF need
<1>3. PICK A \in SUBSET need :
          \A u \in Peers :
              /\ request'[u] = IF u = p THEN request[u] \cup A ELSE request[u]
              /\ outgoing_reset_initiated'[u] =
                     IF u = p THEN initiated \cup A
                     ELSE outgoing_reset_initiated[u]
  BY <1>1, QueuedResets
<1>4. \A u \in Peers, r \in Sids :
          r \in closure_initiated'[u] <=>
              r \in closure_initiated[u] \/ (u = p /\ r = s)
  BY <1>1 DEF StreamTypes
<1>5. A \in SUBSET Sids /\ \A r \in A : r \in need
  BY <1>2
<1> QED BY <1>1, <1>2, <1>3, <1>4, <1>5

(* Channels, tasks and messages keep what is claimed of them.              *)
Holds ==
    /\ UNCHANGED <<sid, used, wire, lost, aborted>>
    /\ \A u \in Peers, r \in Sids :
           /\ WithSid(u, r)' = WithSid(u, r)
           /\ Looks(tasks[u], tasks'[u], r)
           /\ \A m \in WithSid(u, r) :
                  /\ state[u][m] = "closing" => state'[u][m] = "closing"
                  /\ state'[u][m] = "connecting" => state[u][m] = "connecting"

LEMMA ResetSignals ==
    ASSUME ChannelsInv, SignalsInv, NEW p \in Peers, NEW s \in Sids,
           S!ResetStream(p, s),
           Holds,
           \A m \in WithSid(p, s) : state'[p][m] = "closing"
    PROVE  SignalsInv'
<1>1. /\ s \in known[p]
      /\ UNCHANGED <<known, outgoing_reset_complete, incoming_reset_complete,
                     performed, events>>
      /\ \A u \in Peers, r \in Sids :
             r \in closure_initiated'[u] <=>
                 r \in closure_initiated[u] \/ (u = p /\ r = s)
  BY ResetOfStream DEF ChannelsInv, TypeInv
<1>2. PICK A \in SUBSET Sids :
          /\ \A u \in Peers, r \in Sids :
                 /\ r \in request'[u] <=> r \in request[u] \/ (u = p /\ r \in A)
                 /\ r \in outgoing_reset_initiated'[u] <=>
                        r \in outgoing_reset_initiated[u] \/ (u = p /\ r \in A)
          /\ \A r \in A :
                 /\ r \notin outgoing_reset_initiated[p]
                 /\ \/ r = s
                    \/ r \in closure_initiated[p] \cup incoming_reset_complete[p]
  BY ResetOfStream DEF ChannelsInv, TypeInv
<1>3. UNCHANGED <<sid, used, wire, lost, aborted>>
  BY DEF Holds
<1>4. \A r \in A : r \in known[p]
  BY <1>1, <1>2 DEF SignalsInv, Streams
<1>5. ASSUME NEW u \in Peers, NEW r \in Sids
      PROVE  Streams(u, r)'
  <2>1. Streams(u, r)
    BY DEF SignalsInv
  <2>2. CASE u = p
    BY <1>1, <1>2, <2>1, <2>2 DEF Streams
  <2>3. CASE u # p
    BY <1>1, <1>2, <2>1, <2>3 DEF Streams
  <2> QED BY <2>2, <2>3
<1>6. ASSUME NEW r \in Sids, Reaches(r)
      PROVE  Reaches(r)'
  <2>1. ASSUME NEW u \in Peers
        PROVE  Local(u, r)'
    <3>1. Local(u, r)
      BY <1>6 DEF Reaches
    <3>2. CASE u # p \/ r # s
      <4>1. S!is_open(u, r)' <=> S!is_open(u, r)
        BY <1>1, <3>2 DEF S!is_open
      <4> QED BY <1>1, <3>1, <4>1, LocalStays DEF Holds
    <3>3. CASE u = p /\ r = s
      <4>1. /\ Has(tasks'[p], "CLOSED", s) <=> Has(tasks[p], "CLOSED", s)
            /\ Once(tasks[p], s) => Once(tasks'[p], s)
        BY DEF Looks, Holds
      <4>2. WithSid(p, s)' = WithSid(p, s)
        BY DEF Holds
      <4> QED BY <1>1, <1>3, <3>1, <3>3, <4>1, <4>2 DEF Local
    <3> QED BY <3>2, <3>3
  <2>2. ASSUME NEW o \in Peers, Owns(o, r)
        PROVE  Order(o, r)'
    <3>1. Other(o) \in Peers /\ Order(o, r)
      BY <1>6, <2>2, TheOther DEF Reaches
    <3> QED BY <3>1, OrderStays DEF Holds
  <2>3. ASSUME NEW o \in Peers, Owns(o, r), lost' = {}
        PROVE  Cross(o, r)'
    <3> DEFINE q == Other(o)
    <3>0. q \in Peers /\ Cross(o, r)
      BY <1>3, <1>6, <2>3, TheOther DEF Reaches
    <3>1. /\ Coming(o, r)' => Coming(o, r)
          /\ ToldOnce(events'[o], "INCOMING_SSN", r)
      BY <1>1, <3>0 DEF Coming, Cross
    <3>2. Came(o, r)' => Came(o, r)
      <4>1. Has(tasks'[o], "CLOSED", r) <=> Has(tasks[o], "CLOSED", r)
        BY DEF Looks, Holds
      <4> QED BY <1>1, <4>1 DEF Came
    <3>3. Opening(o, r)' \subseteq Opening(o, r)
      <4>1. About(tasks'[q], "OPEN", r) \subseteq About(tasks[q], "OPEN", r)
        BY <3>0 DEF Looks, Holds
      <4> QED BY <1>3, <4>1 DEF Opening
    <3>4. Connecting(o, r)' => Connecting(o, r)
      BY DEF Connecting, Holds
    <3>5. CASE q = p /\ r \in A
      <4>1. Uses(o, r)
        BY <1>2, <1>4, <3>5 DEF Uses
      <4>2. ~Uses(o, r)'
        BY <1>2, <3>5 DEF Uses
      <4> QED BY <1>3, <3>0, <3>1, <3>2, <3>3, <3>4, <4>1, <4>2, AskedCross
    <3>6. CASE ~(q = p /\ r \in A)
      <4>1. Uses(o, r)' => Uses(o, r)
        BY <1>1, <1>2, <3>0 DEF Uses
      <4>2. Asked(o, r)' => Asked(o, r)
        BY <1>1, <1>2, <3>0, <3>6 DEF Asked
      <4>3. WithSid(o, r)' = WithSid(o, r) /\ WithSid(q, r)' = WithSid(q, r)
        BY <3>0 DEF Holds
      <4> QED BY <1>3, <3>0, <3>1, <3>2, <3>3, <3>4, <4>1, <4>2, <4>3, CrossStays
    <3> QED BY <3>5, <3>6
  <2> QED BY <2>1, <2>2, <2>3 DEF Reaches
<1> QED BY <1>3, <1>5, <1>6 DEF SignalsInv

LEMMA BeginSignals ==
    ASSUME ChannelsInv, SignalsInv, NEW p \in Peers, NEW n \in Numbers,
           BeginClosing(p, n), n \in sctp_data_channels(p),
           state'[p][n] = "closing",
           Holds
    PROVE  SignalsInv'
<1>1. CASE UNCHANGED streamVars
  <2>1. \A r \in Sids : Plain(r)
    BY <1>1 DEF Plain, streamVars, Holds
  <2>2. aborted' = aborted
    BY DEF Holds
  <2> QED BY <1>1, <2>1, <2>2, PlainStep, SignalsKept
<1>2. CASE sid[n] >= 0 /\ S!ResetStream(p, sid[n])
  <2>1. PICK s \in Sids : s = sid[n]
    BY <1>2 DEF ChannelsInv, TypeInv
  <2>2. S!ResetStream(p, s)
    BY <1>2, <2>1
  <2>3. n \in WithSid(p, s)
    BY <2>1 DEF WithSid
  <2>4. \A m \in WithSid(p, s) : state'[p][m] = "closing"
    <3>1. \A m \in WithSid(p, s) : m = n
      BY <2>3, OneChannel
    <3> QED BY <3>1
  <2> QED BY <2>2, <2>4, ResetSignals
<1> QED BY <1>1, <1>2 DEF BeginClosing, RemoveSctpDataStream

LEMMA CloseSignals ==
    ASSUME ChannelsInv, SignalsInv, NEW p \in Peers, NEW n \in Numbers,
           AppClose(p, n)
    PROVE  SignalsInv'
<1>1. /\ UNCHANGED <<sid, used, tasks, wire, lost, aborted>>
      /\ state[p][n] \in {"connecting", "open"}
      /\ state' = [state EXCEPT ![p][n] = "closing"]
      /\ BeginClosing(p, n)
  BY DEF AppClose, boundVars
<1>2. \A u \in Peers, m \in Numbers : state'[u][m] =
          IF u = p /\ m = n THEN "closing" ELSE state[u][m]
  BY <1>1 DEF ChannelsInv, TypeInv
<1>3. \A u \in Peers, m \in Numbers :
          state'[u][m] \in Listed <=> state[u][m] \in Listed
  BY <1>1, <1>2 DEF Listed
<1>4. \A u \in Peers : \A r : WithSid(u, r)' = WithSid(u, r)
  BY <1>1, <1>3, ListsSame
<1>5. \A u \in Peers, r \in Sids : \A m \in WithSid(u, r) :
          /\ state[u][m] = "closing" => state'[u][m] = "closing"
          /\ state'[u][m] = "connecting" => state[u][m] = "connecting"
  BY <1>2, IsListed
<1>6. state'[p][n] = "closing" /\ n \in sctp_data_channels(p)
  BY <1>1, <1>2 DEF sctp_data_channels
<1>7. \A u \in Peers, r \in Sids : Looks(tasks[u], tasks'[u], r)
  BY <1>1, LooksItself
<1>8. Holds
  BY <1>1, <1>4, <1>5, <1>7 DEF Holds
<1> QED BY <1>1, <1>6, <1>8, BeginSignals

(* The channel of its opener sends OPEN.                                   *)
LEMMA OpenSent ==
    ASSUME ChannelsInv, ChannelsInv', SignalsInv, NEW p \in Peers, NEW s \in Sids,
           NEW n \in WithSid(p, s), Reaches(s), Owns(p, s), lost = {},
           state[p][n] = "connecting", state'[p][n] = "open",
           UNCHANGED <<streamVars, sid, used, lost>>,
           \A u \in Peers : WithSid(u, s)' = WithSid(u, s),
           \A m \in WithSid(Other(p), s) : state'[Other(p)][m] = state[Other(p)][m],
           tasks'[Other(p)] = tasks[Other(p)], Looks(tasks[p], tasks'[p], s),
           wire'[p][s] = wire[p][s],
           wire'[Other(p)][s] = Append(wire[Other(p)][s], <<"OPEN", n>>)
    PROVE  Order(p, s)' /\ Cross(p, s)'
<1> DEFINE q == Other(p)
           W == wire[q][s]
<1>0. q \in Peers /\ q # p /\ Order(p, s) /\ Cross(p, s)
  BY TheOther DEF Reaches
<1>1. Opening(p, s) = {} /\ ~Uses(p, s) /\ ~Resets(p, s)
  <2>1. Connecting(p, s)
    BY DEF Connecting
  <2> QED BY <1>0, <2>1 DEF Cross
<1>2. Msgs(W, "OPEN") = {} /\ About(tasks[q], "OPEN", s) = {}
  BY <1>1 DEF Opening
<1>3. /\ Msgs(wire'[q][s], "DATA") = Msgs(W, "DATA")
      /\ Msgs(wire'[q][s], "OPEN") = {n}
      /\ Follows(wire'[q][s])
  <2>1. PICK k : k = "OPEN"
    OBVIOUS
  <2> DEFINE U == Append(W, <<k, n>>)
  <2>2. W \in Seq(GoodMessage(q, s)) /\ Follows(W)
    BY <1>0 DEF ChannelsInv, TypeInv, Order
  <2>3. wire'[q][s] = U
    BY <2>1
  <2> HIDE DEF W
  <2>4. /\ \A kind : Msgs(U, kind) = IF kind = k THEN Msgs(W, kind) \cup {n}
                                     ELSE Msgs(W, kind)
        /\ Follows(W) /\ (k = "OPEN" => Msgs(W, "OPEN") = {})
               /\ (k = "DATA" => Msgs(W, "OPEN") \subseteq {n})
               => Follows(U)
    BY <2>2, AppendMsgs
  <2> HIDE DEF U
  <2> QED BY <1>2, <2>1, <2>2, <2>3, <2>4
<1>4. /\ About(tasks'[p], "DATA", s) \subseteq About(tasks[p], "DATA", s)
      /\ Ends(tasks[p], s) => Ends(tasks'[p], s)
      /\ Has(tasks'[p], "CLOSED", s) <=> Has(tasks[p], "CLOSED", s)
      /\ ~Has(tasks[p], "DATA", s) => ~Has(tasks'[p], "DATA", s)
  BY DEF Looks, Has
<1>5. Order(p, s)'
  <2>1. ~Has(tasks'[q], "OPEN", s) /\ About(tasks'[q], "OPEN", s) = {}
    BY <1>2 DEF Has
  <2>2. ASSUME NEW m \in WithSid(q, s)'
        PROVE  \/ state'[q][m] = "closing"
               \/ /\ Own(tasks'[q], s, m)
                  /\ \/ Has(tasks'[q], "CLOSING", s)
                     \/ Msgs(wire'[q][s], "DATA") \subseteq {m}
    <3>1. m \in WithSid(q, s) /\ state'[q][m] = state[q][m]
      BY <1>0
    <3> QED BY <1>0, <1>3, <3>1 DEF Order
  <2>3. Follow(tasks'[q], s)
    BY <1>0 DEF Order
  <2>4. \A m \in WithSid(p, s)' :
            About(tasks'[p], "DATA", s) \cup Msgs(wire'[p][s], "DATA")
                \subseteq {m}
    BY <1>0, <1>4 DEF Order
  <2>5. (s \notin used'[p] => ~Has(tasks'[p], "DATA", s)) /\ Ends(tasks'[p], s)
    BY <1>0, <1>4 DEF Order
  <2> QED BY <1>3, <2>1, <2>2, <2>3, <2>4, <2>5 DEF Order
<1>6. Cross(p, s)'
  <2>1. ~Uses(p, s)'
    BY <1>1 DEF Uses, streamVars
  <2>2. ~Resets(p, s)'
    BY <1>1, <1>4 DEF Resets, Asked, Coming, Came, streamVars
  <2>3. Opening(p, s)' = {n} /\ n \in WithSid(p, s)'
    BY <1>2, <1>3 DEF Opening
  <2>4. \A m \in WithSid(p, s) : m = n
    BY OneChannel
  <2>5. ~Connecting(p, s)'
    BY <2>4 DEF Connecting
  <2>6. s \in used'[p]
    BY OneChannel
  <2>7. ToldOnce(events'[p], "INCOMING_SSN", s)
    BY <1>0 DEF Cross, streamVars
  <2> QED BY <2>1, <2>2, <2>3, <2>5, <2>6, <2>7 DEF Cross, Resets
<1> QED BY <1>5, <1>6

LEMMA ReadySignals ==
    ASSUME ChannelsInv, SignalsInv, NEW p \in Peers, OnChannelReady(p)
    PROVE  SignalsInv'
<1>0. /\ tasks[p] # << >> /\ Head(tasks[p]).kind = "READY"
      /\ Head(tasks[p]) \in GoodTask(p)
      /\ tasks' = [tasks EXCEPT ![p] = Tail(@)]
      /\ UNCHANGED <<sid, used, aborted, lost>>
  BY HeadIsGood DEF OnChannelReady, Head1, ChannelsInv, boundVars
<1>1. PICK s \in Sids, n \in Numbers : n = Head(tasks[p]).n /\ sid[n] = s
  BY <1>0 DEF GoodTask, TaskType
<1>2. /\ \A r : \A u \in Peers : Looks(tasks[u], tasks'[u], r)
      /\ \A u \in Peers : u # p => tasks'[u] = tasks[u]
  <2>1. \A r : \A u \in Peers : Looks(tasks[u], tasks'[u], r)
    BY <1>0, TasksAfterPop DEF Is
  <2> QED BY <1>0, <2>1 DEF ChannelsInv, TypeInv
<1>3. CASE /\ state[p][n] = "closing" /\ BeginClosing(p, n)
           /\ UNCHANGED <<state, wire>>
  <2>1. \A u \in Peers : \A r : WithSid(u, r)' = WithSid(u, r)
    BY <1>0, <1>3, ListsSame
  <2>2. Holds
    BY <1>0, <1>2, <1>3, <2>1 DEF Holds
  <2>3. n \in sctp_data_channels(p) /\ state'[p][n] = "closing"
    BY <1>3 DEF sctp_data_channels
  <2> QED BY <1>3, <2>2, <2>3, BeginSignals
<1>4. CASE UNCHANGED <<streamVars, state, wire>>
  <2>1. \A u \in Peers : \A r : WithSid(u, r)' = WithSid(u, r)
    BY <1>0, <1>4, ListsSame
  <2>2. \A r \in Sids : Plain(r)
    BY <1>0, <1>2, <1>4, <2>1 DEF Plain, streamVars
  <2> QED BY <1>0, <1>4, <2>2, PlainStep, SignalsKept
<1>5. CASE /\ state[p][n] = "connecting"
           /\ state' = [state EXCEPT ![p][n] = "open"]
           /\ SendTo(p, s, IF n \in Channels[p] THEN "OPEN" ELSE "ACK", n)
           /\ UNCHANGED streamVars
  <2> DEFINE q == Other(p)
  <2>0. q \in Peers /\ q # p /\ Peers = {p, q}
    BY TheOther
  <2>1. \A u \in Peers, m \in Numbers : state'[u][m] =
            IF u = p /\ m = n THEN "open" ELSE state[u][m]
    BY <1>5 DEF ChannelsInv, TypeInv
  <2>2. \A u \in Peers, m \in Numbers :
            state'[u][m] \in Listed <=> state[u][m] \in Listed
    BY <1>5, <2>1 DEF Listed
  <2>3. \A u \in Peers : \A r : WithSid(u, r)' = WithSid(u, r)
    BY <1>0, <2>2, ListsSame
  <2>4. \A u \in Peers : \A r : \A m \in WithSid(u, r) :
            /\ state[u][m] = "closing" => state'[u][m] = "closing"
            /\ state'[u][m] = "connecting" => state[u][m] = "connecting"
            /\ u # p => state'[u][m] = state[u][m]
    BY <1>5, <2>1, IsListed
  <2>5. n \in WithSid(p, s)
    BY <1>1, <1>5 DEF WithSid, sctp_data_channels
  <2>6. PICK k \in {"OPEN", "ACK"} :
            /\ k = IF n \in Channels[p] THEN "OPEN" ELSE "ACK"
            /\ SendTo(p, s, k, n)
    BY <1>5
  <2>7. \A u \in Peers, r \in Sids : wire'[u][r] =
            IF lost = {} /\ u = q /\ r = s
            THEN Append(wire[u][r], <<k, n>>) ELSE wire[u][r]
    BY <2>6, Sent
  <2>8. ASSUME NEW r \in Sids, r # s \/ lost # {}
        PROVE  Plain(r)
    <3>1. \A u \in Peers : wire'[u][r] = wire[u][r]
      BY <2>7, <2>8
    <3>2. UNCHANGED <<streamVars, used, lost>>
      BY <1>0, <1>5
    <3>3. \A u \in Peers :
              /\ WithSid(u, r)' = WithSid(u, r) /\ Looks(tasks[u], tasks'[u], r)
              /\ \A m \in WithSid(u, r) :
                     /\ state[u][m] = "closing" => state'[u][m] = "closing"
                     /\ state'[u][m] = "connecting" => state[u][m] = "connecting"
      BY <1>2, <2>3, <2>4
    <3> QED BY <3>1, <3>2, <3>3 DEF Plain, streamVars
  <2>9. ASSUME Reaches(s), lost = {}
        PROVE  Reaches(s)'
    <3>1. ASSUME NEW u \in Peers
          PROVE  Local(u, s)'
      <4>1. S!is_open(u, s)' <=> S!is_open(u, s)
        BY <1>5 DEF S!is_open, streamVars
      <4>2. s \in known'[u] <=> s \in known[u]
        BY <1>5 DEF streamVars
      <4>3. Local(u, s) /\ Looks(tasks[u], tasks'[u], s)
        BY <1>2, <2>9 DEF Reaches
      <4>4. WithSid(u, s)' = WithSid(u, s) /\ (s \in used'[u] <=> s \in used[u])
        BY <1>0, <2>3
      <4>5. \A m \in WithSid(u, s) :
                state[u][m] = "closing" => state'[u][m] = "closing"
        BY <2>4
      <4> QED BY <4>1, <4>2, <4>3, <4>4, <4>5, LocalStays
    <3>2. /\ wire'[q][s] = Append(wire[q][s], <<k, n>>)
          /\ wire'[p][s] = wire[p][s]
      BY <2>0, <2>7, <2>9
    <3>3. CASE k = "OPEN"
      <4>1. Owns(p, s) /\ \A o \in Peers : Owns(o, s) => o = p
        <5>1. n \in Channels[p] /\ sid[n] >= 0
          BY <1>1, <2>6, <3>3, SidSet
        <5>2. Owns(p, s)
          BY <1>1, <5>1 DEF ChannelsInv, IdInv, Owns
        <5> QED BY <5>2, Owner
      <4>2. wire'[q][s] = Append(wire[q][s], <<"OPEN", n>>)
        BY <3>2, <3>3
      <4>3. /\ state'[p][n] = "open" /\ tasks'[q] = tasks[q]
            /\ Looks(tasks[p], tasks'[p], s)
            /\ \A m \in WithSid(q, s) : state'[q][m] = state[q][m]
        BY <1>2, <2>0, <2>1, <2>4
      <4>4. ChannelsInv'
        BY ReadyStep
      <4>5. Order(p, s)' /\ Cross(p, s)'
        BY <1>0, <1>5, <2>3, <2>5, <2>9, <3>2, <4>1, <4>2, <4>3, <4>4, OpenSent
      <4> QED BY <3>1, <4>1, <4>5 DEF Reaches
    <3>4. CASE k = "ACK"
      <4>1. /\ Fewer(wire[q][s], wire'[q][s])
            /\ Msgs(wire'[q][s], "OPEN") = Msgs(wire[q][s], "OPEN")
            /\ Msgs(wire'[q][s], "DATA") = Msgs(wire[q][s], "DATA")
        <5> DEFINE W == wire[q][s]
                   U == Append(W, <<k, n>>)
        <5>1. W \in Seq(GoodMessage(q, s)) /\ wire'[q][s] = U
          BY <2>0, <3>2 DEF ChannelsInv, TypeInv
        <5> HIDE DEF W
        <5>2. /\ \A kind : Msgs(U, kind) = IF kind = k THEN Msgs(W, kind) \cup {n}
                                           ELSE Msgs(W, kind)
              /\ Follows(W) /\ (k = "OPEN" => Msgs(W, "OPEN") = {})
                     /\ (k = "DATA" => Msgs(W, "OPEN") \subseteq {n})
                     => Follows(U)
          BY <5>1, AppendMsgs
        <5> HIDE DEF U
        <5>3. /\ Msgs(U, "OPEN") = Msgs(W, "OPEN") /\ Msgs(U, "DATA") = Msgs(W, "DATA")
              /\ Follows(W) => Follows(U)
          BY <3>4, <5>2
        <5> QED BY <5>1, <5>3 DEF Fewer, W
      <4>2. \A u \in Peers : /\ Fewer(wire[u][s], wire'[u][s])
                             /\ Msgs(wire'[u][s], "OPEN") = Msgs(wire[u][s], "OPEN")
                             /\ Msgs(wire'[u][s], "DATA") = Msgs(wire[u][s], "DATA")
        BY <2>0, <3>2, <4>1 DEF Fewer
      <4>3. ASSUME NEW o \in Peers, Owns(o, s)
            PROVE  Order(o, s)' /\ Cross(o, s)'
        <5>0. Other(o) \in Peers /\ Order(o, s) /\ Cross(o, s)
          BY <2>9, <4>3, TheOther DEF Reaches
        <5>1. Order(o, s)'
          <6>1. /\ WithSid(o, s)' = WithSid(o, s)
                /\ s \in used[o] => s \in used'[o]
                /\ WithSid(Other(o), s)' = WithSid(Other(o), s)
                /\ \A m \in WithSid(Other(o), s)' :
                       state[Other(o)][m] = "closing" =>
                           state'[Other(o)][m] = "closing"
            BY <1>0, <2>3, <2>4, <5>0
          <6>2. \A u \in Peers : /\ Looks(tasks[u], tasks'[u], s)
                                 /\ Fewer(wire[u][s], wire'[u][s])
            BY <1>2, <4>2
          <6> QED BY <5>0, <6>1, <6>2, OrderHolds
        <5>2. Uses(o, s)' => Uses(o, s)
          BY <1>5 DEF Uses, streamVars
        <5>3. Asked(o, s)' => Asked(o, s)
          BY <1>5 DEF Asked, streamVars
        <5>4. /\ Coming(o, s)' => Coming(o, s)
              /\ ToldOnce(events'[o], "INCOMING_SSN", s)
          BY <1>5, <5>0 DEF Coming, streamVars, Cross
        <5>5. Came(o, s)' => Came(o, s)
          <6>1. Has(tasks'[o], "CLOSED", s) <=> Has(tasks[o], "CLOSED", s)
            BY <1>2 DEF Looks
          <6> QED BY <1>5, <6>1 DEF Came, streamVars
        <5>6. Opening(o, s)' \subseteq Opening(o, s)
          <6>1. About(tasks'[Other(o)], "OPEN", s) \subseteq
                    About(tasks[Other(o)], "OPEN", s)
            BY <1>2, <5>0 DEF Looks
          <6> QED BY <4>2, <5>0, <6>1 DEF Opening
        <5>7. Connecting(o, s)' => Connecting(o, s)
          BY <2>3, <2>4 DEF Connecting
        <5>8. Cross(o, s)'
          BY <1>0, <2>3, <4>2, <5>0, <5>2, <5>3, <5>4, <5>5, <5>6, <5>7, CrossStays
        <5> QED BY <5>1, <5>8
      <4> QED BY <3>1, <4>3 DEF Reaches
    <3> QED BY <2>6, <3>3, <3>4
  <2> QED BY <1>0, <1>5, <2>8, <2>9, PlainStep, SignalsKept
<1> QED BY <1>1, <1>3, <1>4, <1>5 DEF OnChannelReady

-----------------------------------------------------------------------------
(* The transport and its events.                                           *)

(* usrsctp notifies endpoint p.                                            *)
LEMMA Notified ==
    ASSUME StreamTypes, NEW p \in Peers, NEW flags, NEW A, S!Notify(p, flags, A)
    PROVE  /\ \A u \in Peers : \A f, s :
                  /\ Told(events'[u], f, s) <=>
                         \/ Told(events[u], f, s)
                         \/ u = p /\ f = flags /\ s \in A
                  /\ ToldOnce(events[u], f, s)
                         /\ (u = p /\ f = flags /\ s \in A => ~Told(events[u], f, s))
                         => ToldOnce(events'[u], f, s)
<1> DEFINE e == [flags |-> flags, sids |-> A]
<1>1. \A u \in Peers : events'[u] = IF u = p THEN Append(events[p], e) ELSE events[u]
  BY DEF S!Notify, StreamTypes
<1>2. \A f, s : Tells(e, f, s) <=> f = flags /\ s \in A
  BY DEF Tells
<1>3. events[p] \in Seq(Event)
  BY DEF StreamTypes
<1> HIDE DEF e
<1>4. ASSUME NEW f, NEW s
      PROVE  /\ Told(Append(events[p], e), f, s) <=>
                    Told(events[p], f, s) \/ (f = flags /\ s \in A)
             /\ ToldOnce(events[p], f, s)
                    /\ (f = flags /\ s \in A => ~Told(events[p], f, s))
                    => ToldOnce(Append(events[p], e), f, s)
  BY <1>2, <1>3, AppendTold
<1>5. ASSUME NEW u \in Peers, NEW f, NEW s
      PROVE  /\ Told(events'[u], f, s) <=>
                    \/ Told(events[u], f, s)
                    \/ u = p /\ f = flags /\ s \in A
             /\ ToldOnce(events[u], f, s)
                    /\ (u = p /\ f = flags /\ s \in A => ~Told(events[u], f, s))
                    => ToldOnce(events'[u], f, s)
  <2>1. CASE u = p
    <3>1. events'[u] = Append(events[p], e)
      BY <1>1, <2>1
    <3> QED BY <1>4, <2>1, <3>1
  <2>2. CASE u # p
    <3>1. events'[u] = events[u]
      BY <1>1, <2>2
    <3> QED BY <2>2, <3>1
  <2> QED BY <2>1, <2>2
<1> QED BY <1>5

(* Steps of the transport that signal nothing: what is left to show.       *)
LEMMA TransportKept ==
    ASSUME ChannelsInv, SignalsInv,
           UNCHANGED <<channelVars, tasks, wire, lost>>,
           UNCHANGED <<known, closure_initiated, outgoing_reset_initiated,
                       outgoing_reset_complete, incoming_reset_complete>>,
           \A u \in Peers, s \in Sids : Streams(u, s)',
           lost = {} => \A o \in Peers, s \in Sids : Cross(o, s) => Cross(o, s)'
    PROVE  SignalsInv'
<1>1. UNCHANGED <<state, sid, used, aborted>>
  BY DEF channelVars
<1>2. \A u \in Peers : \A s : WithSid(u, s)' = WithSid(u, s)
  BY <1>1, ListsSame
<1>3. ASSUME NEW s \in Sids, Reaches(s)
      PROVE  Reaches(s)'
  <2>1. ASSUME NEW u \in Peers
        PROVE  Local(u, s)'
    <3>1. S!is_open(u, s)' <=> S!is_open(u, s)
      BY DEF S!is_open
    <3>2. Local(u, s) /\ Looks(tasks[u], tasks'[u], s)
      BY <1>3, LooksItself DEF Reaches
    <3> QED BY <1>1, <1>2, <3>1, <3>2, LocalStays
  <2>2. ASSUME NEW o \in Peers, Owns(o, s)
        PROVE  Order(o, s)'
    <3>1. Other(o) \in Peers /\ Order(o, s)
      BY <1>3, <2>2, TheOther DEF Reaches
    <3>2. \A u \in Peers : /\ Looks(tasks[u], tasks'[u], s)
                           /\ wire'[u][s] \in {wire[u][s], << >>}
      BY LooksItself
    <3> QED BY <1>1, <1>2, <3>1, <3>2, OrderStays
  <2> QED BY <1>3, <2>1, <2>2 DEF Reaches
<1> QED BY <1>1, <1>3 DEF SignalsInv

(* Steps that change what is known of resets only.                         *)
LEMMA OnlyResets ==
    ASSUME UNCHANGED <<channelVars, tasks, wire>>,
           UNCHANGED <<known, outgoing_reset_initiated, incoming_reset_complete>>
    PROVE  \A o \in Peers, s \in Sids :
               /\ WithSid(o, s)' = WithSid(o, s)
               /\ Uses(o, s)' <=> Uses(o, s)
               /\ Came(o, s)' <=> Came(o, s)
               /\ Opening(o, s)' = Opening(o, s)
               /\ Connecting(o, s)' <=> Connecting(o, s)
               /\ s \in used'[o] <=> s \in used[o]
<1>1. UNCHANGED <<state, sid, used>>
  BY DEF channelVars
<1>2. \A u \in Peers : \A s : WithSid(u, s)' = WithSid(u, s)
  BY <1>1, ListsSame
<1> QED BY <1>1, <1>2 DEF Uses, Came, Opening, Connecting

LEMMA PerformSignals ==
    ASSUME ChannelsInv, SignalsInv, NEW p \in Peers, PerformReset(p)
    PROVE  SignalsInv'
<1>0. StreamTypes
  BY DEF ChannelsInv, TypeInv
<1>1. /\ UNCHANGED <<channelVars, tasks, wire, lost>>
      /\ UNCHANGED <<known, closure_initiated, outgoing_reset_initiated,
                     outgoing_reset_complete, incoming_reset_complete, request>>
      /\ ~performed[p] /\ \A s \in request[p] : wire[Other(p)][s] = << >>
      /\ \A u \in Peers : performed'[u] = IF u = p THEN TRUE ELSE performed[u]
  BY <1>0 DEF PerformReset, S!PerformReset, S!statusVars, boundVars, StreamTypes
<1>2. S!Notify(Other(p), "INCOMING_SSN", request[p])
  BY DEF PerformReset, S!PerformReset, S!Other, Other
<1>3. \A u \in Peers : \A f, s :
          /\ Told(events'[u], f, s) <=>
                 \/ Told(events[u], f, s)
                 \/ u = Other(p) /\ f = "INCOMING_SSN" /\ s \in request[p]
          /\ ToldOnce(events[u], f, s)
                 /\ (u = Other(p) /\ f = "INCOMING_SSN" /\ s \in request[p]
                         => ~Told(events[u], f, s))
                 => ToldOnce(events'[u], f, s)
  BY <1>0, <1>2, Notified, TheOther
<1>4. ASSUME NEW u \in Peers, NEW s \in Sids
      PROVE  Streams(u, s)'
  <2>1. Streams(u, s)
    BY DEF SignalsInv
  <2>2. /\ Told(events'[u], "OUTGOING_SSN", s) <=> Told(events[u], "OUTGOING_SSN", s)
        /\ ToldOnce(events[u], "OUTGOING_SSN", s)
               => ToldOnce(events'[u], "OUTGOING_SSN", s)
    BY <1>3
  <2> QED BY <1>1, <2>1, <2>2 DEF Streams
<1>5. ASSUME NEW o \in Peers, NEW s \in Sids, Cross(o, s)
      PROVE  Cross(o, s)'
  <2> DEFINE q == Other(o)
  <2>0. q \in Peers /\ Other(q) = o /\ q # o
    BY TheOther
  <2>1. /\ WithSid(o, s)' = WithSid(o, s) /\ WithSid(q, s)' = WithSid(q, s)
        /\ Uses(o, s)' <=> Uses(o, s)
        /\ Came(o, s)' <=> Came(o, s)
        /\ Opening(o, s)' = Opening(o, s)
        /\ Connecting(o, s)' <=> Connecting(o, s)
        /\ s \in used'[o] <=> s \in used[o]
    BY <1>1, <2>0, OnlyResets
  <2>2. Asked(o, s)' => Asked(o, s) /\ p # q
    BY <1>1, <2>0 DEF Asked
  <2>3. CASE p = q /\ s \in request[p]
    <3>1. Asked(o, s) /\ Resets(o, s)
      BY <1>1, <2>3 DEF Asked, Resets
    <3>2. /\ ~Coming(o, s) /\ ~Came(o, s) /\ ~Uses(o, s) /\ s \in used[o]
          /\ Opening(o, s) = {} /\ ~Connecting(o, s)
          /\ ToldOnce(events[o], "INCOMING_SSN", s)
      BY <1>5, <3>1 DEF Cross
    <3>3. ToldOnce(events'[o], "INCOMING_SSN", s)
      BY <1>3, <3>2 DEF Coming
    <3>4. Msgs(wire'[o][s], "DATA") = {}
      <4>1. wire'[o][s] = << >>
        BY <1>1, <2>0, <2>3
      <4> QED BY <4>1, NoMessages
    <3> QED BY <2>1, <2>2, <2>3, <3>2, <3>3, <3>4 DEF Cross, Resets
  <2>4. CASE ~(p = q /\ s \in request[p])
    <3>1. Coming(o, s)' => Coming(o, s)
      BY <1>3, <2>0, <2>4, TheOther DEF Coming
    <3>2. ToldOnce(events'[o], "INCOMING_SSN", s)
      BY <1>3, <1>5, <2>0, <2>4, TheOther DEF Cross
    <3> QED BY <1>1, <1>5, <2>1, <2>2, <3>1, <3>2, CrossStays
  <2> QED BY <2>3, <2>4
<1> QED BY <1>1, <1>4, <1>5, TransportKept

LEMMA ResponseSignals ==
    ASSUME ChannelsInv, SignalsInv, NEW p \in Peers, ReceiveResponse(p)
    PROVE  SignalsInv'
<1>0. StreamTypes
  BY DEF ChannelsInv, TypeInv
<1>1. /\ UNCHANGED <<channelVars, tasks, wire, lost>>
      /\ UNCHANGED <<known, closure_initiated, outgoing_reset_initiated,
                     outgoing_reset_complete, incoming_reset_complete>>
      /\ \A u \in Peers : performed'[u] = IF u = p THEN FALSE ELSE performed[u]
      /\ \A u \in Peers : request'[u] = IF u = p THEN {} ELSE request[u]
  BY <1>0 DEF ReceiveResponse, S!ReceiveResponse, S!statusVars, boundVars, StreamTypes
<1>2. S!Notify(p, "OUTGOING_SSN", request[p])
  BY DEF ReceiveResponse, S!ReceiveResponse
<1>3. \A u \in Peers : \A f, s :
          /\ Told(events'[u], f, s) <=>
                 \/ Told(events[u], f, s)
                 \/ u = p /\ f = "OUTGOING_SSN" /\ s \in request[p]
          /\ ToldOnce(events[u], f, s)
                 /\ (u = p /\ f = "OUTGOING_SSN" /\ s \in request[p]
                         => ~Told(events[u], f, s))
                 => ToldOnce(events'[u], f, s)
  BY <1>0, <1>2, Notified
<1>4. ASSUME NEW u \in Peers, NEW s \in Sids
      PROVE  Streams(u, s)'
  <2>1. Streams(u, s)
    BY DEF SignalsInv
  <2>2. /\ Told(events'[u], "OUTGOING_SSN", s) <=>
               Told(events[u], "OUTGOING_SSN", s) \/ (u = p /\ s \in request[p])
        /\ ToldOnce(events[u], "OUTGOING_SSN", s)
               /\ (u = p /\ s \in request[p] => ~Told(events[u], "OUTGOING_SSN", s))
               => ToldOnce(events'[u], "OUTGOING_SSN", s)
    BY <1>3
  <2> QED BY <1>1, <2>1, <2>2 DEF Streams
<1>5. ASSUME NEW o \in Peers, NEW s \in Sids, Cross(o, s)
      PROVE  Cross(o, s)'
  <2>0. Other(o) \in Peers
    BY TheOther
  <2>1. /\ WithSid(o, s)' = WithSid(o, s)
        /\ WithSid(Other(o), s)' = WithSid(Other(o), s)
        /\ Uses(o, s)' <=> Uses(o, s)
        /\ Came(o, s)' <=> Came(o, s)
        /\ Opening(o, s)' = Opening(o, s)
        /\ Connecting(o, s)' <=> Connecting(o, s)
        /\ s \in used'[o] <=> s \in used[o]
    BY <1>1, <2>0, OnlyResets
  <2>2. Asked(o, s)' => Asked(o, s)
    BY <1>1, <2>0 DEF Asked
  <2>3. /\ Coming(o, s)' => Coming(o, s)
        /\ ToldOnce(events'[o], "INCOMING_SSN", s)
    BY <1>3, <1>5 DEF Coming, Cross
  <2> QED BY <1>1, <1>5, <2>1, <2>2, <2>3, CrossStays
<1> QED BY <1>1, <1>4, <1>5, TransportKept

(* What an event does to the streams of endpoint p: those in A are asked   *)
(* for, those in D leave the map.                                          *)
Handles(p, A, D) ==
    LET e == Head(events[p]) IN
    /\ events[p] # << >> /\ performed' = performed
    /\ \A u \in Peers : events'[u] = IF u = p THEN Tail(events[u]) ELSE events[u]
    /\ \A u \in Peers, r \in Sids :
           /\ r \in known'[u] <=> r \in known[u] /\ ~(u = p /\ r \in D)
           /\ r \in closure_initiated'[u] <=>
                  r \in closure_initiated[u] /\ ~(u = p /\ r \in D)
           /\ r \in incoming_reset_complete'[u] <=>
                  /\ \/ r \in incoming_reset_complete[u]
                     \/ u = p /\ Tells(e, "INCOMING_SSN", r) /\ r \in known[p]
                  /\ ~(u = p /\ r \in D)
           /\ r \in outgoing_reset_complete'[u] <=>
                  /\ \/ r \in outgoing_reset_complete[u]
                     \/ u = p /\ Tells(e, "OUTGOING_SSN", r) /\ r \in known[p]
                  /\ ~(u = p /\ r \in D)
           /\ r \in outgoing_reset_initiated'[u] <=>
                  \/ r \in outgoing_reset_initiated[u] /\ ~(u = p /\ r \in D)
                  \/ u = p /\ r \in A
           /\ r \in request'[u] <=> r \in request[u] \/ (u = p /\ r \in A)
    /\ \A r \in A :
           /\ r \notin D /\ r \notin outgoing_reset_initiated[p]
           /\ \/ r \in closure_initiated[p] \cup incoming_reset_complete[p]
              \/ Tells(e, "INCOMING_SSN", r) /\ r \in known[p]
    /\ \A r \in D :
           /\ r \in known[p]
           /\ \/ Tells(e, "INCOMING_SSN", r) /\ r \in outgoing_reset_complete[p]
              \/ Tells(e, "OUTGOING_SSN", r) /\ r \in incoming_reset_complete[p]

LEMMA EventHandled ==
    ASSUME StreamTypes, NEW p \in Peers, S!IncomingReset(p) \/ S!OutgoingReset(p)
    PROVE  \E A, D \in SUBSET Sids : Handles(p, A, D)
<1> DEFINE e == Head(events[p])
           sids == e.sids \cap known[p]
<1>1. CASE S!IncomingReset(p)
  <2> DEFINE D == sids \cap outgoing_reset_complete[p]
             need == (S!need_outgoing_reset(p)
                         \cup (sids \ outgoing_reset_initiated[p])) \ D
             initiated == outgoing_reset_initiated[p] \ D
  <2>1. /\ events[p] # << >> /\ e.flags = "INCOMING_SSN"
        /\ events' = [events EXCEPT ![p] = Tail(@)]
        /\ known' = [known EXCEPT ![p] = @ \ D]
        /\ closure_initiated' = [closure_initiated EXCEPT ![p] = @ \ D]
        /\ incoming_reset_complete' =
               [incoming_reset_complete EXCEPT ![p] = (@ \cup sids) \ D]
        /\ outgoing_reset_complete' = [outgoing_reset_complete EXCEPT ![p] = @ \ D]
        /\ S!SendQueuedStreamResets(p, need, initiated)
        /\ performed' = performed
    BY <1>1 DEF S!IncomingReset, S!Finish, S!reset_complete
  <2>2. \A r \in need :
            /\ r \in Sids /\ r \notin D /\ r \notin outgoing_reset_initiated[p]
            /\ \/ r \in closure_initiated[p] \cup incoming_reset_complete[p]
               \/ r \in sids
    BY DEF S!need_outgoing_reset, StreamTypes
  <2>3. /\ D \in SUBSET Sids
        /\ \A r : r \in sids <=> Tells(e, "INCOMING_SSN", r) /\ r \in known[p]
        /\ \A r : ~Tells(e, "OUTGOING_SSN", r)
        /\ \A r \in D : r \in sids /\ r \in outgoing_reset_complete[p]
    BY <2>1 DEF Tells, StreamTypes
  <2>4. \A r : r \in initiated <=> r \in outgoing_reset_initiated[p] /\ r \notin D
    OBVIOUS
  <2> HIDE DEF e, sids, D, need, initiated
  <2>5. PICK A \in SUBSET need :
            \A u \in Peers :
                /\ request'[u] = IF u = p THEN request[u] \cup A ELSE request[u]
                /\ outgoing_reset_initiated'[u] =
                       IF u = p THEN initiated \cup A
                       ELSE outgoing_reset_initiated[u]
    BY <2>1, QueuedResets
  <2>6. \A u \in Peers :
            /\ events'[u] = IF u = p THEN Tail(events[u]) ELSE events[u]
            /\ known'[u] = IF u = p THEN known[u] \ D ELSE known[u]
            /\ closure_initiated'[u] =
                   IF u = p THEN closure_initiated[u] \ D ELSE closure_initiated[u]
            /\ incoming_reset_complete'[u] =
                   IF u = p THEN (incoming_reset_complete[u] \cup sids) \ D
                   ELSE incoming_reset_complete[u]
            /\ outgoing_reset_complete'[u] =
                   IF u = p THEN outgoing_reset_complete[u] \ D
                   ELSE outgoing_reset_complete[u]
    BY <2>1 DEF StreamTypes
  <2>7. A \in SUBSET Sids
    BY <2>2
  <2>8. /\ \A r \in A :
               /\ r \notin D /\ r \notin outgoing_reset_initiated[p]
               /\ \/ r \in closure_initiated[p] \cup incoming_reset_complete[p]
                  \/ Tells(e, "INCOMING_SSN", r) /\ r \in known[p]
        /\ \A r \in D :
               /\ r \in known[p]
               /\ \/ Tells(e, "INCOMING_SSN", r) /\ r \in outgoing_reset_complete[p]
                  \/ Tells(e, "OUTGOING_SSN", r) /\ r \in incoming_reset_complete[p]
    BY <2>2, <2>3
  <2>9. ASSUME NEW u \in Peers, NEW r \in Sids
        PROVE  /\ r \in known'[u] <=> r \in known[u] /\ ~(u = p /\ r \in D)
               /\ r \in closure_initiated'[u] <=>
                      r \in closure_initiated[u] /\ ~(u = p /\ r \in D)
               /\ r \in incoming_reset_complete'[u] <=>
                      /\ \/ r \in incoming_reset_complete[u]
                         \/ u = p /\ Tells(e, "INCOMING_SSN", r) /\ r \in known[p]
                      /\ ~(u = p /\ r \in D)
               /\ r \in outgoing_reset_complete'[u] <=>
                      /\ \/ r \in outgoing_reset_complete[u]
                         \/ u = p /\ Tells(e, "OUTGOING_SSN", r) /\ r \in known[p]
                      /\ ~(u = p /\ r \in D)
               /\ r \in outgoing_reset_initiated'[u] <=>
                      \/ r \in outgoing_reset_initiated[u] /\ ~(u = p /\ r \in D)
                      \/ u = p /\ r \in A
               /\ r \in request'[u] <=> r \in request[u] \/ (u = p /\ r \in A)
    <3>1. CASE u = p
      BY <2>3, <2>4, <2>5, <2>6, <3>1
    <3>2. CASE u # p
      BY <2>5, <2>6, <3>2
    <3> QED BY <3>1, <3>2
  <2>10. \A u \in Peers : events'[u] = IF u = p THEN Tail(events[u]) ELSE events[u]
    BY <2>6
  <2>11. Handles(p, A, D)
    BY <2>1, <2>8, <2>9, <2>10, Zenon DEF Handles, e
  <2> QED BY <2>3, <2>7, <2>11
<1>2. CASE S!OutgoingReset(p)
  <2> DEFINE D == sids \cap incoming_reset_complete[p]
             need == S!need_outgoing_reset(p) \ D
             initiated == outgoing_reset_initiated[p] \ D
  <2>1. /\ events[p] # << >> /\ e.flags = "OUTGOING_SSN"
        /\ events' = [events EXCEPT ![p] = Tail(@)]
        /\ known' = [known EXCEPT ![p] = @ \ D]
        /\ closure_initiated' = [closure_initiated EXCEPT ![p] = @ \ D]
        /\ outgoing_reset_complete' =
               [outgoing_reset_complete EXCEPT ![p] = (@ \cup sids) \ D]
        /\ incoming_reset_complete' = [incoming_reset_complete EXCEPT ![p] = @ \ D]
        /\ S!SendQueuedStreamResets(p, need, initiated)
        /\ performed' = performed
    BY <1>2 DEF S!OutgoingReset, S!Finish, S!reset_complete
  <2>2. \A r \in need :
            /\ r \in Sids /\ r \notin D /\ r \notin outgoing_reset_initiated[p]
            /\ r \in closure_initiated[p] \cup incoming_reset_complete[p]
    BY DEF S!need_outgoing_reset, StreamTypes
  <2>3. /\ D \in SUBSET Sids
        /\ \A r : r \in sids <=> Tells(e, "OUTGOING_SSN", r) /\ r \in known[p]
        /\ \A r : ~Tells(e, "INCOMING_SSN", r)
        /\ \A r \in D : r \in sids /\ r \in incoming_reset_complete[p]
    BY <2>1 DEF Tells, StreamTypes
  <2>4. \A r : r \in initiated <=> r \in outgoing_reset_initiated[p] /\ r \notin D
    OBVIOUS
  <2> HIDE DEF e, sids, D, need, initiated
  <2>5. PICK A \in SUBSET need :
            \A u \in Peers :
                /\ request'[u] = IF u = p THEN request[u] \cup A ELSE request[u]
                /\ outgoing_reset_initiated'[u] =
                       IF u = p THEN initiated \cup A
                       ELSE outgoing_reset_initiated[u]
    BY <2>1, QueuedResets
  <2>6. \A u \in Peers :
            /\ events'[u] = IF u = p THEN Tail(events[u]) ELSE events[u]
            /\ known'[u] = IF u = p THEN known[u] \ D ELSE known[u]
            /\ closure_initiated'[u] =
                   IF u = p THEN closure_initiated[u] \ D ELSE closure_initiated[u]
            /\ outgoing_reset_complete'[u] =
                   IF u = p THEN (outgoing_reset_complete[u] \cup sids) \ D
                   ELSE outgoing_reset_complete[u]
            /\ incoming_reset_complete'[u] =
                   IF u = p THEN incoming_reset_complete[u] \ D
                   ELSE incoming_reset_complete[u]
    BY <2>1 DEF StreamTypes
  <2>7. A \in SUBSET Sids
    BY <2>2
  <2>8. /\ \A r \in A :
               /\ r \notin D /\ r \notin outgoing_reset_initiated[p]
               /\ \/ r \in closure_initiated[p] \cup incoming_reset_complete[p]
                  \/ Tells(e, "INCOMING_SSN", r) /\ r \in known[p]
        /\ \A r \in D :
               /\ r \in known[p]
               /\ \/ Tells(e, "INCOMING_SSN", r) /\ r \in outgoing_reset_complete[p]
                  \/ Tells(e, "OUTGOING_SSN", r) /\ r \in incoming_reset_complete[p]
    BY <2>2, <2>3
  <2>9. ASSUME NEW u \in Peers, NEW r \in Sids
        PROVE  /\ r \in known'[u] <=> r \in known[u] /\ ~(u = p /\ r \in D)
               /\ r \in closure_initiated'[u] <=>
                      r \in closure_initiated[u] /\ ~(u = p /\ r \in D)
               /\ r \in incoming_reset_complete'[u] <=>
                      /\ \/ r \in incoming_reset_complete[u]
                         \/ u = p /\ Tells(e, "INCOMING_SSN", r) /\ r \in known[p]
                      /\ ~(u = p /\ r \in D)
               /\ r \in outgoing_reset_complete'[u] <=>
                      /\ \/ r \in outgoing_reset_complete[u]
                         \/ u = p /\ Tells(e, "OUTGOING_SSN", r) /\ r \in known[p]
                      /\ ~(u = p /\ r \in D)
               /\ r \in outgoing_reset_initiated'[u] <=>
                      \/ r \in outgoing_reset_initiated[u] /\ ~(u = p /\ r \in D)
                      \/ u = p /\ r \in A
               /\ r \in request'[u] <=> r \in request[u] \/ (u = p /\ r \in A)
    <3>1. CASE u = p
      BY <2>3, <2>4, <2>5, <2>6, <3>1
    <3>2. CASE u # p
      BY <2>5, <2>6, <3>2
    <3> QED BY <3>1, <3>2
  <2>10. \A u \in Peers : events'[u] = IF u = p THEN Tail(events[u]) ELSE events[u]
    BY <2>6
  <2>11. Handles(p, A, D)
    BY <2>1, <2>8, <2>9, <2>10, Zenon DEF Handles, e
  <2> QED BY <2>3, <2>7, <2>11
<1> QED BY <1>1, <1>2

(* What OnStreamResetEvent does to the tasks: CLOSING for the streams in   *)
(* C and CLOSED for those in D come last at endpoint p.                    *)
Signalled(p, C, D) ==
    \A u \in Peers, s \in Sids :
        LET T == tasks[u]
            U == tasks'[u]
        IN /\ About(U, "OPEN", s) = About(T, "OPEN", s)
           /\ About(U, "DATA", s) = About(T, "DATA", s)
           /\ Has(U, "CLOSING", s) <=> Has(T, "CLOSING", s) \/ (u = p /\ s \in C)
           /\ Has(U, "CLOSED", s) <=> Has(T, "CLOSED", s) \/ (u = p /\ s \in D)
           /\ Once(T, s) /\ (u = p /\ s \in D => ~Has(T, "CLOSED", s)) => Once(U, s)
           /\ Warned(T, s) /\ (u = p /\ s \in D => Has(T, "CLOSING", s))
                  => Warned(U, s)
           /\ \A n : Own(T, s, n) => Own(U, s, n)
           /\ Ends(T, s) => Ends(U, s)
           /\ Follow(T, s) => Follow(U, s)

LEMMA EventSignalled ==
    ASSUME ChannelsInv, NEW p \in Peers, OnStreamResetEvent(p)
    PROVE  /\ UNCHANGED <<channelVars, wire, boundVars>>
           /\ \E A, D \in SUBSET Sids :
                  Handles(p, A, D) /\ Signalled(p, Remotely(p), D)
<1>0. StreamTypes
  BY DEF ChannelsInv, TypeInv
<1>1. /\ UNCHANGED <<channelVars, wire, boundVars>>
      /\ S!IncomingReset(p) \/ S!OutgoingReset(p)
  BY <1>0, EventPosts
<1>2. PICK A, D \in SUBSET Sids : Handles(p, A, D)
  BY <1>0, <1>1, EventHandled
<1>3. known[p] \ known'[p] = D
  <2>1. \A r \in Sids : r \in known'[p] <=> r \in known[p] /\ r \notin D
    BY <1>2 DEF Handles
  <2>2. D \subseteq known[p]
    BY <1>2 DEF Handles
  <2> QED BY <1>0, <2>1, <2>2 DEF StreamTypes
<1> DEFINE C == Remotely(p)
<1>4. C \in SUBSET Sids
  BY <1>0, EventPosts
<1>5. PICK q \in Seq(Signals(C, D)) :
          /\ tasks' = [tasks EXCEPT ![p] = @ \o q]
          /\ \A x \in Signals(C, D) : \E i \in DOMAIN q : q[i] = x
          /\ \A i, j \in DOMAIN q : i < j => Before(q[i], q[j])
  BY <1>0, <1>3, EventPosts
<1>6. /\ tasks[p] \in Seq(GoodTask(p))
      /\ \A u \in Peers : tasks'[u] = IF u = p THEN tasks[p] \o q ELSE tasks[u]
  BY <1>5 DEF ChannelsInv, TypeInv
<1> HIDE DEF C
<1>7. Signalled(p, C, D)
  <2> DEFINE T == tasks[p]
             U == T \o q
  <2>1. ASSUME NEW s \in Sids
        PROVE  /\ About(U, "OPEN", s) = About(T, "OPEN", s)
               /\ About(U, "DATA", s) = About(T, "DATA", s)
               /\ Has(U, "CLOSING", s) <=> Has(T, "CLOSING", s) \/ s \in C
               /\ Has(U, "CLOSED", s) <=> Has(T, "CLOSED", s) \/ s \in D
               /\ Once(T, s) /\ (s \in D => ~Has(T, "CLOSED", s)) => Once(U, s)
               /\ Warned(T, s) /\ (s \in D => Has(T, "CLOSING", s)) => Warned(U, s)
               /\ \A n : Own(T, s, n) => Own(U, s, n)
               /\ Ends(T, s) => Ends(U, s)
               /\ Follow(T, s) => Follow(U, s)
    <3>1. T \in Seq(GoodTask(p))
      BY <1>6
    <3> HIDE DEF T
    <3> QED BY <1>4, <1>5, <3>1, SignalsOrder, Zenon DEF U
  <2>2. tasks'[p] = U /\ \A u \in Peers : u # p => tasks'[u] = tasks[u]
    BY <1>6
  <2> HIDE DEF U
  <2>3. ASSUME NEW u \in Peers, NEW s \in Sids, u # p
        PROVE  tasks'[u] = tasks[u]
    BY <2>2, <2>3
  <2> QED BY <2>1, <2>2, <2>3, Zenon DEF Signalled, T
<1> QED BY <1>1, <1>2, <1>7 DEF C

(* What the event does to one stream of endpoint p.                        *)
OnStream(p, A, D, s) ==
    LET e == Head(events[p]) IN
    /\ s \in known'[p] <=> s \in known[p] /\ s \notin D
    /\ s \in closure_initiated'[p] <=> s \in closure_initiated[p] /\ s \notin D
    /\ s \in incoming_reset_complete'[p] <=>
           /\ \/ s \in incoming_reset_complete[p]
              \/ Tells(e, "INCOMING_SSN", s) /\ s \in known[p]
           /\ s \notin D
    /\ s \in outgoing_reset_complete'[p] <=>
           /\ \/ s \in outgoing_reset_complete[p]
              \/ Tells(e, "OUTGOING_SSN", s) /\ s \in known[p]
           /\ s \notin D
    /\ s \in outgoing_reset_initiated'[p] <=>
           (s \in outgoing_reset_initiated[p] /\ s \notin D) \/ s \in A
    /\ s \in request'[p] <=> s \in request[p] \/ s \in A
    /\ s \in A =>
           /\ s \notin D /\ s \notin outgoing_reset_initiated[p]
           /\ s \in known[p]
           /\ \/ s \in closure_initiated[p] \cup incoming_reset_complete[p]
              \/ Tells(e, "INCOMING_SSN", s)
    /\ s \in D =>
           /\ s \in known[p]
           /\ \/ Tells(e, "INCOMING_SSN", s) /\ s \in outgoing_reset_complete[p]
              \/ Tells(e, "OUTGOING_SSN", s) /\ s \in incoming_reset_complete[p]

LEMMA HandledStream ==
    ASSUME ChannelsInv, SignalsInv, NEW p \in Peers,
           NEW A \in SUBSET Sids, NEW D \in SUBSET Sids, Handles(p, A, D),
           NEW s \in Sids
    PROVE  OnStream(p, A, D, s)
<1>1. s \in closure_initiated[p] \cup incoming_reset_complete[p] => s \in known[p]
  BY DEF SignalsInv, Streams
<1> QED BY <1>1 DEF Handles, OnStream

(* The peer of endpoint p is left alone.                                   *)
LEMMA HandledPeer ==
    ASSUME NEW p \in Peers, NEW A \in SUBSET Sids, NEW D \in SUBSET Sids,
           Handles(p, A, D), NEW s \in Sids, NEW u \in Peers, u # p
    PROVE  /\ s \in known'[u] <=> s \in known[u]
           /\ s \in closure_initiated'[u] <=> s \in closure_initiated[u]
           /\ s \in incoming_reset_complete'[u] <=> s \in incoming_reset_complete[u]
           /\ s \in outgoing_reset_complete'[u] <=> s \in outgoing_reset_complete[u]
           /\ s \in outgoing_reset_initiated'[u] <=> s \in outgoing_reset_initiated[u]
           /\ s \in request'[u] <=> s \in request[u]
           /\ events'[u] = events[u]
BY DEF Handles

(* The notifications that are left.                                        *)
LEMMA HandledTold ==
    ASSUME ChannelsInv, NEW p \in Peers, NEW A, NEW D, Handles(p, A, D),
           NEW f, NEW s
    PROVE  LET e == Head(events[p]) IN
           /\ Told(events[p], f, s) <=> Tells(e, f, s) \/ Told(events'[p], f, s)
           /\ ToldOnce(events[p], f, s) =>
                  /\ ToldOnce(events'[p], f, s)
                  /\ Tells(e, f, s) => ~Told(events'[p], f, s)
<1>1. /\ events[p] # << >>
      /\ events'[p] = Tail(events[p])
  BY DEF Handles
<1>2. events[p] \in Seq(Event)
  BY DEF ChannelsInv, TypeInv, StreamTypes
<1> QED BY <1>1, <1>2, TailTold

LEMMA EventStreams ==
    ASSUME ChannelsInv, SignalsInv, NEW p \in Peers,
           NEW A \in SUBSET Sids, NEW D \in SUBSET Sids, Handles(p, A, D),
           NEW u \in Peers, NEW s \in Sids
    PROVE  Streams(u, s)'
<1>1. Streams(u, s)
  BY DEF SignalsInv
<1>2. CASE u # p
  BY <1>1, <1>2, HandledPeer DEF Streams
<1>3. CASE u = p
  <2> DEFINE e == Head(events[p])
  <2>1. OnStream(p, A, D, s)
    BY HandledStream
  <2>2. /\ Told(events[p], "OUTGOING_SSN", s) <=>
               Tells(e, "OUTGOING_SSN", s) \/ Told(events'[p], "OUTGOING_SSN", s)
        /\ ToldOnce(events[p], "OUTGOING_SSN", s) =>
               /\ ToldOnce(events'[p], "OUTGOING_SSN", s)
               /\ Tells(e, "OUTGOING_SSN", s) => ~Told(events'[p], "OUTGOING_SSN", s)
    BY HandledTold
  <2> QED BY <1>1, <1>3, <2>1, <2>2 DEF Streams, OnStream, e
<1> QED BY <1>2, <1>3

LEMMA EventLocal ==
    ASSUME ChannelsInv, SignalsInv, NEW p \in Peers,
           NEW A \in SUBSET Sids, NEW D \in SUBSET Sids, Handles(p, A, D),
           Signalled(p, Remotely(p), D), UNCHANGED channelVars,
           NEW u \in Peers, NEW s \in Sids, Local(u, s)
    PROVE  Local(u, s)'
<1> DEFINE e == Head(events[p])
           T == tasks[u]
           U == tasks'[u]
<1>0. UNCHANGED <<state, sid, used>>
  BY DEF channelVars
<1>1. WithSid(u, s)' = WithSid(u, s)
  BY <1>0, ListsSame
<1>2. /\ Has(U, "CLOSING", s) <=> Has(T, "CLOSING", s) \/ (u = p /\ s \in Remotely(p))
      /\ Has(U, "CLOSED", s) <=> Has(T, "CLOSED", s) \/ (u = p /\ s \in D)
      /\ Once(T, s) /\ (u = p /\ s \in D => ~Has(T, "CLOSED", s)) => Once(U, s)
      /\ Warned(T, s) /\ (u = p /\ s \in D => Has(T, "CLOSING", s)) => Warned(U, s)
  BY DEF Signalled
<1>3. CASE u # p
  <2>1. S!is_open(u, s)' <=> S!is_open(u, s)
    BY <1>3, HandledPeer DEF S!is_open
  <2>2. s \in known'[u] <=> s \in known[u]
    BY <1>3, HandledPeer
  <2> HIDE DEF T, U
  <2> QED BY <1>0, <1>1, <1>2, <1>3, <2>1, <2>2 DEF Local, T, U
<1>4. CASE u = p
  <2>1. OnStream(p, A, D, s)
    BY HandledStream
  <2>2. Tells(e, "INCOMING_SSN", s) /\ s \in known[p] /\ s \notin closure_initiated[p]
            => s \in Remotely(p)
    BY DEF Tells, Remotely
  <2>3. Tells(e, "OUTGOING_SSN", s) => Told(events[p], "OUTGOING_SSN", s)
    BY HandledTold
  <2>4. Streams(p, s)
    BY DEF SignalsInv
  <2>5. s \in D => s \in known[p] /\ ~S!is_open(p, s)
    BY <2>1, <2>4 DEF S!is_open, Streams, OnStream
  <2>6. s \in known'[p] /\ ~S!is_open(p, s)' =>
            /\ s \in known[p]
            /\ ~S!is_open(p, s) \/ s \in Remotely(p)
    BY <2>1, <2>2, <2>3, <2>4 DEF S!is_open, Streams, OnStream
  <2>7. /\ s \in known[p] => s \in used[p]
        /\ Has(T, "CLOSED", s) => s \notin known[p] /\ s \in used[p]
        /\ Once(T, s)
        /\ \A n \in WithSid(p, s) : s \in known[p] \/ Has(T, "CLOSED", s)
        /\ \A n \in WithSid(p, s) :
               \/ state[p][n] = "closing"
               \/ /\ Warned(T, s)
                  /\ s \in known[p] /\ ~S!is_open(p, s) => Has(T, "CLOSING", s)
    BY <1>4 DEF Local
  <2> HIDE DEF T, U
  <2>8. /\ s \in known'[p] => s \in used'[p]
        /\ Has(U, "CLOSED", s) => s \notin known'[p] /\ s \in used'[p]
        /\ Once(U, s)
        /\ \A n \in WithSid(p, s) : s \in known'[p] \/ Has(U, "CLOSED", s)
    BY <1>0, <1>2, <1>4, <2>1, <2>7 DEF OnStream
  <2>9. \A n \in WithSid(p, s) :
            \/ state'[p][n] = "closing"
            \/ /\ Warned(U, s)
               /\ s \in known'[p] /\ ~S!is_open(p, s)' => Has(U, "CLOSING", s)
    BY <1>0, <1>2, <1>4, <2>5, <2>6, <2>7
  <2> QED BY <1>1, <1>4, <2>8, <2>9 DEF Local, U
<1> QED BY <1>3, <1>4

LEMMA EventOrder ==
    ASSUME NEW p \in Peers, NEW C, NEW D, Signalled(p, C, D),
           UNCHANGED <<channelVars, wire>>,
           NEW o \in Peers, NEW s \in Sids, Order(o, s)
    PROVE  Order(o, s)'
<1> DEFINE q == Other(o)
<1>0. q \in Peers
  BY TheOther
<1>1. UNCHANGED <<state, sid, used, wire>>
  BY DEF channelVars
<1>2. WithSid(o, s)' = WithSid(o, s) /\ WithSid(q, s)' = WithSid(q, s)
  BY <1>0, <1>1, ListsSame
<1>3. /\ About(tasks'[q], "OPEN", s) = About(tasks[q], "OPEN", s)
      /\ Has(tasks[q], "CLOSING", s) => Has(tasks'[q], "CLOSING", s)
      /\ \A n : Own(tasks[q], s, n) => Own(tasks'[q], s, n)
      /\ Follow(tasks[q], s) => Follow(tasks'[q], s)
  BY <1>0 DEF Signalled
<1>4. /\ About(tasks'[o], "DATA", s) = About(tasks[o], "DATA", s)
      /\ Ends(tasks[o], s) => Ends(tasks'[o], s)
  BY DEF Signalled
<1>5. /\ Has(tasks'[q], "OPEN", s) <=> Has(tasks[q], "OPEN", s)
      /\ Has(tasks'[o], "DATA", s) <=> Has(tasks[o], "DATA", s)
  BY <1>3, <1>4 DEF Has
<1> HIDE DEF q
<1> QED BY <1>1, <1>2, <1>3, <1>4, <1>5 DEF Order, q

LEMMA EventCross ==
    ASSUME ChannelsInv, SignalsInv, NEW p \in Peers,
           NEW A \in SUBSET Sids, NEW D \in SUBSET Sids, Handles(p, A, D),
           NEW C, Signalled(p, C, D), UNCHANGED <<channelVars, wire>>,
           NEW o \in Peers, NEW s \in Sids, Cross(o, s)
    PROVE  Cross(o, s)'
<1> DEFINE q == Other(o)
           e == Head(events[p])
<1>0. q \in Peers /\ o # q /\ (p = o \/ p = q)
  BY TheOther DEF Peers, Other
<1>1. UNCHANGED <<state, sid, used, wire>> /\ performed' = performed
  BY DEF channelVars, Handles
<1>2. WithSid(o, s)' = WithSid(o, s) /\ WithSid(q, s)' = WithSid(q, s)
  BY <1>0, <1>1, ListsSame
<1>3. Opening(o, s)' = Opening(o, s)
  <2>1. About(tasks'[q], "OPEN", s) = About(tasks[q], "OPEN", s)
    BY <1>0 DEF Signalled
  <2> QED BY <1>1, <2>1 DEF Opening
<1>4. Connecting(o, s)' <=> Connecting(o, s)
  BY <1>1, <1>2 DEF Connecting
<1>5. Has(tasks'[o], "CLOSED", s) <=> Has(tasks[o], "CLOSED", s) \/ (o = p /\ s \in D)
  BY DEF Signalled
<1>6. CASE p = o
  <2>1. (Uses(o, s)' <=> Uses(o, s)) /\ (Asked(o, s)' <=> Asked(o, s))
    <3>1. /\ s \in known'[q] <=> s \in known[q]
          /\ s \in outgoing_reset_initiated'[q] <=> s \in outgoing_reset_initiated[q]
          /\ s \in request'[q] <=> s \in request[q]
      BY <1>0, <1>6, HandledPeer
    <3> QED BY <1>1, <3>1 DEF Uses, Asked
  <2>2. /\ Coming(o, s) <=> Tells(e, "INCOMING_SSN", s) \/ Coming(o, s)'
        /\ ToldOnce(events[o], "INCOMING_SSN", s) =>
               /\ ToldOnce(events'[o], "INCOMING_SSN", s)
               /\ Tells(e, "INCOMING_SSN", s) => ~Coming(o, s)'
    BY <1>6, HandledTold DEF Coming
  <2>3. Came(o, s)' => Came(o, s) \/ Tells(e, "INCOMING_SSN", s)
    <3>1. OnStream(p, A, D, s)
      BY HandledStream
    <3> QED BY <1>5, <1>6, <3>1 DEF Came, OnStream, e
  <2>4. ToldOnce(events'[o], "INCOMING_SSN", s)
    BY <2>2 DEF Cross
  <2> HIDE DEF e
  <2>5. CASE Tells(e, "INCOMING_SSN", s)
    <3>1. /\ ~Coming(o, s)' /\ Coming(o, s)
      BY <2>2, <2>5 DEF Cross
    <3>2. /\ ~Asked(o, s) /\ ~Uses(o, s) /\ Opening(o, s) = {}
          /\ ~Connecting(o, s) /\ s \in used[o] /\ Msgs(wire[o][s], "DATA") = {}
      BY <3>1 DEF Cross, Resets
    <3> QED BY <1>1, <1>2, <1>3, <1>4, <2>1, <2>4, <3>1, <3>2 DEF Cross, Resets
  <2>6. CASE ~Tells(e, "INCOMING_SSN", s)
    BY <1>1, <1>2, <1>3, <1>4, <2>1, <2>2, <2>3, <2>4, <2>6, CrossStays
  <2> QED BY <2>5, <2>6
<1>7. CASE p = q
  <2>1. /\ s \in incoming_reset_complete'[o] <=> s \in incoming_reset_complete[o]
        /\ events'[o] = events[o]
    BY <1>0, <1>7, HandledPeer
  <2>2. /\ Coming(o, s)' <=> Coming(o, s)
        /\ Came(o, s)' <=> Came(o, s)
        /\ ToldOnce(events'[o], "INCOMING_SSN", s)
    BY <1>0, <1>5, <1>7, <2>1 DEF Coming, Came, Cross
  <2>3. /\ s \in known'[p] <=> s \in known[p] /\ s \notin D
        /\ s \in outgoing_reset_initiated'[p] <=>
               (s \in outgoing_reset_initiated[p] /\ s \notin D) \/ s \in A
        /\ s \in request'[p] <=> s \in request[p] \/ s \in A
        /\ s \in A => s \in known[p] /\ s \notin outgoing_reset_initiated[p]
    BY HandledStream DEF OnStream
  <2>4. CASE s \in A
    <3>1. Uses(o, s) /\ ~Uses(o, s)'
      BY <1>7, <2>3, <2>4 DEF Uses
    <3> QED BY <1>1, <1>3, <1>4, <2>2, <3>1, AskedCross
  <2>5. CASE s \notin A
    <3>1. (Uses(o, s)' => Uses(o, s)) /\ (Asked(o, s)' => Asked(o, s))
      BY <1>1, <1>7, <2>3, <2>5 DEF Uses, Asked
    <3> QED BY <1>1, <1>2, <1>3, <1>4, <2>2, <3>1, CrossStays
  <2> QED BY <2>4, <2>5
<1> QED BY <1>0, <1>6, <1>7

LEMMA EventSignals ==
    ASSUME ChannelsInv, SignalsInv, NEW p \in Peers, OnStreamResetEvent(p)
    PROVE  SignalsInv'
<1>1. UNCHANGED <<channelVars, wire, lost, aborted>>
  BY EventSignalled DEF channelVars, boundVars
<1>2. PICK A, D \in SUBSET Sids :
          Handles(p, A, D) /\ Signalled(p, Remotely(p), D)
  BY EventSignalled
<1>3. \A u \in Peers, s \in Sids : Streams(u, s)'
  BY <1>2, EventStreams
<1>4. ASSUME NEW s \in Sids, Reaches(s)
      PROVE  Reaches(s)'
  <2>1. \A u \in Peers : Local(u, s)'
    BY <1>1, <1>2, <1>4, EventLocal DEF Reaches
  <2>2. \A o \in Peers : Owns(o, s) => Order(o, s)'
    BY <1>1, <1>2, <1>4, EventOrder DEF Reaches
  <2>3. \A o \in Peers : Owns(o, s) /\ lost = {} => Cross(o, s)'
    BY <1>1, <1>2, <1>4, EventCross DEF Reaches
  <2> QED BY <1>1, <2>1, <2>2, <2>3 DEF Reaches
<1> QED BY <1>1, <1>3, <1>4 DEF SignalsInv

LEMMA SignalsStep == ChannelsInv /\ SignalsInv /\ [Next]_vars => SignalsInv'
<1> SUFFICES ASSUME ChannelsInv, SignalsInv, [Next]_vars
             PROVE  SignalsInv'
  OBVIOUS
<1>1. CASE UNCHANGED vars
  <2>1. UNCHANGED <<state, sid, used, tasks, wire, lost, aborted, streamVars>>
    BY <1>1 DEF vars, channelVars, boundVars
  <2>2. \A u \in Peers : \A s : WithSid(u, s)' = WithSid(u, s)
    BY <2>1, ListsSame
  <2>3. \A s \in Sids : Plain(s)
    BY <2>1, <2>2, LooksItself DEF Plain, streamVars
  <2> QED BY <2>1, <2>3, PlainStep, SignalsKept
<1>2. CASE Next
  <2> PICK p \in Peers : \/ AllocateSctpSids(p) \/ Application(p)
                         \/ SignalingThread(p)
                         \/ NetworkThread(p)
                         \/ OnTransportClosed(p)
    BY <1>2 DEF Next
  <2>1. CASE AllocateSctpSids(p)
    BY <2>1, AllocateSignals
  <2>2. CASE Application(p)
    BY <2>2, CreateSignals, SendSignals, CloseSignals DEF Application
  <2>3. CASE SignalingThread(p)
    BY <2>3, OpenSignals, ReadySignals, ReceiveSignals, ClosingSignals,
       ClosedSignals, AllClosedSignals DEF SignalingThread
  <2>4. CASE NetworkThread(p)
    BY <2>4, ReceivedSignals, EventSignals, PerformSignals, ResponseSignals
       DEF NetworkThread
  <2>5. CASE OnTransportClosed(p)
    BY <2>5, LossSignals
  <2> QED BY <2>1, <2>2, <2>3, <2>4, <2>5
<1> QED BY <1>1, <1>2

(* Unless an abrupt close released the id, data is delivered to the        *)
(* channel it was sent on, and SignalDataChannelTransportChannelClosed_s   *)
(* finds a channel that is closing (the RTC_DCHECK of                      *)
(* OnClosingProcedureComplete), although tasks find their channel by an id *)
(* and ids are given out again: for any number of channels and ids, in any *)
(* interleaving of the two threads of both ends, the transport and the     *)
(* application.                                                            *)
THEOREM SignalsFindTheirChannel == Spec => []SignalsReachTheirChannel
<1>1. Spec => [](ChannelsInv /\ SignalsInv)
  BY ChannelsInit, ChannelsStep, SignalsInit, SignalsStep, PTL DEF Spec
<1> QED BY <1>1, SignalsFound, PTL

=============================================================================

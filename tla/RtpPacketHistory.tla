--------------------------- MODULE RtpPacketHistory ---------------------------
(***************************************************************************)
(* webrtc::RtpPacketHistory (modules/rtp_rtcp/source/rtp_packet_history)   *)
(* and its users: the sender stores the packets it has sent, answers NACKs *)
(* from them through the pacer's queue, and repeats them as padding.       *)
(*                                                                         *)
(* packet_history_ is a deque with one entry for each sequence number from *)
(* the first stored packet on; an entry without a packet has packet None.  *)
(* The age of an entry stands for the time since send_time_ms_: less than  *)
(* an RTT (0), less than the packet duration (1), less than three times    *)
(* that (2), or more (3).                                                  *)
(***************************************************************************)
EXTENDS Integers, Sequences, FiniteSets, FiniteSetsExt

CONSTANTS
    M,                      \* sequence numbers are 0 .. M - 1
    kMaxCapacity, kMaxPaddingHistory, number_to_store,
    Numbers,                \* the sequence numbers of the stream
    MaxInserted,            \* bound: calls of PutRtpPacket
    MaxTimes,               \* bound: times_retransmitted
    MaxResets               \* bound: calls of Clear and SetStorePacketsStatus

ASSUME ModulusAssumption == M \in Nat /\ M % 2 = 0 /\ M > 0
ASSUME NumbersAssumption == Numbers \subseteq 0..(M - 1)
ASSUME LimitAssumption ==
    /\ kMaxCapacity \in Nat \ {0} /\ kMaxPaddingHistory \in Nat \ {0, 1}
    /\ number_to_store \in Nat
    /\ MaxInserted \in Nat /\ MaxTimes \in Nat /\ MaxResets \in Nat

VARIABLES
    enable_padding_prio, stores,    \* the options; is mode_ kStoreAndCull?
    packet_history, padding_priority, packets_inserted,
    queued,     \* retransmissions of each packet that are on their way
                \* from the history to the pacer, or in its queue
    dropped,    \* packets of which the pacer dropped a retransmission
    resets

vars == <<enable_padding_prio, stores, packet_history, padding_priority,
          packets_inserted, queued, dropped, resets>>

None == -1

Placeholder == [packet |-> None, age |-> 0, pending |-> TRUE,
                insert_order |-> 0, times_retransmitted |-> 0]

Init ==
    /\ enable_padding_prio \in BOOLEAN /\ stores = TRUE
    /\ packet_history = << >> /\ padding_priority = {} /\ packets_inserted = 0
    /\ queued = [u \in Numbers |-> 0] /\ dropped = {}
    /\ resets = 0

-----------------------------------------------------------------------------
(* Finding packets.                                                        *)

IsNewer(a, b) == IF a - b = M \div 2 THEN TRUE
                 ELSE a # b /\ (a - b) % M < M \div 2

(* Relative to the front, negative before it.                              *)
GetPacketIndex(history, s) ==
    IF history = << >> THEN 0
    ELSE LET first == history[1].packet IN
         CASE IsNewer(s, first) /\ s < first -> s - first + M
           [] ~IsNewer(s, first) /\ s > first -> s - first - M
           [] OTHER -> s - first

(* The position of s, None if there is no entry for it.                    *)
Position(history, s) ==
    LET i == GetPacketIndex(history, s) + 1
    IN IF i \in 1..Len(history) THEN i ELSE None

(* The position of a stored packet.                                        *)
GetStoredPacket(history, s) ==
    LET i == Position(history, s)
    IN IF i # None /\ history[i].packet # None THEN i ELSE None

-----------------------------------------------------------------------------
(* Removing packets.                                                       *)

(* padding_priority_ is a set of pointers to entries, here their sequence  *)
(* numbers, ordered by MoreUseful; erase goes by that order too.           *)
Key(e) == <<e.times_retransmitted, e.insert_order>>

Erase(padding, history, e) ==
    {s \in padding : Key(history[GetStoredPacket(history, s)]) # Key(e)}

(* Without the entries at the front that have no packet.                   *)
Trim(history) ==
    LET full == {i \in 1..Len(history) : history[i].packet # None}
    IN IF full = {} THEN << >> ELSE SubSeq(history, Min(full), Len(history))

(* Variants: the pointer stays; the front is not trimmed.                  *)
RemovePacketDangling(h, i) ==
    LET history == [h.history EXCEPT ![i].packet = None]
    IN [history |-> IF i = 1 THEN Trim(history) ELSE history,
        padding |-> h.padding]

RemovePacketUntrimmed(h, i) ==
    LET history == [h.history EXCEPT ![i].packet = None]
    IN [history |-> IF i = 1 THEN Tail(history) ELSE history,
        padding |-> Erase(h.padding, h.history, h.history[i])]

(* RemovePacket, on a history and its padding set.                         *)
RemovePacket(h, i) ==
    LET history == [h.history EXCEPT ![i].packet = None]
    IN [history |-> IF i = 1 THEN Trim(history) ELSE history,
        padding |-> Erase(h.padding, h.history, h.history[i])]

(* CullOldPackets removes packets from the front.  At entry i, with the    *)
(* ones before it removed, it stops unless the history is at its maximum   *)
(* or too large, or the packet is too old.                                 *)
(* Variant: packets in the pacer's queue are removed too.                  *)
StopsAtAge(history, i) ==
    LET size == Len(history) - i + 1 IN
    /\ size < kMaxCapacity
    /\ \/ history[i].age < 2
       \/ size < number_to_store /\ history[i].age < 3

StopsAt(history, i) ==
    LET size == Len(history) - i + 1 IN
    /\ size < kMaxCapacity
    /\ \/ history[i].pending
       \/ history[i].age < 2
       \/ size < number_to_store /\ history[i].age < 3

CullOldPackets(h) ==
    LET kept == Min({i \in 1..Len(h.history) :
                        h.history[i].packet # None /\ StopsAt(h.history, i)}
                    \cup {Len(h.history) + 1})
    IN [history |-> SubSeq(h.history, kept, Len(h.history)),
        padding |-> h.padding \ {h.history[i].packet : i \in 1..(kept - 1)}]

-----------------------------------------------------------------------------
(* Operations.                                                             *)

History == [history |-> packet_history, padding |-> padding_priority]

Becomes(h) == packet_history' = h.history /\ padding_priority' = h.padding

Blank(n) == [i \in 1..n |-> Placeholder]

MoreUseful(a, b) ==
    IF a.times_retransmitted # b.times_retransmitted
    THEN a.times_retransmitted < b.times_retransmitted
    ELSE a.insert_order > b.insert_order

EntryOf(history, s) == history[GetStoredPacket(history, s)]

Best(history, padding) ==
    CHOOSE s \in padding : \A t \in padding \ {s} :
        MoreUseful(EntryOf(history, s), EntryOf(history, t))

Worst(history, padding) ==
    CHOOSE s \in padding : \A t \in padding \ {s} :
        MoreUseful(EntryOf(history, t), EntryOf(history, s))

(* Without the least useful packet when the padding set is full.           *)
Limited(h) ==
    IF Cardinality(h.padding) >= kMaxPaddingHistory - 1
    THEN h.padding \ {Worst(h.history, h.padding)} ELSE h.padding

(* PutRtpPacket, of a packet that has just been sent.                      *)
Store(h, s) ==
    LET index == GetPacketIndex(h.history, s)
        wide == Blank(-index) \o h.history
                    \o Blank(index + 1 - Len(h.history))
        at == Max({index, 0}) + 1
        new == [packet |-> s, age |-> 0, pending |-> FALSE,
                insert_order |-> packets_inserted, times_retransmitted |-> 0]
    IN [history |-> [wide EXCEPT ![at] = new],
        padding |-> IF enable_padding_prio THEN Limited(h) \cup {s} ELSE {}]

(* RTPSender::AssignSequenceNumber counts up, and SetSequenceNumber clears *)
(* the history.  So the packets stored at a time are of one stretch of the *)
(* count; it is assumed to be shorter than half a cycle (the capacity is   *)
(* 9600 packets), and a number not to come round while it is queued.       *)
Packets(history) == {history[i].packet : i \in 1..Len(history)} \ {None}

Near(s) ==
    \E base \in 0..(M - 1) : \A t \in Packets(packet_history) \cup {s} :
        (t - base) % M < M \div 2

PutRtpPacket(s) ==
    LET culled == CullOldPackets(History)
        old == GetStoredPacket(culled.history, s)
        free == IF old = None THEN culled ELSE RemovePacket(culled, old)
    IN
    /\ packets_inserted < MaxInserted /\ queued[s] = 0 /\ Near(s)
    /\ stores
    /\ Becomes(Store(free, s))
    /\ packets_inserted' = packets_inserted + 1
    /\ dropped' = dropped \ {s}
    /\ UNCHANGED <<enable_padding_prio, stores, queued, resets>>

(* SetRtt, on every NACK.                                                  *)
SetRtt ==
    /\ stores
    /\ Becomes(CullOldPackets(History))
    /\ UNCHANGED <<enable_padding_prio, stores, packets_inserted, queued,
                   dropped, resets>>

(* IncrementTimesRetransmitted keeps the packet in the padding set.        *)
Repeated(e) == [e EXCEPT !.times_retransmitted = @ + 1, !.age = 0]

VerifyRtt(e) == e.times_retransmitted = 0 \/ e.age > 0

(* ReSendPacket: GetPacketAndMarkAsPending, under the history's lock, and  *)
(* EnqueuePackets after it.  The copy counts as queued from the first on:  *)
(* what happens to the history in between may as well happen while the     *)
(* copy is in the queue, which nothing but the pacer looks at.             *)
ReSendPacket(s) ==
    LET i == GetStoredPacket(packet_history, s) IN
    /\ stores /\ i # None
    /\ ~packet_history[i].pending /\ VerifyRtt(packet_history[i])
    /\ packet_history[i].times_retransmitted < MaxTimes
    /\ packet_history' = [packet_history EXCEPT ![i].pending = TRUE]
    /\ queued' = [queued EXCEPT ![s] = @ + 1]
    /\ dropped' = dropped \ {s}
    /\ UNCHANGED <<enable_padding_prio, stores, padding_priority,
                   packets_inserted, resets>>

(* Variant: the packet remains pending.                                    *)
MarkPacketAsSentPending(i) ==
    [packet_history EXCEPT ![i] = Repeated(@)]

MarkPacketAsSent(i) ==
    [packet_history EXCEPT ![i] = [Repeated(@) EXCEPT !.pending = FALSE]]

(* RtpSenderEgress::SendPacket of a retransmission.                        *)
SendRetransmission(s) ==
    LET i == GetStoredPacket(packet_history, s) IN
    /\ queued[s] > 0
    /\ queued' = [queued EXCEPT ![s] = @ - 1]
    /\ packet_history' = IF stores /\ i # None THEN MarkPacketAsSent(i)
                         ELSE packet_history
    /\ UNCHANGED <<enable_padding_prio, stores, padding_priority,
                   packets_inserted, dropped, resets>>

(* PacketRouter::SendPacket has no module to send it with, or the module   *)
(* rejects it.                                                             *)
DropRetransmission(s) ==
    /\ queued[s] > 0
    /\ queued' = [queued EXCEPT ![s] = @ - 1]
    /\ dropped' = dropped \cup {s}
    /\ UNCHANGED <<enable_padding_prio, stores, packet_history,
                   padding_priority, packets_inserted, resets>>

(* GetPayloadPaddingPacket: the most useful packet, or without priorities  *)
(* the last one; not one that is pending.                                  *)
GetPayloadPaddingPacket ==
    LET full == {i \in 1..Len(packet_history) : packet_history[i].packet # None}
        best == IF enable_padding_prio
                THEN IF padding_priority = {} THEN None
                     ELSE GetStoredPacket(packet_history,
                                          Best(packet_history, padding_priority))
                ELSE IF full = {} THEN None ELSE Max(full)
    IN
    /\ stores /\ best # None
    /\ ~packet_history[best].pending
    /\ packet_history[best].times_retransmitted < MaxTimes
    /\ packet_history' = [packet_history EXCEPT ![best] = Repeated(@)]
    /\ UNCHANGED <<enable_padding_prio, stores, padding_priority,
                   packets_inserted, queued, dropped, resets>>

(* CullAcknowledgedPackets, for one number of the list.                    *)
CullAcknowledgedPackets(s) ==
    LET i == Position(packet_history, s) IN
    /\ i # None
    /\ Becomes(RemovePacket(History, i))
    /\ UNCHANGED <<enable_padding_prio, stores, packets_inserted, queued,
                   dropped, resets>>

(* Clear, or SetStorePacketsStatus(mode).                                  *)
Reset(mode) ==
    /\ resets < MaxResets
    /\ resets' = resets + 1
    /\ stores' = mode
    /\ Becomes([history |-> << >>, padding |-> {}])
    /\ UNCHANGED <<enable_padding_prio, packets_inserted, queued, dropped>>

(* Time passes for an entry.                                               *)
Age(i) ==
    /\ packet_history[i].packet # None /\ packet_history[i].age < 3
    /\ packet_history' = [packet_history EXCEPT ![i].age = @ + 1]
    /\ UNCHANGED <<enable_padding_prio, stores, padding_priority,
                   packets_inserted, queued, dropped, resets>>

Next ==
    \/ \E s \in Numbers :
           \/ PutRtpPacket(s) \/ ReSendPacket(s)
           \/ SendRetransmission(s) \/ DropRetransmission(s)
           \/ CullAcknowledgedPackets(s)
    \/ SetRtt \/ GetPayloadPaddingPacket
    \/ \E mode \in BOOLEAN : Reset(mode)
    \/ \E i \in 1..Len(packet_history) : Age(i)

Spec == Init /\ [][Next]_vars

-----------------------------------------------------------------------------
(* Properties.                                                             *)

(* The deque is indexed by sequence number: whatever is put out of order,  *)
(* removed in the middle or culled, and across the wrap-around, the front  *)
(* holds a packet (the RTC_DCHECK in GetPacketIndex) and every packet is   *)
(* at its distance from the front.                                         *)
EntriesAreInPlace ==
    packet_history # << >> =>
        /\ packet_history[1].packet # None
        /\ \A i \in 1..Len(packet_history) :
               packet_history[i].packet \in
                   {None, (packet_history[1].packet + i - 1) % M}

(* No pointer of padding_priority_ dangles: each points to an entry that   *)
(* is in the deque and has a packet.                                       *)
PaddingIsStored ==
    padding_priority \subseteq Packets(packet_history)

(* "Packet already in pacer queue, ignore this request": however NACKs,    *)
(* padding and the pacer interleave, a packet is queued for retransmission *)
(* at most once, and only packets that really are in the queue are         *)
(* pending, so that none is exempt from culling and retransmission for     *)
(* good; the exception are packets whose retransmission the pacer dropped. *)
PendingIsQueued ==
    /\ \A s \in Numbers : queued[s] <= 1
    /\ \A i \in 1..Len(packet_history) :
          LET e == packet_history[i] IN
          e.packet # None /\ e.pending =>
              queued[e.packet] = 1 \/ e.packet \in dropped

(* "Don't remove packets in the pacer queue": short of the capacity,       *)
(* culling keeps them.                                                     *)
Pending == {packet_history[i].packet :
               i \in {j \in 1..Len(packet_history) : packet_history[j].pending}}
           \ {None}

CullingKeeps(packets) ==
    Len(packet_history) < kMaxCapacity => Pending \cap packets \subseteq Pending'

CullingKeepsPending ==
    [][ /\ SetRtt => CullingKeeps(0..(M - 1))
        /\ \A s \in Numbers :
               PutRtpPacket(s) => CullingKeeps((0..(M - 1)) \ {s})
      ]_vars

=============================================================================

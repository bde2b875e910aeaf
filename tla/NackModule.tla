------------------------------ MODULE NackModule ------------------------------
(***************************************************************************)
(* webrtc::NackModule (modules/video_coding/nack_module.{h,cc}): which     *)
(* packets of a video stream are missing, and when to ask the sender for   *)
(* them again.                                                             *)
(*                                                                         *)
(* The module sees sequence numbers that wrap around at M (2^16 in the     *)
(* code); the network and the properties use the numbers the sender        *)
(* counted, which do not wrap.  Time is reduced to whether the delay that  *)
(* an entry of nack_list waits for has passed.                             *)
(***************************************************************************)
EXTENDS Integers, FiniteSets, FiniteSetsExt, Functions

CONSTANTS
    M,                  \* sequence numbers are 0 .. M - 1
    kMaxPacketAge, kMaxNackPackets, kMaxNackRetries,
    First, Last,        \* the packets of the stream
    MaxJump,            \* bound: a packet is this far ahead of the newest
    MaxDelay,           \* bound: and arrives this far behind it
    MaxKeyframes,       \* bound: key frames in the window
    MaxRecovered        \* bound: packets in recovered_list

ASSUME ModulusAssumption == M \in Nat /\ M % 2 = 0 /\ M > 0
ASSUME LimitAssumption ==
    /\ kMaxPacketAge \in Nat /\ kMaxNackPackets \in Nat
    /\ kMaxNackRetries \in Nat \ {0}
    /\ kMaxNackPackets <= kMaxPacketAge
    /\ First \in Nat /\ Last \in Nat /\ MaxKeyframes \in Nat
    /\ MaxRecovered \in Nat
(* No reordering or loss comes near half a cycle (32768 packets).          *)
ASSUME WindowAssumption ==
    /\ MaxJump \in Nat /\ MaxDelay \in Nat
    /\ MaxJump + kMaxPacketAge < M \div 2 /\ MaxJump + MaxDelay < M \div 2
(* Nor is a packet further ahead than packets are kept (10000).            *)
ASSUME JumpAssumption == MaxJump <= kMaxPacketAge

VARIABLES
    send_nack_delay,    \* is the field trial WebRTC-SendNackDelayMs on?
    initialized, newest_seq_num, nack_list, keyframe_list, recovered_list,
    \* what really happened, in the sender's numbers:
    top,            \* the newest packet
    received,       \* packets that arrived or were recovered
    keyframes,      \* of these, first packets of key frames
    asked,          \* how often each packet was asked for
    cleared,        \* packets before this one were given up by ClearUpTo
    refresh         \* and before this one by a request for a key frame

vars == <<send_nack_delay, initialized, newest_seq_num, nack_list,
          keyframe_list, recovered_list, top, received, keyframes, asked,
          cleared, refresh>>

Numbers == First..Last

Init ==
    /\ send_nack_delay \in BOOLEAN
    /\ initialized = FALSE /\ newest_seq_num = 0
    /\ nack_list = << >> /\ keyframe_list = {} /\ recovered_list = {}
    /\ top = First /\ received = {} /\ keyframes = {}
    /\ asked = [u \in Numbers |-> 0]
    /\ cleared = First /\ refresh = First

-----------------------------------------------------------------------------
(* Sequence numbers (rtc_base/numerics).                                   *)

ForwardDiff(a, b) == (b - a) % M

(* Variant: numbers are compared as if they never wrapped.                 *)
AheadOrAtUnwrapped(a, b) == a >= b

AheadOrAt(a, b) == a - b = M \div 2 \/ ForwardDiff(b, a) < M \div 2

AheadOf(a, b) == a # b /\ AheadOrAt(a, b)

(* erase(begin(), lower_bound(a)) of a list in sequence number order.      *)
From(S, a) == {b \in S : ~AheadOf(a, b)}

-----------------------------------------------------------------------------
(* Which packets to ask for.                                               *)

Entry == [retries : 0..(kMaxNackRetries - 1), wait : {"delay", "rtt", "no"}]

NewEntry == [retries |-> 0, wait |-> IF send_nack_delay THEN "delay" ELSE "no"]

(* GetNackBatch: by sequence number, entries that were never asked for     *)
(* (send_at_seq_num is the entry's own number, as the reordering           *)
(* statistics are never updated); by time, entries whose delay passed.     *)
GetNackBatch(list, newest, by_time) ==
    {s \in DOMAIN list :
        /\ list[s].wait = "no"
        /\ by_time \/ (list[s].retries = 0 /\ AheadOrAt(newest, s))}

(* Variant: the limit is checked before the retry is counted.              *)
AfterBatchLate(list, batch) ==
    [s \in {s \in DOMAIN list :
                s \in batch => list[s].retries < kMaxNackRetries} |->
        IF s \in batch THEN [retries |-> list[s].retries + 1, wait |-> "rtt"]
                       ELSE list[s]]

(* And what it does to the entries.                                        *)
AfterBatch(list, batch) ==
    [s \in {s \in DOMAIN list :
                s \in batch => list[s].retries + 1 < kMaxNackRetries} |->
        IF s \in batch THEN [retries |-> list[s].retries + 1, wait |-> "rtt"]
                       ELSE list[s]]

(* AddPacketsToNack(start, end).  The packets between, without those that  *)
(* were recovered, follow the entries that are not too old.  When there    *)
(* are too many, RemovePacketsUntilKeyFrame tries the key frames from the  *)
(* oldest one on; if none helps the list is cleared and a key frame is     *)
(* requested.                                                              *)
Between(start, end) ==
    {(start + i) % M : i \in 0..(ForwardDiff(start, end) - 1)}

Fits(list, start, end) ==
    Cardinality(list) + ForwardDiff(start, end) <= kMaxNackPackets

Helpful(list, kfs, start, end) == {k \in kfs : Fits(From(list, k), start, end)}

Oldest(S) == CHOOSE k \in S : \A j \in S : AheadOrAt(j, k)

(* Variant: the new packets are not counted.                               *)
AddPacketsToNackUncounted(list, kfs, start, end) ==
    LET old == From(DOMAIN list, (end - kMaxPacketAge) % M) IN
    [keep |-> IF Cardinality(old) <= kMaxNackPackets THEN old ELSE {},
     add |-> IF Cardinality(old) <= kMaxNackPackets
             THEN Between(start, end) \ recovered_list ELSE {},
     keyframes |-> kfs, request |-> Cardinality(old) > kMaxNackPackets]

AddPacketsToNack(list, kfs, start, end) ==
    LET old == From(DOMAIN list, (end - kMaxPacketAge) % M)
        helpful == IF Fits(old, start, end) THEN {}
                   ELSE Helpful(old, kfs, start, end)
    IN IF Fits(old, start, end) \/ helpful # {}
       THEN LET k == Oldest(helpful) IN
            [keep |-> IF helpful = {} THEN old ELSE From(old, k),
             add |-> Between(start, end) \ recovered_list,
             keyframes |-> IF helpful = {} THEN kfs ELSE From(kfs, k),
             request |-> FALSE]
       ELSE [keep |-> {}, add |-> {}, keyframes |-> {}, request |-> TRUE]

-----------------------------------------------------------------------------
(* OnReceivedPacket, one action for each way through it.  Packet u of the  *)
(* sender arrives or was recovered from others.                            *)

(* The sender's number of an entry, which is not ahead of newest.          *)
Sent(s, newest) == newest - ((newest - s) % M)

Ask(batch, newest) ==
    asked' = [u \in Numbers |-> asked[u] +
                 (IF \E s \in batch : Sent(s, newest) = u THEN 1 ELSE 0)]

Arrives(u, is_keyframe, is_recovered) ==
    /\ received' = received \cup {u}
    /\ top' = IF is_recovered THEN top ELSE Max({top, u})
    /\ keyframes' = IF is_keyframe THEN keyframes \cup {u} ELSE keyframes

OnFirstPacket(u, is_keyframe) ==
    /\ ~initialized /\ u = First
    /\ initialized' = TRUE
    /\ newest_seq_num' = u % M
    /\ keyframe_list' = IF is_keyframe THEN {u % M} ELSE {}
    /\ Arrives(u, is_keyframe, FALSE)
    /\ UNCHANGED <<send_nack_delay, nack_list, recovered_list, asked,
                   cleared, refresh>>

(* Variant: the packet stays in the list.                                  *)
OnOldPacketKept(u) ==
    /\ initialized /\ AheadOrAt(newest_seq_num, u % M)
    /\ Arrives(u, FALSE, FALSE)
    /\ UNCHANGED <<send_nack_delay, initialized, newest_seq_num, nack_list,
                   keyframe_list, recovered_list, asked, cleared, refresh>>

(* The newest packet again, or one that is out of order.                   *)
OnOldPacket(u) ==
    /\ initialized /\ AheadOrAt(newest_seq_num, u % M)
    /\ nack_list' = IF u % M = newest_seq_num THEN nack_list
                    ELSE Restrict(nack_list, DOMAIN nack_list \ {u % M})
    /\ Arrives(u, FALSE, FALSE)
    /\ UNCHANGED <<send_nack_delay, initialized, newest_seq_num,
                   keyframe_list, recovered_list, asked, cleared, refresh>>

Keyframes(s, is_keyframe) ==
    From(IF is_keyframe THEN keyframe_list \cup {s} ELSE keyframe_list,
         (s - kMaxPacketAge) % M)

OnRecoveredPacket(u, is_keyframe) ==
    /\ initialized /\ AheadOf(u % M, newest_seq_num)
    /\ keyframe_list' = Keyframes(u % M, is_keyframe)
    /\ recovered_list' =
           From(recovered_list \cup {u % M}, (u - kMaxPacketAge) % M)
    /\ Arrives(u, is_keyframe, TRUE)
    /\ UNCHANGED <<send_nack_delay, initialized, newest_seq_num, nack_list,
                   asked, cleared, refresh>>

OnNewPacket(u, is_keyframe) ==
    LET s == u % M
        add == AddPacketsToNack(nack_list, Keyframes(s, is_keyframe),
                                (newest_seq_num + 1) % M, s)
        list == [t \in add.keep \cup add.add |->
                    IF t \in add.add THEN NewEntry ELSE nack_list[t]]
        batch == GetNackBatch(list, s, FALSE)
    IN
    /\ initialized /\ AheadOf(s, newest_seq_num)
    /\ newest_seq_num' = s
    /\ nack_list' = AfterBatch(list, batch)
    /\ keyframe_list' = add.keyframes
    /\ refresh' = IF add.request THEN u ELSE refresh
    /\ Ask(batch, u)
    /\ Arrives(u, is_keyframe, FALSE)
    /\ UNCHANGED <<send_nack_delay, initialized, recovered_list, cleared>>

(* What the network may deliver: packets of the window around the newest   *)
(* one.  The receiver is assumed to clear or recover something at least    *)
(* once in half a cycle, so that recovered_list does not span more.        *)
Window == {u \in Numbers : u >= top - MaxDelay /\ u <= top + MaxJump}

KeepsUp(u) ==
    \A s \in recovered_list : ForwardDiff(s, (u + MaxJump) % M) < M \div 2

CanBeKeyframe(u) == Cardinality(keyframes \cup {u}) <= MaxKeyframes

CanBeRecovered(u) == Cardinality(recovered_list \cup {u % M}) <= MaxRecovered

OnReceivedPacket ==
    \E u \in Window, is_keyframe \in BOOLEAN :
        /\ KeepsUp(u) /\ (is_keyframe => CanBeKeyframe(u))
        /\ \/ OnFirstPacket(u, is_keyframe)
           \/ OnOldPacket(u)
           \/ CanBeRecovered(u) /\ OnRecoveredPacket(u, is_keyframe)
           \/ OnNewPacket(u, is_keyframe)

-----------------------------------------------------------------------------

(* A frame up to packet u became continuous                                *)
(* (RtpVideoStreamReceiver::FrameContinuous).                              *)
ClearUpTo(u) ==
    /\ initialized /\ u \in received \cap Window
    /\ nack_list' = Restrict(nack_list, From(DOMAIN nack_list, u % M))
    /\ keyframe_list' = From(keyframe_list, u % M)
    /\ recovered_list' = From(recovered_list, u % M)
    /\ cleared' = Max({cleared, u})
    /\ UNCHANGED <<send_nack_delay, initialized, newest_seq_num, top,
                   received, keyframes, asked, refresh>>

(* Variant: packets are not asked for again with time.                     *)
ProcessBySeqNum ==
    LET batch == GetNackBatch(nack_list, newest_seq_num, FALSE) IN
    /\ batch # {}
    /\ nack_list' = AfterBatch(nack_list, batch)
    /\ Ask(batch, top)
    /\ UNCHANGED <<send_nack_delay, initialized, newest_seq_num,
                   keyframe_list, recovered_list, top, received, keyframes,
                   cleared, refresh>>

(* Process, of the process thread.                                         *)
Process ==
    LET batch == GetNackBatch(nack_list, newest_seq_num, TRUE) IN
    /\ batch # {}
    /\ nack_list' = AfterBatch(nack_list, batch)
    /\ Ask(batch, top)
    /\ UNCHANGED <<send_nack_delay, initialized, newest_seq_num,
                   keyframe_list, recovered_list, top, received, keyframes,
                   cleared, refresh>>

(* The nack delay, or the time to resend (rtt_ms_ with the backoff), is    *)
(* over for an entry.                                                      *)
Elapse(s) ==
    /\ s \in DOMAIN nack_list /\ nack_list[s].wait # "no"
    /\ nack_list' = [nack_list EXCEPT ![s].wait = "no"]
    /\ UNCHANGED <<send_nack_delay, initialized, newest_seq_num,
                   keyframe_list, recovered_list, top, received, keyframes,
                   asked, cleared, refresh>>

Next ==
    \/ OnReceivedPacket
    \/ \E u \in received : ClearUpTo(u)
    \/ Process
    \/ \E s \in 0..(M - 1) : Elapse(s)

Spec == Init /\ [][Next]_vars

(* Time passes and the process thread runs; packets may all be lost.       *)
FairSpec ==
    Spec /\ WF_vars(Process) /\ \A u \in Numbers : WF_vars(Elapse(u % M))

-----------------------------------------------------------------------------
(* Properties.                                                             *)

Listed(u) == \E s \in DOMAIN nack_list : Sent(s, top) = u

(* The list never exceeds kMaxNackPackets, and the sequence numbers in a   *)
(* list are in a strict order, without which lower_bound means nothing:    *)
(* "the interval covered by the sequence numbers may not be larger than    *)
(* floor(M/2)" (rtc_base/numerics/sequence_number_util.h).                 *)
Ordered(S) == \A a, b, c \in S : AheadOf(a, b) /\ AheadOf(b, c) => AheadOf(a, c)

ListsAreSmall ==
    /\ Cardinality(DOMAIN nack_list) <= kMaxNackPackets
    /\ Ordered(DOMAIN nack_list \cup {newest_seq_num})
    /\ Ordered(keyframe_list \cup {newest_seq_num})

(* Packets that arrived, in whatever order and however they were           *)
(* recovered, are not asked for.  One case is left open: a recovered       *)
(* packet that ClearUpTo took from recovered_list before newest_seq_num    *)
(* reached it.                                                             *)
NackedAreMissing ==
    \A u \in received : Listed(u) => u < cleared

(* A packet is asked for at most kMaxNackRetries times over its life: one  *)
(* that left the list never comes back.                                    *)
AskedAtMost == \A u \in Numbers : asked[u] <= kMaxNackRetries

(* No loss is forgotten: a packet before the newest one that neither       *)
(* arrived nor is in the list is too old, was asked for as often as        *)
(* possible, is older than a key frame that arrived, or was given up by    *)
(* ClearUpTo or by the request for a key frame.                            *)
NoSilentLoss ==
    \A u \in First..(top - 1) : u \notin received /\ ~Listed(u) =>
        \/ u < top - kMaxPacketAge
        \/ asked[u] = kMaxNackRetries
        \/ \E k \in keyframes : u < k
        \/ u < cleared \/ u < refresh

(* Whatever is missing is asked for until it arrives or is given up.       *)
MissingIsResolved == \A u \in Numbers : Listed(u) ~> ~Listed(u)

=============================================================================

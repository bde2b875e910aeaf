------------------------ MODULE RtpPacketHistoryProofs ------------------------
(***************************************************************************)
(* Theorems about RtpPacketHistory.                                        *)
(***************************************************************************)
EXTENDS RtpPacketHistory, WellFoundedInduction, TLAPS

Half == M \div 2

LEMMA HalfOfModulus ==
    Half \in Nat /\ Half > 0 /\ Half + Half = M /\ M \in Nat /\ M > 0
BY ModulusAssumption DEF Half

LEMMA Remainder ==
    \A x \in Int : /\ 0 <= x /\ x < M => x % M = x
                   /\ 0 <= x - M /\ x - M < M => x % M = x - M
                   /\ 0 <= x + M /\ x + M < M => x % M = x + M
BY ModulusAssumption, SMTT(30)

(* Distances between numbers that lie within half a cycle.                 *)
LEMMA WithinHalf ==
    ASSUME NEW s \in 0..(M - 1), NEW f \in 0..(M - 1), NEW base \in 0..(M - 1),
           (s - base) % M < Half, (f - base) % M < Half
    PROVE  LET d == ((s - base) % M) - ((f - base) % M)
           IN /\ d \in Int /\ -Half < d /\ d < Half
              /\ d \in {s - f, s - f + M, s - f - M}
<1>1. /\ s - base \in Int /\ f - base \in Int /\ base \in Int /\ s \in Int
      /\ f \in Int
  BY ModulusAssumption
<1>2. (s - base) % M = IF s >= base THEN s - base ELSE s - base + M
  BY <1>1, Remainder, ModulusAssumption
<1>3. (f - base) % M = IF f >= base THEN f - base ELSE f - base + M
  BY <1>1, Remainder, ModulusAssumption
<1> DEFINE x == (s - base) % M
           y == (f - base) % M
<1>4. x < Half /\ y < Half
  OBVIOUS
<1> HIDE DEF x, y
<1>5. /\ x - y \in Int /\ -Half < x - y /\ x - y < Half
      /\ x - y \in {s - f, s - f + M, s - f - M}
  BY <1>1, <1>2, <1>3, <1>4, HalfOfModulus DEF x, y
<1> QED BY <1>5 DEF x, y

-----------------------------------------------------------------------------
(* The deque.                                                              *)

Entry == [packet : Numbers \cup {None}, age : Nat, pending : BOOLEAN,
          insert_order : Nat, times_retransmitted : Nat]

(* The stored entries.                                                     *)
Stored(h) == {e \in {h[i] : i \in 1..Len(h)} : e.packet # None}

(* The k-th number from f on.                                              *)
Ahead(f, k) == (f + k) % M

(* Every packet is at its distance from number f, at most half a cycle.    *)
PlacedFrom(h, f) ==
    \A i \in 1..Len(h) : h[i].packet # None =>
        i <= Half /\ h[i].packet = Ahead(f, i - 1)

InPlace(h) ==
    h # << >> => h[1].packet # None /\ PlacedFrom(h, h[1].packet)

LEMMA AheadIs ==
    ASSUME NEW f \in 0..(M - 1), NEW k \in 0..(M - 1)
    PROVE  /\ Ahead(f, k) = IF f + k < M THEN f + k ELSE f + k - M
           /\ Ahead(f, k) \in 0..(M - 1)
<1>1. f + k \in Int /\ f \in Int /\ k \in Int
  BY ModulusAssumption
<1> QED BY <1>1, Remainder, ModulusAssumption DEF Ahead

(* Ahead of a number that is ahead.                                        *)
LEMMA AheadOfAhead ==
    ASSUME NEW f \in 0..(M - 1), NEW j \in Nat, NEW k \in Nat, j + k < M
    PROVE  Ahead(Ahead(f, j), k) = Ahead(f, j + k)
<1>1. j \in 0..(M - 1) /\ k \in 0..(M - 1) /\ j + k \in 0..(M - 1)
  BY ModulusAssumption
<1>2. Ahead(f, j) \in 0..(M - 1)
  BY <1>1, AheadIs
<1>3. Ahead(f, j) = IF f + j < M THEN f + j ELSE f + j - M
  BY <1>1, AheadIs
<1>4. Ahead(f, j + k) = IF f + (j + k) < M THEN f + (j + k) ELSE f + (j + k) - M
  BY <1>1, AheadIs
<1> DEFINE a == Ahead(f, j)
<1> HIDE DEF a
<1>5. Ahead(a, k) = IF a + k < M THEN a + k ELSE a + k - M
  BY <1>1, <1>2, AheadIs DEF a
<1>6. Ahead(a, k) = Ahead(f, j + k)
  BY <1>1, <1>3, <1>4, <1>5, ModulusAssumption DEF a
<1> QED BY <1>6 DEF a

LEMMA AheadDiffers ==
    ASSUME NEW f \in 0..(M - 1), NEW j \in 0..(M - 1), NEW k \in 0..(M - 1),
           Ahead(f, j) = Ahead(f, k)
    PROVE  j = k
<1>1. Ahead(f, j) = IF f + j < M THEN f + j ELSE f + j - M
  BY AheadIs
<1>2. Ahead(f, k) = IF f + k < M THEN f + k ELSE f + k - M
  BY AheadIs
<1> DEFINE a == Ahead(f, j)
<1> HIDE DEF a
<1>3. a = IF f + j < M THEN f + j ELSE f + j - M
  BY <1>1 DEF a
<1>4. a = IF f + k < M THEN f + k ELSE f + k - M
  BY <1>2 DEF a
<1> QED BY <1>3, <1>4, HalfOfModulus

(* The front's number and the distances from it.                           *)
LEMMA FrontNumber ==
    ASSUME NEW h \in Seq(Entry), InPlace(h), h # << >>
    PROVE  /\ h[1].packet \in Numbers /\ h[1].packet \in 0..(M - 1)
           /\ 1 \in 1..Len(h) /\ h[1].packet # None
<1>1. 1 \in 1..Len(h)
  OBVIOUS
<1>2. h[1] \in Entry /\ h[1].packet # None
  BY <1>1 DEF InPlace
<1>3. h[1].packet \in Numbers
  BY <1>2 DEF Entry
<1> QED BY <1>1, <1>2, <1>3, NumbersAssumption

(* A packet is found where it is.                                          *)
LEMMA IndexOfAhead ==
    ASSUME NEW f \in 0..(M - 1), NEW k \in 0..(Half - 1)
    PROVE  LET s == Ahead(f, k) IN
           /\ (IsNewer(s, f) /\ s < f => s - f + M = k)
           /\ ~(~IsNewer(s, f) /\ s > f)
           /\ (~(IsNewer(s, f) /\ s < f) => s - f = k)
<1>1. k \in 0..(M - 1) /\ f \in Int /\ k \in Int
  BY HalfOfModulus
<1>2. Ahead(f, k) = IF f + k < M THEN f + k ELSE f + k - M
  BY <1>1, AheadIs
<1>3. CASE f + k < M
  <2>1. Ahead(f, k) - f = k
    BY <1>1, <1>2, <1>3
  <2>2. (Ahead(f, k) - f) % M = k
    BY <1>1, <2>1, Remainder, ModulusAssumption
  <2> QED BY <1>1, <1>2, <1>3, <2>1, <2>2, HalfOfModulus DEF IsNewer, Half
<1>4. CASE ~(f + k < M)
  <2>1. Ahead(f, k) - f = k - M
    BY <1>1, <1>2, <1>4, ModulusAssumption
  <2>2. (k - M) % M = k
    BY <1>1, Remainder, ModulusAssumption
  <2> QED BY <1>1, <1>2, <1>4, <2>1, <2>2, HalfOfModulus DEF IsNewer, Half
<1> QED BY <1>3, <1>4

LEMMA FoundInPlace ==
    ASSUME NEW h \in Seq(Entry), InPlace(h), NEW i \in 1..Len(h),
           h[i].packet # None
    PROVE  GetStoredPacket(h, h[i].packet) = i
<1> DEFINE f == h[1].packet
           s == h[i].packet
<1>1. h # << >> /\ Len(h) \in Nat
  OBVIOUS
<1>2. f \in 0..(M - 1)
  BY <1>1, FrontNumber
<1>3. i - 1 \in 0..(Half - 1) /\ s = Ahead(f, i - 1)
  BY <1>1, HalfOfModulus DEF InPlace, PlacedFrom
<1> HIDE DEF f, s
<1>4. GetPacketIndex(h, s) = i - 1
  <2>1. GetPacketIndex(h, s) =
            CASE IsNewer(s, f) /\ s < f -> s - f + M
              [] ~IsNewer(s, f) /\ s > f -> s - f - M
              [] OTHER -> s - f
    BY <1>1 DEF GetPacketIndex, f
  <2>2. /\ (IsNewer(s, f) /\ s < f => s - f + M = i - 1)
        /\ ~(~IsNewer(s, f) /\ s > f)
        /\ (~(IsNewer(s, f) /\ s < f) => s - f = i - 1)
    BY <1>2, <1>3, IndexOfAhead
  <2> QED BY <2>1, <2>2
<1>5. i # None
  BY <1>1 DEF None
<1>6. i - 1 + 1 = i
  BY <1>1
<1> QED BY <1>4, <1>5, <1>6 DEF GetStoredPacket, Position, s

(* What GetPacketIndex computes.                                           *)
LEMMA IndexIs ==
    ASSUME NEW h \in Seq(Entry), InPlace(h), h # << >>, NEW s \in 0..(M - 1)
    PROVE  LET f == h[1].packet
               index == GetPacketIndex(h, s)
           IN /\ index \in Int /\ index \in {s - f, s - f + M, s - f - M}
              /\ -M < index /\ index < M
              /\ index >= 0 => Ahead(f, index) = s
              /\ index < 0 => Ahead(s, -index) = f
<1> DEFINE f == h[1].packet
           index == GetPacketIndex(h, s)
<1>1. f \in 0..(M - 1)
  BY FrontNumber
<1>2. index = CASE IsNewer(s, f) /\ s < f -> s - f + M
                [] ~IsNewer(s, f) /\ s > f -> s - f - M
                [] OTHER -> s - f
  BY DEF GetPacketIndex
<1> HIDE DEF f, index
<1>3. \/ s < f /\ index = s - f + M
      \/ s > f /\ index = s - f - M
      \/ index = s - f
  BY <1>2
<1>4. /\ index \in Int /\ index \in {s - f, s - f + M, s - f - M}
      /\ -M < index /\ index < M
  BY <1>1, <1>3, HalfOfModulus
<1>5. ASSUME index >= 0
      PROVE  Ahead(f, index) = s
  <2>1. index \in 0..(M - 1)
    BY <1>4, <1>5, HalfOfModulus
  <2>2. Ahead(f, index) = IF f + index < M THEN f + index ELSE f + index - M
    BY <1>1, <2>1, AheadIs
  <2>3. \A a : a = (IF f + index < M THEN f + index ELSE f + index - M) => a = s
    BY <1>1, <1>4, <2>1, HalfOfModulus
  <2> QED BY <2>2, <2>3
<1>6. ASSUME index < 0
      PROVE  Ahead(s, -index) = f
  <2>1. -index \in 0..(M - 1)
    BY <1>4, <1>6, HalfOfModulus
  <2>2. Ahead(s, -index) = IF s + (-index) < M THEN s + (-index)
                           ELSE s + (-index) - M
    BY <2>1, AheadIs
  <2>3. \A a : a = (IF s + (-index) < M THEN s + (-index)
                    ELSE s + (-index) - M) => a = f
    BY <1>1, <1>4, <2>1, HalfOfModulus
  <2> QED BY <2>2, <2>3
<1> QED BY <1>4, <1>5, <1>6 DEF f, index

(* What is found is the packet that was looked for.                        *)
LEMMA FoundIsIt ==
    ASSUME NEW h \in Seq(Entry), InPlace(h), NEW s \in Numbers,
           GetStoredPacket(h, s) # None
    PROVE  /\ GetStoredPacket(h, s) \in 1..Len(h)
           /\ h[GetStoredPacket(h, s)].packet = s
<1> DEFINE i == Position(h, s)
<1>1. /\ GetStoredPacket(h, s) = i /\ i # None /\ h[i].packet # None
  BY DEF GetStoredPacket
<1>2. i = GetPacketIndex(h, s) + 1 /\ i \in 1..Len(h)
  BY <1>1 DEF Position
<1>3. h # << >> /\ s \in 0..(M - 1)
  BY <1>2, NumbersAssumption
<1> DEFINE f == h[1].packet
           index == GetPacketIndex(h, s)
<1>4. index \in Int /\ (index >= 0 => Ahead(f, index) = s)
  BY <1>3, IndexIs
<1> HIDE DEF index, i
<1>5. index = i - 1 /\ index >= 0
  BY <1>2, <1>4 DEF index
<1>6. h[i].packet = Ahead(f, i - 1)
  BY <1>1, <1>2, <1>3 DEF InPlace, PlacedFrom
<1> QED BY <1>1, <1>2, <1>4, <1>5, <1>6

LEMMA OnePlace ==
    ASSUME NEW h \in Seq(Entry), InPlace(h), NEW i \in 1..Len(h),
           NEW j \in 1..Len(h), h[i].packet # None, h[j].packet = h[i].packet
    PROVE  i = j
<1>1. GetStoredPacket(h, h[i].packet) = i
  BY FoundInPlace
<1>2. GetStoredPacket(h, h[j].packet) = j
  BY FoundInPlace
<1> QED BY <1>1, <1>2

LEMMA InStored ==
    ASSUME NEW h, NEW e
    PROVE  e \in Stored(h) <=>
               e.packet # None /\ \E i \in 1..Len(h) : e = h[i]
BY DEF Stored

LEMMA StoredIsEntry ==
    ASSUME NEW h \in Seq(Entry), NEW e \in Stored(h)
    PROVE  e \in Entry /\ e.packet \in Numbers /\ e.packet # None
<1>1. PICK i \in 1..Len(h) : e = h[i] /\ e.packet # None
  BY DEF Stored
<1>2. e \in Entry
  BY <1>1
<1> QED BY <1>1, <1>2 DEF Entry

LEMMA InPackets ==
    ASSUME NEW h, NEW s
    PROVE  s \in Packets(h) <=> s # None /\ \E e \in Stored(h) : e.packet = s
BY DEF Packets, Stored

(* The rest of a deque from a stored packet on.                            *)
IsRest(g, h, k) ==
    /\ g \in Seq(Entry) /\ Len(g) = Len(h) - k + 1
    /\ \A i \in 1..Len(g) : i + k - 1 \in 1..Len(h) /\ g[i] = h[i + k - 1]
    /\ \A e : e \in Stored(g) <=>
           e.packet # None /\ \E i \in k..Len(h) : e = h[i]

LEMMA Rest ==
    ASSUME NEW h \in Seq(Entry), NEW k \in 1..(Len(h) + 1)
    PROVE  IsRest(SubSeq(h, k, Len(h)), h, k)
<1> DEFINE g == SubSeq(h, k, Len(h))
<1>1. Len(h) \in Nat /\ k \in Nat
  OBVIOUS
<1>2. /\ g \in Seq(Entry) /\ Len(g) = Len(h) - k + 1
      /\ \A i \in 1..Len(g) : g[i] = h[i + k - 1]
  BY <1>1
<1> HIDE DEF g
<1>3. \A i \in 1..Len(g) : i + k - 1 \in k..Len(h)
  BY <1>1, <1>2
<1>4. \A j \in k..Len(h) : j - k + 1 \in 1..Len(g) /\ j - k + 1 + k - 1 = j
  BY <1>1, <1>2
<1>5. ASSUME NEW e
      PROVE  e \in Stored(g) <=>
                 e.packet # None /\ \E i \in k..Len(h) : e = h[i]
  <2>1. ASSUME NEW i \in 1..Len(g), e = g[i]
        PROVE  \E j \in k..Len(h) : e = h[j]
    BY <1>2, <1>3, <2>1
  <2>2. ASSUME NEW j \in k..Len(h), e = h[j]
        PROVE  \E i \in 1..Len(g) : e = g[i]
    <3>1. j - k + 1 \in 1..Len(g) /\ j - k + 1 + k - 1 = j
      BY <1>4
    <3>2. g[j - k + 1] = h[j - k + 1 + k - 1]
      BY <1>2, <3>1
    <3> QED BY <2>2, <3>1, <3>2
  <2>3. e \in Stored(g) <=> e.packet # None /\ \E i \in 1..Len(g) : e = g[i]
    BY DEF Stored
  <2> QED BY <2>1, <2>2, <2>3, Zenon
<1>6. \A i \in 1..Len(g) : i + k - 1 \in 1..Len(h)
  BY <1>1, <1>2
<1>7. IsRest(g, h, k)
  BY <1>2, <1>5, <1>6 DEF IsRest
<1> QED BY <1>7 DEF g

LEMMA RestInPlace ==
    ASSUME NEW h \in Seq(Entry), NEW f \in 0..(M - 1), PlacedFrom(h, f),
           NEW k \in 1..Len(h), h[k].packet # None
    PROVE  InPlace(SubSeq(h, k, Len(h)))
<1> DEFINE g == SubSeq(h, k, Len(h))
<1>1. Len(h) \in Nat /\ k \in Nat /\ k \in 1..(Len(h) + 1)
  OBVIOUS
<1>2. /\ g \in Seq(Entry) /\ Len(g) = Len(h) - k + 1
      /\ \A i \in 1..Len(g) : i + k - 1 \in 1..Len(h) /\ g[i] = h[i + k - 1]
  BY <1>1, Rest DEF IsRest
<1> HIDE DEF g
<1>3. g[1] = h[k]
  <2>1. 1 \in 1..Len(g) /\ 1 + k - 1 = k
    BY <1>1, <1>2
  <2> QED BY <1>2, <2>1
<1>4. h[k].packet = Ahead(f, k - 1) /\ k <= Half
  BY DEF PlacedFrom
<1>5. ASSUME NEW i \in 1..Len(g), g[i].packet # None
      PROVE  i <= Half /\ g[i].packet = Ahead(g[1].packet, i - 1)
  <2>1. i + k - 1 \in 1..Len(h) /\ g[i] = h[i + k - 1]
    BY <1>2
  <2>2. i + k - 1 <= Half /\ h[i + k - 1].packet = Ahead(f, i + k - 1 - 1)
    BY <1>5, <2>1 DEF PlacedFrom
  <2>3. i \in Nat /\ i - 1 \in Nat /\ k - 1 \in Nat
        /\ (k - 1) + (i - 1) = i + k - 1 - 1 /\ (k - 1) + (i - 1) < M
    BY <1>1, <1>2, <2>2, HalfOfModulus
  <2>4. Ahead(Ahead(f, k - 1), i - 1) = Ahead(f, (k - 1) + (i - 1))
    BY <2>3, AheadOfAhead
  <2>5. i <= Half
    BY <1>1, <2>2, <2>3, HalfOfModulus
  <2> QED BY <1>3, <1>4, <2>1, <2>2, <2>3, <2>4, <2>5
<1>6. InPlace(g)
  BY <1>3, <1>5 DEF InPlace, PlacedFrom
<1> QED BY <1>6 DEF g

LEMMA MinIs ==
    ASSUME NEW S \in SUBSET Nat, S # {}
    PROVE  Min(S) \in S /\ \A y \in S : Min(S) <= y
<1> DEFINE R == OpToRel(<, Nat)
<1>1. IsWellFoundedOn(R, Nat)
  BY NatLessThanWellFounded
<1>2. \A x, y \in Nat : y < x => <<y, x>> \in R
  BY DEF OpToRel
<1> HIDE DEF R
<1>4. PICK x \in S : \A y \in S : ~(<<y, x>> \in R)
  BY <1>1, WFMin
<1>5. \A y \in S : ~(y < x)
  BY <1>2, <1>4, Zenon
<1>3. \A y \in S : x <= y
  BY <1>5
<1> QED BY <1>3 DEF Min

-----------------------------------------------------------------------------
(* Removing packets.                                                       *)

LEMMA TrimKeeps ==
    ASSUME NEW h \in Seq(Entry), NEW f \in 0..(M - 1), PlacedFrom(h, f)
    PROVE  /\ Trim(h) \in Seq(Entry) /\ InPlace(Trim(h))
           /\ \A e : e \in Stored(Trim(h)) <=> e \in Stored(h)
<1> DEFINE full == {i \in 1..Len(h) : h[i].packet # None}
<1>1. CASE full = {}
  <2>1. Trim(h) = << >>
    BY <1>1 DEF Trim
  <2>2. \A e : e \notin Stored(h)
    BY <1>1, InStored
  <2>3. \A e : e \notin Stored(<< >>)
    BY InStored
  <2> QED BY <2>1, <2>2, <2>3 DEF InPlace
<1>2. CASE full # {}
  <2> DEFINE k == Min(full)
  <2>1. full \in SUBSET Nat
    OBVIOUS
  <2>2. k \in full /\ \A i \in full : k <= i
    BY <1>2, <2>1, MinIs
  <2>3. Trim(h) = SubSeq(h, k, Len(h))
    BY <1>2 DEF Trim
  <2>4. k \in 1..Len(h) /\ k \in 1..(Len(h) + 1) /\ h[k].packet # None
    BY <2>2
  <2> HIDE DEF k
  <2>5. InPlace(Trim(h))
    BY <2>3, <2>4, RestInPlace
  <2> DEFINE g == SubSeq(h, k, Len(h))
  <2>10. /\ g \in Seq(Entry)
         /\ \A e : e \in Stored(g) <=>
                e.packet # None /\ \E i \in k..Len(h) : e = h[i]
    BY <2>4, Rest DEF IsRest
  <2>6. /\ Trim(h) \in Seq(Entry)
        /\ \A e : e \in Stored(Trim(h)) <=>
               e.packet # None /\ \E i \in k..Len(h) : e = h[i]
    BY <2>3, <2>10
  <2>7. \A i \in k..Len(h) : i \in 1..Len(h)
    BY <2>4
  <2>8. \A i \in 1..Len(h) : h[i].packet # None => i \in k..Len(h)
    BY <2>2, <2>4
  <2>9. ASSUME NEW e
        PROVE  e \in Stored(Trim(h)) <=> e \in Stored(h)
    <3>1. e \in Stored(h) <=> e.packet # None /\ \E i \in 1..Len(h) : e = h[i]
      BY InStored
    <3> QED BY <2>6, <2>7, <2>8, <3>1, Zenon
  <2> QED BY <2>5, <2>6, <2>9
<1> QED BY <1>1, <1>2

(* An entry replaced by one with the same packet or by one without.        *)
IsReplaced(g, h, i, x) ==
    /\ g \in Seq(Entry) /\ PlacedFrom(g, h[1].packet)
    /\ x.packet # None \/ i # 1 => InPlace(g)
    /\ \A e : e \in Stored(g) <=>
           \/ e = x /\ x.packet # None
           \/ e \in Stored(h) /\ e.packet # h[i].packet

LEMMA Replaced ==
    ASSUME NEW h \in Seq(Entry), InPlace(h), NEW i \in 1..Len(h),
           NEW x \in Entry, x.packet \in {h[i].packet, None}
    PROVE  IsReplaced([h EXCEPT ![i] = x], h, i, x)
<1> DEFINE g == [h EXCEPT ![i] = x]
<1>1. /\ g \in Seq(Entry) /\ Len(g) = Len(h)
      /\ \A j \in 1..Len(h) : g[j] = IF j = i THEN x ELSE h[j]
  OBVIOUS
<1> HIDE DEF g
<1>2. h # << >> /\ 1 \in 1..Len(h)
  OBVIOUS
<1>3. PlacedFrom(g, h[1].packet)
  BY <1>1, <1>2 DEF InPlace, PlacedFrom
<1>4. ASSUME x.packet # None \/ i # 1
      PROVE  InPlace(g)
  <2>1. g[1].packet = h[1].packet
    BY <1>1, <1>2, <1>4 DEF InPlace
  <2> QED BY <1>2, <1>3, <2>1 DEF InPlace
<1>5. ASSUME NEW e
      PROVE  e \in Stored(g) <=>
                 \/ e = x /\ x.packet # None
                 \/ e \in Stored(h) /\ e.packet # h[i].packet
  <2>1. e \in Stored(g) <=> e.packet # None /\ \E j \in 1..Len(h) : e = g[j]
    BY <1>1 DEF Stored
  <2>2. e \in Stored(h) <=> e.packet # None /\ \E j \in 1..Len(h) : e = h[j]
    BY DEF Stored
  <2>3. \A j \in 1..Len(h) : j # i /\ h[j].packet # None =>
            h[j].packet # h[i].packet
    BY OnePlace
  <2>4. (\E j \in 1..Len(h) : e = g[j]) <=>
            e = x \/ \E j \in 1..Len(h) : j # i /\ e = h[j]
    BY <1>1
  <2>5. e.packet # None =>
            ((\E j \in 1..Len(h) : j # i /\ e = h[j]) <=>
                 (\E j \in 1..Len(h) : e = h[j]) /\ e.packet # h[i].packet)
    BY <2>3
  <2> QED BY <2>1, <2>2, <2>4, <2>5
<1>6. IsReplaced(g, h, i, x)
  BY <1>1, <1>3, <1>4, <1>5 DEF IsReplaced
<1> QED BY <1>6 DEF g

LEMMA Removed ==
    ASSUME NEW r, NEW h \in Seq(Entry), r.history = h, InPlace(h),
           r.padding \subseteq Packets(h), NEW i \in 1..Len(h), NEW g,
           g = RemovePacket(r, i)
    PROVE  /\ g.history \in Seq(Entry) /\ InPlace(g.history)
           /\ \A e : e \in Stored(g.history) <=>
                  e \in Stored(h) /\ e.packet # h[i].packet
           /\ g.padding \subseteq Packets(g.history)
<1> DEFINE x == [h[i] EXCEPT !.packet = None]
           b == [h EXCEPT ![i] = x]
           f == h[1].packet
<1>1. x \in Entry /\ x.packet = None
  <2>1. h[i] \in Entry
    OBVIOUS
  <2> QED BY <2>1 DEF Entry
<1>2. b = [h EXCEPT ![i].packet = None]
  OBVIOUS
<1>3. /\ g.history = IF i = 1 THEN Trim(b) ELSE b
      /\ g.padding = Erase(r.padding, h, h[i])
  BY <1>2 DEF RemovePacket
<1>4. h # << >>
  OBVIOUS
<1>5. f \in 0..(M - 1)
  BY <1>4, FrontNumber
<1> HIDE DEF x, f
<1>6. /\ b \in Seq(Entry) /\ PlacedFrom(b, f)
      /\ i # 1 => InPlace(b)
      /\ \A e : e \in Stored(b) <=>
             e \in Stored(h) /\ e.packet # h[i].packet
  <2>1. /\ b \in Seq(Entry) /\ PlacedFrom(b, h[1].packet)
        /\ x.packet # None \/ i # 1 => InPlace(b)
        /\ \A e : e \in Stored(b) <=>
               \/ e = x /\ x.packet # None
               \/ e \in Stored(h) /\ e.packet # h[i].packet
    BY <1>1, Replaced DEF IsReplaced
  <2> QED BY <1>1, <2>1 DEF f
<1> HIDE DEF b
<1>7. /\ Trim(b) \in Seq(Entry) /\ InPlace(Trim(b))
      /\ \A e : e \in Stored(Trim(b)) <=> e \in Stored(b)
  BY <1>5, <1>6, TrimKeeps
<1>8. /\ g.history \in Seq(Entry) /\ InPlace(g.history)
      /\ \A e : e \in Stored(g.history) <=>
             e \in Stored(h) /\ e.packet # h[i].packet
  BY <1>3, <1>6, <1>7
<1>9. ASSUME NEW s \in g.padding
      PROVE  s \in Packets(g.history)
  <2>1. s \in r.padding /\ Key(h[GetStoredPacket(h, s)]) # Key(h[i])
    BY <1>3 DEF Erase
  <2>2. PICK e \in Stored(h) : e.packet = s /\ s # None
    BY <2>1, InPackets
  <2>3. PICK j \in 1..Len(h) : e = h[j]
    BY InStored
  <2>4. GetStoredPacket(h, s) = j
    BY <2>2, <2>3, FoundInPlace
  <2>5. j # i
    BY <2>1, <2>4
  <2>6. h[j].packet # h[i].packet
    BY <2>2, <2>3, <2>5, OnePlace
  <2>7. e \in Stored(g.history)
    BY <1>8, <2>3, <2>6
  <2> QED BY <2>2, <2>7, InPackets
<1> QED BY <1>8, <1>9

(* Culling leaves the rest of the deque from a stored packet on, with the  *)
(* pending packets unless the deque is full.                               *)
LEMMA Culled ==
    ASSUME NEW r, NEW h \in Seq(Entry), r.history = h, InPlace(h),
           r.padding \subseteq Packets(h), NEW g, g = CullOldPackets(r)
    PROVE  /\ g.history \in Seq(Entry) /\ InPlace(g.history)
           /\ \A e \in Stored(g.history) : e \in Stored(h)
           /\ \A e \in Stored(h) : Len(h) < kMaxCapacity /\ e.pending =>
                  e \in Stored(g.history)
           /\ g.padding \subseteq Packets(g.history)
<1> DEFINE K == {i \in 1..Len(h) : h[i].packet # None /\ StopsAt(h, i)}
                \cup {Len(h) + 1}
           k == Min(K)
<1>1. /\ g.history = SubSeq(h, k, Len(h))
      /\ g.padding = r.padding \ {h[i].packet : i \in 1..(k - 1)}
  BY DEF CullOldPackets
<1>2. Len(h) \in Nat /\ K \in SUBSET Nat /\ K # {}
  OBVIOUS
<1>3. k \in K /\ \A i \in K : k <= i
  BY <1>2, MinIs
<1>4. k \in 1..(Len(h) + 1) /\ (k \in 1..Len(h) => h[k].packet # None)
  BY <1>2, <1>3
<1> HIDE DEF k
<1>5. /\ g.history \in Seq(Entry) /\ Len(g.history) = Len(h) - k + 1
      /\ \A e : e \in Stored(g.history) <=>
             e.packet # None /\ \E i \in k..Len(h) : e = h[i]
  <2> DEFINE b == SubSeq(h, k, Len(h))
  <2>1. /\ b \in Seq(Entry) /\ Len(b) = Len(h) - k + 1
        /\ \A e : e \in Stored(b) <=>
               e.packet # None /\ \E i \in k..Len(h) : e = h[i]
    BY <1>4, Rest DEF IsRest
  <2> QED BY <1>1, <2>1
<1>6. InPlace(g.history)
  <2>1. CASE k \in 1..Len(h)
    <3>1. h # << >>
      BY <2>1
    <3>2. h[1].packet \in 0..(M - 1) /\ PlacedFrom(h, h[1].packet)
      BY <3>1, FrontNumber DEF InPlace
    <3> QED BY <1>1, <1>4, <2>1, <3>2, RestInPlace
  <2>2. CASE k = Len(h) + 1
    <3>1. g.history = << >>
      BY <1>2, <1>5, <2>2
    <3> QED BY <3>1 DEF InPlace
  <2> QED BY <1>2, <1>4, <2>1, <2>2
<1>7. \A i \in k..Len(h) : i \in 1..Len(h)
  BY <1>2, <1>4
<1>8. ASSUME NEW e
      PROVE  e \in Stored(h) <=> e.packet # None /\ \E i \in 1..Len(h) : e = h[i]
  BY InStored
<1>9. \A e \in Stored(g.history) : e \in Stored(h)
  <2> SUFFICES ASSUME NEW e \in Stored(g.history)
               PROVE  e \in Stored(h)
    OBVIOUS
  <2>1. PICK i \in k..Len(h) : e = h[i] /\ e.packet # None
    BY <1>5
  <2> QED BY <1>7, <1>8, <2>1
<1>10. ASSUME NEW e \in Stored(h), Len(h) < kMaxCapacity, e.pending
       PROVE  e \in Stored(g.history)
  <2>1. PICK i \in 1..Len(h) : e = h[i] /\ e.packet # None
    BY <1>8
  <2>2. StopsAt(h, i)
    <3>1. Len(h) - i + 1 < kMaxCapacity
      BY <1>2, <1>10, LimitAssumption
    <3> QED BY <1>10, <2>1, <3>1 DEF StopsAt
  <2>3. i \in k..Len(h)
    BY <1>2, <1>3, <1>4, <2>1, <2>2
  <2> QED BY <1>5, <2>1, <2>3
<1>11. ASSUME NEW s \in g.padding
       PROVE  s \in Packets(g.history)
  <2>1. s \in r.padding /\ s \notin {h[i].packet : i \in 1..(k - 1)}
    BY <1>1
  <2>2. PICK e \in Stored(h) : e.packet = s /\ s # None
    BY <2>1, InPackets
  <2>3. PICK i \in 1..Len(h) : e = h[i]
    BY <1>8
  <2>4. i \notin 1..(k - 1)
    BY <2>1, <2>2, <2>3
  <2>5. i \in k..Len(h)
    BY <1>2, <1>4, <2>4
  <2>6. e \in Stored(g.history)
    BY <1>5, <2>2, <2>3, <2>5
  <2> QED BY <2>2, <2>6, InPackets
<1> QED BY <1>5, <1>6, <1>9, <1>10, <1>11

-----------------------------------------------------------------------------
(* Storing a packet.                                                       *)

LEMMA BlankIs ==
    ASSUME NEW n \in Int
    PROVE  /\ Blank(n) \in Seq(Entry)
           /\ Len(Blank(n)) = IF n < 0 THEN 0 ELSE n
           /\ \A i \in 1..Len(Blank(n)) : Blank(n)[i] = Placeholder
<1>1. Placeholder \in Entry
  BY DEF Placeholder, Entry
<1> DEFINE m == IF n < 0 THEN 0 ELSE n
<1>2. m \in Nat /\ 1..n = 1..m
  OBVIOUS
<1>3. Blank(n) = [i \in 1..m |-> Placeholder]
  BY <1>2 DEF Blank
<1> HIDE DEF m
<1>4. /\ Blank(n) \in Seq(Entry) /\ Len(Blank(n)) = m
      /\ \A i \in 1..m : Blank(n)[i] = Placeholder
  BY <1>1, <1>2, <1>3
<1> QED BY <1>4 DEF m

(* The deque widened by a entries at the front and b at the back.          *)
IsWide(g, h, a, b) ==
    /\ a \in Nat /\ b \in Nat
    /\ g \in Seq(Entry) /\ Len(g) = a + Len(h) + b
    /\ \A i \in 1..Len(h) : g[a + i] = h[i]
    /\ \A i \in 1..Len(g) : i <= a \/ i > a + Len(h) => g[i] = Placeholder

LEMMA JoinIs ==
    ASSUME NEW u \in Seq(Entry), NEW v \in Seq(Entry)
    PROVE  /\ u \o v \in Seq(Entry) /\ Len(u \o v) = Len(u) + Len(v)
           /\ \A i \in 1..(Len(u) + Len(v)) :
                  (u \o v)[i] = IF i <= Len(u) THEN u[i] ELSE v[i - Len(u)]
OBVIOUS

LEMMA Widened ==
    ASSUME NEW h \in Seq(Entry), NEW m \in Int, NEW n \in Int
    PROVE  IsWide(Blank(m) \o h \o Blank(n), h,
                  IF m < 0 THEN 0 ELSE m, IF n < 0 THEN 0 ELSE n)
<1> DEFINE x == Blank(m)
           y == Blank(n)
           a == IF m < 0 THEN 0 ELSE m
           b == IF n < 0 THEN 0 ELSE n
           l == Len(h)
           w == x \o h
           g == w \o y
<1>1. /\ x \in Seq(Entry) /\ Len(x) = a
      /\ \A i \in 1..Len(x) : x[i] = Placeholder
  BY BlankIs
<1>2. /\ y \in Seq(Entry) /\ Len(y) = b
      /\ \A i \in 1..Len(y) : y[i] = Placeholder
  BY BlankIs
<1>3. a \in Nat /\ b \in Nat /\ l \in Nat
  OBVIOUS
<1> HIDE DEF x, y, a, b
<1>4. /\ w \in Seq(Entry) /\ Len(w) = a + l
      /\ \A i \in 1..(a + l) : w[i] = IF i <= a THEN x[i] ELSE h[i - a]
  <2>1. /\ w \in Seq(Entry) /\ Len(w) = Len(x) + Len(h)
        /\ \A i \in 1..(Len(x) + Len(h)) :
               w[i] = IF i <= Len(x) THEN x[i] ELSE h[i - Len(x)]
    BY <1>1, JoinIs
  <2> QED BY <1>1, <2>1
<1> HIDE DEF w
<1>5. /\ g \in Seq(Entry) /\ Len(g) = a + l + b
      /\ \A i \in 1..(a + l + b) :
             g[i] = IF i <= a + l THEN w[i] ELSE y[i - (a + l)]
  <2>1. /\ g \in Seq(Entry) /\ Len(g) = Len(w) + Len(y)
        /\ \A i \in 1..(Len(w) + Len(y)) :
               g[i] = IF i <= Len(w) THEN w[i] ELSE y[i - Len(w)]
    BY <1>2, <1>4, JoinIs
  <2> HIDE DEF l, g
  <2> QED BY <1>2, <1>4, <2>1
<1> HIDE DEF g, l
<1>6. ASSUME NEW i \in 1..l
      PROVE  g[a + i] = h[i]
  <2> DEFINE j == a + i
  <2>1. /\ j \in 1..(a + l) /\ j \in 1..(a + l + b) /\ j - a = i
        /\ ~(j <= a) /\ j <= a + l
    BY <1>3
  <2> HIDE DEF j
  <2>2. g[j] = w[j]
    BY <1>5, <2>1
  <2>3. w[j] = h[j - a]
    BY <1>4, <2>1
  <2>4. g[j] = h[i]
    BY <2>1, <2>2, <2>3
  <2> QED BY <2>4 DEF j
<1>7. ASSUME NEW i \in 1..Len(g), i <= a \/ i > a + l
      PROVE  g[i] = Placeholder
  <2>1. CASE i <= a
    <3>1. i \in 1..(a + l) /\ i \in 1..(a + l + b) /\ i <= a + l
          /\ i \in 1..a
      BY <1>3, <1>5, <2>1
    <3> QED BY <1>1, <1>4, <1>5, <2>1, <3>1
  <2>2. CASE i > a + l
    <3>1. i \in 1..(a + l + b) /\ ~(i <= a + l) /\ i - (a + l) \in 1..b
      BY <1>3, <1>5, <2>2
    <3> QED BY <1>2, <1>5, <3>1
  <2> QED BY <1>7, <2>1, <2>2
<1>8. IsWide(g, h, a, b)
  BY <1>3, <1>5, <1>6, <1>7 DEF IsWide, l
<1> QED BY <1>8 DEF g, w, x, y, a, b

(* The place of a new packet is at most half a cycle from the front, and   *)
(* so is every stored packet from a new front.                             *)
LEMMA NewIsNear ==
    ASSUME NEW h \in Seq(Entry), InPlace(h), h # << >>, NEW s \in Numbers,
           NEW base \in 0..(M - 1), (s - base) % M < Half,
           \A t \in Packets(h) : (t - base) % M < Half
    PROVE  LET index == GetPacketIndex(h, s) IN
           /\ index < Half
           /\ index < 0 => \A i \in 1..Len(h) : h[i].packet # None =>
                               i + (-index) <= Half
<1> DEFINE f == h[1].packet
           index == GetPacketIndex(h, s)
           X(t) == (t - base) % M
<1>1. s \in 0..(M - 1)
  BY NumbersAssumption
<1>2. /\ index \in Int /\ index \in {s - f, s - f + M, s - f - M}
      /\ -M < index /\ index < M
  BY <1>1, IndexIs
<1>3. f \in 0..(M - 1) /\ f \in Packets(h)
  <2>1. f \in 0..(M - 1) /\ 1 \in 1..Len(h) /\ f # None
    BY FrontNumber
  <2> QED BY <2>1 DEF Packets
<1>4. /\ X(s) - X(f) \in Int /\ -Half < X(s) - X(f) /\ X(s) - X(f) < Half
      /\ X(s) - X(f) \in {s - f, s - f + M, s - f - M}
  BY <1>1, <1>3, WithinHalf
<1>5. IsNewer(s, f) <=> s - f = Half \/ (s # f /\ (s - f) % M < Half)
  BY DEF IsNewer, Half
<1>6. index = CASE IsNewer(s, f) /\ s < f -> s - f + M
                [] ~IsNewer(s, f) /\ s > f -> s - f - M
                [] OTHER -> s - f
  BY DEF GetPacketIndex
<1> DEFINE d == X(s) - X(f)
<1> HIDE DEF f, index, X, d
<1>7. (s - f) % M = IF s >= f THEN s - f ELSE s - f + M
  <2>1. s - f \in Int /\ s \in Int /\ f \in Int
    BY <1>1, <1>3
  <2> QED BY <1>1, <1>3, <2>1, Remainder, HalfOfModulus
<1>8. /\ d \in Int /\ -Half < d /\ d < Half
      /\ d \in {s - f, s - f + M, s - f - M}
  BY <1>4 DEF d
<1>9. index = d
  <2>1. s \in Int /\ f \in Int /\ s < M /\ f < M /\ 0 <= s /\ 0 <= f
    BY <1>1, <1>3, HalfOfModulus
  <2>4. \/ IsNewer(s, f) /\ s < f /\ index = s - f + M
        \/ ~IsNewer(s, f) /\ s > f /\ index = s - f - M
        \/ (IsNewer(s, f) \/ s <= f) /\ ~(IsNewer(s, f) /\ s < f)
           /\ index = s - f
    BY <1>6, <2>1
  <2>5. /\ d \in Int /\ -Half < d /\ d < Half
        /\ d = s - f \/ d = s - f + M \/ d = s - f - M
    BY <1>8
  <2>2. CASE s >= f
    <3>1. IsNewer(s, f) <=> s - f = Half \/ (s # f /\ s - f < Half)
      BY <1>5, <1>7, <2>1, <2>2
    <3> QED BY <2>1, <2>2, <2>4, <2>5, <3>1, HalfOfModulus
  <2>3. CASE s < f
    <3>1. IsNewer(s, f) <=> s - f + M < Half
      BY <1>5, <1>7, <2>1, <2>3, HalfOfModulus
    <3> QED BY <2>1, <2>3, <2>4, <2>5, <3>1, HalfOfModulus
  <2> QED BY <2>1, <2>2, <2>3
<1>10. ASSUME index < 0, NEW i \in 1..Len(h), h[i].packet # None
       PROVE  i + (-index) <= Half
  <2> DEFINE t == h[i].packet
  <2>1. i <= Half /\ t = Ahead(f, i - 1)
    BY <1>10 DEF InPlace, PlacedFrom, f
  <2>2. t \in 0..(M - 1) /\ t \in Packets(h)
    <3>1. h[i] \in Entry
      OBVIOUS
    <3>2. t \in Numbers
      BY <1>10, <3>1 DEF Entry
    <3> QED BY <1>10, <3>2, NumbersAssumption DEF Packets
  <2>3. LET c == ((t - base) % M) - ((f - base) % M)
        IN /\ c \in Int /\ -Half < c /\ c < Half
           /\ c \in {t - f, t - f + M, t - f - M}
    BY <1>3, <2>2, WithinHalf
  <2>4. X(t) \in Int /\ X(s) \in Int /\ X(f) \in Int /\ X(s) >= 0 /\ X(t) < Half
    <3>1. \A z \in Int : z % M \in Int /\ z % M >= 0
      BY HalfOfModulus
    <3>2. \A z \in 0..(M - 1) : z - base \in Int
      BY HalfOfModulus
    <3>3. \A z \in 0..(M - 1) : X(z) \in Int /\ X(z) >= 0
      BY <3>1, <3>2 DEF X
    <3>4. X(t) < Half
      BY <2>2 DEF X
    <3> QED BY <1>1, <1>3, <2>2, <3>3, <3>4
  <2> DEFINE c == X(t) - X(f)
  <2>5. /\ c \in Int /\ -Half < c /\ c < Half
        /\ c \in {t - f, t - f + M, t - f - M}
    BY <2>3 DEF X
  <2>6. Ahead(f, i - 1) = IF f + (i - 1) < M THEN f + (i - 1)
                          ELSE f + (i - 1) - M
    <3>1. i - 1 \in 0..(M - 1)
      BY <2>1, HalfOfModulus
    <3> QED BY <1>3, <3>1, AheadIs
  <2> HIDE DEF t, c
  <2>7. t = f + (i - 1) \/ t = f + (i - 1) - M
    BY <2>1, <2>6
  <2>8. c = i - 1
    BY <1>3, <2>1, <2>5, <2>7, HalfOfModulus
  <2>9. X(t) = X(s) - d + c
    BY <2>4 DEF c, d
  <2>10. c - d < Half
    BY <1>8, <2>4, <2>5, <2>9, HalfOfModulus
  <2> QED BY <1>8, <1>9, <2>1, <2>8, <2>10, HalfOfModulus
<1> QED BY <1>8, <1>9, <1>10 DEF index

New(s) == [packet |-> s, age |-> 0, pending |-> FALSE,
           insert_order |-> packets_inserted, times_retransmitted |-> 0]

(* The deque with the new packet at its place.                             *)
IsStored(g, h, s) ==
    /\ g \in Seq(Entry) /\ InPlace(g)
    /\ \A e : e \in Stored(g) <=> e \in Stored(h) \/ e = New(s)

LEMMA NewIsEntry ==
    ASSUME NEW s \in Numbers, packets_inserted \in Nat
    PROVE  New(s) \in Entry /\ New(s).packet = s /\ s # None /\ ~New(s).pending
BY NumbersAssumption, HalfOfModulus DEF New, Entry, None

IsSetAt(g, w, k, x) ==
    /\ g \in Seq(Entry) /\ Len(g) = Len(w)
    /\ \A i \in 1..Len(w) : g[i] = IF i = k THEN x ELSE w[i]

LEMMA SetAt ==
    ASSUME NEW w \in Seq(Entry), NEW k \in 1..Len(w), NEW x \in Entry
    PROVE  IsSetAt([w EXCEPT ![k] = x], w, k, x)
BY DEF IsSetAt

LEMMA PlaceIsInside ==
    ASSUME NEW index \in Int, NEW l \in Nat,
           NEW a, a = IF -index < 0 THEN 0 ELSE -index,
           NEW b, b = IF index + 1 - l < 0 THEN 0 ELSE index + 1 - l,
           NEW at, at = IF index >= 0 THEN index + 1 ELSE 1
    PROVE  /\ index >= 0 => a = 0 /\ at = index + 1
           /\ index < 0 => a = -index /\ at = 1
           /\ a + l + b \in Nat /\ 1 <= at /\ at <= a + l + b /\ at \in Int
OBVIOUS

LEMMA StoredAtPlace ==
    ASSUME NEW h \in Seq(Entry), InPlace(h), NEW s \in Numbers,
           s \notin Packets(h), packets_inserted \in Nat,
           NEW base \in 0..(M - 1), (s - base) % M < Half,
           \A t \in Packets(h) : (t - base) % M < Half,
           NEW index, index = GetPacketIndex(h, s), NEW w,
           w = Blank(-index) \o h \o Blank(index + 1 - Len(h))
    PROVE  IsStored([w EXCEPT ![Max({index, 0}) + 1] = New(s)], h, s)
<1> DEFINE a == IF -index < 0 THEN 0 ELSE -index
           b == IF index + 1 - Len(h) < 0 THEN 0 ELSE index + 1 - Len(h)
           l == Len(h)
           at == Max({index, 0}) + 1
           g == [w EXCEPT ![at] = New(s)]
           f == h[1].packet
<1>1. s \in 0..(M - 1)
  BY NumbersAssumption
<1>2. index \in Int
  <2>1. CASE h = << >>
    BY <2>1 DEF GetPacketIndex
  <2>2. CASE h # << >>
    BY <1>1, <2>2, IndexIs
  <2> QED BY <2>1, <2>2
<1>3. l \in Nat
  OBVIOUS
<1>4. -index \in Int /\ index + 1 - Len(h) \in Int
  BY <1>2, <1>3
<1>5. /\ w \in Seq(Entry) /\ Len(w) = a + l + b
      /\ \A i \in 1..l : w[a + i] = h[i]
      /\ \A i \in 1..Len(w) : i <= a \/ i > a + l => w[i] = Placeholder
      /\ a \in Nat /\ b \in Nat
  <2> DEFINE m == -index
             n == index + 1 - Len(h)
  <2>1. m \in Int /\ n \in Int
    BY <1>4
  <2>2. IsWide(Blank(m) \o h \o Blank(n), h,
               IF m < 0 THEN 0 ELSE m, IF n < 0 THEN 0 ELSE n)
    <3> HIDE DEF m, n
    <3> QED BY <2>1, Widened
  <2>3. IsWide(w, h, a, b)
    BY <2>2
  <2> QED BY <2>3 DEF IsWide
<1>6. at = IF index >= 0 THEN index + 1 ELSE 1
  BY <1>2 DEF Max
<1>7. /\ index >= 0 => a = 0 /\ at = index + 1
      /\ index < 0 => a = -index /\ at = 1
      /\ at \in 1..Len(w)
  <2>1. Len(w) = a + l + b
    BY <1>5
  <2>2. /\ index >= 0 => a = 0 /\ at = index + 1
        /\ index < 0 => a = -index /\ at = 1
        /\ a + l + b \in Nat /\ 1 <= at /\ at <= a + l + b /\ at \in Int
    BY <1>2, <1>3, <1>6, PlaceIsInside
  <2> HIDE DEF a, b, l, at
  <2> QED BY <2>1, <2>2
<1> HIDE DEF a, b, l, at
<1>8. New(s) \in Entry /\ New(s).packet = s /\ s # None
  BY NewIsEntry
<1>9. /\ g \in Seq(Entry) /\ Len(g) = Len(w)
      /\ \A i \in 1..Len(w) : g[i] = IF i = at THEN New(s) ELSE w[i]
  <2>1. IsSetAt(g, w, at, New(s))
    BY <1>5, <1>7, <1>8, SetAt
  <2> QED BY <2>1 DEF IsSetAt
<1> HIDE DEF g
<1>10. ASSUME NEW i \in 1..l, h[i].packet # None
       PROVE  a + i # at
  <2>1. CASE index < 0
    BY <1>2, <1>3, <1>7, <2>1
  <2>2. CASE index >= 0
    <3>1. h # << >>
      BY <1>3 DEF l
    <3>2. Ahead(f, index) = s
      BY <1>1, <2>2, <3>1, IndexIs
    <3>3. h[i].packet = Ahead(f, i - 1)
      BY <1>10, <3>1 DEF l, InPlace, PlacedFrom
    <3>4. h[i].packet # s
      BY <1>8, <1>10 DEF Packets, l
    <3>5. index # i - 1
      BY <3>2, <3>3, <3>4
    <3> QED BY <1>2, <1>3, <1>7, <2>2, <3>5
  <2> QED BY <1>2, <2>1, <2>2
<1>11. \A i \in 1..Len(w) : g[i].packet # None /\ i # at =>
            i - a \in 1..l /\ i > a /\ g[i] = h[i - a]
  <2> SUFFICES ASSUME NEW i \in 1..Len(w), g[i].packet # None, i # at
               PROVE  i - a \in 1..l /\ i > a /\ g[i] = h[i - a]
    OBVIOUS
  <2>1. g[i] = w[i]
    BY <1>9
  <2>2. w[i] # Placeholder
    BY <2>1 DEF Placeholder
  <2>3. i > a /\ i <= a + l
    BY <1>3, <1>5, <2>2
  <2>4. i - a \in 1..l /\ a + (i - a) = i
    BY <1>3, <1>5, <2>3
  <2>5. w[a + (i - a)] = h[i - a]
    BY <1>5, <2>4
  <2> QED BY <2>1, <2>3, <2>4, <2>5
<1>12. ASSUME NEW e
       PROVE  e \in Stored(g) <=> e \in Stored(h) \/ e = New(s)
  <2>1. ASSUME NEW i \in 1..Len(w), e = g[i], e.packet # None
        PROVE  e = New(s) \/ \E j \in 1..l : e = h[j]
    BY <1>9, <1>11, <2>1
  <2>2. ASSUME NEW j \in 1..l, e = h[j], e.packet # None
        PROVE  \E i \in 1..Len(w) : e = g[i]
    <3>1. a + j \in 1..Len(w) /\ a + j # at
      BY <1>3, <1>5, <1>10, <2>2
    <3>2. w[a + j] = h[j]
      BY <1>5
    <3>3. g[a + j] = w[a + j]
      BY <1>9, <3>1
    <3> QED BY <2>2, <3>1, <3>2, <3>3
  <2>3. e = New(s) => e.packet # None /\ \E i \in 1..Len(w) : e = g[i]
    BY <1>7, <1>8, <1>9
  <2>4. e \in Stored(g) <=> e.packet # None /\ \E i \in 1..Len(w) : e = g[i]
    BY <1>9 DEF Stored
  <2>5. e \in Stored(h) <=> e.packet # None /\ \E j \in 1..l : e = h[j]
    BY DEF Stored, l
  <2> QED BY <2>1, <2>2, <2>3, <2>4, <2>5
<1>13. InPlace(g)
  <2>1. CASE h = << >>
    <3>1. index = 0 /\ l = 0
      BY <2>1 DEF GetPacketIndex, l
    <3>2. at = 1 /\ Len(w) = 1
      BY <1>5, <1>7, <3>1 DEF b, a, l
    <3>3. g[1] = New(s) /\ Len(g) = 1
      BY <1>9, <3>2
    <3>4. s = Ahead(s, 0) /\ 1 <= Half
      BY <1>1, AheadIs, HalfOfModulus
    <3> QED BY <1>8, <3>3, <3>4 DEF InPlace, PlacedFrom
  <2>2. CASE h # << >> /\ index >= 0
    <3>1. f \in 0..(M - 1) /\ f # None /\ 1 \in 1..l
      BY <2>2, FrontNumber DEF l
    <3>2. Ahead(f, index) = s
      BY <1>1, <2>2, IndexIs
    <3>3. index < Half
      BY <2>2, NewIsNear
    <3>4. a + 1 # at /\ a = 0
      BY <1>7, <1>10, <2>2, <3>1
    <3>5. g[1] = h[1]
      <4>1. 1 \in 1..Len(w) /\ a + 1 = 1
        BY <1>3, <1>5, <3>1, <3>4
      <4>2. w[a + 1] = h[1]
        BY <1>5, <3>1
      <4>3. g[1] = w[1]
        BY <1>9, <3>4, <4>1
      <4> QED BY <4>1, <4>2, <4>3
    <3>6. ASSUME NEW i \in 1..Len(w), g[i].packet # None
          PROVE  i <= Half /\ g[i].packet = Ahead(f, i - 1)
      <4>1. CASE i = at
        <5>1. i - 1 = index /\ i <= Half
          BY <1>2, <1>7, <2>2, <3>3, <4>1, HalfOfModulus
        <5> QED BY <1>8, <1>9, <3>2, <4>1, <5>1
      <4>2. CASE i # at
        <5>1. i - a = i
          BY <3>4
        <5>2. i \in 1..l /\ g[i] = h[i]
          BY <1>11, <3>6, <4>2, <5>1
        <5> QED BY <2>2, <3>6, <5>2 DEF InPlace, PlacedFrom, l
      <4> QED BY <4>1, <4>2
    <3> QED BY <1>9, <3>1, <3>5, <3>6 DEF InPlace, PlacedFrom
  <2>3. CASE h # << >> /\ index < 0
    <3>1. f \in 0..(M - 1) /\ -M < index
      BY <1>1, <2>3, FrontNumber, IndexIs
    <3>2. Ahead(s, a) = f
      BY <1>1, <1>7, <2>3, IndexIs
    <3>3. \A i \in 1..l : h[i].packet # None => i + a <= Half
      BY <1>7, <2>3, NewIsNear DEF l
    <3>4. at = 1 /\ g[1] = New(s)
      BY <1>7, <1>9, <2>3
    <3>5. ASSUME NEW i \in 1..Len(w), g[i].packet # None
          PROVE  i <= Half /\ g[i].packet = Ahead(s, i - 1)
      <4>1. CASE i = at
        <5>1. s = Ahead(s, 0) /\ 1 <= Half /\ i - 1 = 0
          BY <1>1, <3>4, <4>1, AheadIs, HalfOfModulus
        <5> QED BY <1>8, <3>4, <4>1, <5>1
      <4>2. CASE i # at
        <5> DEFINE j == i - a
        <5>1. j \in 1..l /\ i > a /\ g[i] = h[j]
          BY <1>11, <3>5, <4>2
        <5>2. h[j].packet = Ahead(f, j - 1) /\ j + a <= Half
          BY <2>3, <3>3, <3>5, <5>1 DEF InPlace, PlacedFrom, l
        <5>3. j \in Int /\ j = i - a /\ i \in Int
          BY <1>5, <5>1
        <5> HIDE DEF j
        <5>4. j - 1 \in Nat /\ a + (j - 1) = i - 1 /\ a + (j - 1) < M
              /\ i <= Half
          BY <1>3, <1>5, <5>1, <5>2, <5>3, HalfOfModulus
        <5>5. Ahead(Ahead(s, a), j - 1) = Ahead(s, a + (j - 1))
          BY <1>1, <1>5, <5>4, AheadOfAhead
        <5> QED BY <3>2, <5>1, <5>2, <5>4, <5>5
      <4> QED BY <4>1, <4>2
    <3> QED BY <1>8, <1>9, <3>4, <3>5 DEF InPlace, PlacedFrom
  <2> QED BY <1>2, <2>1, <2>2, <2>3
<1>14. IsStored(g, h, s)
  BY <1>9, <1>12, <1>13 DEF IsStored
<1> QED BY <1>14 DEF g, at

(* The new packet is stored, nothing else changes, and the padding set     *)
(* gains the new packet, perhaps for a less useful one.                    *)
LEMMA StoreKeeps ==
    ASSUME NEW r, NEW h \in Seq(Entry), r.history = h, InPlace(h),
           r.padding \subseteq Packets(h), NEW s \in Numbers,
           s \notin Packets(h), packets_inserted \in Nat,
           NEW base \in 0..(M - 1), (s - base) % M < Half,
           \A t \in Packets(h) : (t - base) % M < Half
    PROVE  /\ IsStored(Store(r, s).history, h, s)
           /\ Store(r, s).padding \subseteq Packets(Store(r, s).history)
<1> DEFINE index == GetPacketIndex(h, s)
           w == Blank(-index) \o h \o Blank(index + 1 - Len(h))
           g == [w EXCEPT ![Max({index, 0}) + 1] = New(s)]
<1>1. /\ Store(r, s).history = g
      /\ Store(r, s).padding = IF enable_padding_prio
                               THEN Limited(r) \cup {s} ELSE {}
  BY DEF Store, New
<1>2. IsStored(g, h, s)
  <2> HIDE DEF index, w
  <2>1. index = GetPacketIndex(h, s)
        /\ w = Blank(-index) \o h \o Blank(index + 1 - Len(h))
    BY DEF index, w
  <2> QED BY <2>1, StoredAtPlace
<1> HIDE DEF g
<1>3. Limited(r) \subseteq r.padding
  BY DEF Limited
<1>4. New(s).packet = s /\ s # None
  BY NewIsEntry
<1>5. ASSUME NEW t \in Packets(h) \cup {s}
      PROVE  t \in Packets(g)
  <2>1. CASE t \in Packets(h)
    <3>1. PICK e \in Stored(h) : e.packet = t /\ t # None
      BY <2>1, InPackets
    <3>2. e \in Stored(g)
      BY <1>2 DEF IsStored
    <3> QED BY <3>1, <3>2, InPackets
  <2>2. CASE t = s
    <3>1. New(s) \in Stored(g)
      BY <1>2 DEF IsStored
    <3> QED BY <1>4, <2>2, <3>1, InPackets
  <2> QED BY <2>1, <2>2
<1> QED BY <1>1, <1>2, <1>3, <1>5

-----------------------------------------------------------------------------
(* The inductive invariant.  A stored packet is pending exactly while it   *)
(* is in the pacer's queue, or the pacer dropped it.                       *)

Tracked(h, q, d) ==
    \A e \in Stored(h) :
        /\ e.pending => q[e.packet] = 1 \/ e.packet \in d
        /\ ~e.pending => q[e.packet] = 0

Deque(h, padding) ==
    /\ h \in Seq(Entry) /\ InPlace(h)
    /\ padding \subseteq Packets(h)

HistoryInv ==
    /\ Deque(packet_history, padding_priority)
    /\ packets_inserted \in Nat
    /\ ~stores => packet_history = << >>
    /\ queued \in [Numbers -> {0, 1}]
    /\ Tracked(packet_history, queued, dropped)

(* An entry that changes, but for its packet.                              *)
IsUpdated(g, h, i, x, padding) ==
    /\ Deque(g, padding)
    /\ \A e : e \in Stored(g) <=>
           e = x \/ (e \in Stored(h) /\ e.packet # h[i].packet)

LEMMA Updated ==
    ASSUME NEW h, NEW padding, Deque(h, padding), NEW i \in 1..Len(h),
           h[i].packet # None, NEW x \in Entry, x.packet = h[i].packet
    PROVE  IsUpdated([h EXCEPT ![i] = x], h, i, x, padding)
<1> DEFINE g == [h EXCEPT ![i] = x]
<1>1. h \in Seq(Entry) /\ InPlace(h) /\ padding \subseteq Packets(h)
  BY DEF Deque
<1>2. IsReplaced(g, h, i, x)
  BY <1>1, Replaced
<1> HIDE DEF g
<1>3. /\ g \in Seq(Entry) /\ InPlace(g)
      /\ \A e : e \in Stored(g) <=>
             e = x \/ (e \in Stored(h) /\ e.packet # h[i].packet)
  BY <1>2 DEF IsReplaced
<1>4. ASSUME NEW s \in padding
      PROVE  s \in Packets(g)
  <2>1. PICK e \in Stored(h) : e.packet = s /\ s # None
    BY <1>1, InPackets
  <2>2. CASE s = h[i].packet
    BY <1>3, <2>1, <2>2, InPackets
  <2>3. CASE s # h[i].packet
    BY <1>3, <2>1, <2>3, InPackets
  <2> QED BY <2>2, <2>3
<1>5. IsUpdated(g, h, i, x, padding)
  BY <1>3, <1>4 DEF IsUpdated, Deque
<1> QED BY <1>5 DEF g

(* What a step that changes one entry has to show.                         *)
LEMMA UpdateKeeps ==
    ASSUME HistoryInv, NEW i \in 1..Len(packet_history), NEW x \in Entry,
           packet_history[i].packet # None,
           x.packet = packet_history[i].packet,
           packet_history' = [packet_history EXCEPT ![i] = x],
           padding_priority' = padding_priority, stores' = stores, 
           packets_inserted' = packets_inserted,
           queued' \in [Numbers -> {0, 1}],
           \A s \in Numbers \ {x.packet} :
               queued'[s] = queued[s] /\ (s \in dropped => s \in dropped'),
           x.pending => queued'[x.packet] = 1 \/ x.packet \in dropped',
           ~x.pending => queued'[x.packet] = 0
    PROVE  HistoryInv'
<1> DEFINE h == packet_history
           g == packet_history'
<1>1. Deque(h, padding_priority)
  BY DEF HistoryInv
<1>2. IsUpdated(g, h, i, x, padding_priority)
  <2> HIDE DEF h
  <2>1. /\ i \in 1..Len(h) /\ h[i].packet # None /\ x.packet = h[i].packet
        /\ g = [h EXCEPT ![i] = x]
    BY DEF h
  <2>2. IsUpdated([h EXCEPT ![i] = x], h, i, x, padding_priority)
    BY <1>1, <2>1, Updated, Zenon
  <2> QED BY <2>1, <2>2
<1>3. Deque(g, padding_priority')
  BY <1>2 DEF IsUpdated
<1>4. stores'
  BY DEF HistoryInv
<1>5. ASSUME NEW e \in Stored(g)
      PROVE  /\ e.pending => queued'[e.packet] = 1 \/ e.packet \in dropped'
             /\ ~e.pending => queued'[e.packet] = 0
  <2>1. CASE e = x
    BY <2>1
  <2>2. CASE e \in Stored(h) /\ e.packet # h[i].packet
    <3>1. e.packet \in Numbers
      BY <1>1, <2>2, StoredIsEntry DEF Deque
    <3> QED BY <2>2, <3>1 DEF HistoryInv, Tracked
  <2> QED BY <1>2, <2>1, <2>2 DEF IsUpdated
<1> QED BY <1>3, <1>4, <1>5 DEF HistoryInv, Tracked

-----------------------------------------------------------------------------
(* The steps.                                                              *)

LEMMA PutStep ==
    ASSUME HistoryInv, NEW s \in Numbers, PutRtpPacket(s)
    PROVE  /\ HistoryInv'
           /\ \A e \in Stored(packet_history) :
                  /\ Len(packet_history) < kMaxCapacity
                  /\ e.pending /\ e.packet # s
                  => e \in Stored(packet_history')
<1> DEFINE h == packet_history
           culled == CullOldPackets(History)
           old == GetStoredPacket(culled.history, s)
           free == IF old = None THEN culled ELSE RemovePacket(culled, old)
           g == free.history
<1>1. /\ History.history = h /\ History.padding = padding_priority
      /\ h \in Seq(Entry) /\ InPlace(h) /\ padding_priority \subseteq Packets(h)
      /\ packets_inserted \in Nat /\ queued \in [Numbers -> {0, 1}]
      /\ Tracked(h, queued, dropped)
  BY DEF History, HistoryInv, Deque
<1>2. /\ packet_history' = Store(free, s).history
      /\ padding_priority' = Store(free, s).padding
      /\ packets_inserted' = packets_inserted + 1 /\ queued[s] = 0 /\ Near(s)
      /\ dropped' = dropped \ {s} /\ stores /\ stores' = stores
      /\ queued' = queued
  BY DEF PutRtpPacket, Becomes
<1>3. /\ culled.history \in Seq(Entry) /\ InPlace(culled.history)
      /\ \A e \in Stored(culled.history) : e \in Stored(h)
      /\ \A e \in Stored(h) : Len(h) < kMaxCapacity /\ e.pending =>
             e \in Stored(culled.history)
      /\ culled.padding \subseteq Packets(culled.history)
  <2> HIDE DEF h, culled
  <2>1. culled = CullOldPackets(History)
    BY DEF culled
  <2> QED BY <1>1, <2>1, Culled
<1> HIDE DEF culled, h
<1>4. /\ g \in Seq(Entry) /\ InPlace(g) /\ free.padding \subseteq Packets(g)
      /\ \A e \in Stored(g) : e \in Stored(culled.history) /\ e.packet # s
      /\ \A e \in Stored(culled.history) : e.packet # s => e \in Stored(g)
  <2>1. CASE old = None
    <3>1. free = culled
      BY <2>1
    <3>2. ASSUME NEW e \in Stored(culled.history)
          PROVE  e.packet # s
      <4>1. PICK i \in 1..Len(culled.history) :
                e = culled.history[i] /\ e.packet # None
        BY DEF Stored
      <4>2. GetStoredPacket(culled.history, e.packet) = i
        BY <1>3, <4>1, FoundInPlace
      <4>3. i # None
        BY DEF None
      <4> QED BY <2>1, <4>2, <4>3
    <3> QED BY <1>3, <3>1, <3>2
  <2>2. CASE old # None
    <3>1. old \in 1..Len(culled.history) /\ culled.history[old].packet = s
      BY <1>3, <2>2, FoundIsIt
    <3>2. free = RemovePacket(culled, old)
      BY <2>2
    <3> HIDE DEF free, old
    <3>3. /\ free.history \in Seq(Entry) /\ InPlace(free.history)
          /\ \A e : e \in Stored(free.history) <=>
                 e \in Stored(culled.history)
                 /\ e.packet # culled.history[old].packet
          /\ free.padding \subseteq Packets(free.history)
      BY <1>3, <3>1, <3>2, Removed
    <3> QED BY <3>1, <3>3
  <2> QED BY <2>1, <2>2
<1> HIDE DEF free
<1>5. s \notin Packets(g)
  BY <1>4, InPackets
<1>6. PICK base \in 0..(M - 1) : \A t \in Packets(h) \cup {s} :
          (t - base) % M < Half
  BY <1>2 DEF Near, Half, h
<1>7. \A t \in Packets(g) : t \in Packets(h)
  <2> SUFFICES ASSUME NEW t \in Packets(g)
               PROVE  t \in Packets(h)
    OBVIOUS
  <2>1. PICK e \in Stored(g) : e.packet = t /\ t # None
    BY InPackets
  <2>2. e \in Stored(h)
    BY <1>3, <1>4
  <2> QED BY <2>1, <2>2, InPackets
<1>8. /\ IsStored(packet_history', g, s)
      /\ padding_priority' \subseteq Packets(packet_history')
  <2>1. (s - base) % M < Half /\ \A t \in Packets(g) : (t - base) % M < Half
    BY <1>6, <1>7
  <2>2. /\ IsStored(Store(free, s).history, g, s)
        /\ Store(free, s).padding \subseteq Packets(Store(free, s).history)
    BY <1>1, <1>4, <1>5, <2>1, StoreKeeps
  <2> QED BY <1>2, <2>2
<1>9. New(s).packet = s /\ ~New(s).pending
  BY <1>1, NewIsEntry
<1>10. ASSUME NEW e \in Stored(packet_history')
       PROVE  /\ e.pending => queued'[e.packet] = 1 \/ e.packet \in dropped'
              /\ ~e.pending => queued'[e.packet] = 0
  <2>1. CASE e = New(s)
    BY <1>2, <1>9, <2>1
  <2>2. CASE e \in Stored(g)
    <3>1. e \in Stored(h) /\ e.packet # s
      BY <1>3, <1>4, <2>2
    <3> QED BY <1>1, <1>2, <3>1 DEF Tracked
  <2> QED BY <1>8, <2>1, <2>2 DEF IsStored
<1>11. HistoryInv'
  BY <1>1, <1>2, <1>8, <1>10 DEF HistoryInv, Deque, IsStored, Tracked
<1>12. ASSUME NEW e \in Stored(h), Len(h) < kMaxCapacity, e.pending,
              e.packet # s
       PROVE  e \in Stored(packet_history')
  BY <1>3, <1>4, <1>8, <1>12 DEF IsStored
<1> QED BY <1>11, <1>12 DEF h

LEMMA CullStep ==
    ASSUME HistoryInv, SetRtt
    PROVE  /\ HistoryInv'
           /\ \A e \in Stored(packet_history) :
                  Len(packet_history) < kMaxCapacity /\ e.pending =>
                      e \in Stored(packet_history')
<1> DEFINE h == packet_history
           culled == CullOldPackets(History)
<1>1. /\ History.history = h /\ History.padding = padding_priority
      /\ h \in Seq(Entry) /\ InPlace(h) /\ padding_priority \subseteq Packets(h)
  BY DEF History, HistoryInv, Deque
<1>2. /\ packet_history' = culled.history /\ padding_priority' = culled.padding
      /\ UNCHANGED <<stores, packets_inserted, queued, dropped>> /\ stores
  BY DEF SetRtt, Becomes
<1>3. /\ culled.history \in Seq(Entry) /\ InPlace(culled.history)
      /\ \A e \in Stored(culled.history) : e \in Stored(h)
      /\ \A e \in Stored(h) : Len(h) < kMaxCapacity /\ e.pending =>
             e \in Stored(culled.history)
      /\ culled.padding \subseteq Packets(culled.history)
  <2> HIDE DEF h, culled
  <2>1. culled = CullOldPackets(History)
    BY DEF culled
  <2> QED BY <1>1, <2>1, Culled
<1> HIDE DEF culled
<1> QED BY <1>2, <1>3 DEF HistoryInv, Deque, Tracked

LEMMA AcknowledgeStep ==
    ASSUME HistoryInv, NEW s \in Numbers, CullAcknowledgedPackets(s)
    PROVE  HistoryInv'
<1> DEFINE h == packet_history
           i == Position(h, s)
           g == RemovePacket(History, i)
<1>1. /\ History.history = h /\ History.padding = padding_priority
      /\ h \in Seq(Entry) /\ InPlace(h) /\ padding_priority \subseteq Packets(h)
  BY DEF History, HistoryInv, Deque
<1>2. /\ packet_history' = g.history /\ padding_priority' = g.padding
      /\ UNCHANGED <<stores, packets_inserted, queued, dropped>>
      /\ i # None
  BY DEF CullAcknowledgedPackets, Becomes
<1>3. i \in 1..Len(h)
  BY <1>2 DEF Position
<1>4. stores
  BY <1>1, <1>3 DEF HistoryInv
<1>5. /\ g.history \in Seq(Entry) /\ InPlace(g.history)
      /\ \A e \in Stored(g.history) : e \in Stored(h)
      /\ g.padding \subseteq Packets(g.history)
  <2> HIDE DEF h, i, g
  <2>1. g = RemovePacket(History, i)
    BY DEF g
  <2> QED BY <1>1, <1>3, <2>1, Removed
<1> HIDE DEF g
<1> QED BY <1>2, <1>4, <1>5 DEF HistoryInv, Deque, Tracked

(* What is found in the deque of the invariant.                            *)
LEMMA LookUp ==
    ASSUME HistoryInv, NEW s \in Numbers
    PROVE  LET i == GetStoredPacket(packet_history, s) IN
           /\ i # None => /\ i \in 1..Len(packet_history)
                          /\ packet_history[i] \in Stored(packet_history)
                          /\ packet_history[i].packet = s
           /\ i = None => \A e \in Stored(packet_history) : e.packet # s
<1> DEFINE h == packet_history
           i == GetStoredPacket(h, s)
<1>1. h \in Seq(Entry) /\ InPlace(h)
  BY DEF HistoryInv, Deque
<1>2. s # None
  BY NumbersAssumption, HalfOfModulus DEF None
<1> HIDE DEF h
<1>3. ASSUME i # None
      PROVE  i \in 1..Len(h) /\ h[i] \in Stored(h) /\ h[i].packet = s
  <2>1. i \in 1..Len(h) /\ h[i].packet = s
    BY <1>1, <1>3, FoundIsIt
  <2> QED BY <1>2, <2>1 DEF Stored
<1>4. ASSUME i = None, NEW e \in Stored(h)
      PROVE  e.packet # s
  <2>1. PICK j \in 1..Len(h) : e = h[j] /\ e.packet # None
    BY DEF Stored
  <2>2. GetStoredPacket(h, e.packet) = j
    BY <1>1, <2>1, FoundInPlace
  <2>3. j # None
    BY DEF None
  <2> QED BY <1>4, <2>2, <2>3
<1> QED BY <1>3, <1>4 DEF h

LEMMA ReSendStep ==
    ASSUME HistoryInv, NEW s \in Numbers, ReSendPacket(s)
    PROVE  HistoryInv'
<1> DEFINE i == GetStoredPacket(packet_history, s)
           x == [packet_history[i] EXCEPT !.pending = TRUE]
<1>1. /\ i # None /\ ~packet_history[i].pending
      /\ packet_history' = [packet_history EXCEPT ![i].pending = TRUE]
      /\ queued' = [queued EXCEPT ![s] = @ + 1]
      /\ dropped' = dropped \ {s}
      /\ UNCHANGED <<padding_priority, stores, packets_inserted>>
  BY DEF ReSendPacket
<1>2. /\ i \in 1..Len(packet_history) /\ packet_history[i].packet = s
      /\ packet_history[i] \in Stored(packet_history)
  BY <1>1, LookUp
<1>3. packet_history \in Seq(Entry) /\ queued \in [Numbers -> {0, 1}]
  BY DEF HistoryInv, Deque
<1>4. packet_history[i] \in Entry /\ s # None
  BY <1>2, <1>3, StoredIsEntry
<1>5. x \in Entry /\ x.packet = s /\ x.pending
  BY <1>2, <1>4 DEF Entry
<1>6. packet_history' = [packet_history EXCEPT ![i] = x]
  BY <1>1
<1> HIDE DEF i, x
<1>7. queued[s] = 0
  BY <1>1, <1>2 DEF HistoryInv, Tracked
<1>8. queued' \in [Numbers -> {0, 1}] /\ queued'[s] = 1
      /\ \A t \in Numbers \ {s} : queued'[t] = queued[t]
  BY <1>1, <1>3, <1>7
<1> QED BY <1>1, <1>2, <1>4, <1>5, <1>6, <1>8, UpdateKeeps

LEMMA RepeatedIs ==
    ASSUME NEW e \in Entry
    PROVE  /\ Repeated(e) \in Entry /\ Repeated(e).packet = e.packet
           /\ Repeated(e).pending = e.pending
           /\ [Repeated(e) EXCEPT !.pending = FALSE] \in Entry
           /\ [Repeated(e) EXCEPT !.pending = FALSE].packet = e.packet
           /\ ~[Repeated(e) EXCEPT !.pending = FALSE].pending
<1> DEFINE r == Repeated(e)
<1>1. /\ r \in Entry /\ r.packet = e.packet /\ r.pending = e.pending
  <2> DEFINE y == [e EXCEPT !.times_retransmitted = @ + 1]
  <2>1. y \in Entry /\ y.packet = e.packet /\ y.pending = e.pending
    BY DEF Entry
  <2>2. r = [y EXCEPT !.age = 0]
    BY DEF Repeated
  <2> HIDE DEF y, r
  <2> QED BY <2>1, <2>2 DEF Entry
<1> HIDE DEF r
<1>2. LET x == [r EXCEPT !.pending = FALSE]
      IN x \in Entry /\ x.packet = r.packet /\ ~x.pending
  BY <1>1 DEF Entry
<1> QED BY <1>1, <1>2 DEF r

LEMMA SendStep ==
    ASSUME HistoryInv, NEW s \in Numbers, SendRetransmission(s)
    PROVE  HistoryInv'
<1> DEFINE i == GetStoredPacket(packet_history, s)
           e == packet_history[i]
           x == [Repeated(e) EXCEPT !.pending = FALSE]
<1>1. /\ queued[s] > 0 /\ queued' = [queued EXCEPT ![s] = @ - 1]
      /\ packet_history' = IF stores /\ i # None
                           THEN [packet_history EXCEPT ![i] = x]
                           ELSE packet_history
      /\ UNCHANGED <<padding_priority, stores, packets_inserted, dropped>>
  BY DEF SendRetransmission, MarkPacketAsSent
<1>2. packet_history \in Seq(Entry) /\ queued \in [Numbers -> {0, 1}]
  BY DEF HistoryInv, Deque
<1>3. queued' \in [Numbers -> {0, 1}] /\ queued'[s] = 0
      /\ \A t \in Numbers \ {s} : queued'[t] = queued[t]
  BY <1>1, <1>2
<1>4. CASE stores /\ i # None
  <2>1. /\ i \in 1..Len(packet_history) /\ e.packet = s
        /\ e \in Stored(packet_history)
    BY <1>4, LookUp
  <2>2. e \in Entry /\ s # None
    BY <1>2, <2>1, StoredIsEntry
  <2>3. x \in Entry /\ x.packet = s /\ ~x.pending
    BY <2>1, <2>2, RepeatedIs
  <2>4. packet_history' = [packet_history EXCEPT ![i] = x]
    BY <1>1, <1>4
  <2> HIDE DEF i, x
  <2> QED BY <1>1, <1>3, <2>1, <2>2, <2>3, <2>4, UpdateKeeps
<1>5. CASE ~(stores /\ i # None)
  <2>1. ASSUME NEW d \in Stored(packet_history)
        PROVE  d.packet \in Numbers \ {s}
    <3>1. d.packet \in Numbers
      BY <1>2, StoredIsEntry
    <3>2. CASE i = None
      BY <3>1, <3>2, LookUp
    <3>3. CASE ~stores
      BY <3>3 DEF HistoryInv, Stored
    <3> QED BY <1>5, <3>2, <3>3
  <2>2. packet_history' = packet_history
    BY <1>1, <1>5
  <2>3. Tracked(packet_history, queued', dropped)
    BY <1>3, <2>1 DEF HistoryInv, Tracked
  <2> QED BY <1>1, <1>3, <2>2, <2>3 DEF HistoryInv
<1> QED BY <1>4, <1>5

LEMMA DropStep ==
    ASSUME HistoryInv, NEW s \in Numbers, DropRetransmission(s)
    PROVE  HistoryInv'
<1>1. /\ queued[s] > 0 /\ queued' = [queued EXCEPT ![s] = @ - 1]
      /\ dropped' = dropped \cup {s}
      /\ UNCHANGED <<packet_history, padding_priority, stores,
                     packets_inserted>>
  BY DEF DropRetransmission
<1>2. packet_history \in Seq(Entry) /\ queued \in [Numbers -> {0, 1}]
  BY DEF HistoryInv, Deque
<1>3. queued' \in [Numbers -> {0, 1}] /\ queued'[s] = 0
      /\ \A t \in Numbers \ {s} : queued'[t] = queued[t]
  BY <1>1, <1>2
<1>4. Tracked(packet_history, queued', dropped')
  <2>1. ASSUME NEW e \in Stored(packet_history)
        PROVE  /\ e.pending => queued'[e.packet] = 1 \/ e.packet \in dropped'
               /\ ~e.pending => queued'[e.packet] = 0
    <3>1. e.packet \in Numbers
      BY <1>2, StoredIsEntry
    <3> QED BY <1>1, <1>3, <3>1 DEF HistoryInv, Tracked
  <2> QED BY <2>1 DEF Tracked
<1> QED BY <1>1, <1>3, <1>4 DEF HistoryInv

LEMMA MaxIs ==
    ASSUME NEW n \in Nat, NEW S \in SUBSET (1..n), S # {}
    PROVE  Max(S) \in S
<1> DEFINE T == {n - i : i \in S}
<1>1. T \in SUBSET Nat /\ T # {}
  OBVIOUS
<1>2. Min(T) \in T /\ \A y \in T : Min(T) <= y
  BY <1>1, MinIs
<1>3. PICK x \in S : Min(T) = n - x
  BY <1>2
<1>4. \A y \in S : n - x <= n - y
  BY <1>2, <1>3
<1>5. \A y \in S : x >= y
  BY <1>4
<1> QED BY <1>5 DEF Max

(* A step that changes an entry, but neither its packet nor that it is     *)
(* pending.                                                                *)
LEMMA QuietUpdate ==
    ASSUME HistoryInv, NEW i \in 1..Len(packet_history), NEW x \in Entry,
           packet_history[i].packet # None,
           x.packet = packet_history[i].packet,
           x.pending = packet_history[i].pending,
           packet_history' = [packet_history EXCEPT ![i] = x],
           UNCHANGED <<padding_priority, stores, packets_inserted, queued,
                       dropped>>
    PROVE  HistoryInv'
<1>1. packet_history[i] \in Stored(packet_history)
  BY DEF Stored
<1>2. queued \in [Numbers -> {0, 1}]
  BY DEF HistoryInv
<1>3. /\ x.pending => queued[x.packet] = 1 \/ x.packet \in dropped
      /\ ~x.pending => queued[x.packet] = 0
  BY <1>1 DEF HistoryInv, Tracked
<1> QED BY <1>2, <1>3, UpdateKeeps

LEMMA PaddingStep ==
    ASSUME HistoryInv, GetPayloadPaddingPacket
    PROVE  HistoryInv'
<1> DEFINE h == packet_history
           full == {i \in 1..Len(h) : h[i].packet # None}
           best == IF enable_padding_prio
                   THEN IF padding_priority = {} THEN None
                        ELSE GetStoredPacket(h, Best(h, padding_priority))
                   ELSE IF full = {} THEN None ELSE Max(full)
           e == h[best]
           x == Repeated(e)
<1>1. /\ best # None /\ packet_history' = [h EXCEPT ![best] = x]
      /\ UNCHANGED <<padding_priority, stores, packets_inserted, queued,
                     dropped>>
  BY DEF GetPayloadPaddingPacket
<1>2. h \in Seq(Entry)
  BY DEF HistoryInv, Deque
<1>3. best \in 1..Len(h) /\ h[best].packet # None
  <2>1. CASE enable_padding_prio
    BY <1>1, <2>1 DEF GetStoredPacket, Position
  <2>2. CASE ~enable_padding_prio
    <3>1. full # {} /\ best = Max(full)
      BY <1>1, <2>2
    <3>2. Len(h) \in Nat /\ full \in SUBSET (1..Len(h))
      BY <1>2
    <3>3. Max(full) \in full
      BY <3>1, <3>2, MaxIs
    <3> QED BY <3>1, <3>3
  <2> QED BY <2>1, <2>2
<1> HIDE DEF best
<1>4. e \in Entry
  BY <1>2, <1>3
<1>5. x \in Entry /\ x.packet = e.packet /\ x.pending = e.pending
  BY <1>4, RepeatedIs
<1> HIDE DEF x
<1> QED BY <1>1, <1>3, <1>5, QuietUpdate

LEMMA AgeStep ==
    ASSUME HistoryInv, NEW i \in 1..Len(packet_history), Age(i)
    PROVE  HistoryInv'
<1> DEFINE e == packet_history[i]
           x == [e EXCEPT !.age = @ + 1]
<1>1. /\ e.packet # None
      /\ packet_history' = [packet_history EXCEPT ![i] = x]
      /\ UNCHANGED <<padding_priority, stores, packets_inserted, queued,
                     dropped>>
  BY DEF Age
<1>2. e \in Entry
  BY DEF HistoryInv, Deque
<1>3. x \in Entry /\ x.packet = e.packet /\ x.pending = e.pending
  BY <1>2 DEF Entry
<1> HIDE DEF x
<1> QED BY <1>1, <1>3, QuietUpdate

LEMMA ResetStep ==
    ASSUME HistoryInv, NEW mode \in BOOLEAN, Reset(mode)
    PROVE  HistoryInv'
<1>1. /\ packet_history' = << >> /\ padding_priority' = {}
      /\ UNCHANGED <<packets_inserted, queued, dropped>>
  BY DEF Reset, Becomes
<1>2. Stored(<< >>) = {} /\ << >> \in Seq(Entry) /\ InPlace(<< >>)
  BY DEF Stored, InPlace
<1> QED BY <1>1, <1>2 DEF HistoryInv, Deque, Tracked

LEMMA HistoryStep == HistoryInv /\ [Next]_vars => HistoryInv'
<1> SUFFICES ASSUME HistoryInv, [Next]_vars
             PROVE  HistoryInv'
  OBVIOUS
<1>1. CASE UNCHANGED vars
  BY <1>1 DEF vars, HistoryInv
<1>2. ASSUME NEW s \in Numbers,
             \/ PutRtpPacket(s) \/ ReSendPacket(s)
             \/ SendRetransmission(s) \/ DropRetransmission(s)
             \/ CullAcknowledgedPackets(s)
      PROVE  HistoryInv'
  BY <1>2, PutStep, ReSendStep, SendStep, DropStep, AcknowledgeStep
<1>3. CASE SetRtt \/ GetPayloadPaddingPacket
  BY <1>3, CullStep, PaddingStep
<1>4. ASSUME NEW mode \in BOOLEAN, Reset(mode)
      PROVE  HistoryInv'
  BY <1>4, ResetStep
<1>5. ASSUME NEW i \in 1..Len(packet_history), Age(i)
      PROVE  HistoryInv'
  BY <1>5, AgeStep
<1> QED BY <1>1, <1>2, <1>3, <1>4, <1>5 DEF Next

LEMMA HistoryInvHolds == Spec => []HistoryInv
<1>1. Init => HistoryInv
  <2> SUFFICES ASSUME Init
               PROVE  HistoryInv
    OBVIOUS
  <2>1. Stored(<< >>) = {} /\ << >> \in Seq(Entry) /\ InPlace(<< >>)
    BY DEF Stored, InPlace
  <2> QED BY <2>1 DEF Init, HistoryInv, Deque, Tracked
<1> QED BY <1>1, HistoryStep, PTL DEF Spec

-----------------------------------------------------------------------------
(* The theorems.                                                           *)

(* Whatever is put out of order, acknowledged, culled or trimmed, and      *)
(* across the wrap-around of the sequence numbers, the front of            *)
(* packet_history_ has a packet and every packet is at the index           *)
(* GetPacketIndex computes for it, for every modulus and capacity.         *)
THEOREM PacketsAreInPlace == Spec => []EntriesAreInPlace
<1>1. HistoryInv => EntriesAreInPlace
  BY DEF HistoryInv, Deque, InPlace, PlacedFrom, Ahead, EntriesAreInPlace
<1> QED BY <1>1, HistoryInvHolds, PTL

(* No pointer of padding_priority_ dangles, although RemovePacket erases   *)
(* by the comparator and culling by front.                                 *)
THEOREM PointersDoNotDangle == Spec => []PaddingIsStored
<1>1. HistoryInv => PaddingIsStored
  BY DEF HistoryInv, Deque, PaddingIsStored
<1> QED BY <1>1, HistoryInvHolds, PTL

(* A packet is in the pacer's queue at most once, and pending only while   *)
(* it is there or after the pacer dropped it.                              *)
THEOREM PendingIsInThePacer == Spec => []PendingIsQueued
<1>1. HistoryInv => PendingIsQueued
  <2> SUFFICES ASSUME HistoryInv
               PROVE  PendingIsQueued
    OBVIOUS
  <2>1. \A s \in Numbers : queued[s] <= 1
    BY DEF HistoryInv
  <2>2. ASSUME NEW i \in 1..Len(packet_history),
               packet_history[i].packet # None, packet_history[i].pending
        PROVE  \/ queued[packet_history[i].packet] = 1
               \/ packet_history[i].packet \in dropped
    <3>1. packet_history[i] \in Stored(packet_history)
      BY <2>2 DEF Stored
    <3> QED BY <2>2, <3>1 DEF HistoryInv, Tracked
  <2> QED BY <2>1, <2>2 DEF PendingIsQueued
<1> QED BY <1>1, HistoryInvHolds, PTL

LEMMA InPending ==
    /\ \A s : s \in Pending <=>
           s # None /\ \E e \in Stored(packet_history) :
                           e.pending /\ e.packet = s
    /\ \A s : s \in Pending' <=>
           s # None /\ \E e \in Stored(packet_history') :
                           e.pending /\ e.packet = s
BY DEF Pending, Stored

(* Culling, in SetRtt or before a packet is put, keeps the packets in the  *)
(* pacer's queue unless the history is at its capacity.                    *)
THEOREM CullingSparesPending == Spec => CullingKeepsPending
<1> DEFINE A == /\ SetRtt => CullingKeeps(0..(M - 1))
                /\ \A s \in Numbers :
                       PutRtpPacket(s) => CullingKeeps((0..(M - 1)) \ {s})
<1>1. HistoryInv => A
  <2> SUFFICES ASSUME HistoryInv
               PROVE  A
    OBVIOUS
  <2>1. ASSUME SetRtt
        PROVE  CullingKeeps(0..(M - 1))
    <3>1. \A e \in Stored(packet_history) :
              Len(packet_history) < kMaxCapacity /\ e.pending =>
                  e \in Stored(packet_history')
      BY <2>1, CullStep
    <3> QED BY <3>1, InPending DEF CullingKeeps
  <2>2. ASSUME NEW s \in Numbers, PutRtpPacket(s)
        PROVE  CullingKeeps((0..(M - 1)) \ {s})
    <3>1. \A e \in Stored(packet_history) :
              Len(packet_history) < kMaxCapacity /\ e.pending /\ e.packet # s =>
                  e \in Stored(packet_history')
      BY <2>2, PutStep
    <3> QED BY <3>1, InPending DEF CullingKeeps
  <2> QED BY <2>1, <2>2
<1>2. HistoryInv => [A]_vars
  BY <1>1
<1> HIDE DEF A
<1>3. Spec => [][A]_vars
  BY <1>2, HistoryInvHolds, PTL
<1> QED BY <1>3 DEF CullingKeepsPending, A

=============================================================================

--------------------------- MODULE NackModuleProofs ---------------------------
(***************************************************************************)
(* Theorems about NackModule.                                              *)
(***************************************************************************)
EXTENDS NackModule, FiniteSetTheorems, WellFoundedInduction, TLAPS

-----------------------------------------------------------------------------
(* Numbers and their remainders.                                           *)

Half == M \div 2

LEMMA HalfOfModulus ==
    Half \in Nat /\ Half > 0 /\ Half + Half = M /\ M \in Nat /\ M > 0
BY ModulusAssumption DEF Half

LEMMA Remainder ==
    ASSUME NEW x \in Int
    PROVE  (x % M) \in 0..(M - 1)
BY HalfOfModulus

LEMMA Division ==
    ASSUME NEW x \in Int
    PROVE  \E q \in Int : x = (M * q) + (x % M)
<1>1. (x \div M) \in Int /\ x = (M * (x \div M)) + (x % M)
  BY HalfOfModulus
<1> QED BY <1>1

LEMMA SmallMultiple ==
    ASSUME NEW k \in Int, -M < M * k, M * k < M
    PROVE  k = 0
<1>1. k >= 1 => M * k >= M
  BY HalfOfModulus
<1>2. k <= -1 => M * k <= -M
  BY HalfOfModulus
<1> QED BY <1>1, <1>2, HalfOfModulus

LEMMA SameRemainder ==
    ASSUME NEW x \in Int, NEW r \in 0..(M - 1), NEW k \in Int,
           x = (M * k) + r
    PROVE  (x % M) = r
<1> DEFINE m == x % M
<1>1. m \in 0..(M - 1)
  BY Remainder
<1>2. PICK q \in Int : x = (M * q) + m
  BY Division
<1> HIDE DEF m
<1>3. M * (q - k) = r - m
  BY <1>1, <1>2, HalfOfModulus
<1>4. -M < r - m /\ r - m < M
  BY <1>1, HalfOfModulus
<1>5. q - k = 0
  BY <1>3, <1>4, SmallMultiple
<1>6. M * (q - k) = 0
  BY <1>5, HalfOfModulus
<1>7. r = m
  BY <1>1, <1>3, <1>6, HalfOfModulus
<1> QED BY <1>7 DEF m

(* Numbers with the same remainder that are less than a cycle apart.       *)
LEMMA SameNumber ==
    ASSUME NEW x \in Int, NEW y \in Int, (x % M) = (y % M),
           -M < x - y, x - y < M
    PROVE  x = y
<1> DEFINE m == x % M
<1>1. m \in 0..(M - 1)
  BY Remainder
<1>2. PICK p \in Int : x = (M * p) + m
  BY Division
<1>3. PICK q \in Int : y = (M * q) + m
  BY Division
<1> HIDE DEF m
<1>4. M * (p - q) = x - y
  BY <1>1, <1>2, <1>3, HalfOfModulus
<1>5. p - q = 0
  BY <1>4, SmallMultiple
<1> QED BY <1>2, <1>3, <1>5, HalfOfModulus

LEMMA RemainderOfSum ==
    ASSUME NEW x \in Int, NEW d \in Int
    PROVE  (((x % M) + d) % M) = ((x + d) % M)
<1> DEFINE m == x % M
           y == x + d
           r == y % M
           z == m + d
<1>1. m \in 0..(M - 1) /\ y \in Int /\ r \in 0..(M - 1)
  BY Remainder
<1>2. PICK p \in Int : x = (M * p) + m
  BY Division
<1>3. PICK q \in Int : y = (M * q) + r
  BY <1>1, Division
<1>4. z \in Int /\ q - p \in Int
  BY <1>1
<1>5. z = (M * (q - p)) + r
  <2> HIDE DEF m, r
  <2> QED BY <1>1, <1>2, <1>3, HalfOfModulus
<1> HIDE DEF m, r, z
<1>6. (z % M) = r
  BY <1>1, <1>4, <1>5, SameRemainder
<1> QED BY <1>6 DEF z, m, r

LEMMA DifferenceIs ==
    ASSUME NEW x \in Int, NEW y \in Int, 0 <= y - x, y - x < M
    PROVE  ForwardDiff(x % M, y % M) = y - x
<1> DEFINE a == x % M
           b == y % M
           z == b - a
<1>1. a \in 0..(M - 1) /\ b \in 0..(M - 1)
  BY Remainder
<1>2. PICK p \in Int : x = (M * p) + a
  BY Division
<1>3. PICK q \in Int : y = (M * q) + b
  BY Division
<1> HIDE DEF a, b
<1>4. z \in Int /\ p - q \in Int /\ y - x \in 0..(M - 1)
  BY <1>1, HalfOfModulus
<1>5. z = (M * (p - q)) + (y - x)
  BY <1>1, <1>2, <1>3, HalfOfModulus
<1> HIDE DEF z
<1>6. (z % M) = y - x
  BY <1>4, <1>5, SameRemainder
<1> QED BY <1>6 DEF z, ForwardDiff, a, b

LEMMA SentIs ==
    ASSUME NEW n \in Int, NEW x \in Int, 0 <= n - x, n - x < M
    PROVE  Sent(x % M, n) = x
<1> DEFINE a == x % M
           z == n - a
<1>1. a \in 0..(M - 1)
  BY Remainder
<1>2. PICK p \in Int : x = (M * p) + a
  BY Division
<1> HIDE DEF a
<1>3. z \in Int /\ n - x \in 0..(M - 1)
  BY <1>1, HalfOfModulus
<1>4. z = (M * p) + (n - x)
  BY <1>1, <1>2, HalfOfModulus
<1> HIDE DEF z
<1>5. (z % M) = n - x
  BY <1>3, <1>4, SameRemainder
<1> QED BY <1>5 DEF z, Sent, a

LEMMA SentHas ==
    ASSUME NEW n \in Int, NEW s \in 0..(M - 1)
    PROVE  /\ Sent(s, n) \in Int /\ Sent(s, n) <= n /\ n - Sent(s, n) < M
           /\ (Sent(s, n) % M) = s
<1> DEFINE z == n - s
           r == z % M
           x == n - r
<1>1. z \in Int /\ r \in 0..(M - 1)
  BY Remainder, HalfOfModulus
<1>2. PICK q \in Int : z = (M * q) + r
  BY <1>1, Division
<1> HIDE DEF r
<1>3. x \in Int /\ x = (M * q) + s /\ x <= n /\ n - x < M
  BY <1>1, <1>2, HalfOfModulus
<1> HIDE DEF x
<1>4. (x % M) = s
  BY <1>3, SameRemainder
<1>5. Sent(s, n) = x
  BY DEF Sent, x, r, z
<1> QED BY <1>3, <1>4, <1>5

LEMMA Compare ==
    ASSUME NEW x \in Int, NEW y \in Int, -Half < x - y, x - y < Half
    PROVE  /\ AheadOrAt(x % M, y % M) <=> x >= y
           /\ AheadOf(x % M, y % M) <=> x > y
<1> DEFINE a == x % M
           b == y % M
<1>1. a \in 0..(M - 1) /\ b \in 0..(M - 1)
  BY Remainder
<1>2. a = b <=> x = y
  <2>1. -M < x - y /\ x - y < M
    BY HalfOfModulus
  <2>2. ASSUME a = b PROVE x = y
    BY <2>1, <2>2, SameNumber
  <2> QED BY <2>2
<1>3. a - b # Half
  <2>1. SUFFICES ASSUME a - b = Half PROVE FALSE
    OBVIOUS
  <2>2. a = b + Half
    BY <1>1, <2>1, HalfOfModulus
  <2>3. (a % M) = ((y + Half) % M)
    <3>1. Half \in Int
      BY HalfOfModulus
    <3>2. ((b + Half) % M) = ((y + Half) % M)
      BY <3>1, RemainderOfSum
    <3> QED BY <2>2, <3>2
  <2>4. (a % M) = a
    <3> HIDE DEF a
    <3>1. a \in Int /\ 0 \in Int /\ a = (M * 0) + a
      BY <1>1, HalfOfModulus
    <3> QED BY <1>1, <3>1, SameRemainder
  <2>5. (x % M) = ((y + Half) % M)
    BY <2>3, <2>4
  <2>6. y + Half \in Int /\ -M < x - (y + Half) /\ x - (y + Half) < M
    BY HalfOfModulus
  <2>7. x = y + Half
    BY <2>5, <2>6, SameNumber
  <2> QED BY <2>7, HalfOfModulus
<1>4. x >= y => ForwardDiff(b, a) = x - y
  <2>1. x >= y => 0 <= x - y /\ x - y < M
    BY HalfOfModulus
  <2> QED BY <2>1, DifferenceIs
<1>5. x < y => ForwardDiff(b, a) = (x + M) - y
  <2>1. SUFFICES ASSUME x < y PROVE ForwardDiff(b, a) = (x + M) - y
    OBVIOUS
  <2>2. x + M \in Int /\ 0 <= (x + M) - y /\ (x + M) - y < M
    BY <2>1, HalfOfModulus
  <2>3. ForwardDiff(b, (x + M) % M) = (x + M) - y
    BY <2>2, DifferenceIs
  <2>4. PICK q \in Int : x = (M * q) + a
    BY Division
  <2>5. ((x + M) % M) = a
    <3> HIDE DEF a
    <3>1. q + 1 \in Int /\ x + M = (M * (q + 1)) + a
      BY <1>1, <2>4, HalfOfModulus
    <3> QED BY <1>1, <2>2, <3>1, SameRemainder
  <2> QED BY <2>3, <2>5
<1> HIDE DEF a, b
<1>6. AheadOrAt(a, b) <=> ForwardDiff(b, a) < Half
  BY <1>3 DEF AheadOrAt, Half
<1>7. AheadOrAt(a, b) <=> x >= y
  BY <1>4, <1>5, <1>6, HalfOfModulus
<1>8. AheadOf(a, b) <=> x > y
  BY <1>2, <1>7 DEF AheadOf
<1> QED BY <1>7, <1>8 DEF a, b

-----------------------------------------------------------------------------
(* The inductive invariant: every list of the module is a set of packets   *)
(* near the newest one, for which comparing remainders is comparing        *)
(* numbers.                                                                *)

ListInWindow(list, n) ==
    /\ list \in [DOMAIN list -> Entry]
    /\ \A s \in DOMAIN list :
           /\ s \in 0..(M - 1)
           /\ First <= Sent(s, n) /\ n - kMaxPacketAge <= Sent(s, n)
           /\ Sent(s, n) < n

(* S holds remainders of numbers in K between lo and hi.                   *)
Within(S, K, lo, hi) ==
    \A s \in S : \E k \in K : lo <= k /\ k <= hi /\ s = (k % M)

(* The retries of an entry are how often its packet was asked for.         *)
Counted(list, asks, n) ==
    \A s \in DOMAIN list : asks[Sent(s, n)] = list[s].retries

NackTypes ==
    /\ send_nack_delay \in BOOLEAN /\ initialized \in BOOLEAN
    /\ top \in Int /\ First <= top
    /\ received \subseteq Numbers /\ keyframes \subseteq Numbers
    /\ asked \in [Numbers -> Nat]
    /\ cleared \in Int /\ refresh \in Int

Started ==
    \/ initialized /\ newest_seq_num = (top % M) /\ top \in received
    \/ /\ ~initialized /\ newest_seq_num = 0 /\ top = First
       /\ DOMAIN nack_list = {} /\ keyframe_list = {}
       /\ recovered_list = {} /\ received = {}

ListsInWindow ==
    /\ ListInWindow(nack_list, top)
    /\ Within(keyframe_list, keyframes, top - kMaxPacketAge, top + MaxJump)
    /\ Within(recovered_list, received,
              (top + MaxJump + 1) - Half, top + MaxJump)

ListIsBounded ==
    /\ IsFiniteSet(DOMAIN nack_list)
    /\ Cardinality(DOMAIN nack_list) <= kMaxNackPackets

AskedIsCounted ==
    /\ Counted(nack_list, asked, top)
    /\ \A u \in Numbers : u > top => asked[u] = 0

(* A packet ahead of the newest one was recovered.                         *)
AheadIsRecovered ==
    \A u \in received :
        /\ u <= top + MaxJump
        /\ u > top => (u % M) \in recovered_list \/ u < cleared

NackInv ==
    /\ NackTypes /\ Started /\ ListsInWindow /\ ListIsBounded
    /\ AskedIsCounted /\ AheadIsRecovered
    /\ AskedAtMost /\ NackedAreMissing /\ NoSilentLoss

-----------------------------------------------------------------------------
(* The lists.                                                              *)

LEMMA Constants ==
    /\ kMaxPacketAge \in Nat /\ kMaxNackPackets \in Nat
    /\ kMaxNackRetries \in Nat /\ kMaxNackRetries > 0
    /\ kMaxNackPackets <= kMaxPacketAge
    /\ First \in Nat /\ Last \in Nat /\ MaxJump \in Nat /\ MaxDelay \in Nat
    /\ MaxJump + kMaxPacketAge < Half /\ MaxJump + MaxDelay < Half
BY LimitAssumption, WindowAssumption DEF Half

LEMMA SentIsOneToOne ==
    ASSUME NEW n \in Int, NEW s \in 0..(M - 1), NEW t \in 0..(M - 1),
           Sent(s, n) = Sent(t, n)
    PROVE  s = t
BY SentHas

LEMMA FromIs ==
    ASSUME NEW x \in Int, NEW a \in Int, -Half < a - x, a - x < Half,
           NEW S, (x % M) \in S
    PROVE  (x % M) \in From(S, a % M) <=> x >= a
<1>1. AheadOf(a % M, x % M) <=> a > x
  BY Compare
<1> QED BY <1>1 DEF From

LEMMA FromList ==
    ASSUME NEW S, NEW n \in Int, NEW a \in Int, NEW s \in S, s \in 0..(M - 1),
           -Half < a - Sent(s, n), a - Sent(s, n) < Half
    PROVE  s \in From(S, a % M) <=> Sent(s, n) >= a
<1> DEFINE x == Sent(s, n)
<1>1. x \in Int /\ (x % M) = s
  BY SentHas
<1> HIDE DEF x
<1>2. -Half < a - x /\ a - x < Half
  BY DEF x
<1>3. (x % M) \in From(S, a % M) <=> x >= a
  BY <1>1, <1>2, FromIs
<1> QED BY <1>1, <1>3 DEF x

LEMMA FromWithin ==
    ASSUME NEW S, NEW K, K \subseteq Int, NEW lo \in Int, NEW hi \in Int,
           Within(S, K, lo, hi),
           NEW a \in Int, a - lo < Half, hi - a < Half
    PROVE  /\ Within(From(S, a % M), K, lo, hi)
           /\ Within(From(S, a % M), K, a, hi)
<1> SUFFICES ASSUME NEW s \in From(S, a % M)
             PROVE  \E k \in K : /\ lo <= k /\ k <= hi /\ s = (k % M)
                                 /\ a <= k
  BY DEF Within
<1>1. s \in S
  BY DEF From
<1>2. PICK k \in K : lo <= k /\ k <= hi /\ s = (k % M)
  BY <1>1 DEF Within
<1>3. k \in Int /\ -Half < a - k /\ a - k < Half
  BY <1>2, HalfOfModulus
<1>4. k >= a
  BY <1>1, <1>2, <1>3, FromIs
<1> QED BY <1>2, <1>4

LEMMA WidenWithin ==
    ASSUME NEW S, NEW K, NEW L, K \subseteq L, L \subseteq Int,
           NEW lo \in Int, NEW hi \in Int, NEW low \in Int, NEW high \in Int,
           low <= lo, hi <= high, Within(S, K, lo, hi), NEW T, T \subseteq S
    PROVE  Within(T, L, low, high)
<1> SUFFICES ASSUME NEW s \in T
             PROVE  \E k \in L : low <= k /\ k <= high /\ s = (k % M)
  BY DEF Within
<1>1. PICK k \in K : lo <= k /\ k <= hi /\ s = (k % M)
  BY DEF Within
<1>2. k \in L /\ k \in Int
  OBVIOUS
<1>3. low <= k /\ k <= high
  BY <1>1, <1>2
<1> QED BY <1>1, <1>2, <1>3

-----------------------------------------------------------------------------
(* A batch of requests, which leaves new of the entries of list and asks   *)
(* of the counts.                                                          *)

BatchDone(list, new, n, asks) ==
    /\ ListInWindow(new, n) /\ Counted(new, asks, n)
    /\ DOMAIN new \subseteq DOMAIN list
    /\ asks \in [Numbers -> Nat]
    /\ \A u \in Numbers : asks[u] <= kMaxNackRetries
    /\ \A u \in Numbers :
           (\A s \in DOMAIN list : Sent(s, n) # u) => asks[u] = asked[u]
    /\ \A u \in Numbers : asked[u] <= asks[u]
    /\ \A s \in DOMAIN list :
           s \notin DOMAIN new => asks[Sent(s, n)] = kMaxNackRetries

LEMMA BatchStep ==
    ASSUME NEW list, NEW n \in Numbers, ListInWindow(list, n),
           Counted(list, asked, n), NEW batch, batch \subseteq DOMAIN list,
           asked \in [Numbers -> Nat], AskedAtMost, Ask(batch, n)
    PROVE  BatchDone(list, AfterBatch(list, batch), n, asked')
<1> DEFINE new == AfterBatch(list, batch)
           more(s) == [retries |-> list[s].retries + 1, wait |-> "rtt"]
<1>1. /\ DOMAIN new = {s \in DOMAIN list :
                 s \in batch => list[s].retries + 1 < kMaxNackRetries}
      /\ new = [s \in DOMAIN new |-> IF s \in batch THEN more(s) ELSE list[s]]
  BY DEF AfterBatch
<1>2. \A s \in DOMAIN new :
          new[s] = IF s \in batch THEN more(s) ELSE list[s]
  BY <1>1
<1>3. DOMAIN new \subseteq DOMAIN list
  BY <1>1
<1>4. \A s \in DOMAIN list :
          /\ list[s] \in Entry /\ list[s].retries \in Nat
          /\ list[s].retries < kMaxNackRetries
          /\ list[s].wait \in {"delay", "rtt", "no"}
          /\ s \in 0..(M - 1) /\ Sent(s, n) \in Numbers
  <2> TAKE s \in DOMAIN list
  <2>1. list[s] \in Entry
    BY DEF ListInWindow
  <2>2. /\ s \in 0..(M - 1) /\ First <= Sent(s, n) /\ Sent(s, n) < n
    BY DEF ListInWindow
  <2>3. n \in Int /\ n <= Last
    BY Constants DEF Numbers
  <2>4. Sent(s, n) \in Int
    BY <2>2, <2>3, SentHas
  <2>5. Sent(s, n) \in Numbers
    BY <2>2, <2>3, <2>4, Constants DEF Numbers
  <2> QED BY <2>1, <2>2, <2>5, Constants DEF Entry
<1>5. \A s \in DOMAIN new : new[s] \in Entry
  <2> TAKE s \in DOMAIN new
  <2>1. CASE s \in batch
    <3>1. new[s] = more(s) /\ list[s].retries + 1 < kMaxNackRetries
      BY <1>1, <1>2, <2>1
    <3>2. list[s].retries + 1 \in 0..(kMaxNackRetries - 1)
      BY <1>3, <1>4, <3>1, Constants
    <3> QED BY <3>1, <3>2 DEF Entry
  <2>2. CASE s \notin batch
    BY <1>2, <1>3, <1>4, <2>2
  <2> QED BY <2>1, <2>2
<1>6. ListInWindow(new, n)
  <2>1. new \in [DOMAIN new -> Entry]
    <3> HIDE DEF new
    <3> QED BY <1>1, <1>5
  <2> QED BY <1>3, <2>1 DEF ListInWindow
<1>7. asked' = [u \in Numbers |-> asked[u] +
                   (IF \E s \in batch : Sent(s, n) = u THEN 1 ELSE 0)]
  BY DEF Ask
<1>8. ASSUME NEW s \in DOMAIN list
      PROVE  /\ s \in batch =>
                    asked'[Sent(s, n)] = list[s].retries + 1
             /\ s \notin batch => asked'[Sent(s, n)] = list[s].retries
  <2> DEFINE x == Sent(s, n)
  <2>1. x \in Numbers /\ asked[x] = list[s].retries /\ asked[x] \in Nat
    BY <1>4 DEF Counted
  <2>2. (\E t \in batch : Sent(t, n) = x) <=> s \in batch
    <3>1. ASSUME NEW t \in batch, Sent(t, n) = x PROVE t = s
      <4>1. n \in Int /\ t \in 0..(M - 1) /\ s \in 0..(M - 1)
        BY <1>4, Constants DEF Numbers
      <4> QED BY <3>1, <4>1, SentIsOneToOne
    <3> QED BY <3>1
  <2>3. asked'[x] = asked[x] + IF \E t \in batch : Sent(t, n) = x
                               THEN 1 ELSE 0
    BY <1>7, <2>1
  <2> HIDE DEF x
  <2>4. s \in batch => asked'[x] = list[s].retries + 1
    BY <2>1, <2>2, <2>3
  <2>5. s \notin batch => asked'[x] = list[s].retries
    BY <2>1, <2>2, <2>3
  <2> QED BY <2>4, <2>5 DEF x
<1>9. Counted(new, asked', n)
  <2> SUFFICES ASSUME NEW s \in DOMAIN new
               PROVE  asked'[Sent(s, n)] = new[s].retries
    BY DEF Counted
  <2>1. new[s] = IF s \in batch THEN more(s) ELSE list[s]
    BY <1>2
  <2> HIDE DEF new
  <2> QED BY <1>3, <1>8, <2>1
<1>10. \A u \in Numbers :
          /\ asked'[u] \in Nat /\ asked[u] <= asked'[u]
          /\ (\A s \in DOMAIN list : Sent(s, n) # u) => asked'[u] = asked[u]
  <2> TAKE u \in Numbers
  <2>1. asked'[u] = asked[u] + IF \E s \in batch : Sent(s, n) = u
                               THEN 1 ELSE 0
    BY <1>7
  <2>2. asked[u] \in Nat
    OBVIOUS
  <2>3. asked'[u] = asked[u] \/ asked'[u] = asked[u] + 1
    BY <2>1
  <2>4. (\A s \in DOMAIN list : Sent(s, n) # u) => asked'[u] = asked[u]
    BY <2>1, <2>2
  <2> QED BY <2>2, <2>3, <2>4
<1>11. asked' \in [Numbers -> Nat]
  BY <1>7, <1>10
<1>12. \A u \in Numbers : asked'[u] <= kMaxNackRetries
  <2> TAKE u \in Numbers
  <2>1. CASE \E s \in DOMAIN list : Sent(s, n) = u
    <3>1. PICK s \in DOMAIN list : Sent(s, n) = u
      BY <2>1
    <3> QED BY <1>4, <1>8, <3>1, Constants
  <2>2. CASE \A s \in DOMAIN list : Sent(s, n) # u
    BY <1>10, <2>2 DEF AskedAtMost
  <2> QED BY <2>1, <2>2
<1>13. ASSUME NEW s \in DOMAIN list, s \notin DOMAIN new
       PROVE  asked'[Sent(s, n)] = kMaxNackRetries
  <2>1. s \in batch /\ ~(list[s].retries + 1 < kMaxNackRetries)
    BY <1>1, <1>13
  <2>2. list[s].retries + 1 = kMaxNackRetries
    BY <1>4, <2>1, Constants
  <2> QED BY <1>8, <2>1, <2>2
<1> HIDE DEF new
<1>14. BatchDone(list, new, n, asked')
  BY <1>3, <1>6, <1>9, <1>10, <1>11, <1>12, <1>13 DEF BatchDone
<1> QED BY <1>14 DEF new

-----------------------------------------------------------------------------
(* Initial states.                                                         *)

LEMMA NackInit == Init => NackInv
<1> SUFFICES ASSUME Init PROVE NackInv
  OBVIOUS
<1>1. DOMAIN nack_list = {} /\ nack_list \in [DOMAIN nack_list -> Entry]
  <2>1. nack_list = << >> /\ DOMAIN nack_list = {}
    BY DEF Init
  <2>2. nack_list \in [{} -> Entry]
    BY <2>1
  <2> QED BY <2>1, <2>2
<1>2. NackTypes
  <2>1. send_nack_delay \in BOOLEAN /\ initialized \in BOOLEAN
    BY DEF Init
  <2>2. top \in Int /\ First <= top /\ cleared \in Int /\ refresh \in Int
    BY Constants DEF Init
  <2>3. asked \in [Numbers -> Nat] /\ received = {} /\ keyframes = {}
    BY DEF Init
  <2> QED BY <2>1, <2>2, <2>3 DEF NackTypes
<1>3. Started
  BY <1>1 DEF Init, Started
<1>4. ListsInWindow
  BY <1>1 DEF Init, ListsInWindow, ListInWindow, Within
<1>5. ListIsBounded
  <2>1. IsFiniteSet({}) /\ Cardinality({}) = 0
    BY FS_EmptySet
  <2> QED BY <1>1, <2>1, Constants DEF ListIsBounded
<1>6. AskedIsCounted /\ AskedAtMost
  BY <1>1, Constants DEF Init, AskedIsCounted, Counted, AskedAtMost
<1>7. AheadIsRecovered /\ NackedAreMissing
  BY DEF Init, AheadIsRecovered, NackedAreMissing
<1>8. NoSilentLoss
  <2>1. \A u \in First..(top - 1) : FALSE
    BY Constants DEF Init
  <2> QED BY <2>1 DEF NoSilentLoss
<1> QED BY <1>2, <1>3, <1>4, <1>5, <1>6, <1>7, <1>8 DEF NackInv

-----------------------------------------------------------------------------
(* Packets of the window and the newest one.                               *)

LEMMA MaxOfTwo ==
    ASSUME NEW a \in Int, NEW b \in Int
    PROVE  Max({a, b}) = IF a >= b THEN a ELSE b
BY DEF Max

LEMMA WindowIs ==
    ASSUME NackTypes, NEW u \in Window
    PROVE  /\ u \in Int /\ u \in Numbers /\ top \in Int
           /\ top - MaxDelay <= u /\ u <= top + MaxJump
           /\ -Half < u - top /\ u - top < Half
           /\ -M < u - top /\ u - top < M
<1>1. u \in Int /\ u \in Numbers /\ top \in Int
  BY Constants DEF Window, Numbers, NackTypes
<1>2. top - MaxDelay <= u /\ u <= top + MaxJump
  BY DEF Window
<1> QED BY <1>1, <1>2, Constants, HalfOfModulus

LEMMA Position ==
    ASSUME NackTypes, NEW u \in Window, newest_seq_num = (top % M)
    PROVE  /\ AheadOrAt(newest_seq_num, u % M) <=> u <= top
           /\ AheadOf(u % M, newest_seq_num) <=> u > top
<1>1. u \in Int /\ top \in Int /\ -Half < u - top /\ u - top < Half
  BY WindowIs
<1>2. -Half < top - u /\ top - u < Half
  BY <1>1, HalfOfModulus
<1>3. AheadOrAt(top % M, u % M) <=> top >= u
  BY <1>1, <1>2, Compare
<1>4. AheadOf(u % M, top % M) <=> u > top
  BY <1>1, Compare
<1> QED BY <1>1, <1>3, <1>4

LEMMA NewestIs ==
    ASSUME NackInv, initialized
    PROVE  /\ newest_seq_num = (top % M) /\ top \in received
           /\ top \in Numbers /\ top \in Int
<1>1. newest_seq_num = (top % M) /\ top \in received
  BY Zenon DEF NackInv, Started
<1>2. received \subseteq Numbers /\ top \in Int
  BY DEF NackInv, NackTypes
<1> QED BY <1>1, <1>2

LEMMA ListedIs ==
    ASSUME NackInv, NEW s \in DOMAIN nack_list
    PROVE  /\ initialized /\ s \in 0..(M - 1) /\ nack_list[s] \in Entry
           /\ Sent(s, top) \in Numbers /\ Sent(s, top) \in Int
           /\ First <= Sent(s, top) /\ top - kMaxPacketAge <= Sent(s, top)
           /\ Sent(s, top) < top /\ (Sent(s, top) % M) = s
<1>1. initialized
  BY DEF NackInv, Started
<1>2. /\ s \in 0..(M - 1) /\ nack_list[s] \in Entry
      /\ First <= Sent(s, top) /\ top - kMaxPacketAge <= Sent(s, top)
      /\ Sent(s, top) < top
  BY DEF NackInv, ListsInWindow, ListInWindow
<1>3. top \in Int /\ top <= Last
  BY <1>1, NewestIs, Constants DEF Numbers
<1>4. Sent(s, top) \in Int /\ (Sent(s, top) % M) = s
  BY <1>2, <1>3, SentHas
<1>5. Sent(s, top) \in Numbers
  BY <1>2, <1>3, <1>4, Constants DEF Numbers
<1> QED BY <1>1, <1>2, <1>4, <1>5

LEMMA RestrictedList ==
    ASSUME NEW list, NEW n, NEW asks, ListInWindow(list, n),
           Counted(list, asks, n), NEW T, T \subseteq DOMAIN list
    PROVE  /\ DOMAIN Restrict(list, T) = T
           /\ ListInWindow(Restrict(list, T), n)
           /\ Counted(Restrict(list, T), asks, n)
BY DEF ListInWindow, Counted, Restrict

LEMMA Shrinks ==
    ASSUME NackInv, DOMAIN nack_list' \subseteq DOMAIN nack_list
    PROVE  ListIsBounded'
<1>1. /\ IsFiniteSet(DOMAIN nack_list)
      /\ Cardinality(DOMAIN nack_list) <= kMaxNackPackets
  BY DEF NackInv, ListIsBounded
<1>2. /\ IsFiniteSet(DOMAIN nack_list')
      /\ Cardinality(DOMAIN nack_list') <= Cardinality(DOMAIN nack_list)
  BY <1>1, FS_Subset
<1>3. /\ Cardinality(DOMAIN nack_list) \in Nat
      /\ Cardinality(DOMAIN nack_list') \in Nat
  BY <1>1, <1>2, FS_CardinalityType
<1>4. Cardinality(DOMAIN nack_list') <= kMaxNackPackets
  BY <1>1, <1>2, <1>3, Constants
<1> QED BY <1>2, <1>4 DEF ListIsBounded

-----------------------------------------------------------------------------
(* The first packet.                                                       *)

LEMMA FirstStep ==
    ASSUME NackInv, NEW u \in Window, NEW is_keyframe \in BOOLEAN,
           OnFirstPacket(u, is_keyframe)
    PROVE  NackInv'
<1>1. /\ initialized' = TRUE /\ newest_seq_num' = (u % M) /\ u = First
      /\ keyframe_list' = IF is_keyframe THEN {u % M} ELSE {}
      /\ nack_list' = nack_list /\ recovered_list' = recovered_list
      /\ asked' = asked /\ cleared' = cleared /\ refresh' = refresh
      /\ send_nack_delay' = send_nack_delay
  BY DEF OnFirstPacket
<1>2. /\ top = First /\ DOMAIN nack_list = {} /\ recovered_list = {}
      /\ received = {}
  BY Zenon DEF NackInv, Started, OnFirstPacket
<1>3. u \in Int /\ u \in Numbers /\ NackTypes
  BY WindowIs DEF NackInv
<1>4. /\ received' = {u} /\ top' = u
      /\ keyframes' = IF is_keyframe THEN keyframes \cup {u} ELSE keyframes
  <2>1. Max({top, u}) = u
    BY <1>1, <1>2, <1>3, MaxOfTwo
  <2> QED BY <1>2, <2>1 DEF OnFirstPacket, Arrives
<1>5. NackTypes'
  <2>1. keyframes' \subseteq Numbers
    BY <1>3, <1>4 DEF NackTypes
  <2>2. First <= u
    BY <1>1, <1>3
  <2> QED BY <1>1, <1>3, <1>4, <2>1, <2>2 DEF NackTypes
<1>6. Started'
  BY <1>1, <1>4 DEF Started
<1>7. ListsInWindow'
  <2>1. ListInWindow(nack_list, u)
    BY <1>2 DEF NackInv, ListsInWindow, ListInWindow
  <2>2. Within(keyframe_list', keyframes', u - kMaxPacketAge, u + MaxJump)
    <3>1. u - kMaxPacketAge <= u /\ u <= u + MaxJump
      BY <1>3, Constants
    <3> QED BY <1>1, <1>4, <3>1 DEF Within
  <2> QED BY <1>1, <1>2, <1>4, <2>1, <2>2 DEF ListsInWindow, Within
<1>8. ListIsBounded'
  BY <1>1, Shrinks
<1>9. AskedIsCounted'
  <2>1. Counted(nack_list, asked, u)
    BY <1>2 DEF Counted
  <2> QED BY <1>1, <1>2, <1>4, <2>1 DEF NackInv, AskedIsCounted
<1>10. AskedAtMost'
  BY <1>1 DEF NackInv, AskedAtMost
<1>11. AheadIsRecovered'
  BY <1>3, <1>4, Constants DEF AheadIsRecovered
<1>12. NackedAreMissing'
  BY <1>1, <1>2 DEF NackedAreMissing, Listed
<1>13. NoSilentLoss'
  <2>1. First..(top' - 1) = {}
    BY <1>1, <1>3, <1>4
  <2> QED BY <2>1 DEF NoSilentLoss
<1> QED BY <1>5, <1>6, <1>7, <1>8, <1>9, <1>10, <1>11, <1>12, <1>13
        DEF NackInv

-----------------------------------------------------------------------------
(* A packet that is not ahead of the newest one.                           *)

LEMMA OldStep ==
    ASSUME NackInv, NEW u \in Window, OnOldPacket(u)
    PROVE  NackInv'
<1>1. /\ initialized /\ initialized' = initialized
      /\ AheadOrAt(newest_seq_num, u % M)
      /\ newest_seq_num' = newest_seq_num
      /\ keyframe_list' = keyframe_list
      /\ recovered_list' = recovered_list
      /\ asked' = asked /\ cleared' = cleared /\ refresh' = refresh
      /\ send_nack_delay' = send_nack_delay
  BY DEF OnOldPacket
<1>2. newest_seq_num = (top % M) /\ top \in received /\ top \in Int
  BY <1>1, NewestIs
<1>3. /\ u \in Int /\ u \in Numbers /\ NackTypes
      /\ -M < u - top /\ u - top < M
  BY WindowIs DEF NackInv
<1>4. u <= top
  BY <1>1, <1>2, <1>3, Position
<1>5. /\ received' = received \cup {u} /\ top' = top
      /\ keyframes' = keyframes
  <2>1. Max({top, u}) = top
    BY <1>2, <1>3, <1>4, MaxOfTwo
  <2> QED BY <2>1 DEF OnOldPacket, Arrives
<1>6. Sent(u % M, top) = u
  <2>1. 0 <= top - u /\ top - u < M
    BY <1>2, <1>3, <1>4, HalfOfModulus
  <2> QED BY <1>2, <1>3, <2>1, SentIs
<1>7. /\ DOMAIN nack_list' = DOMAIN nack_list \ {u % M}
      /\ ListInWindow(nack_list', top) /\ Counted(nack_list', asked, top)
  <2>1. ListInWindow(nack_list, top) /\ Counted(nack_list, asked, top)
    BY DEF NackInv, ListsInWindow, AskedIsCounted
  <2>2. CASE (u % M) = newest_seq_num
    <3>1. u = top
      BY <1>2, <1>3, <2>2, SameNumber
    <3>2. (u % M) \notin DOMAIN nack_list
      BY <1>2, <1>6, <3>1, ListedIs
    <3>3. nack_list' = nack_list
      BY <2>2 DEF OnOldPacket
    <3> QED BY <2>1, <3>2, <3>3
  <2>3. CASE (u % M) # newest_seq_num
    <3>1. nack_list' = Restrict(nack_list, DOMAIN nack_list \ {u % M})
      BY <2>3 DEF OnOldPacket
    <3> DEFINE T == DOMAIN nack_list \ {u % M}
    <3>2. T \subseteq DOMAIN nack_list
      OBVIOUS
    <3> HIDE DEF T
    <3>3. /\ DOMAIN Restrict(nack_list, T) = T
          /\ ListInWindow(Restrict(nack_list, T), top)
          /\ Counted(Restrict(nack_list, T), asked, top)
      BY <2>1, <3>2, RestrictedList
    <3> QED BY <3>1, <3>3 DEF T
  <2> QED BY <2>2, <2>3
<1>8. \A x : Listed(x)' => Listed(x) /\ x # u
  <2> SUFFICES ASSUME NEW x, NEW s \in DOMAIN nack_list', Sent(s, top) = x
               PROVE  Listed(x) /\ x # u
    BY <1>5 DEF Listed
  <2>1. s \in DOMAIN nack_list /\ s # (u % M)
    BY <1>7
  <2>2. (Sent(s, top) % M) = s
    BY <2>1, ListedIs
  <2> QED BY <2>1, <2>2 DEF Listed
<1>9. \A x : Listed(x) /\ x # u => Listed(x)'
  <2> SUFFICES ASSUME NEW s \in DOMAIN nack_list, Sent(s, top) # u
               PROVE  s \in DOMAIN nack_list'
    BY <1>5 DEF Listed
  <2> QED BY <1>6, <1>7
<1>10. NackTypes'
  BY <1>1, <1>3, <1>5 DEF NackTypes
<1>11. Started'
  <2>1. newest_seq_num' = (top' % M) /\ top' \in received'
    BY <1>1, <1>2, <1>5
  <2> QED BY <1>1, <2>1, Zenon DEF Started
<1>12. ListsInWindow'
  <2>1. /\ Within(keyframe_list, keyframes, top - kMaxPacketAge, top + MaxJump)
        /\ Within(recovered_list, received,
                  (top + MaxJump + 1) - Half, top + MaxJump)
    BY DEF NackInv, ListsInWindow
  <2>2. Within(recovered_list, received',
               (top + MaxJump + 1) - Half, top + MaxJump)
    BY <1>5, <2>1 DEF Within
  <2> QED BY <1>1, <1>5, <1>7, <2>1, <2>2 DEF ListsInWindow
<1>13. ListIsBounded'
  BY <1>7, Shrinks
<1>14. AskedIsCounted'
  BY <1>1, <1>5, <1>7 DEF NackInv, AskedIsCounted
<1>15. AskedAtMost'
  BY <1>1 DEF NackInv, AskedAtMost
<1>16. AheadIsRecovered'
  BY <1>1, <1>2, <1>3, <1>4, <1>5, Constants DEF NackInv, AheadIsRecovered
<1>17. NackedAreMissing'
  BY <1>1, <1>5, <1>8 DEF NackInv, NackedAreMissing
<1>18. NoSilentLoss'
  BY <1>1, <1>5, <1>9 DEF NackInv, NoSilentLoss
<1> QED BY <1>10, <1>11, <1>12, <1>13, <1>14, <1>15, <1>16, <1>17, <1>18
        DEF NackInv

-----------------------------------------------------------------------------
(* A recovered packet ahead of the newest one.                             *)

LEMMA RemainderOfDifference ==
    ASSUME NEW x \in Int, NEW d \in Int
    PROVE  (((x % M) - d) % M) = ((x - d) % M)
<1>1. -d \in Int /\ (x % M) \in Int
  BY Remainder, HalfOfModulus
<1>2. (((x % M) + (-d)) % M) = ((x + (-d)) % M)
  BY <1>1, RemainderOfSum
<1>3. (x % M) + (-d) = (x % M) - d /\ x + (-d) = x - d
  <2> DEFINE m == x % M
  <2> HIDE DEF m
  <2>1. m + (-d) = m - d /\ x + (-d) = x - d
    BY <1>1 DEF m
  <2> QED BY <2>1 DEF m
<1> QED BY <1>2, <1>3

LEMMA KeyframesIs ==
    ASSUME NackInv, NEW u \in Window, u > top, NEW is_keyframe \in BOOLEAN,
           NEW K, K = IF is_keyframe THEN keyframes \cup {u} ELSE keyframes
    PROVE  /\ Within(Keyframes(u % M, is_keyframe), K,
                     u - kMaxPacketAge, top + MaxJump)
           /\ K \subseteq Numbers
<1> DEFINE base == IF is_keyframe THEN keyframe_list \cup {u % M}
                   ELSE keyframe_list
           a == u - kMaxPacketAge
           lo == top - kMaxPacketAge
           hi == top + MaxJump
<1>1. /\ u \in Int /\ u \in Numbers /\ top \in Int /\ u <= hi
      /\ u - top < Half
  BY WindowIs DEF NackInv
<1>2. K \subseteq Numbers /\ K \subseteq Int
  BY <1>1, Constants DEF NackInv, NackTypes, Numbers
<1>3. /\ a \in Int /\ lo \in Int /\ hi \in Int
      /\ a - lo < Half /\ hi - a < Half /\ lo <= u
  BY <1>1, Constants, HalfOfModulus
<1>4. Within(base, K, lo, hi)
  <2>1. Within(keyframe_list, keyframes, lo, hi)
    BY DEF NackInv, ListsInWindow
  <2> HIDE DEF lo, hi
  <2>2. \A s \in keyframe_list :
            \E k \in K : lo <= k /\ k <= hi /\ s = (k % M)
    BY <2>1 DEF Within
  <2>3. is_keyframe => u \in K /\ lo <= u /\ u <= hi
    BY <1>1, <1>3
  <2> QED BY <2>2, <2>3 DEF Within
<1>5. Within(From(base, a % M), K, a, hi)
  <2> HIDE DEF a, lo, hi, base
  <2> QED BY <1>2, <1>3, <1>4, FromWithin
<1>6. (((u % M) - kMaxPacketAge) % M) = (a % M)
  BY <1>1, Constants, RemainderOfDifference
<1>7. Keyframes(u % M, is_keyframe) = From(base, a % M)
  BY <1>6 DEF Keyframes
<1> QED BY <1>2, <1>5, <1>7

LEMMA RecoveredStep ==
    ASSUME NackInv, NEW u \in Window, NEW is_keyframe \in BOOLEAN,
           OnRecoveredPacket(u, is_keyframe)
    PROVE  NackInv'
<1> DEFINE a == u - kMaxPacketAge
           lo == (top + MaxJump + 1) - Half
           hi == top + MaxJump
           base == recovered_list \cup {u % M}
<1>1. /\ initialized /\ initialized' = initialized
      /\ AheadOf(u % M, newest_seq_num)
      /\ newest_seq_num' = newest_seq_num /\ nack_list' = nack_list
      /\ keyframe_list' = Keyframes(u % M, is_keyframe)
      /\ recovered_list' = From(base, a % M)
      /\ asked' = asked /\ cleared' = cleared /\ refresh' = refresh
      /\ send_nack_delay' = send_nack_delay
      /\ received' = received \cup {u} /\ top' = top
      /\ keyframes' = IF is_keyframe THEN keyframes \cup {u} ELSE keyframes
  BY DEF OnRecoveredPacket, Arrives
<1>2. newest_seq_num = (top % M) /\ top \in received /\ top \in Int
  BY <1>1, NewestIs
<1>3. u \in Int /\ u \in Numbers /\ NackTypes /\ u <= hi
  BY WindowIs DEF NackInv
<1>4. u > top
  BY <1>1, <1>2, <1>3, Position
<1>5. /\ a \in Int /\ lo \in Int /\ hi \in Int /\ lo <= u
      /\ a - lo < Half /\ hi - a < Half /\ a <= top + 1
      /\ lo <= top + 1 /\ hi - lo < M
  BY <1>2, <1>3, <1>4, Constants, JumpAssumption, HalfOfModulus
<1>6. received' \subseteq Int /\ received \subseteq Int
  BY <1>1, <1>3, Constants DEF NackTypes, Numbers
<1>7. Within(base, received', lo, hi)
  <2>1. Within(recovered_list, received, lo, hi)
    BY DEF NackInv, ListsInWindow
  <2> HIDE DEF lo, hi
  <2>2. \A s \in recovered_list :
            \E k \in received' : lo <= k /\ k <= hi /\ s = (k % M)
    BY <1>1, <2>1 DEF Within
  <2>3. u \in received' /\ lo <= u /\ u <= hi
    BY <1>1, <1>3, <1>5
  <2> QED BY <2>2, <2>3 DEF Within
<1>8. Within(recovered_list', received', lo, hi)
  <2> HIDE DEF a, lo, hi, base
  <2> QED BY <1>1, <1>5, <1>6, <1>7, FromWithin
<1>9. /\ Within(keyframe_list', keyframes', a, hi)
      /\ keyframes' \subseteq Numbers
  BY <1>1, <1>4, KeyframesIs
<1>10. Within(keyframe_list', keyframes', top - kMaxPacketAge, hi)
  <2>1. top - kMaxPacketAge \in Int /\ top - kMaxPacketAge <= a /\ hi <= hi
    BY <1>2, <1>3, <1>4, Constants
  <2>2. keyframes' \subseteq Int
    BY <1>9, Constants DEF Numbers
  <2> HIDE DEF a, hi
  <2> QED BY <1>5, <1>9, <2>1, <2>2, WidenWithin
<1>11. NackTypes'
  BY <1>1, <1>3, <1>9 DEF NackTypes
<1>12. Started'
  <2>1. newest_seq_num' = (top' % M) /\ top' \in received'
    BY <1>1, <1>2
  <2> QED BY <1>1, <2>1, Zenon DEF Started
<1>13. ListsInWindow'
  <2>1. ListInWindow(nack_list, top)
    BY DEF NackInv, ListsInWindow
  <2> QED BY <1>1, <1>8, <1>10, <2>1 DEF ListsInWindow
<1>14. ListIsBounded'
  BY <1>1, Shrinks
<1>15. AskedIsCounted'
  BY <1>1 DEF NackInv, AskedIsCounted
<1>16. AskedAtMost'
  BY <1>1 DEF NackInv, AskedAtMost
<1>17. AheadIsRecovered'
  <2> SUFFICES ASSUME NEW x \in received'
               PROVE  /\ x <= hi
                      /\ x > top /\ ~(x < cleared) =>
                             (x % M) \in recovered_list'
    BY <1>1 DEF AheadIsRecovered
  <2>1. x <= hi
    BY <1>1, <1>3 DEF NackInv, AheadIsRecovered
  <2> SUFFICES ASSUME x > top, ~(x < cleared)
               PROVE  (x % M) \in recovered_list'
    BY <2>1
  <2>2. x \in Int /\ (x % M) \in base
    BY <1>1, <1>6 DEF NackInv, AheadIsRecovered
  <2>3. -Half < a - x /\ a - x < Half /\ x >= a
    BY <1>2, <1>3, <1>5, <2>1, <2>2, HalfOfModulus
  <2>4. (x % M) \in From(base, a % M) <=> x >= a
    <3> HIDE DEF a, base
    <3> QED BY <1>5, <2>2, <2>3, FromIs
  <2> QED BY <1>1, <2>3, <2>4
<1>18. NackedAreMissing'
  <2>1. \A x : Listed(x)' => Listed(x)
    BY <1>1 DEF Listed
  <2>2. ~Listed(u)
    BY <1>2, <1>3, <1>4, ListedIs DEF Listed
  <2> QED BY <1>1, <2>1, <2>2 DEF NackInv, NackedAreMissing
<1>19. NoSilentLoss'
  <2>1. \A x : Listed(x) => Listed(x)'
    BY <1>1 DEF Listed
  <2>2. keyframes \subseteq keyframes'
    BY <1>1
  <2> QED BY <1>1, <2>1, <2>2 DEF NackInv, NoSilentLoss
<1> QED BY <1>11, <1>12, <1>13, <1>14, <1>15, <1>16, <1>17, <1>18, <1>19
        DEF NackInv

-----------------------------------------------------------------------------
(* The lists are cleared up to a packet.                                   *)

LEMMA ClearStep ==
    ASSUME NackInv, NEW u \in received, ClearUpTo(u)
    PROVE  NackInv'
<1> DEFINE T == From(DOMAIN nack_list, u % M)
           lo == (top + MaxJump + 1) - Half
           hi == top + MaxJump
           low == top - kMaxPacketAge
<1>1. /\ initialized /\ initialized' = initialized /\ u \in Window
      /\ newest_seq_num' = newest_seq_num
      /\ nack_list' = Restrict(nack_list, T)
      /\ keyframe_list' = From(keyframe_list, u % M)
      /\ recovered_list' = From(recovered_list, u % M)
      /\ asked' = asked /\ cleared' = Max({cleared, u})
      /\ refresh' = refresh /\ send_nack_delay' = send_nack_delay
      /\ received' = received /\ top' = top /\ keyframes' = keyframes
  BY DEF ClearUpTo
<1>2. newest_seq_num = (top % M) /\ top \in received /\ top \in Int
  BY <1>1, NewestIs
<1>3. /\ u \in Int /\ NackTypes /\ u <= hi /\ top - MaxDelay <= u
  BY <1>1, WindowIs DEF NackInv
<1>4. /\ low \in Int /\ lo \in Int /\ hi \in Int
      /\ u - lo < Half /\ u - low < Half /\ hi - u < Half
      /\ lo <= top + 1
  BY <1>2, <1>3, Constants, HalfOfModulus
<1>5. cleared' \in Int /\ cleared <= cleared' /\ u <= cleared'
  BY <1>1, <1>3, MaxOfTwo DEF NackTypes
<1>6. T \subseteq DOMAIN nack_list
  BY DEF From
<1>7. /\ DOMAIN nack_list' = T /\ ListInWindow(nack_list', top)
      /\ Counted(nack_list', asked, top)
  <2>1. ListInWindow(nack_list, top) /\ Counted(nack_list, asked, top)
    BY DEF NackInv, ListsInWindow, AskedIsCounted
  <2> HIDE DEF T
  <2> QED BY <1>1, <1>6, <2>1, RestrictedList
<1>8. ASSUME NEW s \in DOMAIN nack_list, s \notin T
      PROVE  Sent(s, top) < cleared'
  <2> DEFINE x == Sent(s, top)
  <2>1. x \in Int /\ s \in 0..(M - 1) /\ x < top /\ low <= x
    BY ListedIs
  <2> HIDE DEF x
  <2>2. -Half < u - x /\ u - x < Half
    BY <1>2, <1>3, <1>4, <2>1, Constants, HalfOfModulus
  <2>3. s \in From(DOMAIN nack_list, u % M) <=> x >= u
    BY <1>2, <1>3, <2>1, <2>2, FromList DEF x
  <2>4. x < cleared'
    BY <1>3, <1>5, <1>8, <2>1, <2>3
  <2> QED BY <2>4 DEF x
<1>9. \A x : Listed(x)' => Listed(x)
  BY <1>1, <1>6, <1>7 DEF Listed
<1>10. \A x : Listed(x) => Listed(x)' \/ x < cleared'
  BY <1>1, <1>7, <1>8 DEF Listed
<1>11. NackTypes'
  BY <1>1, <1>3, <1>5 DEF NackTypes
<1>12. Started'
  <2>1. newest_seq_num' = (top' % M) /\ top' \in received'
    BY <1>1, <1>2
  <2> QED BY <1>1, <2>1, Zenon DEF Started
<1>13. ListsInWindow'
  <2>1. received \subseteq Int /\ keyframes \subseteq Int
    BY <1>3, Constants DEF NackTypes, Numbers
  <2>2. /\ Within(keyframe_list, keyframes, low, hi)
        /\ Within(recovered_list, received, lo, hi)
    BY DEF NackInv, ListsInWindow
  <2> HIDE DEF low, lo, hi
  <2>3. Within(keyframe_list', keyframes, low, hi)
    BY <1>1, <1>3, <1>4, <2>1, <2>2, FromWithin
  <2>4. Within(recovered_list', received, lo, hi)
    BY <1>1, <1>3, <1>4, <2>1, <2>2, FromWithin
  <2> QED BY <1>1, <1>7, <2>3, <2>4 DEF ListsInWindow, low, lo, hi
<1>14. ListIsBounded'
  BY <1>6, <1>7, Shrinks
<1>15. AskedIsCounted'
  BY <1>1, <1>7 DEF NackInv, AskedIsCounted
<1>16. AskedAtMost'
  BY <1>1 DEF NackInv, AskedAtMost
<1>17. AheadIsRecovered'
  <2> SUFFICES ASSUME NEW x \in received
               PROVE  /\ x <= hi
                      /\ x > top /\ ~(x < cleared') =>
                             (x % M) \in recovered_list'
    BY <1>1 DEF AheadIsRecovered
  <2>1. x <= hi /\ x \in Int
    BY <1>3, Constants DEF NackInv, AheadIsRecovered, NackTypes, Numbers
  <2> SUFFICES ASSUME x > top, ~(x < cleared')
               PROVE  (x % M) \in recovered_list'
    BY <2>1
  <2>2. ~(x < cleared) /\ x >= u
    BY <1>3, <1>5, <2>1 DEF NackTypes
  <2>3. (x % M) \in recovered_list
    BY <2>2 DEF NackInv, AheadIsRecovered
  <2>4. -Half < u - x /\ u - x < Half
    BY <1>2, <1>3, <1>4, <2>1, <2>2, HalfOfModulus
  <2> QED BY <1>1, <1>3, <2>1, <2>2, <2>3, <2>4, FromIs
<1>18. NackedAreMissing'
  <2> SUFFICES ASSUME NEW x \in received, Listed(x)'
               PROVE  x < cleared'
    BY <1>1 DEF NackedAreMissing
  <2>1. x < cleared /\ x \in Int
    BY <1>3, <1>9, Constants DEF NackInv, NackedAreMissing, NackTypes, Numbers
  <2> QED BY <1>3, <1>5, <2>1 DEF NackTypes
<1>19. NoSilentLoss'
  <2> SUFFICES ASSUME NEW x \in First..(top - 1), x \notin received,
                      ~Listed(x)', ~(x < cleared')
               PROVE  \/ x < top - kMaxPacketAge
                      \/ asked[x] = kMaxNackRetries
                      \/ \E k \in keyframes : x < k
                      \/ x < refresh
    BY <1>1 DEF NoSilentLoss
  <2>1. ~Listed(x)
    BY <1>10
  <2>2. ~(x < cleared)
    BY <1>2, <1>3, <1>5, Constants DEF NackTypes
  <2> QED BY <2>1, <2>2 DEF NackInv, NoSilentLoss
<1> QED BY <1>11, <1>12, <1>13, <1>14, <1>15, <1>16, <1>17, <1>18, <1>19
        DEF NackInv

-----------------------------------------------------------------------------
(* The steps of the process thread and of time.                            *)

LEMMA ProcessStep ==
    ASSUME NackInv, Process
    PROVE  NackInv'
<1> DEFINE batch == GetNackBatch(nack_list, newest_seq_num, TRUE)
<1>1. /\ batch # {} /\ nack_list' = AfterBatch(nack_list, batch)
      /\ Ask(batch, top) /\ initialized' = initialized
      /\ newest_seq_num' = newest_seq_num
      /\ keyframe_list' = keyframe_list /\ recovered_list' = recovered_list
      /\ cleared' = cleared /\ refresh' = refresh
      /\ send_nack_delay' = send_nack_delay
      /\ received' = received /\ top' = top /\ keyframes' = keyframes
  BY DEF Process
<1>2. batch \subseteq DOMAIN nack_list
  BY DEF GetNackBatch
<1>3. initialized
  BY <1>1, <1>2, ListedIs
<1>4. /\ newest_seq_num = (top % M) /\ top \in received /\ top \in Int
      /\ top \in Numbers
  BY <1>3, NewestIs
<1>5. BatchDone(nack_list, nack_list', top, asked')
  <2>1. /\ ListInWindow(nack_list, top) /\ Counted(nack_list, asked, top)
        /\ asked \in [Numbers -> Nat] /\ AskedAtMost
    BY DEF NackInv, ListsInWindow, AskedIsCounted, NackTypes
  <2> HIDE DEF batch
  <2> QED BY <1>1, <1>2, <1>4, <2>1, BatchStep
<1>6. DOMAIN nack_list' \subseteq DOMAIN nack_list
  BY <1>5 DEF BatchDone
<1>7. NackTypes'
  <2>1. NackTypes /\ asked' \in [Numbers -> Nat]
    BY <1>5 DEF NackInv, BatchDone
  <2> QED BY <1>1, <2>1 DEF NackTypes
<1>8. Started'
  <2>1. newest_seq_num' = (top' % M) /\ top' \in received'
    BY <1>1, <1>4
  <2> QED BY <1>1, <1>3, <2>1, Zenon DEF Started
<1>9. ListsInWindow'
  BY <1>1, <1>5 DEF NackInv, ListsInWindow, BatchDone
<1>10. ListIsBounded'
  BY <1>6, Shrinks
<1>11. AskedIsCounted'
  <2>1. Counted(nack_list', asked', top)
    BY <1>5 DEF BatchDone
  <2>2. ASSUME NEW u \in Numbers, u > top
        PROVE  asked'[u] = 0
    <3>1. \A s \in DOMAIN nack_list : Sent(s, top) # u
      BY <1>4, <2>2, ListedIs
    <3>2. asked'[u] = asked[u]
      BY <1>5, <3>1 DEF BatchDone
    <3> QED BY <2>2, <3>2 DEF NackInv, AskedIsCounted
  <2> QED BY <1>1, <2>1, <2>2 DEF AskedIsCounted
<1>12. AskedAtMost'
  BY <1>5 DEF BatchDone, AskedAtMost
<1>13. AheadIsRecovered'
  BY <1>1 DEF NackInv, AheadIsRecovered
<1>14. NackedAreMissing'
  BY <1>1, <1>6 DEF NackInv, NackedAreMissing, Listed
<1>15. NoSilentLoss'
  <2> SUFFICES ASSUME NEW x \in First..(top - 1), x \notin received,
                      ~Listed(x)', asked'[x] # kMaxNackRetries
               PROVE  \/ x < top - kMaxPacketAge
                      \/ \E k \in keyframes : x < k
                      \/ x < cleared \/ x < refresh
    BY <1>1 DEF NoSilentLoss
  <2>1. ~Listed(x)
    BY <1>1, <1>5 DEF Listed, BatchDone
  <2>2. x \in Numbers
    BY <1>4, Constants DEF Numbers
  <2>3. asked'[x] = asked[x]
    BY <1>5, <2>1, <2>2 DEF BatchDone, Listed
  <2> QED BY <2>1, <2>3 DEF NackInv, NoSilentLoss
<1> QED BY <1>7, <1>8, <1>9, <1>10, <1>11, <1>12, <1>13, <1>14, <1>15
        DEF NackInv

LEMMA ElapseStep ==
    ASSUME NackInv, NEW s, Elapse(s)
    PROVE  NackInv'
<1>1. /\ s \in DOMAIN nack_list /\ initialized' = initialized
      /\ nack_list' = [nack_list EXCEPT ![s].wait = "no"]
      /\ newest_seq_num' = newest_seq_num
      /\ keyframe_list' = keyframe_list /\ recovered_list' = recovered_list
      /\ asked' = asked /\ cleared' = cleared /\ refresh' = refresh
      /\ send_nack_delay' = send_nack_delay
      /\ received' = received /\ top' = top /\ keyframes' = keyframes
  BY DEF Elapse
<1>2. ListInWindow(nack_list, top) /\ Counted(nack_list, asked, top)
  BY DEF NackInv, ListsInWindow, AskedIsCounted
<1>3. /\ DOMAIN nack_list' = DOMAIN nack_list
      /\ nack_list' = [t \in DOMAIN nack_list |-> nack_list'[t]]
      /\ \A t \in DOMAIN nack_list : t # s => nack_list'[t] = nack_list[t]
      /\ nack_list'[s] = [nack_list[s] EXCEPT !.wait = "no"]
  BY <1>1, <1>2 DEF ListInWindow
<1>4. \A t \in DOMAIN nack_list :
          /\ nack_list'[t] \in Entry
          /\ nack_list'[t].retries = nack_list[t].retries
  <2> TAKE t \in DOMAIN nack_list
  <2>1. nack_list[t] \in Entry
    BY <1>2 DEF ListInWindow
  <2>2. CASE t = s
    BY <1>3, <2>1, <2>2 DEF Entry
  <2>3. CASE t # s
    BY <1>3, <2>1, <2>3
  <2> QED BY <2>2, <2>3
<1>5. ListInWindow(nack_list', top) /\ Counted(nack_list', asked, top)
  <2>1. nack_list' \in [DOMAIN nack_list' -> Entry]
    BY <1>3, <1>4
  <2>2. ListInWindow(nack_list', top)
    BY <1>2, <1>3, <2>1 DEF ListInWindow
  <2> QED BY <1>2, <1>3, <1>4, <2>2 DEF Counted
<1>6. NackTypes'
  BY <1>1 DEF NackInv, NackTypes
<1>7. Started'
  BY <1>1, <1>3, Zenon DEF NackInv, Started
<1>8. ListsInWindow'
  BY <1>1, <1>5 DEF NackInv, ListsInWindow
<1>9. ListIsBounded'
  BY <1>3, Shrinks
<1>10. AskedIsCounted'
  BY <1>1, <1>5 DEF NackInv, AskedIsCounted
<1>11. AskedAtMost' /\ AheadIsRecovered'
  BY <1>1 DEF NackInv, AskedAtMost, AheadIsRecovered
<1>12. \A x : Listed(x)' <=> Listed(x)
  BY <1>1, <1>3 DEF Listed
<1>13. NackedAreMissing' /\ NoSilentLoss'
  BY <1>1, <1>12 DEF NackInv, NackedAreMissing, NoSilentLoss
<1> QED BY <1>6, <1>7, <1>8, <1>9, <1>10, <1>11, <1>13 DEF NackInv

-----------------------------------------------------------------------------
(* The packets between two others, and the oldest key frame.               *)

LEMMA BetweenIs ==
    ASSUME NEW n \in Int, NEW u \in Int, n <= u, u - n < M
    PROVE  /\ ForwardDiff(n % M, u % M) = u - n
           /\ \A t : t \in Between(n % M, u % M) <=>
                         \E x \in n..(u - 1) : t = (x % M)
           /\ IsFiniteSet(Between(n % M, u % M))
           /\ Cardinality(Between(n % M, u % M)) <= u - n
<1> DEFINE B == Between(n % M, u % M)
           S == n..(u - 1)
<1>1. 0 <= u - n
  OBVIOUS
<1>2. ForwardDiff(n % M, u % M) = u - n
  BY <1>1, DifferenceIs
<1>3. B = {((n % M) + i) % M : i \in 0..((u - n) - 1)}
  BY <1>2 DEF Between
<1>4. \A i \in Int : (((n % M) + i) % M) = ((n + i) % M)
  BY RemainderOfSum
<1>5. ASSUME NEW t \in B PROVE \E x \in S : t = (x % M)
  <2>1. PICK i \in 0..((u - n) - 1) : t = (((n % M) + i) % M)
    BY <1>3
  <2>2. n + i \in S /\ t = ((n + i) % M)
    BY <1>4, <2>1
  <2> QED BY <2>2
<1>6. ASSUME NEW x \in S PROVE (x % M) \in B
  <2> DEFINE i == x - n
  <2>1. i \in 0..((u - n) - 1) /\ i \in Int /\ n + i = x
    OBVIOUS
  <2> HIDE DEF i
  <2>2. (x % M) = (((n % M) + i) % M)
    BY <1>4, <2>1
  <2> QED BY <1>3, <2>1, <2>2
<1> HIDE DEF B
<1>7. /\ IsFiniteSet(S) /\ Cardinality(S) = u - n
  <2> DEFINE b == u - 1
  <2>1. b \in Int /\ (n > b => u - n = 0) /\ (~(n > b) => b - n + 1 = u - n)
    OBVIOUS
  <2> HIDE DEF b
  <2>2. /\ IsFiniteSet(n..b)
        /\ Cardinality(n..b) = IF n > b THEN 0 ELSE b - n + 1
    BY <2>1, FS_Interval
  <2>3. /\ IsFiniteSet(n..b) /\ Cardinality(n..b) = u - n
    BY <2>1, <2>2
  <2> QED BY <2>3 DEF b
<1>8. IsFiniteSet(B) /\ Cardinality(B) <= Cardinality(S)
  <2> DEFINE f == [x \in S |-> x % M]
  <2>1. f \in [S -> B]
    BY <1>6
  <2>2. \A t \in B : \E x \in S : f[x] = t
    BY <1>5
  <2>3. f \in Surjection(S, B)
    BY <2>1, <2>2 DEF Surjection
  <2> HIDE DEF f, S
  <2> QED BY <1>7, <2>3, FS_Surjection
<1>9. Cardinality(B) <= u - n
  BY <1>7, <1>8
<1> QED BY <1>2, <1>5, <1>6, <1>8, <1>9 DEF B

LEMMA Smallest ==
    ASSUME NEW T \in SUBSET Nat, T # {}
    PROVE  \E i \in T : \A j \in T : i <= j
<1>1. PICK i \in T : \A j \in T : ~(<<j, i>> \in OpToRel(<, Nat))
  BY NatLessThanWellFounded, WFMin
<1>2. \A j \in T : ~(j < i)
  BY <1>1 DEF OpToRel
<1> QED BY <1>2

LEMMA OldestIs ==
    ASSUME NEW S, S # {}, NEW K, K \subseteq Int, NEW lo \in Int,
           NEW hi \in Int, hi - lo < Half, Within(S, K, lo, hi)
    PROVE  Oldest(S) \in S
<1> DEFINE T == {i \in Nat : lo + i \in K /\ lo + i <= hi
                             /\ ((lo + i) % M) \in S}
<1>1. ASSUME NEW s \in S
      PROVE  \E i \in T : ((lo + i) % M) = s
  <2>1. PICK k \in K : lo <= k /\ k <= hi /\ s = (k % M)
    BY DEF Within
  <2>2. k - lo \in Nat /\ lo + (k - lo) = k
    BY <2>1
  <2>3. k - lo \in T
    BY <2>1, <2>2
  <2> QED BY <2>1, <2>2, <2>3
<1>2. T \in SUBSET Nat /\ T # {}
  BY <1>1
<1>3. PICK i \in T : \A j \in T : i <= j
  <2> HIDE DEF T
  <2> QED BY <1>2, Smallest
<1> DEFINE o == (lo + i) % M
<1>4. o \in S
  OBVIOUS
<1>5. \A s \in S : AheadOrAt(s, o)
  <2> TAKE s \in S
  <2>1. PICK j \in T : ((lo + j) % M) = s
    BY <1>1
  <2>2. i \in Nat /\ j \in Nat /\ i <= j /\ lo + j <= hi
    BY <1>3
  <2> DEFINE x == lo + j
             y == lo + i
  <2>3. x \in Int /\ y \in Int /\ -Half < x - y /\ x - y < Half /\ x >= y
    BY <2>2, HalfOfModulus
  <2> HIDE DEF x, y
  <2>4. AheadOrAt(x % M, y % M)
    BY <2>3, Compare
  <2> QED BY <2>1, <2>4 DEF x, y
<1> HIDE DEF o
<1>6. \E k \in S : \A j \in S : AheadOrAt(j, k)
  BY <1>4, <1>5
<1> QED BY <1>6 DEF Oldest

(* What AddPacketsToNack leaves of the list when packet u arrives, with K  *)
(* the key frames that arrived.                                            *)
Added(add, u, K) ==
    /\ add.request \in BOOLEAN
    /\ add.keep \subseteq DOMAIN nack_list
    /\ \A t \in add.keep : u - kMaxPacketAge <= Sent(t, top)
    /\ \A t \in DOMAIN nack_list :
           \/ t \in add.keep \/ add.request
           \/ Sent(t, top) < u - kMaxPacketAge
           \/ \E k \in K : Sent(t, top) < k
    /\ \A t \in add.add :
           /\ t \notin recovered_list
           /\ \E x \in (top + 1)..(u - 1) :
                  u - kMaxPacketAge <= x /\ t = (x % M)
    /\ \A x \in (top + 1)..(u - 1) :
           \/ add.request
           \/ (x % M) \in add.add \/ (x % M) \in recovered_list
    /\ Within(add.keyframes, K, u - kMaxPacketAge, top + MaxJump)
    /\ IsFiniteSet(add.keep \cup add.add)
    /\ Cardinality(add.keep \cup add.add) <= kMaxNackPackets

LEMMA FittingUnion ==
    ASSUME NEW S, IsFiniteSet(S), NEW T, IsFiniteSet(T),
           NEW d \in Nat, Cardinality(T) <= d,
           Cardinality(S) + d <= kMaxNackPackets, NEW X, X \subseteq T
    PROVE  /\ IsFiniteSet(S \cup X)
           /\ Cardinality(S \cup X) <= kMaxNackPackets
           /\ d <= kMaxNackPackets
<1>1. IsFiniteSet(X) /\ Cardinality(X) <= Cardinality(T)
  BY FS_Subset
<1>2. /\ IsFiniteSet(S \cup X)
      /\ Cardinality(S \cup X) =
             Cardinality(S) + Cardinality(X) - Cardinality(S \cap X)
  BY <1>1, FS_Union
<1>3. IsFiniteSet(S \cap X)
  BY FS_Subset
<1>4. /\ Cardinality(S) \in Nat /\ Cardinality(X) \in Nat
      /\ Cardinality(T) \in Nat /\ Cardinality(S \cap X) \in Nat
  BY <1>1, <1>3, FS_CardinalityType
<1> DEFINE cs == Cardinality(S)
           cx == Cardinality(X)
           ct == Cardinality(T)
           ci == Cardinality(S \cap X)
           cu == Cardinality(S \cup X)
<1>5. /\ cs \in Nat /\ cx \in Nat /\ ct \in Nat /\ ci \in Nat
      /\ cu = cs + cx - ci /\ cx <= ct /\ ct <= d
      /\ cs + d <= kMaxNackPackets
  BY <1>1, <1>2, <1>4
<1> HIDE DEF cs, cx, ct, ci, cu
<1>6. cu <= kMaxNackPackets /\ d <= kMaxNackPackets
  BY <1>5, Constants
<1> QED BY <1>2, <1>6 DEF cu

LEMMA AddIs ==
    ASSUME NackInv, initialized, NEW u \in Window, u > top,
           NEW is_keyframe \in BOOLEAN,
           NEW K, K = IF is_keyframe THEN keyframes \cup {u} ELSE keyframes
    PROVE  /\ Added(AddPacketsToNack(nack_list, Keyframes(u % M, is_keyframe),
                                     (newest_seq_num + 1) % M, u % M), u, K)
           /\ K \subseteq Numbers
<1> DEFINE n == top + 1
           a == u - kMaxPacketAge
           hi == top + MaxJump
           d == u - n
           s == u % M
           start == n % M
           B == Between(start, s)
           kfs == Keyframes(s, is_keyframe)
           L == DOMAIN nack_list
           old == From(L, a % M)
           fits == Cardinality(old) + d <= kMaxNackPackets
           helpful == IF fits THEN {} ELSE
                      {k \in kfs : Cardinality(From(old, k)) + d
                                       <= kMaxNackPackets}
           k0 == Oldest(helpful)
           add == AddPacketsToNack(nack_list, kfs,
                                   (newest_seq_num + 1) % M, s)
<1>1. /\ u \in Int /\ u \in Numbers /\ top \in Int /\ u <= hi
      /\ u - top < Half
  BY WindowIs DEF NackInv
<1>2. /\ n \in Int /\ a \in Int /\ hi \in Int /\ d \in Nat /\ n <= u
      /\ u - n < M /\ top - kMaxPacketAge < a
  BY <1>1, Constants, HalfOfModulus
<1>3. ((newest_seq_num + 1) % M) = start
  <2>1. newest_seq_num = (top % M)
    BY NewestIs
  <2> QED BY <1>1, <2>1, RemainderOfSum
<1>4. ((s - kMaxPacketAge) % M) = (a % M)
  BY <1>1, Constants, RemainderOfDifference
<1>5. /\ ForwardDiff(start, s) = d
      /\ \A t : t \in B <=> \E x \in n..(u - 1) : t = (x % M)
      /\ IsFiniteSet(B) /\ Cardinality(B) <= d
  <2> HIDE DEF n
  <2> QED BY <1>1, <1>2, BetweenIs
<1>6. /\ Within(kfs, K, a, hi) /\ K \subseteq Numbers
  BY KeyframesIs
<1>7. K \subseteq Int
  BY <1>6, Constants DEF Numbers
<1>8. \A S : Fits(S, start, s) <=> Cardinality(S) + d <= kMaxNackPackets
  BY <1>5 DEF Fits
<1>9. helpful = IF Fits(old, start, s) THEN {}
                ELSE Helpful(old, kfs, start, s)
  BY <1>8 DEF Helpful
<1>10. add = IF fits \/ helpful # {}
             THEN [keep |-> IF helpful = {} THEN old ELSE From(old, k0),
                   add |-> B \ recovered_list,
                   keyframes |-> IF helpful = {} THEN kfs
                                 ELSE From(kfs, k0),
                   request |-> FALSE]
             ELSE [keep |-> {}, add |-> {}, keyframes |-> {},
                   request |-> TRUE]
  <2> HIDE DEF s, start, a, helpful, kfs
  <2> QED BY <1>3, <1>4, <1>8, <1>9 DEF AddPacketsToNack
<1>11. \A t \in L : t \in old <=> a <= Sent(t, top)
  <2> TAKE t \in L
  <2> DEFINE x == Sent(t, top)
  <2>1. /\ x \in Int /\ t \in 0..(M - 1) /\ x < top
        /\ top - kMaxPacketAge <= x
    BY ListedIs
  <2> HIDE DEF x
  <2>2. -Half < a - x /\ a - x < Half
    BY <1>1, <1>2, <2>1, Constants, HalfOfModulus
  <2>3. t \in From(L, a % M) <=> x >= a
    BY <1>1, <1>2, <2>1, <2>2, FromList DEF x
  <2>4. x >= a <=> a <= x
    BY <1>2, <2>1
  <2> QED BY <2>3, <2>4 DEF x
<1>12. old \subseteq L /\ IsFiniteSet(old)
  <2>1. old \subseteq L
    BY DEF From
  <2>2. IsFiniteSet(L)
    BY DEF NackInv, ListIsBounded
  <2> QED BY <2>1, <2>2, FS_Subset
<1>13. ASSUME NEW x \in n..(u - 1), d <= kMaxNackPackets
       PROVE  a <= x
  BY <1>1, <1>2, <1>13, Constants
<1>14. CASE helpful = {} /\ fits
  <2>1. /\ add.keep = old /\ add.add = B \ recovered_list
        /\ add.keyframes = kfs /\ add.request = FALSE
    <3> HIDE DEF helpful, add, old, B, kfs, fits, k0
    <3> QED BY <1>10, <1>14
  <2>2. fits
    BY <1>14
  <2> DEFINE X == B \ recovered_list
  <2>3. /\ IsFiniteSet(old \cup X) /\ d <= kMaxNackPackets
        /\ Cardinality(old \cup X) <= kMaxNackPackets
    <3>1. X \subseteq B
      OBVIOUS
    <3>2. Cardinality(old) + d <= kMaxNackPackets
      BY <2>2
    <3> HIDE DEF old, X, B, d
    <3> QED BY <1>2, <1>5, <1>12, <3>1, <3>2, FittingUnion
  <2> HIDE DEF helpful, add, old, B, kfs, fits, k0, L, a, hi, n, d
  <2>4. \A t \in L : t \in add.keep \/ Sent(t, top) < a
    <3> TAKE t \in L
    <3>1. Sent(t, top) \in Int
      BY ListedIs DEF L
    <3> QED BY <1>2, <1>11, <2>1, <3>1
  <2>5. Added(add, u, K)
    BY <1>5, <1>6, <1>11, <1>12, <1>13, <2>1, <2>3, <2>4
    DEF Added, L, a, hi, n
  <2> QED BY <1>6, <2>5 DEF add, kfs
<1>15. CASE helpful # {}
  <2>1. k0 \in helpful
    <3>1. helpful \subseteq kfs
      OBVIOUS
    <3>2. Within(helpful, K, a, hi)
      BY <1>6, <3>1 DEF Within
    <3>3. hi - a < Half
      BY <1>1, <1>2, Constants, HalfOfModulus
    <3> HIDE DEF helpful, a, hi
    <3> QED BY <1>2, <1>7, <1>15, <3>2, <3>3, OldestIs
  <2>2. k0 \in kfs /\ Cardinality(From(old, k0)) + d <= kMaxNackPackets
    BY <2>1
  <2>3. PICK k \in K : a <= k /\ k <= hi /\ k0 = (k % M)
    BY <1>6, <2>2 DEF Within
  <2>4. /\ add.keep = From(old, k0) /\ add.add = B \ recovered_list
        /\ add.keyframes = From(kfs, k0) /\ add.request = FALSE
    <3> HIDE DEF helpful, add, old, B, kfs, fits, k0
    <3> QED BY <1>10, <1>15
  <2>5. From(old, k0) \subseteq old /\ IsFiniteSet(From(old, k0))
    <3>1. From(old, k0) \subseteq old
      BY DEF From
    <3> QED BY <1>12, <3>1, FS_Subset
  <2> DEFINE X == B \ recovered_list
  <2>6. /\ IsFiniteSet(From(old, k0) \cup X) /\ d <= kMaxNackPackets
        /\ Cardinality(From(old, k0) \cup X) <= kMaxNackPackets
    <3>1. X \subseteq B
      OBVIOUS
    <3> HIDE DEF old, X, B, d, k0
    <3> QED BY <1>2, <1>5, <2>2, <2>5, <3>1, FittingUnion
  <2>7. k \in Int /\ hi - k < Half /\ k - a < Half
    BY <1>1, <1>2, <1>7, <2>3, Constants, HalfOfModulus
  <2>8. Within(From(kfs, k0), K, a, hi)
    <3> HIDE DEF kfs, a, hi, k0
    <3> QED BY <1>2, <1>6, <1>7, <2>3, <2>7, FromWithin
  <2>9. ASSUME NEW t \in old, t \notin From(old, k0)
        PROVE  Sent(t, top) < k
    <3> DEFINE x == Sent(t, top)
    <3>1. x \in Int /\ t \in 0..(M - 1) /\ x < top /\ a <= x
      BY <1>11, <1>12, ListedIs
    <3> HIDE DEF x
    <3>2. -Half < k - x /\ k - x < Half
      BY <1>1, <1>2, <2>3, <2>7, <3>1, Constants, HalfOfModulus
    <3>3. t \in From(old, k % M) <=> x >= k
      <4> HIDE DEF old
      <4> QED BY <1>1, <2>7, <3>1, <3>2, FromList DEF x
    <3>4. x < k
      BY <2>3, <2>7, <2>9, <3>1, <3>3
    <3> QED BY <3>4 DEF x
  <2> HIDE DEF helpful, add, old, B, kfs, fits, k0, L, a, hi, n, d
  <2>10. \A t \in L : \/ t \in add.keep \/ Sent(t, top) < a
                      \/ \E j \in K : Sent(t, top) < j
    <3> TAKE t \in L
    <3>1. CASE t \in old
      BY <2>4, <2>9, <3>1
    <3>2. CASE t \notin old
      <4>1. Sent(t, top) \in Int
        BY ListedIs DEF L
      <4> QED BY <1>2, <1>11, <3>2, <4>1
    <3> QED BY <3>1, <3>2
  <2>11. Added(add, u, K)
    BY <1>5, <1>11, <1>12, <1>13, <2>4, <2>5, <2>6, <2>8, <2>10
    DEF Added, L, a, hi, n
  <2> QED BY <1>6, <2>11 DEF add, kfs
<1>16. CASE ~fits /\ helpful = {}
  <2>1. /\ add.keep = {} /\ add.add = {} /\ add.keyframes = {}
        /\ add.request = TRUE
    <3> HIDE DEF helpful, add, old, B, kfs, fits, k0
    <3> QED BY <1>10, <1>16
  <2> HIDE DEF helpful, add, old, B, kfs, fits, k0, L, a, hi, n, d
  <2>2. /\ IsFiniteSet(add.keep \cup add.add)
        /\ Cardinality(add.keep \cup add.add) <= kMaxNackPackets
    <3>1. IsFiniteSet({}) /\ Cardinality({}) = 0
      BY FS_EmptySet
    <3>2. add.keep \cup add.add = {}
      BY <2>1
    <3>3. 0 <= kMaxNackPackets
      BY Constants
    <3> QED BY <3>1, <3>2, <3>3, Zenon
  <2>3. Added(add, u, K)
    BY <2>1, <2>2, Constants DEF Added, Within
  <2> QED BY <1>6, <2>3 DEF add, kfs
<1> QED
  <2> HIDE DEF helpful, fits, add
  <2> QED BY <1>14, <1>15, <1>16 DEF add

-----------------------------------------------------------------------------
(* A packet ahead of the newest one.                                       *)

LEMMA NewStep ==
    ASSUME NackInv, NEW u \in Window, KeepsUp(u), NEW is_keyframe \in BOOLEAN,
           OnNewPacket(u, is_keyframe)
    PROVE  NackInv'
<1> DEFINE s == u % M
           add == AddPacketsToNack(nack_list, Keyframes(s, is_keyframe),
                                   (newest_seq_num + 1) % M, s)
           list == [t \in add.keep \cup add.add |->
                       IF t \in add.add THEN NewEntry ELSE nack_list[t]]
           batch == GetNackBatch(list, s, FALSE)
           K == IF is_keyframe THEN keyframes \cup {u} ELSE keyframes
<1>1. /\ initialized /\ initialized' = initialized
      /\ AheadOf(s, newest_seq_num) /\ newest_seq_num' = s
      /\ nack_list' = AfterBatch(list, batch)
      /\ keyframe_list' = add.keyframes
      /\ recovered_list' = recovered_list
      /\ refresh' = IF add.request THEN u ELSE refresh
      /\ Ask(batch, u) /\ cleared' = cleared
      /\ send_nack_delay' = send_nack_delay
      /\ received' = received \cup {u} /\ keyframes' = K
      /\ top' = Max({top, u})
  <2> HIDE DEF add
  <2> QED BY DEF OnNewPacket, Arrives, add
<1>2. newest_seq_num = (top % M) /\ top \in received /\ top \in Int
  BY <1>1, NewestIs
<1>3. u \in Int /\ u \in Numbers /\ NackTypes /\ u <= top + MaxJump
  BY WindowIs DEF NackInv
<1>4. u > top
  BY <1>1, <1>2, <1>3, Position
<1>5. top' = u
  BY <1>1, <1>2, <1>3, <1>4, MaxOfTwo
<1>6. Added(add, u, K) /\ K \subseteq Numbers
  <2> HIDE DEF K
  <2>1. K = IF is_keyframe THEN keyframes \cup {u} ELSE keyframes
    BY DEF K
  <2> QED BY <1>1, <1>4, <2>1, AddIs
<1> HIDE DEF add, K
<1>7. ASSUME NEW t \in add.keep
      PROVE  /\ t \in DOMAIN nack_list /\ t \in 0..(M - 1)
             /\ Sent(t, u) = Sent(t, top) /\ Sent(t, top) \in Int
             /\ u - kMaxPacketAge <= Sent(t, top) /\ Sent(t, top) < top
             /\ First <= Sent(t, top)
  <2> DEFINE x == Sent(t, top)
  <2>1. t \in DOMAIN nack_list /\ u - kMaxPacketAge <= x
    BY <1>6 DEF Added
  <2>2. /\ t \in 0..(M - 1) /\ x \in Int /\ x < top /\ First <= x
        /\ (x % M) = t
    BY <2>1, ListedIs
  <2> HIDE DEF x
  <2>3. 0 <= u - x /\ u - x < M
    BY <1>2, <1>3, <1>4, <2>1, <2>2, Constants, HalfOfModulus
  <2>4. Sent(x % M, u) = x
    BY <1>3, <2>2, <2>3, SentIs
  <2> QED BY <2>1, <2>2, <2>4 DEF x
<1>8. ASSUME NEW x \in (top + 1)..(u - 1)
      PROVE  Sent(x % M, u) = x /\ x \in Int /\ x \in Numbers
  <2>1. x \in Int /\ x \in Numbers /\ 0 <= u - x /\ u - x < M
    <3>1. First <= top /\ u <= Last
      BY <1>3, Constants DEF NackTypes, Numbers
    <3> QED BY <1>2, <1>3, <1>4, <3>1, Constants, HalfOfModulus DEF Numbers
  <2> QED BY <1>3, <2>1, SentIs
<1>9. ASSUME NEW t \in add.add
      PROVE  /\ t \notin recovered_list /\ t \in 0..(M - 1)
             /\ Sent(t, u) \in (top + 1)..(u - 1)
             /\ u - kMaxPacketAge <= Sent(t, u)
  <2>1. /\ t \notin recovered_list
        /\ \E x \in (top + 1)..(u - 1) : u - kMaxPacketAge <= x /\ t = (x % M)
    BY <1>6 DEF Added
  <2>2. PICK x \in (top + 1)..(u - 1) :
            u - kMaxPacketAge <= x /\ t = (x % M)
    BY <2>1
  <2>3. Sent(x % M, u) = x /\ x \in Int
    BY <1>8
  <2>4. (x % M) \in 0..(M - 1)
    BY <2>3, Remainder
  <2> QED BY <2>1, <2>2, <2>3, <2>4
<1>10. /\ DOMAIN list = add.keep \cup add.add
       /\ \A t \in DOMAIN list :
              list[t] = IF t \in add.add THEN NewEntry ELSE nack_list[t]
       /\ batch \subseteq DOMAIN list
       /\ list = [t \in DOMAIN list |-> list[t]]
  BY DEF GetNackBatch
<1> HIDE DEF list, batch
<1>11. NewEntry \in Entry /\ NewEntry.retries = 0
  BY Constants DEF NewEntry, Entry
<1>12. ASSUME NEW t \in DOMAIN list
       PROVE  /\ list[t] \in Entry /\ t \in 0..(M - 1)
              /\ First <= Sent(t, u) /\ u - kMaxPacketAge <= Sent(t, u)
              /\ Sent(t, u) < u /\ Sent(t, u) \in Int
              /\ asked[Sent(t, u)] = list[t].retries
  <2>1. CASE t \in add.add
    <3> DEFINE x == Sent(t, u)
    <3>1. /\ t \in 0..(M - 1) /\ x \in (top + 1)..(u - 1)
          /\ u - kMaxPacketAge <= x
      BY <1>9, <2>1
    <3> HIDE DEF x
    <3>2. x \in Numbers
      BY <1>8, <3>1
    <3>3. x \in Int /\ x > top /\ x < u /\ First <= x
      BY <1>2, <1>3, <3>1, Constants DEF NackTypes
    <3>4. asked[x] = 0
      BY <3>2, <3>3 DEF NackInv, AskedIsCounted
    <3>5. list[t] = NewEntry
      BY <1>10, <2>1
    <3> QED BY <1>11, <3>1, <3>3, <3>4, <3>5 DEF x
  <2>2. CASE t \notin add.add
    <3>1. t \in add.keep /\ list[t] = nack_list[t]
      BY <1>10, <2>2
    <3>2. /\ t \in DOMAIN nack_list /\ t \in 0..(M - 1)
          /\ Sent(t, u) = Sent(t, top) /\ Sent(t, top) \in Int
          /\ u - kMaxPacketAge <= Sent(t, top) /\ Sent(t, top) < top
          /\ First <= Sent(t, top)
      BY <1>7, <3>1
    <3>3. nack_list[t] \in Entry
      BY <3>2, ListedIs
    <3>4. asked[Sent(t, top)] = nack_list[t].retries
      BY <3>2 DEF NackInv, AskedIsCounted, Counted
    <3>5. Sent(t, top) < u
      BY <1>2, <1>3, <1>4, <3>2
    <3> QED BY <3>1, <3>2, <3>3, <3>4, <3>5
  <2> QED BY <2>1, <2>2
<1>13. ListInWindow(list, u) /\ Counted(list, asked, u)
  <2>1. list \in [DOMAIN list -> Entry]
    BY <1>10, <1>12
  <2> QED BY <1>12, <2>1 DEF ListInWindow, Counted
<1>14. BatchDone(list, nack_list', u, asked')
  <2>1. asked \in [Numbers -> Nat] /\ AskedAtMost
    BY DEF NackInv, NackTypes
  <2> QED BY <1>1, <1>3, <1>10, <1>13, <2>1, BatchStep
<1>15. DOMAIN nack_list' \subseteq DOMAIN list
  BY <1>14 DEF BatchDone
<1>16. NackTypes'
  <2>1. asked' \in [Numbers -> Nat]
    BY <1>14 DEF BatchDone
  <2>2. refresh' \in Int /\ First <= u
    BY <1>1, <1>2, <1>3, <1>4, Constants DEF NackTypes
  <2> QED BY <1>1, <1>3, <1>5, <1>6, <2>1, <2>2 DEF NackTypes
<1>17. Started'
  <2>1. newest_seq_num' = (top' % M) /\ top' \in received'
    BY <1>1, <1>5
  <2> QED BY <1>1, <2>1, Zenon DEF Started
<1>18. ListsInWindow'
  <2>1. ListInWindow(nack_list', u)
    BY <1>14 DEF BatchDone
  <2>2. Within(keyframe_list', K, u - kMaxPacketAge, u + MaxJump)
    <3> DEFINE lo == u - kMaxPacketAge
               hi == top + MaxJump
               high == u + MaxJump
    <3>1. Within(keyframe_list', K, lo, hi)
      BY <1>1, <1>6 DEF Added
    <3>2. /\ lo \in Int /\ hi \in Int /\ high \in Int /\ hi <= high
          /\ lo <= lo
      BY <1>2, <1>3, <1>4, Constants
    <3>3. K \subseteq Int
      BY <1>6, Constants DEF Numbers
    <3> HIDE DEF lo, hi, high
    <3>4. Within(keyframe_list', K, lo, high)
      BY <3>1, <3>2, <3>3, WidenWithin
    <3> QED BY <3>4 DEF lo, high
  <2>3. Within(recovered_list, received',
               (u + MaxJump + 1) - Half, u + MaxJump)
    <3> DEFINE lo == (top + MaxJump + 1) - Half
               hi == top + MaxJump
               high == u + MaxJump
    <3>1. SUFFICES ASSUME NEW t \in recovered_list
                   PROVE  \E k \in received' :
                              /\ (high + 1) - Half <= k /\ k <= high
                              /\ t = (k % M)
      BY DEF Within
    <3>2. PICK k \in received : lo <= k /\ k <= hi /\ t = (k % M)
      BY DEF NackInv, ListsInWindow, Within
    <3>3. k \in Int /\ high \in Int
      BY <1>3, Constants DEF NackTypes, Numbers
    <3>4. 0 <= high - k /\ high - k < M
      BY <1>2, <1>3, <1>4, <3>2, <3>3, Constants, HalfOfModulus
    <3>5. ForwardDiff(t, high % M) < Half
      BY DEF KeepsUp, Half
    <3> HIDE DEF high
    <3>6. ForwardDiff(k % M, high % M) = high - k
      BY <3>3, <3>4, DifferenceIs
    <3>7. (high + 1) - Half <= k /\ k <= high
      BY <3>2, <3>3, <3>4, <3>5, <3>6, HalfOfModulus
    <3> QED BY <1>1, <3>2, <3>7
  <2> QED BY <1>1, <1>5, <2>1, <2>2, <2>3 DEF ListsInWindow
<1>19. ListIsBounded'
  <2> DEFINE D == DOMAIN list
             E == DOMAIN nack_list'
  <2>1. IsFiniteSet(D) /\ Cardinality(D) <= kMaxNackPackets
    BY <1>6, <1>10 DEF Added
  <2>2. E \subseteq D
    BY <1>15
  <2> HIDE DEF D, E
  <2>3. IsFiniteSet(E) /\ Cardinality(E) <= Cardinality(D)
    BY <2>1, <2>2, FS_Subset
  <2>4. Cardinality(E) \in Nat /\ Cardinality(D) \in Nat
    BY <2>1, <2>3, FS_CardinalityType
  <2>5. Cardinality(E) <= kMaxNackPackets
    BY <2>1, <2>3, <2>4, Constants
  <2> QED BY <2>3, <2>5 DEF E, ListIsBounded
<1>20. AskedIsCounted'
  <2>1. Counted(nack_list', asked', u)
    BY <1>14 DEF BatchDone
  <2>2. ASSUME NEW x \in Numbers, x > u
        PROVE  asked'[x] = 0
    <3>1. x \in Int /\ x > top
      BY <1>2, <1>3, <1>4, <2>2, Constants DEF Numbers
    <3>2. \A t \in DOMAIN list : Sent(t, u) # x
      BY <1>3, <1>12, <2>2, <3>1
    <3>3. asked'[x] = asked[x]
      BY <1>14, <3>2 DEF BatchDone
    <3> QED BY <3>1, <3>3 DEF NackInv, AskedIsCounted
  <2> QED BY <1>5, <2>1, <2>2 DEF AskedIsCounted
<1>21. AskedAtMost'
  BY <1>14 DEF BatchDone, AskedAtMost
<1>22. AheadIsRecovered'
  <2> SUFFICES ASSUME NEW x \in received'
               PROVE  /\ x <= u + MaxJump
                      /\ x > u => (x % M) \in recovered_list \/ x < cleared
    BY <1>1, <1>5 DEF AheadIsRecovered
  <2>1. CASE x = u
    BY <1>3, <2>1, Constants
  <2>2. CASE x \in received
    <3>1. /\ x <= top + MaxJump /\ x \in Int
          /\ x > top => (x % M) \in recovered_list \/ x < cleared
      BY <1>3, <2>2, Constants
      DEF NackInv, AheadIsRecovered, NackTypes, Numbers
    <3>2. x <= u + MaxJump /\ (x > u => x > top)
      BY <1>2, <1>3, <1>4, <3>1, Constants
    <3> QED BY <3>1, <3>2
  <2> QED BY <1>1, <2>1, <2>2
<1>23. NackedAreMissing'
  <2> SUFFICES ASSUME NEW x \in received', NEW t \in DOMAIN nack_list',
                      Sent(t, u) = x
               PROVE  x < cleared
    BY <1>1, <1>5 DEF NackedAreMissing, Listed
  <2>1. t \in DOMAIN list /\ x < u /\ x \in Int
    BY <1>12, <1>15
  <2>2. x \in received
    BY <1>1, <1>3, <2>1
  <2>3. CASE t \in add.add
    <3>1. x > top /\ t \notin recovered_list
      BY <1>2, <1>3, <1>9, <2>3
    <3>2. (x % M) = t
      BY <1>3, <1>12, <2>1, SentHas
    <3> QED BY <2>2, <3>1, <3>2 DEF NackInv, AheadIsRecovered
  <2>4. CASE t \in add.keep
    <3>1. t \in DOMAIN nack_list /\ Sent(t, top) = x
      BY <1>7, <2>4
    <3> QED BY <2>2, <3>1 DEF NackInv, NackedAreMissing, Listed
  <2> QED BY <1>10, <2>1, <2>3, <2>4
<1>24. NoSilentLoss'
  <2> SUFFICES ASSUME NEW x \in First..(u - 1), x \notin received',
                      ~Listed(x)', asked'[x] # kMaxNackRetries,
                      ~(x < cleared), ~(x < refresh'),
                      ~(x < u - kMaxPacketAge)
               PROVE  \E k \in K : x < k
    BY <1>1, <1>5 DEF NoSilentLoss
  <2>1. x \in Int /\ x \in Numbers /\ x < u /\ First <= x
    BY <1>3, Constants DEF Numbers
  <2>2. ~add.request /\ ~(x < refresh)
    BY <1>1, <2>1
  <2>3. \A t \in DOMAIN list : Sent(t, u) # x
    BY <1>5, <1>14 DEF Listed, BatchDone
  <2>4. asked'[x] = asked[x]
    BY <1>14, <2>1, <2>3 DEF BatchDone
  <2>5. x \notin received /\ x # top
    BY <1>1, <1>2
  <2>6. CASE x > top
    <3>1. x \in (top + 1)..(u - 1)
      BY <1>2, <1>3, <2>1, <2>6
    <3>2. Sent(x % M, u) = x
      BY <1>8, <3>1
    <3>3. (x % M) \in recovered_list
      BY <1>6, <1>10, <2>2, <2>3, <3>1, <3>2 DEF Added
    <3> DEFINE lo == (top + MaxJump + 1) - Half
               hi == top + MaxJump
    <3>4. PICK k \in received : lo <= k /\ k <= hi /\ (x % M) = (k % M)
      BY <3>3 DEF NackInv, ListsInWindow, Within
    <3>5. k \in Int
      BY <1>3, Constants DEF NackTypes, Numbers
    <3>6. -M < x - k /\ x - k < M
      BY <1>2, <1>3, <2>1, <2>6, <3>4, <3>5, Constants, HalfOfModulus
    <3>7. x = k
      BY <2>1, <3>4, <3>5, <3>6, SameNumber
    <3> QED BY <2>5, <3>7
  <2>7. CASE x < top
    <3>1. CASE Listed(x)
      <4>1. PICK t \in DOMAIN nack_list : Sent(t, top) = x
        BY <3>1 DEF Listed
      <4>2. t \notin add.keep
        BY <1>7, <1>10, <2>3, <4>1
      <4> QED BY <1>6, <2>2, <4>1, <4>2 DEF Added
    <3>2. CASE ~Listed(x)
      <4>1. x \in First..(top - 1)
        BY <1>2, <2>1, <2>7, Constants
      <4>2. ~(x < top - kMaxPacketAge)
        BY <1>2, <1>3, <1>4, <2>1, Constants
      <4>3. \E k \in keyframes : x < k
        BY <2>2, <2>4, <2>5, <3>2, <4>1, <4>2 DEF NackInv, NoSilentLoss
      <4> QED BY <4>3 DEF K
    <3> QED BY <3>1, <3>2
  <2> QED BY <1>2, <2>1, <2>5, <2>6, <2>7
<1> QED BY <1>16, <1>17, <1>18, <1>19, <1>20, <1>21, <1>22, <1>23, <1>24
        DEF NackInv

-----------------------------------------------------------------------------
(* The theorems.                                                           *)

LEMMA ReceivedStep ==
    ASSUME NackInv, OnReceivedPacket
    PROVE  NackInv'
<1>1. PICK u \in Window, is_keyframe \in BOOLEAN :
          /\ KeepsUp(u)
          /\ \/ OnFirstPacket(u, is_keyframe)
             \/ OnOldPacket(u)
             \/ OnRecoveredPacket(u, is_keyframe)
             \/ OnNewPacket(u, is_keyframe)
  BY DEF OnReceivedPacket
<1> QED BY <1>1, FirstStep, OldStep, RecoveredStep, NewStep

LEMMA NackStep == NackInv /\ [Next]_vars => NackInv'
<1> SUFFICES ASSUME NackInv, [Next]_vars PROVE NackInv'
  OBVIOUS
<1>1. CASE OnReceivedPacket
  BY <1>1, ReceivedStep
<1>2. CASE \E u \in received : ClearUpTo(u)
  BY <1>2, ClearStep
<1>3. CASE Process
  BY <1>3, ProcessStep
<1>4. CASE \E s \in 0..(M - 1) : Elapse(s)
  BY <1>4, ElapseStep
<1>5. CASE UNCHANGED vars
  BY <1>5 DEF vars, NackInv, NackTypes, Started, ListsInWindow, ListIsBounded,
              AskedIsCounted, AheadIsRecovered, AskedAtMost,
              NackedAreMissing, NoSilentLoss, Listed
<1> QED BY <1>1, <1>2, <1>3, <1>4, <1>5 DEF Next

LEMMA NackInvHolds == Spec => []NackInv
BY NackInit, NackStep, PTL DEF Spec

LEMMA OrderedIs ==
    ASSUME NEW S, NEW lo \in Int, NEW hi \in Int, hi - lo < Half,
           Within(S, Int, lo, hi)
    PROVE  Ordered(S)
<1> SUFFICES ASSUME NEW a \in S, NEW b \in S, NEW c \in S,
                    AheadOf(a, b), AheadOf(b, c)
             PROVE  AheadOf(a, c)
  BY DEF Ordered
<1>1. PICK x \in Int : lo <= x /\ x <= hi /\ a = (x % M)
  BY DEF Within
<1>2. PICK y \in Int : lo <= y /\ y <= hi /\ b = (y % M)
  BY DEF Within
<1>3. PICK z \in Int : lo <= z /\ z <= hi /\ c = (z % M)
  BY DEF Within
<1>4. /\ -Half < x - y /\ x - y < Half /\ -Half < y - z /\ y - z < Half
      /\ -Half < x - z /\ x - z < Half
  BY <1>1, <1>2, <1>3, HalfOfModulus
<1>5. x > y /\ y > z
  BY <1>1, <1>2, <1>3, <1>4, Compare
<1>6. x > z
  BY <1>5
<1> QED BY <1>1, <1>3, <1>4, <1>6, Compare

LEMMA InvIsSmall == NackInv => ListsAreSmall
<1> SUFFICES ASSUME NackInv PROVE ListsAreSmall
  OBVIOUS
<1>1. Cardinality(DOMAIN nack_list) <= kMaxNackPackets
  BY DEF NackInv, ListIsBounded
<1> DEFINE L == DOMAIN nack_list \cup {newest_seq_num}
           F == keyframe_list \cup {newest_seq_num}
           lo == top - kMaxPacketAge
           hi == top + MaxJump
<1>2. CASE initialized
  <2>1. newest_seq_num = (top % M) /\ top \in Int
    BY <1>2, NewestIs
  <2>2. /\ lo \in Int /\ hi \in Int /\ top - lo < Half /\ hi - lo < Half
        /\ lo <= top /\ top <= hi /\ top <= top
    BY <2>1, Constants, HalfOfModulus
  <2>3. Within(L, Int, lo, top)
    <3>1. \A s \in DOMAIN nack_list :
              \E x \in Int : lo <= x /\ x <= top /\ s = (x % M)
      <4> TAKE s \in DOMAIN nack_list
      <4>1. /\ Sent(s, top) \in Int /\ lo <= Sent(s, top)
            /\ Sent(s, top) < top /\ (Sent(s, top) % M) = s
        BY ListedIs
      <4> QED BY <2>1, <4>1
    <3> HIDE DEF lo
    <3> QED BY <2>1, <2>2, <3>1 DEF Within
  <2>4. Within(F, Int, lo, hi)
    <3>1. Within(keyframe_list, keyframes, lo, hi) /\ keyframes \subseteq Int
      BY Constants DEF NackInv, ListsInWindow, NackTypes, Numbers
    <3> HIDE DEF lo, hi
    <3>2. \A s \in keyframe_list :
              \E x \in Int : lo <= x /\ x <= hi /\ s = (x % M)
      BY <3>1 DEF Within
    <3> QED BY <2>1, <2>2, <3>2 DEF Within
  <2> HIDE DEF L, F, lo, hi
  <2>5. Ordered(L) /\ Ordered(F)
    BY <2>1, <2>2, <2>3, <2>4, OrderedIs
  <2> QED BY <1>1, <2>5 DEF ListsAreSmall, L, F
<1>3. CASE ~initialized
  <2>1. DOMAIN nack_list = {} /\ keyframe_list = {}
    BY <1>3, Zenon DEF NackInv, Started
  <2>2. Ordered({newest_seq_num})
    BY DEF Ordered, AheadOf
  <2>3. L = {newest_seq_num} /\ F = {newest_seq_num}
    BY <2>1
  <2> QED BY <1>1, <2>2, <2>3, Zenon DEF ListsAreSmall
<1> QED BY <1>2, <1>3

(* However packets are lost, reordered, recovered and cleared,             *)
(* AddPacketsToNack keeps nack_list within kMaxNackPackets entries, and    *)
(* DescendingSeqNumComp is a strict order on the lists it sorts.           *)
THEOREM ListsStaySmall == Spec => []ListsAreSmall
BY NackInvHolds, InvIsSmall, PTL

(* OnReceivedPacket takes a packet that arrives from nack_list, and        *)
(* AddPacketsToNack never lists one that recovered_list_ remembers: what   *)
(* arrived is not asked for, except where ClearUpTo forgot it.             *)
THEOREM ArrivedAreNotNacked == Spec => []NackedAreMissing
<1>1. NackInv => NackedAreMissing
  BY DEF NackInv
<1> QED BY <1>1, NackInvHolds, PTL

(* GetNackBatch asks for no packet more than kMaxNackRetries times: its    *)
(* retries are the requests that were sent, and one that left the list is  *)
(* behind newest_seq_num and never comes back.                             *)
THEOREM RetriesAreLimited == Spec => []AskedAtMost
<1>1. NackInv => AskedAtMost
  BY DEF NackInv
<1> QED BY <1>1, NackInvHolds, PTL

(* A missing packet leaves nack_list only when it is too old, was asked    *)
(* for as often as possible, is older than a key frame that arrived, or    *)
(* was given up by ClearUpTo or by the request for a key frame.            *)
THEOREM LossesAreAccountedFor == Spec => []NoSilentLoss
<1>1. NackInv => NoSilentLoss
  BY DEF NackInv
<1> QED BY <1>1, NackInvHolds, PTL

=============================================================================

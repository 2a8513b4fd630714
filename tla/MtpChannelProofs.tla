-------------------------- MODULE MtpChannelProofs --------------------------
(***************************************************************************)
(* Safety of MtpChannel for every number of sequence numbers, every        *)
(* window, every length and number of messages, whatever the network       *)
(* loses, repeats or reorders, from ChannelAssumption alone.               *)
(*                                                                         *)
(* The argument: the receiver has all packets below the oldest that waits  *)
(* for its acknowledgement, so what is due at the receiver and what is on  *)
(* the wire are less than half of the sequence numbers apart; there, the   *)
(* order of the numbers is that of the packets.                            *)
(***************************************************************************)
EXTENDS MtpChannel, FiniteSetTheorems, SequenceTheorems, WellFoundedInduction, TLAPS

-----------------------------------------------------------------------------
(* Arithmetic modulo the sequence numbers *)

LEMMA ModulusIsTwoWindows ==
  /\ MAX_RELIABLE_WINDOW_SIZE \in Nat \ {0}
  /\ Modulus \in Nat \ {0}
  /\ Modulus = 2 * MAX_RELIABLE_WINDOW_SIZE
  /\ SEQNUM_MAX = Modulus - 1
  /\ SEQNUM_MAX \div 2 = MAX_RELIABLE_WINDOW_SIZE - 1
  BY SeqnumAssumption DEF Modulus

LEMMA Remainder == \A a \in Int : a % Modulus \in 0..Modulus - 1
<1>1. Modulus \in Nat \ {0}  BY ModulusIsTwoWindows
<1>. HIDE DEF Modulus
<1>. QED  BY <1>1, SMT

LEMMA Quotient ==
  \A a \in Int : a \div Modulus \in Int /\ a = Modulus * (a \div Modulus) + (a % Modulus)
<1>1. Modulus \in Nat \ {0}  BY ModulusIsTwoWindows
<1>. HIDE DEF Modulus
<1>. QED  BY <1>1, SMT

LEMMA MultipleUp == ASSUME NEW q \in Int, NEW n \in Nat, q >= n PROVE Modulus * q >= Modulus * n
<1>1. Modulus \in Nat \ {0}  BY ModulusIsTwoWindows
<1>. HIDE DEF Modulus
<1>. QED  BY <1>1, SMT

LEMMA MultipleDown == ASSUME NEW q \in Int, NEW n \in Nat, q <= -n PROVE Modulus * q <= -(Modulus * n)
<1>1. Modulus \in Nat \ {0}  BY ModulusIsTwoWindows
<1>. HIDE DEF Modulus
<1>. QED  BY <1>1, SMT

LEMMA Factored ==
  ASSUME NEW q \in Int, NEW r \in Int PROVE Modulus * q - Modulus * r = Modulus * (q - r)
<1>1. Modulus \in Nat \ {0}  BY ModulusIsTwoWindows
<1>. HIDE DEF Modulus
<1>. QED  BY <1>1, SMT

\* Two numbers less than the modulus apart have remainders as far apart,
\* up to one turn.
LEMMA RemainderDifference ==
  ASSUME NEW a \in Int, NEW b \in Int, a - b < Modulus, b - a < Modulus
  PROVE  (a % Modulus) - (b % Modulus) \in {a - b, a - b + Modulus, a - b - Modulus}
<1>. DEFINE q == a \div Modulus
            r == b \div Modulus
            s == a % Modulus
            t == b % Modulus
            k == r - q
<1>1. Modulus \in Nat \ {0}  BY ModulusIsTwoWindows
<1>2. /\ q \in Int /\ r \in Int /\ s \in 0..Modulus - 1 /\ t \in 0..Modulus - 1
      /\ a = Modulus * q + s /\ b = Modulus * r + t
  BY Quotient, Remainder
<1>. HIDE DEF q, r, s, t, Modulus
<1>3. k \in Int /\ (s - t) - (a - b) = Modulus * r - Modulus * q  BY <1>1, <1>2
<1>4. (s - t) - (a - b) = Modulus * k  BY <1>2, <1>3, Factored
<1>. HIDE DEF k
<1>5. CASE k >= 2
  <2>1. Modulus * k >= Modulus * 2  BY <1>3, <1>5, MultipleUp
  <2>. QED  BY <2>1, <1>1, <1>2, <1>4
<1>6. CASE k <= -2
  <2>1. Modulus * k <= -(Modulus * 2)  BY <1>3, <1>6, MultipleDown
  <2>. QED  BY <2>1, <1>1, <1>2, <1>4
<1>7. CASE k \in {-1, 0, 1}
  <2>1. Modulus * k \in {-Modulus, 0, Modulus}  BY <1>1, <1>7
  <2>. QED  BY <2>1, <1>1, <1>2, <1>4 DEF s, t
<1>. QED  BY <1>3, <1>5, <1>6, <1>7

\* Remainders less than the modulus apart differ when the numbers do.
LEMMA RemainderOfSum ==
  ASSUME NEW a \in Int, NEW n \in Int PROVE ((a % Modulus) + n) % Modulus = (a + n) % Modulus
<1>. DEFINE x == (a % Modulus) + n
            y == a + n
            p == a \div Modulus
            q == x \div Modulus
            r == y \div Modulus
            k == q + p - r
<1>1. Modulus \in Nat \ {0}  BY ModulusIsTwoWindows
<1>2. p \in Int /\ a = Modulus * p + (a % Modulus) /\ a % Modulus \in Int  BY Quotient, Remainder
<1>3. x \in Int /\ y \in Int  BY <1>2
<1>4. /\ q \in Int /\ x = Modulus * q + (x % Modulus) /\ x % Modulus \in 0..Modulus - 1
      /\ r \in Int /\ y = Modulus * r + (y % Modulus) /\ y % Modulus \in 0..Modulus - 1
  BY <1>3, Quotient, Remainder
<1>5. y - x = Modulus * p  BY <1>1, <1>2
<1>6. (y % Modulus) - (x % Modulus) = Modulus * (p + q) - Modulus * r
  <2>. HIDE DEF x, y, p, q, r
  <2>. QED  BY <1>1, <1>2, <1>3, <1>4, <1>5
<1>7. k \in Int /\ (y % Modulus) - (x % Modulus) = Modulus * k
  <2>. HIDE DEF x, y, p, q, r
  <2>1. p + q \in Int /\ (p + q) - r = k  BY <1>2, <1>4
  <2>2. Modulus * (p + q) - Modulus * r = Modulus * ((p + q) - r)  BY <2>1, <1>4, Factored
  <2>. QED  BY <2>1, <2>2, <1>4, <1>6
<1>8. x % Modulus = y % Modulus
  <2>. HIDE DEF x, y, p, q, r, k
  <2>1. CASE k >= 1
    <3>1. Modulus * k >= Modulus * 1  BY <2>1, <1>7, MultipleUp
    <3>. QED  BY <3>1, <1>1, <1>4, <1>7
  <2>2. CASE k <= -1
    <3>1. Modulus * k <= -(Modulus * 1)  BY <2>2, <1>7, MultipleDown
    <3>. QED  BY <3>1, <1>1, <1>4, <1>7
  <2>3. CASE k = 0  BY <2>3, <1>1, <1>4, <1>7
  <2>. QED  BY <2>1, <2>2, <2>3, <1>7
<1>. QED  BY <1>8

-----------------------------------------------------------------------------
(* Sequence numbers of packets *)

LEMMA SeqnumOfType == ASSUME NEW n \in Int PROVE SeqnumOf(n) \in Seqnums
<1>1. SEQNUM_INITIAL + n \in Int  BY ChannelAssumption, ModulusIsTwoWindows DEF Seqnums
<1>2. (SEQNUM_INITIAL + n) % Modulus \in 0..Modulus - 1  BY <1>1, Remainder
<1>. QED  BY <1>2, ModulusIsTwoWindows DEF SeqnumOf, Plus, Seqnums

LEMMA SeqnumOfPlus ==
  ASSUME NEW a \in Int, NEW n \in Int PROVE Plus(SeqnumOf(a), n) = SeqnumOf(a + n)
<1>1. SEQNUM_INITIAL \in Int /\ SEQNUM_INITIAL + a \in Int
  BY ChannelAssumption, ModulusIsTwoWindows DEF Seqnums
<1>2. (((SEQNUM_INITIAL + a) % Modulus) + n) % Modulus = (SEQNUM_INITIAL + a + n) % Modulus
  BY <1>1, RemainderOfSum
<1>3. SEQNUM_INITIAL + a + n = SEQNUM_INITIAL + (a + n)  BY <1>1
<1>. QED  BY <1>2, <1>3 DEF SeqnumOf, Plus

LEMMA SeqnumOfDifference ==
  ASSUME NEW a \in Int, NEW b \in Int, a - b < Modulus, b - a < Modulus
  PROVE  SeqnumOf(a) - SeqnumOf(b) \in {a - b, a - b + Modulus, a - b - Modulus}
<1>. DEFINE x == SEQNUM_INITIAL + a
            y == SEQNUM_INITIAL + b
<1>1. SEQNUM_INITIAL \in Int  BY ChannelAssumption, ModulusIsTwoWindows DEF Seqnums
<1>2. x \in Int /\ y \in Int /\ x - y = a - b /\ y - x = b - a  BY <1>1
<1>. HIDE DEF x, y
<1>3. (x % Modulus) - (y % Modulus) \in {x - y, x - y + Modulus, x - y - Modulus}
  BY <1>2, RemainderDifference, ModulusIsTwoWindows
<1>. QED  BY <1>2, <1>3 DEF SeqnumOf, Plus, x, y

\* Packets less than the modulus apart have the same number only if they are one.
LEMMA SeqnumOfInjective ==
  ASSUME NEW a \in Int, NEW b \in Int, a - b < Modulus, b - a < Modulus,
         SeqnumOf(a) = SeqnumOf(b)
  PROVE  a = b
<1>1. SeqnumOf(a) - SeqnumOf(b) = 0  BY SeqnumOfType DEF Seqnums
<1>2. 0 \in {a - b, a - b + Modulus, a - b - Modulus}  BY <1>1, SeqnumOfDifference
<1>. QED  BY <1>2, ModulusIsTwoWindows

LEMMA WindowEnd ==
  ASSUME NEW s \in Seqnums
  PROVE  Plus(s, MAX_RELIABLE_WINDOW_SIZE) =
           IF s < MAX_RELIABLE_WINDOW_SIZE THEN s + MAX_RELIABLE_WINDOW_SIZE ELSE s - MAX_RELIABLE_WINDOW_SIZE
<1>. DEFINE W == MAX_RELIABLE_WINDOW_SIZE
            x == s + W
            y == IF s < W THEN s + W ELSE s - W
            k == x \div Modulus
<1>1. W \in Nat \ {0} /\ Modulus \in Nat \ {0} /\ Modulus = 2 * W /\ s \in 0..Modulus - 1
  BY ModulusIsTwoWindows DEF Seqnums
<1>2. x \in 0..Modulus + W - 1 /\ y \in 0..Modulus - 1 /\ (y = x \/ y = x - Modulus)  BY <1>1
<1>3. k \in Int /\ x = Modulus * k + (x % Modulus) /\ x % Modulus \in 0..Modulus - 1
  <2>1. x \in Int  BY <1>2
  <2>. QED  BY <2>1, Quotient, Remainder
<1>. HIDE DEF W, x, y, k, Modulus
<1>4. k \in {0, 1}
  <2>1. CASE k >= 2
    <3>1. Modulus * k >= Modulus * 2  BY <2>1, <1>3, MultipleUp
    <3>. QED  BY <3>1, <1>1, <1>2, <1>3
  <2>2. CASE k <= -1
    <3>1. Modulus * k <= -(Modulus * 1)  BY <2>2, <1>3, MultipleDown
    <3>. QED  BY <3>1, <1>1, <1>2, <1>3
  <2>. QED  BY <2>1, <2>2, <1>3
<1>5. x % Modulus = y  BY <1>1, <1>2, <1>3, <1>4
<1>. QED  BY <1>5 DEF Plus, x, y, W

\* Half of the numbers ahead of the one due are in the window; half behind are not.
LEMMA InWindow ==
  ASSUME NEW a \in Int, NEW b \in Int,
         a - b < MAX_RELIABLE_WINDOW_SIZE, b - a <= MAX_RELIABLE_WINDOW_SIZE
  PROVE  seqnum_in_window(SeqnumOf(a), SeqnumOf(b)) <=> a >= b
<1>. DEFINE s == SeqnumOf(a)
            t == SeqnumOf(b)
<1>1. s \in Seqnums /\ t \in Seqnums  BY SeqnumOfType
<1>2. s - t \in {a - b, a - b + Modulus, a - b - Modulus}
  BY SeqnumOfDifference, ModulusIsTwoWindows
<1>3. Plus(t, MAX_RELIABLE_WINDOW_SIZE) =
        IF t < MAX_RELIABLE_WINDOW_SIZE THEN t + MAX_RELIABLE_WINDOW_SIZE ELSE t - MAX_RELIABLE_WINDOW_SIZE
  BY <1>1, WindowEnd
<1>. HIDE DEF s, t
<1>4. seqnum_in_window(s, t) <=> a >= b
  BY <1>1, <1>2, <1>3, ModulusIsTwoWindows DEF seqnum_in_window, Seqnums
<1>. QED  BY <1>4 DEF s, t

\* Within one window the loops of insert step over exactly the earlier packets.
LEMMA PrecedesIsEarlier ==
  ASSUME NEW e \in Int, NEW a \in e..e + MAX_RELIABLE_WINDOW_SIZE - 1,
         NEW b \in e..e + MAX_RELIABLE_WINDOW_SIZE - 1
  PROVE  Precedes(SeqnumOf(a), SeqnumOf(b), SeqnumOf(e)) <=> a < b
<1>. DEFINE s == SeqnumOf(a)
            t == SeqnumOf(b)
            u == SeqnumOf(e)
<1>1. s \in Seqnums /\ t \in Seqnums /\ u \in Seqnums  BY SeqnumOfType
<1>2. /\ s - t \in {a - b, a - b + Modulus, a - b - Modulus}
      /\ s - u \in {a - e, a - e + Modulus, a - e - Modulus}
      /\ t - u \in {b - e, b - e + Modulus, b - e - Modulus}
  BY SeqnumOfDifference, ModulusIsTwoWindows
<1>. HIDE DEF s, t, u
<1>3. Precedes(s, t, u) <=> a < b  BY <1>1, <1>2, ModulusIsTwoWindows DEF Precedes, Seqnums
<1>. QED  BY <1>3 DEF s, t, u

-----------------------------------------------------------------------------
(* Lists of packets *)

\* The packets sent when n have left the queue.
Sent(n) == {Packet(k) : k \in 0..n - 1}

Sorted(list) == \A i, j \in 1..Len(list) : i < j => list[i].num < list[j].num

LEMMA SentPacket ==
  ASSUME NEW n \in Int, NEW p \in Sent(n)
  PROVE  p.num \in 0..n - 1 /\ p = Packet(p.num) /\ p.seq = SeqnumOf(p.num)
  BY DEF Sent, Packet

LEMMA SentGrows ==
  ASSUME NEW m \in Int, NEW n \in Int, m <= n PROVE Sent(m) \subseteq Sent(n)
  BY DEF Sent

LEMMA SeqGrows ==
  ASSUME NEW S, NEW T, S \subseteq T, NEW l \in Seq(S) PROVE l \in Seq(T)
  OBVIOUS

\* A set of indices that has an element has a least one.
LEMMA LeastOfIndices ==
  ASSUME NEW len \in Nat, NEW S, S \subseteq 1..len, S # {}
  PROVE  \E m \in S : \A n \in S : m <= n
<1>. DEFINE R == StrictSubsetOrdering(1..len)
            T == {1..m : m \in S}
<1>1. \A m \in S : IsFiniteSet(1..m) /\ 1..m \subseteq 1..len
  BY FS_Interval
<1>2. T \subseteq FiniteSubsetsOf(1..len) /\ T # {}
  BY <1>1 DEF FiniteSubsetsOf
<1>3. \E x \in T : \A y \in T : ~(<<y, x>> \in R)
  <2>. HIDE DEF R, T
  <2>1. IsWellFoundedOn(R, FiniteSubsetsOf(1..len))
    BY FS_StrictSubsetOrderingWellFounded DEF R
  <2>. QED  BY <2>1, <1>2, WFMin
<1>4. PICK m \in S : \A n \in S : ~(<<1..n, 1..m>> \in R)
  BY <1>3
<1>5. ASSUME NEW n \in S, n < m PROVE <<1..n, 1..m>> \in R
  <2>1. 1..n \subseteq 1..m /\ m \in 1..m /\ m \notin 1..n  BY <1>5
  <2>2. <<1..n, 1..m>> \in (SUBSET (1..len)) \X (SUBSET (1..len))  BY <1>1
  <2>. QED  BY <2>1, <2>2 DEF StrictSubsetOrdering
<1>6. \A n \in S : ~(n < m)
  <2>. HIDE DEF R
  <2>. QED  BY <1>4, <1>5
<1>. QED  BY <1>6

LEMMA InsertAtProperties ==
  ASSUME NEW S, NEW l \in Seq(S), NEW i \in 1..Len(l) + 1, NEW e \in S
  PROVE  /\ InsertAt(l, i, e) \in Seq(S)
         /\ Len(InsertAt(l, i, e)) = Len(l) + 1
         /\ \A j \in 1..Len(l) + 1 :
              InsertAt(l, i, e)[j] = IF j < i THEN l[j] ELSE IF j = i THEN e ELSE l[j - 1]
<1>. DEFINE a == SubSeq(l, 1, i - 1)
            b == SubSeq(l, i, Len(l))
<1>1. a \in Seq(S) /\ Len(a) = i - 1 /\ \A j \in 1..i - 1 : a[j] = l[j]
  BY SubSeqProperties
<1>2. b \in Seq(S) /\ Len(b) = Len(l) - i + 1 /\ \A j \in 1..Len(l) - i + 1 : b[j] = l[i + j - 1]
  BY SubSeqProperties
<1>. HIDE DEF a, b
<1>3. (a \o <<e>>) \o b \in Seq(S)  BY <1>1, <1>2
<1>4. Len((a \o <<e>>) \o b) = Len(l) + 1  BY <1>1, <1>2
<1>5. \A j \in 1..Len(l) + 1 :
        ((a \o <<e>>) \o b)[j] = IF j < i THEN l[j] ELSE IF j = i THEN e ELSE l[j - 1]
  <2>. DEFINE c == a \o <<e>>
  <2>1. /\ c \in Seq(S) /\ Len(c) = i
        /\ \A j \in 1..i : c[j] = IF j < i THEN l[j] ELSE e
    BY <1>1
  <2>. HIDE DEF c
  <2>2. \A j \in 1..Len(l) + 1 : (c \o b)[j] = IF j <= i THEN c[j] ELSE b[j - i]
    BY <1>2, <2>1
  <2>3. \A j \in i + 1..Len(l) + 1 : b[j - i] = l[j - 1]
    <3>1. TAKE j \in i + 1..Len(l) + 1
    <3>2. j - i \in 1..Len(l) - i + 1 /\ i + (j - i) - 1 = j - 1  BY <3>1
    <3>. QED  BY <3>2, <1>2
  <2>4. ASSUME NEW j \in 1..Len(l) + 1
        PROVE  (c \o b)[j] = IF j < i THEN l[j] ELSE IF j = i THEN e ELSE l[j - 1]
    <3>1. Len(l) \in Nat  OBVIOUS
    <3>2. CASE j <= i
      <4>1. j \in 1..i  BY <3>1, <3>2
      <4>. QED  BY <3>1, <3>2, <4>1, <2>1, <2>2
    <3>3. CASE j > i
      <4>1. j \in i + 1..Len(l) + 1 /\ ~(j <= i) /\ ~(j < i) /\ j # i  BY <3>1, <3>3
      <4>2. (c \o b)[j] = b[j - i]  BY <4>1, <2>2
      <4>3. b[j - i] = l[j - 1]  BY <4>1, <2>3
      <4>. QED  BY <4>1, <4>2, <4>3
    <3>4. j <= i \/ j > i  BY <3>1
    <3>. QED  BY <3>2, <3>3, <3>4, Zenon
  <2>. QED  BY <2>4 DEF c
<1>. QED  BY <1>3, <1>4, <1>5 DEF InsertAt, a, b

LEMMA RemoveAtProperties ==
  ASSUME NEW S, NEW l \in Seq(S), NEW i \in 1..Len(l)
  PROVE  /\ RemoveAt(l, i) \in Seq(S)
         /\ Len(RemoveAt(l, i)) = Len(l) - 1
         /\ \A j \in 1..Len(l) - 1 : RemoveAt(l, i)[j] = IF j < i THEN l[j] ELSE l[j + 1]
<1>. DEFINE a == SubSeq(l, 1, i - 1)
            b == SubSeq(l, i + 1, Len(l))
<1>1. a \in Seq(S) /\ Len(a) = i - 1 /\ \A j \in 1..i - 1 : a[j] = l[j]
  BY SubSeqProperties
<1>2. b \in Seq(S) /\ Len(b) = Len(l) - i /\ \A j \in 1..Len(l) - i : b[j] = l[i + j]
  BY SubSeqProperties
<1>. HIDE DEF a, b
<1>3. a \o b \in Seq(S)  BY <1>1, <1>2
<1>4. Len(a \o b) = Len(l) - 1  BY <1>1, <1>2
<1>5. \A j \in 1..Len(l) - 1 : (a \o b)[j] = IF j < i THEN l[j] ELSE l[j + 1]
  BY <1>1, <1>2
<1>. QED  BY <1>3, <1>4, <1>5 DEF RemoveAt, a, b

\* Where insert's loops stop in a list of packets of one window.
LEMMA SkippedEarlier ==
  ASSUME NEW e \in Int, NEW n \in Nat, NEW l \in Seq(Sent(n)), Sorted(l), NEW p \in Sent(n),
         p.num \in e..e + MAX_RELIABLE_WINDOW_SIZE - 1,
         \A i \in 1..Len(l) : l[i].num \in e..e + MAX_RELIABLE_WINDOW_SIZE - 1
  PROVE  LET k == Skipped(l, p.seq, SeqnumOf(e))
         IN  /\ k \in 0..Len(l)
             /\ \A i \in 1..k : l[i].num < p.num
             /\ \A i \in k + 1..Len(l) : l[i].num >= p.num
<1>. DEFINE Stops(k) == /\ \A i \in 1..k : Precedes(l[i].seq, p.seq, SeqnumOf(e))
                        /\ k < Len(l) => ~Precedes(l[k + 1].seq, p.seq, SeqnumOf(e))
            k0 == Skipped(l, p.seq, SeqnumOf(e))
<1>1. \A i \in 1..Len(l) : l[i] \in Sent(n) /\ l[i].num \in Int  BY SentPacket
<1>2. p.num \in Int /\ p.seq = SeqnumOf(p.num)  BY SentPacket
<1>3. \A i \in 1..Len(l) : Precedes(l[i].seq, p.seq, SeqnumOf(e)) <=> l[i].num < p.num
  <2>1. TAKE i \in 1..Len(l)
  <2>2. l[i].seq = SeqnumOf(l[i].num)  BY <1>1, SentPacket
  <2>. QED  BY <1>2, <2>2, PrecedesIsEarlier
<1>4. \E k \in 0..Len(l) : Stops(k)
  <2>. DEFINE D == {i \in 1..Len(l) : ~(l[i].num < p.num)}
  <2>1. CASE D = {}
    <3>1. Stops(Len(l))  BY <2>1, <1>3
    <3>. QED  BY <3>1
  <2>2. CASE D # {}
    <3>1. PICK m \in D : \A i \in D : m <= i
      <4>1. Len(l) \in Nat /\ D \subseteq 1..Len(l)  OBVIOUS
      <4>. HIDE DEF D
      <4>. QED  BY <2>2, <4>1, LeastOfIndices
    <3>2. m - 1 \in 0..Len(l) /\ Stops(m - 1)  BY <3>1, <1>3
    <3>. QED  BY <3>2
  <2>. QED  BY <2>1, <2>2
<1>5. k0 \in 0..Len(l) /\ Stops(k0)
  <2>. DEFINE T == {k \in 0..Len(l) : Stops(k)}
  <2>1. k0 = CHOOSE k \in 0..Len(l) : Stops(k)  BY DEF Skipped
  <2>. HIDE DEF Stops, k0
  <2>. QED  BY <1>4, <2>1
<1>. HIDE DEF k0
<1>6. \A i \in 1..k0 : l[i].num < p.num  BY <1>3, <1>5
<1>7. \A i \in k0 + 1..Len(l) : l[i].num >= p.num
  <2>1. TAKE i \in k0 + 1..Len(l)
  <2>2. l[k0 + 1].num >= p.num  BY <1>1, <1>2, <1>3, <1>5, <2>1
  <2>3. i = k0 + 1 \/ l[k0 + 1].num < l[i].num  BY <1>5, <2>1 DEF Sorted
  <2>. QED  BY <1>1, <1>2, <1>5, <2>1, <2>2, <2>3
<1>. QED  BY <1>5, <1>6, <1>7 DEF k0

\* insert keeps a list of one window sorted and adds the packet to it.
LEMMA InsertSorted ==
  ASSUME NEW e \in Int, NEW n \in Nat, NEW l \in Seq(Sent(n)), Sorted(l), NEW p \in Sent(n),
         p.num \in e + 1..e + MAX_RELIABLE_WINDOW_SIZE - 1,
         \A i \in 1..Len(l) : l[i].num \in e..e + MAX_RELIABLE_WINDOW_SIZE - 1
  PROVE  LET r == Insert(l, p, SeqnumOf(e))
         IN  r \in Seq(Sent(n)) /\ Sorted(r) /\ ToSet(r) = ToSet(l) \cup {p}
<1>. DEFINE k == Skipped(l, p.seq, SeqnumOf(e))
            r == Insert(l, p, SeqnumOf(e))
<1>1. /\ k \in 0..Len(l)
      /\ \A i \in 1..k : l[i].num < p.num
      /\ \A i \in k + 1..Len(l) : l[i].num >= p.num
  <2>1. p.num \in e..e + MAX_RELIABLE_WINDOW_SIZE - 1  BY ModulusIsTwoWindows
  <2>. QED  BY <2>1, SkippedEarlier DEF k
<1>2. \A i \in 1..Len(l) : l[i] \in Sent(n) /\ l[i].num \in Int /\ l[i] = Packet(l[i].num)
  BY SentPacket
<1>3. p.num \in Int /\ p.seq = SeqnumOf(p.num) /\ p = Packet(p.num)  BY SentPacket
<1>4. seqnum_in_window(p.seq, SeqnumOf(e))
  BY <1>3, InWindow, ModulusIsTwoWindows
<1>5. p.seq # SeqnumOf(e)
  BY <1>3, SeqnumOfInjective, ModulusIsTwoWindows
<1>6. r = IF k < Len(l) /\ l[k + 1].seq = p.seq THEN l ELSE InsertAt(l, k + 1, p)
  BY <1>4, <1>5 DEF Insert
<1>. HIDE DEF k, r
<1>7. CASE k < Len(l) /\ l[k + 1].seq = p.seq
  <2>1. l[k + 1].seq = SeqnumOf(l[k + 1].num) /\ k + 1 \in 1..Len(l)
    BY <1>1, <1>7, SentPacket
  <2>2. l[k + 1].num = p.num
    <3>1. SeqnumOf(l[k + 1].num) = SeqnumOf(p.num)  BY <1>3, <1>7, <2>1
    <3>2. l[k + 1].num \in Int /\ l[k + 1].num - p.num < Modulus /\ p.num - l[k + 1].num < Modulus
      BY <1>3, <2>1, <1>2, ModulusIsTwoWindows
    <3>. QED  BY <1>3, <3>1, <3>2, SeqnumOfInjective
  <2>3. l[k + 1] = p  BY <1>2, <1>3, <2>1, <2>2
  <2>. QED  BY <1>6, <1>7, <2>1, <2>3 DEF ToSet, r
<1>8. CASE ~(k < Len(l) /\ l[k + 1].seq = p.seq)
  <2>1. r = InsertAt(l, k + 1, p)  BY <1>6, <1>8
  <2>2. /\ r \in Seq(Sent(n)) /\ Len(r) = Len(l) + 1
        /\ \A j \in 1..Len(l) + 1 : r[j] = IF j < k + 1 THEN l[j] ELSE IF j = k + 1 THEN p ELSE l[j - 1]
    <3>1. k + 1 \in 1..Len(l) + 1  BY <1>1
    <3>. DEFINE x == k + 1
    <3>2. r = InsertAt(l, x, p) /\ x \in 1..Len(l) + 1  BY <2>1, <3>1
    <3>. HIDE DEF x
    <3>3. /\ InsertAt(l, x, p) \in Seq(Sent(n)) /\ Len(InsertAt(l, x, p)) = Len(l) + 1
          /\ \A j \in 1..Len(l) + 1 :
               InsertAt(l, x, p)[j] = IF j < x THEN l[j] ELSE IF j = x THEN p ELSE l[j - 1]
      <4>. DEFINE T == Sent(n)
      <4>1. l \in Seq(T) /\ p \in T  OBVIOUS
      <4>. HIDE DEF T
      <4>2. /\ InsertAt(l, x, p) \in Seq(T) /\ Len(InsertAt(l, x, p)) = Len(l) + 1
            /\ \A j \in 1..Len(l) + 1 :
                 InsertAt(l, x, p)[j] = IF j < x THEN l[j] ELSE IF j = x THEN p ELSE l[j - 1]
        BY <4>1, <3>2, InsertAtProperties
      <4>. QED  BY <4>2 DEF T
    <3>. QED  BY <3>2, <3>3, Zenon DEF x
  <2>3. \A i \in k + 1..Len(l) : l[i].num > p.num
    <3>1. TAKE i \in k + 1..Len(l)
    <3>2. l[k + 1].num # p.num  BY <1>1, <1>2, <1>3, <1>8, <3>1
    <3>3. i = k + 1 \/ l[k + 1].num < l[i].num  BY <1>1, <3>1 DEF Sorted
    <3>. QED  BY <1>1, <1>2, <1>3, <3>1, <3>2, <3>3
  <2>. HIDE DEF Packet
  <2>4. Sorted(r)
    <3>1. SUFFICES ASSUME NEW i \in 1..Len(l) + 1, NEW j \in 1..Len(l) + 1, i < j
                   PROVE  r[i].num < r[j].num
      BY <2>2 DEF Sorted
    <3>2. CASE j < k + 1
      <4>1. i \in 1..Len(l) /\ j \in 1..Len(l) /\ r[i] = l[i] /\ r[j] = l[j]  BY <3>1, <3>2, <1>1, <2>2
      <4>. QED  BY <3>1, <4>1 DEF Sorted
    <3>3. CASE j = k + 1
      <4>1. i \in 1..k /\ r[i] = l[i] /\ r[j] = p  BY <3>1, <3>3, <1>1, <2>2
      <4>. QED  BY <1>1, <4>1
    <3>4. CASE j > k + 1 /\ i < k + 1
      <4>1. r[i] = l[i] /\ r[j] = l[j - 1] /\ j - 1 \in 1..Len(l) /\ i < j - 1  BY <3>1, <3>4, <1>1, <2>2
      <4>2. i \in 1..Len(l)  BY <3>4, <1>1
      <4>. QED  BY <4>1, <4>2 DEF Sorted
    <3>5. CASE j > k + 1 /\ i = k + 1
      <4>1. j - 1 \in k + 1..Len(l) /\ r[i] = p /\ r[j] = l[j - 1]
        <5>1. j - 1 \in k + 1..Len(l) /\ ~(j < k + 1) /\ j # k + 1  BY <3>1, <3>5, <1>1
        <5>2. r[j] = l[j - 1]  BY <5>1, <2>2
        <5>3. ~(i < k + 1) /\ i = k + 1  BY <3>5, <1>1
        <5>4. r[i] = p  BY <5>3, <2>2
        <5>. QED  BY <5>1, <5>2, <5>4
      <4>2. l[j - 1].num > p.num  BY <4>1, <2>3
      <4>3. l[j - 1].num \in Int  BY <4>1, <1>1, <1>2
      <4>. QED  BY <4>1, <4>2, <4>3, <1>3
    <3>6. CASE j > k + 1 /\ i > k + 1
      <4>1. r[i] = l[i - 1] /\ r[j] = l[j - 1] /\ i - 1 \in 1..Len(l) /\ j - 1 \in 1..Len(l) /\ i - 1 < j - 1
        BY <3>1, <3>6, <1>1, <2>2
      <4>. QED  BY <4>1 DEF Sorted
    <3>. QED  BY <3>2, <3>3, <3>4, <3>5, <3>6, <1>1
  <2>5. ToSet(r) \subseteq ToSet(l) \cup {p}
    <3>1. SUFFICES ASSUME NEW j \in 1..Len(l) + 1 PROVE r[j] \in ToSet(l) \cup {p}
      BY <2>2 DEF ToSet
    <3>2. CASE j < k + 1
      <4>1. j \in 1..Len(l) /\ r[j] = l[j]  BY <3>2, <1>1, <2>2
      <4>. QED  BY <4>1 DEF ToSet
    <3>3. CASE j = k + 1  BY <3>3, <2>2
    <3>4. CASE j > k + 1
      <4>1. j - 1 \in 1..Len(l) /\ r[j] = l[j - 1]  BY <3>4, <1>1, <2>2
      <4>. QED  BY <4>1 DEF ToSet
    <3>. QED  BY <3>2, <3>3, <3>4, <1>1
  <2>6. ToSet(l) \cup {p} \subseteq ToSet(r)
    <3>1. p \in ToSet(r)
      <4>1. k + 1 \in 1..Len(r) /\ r[k + 1] = p  BY <1>1, <2>2
      <4>. QED  BY <4>1 DEF ToSet
    <3>2. ASSUME NEW i \in 1..Len(l) PROVE l[i] \in ToSet(r)
      <4>1. CASE i < k + 1
        <5>1. i \in 1..Len(r) /\ r[i] = l[i]  BY <4>1, <1>1, <2>2
        <5>. QED  BY <5>1 DEF ToSet
      <4>2. CASE i >= k + 1
        <5>1. i + 1 \in 1..Len(l) + 1 /\ r[i + 1] = l[i]  BY <4>2, <1>1, <2>2
        <5>. QED  BY <5>1, <2>2 DEF ToSet
      <4>. QED  BY <4>1, <4>2, <1>1
    <3>. QED  BY <3>1, <3>2 DEF ToSet
  <2>. QED  BY <2>2, <2>4, <2>5, <2>6 DEF r
<1>. QED  BY <1>7, <1>8

\* popSeqnum takes one packet of that number and leaves the others in order.
LEMMA PopProperties ==
  ASSUME NEW n \in Nat, NEW l \in Seq(Sent(n)), Sorted(l), NEW seq, Numbered(l, seq) # {}
  PROVE  /\ Pop(l, seq) \in Seq(Sent(n)) /\ Sorted(Pop(l, seq))
         /\ \E p \in ToSet(l) : p.seq = seq /\ ToSet(Pop(l, seq)) = ToSet(l) \ {p}
<1>. DEFINE i == CHOOSE i \in Numbered(l, seq) : TRUE
            r == Pop(l, seq)
<1>1. i \in 1..Len(l) /\ l[i].seq = seq  BY DEF Numbered
<1>2. r = RemoveAt(l, i)  BY DEF Pop
<1>. HIDE DEF i, r
<1>3. /\ r \in Seq(Sent(n)) /\ Len(r) = Len(l) - 1
      /\ \A j \in 1..Len(l) - 1 : r[j] = IF j < i THEN l[j] ELSE l[j + 1]
  BY <1>1, <1>2, RemoveAtProperties
<1>4. \A j \in 1..Len(l) : l[j] \in Sent(n) /\ l[j].num \in Int  BY SentPacket
<1>5. Sorted(r)
  <2>1. SUFFICES ASSUME NEW a \in 1..Len(l) - 1, NEW b \in 1..Len(l) - 1, a < b
                 PROVE  r[a].num < r[b].num
    BY <1>3 DEF Sorted
  <2>2. \E c, d \in 1..Len(l) : c < d /\ r[a] = l[c] /\ r[b] = l[d]
    <3>1. CASE b < i  BY <3>1, <1>1, <1>3, <2>1
    <3>2. CASE b >= i /\ a < i
      <4>1. r[a] = l[a] /\ r[b] = l[b + 1] /\ b + 1 \in 1..Len(l) /\ a < b + 1 /\ a \in 1..Len(l)
        BY <3>2, <1>1, <1>3, <2>1
      <4>. QED  BY <4>1
    <3>3. CASE b >= i /\ a >= i
      <4>1. r[a] = l[a + 1] /\ r[b] = l[b + 1] /\ b + 1 \in 1..Len(l) /\ a + 1 \in 1..Len(l) /\ a + 1 < b + 1
        BY <3>3, <1>1, <1>3, <2>1
      <4>. QED  BY <4>1
    <3>. QED  BY <3>1, <3>2, <3>3, <1>1
  <2>. QED  BY <2>2 DEF Sorted
<1>6. l[i] \in ToSet(l)  BY <1>1 DEF ToSet
<1>7. ToSet(r) \subseteq ToSet(l) \ {l[i]}
  <2>1. SUFFICES ASSUME NEW j \in 1..Len(l) - 1 PROVE r[j] \in ToSet(l) /\ r[j] # l[i]
    BY <1>3 DEF ToSet
  <2>2. \E c \in 1..Len(l) : c # i /\ r[j] = l[c]
    <3>1. CASE j < i  BY <3>1, <1>1, <1>3
    <3>2. CASE j >= i
      <4>1. r[j] = l[j + 1] /\ j + 1 \in 1..Len(l) /\ j + 1 # i  BY <3>2, <1>1, <1>3
      <4>. QED  BY <4>1
    <3>. QED  BY <3>1, <3>2, <1>1
  <2>3. PICK c \in 1..Len(l) : c # i /\ r[j] = l[c]  BY <2>2
  <2>4. l[c].num # l[i].num
    <3>1. c < i \/ i < c  BY <1>1, <2>3
    <3>2. l[c].num < l[i].num \/ l[i].num < l[c].num  BY <1>1, <3>1 DEF Sorted
    <3>. QED  BY <1>1, <1>4, <3>2
  <2>. QED  BY <2>3, <2>4 DEF ToSet
<1>8. ToSet(l) \ {l[i]} \subseteq ToSet(r)
  <2>1. SUFFICES ASSUME NEW c \in 1..Len(l), c # i PROVE l[c] \in ToSet(r)
    BY DEF ToSet
  <2>2. CASE c < i  BY <2>2, <1>1, <1>3 DEF ToSet
  <2>3. CASE c > i
    <3>1. c - 1 \in 1..Len(l) - 1 /\ r[c - 1] = l[c]  BY <2>3, <1>1, <1>3
    <3>. QED  BY <3>1, <1>3 DEF ToSet
  <2>. QED  BY <2>1, <2>2, <2>3, <1>1
<1>. QED  BY <1>1, <1>3, <1>5, <1>6, <1>7, <1>8 DEF r

-----------------------------------------------------------------------------
(* The inductive invariant *)

\* Packets numbered that have left the queue.
NSent == Len(stream) - Len(queued_reliables)

SenderInv ==
  /\ taken \in 0..MaxCommands
  /\ m_window_size \in MIN_WINDOW..MAX_WINDOW
  /\ queued_commands \in Seq([id : 1..taken, chunks : 1..MaxChunks])
  /\ stream \in Seq(Chunk)
  /\ queued_reliables \in Seq([seq : Seqnums, num : Nat])
  /\ Len(queued_reliables) <= Len(stream) /\ Len(queued_reliables) < Span
  /\ \A k \in 1..Len(queued_reliables) : queued_reliables[k] = Packet(NSent + k - 1)
  /\ next_outgoing_seqnum = SeqnumOf(Len(stream))

\* The packets that wait for an answer are in order, the oldest first.
BufferInv ==
  /\ outgoing_reliables_sent \in Seq(Sent(NSent))
  /\ Sorted(outgoing_reliables_sent)
  /\ WithinReach
  /\ wire \subseteq Sent(NSent)

\* Packets that came early are in order and within a window of the one due.
ReceiverInv ==
  /\ handed \in Seq(Nat) /\ Len(handed) <= NSent
  /\ InOrder
  /\ next_incoming_seqnum = SeqnumOf(Len(handed))
  /\ incoming_reliables \in Seq(Sent(NSent))
  /\ Sorted(incoming_reliables)
  /\ \A i \in 1..Len(incoming_reliables) :
       incoming_reliables[i].num \in Len(handed)..Len(handed) + MAX_RELIABLE_WINDOW_SIZE - 1
  /\ delivered \in Seq(1..taken)
  /\ incoming_splits \subseteq (1..taken) \X (1..MaxChunks)

\* An acknowledgement is one for a packet the receiver has.
AckInv ==
  /\ acks \subseteq Sent(NSent)
  /\ \A p \in acks : Arrived(p.num)
  /\ NothingLost

IInv == SenderInv /\ BufferInv /\ ReceiverInv /\ AckInv

LEMMA Sizes ==
  /\ Span \in Nat /\ Span <= MAX_RELIABLE_WINDOW_SIZE
  /\ MAX_WINDOW + 2 <= Span /\ MAX_REQUEUED + MaxChunks <= Span
  /\ MAX_WINDOW \div 2 + MaxChunks <= Span
  /\ MIN_WINDOW \in Nat /\ MIN_WINDOW > 0 /\ START_WINDOW \in Nat /\ MAX_WINDOW \in Nat
  /\ WINDOW_STEP \in Nat /\ MAX_REQUEUED \in Nat /\ MAX_REQUEUED > 0
  /\ MaxChunks \in Nat /\ MaxChunks > 0
  /\ MIN_WINDOW <= START_WINDOW /\ START_WINDOW <= MAX_WINDOW
  /\ Lifetime \in Nat /\ Lifetime < MAX_RELIABLE_WINDOW_SIZE
  /\ MaxCommands \in Nat
<1>1. {MIN_WINDOW, START_WINDOW, MAX_WINDOW, WINDOW_STEP, MAX_REQUEUED, MaxChunks} \subseteq Nat \ {0}
  BY ChannelAssumption
<1>2. MAX_WINDOW \div 2 \in Nat  BY <1>1
<1>3. /\ Span \in Nat
      /\ MAX_WINDOW + 2 <= Span /\ MAX_REQUEUED + MaxChunks <= Span
      /\ MAX_WINDOW \div 2 + MaxChunks <= Span
  BY <1>1, <1>2 DEF Span
<1>. QED  BY <1>1, <1>3, ChannelAssumption

LEMMA Lengths ==
  ASSUME SenderInv
  PROVE  /\ Len(stream) \in Nat /\ Len(queued_reliables) \in Nat
         /\ NSent \in Nat /\ NSent <= Len(stream) /\ Len(stream) - NSent < Span
  BY LenProperties DEF SenderInv, NSent

\* Half the numbers back is half the numbers on.
LEMMA HalfTurn ==
  ASSUME NEW n \in Int
  PROVE  SeqnumOf(n + MAX_RELIABLE_WINDOW_SIZE) = SeqnumOf(n - MAX_RELIABLE_WINDOW_SIZE)
<1>. DEFINE W == MAX_RELIABLE_WINDOW_SIZE
            t == SeqnumOf(n - W)
            s == SeqnumOf(n)
<1>1. W \in Nat \ {0} /\ n - W \in Int /\ n - W + W = n  BY ModulusIsTwoWindows
<1>2. t \in Seqnums /\ s \in Seqnums  BY <1>1, SeqnumOfType
<1>3. s = Plus(t, W) /\ SeqnumOf(n + W) = Plus(s, W)  BY <1>1, SeqnumOfPlus
<1>4. /\ Plus(t, W) = IF t < W THEN t + W ELSE t - W
      /\ Plus(s, W) = IF s < W THEN s + W ELSE s - W
  BY <1>2, WindowEnd
<1>. HIDE DEF W, t, s
<1>5. Plus(s, W) = t
  <2>1. t \in Int /\ t >= 0 /\ t < 2 * W  BY <1>2, ModulusIsTwoWindows DEF Seqnums, W
  <2>. QED  BY <1>1, <1>3, <1>4, <2>1
<1>. QED  BY <1>3, <1>5 DEF W, t, s

\* What getOutgoingSequenceNumber lets through is within reach.
LEMMA NumbersWithinReach ==
  ASSUME NEW low \in Nat, NEW next \in Nat, low < next, next - low <= Span + MaxChunks,
         m_window_size \in MIN_WINDOW..MAX_WINDOW,
         outgoing_reliables_sent # <<>>, outgoing_reliables_sent[1].seq = SeqnumOf(low),
         HaveSeqnum(SeqnumOf(next))
  PROVE  next + 1 - low <= Span
<1>. DEFINE s == SeqnumOf(low)
            t == SeqnumOf(next)
            d == next - low
<1>1. s \in Seqnums /\ t \in Seqnums  BY SeqnumOfType
<1>2. d \in Nat /\ d < Modulus  BY Sizes, ModulusIsTwoWindows
<1>3. t - s \in {d, d + Modulus, d - Modulus}
  <2>1. next - low < Modulus /\ low - next < Modulus  BY <1>2, ModulusIsTwoWindows
  <2>. QED  BY <2>1, SeqnumOfDifference
<1>4. IF s < t THEN t - s <= m_window_size ELSE t + (SEQNUM_MAX - s) <= m_window_size
  BY DEF HaveSeqnum
<1>. HIDE DEF s, t, d
<1>5. d + 1 <= MAX_WINDOW + 2
  BY <1>1, <1>2, <1>3, <1>4, Sizes, ModulusIsTwoWindows DEF Seqnums
<1>. QED  BY <1>5, Sizes DEF d

\* Numbering a command appends its packets to the stream and to the queue.
LEMMA NumberStep ==
  ASSUME SenderInv, BufferInv, taken' \in taken..MaxCommands,
         NEW c \in [id : 1..taken', chunks : 1..MaxChunks],
         Len(queued_reliables) + c.chunks < Span,
         CanNumber(c), Number(c), UNCHANGED outgoing_reliables_sent
  PROVE  /\ stream' \in Seq(Chunk')
         /\ queued_reliables' \in Seq([seq : Seqnums, num : Nat])
         /\ NSent' = NSent
         /\ Len(queued_reliables') <= Len(stream') /\ Len(queued_reliables') < Span
         /\ \A k \in 1..Len(queued_reliables') : queued_reliables'[k] = Packet(NSent + k - 1)
         /\ next_outgoing_seqnum' = SeqnumOf(Len(stream'))
         /\ \A i \in 1..Len(stream) : stream'[i] = stream[i]
         /\ WithinReach'
<1>. DEFINE m == c.chunks
            f == [k \in 1..m |-> [id |-> c.id, chunk |-> k, chunks |-> m]]
            g == [k \in 1..m |-> [seq |-> Plus(next_outgoing_seqnum, k - 1), num |-> Len(stream) + k - 1]]
            P == [seq : Seqnums, num : Nat]
            N == Len(stream)
            Q == Len(queued_reliables)
<1>1. m \in 1..MaxChunks /\ m \in Nat /\ c.id \in 1..taken' /\ taken' \in Nat  BY Sizes DEF SenderInv
<1>2. N \in Nat /\ Q \in Nat /\ Q <= N  BY Lengths DEF SenderInv
<1>3. stream \in Seq(Chunk')
  <2>1. Chunk \subseteq Chunk'  BY Sizes DEF SenderInv, Chunk
  <2>. QED  BY <2>1, SeqMonotonic DEF SenderInv
<1>4. f \in Seq(Chunk') /\ Len(f) = m
  <2>1. \A k \in 1..m : [id |-> c.id, chunk |-> k, chunks |-> m] \in Chunk'  BY <1>1, Sizes DEF Chunk
  <2>. HIDE DEF m, Chunk
  <2>. QED  BY <1>1, <2>1
<1>5. \A k \in 1..m : g[k] = Packet(N + k - 1) /\ g[k] \in P
  <2>1. TAKE k \in 1..m
  <2>2. k - 1 \in Int /\ N + (k - 1) = N + k - 1 /\ N + k - 1 \in Nat  BY <1>1, <1>2
  <2>3. Plus(next_outgoing_seqnum, k - 1) = SeqnumOf(N + k - 1)
    BY <1>2, <2>2, SeqnumOfPlus DEF SenderInv
  <2>4. SeqnumOf(N + k - 1) \in Seqnums  BY <2>2, SeqnumOfType
  <2>. QED  BY <2>1, <2>2, <2>3, <2>4 DEF Packet
<1>6. g \in Seq(P) /\ Len(g) = m
  <2>1. \A k \in 1..m : [seq |-> Plus(next_outgoing_seqnum, k - 1), num |-> Len(stream) + k - 1] \in P
    BY <1>5
  <2>. HIDE DEF m, P, N
  <2>. QED  BY <1>1, <2>1
<1>7. stream' = stream \o f /\ queued_reliables' = queued_reliables \o g
  BY DEF Number
<1>8. next_outgoing_seqnum' = Plus(next_outgoing_seqnum, m)  BY DEF Number
<1>. HIDE DEF f, g, m
<1>9. /\ stream' \in Seq(Chunk') /\ Len(stream') = N + m
      /\ \A i \in 1..N : stream'[i] = stream[i]
  <2>. DEFINE T == Chunk'
  <2>1. stream \in Seq(T) /\ f \in Seq(T)  BY <1>3, <1>4
  <2>. HIDE DEF T
  <2>2. /\ stream \o f \in Seq(T) /\ Len(stream \o f) = N + m
        /\ \A i \in 1..N : (stream \o f)[i] = stream[i]
    <3>1. /\ stream \o f \in Seq(T) /\ Len(stream \o f) = N + m
          /\ \A i \in 1..N + m : (stream \o f)[i] = IF i <= N THEN stream[i] ELSE f[i - N]
      BY <2>1, <1>4, ConcatProperties
    <3>2. \A i \in 1..N : i \in 1..N + m /\ i <= N  BY <1>1, <1>2
    <3>. QED  BY <3>1, <3>2
  <2>. QED  BY <1>7, <2>2 DEF T
<1>10. /\ queued_reliables' \in Seq(P) /\ Len(queued_reliables') = Q + m
       /\ \A k \in 1..Q + m :
            queued_reliables'[k] = IF k <= Q THEN queued_reliables[k] ELSE g[k - Q]
  <2>1. queued_reliables \in Seq(P)  BY DEF SenderInv
  <2>. HIDE DEF P
  <2>. QED  BY <1>6, <1>7, <2>1, ConcatProperties
<1>11. NSent' = NSent /\ NSent = N - Q /\ NSent' = Len(stream') - Len(queued_reliables')
  BY <1>1, <1>2, <1>9, <1>10 DEF NSent
<1>12. \A k \in 1..Len(queued_reliables') : queued_reliables'[k] = Packet(NSent + k - 1)
  <2>1. TAKE k \in 1..Len(queued_reliables')
  <2>2. k \in 1..Q + m  BY <1>10
  <2>3. CASE k <= Q
    <3>1. k \in 1..Q  BY <1>1, <1>2, <2>2, <2>3
    <3>. QED  BY <2>2, <2>3, <3>1, <1>10 DEF SenderInv
  <2>4. CASE ~(k <= Q)
    <3>1. k - Q \in 1..m /\ N + (k - Q) - 1 = NSent + k - 1  BY <1>1, <1>2, <1>11, <2>2, <2>4
    <3>2. queued_reliables'[k] = g[k - Q]  BY <2>2, <2>4, <1>10
    <3>. QED  BY <3>1, <3>2, <1>5
  <2>. QED  BY <2>3, <2>4
<1>13. next_outgoing_seqnum' = SeqnumOf(Len(stream'))
  <2>1. next_outgoing_seqnum = SeqnumOf(N)  BY DEF SenderInv
  <2>2. Plus(SeqnumOf(N), m) = SeqnumOf(N + m)  BY <1>1, <1>2, SeqnumOfPlus
  <2>. QED  BY <1>8, <1>9, <2>1, <2>2
<1>14. WithinReach'
  <2>. SUFFICES ASSUME outgoing_reliables_sent' # <<>>
                PROVE  Len(stream') - outgoing_reliables_sent'[1].num <= Span
    BY DEF WithinReach
  <2>1. outgoing_reliables_sent # <<>>  OBVIOUS
  <2>. DEFINE low == outgoing_reliables_sent[1].num
              next == N + m - 1
  <2>2. outgoing_reliables_sent[1] \in Sent(NSent) /\ NSent \in Int
    BY <2>1, <1>2, <1>11, EmptySeq, ElementOfSeq DEF BufferInv
  <2>3. low \in Nat /\ low < N /\ outgoing_reliables_sent[1].seq = SeqnumOf(low)
    BY <2>2, <1>2, <1>11, SentPacket
  <2>4. N - low <= Span  BY <2>1 DEF BufferInv, WithinReach
  <2>5. next \in Nat /\ low < next + 1 /\ m - 1 \in 0..m - 1 /\ N + (m - 1) = next  BY <1>1, <1>2, <2>3
  <2>6. Plus(next_outgoing_seqnum, m - 1) = SeqnumOf(next)
    BY <1>1, <1>2, <2>5, SeqnumOfPlus DEF SenderInv
  <2>7. HaveSeqnum(SeqnumOf(next))
    <3>1. \A k \in 0..m - 1 : HaveSeqnum(Plus(next_outgoing_seqnum, k))  BY DEF CanNumber, m
    <3>. QED  BY <2>5, <2>6, <3>1
  <2>8. ASSUME low < next PROVE N + m - low <= Span
    <3>1. next - low <= Span + MaxChunks
      <4>1. Span \in Nat /\ MaxChunks \in Nat  BY Sizes
      <4>. HIDE DEF low, N
      <4>. QED  BY <4>1, <1>1, <1>2, <2>3, <2>4
    <3>2. m_window_size \in MIN_WINDOW..MAX_WINDOW  BY DEF SenderInv
    <3>3. next + 1 - low <= Span
      <4>. HIDE DEF low, next
      <4>. QED  BY <2>1, <2>3, <2>5, <2>7, <2>8, <3>1, <3>2, NumbersWithinReach DEF low
    <3>. HIDE DEF low, N
    <3>. QED  BY <1>1, <1>2, <2>3, <3>3
  <2>9. ASSUME ~(low < next) PROVE N + m - low <= Span
    <3>1. N + m - low <= 1  BY <1>1, <1>2, <2>3, <2>5, <2>9
    <3>2. Span \in Nat /\ Span >= 1  BY Sizes
    <3>. HIDE DEF low, N
    <3>. QED  BY <3>1, <3>2, <1>1, <1>2, <2>3
  <2>10. N + m - low <= Span  BY <2>8, <2>9
  <2>11. outgoing_reliables_sent'[1].num = low /\ Len(stream') = N + m  BY <1>9
  <2>12. N \in Int /\ m \in Int /\ low \in Int  BY <1>1, <1>2, <2>3
  <2>. HIDE DEF low, N
  <2>. QED  BY <2>10, <2>11, <2>12
<1>. QED  BY <1>1, <1>2, <1>9, <1>10, <1>11, <1>12, <1>13, <1>14 DEF m

-----------------------------------------------------------------------------
(* What a step leaves alone *)

LEMMA ReceiverKept ==
  ASSUME ReceiverInv, UNCHANGED receiver, NSent \in Nat, NSent' \in Nat, NSent <= NSent',
         taken \in Nat, taken' \in Nat, taken <= taken'
  PROVE  ReceiverInv'
<1>1. Sent(NSent) \subseteq Sent(NSent')  BY SentGrows
<1>2. /\ handed' = handed /\ next_incoming_seqnum' = next_incoming_seqnum
      /\ incoming_reliables' = incoming_reliables
      /\ delivered' = delivered /\ incoming_splits' = incoming_splits
  BY DEF receiver
<1>3. incoming_reliables' \in Seq(Sent(NSent'))
  BY <1>1, <1>2, SeqMonotonic DEF ReceiverInv
<1>4. delivered' \in Seq(1..taken')
  <2>1. 1..taken \subseteq 1..taken'  OBVIOUS
  <2>. QED  BY <1>2, <2>1, SeqMonotonic DEF ReceiverInv
<1>5. incoming_splits' \subseteq (1..taken') \X (1..MaxChunks)  BY <1>2 DEF ReceiverInv
<1>6. Len(handed') \in Nat /\ Len(handed') <= NSent'  BY <1>2, LenProperties DEF ReceiverInv
<1>. QED  BY <1>2, <1>3, <1>4, <1>5, <1>6 DEF ReceiverInv, InOrder, Sorted

LEMMA AckKept ==
  ASSUME AckInv, NSent' = NSent,
         UNCHANGED <<acks, handed, incoming_reliables, outgoing_reliables_sent>>
  PROVE  AckInv'
<1>1. NSent = Len(stream) - Len(queued_reliables) /\ NSent' = Len(stream') - Len(queued_reliables')
  BY DEF NSent
<1>2. NothingLost'
  <2>1. SUFFICES ASSUME NEW num \in 0..NSent - 1
                 PROVE  Arrived(num)' \/ \E p \in ToSet(outgoing_reliables_sent') : p.num = num
    BY <1>1 DEF NothingLost
  <2>2. Arrived(num) \/ \E p \in ToSet(outgoing_reliables_sent) : p.num = num
    BY <1>1 DEF AckInv, NothingLost
  <2>. QED  BY <2>2 DEF Arrived
<1>. QED  BY <1>2 DEF AckInv, Arrived

LEMMA BufferKept ==
  ASSUME BufferInv, UNCHANGED <<outgoing_reliables_sent, wire>>, NSent' = NSent, WithinReach'
  PROVE  BufferInv'
  BY DEF BufferInv, Sorted

-----------------------------------------------------------------------------
(* The initial states and the steps *)

LEMMA InitInv == ASSUME Init PROVE IInv
<1>. USE DEF Init
<1>1. Len(stream) = 0 /\ Len(queued_reliables) = 0 /\ Len(handed) = 0 /\ NSent = 0
  BY DEF NSent
<1>2. SeqnumOf(0) = SEQNUM_INITIAL
  <2>1. SEQNUM_INITIAL \in 0..Modulus - 1 /\ Modulus \in Nat \ {0}
    BY ChannelAssumption, ModulusIsTwoWindows DEF Seqnums
  <2>2. SEQNUM_INITIAL % Modulus = SEQNUM_INITIAL
    <3>. HIDE DEF Modulus
    <3>. QED  BY <2>1
  <2>. QED  BY <2>1, <2>2 DEF SeqnumOf, Plus
<1>3. SenderInv
  <2>1. m_window_size \in MIN_WINDOW..MAX_WINDOW /\ taken \in 0..MaxCommands /\ 0 < Span  BY Sizes
  <2>. QED  BY <1>1, <1>2, <2>1 DEF SenderInv
<1>4. BufferInv  BY <1>1 DEF BufferInv, Sorted, WithinReach
<1>5. ReceiverInv  BY <1>1, <1>2 DEF ReceiverInv, Sorted, InOrder
<1>6. AckInv
  <2>1. NothingLost  BY <1>1 DEF NothingLost, NSent
  <2>. QED  BY <2>1 DEF AckInv
<1>. QED  BY <1>3, <1>4, <1>5, <1>6 DEF IInv

LEMMA PutStep ==
  ASSUME IInv, NEW chunks \in 1..MaxChunks, PutReliableSendCommand(chunks) PROVE IInv'
<1>. DEFINE c == [id |-> taken + 1, chunks |-> chunks]
<1>. USE DEF IInv
<1>1. /\ taken \in Nat /\ taken' = taken + 1 /\ taken' \in 0..MaxCommands
      /\ taken' \in taken..MaxCommands /\ taken <= taken' /\ taken' \in Nat
  BY Sizes DEF SenderInv, PutReliableSendCommand
<1>2. c \in [id : 1..taken', chunks : 1..MaxChunks]  BY <1>1
<1>3. /\ m_window_size' = m_window_size /\ UNCHANGED <<outgoing_reliables_sent, wire>>
      /\ UNCHANGED <<acks, handed, incoming_reliables, outgoing_reliables_sent>>
      /\ UNCHANGED receiver
  BY DEF PutReliableSendCommand, receiver
<1>4. \/ /\ GoesAhead /\ CanNumber(c) /\ Number(c)
         /\ UNCHANGED queued_commands
      \/ /\ queued_commands' = Append(queued_commands, c)
         /\ UNCHANGED <<queued_reliables, next_outgoing_seqnum, stream>>
  BY DEF PutReliableSendCommand
<1>. HIDE DEF c
<1>5. [id : 1..taken, chunks : 1..MaxChunks] \subseteq [id : 1..taken', chunks : 1..MaxChunks]
  BY <1>1
<1>6. queued_commands \in Seq([id : 1..taken', chunks : 1..MaxChunks])
  BY <1>5, SeqMonotonic DEF SenderInv
<1>7. NSent \in Nat /\ Len(queued_reliables) \in Nat  BY Lengths
<1>8. CASE GoesAhead /\ CanNumber(c) /\ Number(c) /\ UNCHANGED queued_commands
  <2>1. Len(queued_reliables) + c.chunks < Span
    <3>1. Len(queued_reliables) + 1 < m_window_size \div 2  BY <1>8 DEF GoesAhead
    <3>2. m_window_size \in Nat /\ m_window_size <= MAX_WINDOW  BY Sizes DEF SenderInv
    <3>3. m_window_size \div 2 <= MAX_WINDOW \div 2 /\ MAX_WINDOW \div 2 \in Nat /\ m_window_size \div 2 \in Nat
      BY <3>2, Sizes
    <3>4. c.chunks <= MaxChunks /\ c.chunks \in Nat  BY <1>2, Sizes
    <3>. QED  BY <1>7, <3>1, <3>3, <3>4, Sizes
  <2>2. /\ stream' \in Seq(Chunk')
        /\ queued_reliables' \in Seq([seq : Seqnums, num : Nat])
        /\ NSent' = NSent
        /\ Len(queued_reliables') <= Len(stream') /\ Len(queued_reliables') < Span
        /\ \A k \in 1..Len(queued_reliables') : queued_reliables'[k] = Packet(NSent + k - 1)
        /\ next_outgoing_seqnum' = SeqnumOf(Len(stream'))
        /\ WithinReach'
    BY <1>1, <1>2, <1>3, <1>8, <2>1, NumberStep
  <2>3. SenderInv'  BY <1>1, <1>3, <1>6, <1>8, <2>2 DEF SenderInv
  <2>4. BufferInv'  BY <1>3, <2>2, BufferKept
  <2>5. ReceiverInv'  BY <1>1, <1>3, <1>7, <2>2, ReceiverKept
  <2>6. AckInv'  BY <1>3, <2>2, AckKept
  <2>. QED  BY <2>3, <2>4, <2>5, <2>6
<1>9. CASE /\ queued_commands' = Append(queued_commands, c)
           /\ UNCHANGED <<queued_reliables, next_outgoing_seqnum, stream>>
  <2>1. NSent' = NSent /\ WithinReach'
    BY <1>3, <1>9 DEF NSent, BufferInv, WithinReach
  <2>2. queued_commands' \in Seq([id : 1..taken', chunks : 1..MaxChunks])
    BY <1>2, <1>6, <1>9, AppendProperties
  <2>3. stream' \in Seq(Chunk')
    <3>1. Chunk \subseteq Chunk'  BY <1>1 DEF Chunk
    <3>. QED  BY <1>9, <3>1, SeqMonotonic DEF SenderInv
  <2>4. SenderInv'  BY <1>1, <1>3, <1>9, <2>1, <2>2, <2>3 DEF SenderInv
  <2>5. BufferInv'  BY <1>3, <2>1, BufferKept
  <2>6. ReceiverInv'  BY <1>1, <1>3, <1>7, <2>1, ReceiverKept
  <2>7. AckInv'  BY <1>3, <2>1, AckKept
  <2>. QED  BY <2>4, <2>5, <2>6, <2>7
<1>. QED  BY <1>4, <1>8, <1>9

LEMMA RunStep == ASSUME IInv, RunCommandQueues PROVE IInv'
<1>. DEFINE c == Head(queued_commands)
<1>. USE DEF IInv
<1>1. taken \in Nat /\ taken' = taken /\ taken' \in taken..MaxCommands /\ taken' \in 0..MaxCommands
  BY Sizes DEF SenderInv, RunCommandQueues
<1>2. /\ c \in [id : 1..taken', chunks : 1..MaxChunks]
      /\ queued_commands' \in Seq([id : 1..taken', chunks : 1..MaxChunks])
  BY <1>1, HeadTailProperties DEF SenderInv, RunCommandQueues
<1>3. /\ m_window_size' = m_window_size /\ UNCHANGED <<outgoing_reliables_sent, wire>>
      /\ UNCHANGED <<acks, handed, incoming_reliables, outgoing_reliables_sent>>
      /\ UNCHANGED receiver
  BY DEF RunCommandQueues, receiver
<1>4. Len(queued_reliables) < MAX_REQUEUED /\ CanNumber(c) /\ Number(c)  BY DEF RunCommandQueues
<1>. HIDE DEF c
<1>5. NSent \in Nat /\ Len(queued_reliables) \in Nat  BY Lengths
<1>6. Len(queued_reliables) + c.chunks < Span
  <2>1. c.chunks <= MaxChunks /\ c.chunks \in Nat  BY <1>2, Sizes
  <2>. QED  BY <1>4, <1>5, <2>1, Sizes
<1>7. /\ stream' \in Seq(Chunk')
      /\ queued_reliables' \in Seq([seq : Seqnums, num : Nat])
      /\ NSent' = NSent
      /\ Len(queued_reliables') <= Len(stream') /\ Len(queued_reliables') < Span
      /\ \A k \in 1..Len(queued_reliables') : queued_reliables'[k] = Packet(NSent + k - 1)
      /\ next_outgoing_seqnum' = SeqnumOf(Len(stream'))
      /\ WithinReach'
  BY <1>1, <1>2, <1>3, <1>4, <1>6, NumberStep
<1>8. SenderInv'  BY <1>1, <1>2, <1>3, <1>7 DEF SenderInv
<1>9. BufferInv'  BY <1>3, <1>7, BufferKept
<1>10. ReceiverInv'  BY <1>1, <1>3, <1>5, <1>7, ReceiverKept
<1>11. AckInv'  BY <1>3, <1>7, AckKept
<1>. QED  BY <1>8, <1>9, <1>10, <1>11

\* The oldest packet that waits is the first of the list.
LEMMA OldestFirst ==
  ASSUME NEW n \in Nat, NEW l \in Seq(Sent(n)), Sorted(l), NEW p \in ToSet(l)
  PROVE  l # <<>> /\ l[1] \in ToSet(l) /\ l[1].num <= p.num /\ p \in Sent(n)
<1>1. PICK i \in 1..Len(l) : p = l[i]  BY DEF ToSet
<1>2. Len(l) \in Nat /\ 1 \in 1..Len(l)  BY <1>1, LenProperties
<1>3. l[1] \in Sent(n) /\ p \in Sent(n)  BY <1>1, <1>2, ElementOfSeq
<1>4. l[1].num \in Int /\ p.num \in Int  BY <1>3, SentPacket
<1>5. i = 1 \/ l[1].num < l[i].num  BY <1>1, <1>2 DEF Sorted
<1>6. l[1] \in ToSet(l)  BY <1>2 DEF ToSet
<1>. QED  BY <1>1, <1>2, <1>3, <1>4, <1>5, <1>6

\* Every packet that waits is within reach of the next number.
LEMMA WaitingWithinReach ==
  ASSUME SenderInv, BufferInv, NEW p \in ToSet(outgoing_reliables_sent)
  PROVE  p \in Sent(NSent) /\ p.num \in 0..NSent - 1 /\ Len(stream) - p.num <= Span
<1>. DEFINE l == outgoing_reliables_sent
<1>1. NSent \in Nat /\ NSent <= Len(stream) /\ Len(stream) \in Nat  BY Lengths
<1>2. l # <<>> /\ l[1] \in ToSet(l) /\ l[1].num <= p.num /\ p \in Sent(NSent)
  BY <1>1, OldestFirst DEF BufferInv
<1>3. l[1] \in Sent(NSent)  BY <1>1, <1>2, OldestFirst DEF BufferInv
<1>4. l[1].num \in 0..NSent - 1 /\ p.num \in 0..NSent - 1  BY <1>1, <1>2, <1>3, SentPacket
<1>5. Len(stream) - l[1].num <= Span  BY <1>2 DEF BufferInv, WithinReach
<1>. HIDE DEF l
<1>. QED  BY <1>1, <1>2, <1>4, <1>5, Sizes

LEMMA SendStep == ASSUME IInv, SendQueued PROVE IInv'
<1>. DEFINE p == Head(queued_reliables)
            N == Len(stream)
            S == NSent
            out == outgoing_reliables_sent
            W == MAX_RELIABLE_WINDOW_SIZE
            e == N - W
<1>. USE DEF IInv
<1>1. /\ queued_reliables # <<>>
      /\ out' = Insert(out, p, Plus(next_outgoing_seqnum, W))
      /\ wire' = wire \cup {p} /\ queued_reliables' = Tail(queued_reliables)
      /\ UNCHANGED <<taken, queued_commands, next_outgoing_seqnum, stream, m_window_size, acks>>
      /\ UNCHANGED receiver
      /\ handed' = handed /\ incoming_reliables' = incoming_reliables
  BY DEF SendQueued, receiver
<1>2. /\ N \in Nat /\ S \in Nat /\ S <= N /\ N - S < Span /\ S = N - Len(queued_reliables)
      /\ Len(queued_reliables) \in Nat
  BY Lengths DEF NSent
<1>3. /\ Len(queued_reliables) > 0
      /\ Len(queued_reliables') = Len(queued_reliables) - 1
      /\ queued_reliables' \in Seq([seq : Seqnums, num : Nat])
      /\ \A k \in 1..Len(queued_reliables') : queued_reliables'[k] = queued_reliables[k + 1]
      /\ p = queued_reliables[1]
  BY <1>1, HeadTailProperties, EmptySeq DEF SenderInv
<1>4. p = Packet(S)
  <2>1. 1 \in 1..Len(queued_reliables) /\ S + 1 - 1 = S  BY <1>2, <1>3
  <2>2. queued_reliables[1] = Packet(S + 1 - 1)  BY <2>1 DEF SenderInv
  <2>. QED  BY <2>1, <2>2, <1>3
<1>5. NSent' = S + 1 /\ S + 1 <= N  BY <1>1, <1>2, <1>3 DEF NSent
<1>6. p \in Sent(S + 1) /\ p.num = S /\ Sent(S) \subseteq Sent(S + 1)
  BY <1>2, <1>4, SentGrows DEF Sent, Packet
<1>7. W \in Nat /\ W > 0 /\ Span <= W /\ Span \in Nat  BY ModulusIsTwoWindows, Sizes
<1>8. Plus(next_outgoing_seqnum, W) = SeqnumOf(e)
  <2>1. next_outgoing_seqnum = SeqnumOf(N)  BY DEF SenderInv
  <2>2. Plus(SeqnumOf(N), W) = SeqnumOf(N + W)  BY <1>2, <1>7, SeqnumOfPlus
  <2>. QED  BY <1>2, <2>1, <2>2, HalfTurn
<1>9. e \in Int /\ p.num \in e + 1..e + W - 1  BY <1>2, <1>5, <1>6, <1>7
<1>10. out \in Seq(Sent(S + 1)) /\ Sorted(out)  BY <1>6, SeqMonotonic DEF BufferInv
<1>11. \A i \in 1..Len(out) : out[i] \in ToSet(out)  BY DEF ToSet
<1>12. \A i \in 1..Len(out) : out[i].num \in e..e + W - 1
  <2>1. TAKE i \in 1..Len(out)
  <2>2. out[i].num \in 0..S - 1 /\ N - out[i].num <= Span  BY <1>11, WaitingWithinReach
  <2>. HIDE DEF N, W
  <2>. QED  BY <1>2, <1>7, <2>2
<1>13. out' \in Seq(Sent(S + 1)) /\ Sorted(out)' /\ ToSet(out') = ToSet(out) \cup {p}
  <2>. DEFINE r == Insert(out, p, SeqnumOf(e))
              n == S + 1
  <2>0. n \in Nat /\ out \in Seq(Sent(n)) /\ p \in Sent(n)  BY <1>2, <1>6, <1>10
  <2>. HIDE DEF e, p, n
  <2>1. r \in Seq(Sent(n)) /\ Sorted(r) /\ ToSet(r) = ToSet(out) \cup {p}
    BY <2>0, <1>9, <1>10, <1>12, InsertSorted
  <2>2. out' = r  BY <1>1, <1>8
  <2>. QED  BY <2>1, <2>2 DEF Sorted, n
<1>14. SenderInv'
  <2>1. \A k \in 1..Len(queued_reliables') : queued_reliables'[k] = Packet(S + 1 + k - 1)
    <3>1. TAKE k \in 1..Len(queued_reliables')
    <3>2. k + 1 \in 1..Len(queued_reliables) /\ S + (k + 1) - 1 = S + 1 + k - 1  BY <1>2, <1>3
    <3>. QED  BY <3>1, <3>2, <1>3 DEF SenderInv
  <2>2. Len(queued_reliables') <= N /\ Len(queued_reliables') < Span  BY <1>2, <1>3, <1>7 DEF SenderInv
  <2>3. stream' \in Seq(Chunk')  BY <1>1 DEF SenderInv, Chunk
  <2>. QED  BY <1>1, <1>3, <1>5, <2>1, <2>2, <2>3 DEF SenderInv
<1>15. WithinReach'
  <2>. SUFFICES ASSUME out' # <<>> PROVE Len(stream') - out'[1].num <= Span
    BY DEF WithinReach
  <2>1. out'[1] \in ToSet(out')
    <3>1. 1 \in 1..Len(out')  BY <1>13, EmptySeq
    <3>. QED  BY <3>1 DEF ToSet
  <2>2. CASE out'[1] \in ToSet(out)
    <3>1. N - out'[1].num <= Span  BY <2>2, WaitingWithinReach
    <3>. QED  BY <3>1, <1>1
  <2>3. CASE out'[1] = p  BY <2>3, <1>1, <1>2, <1>6, <1>7
  <2>. QED  BY <2>1, <2>2, <2>3, <1>13
<1>16. BufferInv'
  <2>1. wire' \subseteq Sent(S + 1)  BY <1>1, <1>6 DEF BufferInv
  <2>. QED  BY <1>5, <1>13, <1>15, <2>1 DEF BufferInv
<1>17. ReceiverInv'
  <2>1. taken \in Nat /\ taken' = taken  BY <1>1, Sizes DEF SenderInv
  <2>. QED  BY <1>1, <1>2, <1>5, <2>1, ReceiverKept
<1>18. AckInv'
  <2>1. NothingLost'
    <3>1. SUFFICES ASSUME NEW num \in 0..S
                   PROVE  Arrived(num)' \/ \E q \in ToSet(out') : q.num = num
      <4>1. Len(stream') - Len(queued_reliables') - 1 = S  BY <1>1, <1>2, <1>3
      <4>. QED  BY <4>1 DEF NothingLost
    <3>2. CASE num = S  BY <3>2, <1>6, <1>13
    <3>3. CASE num # S
      <4>1. num \in 0..Len(stream) - Len(queued_reliables) - 1  BY <3>3, <1>2
      <4>2. Arrived(num) \/ \E q \in ToSet(out) : q.num = num  BY <4>1 DEF AckInv, NothingLost
      <4>3. Arrived(num) => Arrived(num)'  BY <1>1 DEF Arrived
      <4>. QED  BY <4>2, <4>3, <1>13
    <3>. QED  BY <3>2, <3>3
  <2>2. \A q \in acks' : Arrived(q.num)'  BY <1>1 DEF AckInv, Arrived
  <2>3. acks' \subseteq Sent(NSent')  BY <1>1, <1>5, <1>6 DEF AckInv
  <2>. QED  BY <2>1, <2>2, <2>3 DEF AckInv
<1>. QED  BY <1>14, <1>16, <1>17, <1>18

\* Steps of which the sender sees no more than a window or a datagram.
LEMMA SenderKept ==
  ASSUME SenderInv, UNCHANGED queues, m_window_size' \in MIN_WINDOW..MAX_WINDOW
  PROVE  SenderInv' /\ NSent' = NSent /\ NSent \in Nat /\ taken \in Nat /\ taken' = taken /\ stream' = stream
<1>1. /\ taken' = taken /\ queued_commands' = queued_commands /\ queued_reliables' = queued_reliables
      /\ next_outgoing_seqnum' = next_outgoing_seqnum /\ stream' = stream
  BY DEF queues
<1>2. NSent' = NSent  BY <1>1 DEF NSent
<1>3. stream' \in Seq(Chunk')  BY <1>1 DEF SenderInv, Chunk
<1>. QED  BY <1>1, <1>2, <1>3, Lengths, Sizes DEF SenderInv

LEMMA ResendStep ==
  ASSUME IInv, NEW p, Resend(p) PROVE IInv'
<1>. USE DEF IInv
<1>1. /\ UNCHANGED <<queues, outgoing_reliables_sent, m_window_size, receiver, acks>>
      /\ UNCHANGED <<acks, handed, incoming_reliables, outgoing_reliables_sent>>
      /\ p \in ToSet(outgoing_reliables_sent) /\ wire' = wire \cup {p}
  BY DEF Resend, sender, receiver
<1>2. SenderInv' /\ NSent' = NSent /\ NSent \in Nat /\ taken \in Nat /\ taken' = taken /\ stream' = stream
  BY <1>1, SenderKept DEF SenderInv
<1>3. p \in Sent(NSent)  BY <1>1, WaitingWithinReach
<1>4. BufferInv'  BY <1>1, <1>2, <1>3 DEF BufferInv, Sorted, WithinReach
<1>5. ReceiverInv'  BY <1>1, <1>2, ReceiverKept
<1>6. AckInv'  BY <1>1, <1>2, AckKept
<1>. QED  BY <1>2, <1>4, <1>5, <1>6

LEMMA TimersStep == ASSUME IInv, UpdateTimers PROVE IInv'
<1>. USE DEF IInv
<1>1. /\ UNCHANGED <<queues, outgoing_reliables_sent, wire, receiver>>
      /\ UNCHANGED <<acks, handed, incoming_reliables, outgoing_reliables_sent>>
  BY DEF UpdateTimers, receiver
<1>2. m_window_size' \in MIN_WINDOW..MAX_WINDOW
  <2>1. \A d \in Int : rangelim(d) \in MIN_WINDOW..MAX_WINDOW  BY Sizes DEF rangelim
  <2>2. m_window_size + WINDOW_STEP \in Int /\ m_window_size - WINDOW_STEP \in Int
    BY Sizes DEF SenderInv
  <2>. QED  BY <2>1, <2>2 DEF UpdateTimers
<1>3. SenderInv' /\ NSent' = NSent /\ NSent \in Nat /\ taken \in Nat /\ taken' = taken /\ stream' = stream
  BY <1>1, <1>2, SenderKept
<1>4. BufferInv'  BY <1>1, <1>3 DEF BufferInv, Sorted, WithinReach
<1>5. ReceiverInv'  BY <1>1, <1>3, ReceiverKept
<1>6. AckInv'  BY <1>1, <1>3, AckKept
<1>. QED  BY <1>3, <1>4, <1>5, <1>6

LEMMA LoseStep == ASSUME IInv, Lose PROVE IInv'
<1>. USE DEF IInv
<1>1. /\ UNCHANGED <<queues, outgoing_reliables_sent, m_window_size, receiver>>
      /\ handed' = handed /\ incoming_reliables' = incoming_reliables
      /\ outgoing_reliables_sent' = outgoing_reliables_sent
      /\ wire' \subseteq wire /\ acks' \subseteq acks
  BY DEF Lose, sender, receiver
<1>2. SenderInv' /\ NSent' = NSent /\ NSent \in Nat /\ taken \in Nat /\ taken' = taken /\ stream' = stream
  BY <1>1, SenderKept DEF SenderInv
<1>3. BufferInv'  BY <1>1, <1>2 DEF BufferInv, Sorted, WithinReach
<1>4. ReceiverInv'  BY <1>1, <1>2, ReceiverKept
<1>5. NothingLost'
  <2>1. queued_reliables' = queued_reliables  BY <1>1 DEF queues
  <2>. QED  BY <1>1, <1>2, <2>1 DEF AckInv, NothingLost, Arrived
<1>6. AckInv'  BY <1>1, <1>2, <1>5 DEF AckInv, Arrived
<1>. QED  BY <1>2, <1>3, <1>4, <1>6

LEMMA AckStep == ASSUME IInv, NEW p, ReceiveAck(p) PROVE IInv'
<1>. DEFINE out == outgoing_reliables_sent
            N == Len(stream)
            S == NSent
<1>. USE DEF IInv
<1>1. /\ UNCHANGED <<queues, m_window_size, wire, acks, receiver>>
      /\ handed' = handed /\ incoming_reliables' = incoming_reliables
      /\ p \in acks /\ ~Expired(p)
      /\ Numbered(out, p.seq) # {} /\ out' = Pop(out, p.seq)
  BY DEF ReceiveAck, receiver
<1>2. SenderInv' /\ NSent' = S /\ S \in Nat /\ taken \in Nat /\ taken' = taken /\ stream' = stream
  BY <1>1, SenderKept DEF SenderInv
<1>3. N \in Nat /\ S <= N  BY Lengths
<1>4. out' \in Seq(Sent(S)) /\ Sorted(out)' /\ \E q \in ToSet(out) : q.seq = p.seq /\ ToSet(out') = ToSet(out) \ {q}
  <2>. DEFINE r == Pop(out, p.seq)
  <2>1. out \in Seq(Sent(S)) /\ Sorted(out)  BY DEF BufferInv
  <2>2. r \in Seq(Sent(S)) /\ Sorted(r) /\ \E q \in ToSet(out) : q.seq = p.seq /\ ToSet(r) = ToSet(out) \ {q}
    BY <1>1, <1>2, <2>1, PopProperties
  <2>. QED  BY <1>1, <2>2 DEF Sorted
<1>5. PICK q \in ToSet(out) : q.seq = p.seq /\ ToSet(out') = ToSet(out) \ {q}  BY <1>4
<1>6. q.num = p.num
  <2>1. q \in Sent(S) /\ q.num \in 0..S - 1 /\ N - q.num <= Span  BY WaitingWithinReach
  <2>2. p \in Sent(S)  BY <1>1 DEF AckInv
  <2>3. p.num \in 0..S - 1 /\ p.seq = SeqnumOf(p.num)  BY <1>2, <2>2, SentPacket
  <2>4. q.seq = SeqnumOf(q.num)  BY <1>2, <2>1, SentPacket
  <2>5. N - p.num <= MAX_RELIABLE_WINDOW_SIZE
    <3>1. N - p.num <= Span \/ N - p.num <= Lifetime
      BY <1>1, <1>3, <2>3, Sizes, WaitingWithinReach DEF Expired
    <3>. QED  BY <1>2, <1>3, <2>3, <3>1, Sizes, ModulusIsTwoWindows
  <2>6. q.num - p.num < Modulus /\ p.num - q.num < Modulus
    <3>. HIDE DEF N, S
    <3>. QED  BY <1>2, <1>3, <2>1, <2>3, <2>5, Sizes, ModulusIsTwoWindows
  <2>. QED  BY <1>5, <2>1, <2>3, <2>4, <2>6, SeqnumOfInjective
<1>7. WithinReach'
  <2>. SUFFICES ASSUME out' # <<>> PROVE Len(stream') - out'[1].num <= Span
    BY DEF WithinReach
  <2>1. 1 \in 1..Len(out')  BY <1>4, EmptySeq
  <2>2. out'[1] \in ToSet(out)  BY <2>1, <1>5 DEF ToSet
  <2>. QED  BY <1>2, <2>2, WaitingWithinReach
<1>8. BufferInv'  BY <1>1, <1>2, <1>4, <1>7 DEF BufferInv
<1>9. ReceiverInv'  BY <1>1, <1>2, ReceiverKept
<1>10. NothingLost'
  <2>1. queued_reliables' = queued_reliables  BY <1>1 DEF queues
  <2>2. SUFFICES ASSUME NEW num \in 0..Len(stream) - Len(queued_reliables) - 1
                 PROVE  Arrived(num)' \/ \E a \in ToSet(out') : a.num = num
    BY <1>2, <2>1 DEF NothingLost
  <2>3. Arrived(num) => Arrived(num)'  BY <1>1 DEF Arrived
  <2>4. Arrived(p.num)  BY <1>1 DEF AckInv
  <2>5. Arrived(num) \/ \E a \in ToSet(out) : a.num = num  BY DEF AckInv, NothingLost
  <2>6. CASE num = p.num  BY <2>3, <2>4, <2>6
  <2>7. CASE num # p.num  BY <2>3, <2>5, <2>7, <1>5, <1>6
  <2>. QED  BY <2>6, <2>7
<1>11. AckInv'  BY <1>1, <1>2, <1>10 DEF AckInv, Arrived
<1>. QED  BY <1>2, <1>8, <1>9, <1>11

\* Taking the packet that is due.
LEMMA ProcessStep ==
  ASSUME SenderInv, ReceiverInv, UNCHANGED <<taken, stream>>,
         NEW p \in Sent(NSent), p.num = Len(handed), Process(p)
  PROVE  /\ handed' \in Seq(Nat) /\ Len(handed') = Len(handed) + 1
         /\ Len(handed) + 1 <= NSent
         /\ InOrder'
         /\ next_incoming_seqnum' = SeqnumOf(Len(handed'))
         /\ delivered' \in Seq(1..taken')
         /\ incoming_splits' \subseteq (1..taken') \X (1..MaxChunks)
<1>. DEFINE R == Len(handed)
            d == stream[p.num + 1]
<1>1. NSent \in Nat /\ NSent <= Len(stream) /\ Len(stream) \in Nat  BY Lengths
<1>2. R \in Nat /\ p.num \in 0..NSent - 1 /\ R + 1 <= NSent
  BY <1>1, SentPacket, LenProperties DEF ReceiverInv
<1>3. handed' = Append(handed, p.num) /\ handed \in Seq(Nat) /\ p.num \in Nat
  BY <1>2 DEF Process, ReceiverInv
<1>4. /\ handed' \in Seq(Nat) /\ Len(handed') = R + 1
      /\ \A i \in 1..R : handed'[i] = handed[i]
      /\ handed'[R + 1] = p.num
  BY <1>3, AppendProperties
<1>5. InOrder'
  <2>1. \A i \in 1..R : handed[i] = i - 1  BY <1>3 DEF ReceiverInv, InOrder
  <2>2. DOMAIN handed' = 1..R + 1  BY <1>4, LenProperties
  <2>3. ASSUME NEW i \in 1..R + 1 PROVE handed'[i] = i - 1
    <3>1. CASE i \in 1..R  BY <3>1, <1>4, <2>1
    <3>2. CASE i = R + 1  BY <3>2, <1>2, <1>4
    <3>. QED  BY <3>1, <3>2, <1>2
  <2>. QED  BY <2>2, <2>3 DEF InOrder
<1>6. next_incoming_seqnum' = SeqnumOf(Len(handed'))
  <2>1. next_incoming_seqnum' = Plus(SeqnumOf(R), 1)  BY DEF Process, ReceiverInv
  <2>2. Plus(SeqnumOf(R), 1) = SeqnumOf(R + 1)  BY <1>2, SeqnumOfPlus
  <2>. QED  BY <1>4, <2>1, <2>2
<1>7. d \in Chunk
  <2>1. p.num + 1 \in 1..Len(stream)  BY <1>1, <1>2
  <2>. QED  BY <2>1, ElementOfSeq DEF SenderInv
<1>8. taken' = taken /\ d.id \in 1..taken /\ d.chunk \in 1..MaxChunks
  BY <1>7 DEF Chunk
<1>9. Reassemble(d)  BY DEF Process
<1>. HIDE DEF d
<1>10. delivered' \in Seq(1..taken')
  <2>1. delivered \in Seq(1..taken)  BY DEF ReceiverInv
  <2>2. delivered' = delivered \/ delivered' = Append(delivered, d.id)  BY <1>9 DEF Reassemble
  <2>. DEFINE T == 1..taken
  <2>3. delivered \in Seq(T) /\ d.id \in T  BY <1>8, <2>1
  <2>. HIDE DEF T
  <2>4. Append(delivered, d.id) \in Seq(T)  BY <2>3, AppendProperties
  <2>5. delivered' \in Seq(T)  BY <2>2, <2>3, <2>4
  <2>. QED  BY <1>8, <2>5 DEF T
<1>11. incoming_splits' \subseteq incoming_splits \cup {<<d.id, d.chunk>>}
  BY <1>9 DEF Reassemble
<1>12. incoming_splits' \subseteq (1..taken') \X (1..MaxChunks)
  BY <1>8, <1>11 DEF ReceiverInv
<1>. QED  BY <1>2, <1>4, <1>5, <1>6, <1>10, <1>12

\* The first packet that came early, when it carries the number due, is the one due.
LEMMA BufferedDue ==
  ASSUME SenderInv, ReceiverInv, NEW i \in 1..Len(incoming_reliables)
  PROVE  /\ incoming_reliables[i] \in Sent(NSent)
         /\ incoming_reliables[i].num \in 0..NSent - 1
         /\ incoming_reliables[i].num >= Len(handed)
         /\ incoming_reliables[i].seq = next_incoming_seqnum <=> incoming_reliables[i].num = Len(handed)
<1>. DEFINE q == incoming_reliables[i]
            R == Len(handed)
<1>1. NSent \in Nat /\ R \in Nat  BY Lengths, LenProperties DEF ReceiverInv
<1>2. q \in Sent(NSent)  BY ElementOfSeq DEF ReceiverInv
<1>3. q.num \in 0..NSent - 1 /\ q.seq = SeqnumOf(q.num)  BY <1>1, <1>2, SentPacket
<1>4. q.num \in R..R + MAX_RELIABLE_WINDOW_SIZE - 1  BY DEF ReceiverInv
<1>5. next_incoming_seqnum = SeqnumOf(R)  BY DEF ReceiverInv
<1>6. q.num - R < Modulus /\ R - q.num < Modulus  BY <1>1, <1>3, <1>4, ModulusIsTwoWindows
<1>. HIDE DEF q, R
<1>7. q.seq = next_incoming_seqnum <=> q.num = R  BY <1>1, <1>3, <1>5, <1>6, SeqnumOfInjective
<1>. QED  BY <1>1, <1>2, <1>3, <1>4, <1>7 DEF q, R

LEMMA UnbufferStep == ASSUME IInv, Unbuffer PROVE IInv'
<1>. DEFINE inc == incoming_reliables
            p == inc[1]
            S == NSent
            R == Len(handed)
<1>. USE DEF IInv
<1>1. /\ UNCHANGED <<queues, outgoing_reliables_sent, m_window_size, wire, acks>>
      /\ inc # <<>> /\ p.seq = next_incoming_seqnum
      /\ Process(p) /\ inc' = Tail(inc)
  BY DEF Unbuffer, Unbufferable, sender
<1>2. SenderInv' /\ NSent' = S /\ S \in Nat /\ taken \in Nat /\ taken' = taken /\ stream' = stream
  BY <1>1, SenderKept DEF SenderInv
<1>3. inc \in Seq(Sent(S)) /\ Sorted(inc) /\ Len(inc) \in Nat /\ R \in Nat
  BY LenProperties DEF ReceiverInv
<1>4. 1 \in 1..Len(inc)  BY <1>1, <1>3, EmptySeq
<1>5. p \in Sent(S) /\ p.num = R  BY <1>1, <1>4, BufferedDue
<1>. HIDE DEF p
<1>6. /\ handed' \in Seq(Nat) /\ Len(handed') = R + 1 /\ R + 1 <= S
      /\ InOrder' /\ next_incoming_seqnum' = SeqnumOf(Len(handed'))
      /\ delivered' \in Seq(1..taken') /\ incoming_splits' \subseteq (1..taken') \X (1..MaxChunks)
  BY <1>1, <1>2, <1>5, ProcessStep
<1>7. inc' \in Seq(Sent(S)) /\ Len(inc') = Len(inc) - 1 /\ \A i \in 1..Len(inc') : inc'[i] = inc[i + 1]
  BY <1>1, <1>3, HeadTailProperties
<1>8. Sorted(inc)'
  <2>1. SUFFICES ASSUME NEW i \in 1..Len(inc'), NEW j \in 1..Len(inc'), i < j
                 PROVE  inc'[i].num < inc'[j].num
    BY DEF Sorted
  <2>2. i + 1 \in 1..Len(inc) /\ j + 1 \in 1..Len(inc) /\ i + 1 < j + 1  BY <1>3, <1>7, <2>1
  <2>3. inc[i + 1].num < inc[j + 1].num  BY <1>3, <2>2 DEF Sorted
  <2>. QED  BY <1>7, <2>3
<1>9. \A i \in 1..Len(inc') : inc'[i].num \in R + 1..R + 1 + MAX_RELIABLE_WINDOW_SIZE - 1
  <2>1. TAKE i \in 1..Len(inc')
  <2>2. i + 1 \in 1..Len(inc) /\ 1 < i + 1  BY <1>3, <1>7, <2>1
  <2>3. inc[1].num < inc[i + 1].num  BY <1>3, <1>4, <2>2 DEF Sorted
  <2>4. inc[i + 1].num \in R..R + MAX_RELIABLE_WINDOW_SIZE - 1  BY <2>2 DEF ReceiverInv
  <2>5. inc'[i].num = inc[i + 1].num  BY <1>7, <2>1
  <2>. QED  BY <1>3, <1>5, <2>3, <2>4, <2>5, ModulusIsTwoWindows DEF p
<1>10. ReceiverInv'  BY <1>2, <1>6, <1>7, <1>8, <1>9 DEF ReceiverInv
<1>11. WithinReach'  BY <1>1, <1>2 DEF BufferInv, WithinReach
<1>12. BufferInv'  BY <1>1, <1>2, <1>11, BufferKept
<1>13. ASSUME NEW num \in Int, Arrived(num) PROVE Arrived(num)'
  <2>1. CASE num < R  BY <2>1, <1>3, <1>6 DEF Arrived
  <2>2. CASE \E q \in ToSet(inc) : q.num = num
    <3>1. PICK i \in 1..Len(inc) : inc[i].num = num  BY <2>2 DEF ToSet
    <3>2. CASE i = 1  BY <3>1, <3>2, <1>3, <1>5, <1>6 DEF Arrived, p
    <3>3. CASE i # 1
      <4>1. i - 1 \in 1..Len(inc') /\ inc'[i - 1] = inc[i]  BY <3>1, <3>3, <1>3, <1>7
      <4>2. inc'[i - 1] \in ToSet(inc')  BY <4>1 DEF ToSet
      <4>. QED  BY <3>1, <4>1, <4>2 DEF Arrived
    <3>. QED  BY <3>2, <3>3
  <2>. QED  BY <1>13, <2>1, <2>2 DEF Arrived
<1>14. AckInv'
  <2>1. \A q \in acks : q.num \in Int  BY SentPacket, <1>2 DEF AckInv
  <2>2. queued_reliables' = queued_reliables  BY <1>1 DEF queues
  <2>3. NothingLost'
    <3>1. SUFFICES ASSUME NEW num \in 0..Len(stream) - Len(queued_reliables) - 1
                   PROVE  Arrived(num)' \/ \E q \in ToSet(outgoing_reliables_sent) : q.num = num
      BY <1>1, <1>2, <2>2 DEF NothingLost
    <3>. QED  BY <1>13, <3>1 DEF AckInv, NothingLost
  <2>. QED  BY <1>1, <1>2, <1>13, <2>1, <2>3 DEF AckInv
<1>. QED  BY <1>2, <1>10, <1>12, <1>14

\* While nothing buffered is due, the receiver is within reach of the sender.
LEMMA ReceiverWithinReach ==
  ASSUME IInv, ~Unbufferable
  PROVE  /\ Len(stream) - Len(handed) <= Span
         /\ \A i \in 1..Len(incoming_reliables) : incoming_reliables[i].num > Len(handed)
<1>. DEFINE inc == incoming_reliables
            N == Len(stream)
            S == NSent
            R == Len(handed)
<1>. USE DEF IInv
<1>1. /\ N \in Nat /\ S \in Nat /\ S <= N /\ N - S < Span /\ R \in Nat /\ R <= S
      /\ S = Len(stream) - Len(queued_reliables)
  BY Lengths, LenProperties DEF ReceiverInv, NSent
<1>2. inc \in Seq(Sent(S)) /\ Sorted(inc) /\ Len(inc) \in Nat  BY LenProperties DEF ReceiverInv
<1>3. \A i \in 1..Len(inc) : inc[i].num > R
  <2>1. TAKE i \in 1..Len(inc)
  <2>2. 1 \in 1..Len(inc) /\ inc # <<>>  BY <1>2, <2>1, EmptySeq
  <2>3. inc[1].num # R
    <3>1. ~(inc[1].seq = next_incoming_seqnum)  BY <2>2 DEF Unbufferable
    <3>. QED  BY <2>2, <3>1, BufferedDue
  <2>4. inc[1].num \in Int /\ inc[1].num >= R /\ inc[i].num \in Int /\ inc[i].num >= R
    BY <2>1, <2>2, BufferedDue
  <2>5. i = 1 \/ inc[1].num < inc[i].num  BY <1>2, <2>1, <2>2 DEF Sorted
  <2>. HIDE DEF R
  <2>. QED  BY <1>1, <2>3, <2>4, <2>5
<1>4. N - R <= Span
  <2>1. CASE R = S  BY <2>1, <1>1, Sizes
  <2>2. CASE R # S
    <3>1. R \in 0..Len(stream) - Len(queued_reliables) - 1  BY <2>2, <1>1
    <3>2. Arrived(R) \/ \E q \in ToSet(outgoing_reliables_sent) : q.num = R
      BY <3>1 DEF AckInv, NothingLost
    <3>3. ~Arrived(R)
      <4>1. ~(R < R)  BY <1>1
      <4>2. \A q \in ToSet(inc) : q.num # R
        <5>1. SUFFICES ASSUME NEW i \in 1..Len(inc) PROVE inc[i].num # R  BY DEF ToSet
        <5>2. inc[i].num > R /\ inc[i].num \in Int  BY <1>3, BufferedDue
        <5>. QED  BY <5>2, <1>1
      <4>. QED  BY <4>1, <4>2 DEF Arrived
    <3>4. PICK q \in ToSet(outgoing_reliables_sent) : q.num = R  BY <3>2, <3>3
    <3>5. N - q.num <= Span  BY WaitingWithinReach
    <3>. QED  BY <3>4, <3>5
  <2>. QED  BY <2>1, <2>2
<1>. QED  BY <1>3, <1>4

LEMMA ReceiveStep == ASSUME IInv, NEW p, ReceiveReliable(p) PROVE IInv'
<1>. DEFINE inc == incoming_reliables
            N == Len(stream)
            S == NSent
            R == Len(handed)
            W == MAX_RELIABLE_WINDOW_SIZE
            due == next_incoming_seqnum
<1>. USE DEF IInv
<1>1. /\ UNCHANGED <<queues, outgoing_reliables_sent, m_window_size, wire>>
      /\ p \in wire /\ ~Expired(p) /\ ~Unbufferable
      /\ acks' = acks \cup {p}
      /\ \/ p.seq = due /\ Process(p) /\ inc' = inc
         \/ /\ seqnum_in_window(p.seq, due) /\ p.seq # due
            /\ inc' = Insert(inc, p, due)
            /\ UNCHANGED <<next_incoming_seqnum, handed, incoming_splits, delivered>>
         \/ ~seqnum_in_window(p.seq, due) /\ UNCHANGED receiver
  BY DEF ReceiveReliable, sender
<1>2. SenderInv' /\ NSent' = S /\ S \in Nat /\ taken \in Nat /\ taken' = taken /\ stream' = stream
  BY <1>1, SenderKept DEF SenderInv
<1>3. inc \in Seq(Sent(S)) /\ Sorted(inc) /\ Len(inc) \in Nat /\ R \in Nat /\ R <= S /\ due = SeqnumOf(R)
  BY LenProperties DEF ReceiverInv
<1>4. N \in Nat /\ S <= N  BY Lengths
<1>5. p \in Sent(S)  BY <1>1 DEF BufferInv
<1>6. p.num \in 0..S - 1 /\ p.seq = SeqnumOf(p.num) /\ N - p.num <= W
  <2>1. p.num \in 0..S - 1 /\ p.seq = SeqnumOf(p.num)
    BY <1>2, <1>5, SentPacket
  <2>2. N - p.num <= Span \/ N - p.num <= Lifetime
    BY <1>1, <1>4, <2>1, Sizes, WaitingWithinReach DEF Expired
  <2>. QED  BY <1>2, <1>4, <2>1, <2>2, Sizes, ModulusIsTwoWindows
<1>7. N - R <= Span /\ \A i \in 1..Len(inc) : inc[i].num > R  BY <1>1, ReceiverWithinReach
<1>8. W \in Nat /\ W > 0 /\ Span <= W /\ Lifetime < W /\ Span \in Nat /\ Lifetime \in Nat /\ Modulus = 2 * W
  BY ModulusIsTwoWindows, Sizes
<1>9. p.num - R < W /\ R - p.num <= W
  <2>. HIDE DEF N, S, R, W
  <2>. QED  BY <1>2, <1>3, <1>4, <1>6, <1>7, <1>8
<1>10. seqnum_in_window(p.seq, due) <=> p.num >= R
  <2>. HIDE DEF due, R
  <2>. QED  BY <1>3, <1>6, <1>8, <1>9, InWindow
<1>11. p.seq = due <=> p.num = R
  <2>1. p.num - R < Modulus /\ R - p.num < Modulus  BY <1>3, <1>6, <1>8, <1>9
  <2>. HIDE DEF due, R
  <2>. QED  BY <1>3, <1>6, <2>1, SeqnumOfInjective
<1>12. ReceiverInv' /\ Arrived(p.num)' /\ \A num \in Int : Arrived(num) => Arrived(num)'
  <2>1. CASE p.seq = due /\ Process(p) /\ inc' = inc
    <3>1. /\ handed' \in Seq(Nat) /\ Len(handed') = R + 1 /\ R + 1 <= S
          /\ InOrder' /\ next_incoming_seqnum' = SeqnumOf(Len(handed'))
          /\ delivered' \in Seq(1..taken') /\ incoming_splits' \subseteq (1..taken') \X (1..MaxChunks)
      BY <1>2, <1>5, <1>11, <2>1, ProcessStep
    <3>2. inc' \in Seq(Sent(S)) /\ Sorted(inc)'  BY <1>3, <2>1 DEF Sorted
    <3>3. \A i \in 1..Len(inc') : inc'[i].num \in R + 1..R + 1 + W - 1
      <4>1. TAKE i \in 1..Len(inc')
      <4>2. inc[i].num \in R..R + W - 1 /\ inc[i].num > R  BY <1>7, <2>1 DEF ReceiverInv
      <4>. QED  BY <1>3, <1>8, <2>1, <4>2
    <3>4. ReceiverInv'  BY <1>2, <3>1, <3>2, <3>3 DEF ReceiverInv
    <3>5. Arrived(p.num)'  BY <1>3, <1>11, <2>1, <3>1 DEF Arrived
    <3>6. \A num \in Int : Arrived(num) => Arrived(num)'  BY <1>3, <2>1, <3>1 DEF Arrived
    <3>. QED  BY <3>4, <3>5, <3>6
  <2>2. CASE /\ seqnum_in_window(p.seq, due) /\ p.seq # due
             /\ inc' = Insert(inc, p, due)
             /\ UNCHANGED <<next_incoming_seqnum, handed, incoming_splits, delivered>>
    <3>1. p.num \in R + 1..R + W - 1
      <4>1. p.num >= R /\ p.num # R  BY <1>10, <1>11, <2>2
      <4>. HIDE DEF R, W
      <4>. QED  BY <1>3, <1>6, <1>8, <1>9, <4>1
    <3>2. \A i \in 1..Len(inc) : inc[i].num \in R..R + W - 1  BY DEF ReceiverInv
    <3>3. inc' \in Seq(Sent(S)) /\ Sorted(inc)' /\ ToSet(inc') = ToSet(inc) \cup {p}
      <4>. DEFINE r == Insert(inc, p, SeqnumOf(R))
      <4>1. r \in Seq(Sent(S)) /\ Sorted(r) /\ ToSet(r) = ToSet(inc) \cup {p}
        <5>. HIDE DEF R, W, S
        <5>. QED  BY <1>2, <1>3, <1>5, <3>1, <3>2, InsertSorted DEF W
      <4>2. inc' = r  BY <1>3, <2>2
      <4>. QED  BY <4>1, <4>2 DEF Sorted
    <3>4. \A i \in 1..Len(inc') : inc'[i].num \in R..R + W - 1
      <4>1. TAKE i \in 1..Len(inc')
      <4>2. inc'[i] \in ToSet(inc) \cup {p}  BY <3>3 DEF ToSet
      <4>3. \A q \in ToSet(inc) : q.num \in R..R + W - 1  BY <3>2 DEF ToSet
      <4>4. p.num \in R..R + W - 1  BY <1>3, <1>8, <3>1
      <4>. QED  BY <4>2, <4>3, <4>4
    <3>5. handed' = handed /\ next_incoming_seqnum' = next_incoming_seqnum
          /\ delivered' = delivered /\ incoming_splits' = incoming_splits
      BY <2>2
    <3>6. ReceiverInv'  BY <1>2, <3>3, <3>4, <3>5 DEF ReceiverInv, InOrder
    <3>7. Arrived(p.num)'  BY <3>3 DEF Arrived
    <3>8. \A num \in Int : Arrived(num) => Arrived(num)'  BY <3>3, <3>5 DEF Arrived
    <3>. QED  BY <3>6, <3>7, <3>8
  <2>3. CASE ~seqnum_in_window(p.seq, due) /\ UNCHANGED receiver
    <3>1. ReceiverInv'  BY <1>2, <2>3, ReceiverKept
    <3>2. handed' = handed /\ inc' = inc  BY <2>3 DEF receiver
    <3>3. p.num < R  BY <1>3, <1>6, <1>10, <2>3
    <3>. QED  BY <3>1, <3>2, <3>3 DEF Arrived
  <2>. QED  BY <1>1, <2>1, <2>2, <2>3
<1>13. WithinReach'  BY <1>1, <1>2 DEF BufferInv, WithinReach
<1>14. BufferInv'  BY <1>1, <1>2, <1>13, BufferKept
<1>15. AckInv'
  <2>1. \A q \in acks : q.num \in Int /\ Arrived(q.num)  BY SentPacket, <1>2 DEF AckInv
  <2>2. queued_reliables' = queued_reliables  BY <1>1 DEF queues
  <2>3. NothingLost'
    <3>1. SUFFICES ASSUME NEW num \in 0..Len(stream) - Len(queued_reliables) - 1
                   PROVE  Arrived(num)' \/ \E q \in ToSet(outgoing_reliables_sent) : q.num = num
      BY <1>1, <1>2, <2>2 DEF NothingLost
    <3>2. num \in Int  OBVIOUS
    <3>. QED  BY <1>12, <3>1, <3>2 DEF AckInv, NothingLost
  <2>4. acks' \subseteq Sent(NSent')  BY <1>1, <1>2, <1>5 DEF AckInv
  <2>5. \A q \in acks' : Arrived(q.num)'  BY <1>1, <1>12, <2>1
  <2>. QED  BY <2>3, <2>4, <2>5 DEF AckInv
<1>. QED  BY <1>2, <1>12, <1>14, <1>15

LEMMA StepInv == ASSUME IInv, [Next]_vars PROVE IInv'
<1>1. ASSUME NEW n \in 1..MaxChunks, PutReliableSendCommand(n) PROVE IInv'  BY <1>1, PutStep
<1>2. CASE RunCommandQueues  BY <1>2, RunStep
<1>3. CASE SendQueued  BY <1>3, SendStep
<1>4. CASE UpdateTimers  BY <1>4, TimersStep
<1>5. CASE Lose  BY <1>5, LoseStep
<1>6. CASE Unbuffer  BY <1>6, UnbufferStep
<1>7. ASSUME NEW p, Resend(p) PROVE IInv'  BY <1>7, ResendStep
<1>8. ASSUME NEW p, ReceiveAck(p) PROVE IInv'  BY <1>8, AckStep
<1>9. ASSUME NEW p, ReceiveReliable(p) PROVE IInv'  BY <1>9, ReceiveStep
<1>10. CASE UNCHANGED vars
  <2>1. /\ UNCHANGED <<queues, outgoing_reliables_sent, m_window_size, receiver, wire, acks>>
        /\ UNCHANGED <<acks, handed, incoming_reliables, outgoing_reliables_sent>>
    BY <1>10 DEF vars, sender, receiver
  <2>2. SenderInv' /\ NSent' = NSent /\ NSent \in Nat /\ taken \in Nat /\ taken' = taken /\ stream' = stream
    BY <2>1, SenderKept DEF IInv, SenderInv
  <2>3. WithinReach'  BY <2>1, <2>2 DEF IInv, BufferInv, WithinReach
  <2>4. BufferInv'  BY <2>1, <2>2, <2>3, BufferKept DEF IInv
  <2>5. ReceiverInv'  BY <2>1, <2>2, ReceiverKept DEF IInv
  <2>6. AckInv'  BY <2>1, <2>2, AckKept DEF IInv
  <2>. QED  BY <2>2, <2>4, <2>5, <2>6 DEF IInv
<1>. QED  BY <1>1, <1>2, <1>3, <1>4, <1>5, <1>6, <1>7, <1>8, <1>9, <1>10 DEF Next

LEMMA Invariance == Spec => []IInv
<1>1. Init => IInv  BY InitInv
<1>2. IInv /\ [Next]_vars => IInv'  BY StepInv
<1>. QED  BY <1>1, <1>2, PTL DEF Spec

-----------------------------------------------------------------------------
(* Results *)

LEMMA InvTypeOK == ASSUME IInv PROVE TypeOK
<1>. DEFINE Q == Len(queued_reliables)
            f == [k \in 1..Q |-> Packet(Len(stream) - Q + k - 1)]
            P == [seq : Seqnums, num : Nat]
<1>. USE DEF IInv
<1>1. queued_reliables = f
  <2>1. queued_reliables \in Seq(P) /\ Q \in Nat  BY LenProperties DEF SenderInv
  <2>2. queued_reliables \in [1..Q -> P]  BY <2>1, LenProperties
  <2>3. \A k \in 1..Q : queued_reliables[k] = f[k]  BY DEF SenderInv, NSent
  <2>. HIDE DEF Q, P
  <2>. QED  BY <2>2, <2>3
<1>2. {Packet(n) : n \in 0..Len(stream) - Len(queued_reliables) - 1} = Sent(NSent)
  BY DEF Sent, NSent
<1>. HIDE DEF f
<1>. QED  BY <1>1, <1>2 DEF TypeOK, SenderInv, BufferInv, ReceiverInv, AckInv, f

\* The values of the variables; every sequence number under way, waiting or
\* buffered is that of its packet's place in the stream, however often the
\* numbers have wrapped.
THEOREM TypeCorrect == Spec => []TypeOK
<1>1. IInv => TypeOK  BY InvTypeOK
<1>. QED  BY <1>1, Invariance, PTL

\* The receiver takes every packet once and in the order of the stream,
\* whatever the network repeats, reorders or loses.
THEOREM TakenInOrder == Spec => []InOrder
<1>1. IInv => InOrder  BY DEF IInv, ReceiverInv
<1>. QED  BY <1>1, Invariance, PTL

\* A packet leaves the sender's buffer only when the receiver has it: an
\* acknowledgement never takes a packet that only shares the number.
THEOREM NoPacketLost == Spec => []NothingLost
<1>1. IInv => NothingLost  BY DEF IInv, AckInv
<1>. QED  BY <1>1, Invariance, PTL

\* Numbers are given out no further than the receiver's window reaches.
THEOREM NumbersInReach == Spec => []WithinReach
<1>1. IInv => WithinReach  BY DEF IInv, BufferInv
<1>. QED  BY <1>1, Invariance, PTL

-----------------------------------------------------------------------------
(* Messages: the stream holds them one after another, the receiver has put *)
(* together those of the packets it took.                                  *)

\* A chunk is followed by the next of its message, the last by the next message.
Follows(d, e) ==
  \/ d.chunk < d.chunks /\ e.id = d.id /\ e.chunk = d.chunk + 1 /\ e.chunks = d.chunks
  \/ d.chunk = d.chunks /\ e.id = d.id + 1 /\ e.chunk = 1

\* The last message the stream holds.
LastId(s) == IF Len(s) = 0 THEN 0 ELSE s[Len(s)].id

Laid(s) ==
  /\ \A i \in 1..Len(s) : s[i].chunk <= s[i].chunks
  /\ \A i \in 1..Len(s) - 1 : Follows(s[i], s[i + 1])
  /\ Len(s) > 0 => /\ s[1].id = 1 /\ s[1].chunk = 1
                   /\ s[Len(s)].chunk = s[Len(s)].chunks

MessagesInv ==
  /\ Laid(stream)
  /\ LastId(stream) = taken - Len(queued_commands)
  /\ \A i \in 1..Len(queued_commands) : queued_commands[i].id = LastId(stream) + i

\* What the receiver has of the message of the packet it took last.
Held(R) ==
  IF R = 0 THEN delivered = <<>> /\ incoming_splits = {}
  ELSE IF stream[R].chunk = stream[R].chunks
       THEN Len(delivered) = stream[R].id /\ incoming_splits = {}
       ELSE /\ Len(delivered) = stream[R].id - 1
            /\ incoming_splits = {<<stream[R].id, k>> : k \in 1..stream[R].chunk}

LinkInv == MessagesInv /\ Held(Len(handed)) /\ \A i \in 1..Len(delivered) : delivered[i] = i

LEMMA InitLink == ASSUME Init PROVE LinkInv
<1>. USE DEF Init
<1>1. Len(stream) = 0 /\ Len(handed) = 0 /\ Len(queued_commands) = 0 /\ Len(delivered) = 0  OBVIOUS
<1>2. Laid(stream) /\ LastId(stream) = 0  BY <1>1 DEF Laid, LastId
<1>3. MessagesInv  BY <1>1, <1>2 DEF MessagesInv
<1>4. Held(Len(handed))  BY <1>1 DEF Held
<1>. QED  BY <1>1, <1>3, <1>4 DEF LinkInv

\* A command numbered is laid behind those before it.
LEMMA LaidNumber ==
  ASSUME SenderInv, MessagesInv, NEW c, c.chunks \in 1..MaxChunks, c.id = LastId(stream) + 1,
         Number(c), stream' \in Seq(Chunk')
  PROVE  /\ Laid(stream)' /\ LastId(stream') = c.id
         /\ Len(stream) <= Len(stream') /\ \A i \in 1..Len(stream) : stream'[i] = stream[i]
<1>. DEFINE N == Len(stream)
            m == c.chunks
            f == [k \in 1..m |-> [id |-> c.id, chunk |-> k, chunks |-> m]]
            s == stream'
<1>1. m \in Nat /\ m > 0 /\ N \in Nat  BY Sizes, Lengths
<1>2. f \in Seq([id : {c.id}, chunk : 1..m, chunks : {m}]) /\ Len(f) = m
      /\ \A k \in 1..m : f[k].id = c.id /\ f[k].chunk = k /\ f[k].chunks = m
  <2>1. \A k \in 1..m : [id |-> c.id, chunk |-> k, chunks |-> m] \in [id : {c.id}, chunk : 1..m, chunks : {m}]
    OBVIOUS
  <2>. HIDE DEF m
  <2>. QED  BY <1>1, <2>1
<1>3. s = stream \o f  BY DEF Number
<1>. HIDE DEF f, m
<1>4. /\ Len(s) = N + m
      /\ \A i \in 1..N : s[i] = stream[i]
      /\ \A k \in 1..m : s[N + k] = f[k]
  <2>. DEFINE V == [id : {c.id}, chunk : 1..m, chunks : {m}]
              T == Chunk \cup V
              r == stream \o f
  <2>1. stream \in Seq(T) /\ f \in Seq(T)
    <3>1. f \in Seq(V)  BY <1>2
    <3>. HIDE DEF V
    <3>2. Chunk \subseteq T /\ V \subseteq T  OBVIOUS
    <3>3. stream \in Seq(Chunk)  BY DEF SenderInv
    <3>. HIDE DEF T
    <3>. QED  BY ONLY <3>1, <3>2, <3>3, SeqMonotonic
  <2>. HIDE DEF T
  <2>2. /\ Len(r) = N + m
        /\ \A i \in 1..N + m : r[i] = IF i <= N THEN stream[i] ELSE f[i - N]
    <3>1. Len(f) = m  BY <1>2
    <3>2. /\ Len(stream \o f) = N + Len(f)
          /\ \A i \in 1..N + Len(f) : (stream \o f)[i] = IF i <= N THEN stream[i] ELSE f[i - N]
      BY ONLY <2>1, ConcatProperties
    <3>. QED  BY ONLY <3>1, <3>2
  <2>3. \A i \in 1..N : i \in 1..N + m /\ i <= N  BY <1>1
  <2>4. \A k \in 1..m : N + k \in 1..N + m /\ ~(N + k <= N) /\ (N + k) - N = k  BY <1>1
  <2>. HIDE DEF r
  <2>5. Len(r) = N + m /\ \A i \in 1..N : r[i] = stream[i]  BY <2>2, <2>3
  <2>6. \A k \in 1..m : r[N + k] = f[k]  BY <2>2, <2>4
  <2>. QED  BY <1>3, <2>5, <2>6 DEF r
<1>. HIDE DEF s
<1>5. \A k \in 1..m : s[N + k].id = c.id /\ s[N + k].chunk = k /\ s[N + k].chunks = m
  BY <1>2, <1>4
<1>6. m \in 1..m /\ 1 \in 1..m /\ Len(s) > 0 /\ Len(s) \in Nat  BY <1>1, <1>4
<1>7. s[Len(s)].id = c.id /\ s[Len(s)].chunk = s[Len(s)].chunks  BY <1>4, <1>5, <1>6
<1>8. s[1].id = 1 /\ s[1].chunk = 1
  <2>1. CASE N = 0
    <3>1. c.id = 1 /\ N + 1 = 1  BY <2>1 DEF LastId
    <3>. QED  BY <3>1, <1>5, <1>6
  <2>2. CASE N > 0
    <3>1. s[1] = stream[1]  BY <2>2, <1>1, <1>4
    <3>. QED  BY <2>2, <3>1 DEF MessagesInv, Laid
  <2>. QED  BY <2>1, <2>2, <1>1
<1>9. ASSUME NEW i \in 1..Len(s) PROVE s[i].chunk <= s[i].chunks
  <2>1. CASE i \in 1..N  BY <2>1, <1>4 DEF MessagesInv, Laid
  <2>2. CASE i \in N + 1..N + m
    <3>1. i - N \in 1..m /\ N + (i - N) = i  BY <2>2, <1>1
    <3>2. s[i].chunk = i - N /\ s[i].chunks = m  BY <1>5, <3>1
    <3>. QED  BY <1>1, <3>1, <3>2
  <2>. QED  BY <2>1, <2>2, <1>1, <1>4
<1>10. ASSUME NEW i \in 1..Len(s) - 1 PROVE Follows(s[i], s[i + 1])
  <2>1. CASE i \in 1..N - 1
    <3>1. i \in 1..N /\ i + 1 \in 1..N  BY <2>1, <1>1
    <3>. QED  BY <2>1, <3>1, <1>4 DEF MessagesInv, Laid
  <2>2. CASE i = N
    <3>1. N \in 1..N /\ N > 0  BY <2>2, <1>1
    <3>2. s[N] = stream[N] /\ stream[N].chunk = stream[N].chunks /\ c.id = stream[N].id + 1
      BY <3>1, <1>4 DEF MessagesInv, Laid, LastId
    <3>3. s[N + 1].id = c.id /\ s[N + 1].chunk = 1  BY <1>5, <1>6
    <3>. QED  BY <2>2, <3>2, <3>3 DEF Follows
  <2>3. CASE i \in N + 1..N + m - 1
    <3>. DEFINE k == i - N
    <3>1. k \in 1..m - 1 /\ k \in 1..m /\ k + 1 \in 1..m /\ N + k = i /\ N + (k + 1) = i + 1  BY <2>3, <1>1
    <3>. HIDE DEF k
    <3>2. /\ s[i].id = c.id /\ s[i].chunk = k /\ s[i].chunks = m
          /\ s[i + 1].id = c.id /\ s[i + 1].chunk = k + 1 /\ s[i + 1].chunks = m
      BY <1>5, <3>1
    <3>3. k < m  BY <3>1, <1>1
    <3>. QED  BY <3>2, <3>3 DEF Follows
  <2>. QED  BY <2>1, <2>2, <2>3, <1>1, <1>4
<1>11. LastId(s) = c.id  BY <1>6, <1>7 DEF LastId
<1>12. Laid(s)  BY <1>6, <1>7, <1>8, <1>9, <1>10 DEF Laid
<1>. QED  BY <1>1, <1>4, <1>11, <1>12 DEF Laid, s

LEMMA HeldKept ==
  ASSUME NEW R \in Nat, R <= Len(stream), \A i \in 1..Len(stream) : stream'[i] = stream[i],
         UNCHANGED <<delivered, incoming_splits>>, Held(R)
  PROVE  Held(R)'
<1>1. CASE R = 0  BY <1>1 DEF Held
<1>2. CASE R # 0
  <2>1. R \in 1..Len(stream)  BY <1>2
  <2>2. stream'[R] = stream[R]  BY <2>1
  <2>. QED  BY <1>2, <2>2 DEF Held
<1>. QED  BY <1>1, <1>2

\* The stream and the commands stay, or a command joins them.
LEMMA MessagesStep ==
  ASSUME IInv, IInv', LinkInv,
         \/ \E n \in 1..MaxChunks : PutReliableSendCommand(n)
         \/ RunCommandQueues
         \/ UNCHANGED <<taken, queued_commands, stream>>
  PROVE  MessagesInv' /\ Len(stream) <= Len(stream') /\ \A i \in 1..Len(stream) : stream'[i] = stream[i]
<1>. DEFINE q == queued_commands
            Commands == [id : 1..taken, chunks : 1..MaxChunks]
<1>1. SenderInv /\ MessagesInv /\ stream' \in Seq(Chunk') /\ q \in Seq(Commands)
      /\ Len(stream) \in Nat /\ Len(q) \in Nat /\ taken \in Nat
  BY Lengths, LenProperties, Sizes DEF IInv, SenderInv, LinkInv
<1>2. /\ Laid(stream) /\ LastId(stream) = taken - Len(q)
      /\ \A i \in 1..Len(q) : q[i].id = LastId(stream) + i
  BY <1>1 DEF MessagesInv
<1>3. ASSUME NEW n \in 1..MaxChunks, PutReliableSendCommand(n)
      PROVE  MessagesInv' /\ Len(stream) <= Len(stream') /\ \A i \in 1..Len(stream) : stream'[i] = stream[i]
  <2>. DEFINE c == [id |-> taken + 1, chunks |-> n]
  <2>1. /\ taken' = taken + 1
        /\ \/ q = <<>> /\ Number(c) /\ q' = q
           \/ q' = Append(q, c) /\ stream' = stream
    BY <1>3 DEF PutReliableSendCommand, GoesAhead
  <2>2. c.id = taken + 1 /\ c.chunks \in 1..MaxChunks /\ c \in [id : 1..taken + 1, chunks : 1..MaxChunks]
    BY <1>1
  <2>. HIDE DEF c
  <2>3. CASE q = <<>> /\ Number(c) /\ q' = q
    <3>1. Len(q) = 0 /\ c.id = LastId(stream) + 1  BY <1>1, <1>2, <2>2, <2>3
    <3>2. Laid(stream)' /\ LastId(stream') = c.id
          /\ Len(stream) <= Len(stream') /\ \A i \in 1..Len(stream) : stream'[i] = stream[i]
      BY <1>1, <2>2, <2>3, <3>1, LaidNumber
    <3>3. MessagesInv'  BY <1>1, <2>1, <2>2, <2>3, <3>1, <3>2 DEF MessagesInv, LastId
    <3>. QED  BY <3>2, <3>3
  <2>4. CASE q' = Append(q, c) /\ stream' = stream
    <3>. DEFINE T == [id : 1..taken + 1, chunks : 1..MaxChunks]
    <3>1. q \in Seq(T) /\ c \in T
      <4>1. Commands \subseteq T  BY <1>1
      <4>. QED  BY <1>1, <2>2, <4>1, SeqMonotonic
    <3>. HIDE DEF T
    <3>2. /\ Len(q') = Len(q) + 1
          /\ \A i \in 1..Len(q) : q'[i] = q[i]
          /\ q'[Len(q) + 1] = c
      BY <2>4, <3>1, AppendProperties
    <3>3. LastId(stream)' = LastId(stream) /\ Laid(stream)'  BY <1>2, <2>4 DEF LastId, Laid
    <3>4. LastId(stream) = taken' - Len(q')  BY <1>1, <1>2, <2>1, <3>2
    <3>5. ASSUME NEW i \in 1..Len(q') PROVE q'[i].id = LastId(stream) + i
      <4>1. CASE i \in 1..Len(q)  BY <4>1, <1>2, <3>2
      <4>2. CASE i = Len(q) + 1
        <5>1. q'[i].id = taken + 1  BY <4>2, <2>2, <3>2
        <5>. QED  BY <5>1, <4>2, <1>1, <1>2
      <4>. QED  BY <4>1, <4>2, <1>1, <3>2
    <3>6. MessagesInv'  BY <3>3, <3>4, <3>5 DEF MessagesInv
    <3>. QED  BY <1>1, <2>4, <3>6
  <2>. QED  BY <2>1, <2>3, <2>4
<1>4. CASE RunCommandQueues
  <2>. DEFINE c == Head(q)
  <2>1. q # <<>> /\ Number(c) /\ q' = Tail(q) /\ taken' = taken
    BY <1>4 DEF RunCommandQueues
  <2>2. /\ c \in Commands /\ Len(q') = Len(q) - 1 /\ \A i \in 1..Len(q') : q'[i] = q[i + 1]
        /\ c = q[1] /\ Len(q) > 0
    <3>. HIDE DEF Commands
    <3>. QED  BY <1>1, <2>1, HeadTailProperties, EmptySeq
  <2>3. c.chunks \in 1..MaxChunks  BY <2>2
  <2>4. c.id = LastId(stream) + 1
    <3>1. 1 \in 1..Len(q)  BY <1>1, <2>2
    <3>. QED  BY <1>2, <2>2, <3>1
  <2>. HIDE DEF c
  <2>5. Laid(stream)' /\ LastId(stream') = c.id
        /\ Len(stream) <= Len(stream') /\ \A i \in 1..Len(stream) : stream'[i] = stream[i]
    BY <1>1, <2>1, <2>3, <2>4, LaidNumber
  <2>6. LastId(stream') = LastId(stream) + 1 /\ LastId(stream) \in Int  BY <1>1, <1>2, <2>4, <2>5
  <2>7. LastId(stream') = taken' - Len(q')
    <3>1. LastId(stream) = taken - Len(q) /\ taken \in Int /\ Len(q) \in Int  BY <1>1, <1>2
    <3>2. taken' = taken /\ Len(q') = Len(q) - 1  BY <2>1, <2>2
    <3>3. LastId(stream') = LastId(stream) + 1  BY <2>6
    <3>4. LastId(stream') = taken - (Len(q) - 1)  BY <3>1, <3>3
    <3>. QED  BY <3>2, <3>4
  <2>8. ASSUME NEW i \in 1..Len(q') PROVE q'[i].id = LastId(stream') + i
    <3>1. i + 1 \in 1..Len(q)  BY <1>1, <2>2
    <3>2. q'[i].id = LastId(stream) + (i + 1)  BY <1>2, <2>2, <3>1
    <3>. QED  BY <3>2, <2>6
  <2>9. MessagesInv'  BY <2>5, <2>7, <2>8 DEF MessagesInv, LastId
  <2>. QED  BY <2>5, <2>9
<1>5. CASE UNCHANGED <<taken, queued_commands, stream>>
  <2>1. MessagesInv'  BY <1>1, <1>5 DEF MessagesInv, Laid, LastId
  <2>. QED  BY <1>1, <1>5, <2>1
<1>. QED  BY <1>3, <1>4, <1>5

\* Taking a packet continues its message, and completes it with the last chunk.
LEMMA ProcessLink ==
  ASSUME SenderInv, LinkInv, NEW p, Process(p), Len(handed) \in Nat,
         p.num = Len(handed), Len(handed) + 1 <= Len(stream), UNCHANGED <<taken, stream>>,
         Len(handed') = Len(handed) + 1, delivered \in Seq(1..taken)
  PROVE  /\ Held(Len(handed))'
         /\ \A i \in 1..Len(delivered') : delivered'[i] = i
         /\ Link!Deliver \/ UNCHANGED <<taken, delivered>>
<1>. DEFINE R == Len(handed)
            d == stream[R + 1]
            L == Len(delivered)
<1>1. Len(stream) \in Nat /\ R + 1 \in 1..Len(stream) /\ L \in Nat  BY Lengths, LenProperties
<1>2. d \in Chunk  BY <1>1, ElementOfSeq DEF SenderInv
<1>3. d.id \in 1..taken /\ d.chunk \in 1..MaxChunks /\ d.chunks \in 1..MaxChunks /\ d.id \in Nat
      /\ d.chunk \in Nat /\ d.chunks \in Nat /\ d.chunk > 0
  BY <1>2, Sizes DEF Chunk
<1>4. d.chunk <= d.chunks  BY <1>1 DEF LinkInv, MessagesInv, Laid
<1>5. L = d.id - 1 /\ incoming_splits = {<<d.id, k>> : k \in 1..d.chunk - 1}
  <2>1. CASE R = 0
    <3>1. d.id = 1 /\ d.chunk = 1  BY <1>1, <2>1 DEF LinkInv, MessagesInv, Laid
    <3>2. delivered = <<>> /\ incoming_splits = {}  BY <2>1 DEF LinkInv, Held
    <3>3. 1..d.chunk - 1 = {}  BY <3>1
    <3>. QED  BY <3>1, <3>2, <3>3
  <2>2. CASE R # 0
    <3>. DEFINE e == stream[R]
    <3>1. R \in 1..Len(stream) - 1 /\ R \in 1..Len(stream)  BY <1>1, <2>2
    <3>2. Follows(e, d)  BY <3>1 DEF LinkInv, MessagesInv, Laid
    <3>3. e \in Chunk  BY <3>1, ElementOfSeq DEF SenderInv
    <3>4. e.id \in Int /\ e.chunk \in Int /\ e.chunks \in Int
      <4>. HIDE DEF e
      <4>. QED  BY <3>3 DEF Chunk
    <3>5. IF e.chunk = e.chunks
          THEN L = e.id /\ incoming_splits = {}
          ELSE L = e.id - 1 /\ incoming_splits = {<<e.id, k>> : k \in 1..e.chunk}
      BY <2>2 DEF LinkInv, Held
    <3>. HIDE DEF e, d, L, R
    <3>6. CASE e.chunk = e.chunks
      <4>1. d.id = e.id + 1 /\ d.chunk = 1  BY <3>2, <3>4, <3>6 DEF Follows
      <4>2. 1..d.chunk - 1 = {}  BY <4>1
      <4>. QED  BY <3>4, <3>5, <3>6, <4>1, <4>2
    <3>7. CASE e.chunk # e.chunks
      <4>1. d.id = e.id /\ d.chunk = e.chunk + 1  BY <3>2, <3>7 DEF Follows
      <4>2. d.chunk - 1 = e.chunk  BY <3>4, <4>1
      <4>. QED  BY <3>5, <3>7, <4>1, <4>2
    <3>. QED  BY <3>6, <3>7
  <2>. QED  BY <2>1, <2>2
<1>6. Reassemble(d)  BY DEF Process
<1>7. d = stream'[Len(handed')] /\ Len(handed') # 0 /\ taken' = taken  OBVIOUS
<1>. DEFINE got == incoming_splits \cup {<<d.id, d.chunk>>}
            chunks == {<<d.id, k>> : k \in 1..d.chunks}
<1>. HIDE DEF d, L, R
<1>8. got = {<<d.id, k>> : k \in 1..d.chunk}
  <2>1. 1..d.chunk = (1..d.chunk - 1) \cup {d.chunk}  BY <1>3
  <2>. QED  BY <1>5, <2>1
<1>9. CASE d.chunk = d.chunks
  <2>1. chunks \subseteq got /\ got \ chunks = {}  BY <1>8, <1>9
  <2>2. incoming_splits' = {} /\ delivered' = Append(delivered, d.id)  BY <1>6, <2>1 DEF Reassemble
  <2>. DEFINE T == 1..taken
  <2>3. delivered \in Seq(T) /\ d.id \in T  BY <1>3
  <2>. HIDE DEF T
  <2>4. /\ Len(delivered') = L + 1 /\ \A i \in 1..L : delivered'[i] = delivered[i]
        /\ delivered'[L + 1] = d.id
    BY <2>2, <2>3, AppendProperties DEF L
  <2>5. d.id = L + 1  BY <1>1, <1>3, <1>5
  <2>6. Held(Len(handed))'  BY <1>7, <1>9, <2>2, <2>4, <2>5 DEF Held
  <2>7. ASSUME NEW i \in 1..Len(delivered') PROVE delivered'[i] = i
    <3>1. CASE i \in 1..L  BY <3>1, <2>4 DEF LinkInv, L
    <3>2. CASE i = L + 1  BY <3>2, <2>4, <2>5
    <3>. QED  BY <3>1, <3>2, <2>4, <1>1
  <2>8. Link!Deliver
    <3>1. L < taken  BY <1>1, <1>3, <2>5 DEF SenderInv
    <3>. QED  BY <1>7, <2>2, <2>5, <3>1 DEF Link!Deliver, L
  <2>. QED  BY <2>6, <2>7, <2>8
<1>10. CASE d.chunk # d.chunks
  <2>1. ~(chunks \subseteq got)
    <3>1. <<d.id, d.chunks>> \in chunks  BY <1>3, <1>4
    <3>2. <<d.id, d.chunks>> \notin got
      <4>1. \A k \in 1..d.chunk : k # d.chunks  BY <1>3, <1>4, <1>10
      <4>. QED  BY <1>8, <4>1
    <3>. QED  BY <3>1, <3>2
  <2>2. incoming_splits' = got /\ delivered' = delivered  BY <1>6, <2>1 DEF Reassemble
  <2>3. Held(Len(handed))'  BY <1>5, <1>7, <1>8, <1>10, <2>2 DEF Held, L
  <2>. QED  BY <1>7, <2>2, <2>3 DEF LinkInv
<1>. QED  BY <1>9, <1>10

LEMMA LinkStep ==
  ASSUME IInv, IInv', LinkInv, [Next]_vars
  PROVE  LinkInv' /\ (Link!Send \/ Link!Deliver \/ UNCHANGED <<taken, delivered>>)
<1>. DEFINE R == Len(handed)
<1>1. SenderInv /\ ReceiverInv /\ BufferInv /\ R \in Nat /\ R <= NSent /\ NSent <= Len(stream) /\ NSent \in Nat
      /\ Len(stream) \in Nat /\ delivered \in Seq(1..taken)
  BY Lengths, LenProperties DEF IInv, ReceiverInv
<1>2. CASE /\ UNCHANGED <<handed, delivered, incoming_splits>>
           /\ \/ \E n \in 1..MaxChunks : PutReliableSendCommand(n)
              \/ RunCommandQueues
              \/ UNCHANGED <<taken, queued_commands, stream>>
  <2>1. MessagesInv' /\ \A i \in 1..Len(stream) : stream'[i] = stream[i]
    BY <1>2, MessagesStep
  <2>2. Held(R)'
    <3>1. ASSUME NEW r \in Nat, r = R PROVE Held(r)'
      <4>1. Held(r) /\ r <= Len(stream)  BY <1>1, <3>1 DEF LinkInv
      <4>. QED  BY <1>2, <2>1, <4>1, HeldKept
    <3>2. PICK r \in Nat : r = R  BY <1>1
    <3>3. Held(r)' /\ Len(handed') = r  BY <3>1, <3>2, <1>2
    <3>. QED  BY <3>3 DEF Held
  <2>3. LinkInv'  BY <1>2, <2>1, <2>2 DEF LinkInv
  <2>4. taken' = taken + 1 \/ taken' = taken
    BY <1>2 DEF PutReliableSendCommand, RunCommandQueues
  <2>. QED  BY <1>2, <2>3, <2>4 DEF Link!Send
<1>3. CASE /\ UNCHANGED <<taken, queued_commands, stream>>
           /\ \E p \in Sent(NSent) : p.num = R /\ Process(p)
  <2>1. PICK p \in Sent(NSent) : p.num = R /\ Process(p)  BY <1>3
  <2>2. R + 1 <= Len(stream) /\ Len(handed') = R + 1
    <3>1. Len(handed') = R + 1 /\ R + 1 <= NSent  BY <1>1, <1>3, <2>1, ProcessStep
    <3>. HIDE DEF R
    <3>. QED  BY <1>1, <3>1
  <2>3. /\ Held(R)'
        /\ \A i \in 1..Len(delivered') : delivered'[i] = i
        /\ Link!Deliver \/ UNCHANGED <<taken, delivered>>
    BY <1>1, <1>3, <2>1, <2>2, ProcessLink
  <2>4. MessagesInv'  BY <1>3, MessagesStep
  <2>. QED  BY <2>3, <2>4 DEF LinkInv
<1>4. ASSUME NEW n \in 1..MaxChunks, PutReliableSendCommand(n)
      PROVE  /\ UNCHANGED <<handed, delivered, incoming_splits>>
             /\ \E m \in 1..MaxChunks : PutReliableSendCommand(m)
  BY <1>4 DEF PutReliableSendCommand, receiver
<1>5. CASE RunCommandQueues  BY <1>2, <1>5 DEF RunCommandQueues, receiver
<1>6. CASE SendQueued  BY <1>2, <1>6 DEF SendQueued, receiver
<1>7. CASE UpdateTimers  BY <1>2, <1>7 DEF UpdateTimers, receiver, queues
<1>8. CASE Lose  BY <1>2, <1>8 DEF Lose, receiver, sender, queues
<1>9. CASE Unbuffer
  <2>. DEFINE p == incoming_reliables[1]
  <2>1. incoming_reliables # <<>> /\ p.seq = next_incoming_seqnum /\ Process(p)
        /\ UNCHANGED <<taken, queued_commands, stream>>
    BY <1>9 DEF Unbuffer, Unbufferable, sender, queues
  <2>2. 1 \in 1..Len(incoming_reliables)  BY <2>1, EmptySeq DEF IInv, ReceiverInv
  <2>3. p \in Sent(NSent) /\ p.num = R  BY <1>1, <2>1, <2>2, BufferedDue
  <2>. QED  BY <2>1, <2>3, <1>3
<1>10. ASSUME NEW p, Resend(p) PROVE UNCHANGED <<handed, delivered, incoming_splits, taken, queued_commands, stream>>
  BY <1>10 DEF Resend, receiver, sender, queues
<1>11. ASSUME NEW p, ReceiveAck(p) PROVE UNCHANGED <<handed, delivered, incoming_splits, taken, queued_commands, stream>>
  BY <1>11 DEF ReceiveAck, receiver, queues
<1>12. ASSUME NEW p, ReceiveReliable(p)
       PROVE  /\ UNCHANGED <<taken, queued_commands, stream>>
              /\ \/ UNCHANGED <<handed, delivered, incoming_splits>>
                 \/ p \in Sent(NSent) /\ p.num = R /\ Process(p)
  <2>1. UNCHANGED <<taken, queued_commands, stream>>  BY <1>12 DEF ReceiveReliable, sender, queues
  <2>2. \/ UNCHANGED <<handed, delivered, incoming_splits>>
        \/ p.seq = next_incoming_seqnum /\ Process(p)
    BY <1>12 DEF ReceiveReliable, receiver
  <2>3. CASE p.seq = next_incoming_seqnum /\ Process(p)
    <3>1. p \in wire /\ ~Expired(p) /\ ~Unbufferable  BY <1>12 DEF ReceiveReliable
    <3>2. p \in Sent(NSent)  BY <1>1, <3>1 DEF BufferInv
    <3>3. p.num \in 0..NSent - 1 /\ p.seq = SeqnumOf(p.num)  BY <1>1, <3>2, SentPacket
    <3>4. Len(stream) - R <= Span  BY <3>1, ReceiverWithinReach
    <3>5. Len(stream) - p.num <= Span \/ Len(stream) - p.num <= Lifetime
      <4>1. CASE p \in ToSet(outgoing_reliables_sent)
        BY <4>1, WaitingWithinReach DEF IInv
      <4>2. CASE ~(p.num + Lifetime < Len(stream))
        <5>1. Len(stream) \in Nat  BY Lengths DEF IInv
        <5>. QED  BY <1>1, <3>3, <4>2, <5>1, Sizes
      <4>. QED  BY <3>1, <4>1, <4>2 DEF Expired
    <3>6. p.num - R < Modulus /\ R - p.num < Modulus
      <4>. HIDE DEF R
      <4>. QED  BY <1>1, <3>3, <3>4, <3>5, Sizes, ModulusIsTwoWindows
    <3>7. SeqnumOf(p.num) = SeqnumOf(R)  BY <1>1, <2>3, <3>3 DEF ReceiverInv
    <3>8. p.num = R
      <4>. HIDE DEF R
      <4>. QED  BY <1>1, <3>3, <3>6, <3>7, SeqnumOfInjective
    <3>. QED  BY <2>1, <2>3, <3>2, <3>8
  <2>. QED  BY <2>1, <2>2, <2>3
<1>13. CASE UNCHANGED vars  BY <1>2, <1>13 DEF vars, receiver, sender, queues
<1>. QED
  BY <1>2, <1>3, <1>4, <1>5, <1>6, <1>7, <1>8, <1>9, <1>10, <1>11, <1>12, <1>13 DEF Next

\* The channel implements the abstract link: messages come out whole, once
\* each and in the order they went in.
THEOREM Refinement == Spec => IsFifoLink
<1>1. Init => LinkInv  BY InitLink
<1>2. IInv /\ IInv' /\ LinkInv /\ [Next]_vars
        => LinkInv' /\ [Link!Send \/ Link!Deliver]_<<taken, delivered>>
  BY LinkStep
<1>3. Init => Link!Init  BY DEF Init, Link!Init
<1>. QED  BY <1>1, <1>2, <1>3, Invariance, PTL DEF Spec, IsFifoLink, Link!Spec, Link!vars


-----------------------------------------------------------------------------
(* What delivery rests on, of the part that is no matter of fairness *)

LEMMA BothInvariants == Spec => [](IInv /\ LinkInv)
<1>1. Init => LinkInv  BY InitLink
<1>2. IInv /\ IInv' /\ LinkInv /\ [Next]_vars => LinkInv'  BY LinkStep
<1>. QED  BY <1>1, <1>2, Invariance, PTL DEF Spec

\* Less than half the numbers behind the one due is old.
LEMMA NotHigher ==
  ASSUME NEW a \in Int, NEW b \in Int, a < b, b - a < MAX_RELIABLE_WINDOW_SIZE
  PROVE  ~seqnum_higher(SeqnumOf(a), SeqnumOf(b))
<1>. DEFINE s == SeqnumOf(a)
            t == SeqnumOf(b)
<1>1. s \in Seqnums /\ t \in Seqnums  BY SeqnumOfType
<1>2. s - t \in {a - b, a - b + Modulus, a - b - Modulus}
  BY SeqnumOfDifference, ModulusIsTwoWindows
<1>. HIDE DEF s, t
<1>3. ~seqnum_higher(s, t)  BY <1>1, <1>2, ModulusIsTwoWindows DEF seqnum_higher, Seqnums
<1>. QED  BY <1>3 DEF s, t

\* handlePacketType_Reliable acknowledges p: it is in the window, or it is old.
Acknowledges(p) ==
  seqnum_in_window(p.seq, next_incoming_seqnum) \/ ~seqnum_higher(p.seq, next_incoming_seqnum)

\* When the receiver looks at a datagram, having taken what was due, no packet
\* the sender waits for is one it holds too new and passes over in silence.
WaitingAreAcknowledged ==
  ~Unbufferable => \A p \in ToSet(outgoing_reliables_sent) : Acknowledges(p)

LEMMA WaitingAcknowledged ==
  ASSUME Span < MAX_RELIABLE_WINDOW_SIZE, IInv, ~Unbufferable,
         NEW p \in ToSet(outgoing_reliables_sent)
  PROVE  Acknowledges(p)
<1>. DEFINE N == Len(stream)
            R == Len(handed)
            W == MAX_RELIABLE_WINDOW_SIZE
<1>1. SenderInv /\ BufferInv /\ ReceiverInv  BY DEF IInv
<1>2. /\ N \in Nat /\ NSent \in Nat /\ NSent <= N /\ R \in Nat /\ R <= NSent
      /\ next_incoming_seqnum = SeqnumOf(R)
  BY <1>1, Lengths, LenProperties DEF ReceiverInv
<1>3. p \in Sent(NSent) /\ p.num \in 0..NSent - 1 /\ N - p.num <= Span
  BY <1>1, WaitingWithinReach
<1>4. p.seq = SeqnumOf(p.num)  BY <1>2, <1>3, SentPacket
<1>5. N - R <= Span  BY ReceiverWithinReach
<1>. HIDE DEF N, R
<1>6. p.num - R < W /\ R - p.num < W /\ R - p.num <= W
  BY <1>2, <1>3, <1>5, Sizes, ModulusIsTwoWindows
<1>7. CASE p.num >= R
  <2>1. seqnum_in_window(SeqnumOf(p.num), SeqnumOf(R))  BY <1>2, <1>3, <1>6, <1>7, InWindow
  <2>. QED  BY <1>2, <1>4, <2>1 DEF Acknowledges
<1>8. CASE p.num < R
  <2>1. ~seqnum_higher(SeqnumOf(p.num), SeqnumOf(R))  BY <1>2, <1>3, <1>6, <1>8, NotHigher
  <2>. QED  BY <1>2, <1>4, <2>1 DEF Acknowledges
<1>. QED  BY <1>2, <1>3, <1>7, <1>8

\* Every packet the sender still waits for is acknowledged whenever it arrives,
\* also the packet whose first acknowledgement was lost, and though the numbers
\* wrap: sending again is never in vain. With the constants of the code Span is 2050,
\* or 1024 and the chunks of the longest message where that is more, and the window
\* holds 32768 numbers: the assumption is that no message has 31744 chunks.
THEOREM ResentIsAcknowledged ==
  ASSUME Span < MAX_RELIABLE_WINDOW_SIZE PROVE Spec => []WaitingAreAcknowledged
<1>1. IInv => WaitingAreAcknowledged  BY WaitingAcknowledged DEF WaitingAreAcknowledged
<1>. QED  BY <1>1, Invariance, PTL

\* While a message is not delivered, a thread has something to do about it: a
\* packet is due, one is sent again, one waits that the window admits, or a
\* command waits for numbers that are to be had.
SomethingGoesOn ==
  Len(delivered) < taken =>
    \/ Unbufferable
    \/ outgoing_reliables_sent # <<>>
    \/ queued_reliables # <<>> /\ Len(outgoing_reliables_sent) < m_window_size
    \/ /\ queued_commands # <<>> /\ Len(queued_reliables) < MAX_REQUEUED
       /\ CanNumber(Head(queued_commands))

LEMMA GoesOn ==
  ASSUME IInv, LinkInv, Len(delivered) < taken, ~Unbufferable, outgoing_reliables_sent = <<>>
  PROVE  \/ queued_reliables # <<>> /\ Len(outgoing_reliables_sent) < m_window_size
         \/ /\ queued_commands # <<>> /\ Len(queued_reliables) < MAX_REQUEUED
            /\ CanNumber(Head(queued_commands))
<1>. DEFINE N == Len(stream)
            R == Len(handed)
            Q == Len(queued_reliables)
<1>1. SenderInv /\ ReceiverInv /\ AckInv  BY DEF IInv
<1>2. /\ N \in Nat /\ Q \in Nat /\ NSent \in Nat /\ NSent <= N /\ NSent = N - Q
      /\ R \in Nat /\ R <= NSent /\ taken \in Nat
  BY <1>1, Lengths, LenProperties DEF ReceiverInv, SenderInv, NSent
<1>3. R = NSent
  <2>1. SUFFICES ASSUME R # NSent PROVE FALSE  OBVIOUS
  <2>2. R \in 0..N - Q - 1  BY <1>2, <2>1
  <2>3. \A q \in ToSet(outgoing_reliables_sent) : FALSE  BY DEF ToSet
  <2>4. Arrived(R)  BY <1>1, <2>2, <2>3 DEF AckInv, NothingLost
  <2>5. PICK q \in ToSet(incoming_reliables) : q.num = R  BY <1>2, <2>4 DEF Arrived
  <2>6. PICK i \in 1..Len(incoming_reliables) : incoming_reliables[i] = q  BY DEF ToSet
  <2>7. incoming_reliables[i].num > R  BY ReceiverWithinReach
  <2>. HIDE DEF R
  <2>. QED  BY <1>2, <2>5, <2>6, <2>7
<1>4. Len(outgoing_reliables_sent) = 0 /\ m_window_size \in Nat /\ m_window_size > 0
  BY <1>1, Sizes DEF SenderInv
<1>5. CASE queued_reliables # <<>>  BY <1>4, <1>5
<1>6. CASE queued_reliables = <<>>
  <2>1. Q = 0 /\ R = N  BY <1>2, <1>3, <1>6
  <2>2. Len(delivered) = LastId(stream)
    <3>1. CASE N = 0
      <4>1. delivered = <<>>  BY <2>1, <3>1 DEF LinkInv, Held
      <4>. QED  BY <3>1, <4>1 DEF LastId
    <3>2. CASE N # 0
      <4>1. stream[N].chunk = stream[N].chunks  BY <1>2, <3>2 DEF LinkInv, MessagesInv, Laid
      <4>2. Held(N)  BY <2>1 DEF LinkInv
      <4>. QED  BY <1>2, <3>2, <4>1, <4>2 DEF Held, LastId
    <3>. QED  BY <3>1, <3>2
  <2>3. LastId(stream) = taken - Len(queued_commands)  BY DEF LinkInv, MessagesInv
  <2>4. queued_commands # <<>>  BY <1>2, <2>2, <2>3
  <2>5. CanNumber(Head(queued_commands))  BY DEF CanNumber, HaveSeqnum
  <2>. QED  BY <2>1, <2>4, <2>5, Sizes
<1>. QED  BY <1>5, <1>6

\* The channel never comes to rest with a message undelivered: no packet is
\* forgotten by both ends, and neither the window nor the numbers of a long
\* message leave the send thread waiting for an acknowledgement nobody owes it.
THEOREM NeverStuck == Spec => []SomethingGoesOn
<1>1. IInv /\ LinkInv => SomethingGoesOn  BY GoesOn DEF SomethingGoesOn
<1>. QED  BY <1>1, BothInvariants, PTL
=============================================================================

-------------------------- MODULE LinkBackendsProofs --------------------------
(***************************************************************************)
(* The two adapters, for rings, buffers, registers and frames of any size: *)
(* frames leave whole and in order (SendsWhole), driver and chip agree     *)
(* where the next received frame starts (InStep), and the debug console    *)
(* gets its serial port back (ConsoleBack).                                *)
(***************************************************************************)
EXTENDS LinkBackends, SequenceTheorems, TLAPS

(* Remainders by a divisor that is not a number in the text.               *)

LEMMA DivMod ==
  ASSUME NEW L \in Nat \ {0}, NEW x \in Int
  PROVE  x = L * (x \div L) + (x % L) /\ x \div L \in Int
<1>1. x = L * (x \div L) + (x % L)
  OBVIOUS
<1>2. x \div L \in Int
  OBVIOUS
<1> QED
  BY <1>1, <1>2

LEMMA ModRange ==
  ASSUME NEW L \in Nat \ {0}, NEW x \in Int
  PROVE  x % L \in 0..L - 1
OBVIOUS

\* A position that runs past the end by less than one round.
LEMMA ModRound ==
  ASSUME NEW L \in Nat \ {0}, NEW x \in 0..L - 1
  PROVE  x % L = x /\ (x + L) % L = x /\ (x - L) % L = x
OBVIOUS

LEMMA MulBound ==
  ASSUME NEW L \in Nat \ {0}, NEW k \in Int
  PROVE  /\ L * k \in Int /\ (k >= 1 => L * k >= L) /\ (k <= -1 => L * k <= -L)
         /\ (k = 0 => L * k = 0)
OBVIOUS

LEMMA ModUnique ==
  ASSUME NEW L \in Nat \ {0}, NEW q \in Int, NEW r \in 0..L - 1
  PROVE  (L * q + r) % L = r
<1> DEFINE x == L * q + r
           d == x \div L
           m == x % L
<1>1. x \in Int
  OBVIOUS
<1>2. x = L * d + m /\ d \in Int /\ m \in 0..L - 1
  BY <1>1, DivMod, ModRange
<1>3. L * (q - d) = L * q - L * d /\ L * q \in Int /\ L * d \in Int
  BY <1>2
<1> HIDE DEF d, m
<1>4. L * (q - d) = m - r
  BY <1>2, <1>3
<1>5. q - d = 0
  BY <1>2, <1>4, MulBound
<1>6. m = r
  BY <1>2, <1>4, <1>5, MulBound
<1> QED
  BY <1>6 DEF m

\* The remainder of a sum may be taken in two goes.
LEMMA ModAdd ==
  ASSUME NEW L \in Nat \ {0}, NEW x \in Int, NEW y \in Int
  PROVE  ((x % L) + y) % L = (x + y) % L
<1> DEFINE d == x \div L
           e == ((x % L) + y) \div L
           r == ((x % L) + y) % L
<1>1. x = L * d + (x % L) /\ d \in Int /\ x % L \in Int
  BY DivMod, ModRange
<1>2. (x % L) + y = L * e + r /\ e \in Int /\ r \in 0..L - 1
  <2> DEFINE z == (x % L) + y
  <2>1. z \in Int
    BY <1>1
  <2> HIDE DEF z
  <2>2. z = L * (z \div L) + (z % L) /\ z \div L \in Int /\ z % L \in 0..L - 1
    BY <2>1, DivMod, ModRange
  <2> QED
    BY <2>2 DEF z
<1> HIDE DEF d, e, r
<1>3. L * (d + e) = L * d + L * e /\ L * d \in Int /\ L * e \in Int
  BY <1>1, <1>2
<1>4. x + y = L * (d + e) + r
  <2>1. x + y = L * d + ((x % L) + y)
    BY <1>1, <1>3
  <2> QED
    BY <1>2, <1>3, <2>1
<1>5. d + e \in Int
  BY <1>1, <1>2
<1>6. (x + y) % L = r
  BY <1>2, <1>4, <1>5, ModUnique
<1> QED
  BY <1>6 DEF r

\* A register whose width is a multiple of the ring may wrap by itself.
LEMMA ModMod ==
  ASSUME NEW L \in Nat \ {0}, NEW W \in Nat \ {0}, W % L = 0, NEW x \in Int
  PROVE  (x % W) % L = x % L
<1> DEFINE d == x \div W
           m == W \div L
           c == (x % W) \div L
           r == (x % W) % L
<1>1. /\ x = W * d + (x % W) /\ d \in Int /\ x % W \in Int
      /\ W = L * m + (W % L) /\ m \in Int
  BY DivMod, ModRange
<1>2. x % W = L * c + r /\ c \in Int /\ r \in 0..L - 1
  BY <1>1, DivMod, ModRange
<1> HIDE DEF d, m, c, r
<1>3. x = L * (m * d + c) + r
  <2>1. x = (L * m) * d + (L * c + r)
    BY <1>1, <1>2
  <2>2. (L * m) * d = L * (m * d) /\ m * d \in Int
    BY <1>1
  <2>3. L * (m * d + c) = L * (m * d) + L * c
    BY <1>1, <1>2, <2>2
  <2> QED
    BY <1>1, <1>2, <2>1, <2>2, <2>3
<1>4. m * d + c \in Int
  BY <1>1, <1>2
<1>5. x % L = r
  BY <1>2, <1>3, <1>4, ModUnique
<1> QED
  BY <1>5 DEF r
-----------------------------------------------------------------------------
(* Frames that lie one behind the other in a ring of L: frame i begins at  *)
(* p[i] and takes s[i], the next one would begin at p[n + 1], and b is     *)
(* where the reader is.                                                    *)

From(b, p, L) == IF p >= b THEN p - b ELSE p - b + L

Laid(p, s, n, b, L) ==
  /\ p[1] = b
  /\ \A i \in 1..n + 1 : p[i] \in 0..L - 1
  /\ \A i \in 1..n : s[i] \in Nat \ {0} /\ From(b, p[i], L) + s[i] = From(b, p[i + 1], L)
  /\ \A i \in 1..n : \A k \in i + 1..n + 1 : From(b, p[i], L) < From(b, p[k], L)

LEMMA FromMod ==
  ASSUME NEW L \in Nat \ {0}, NEW b \in 0..L - 1, NEW p \in 0..L - 1
  PROVE  From(b, p, L) = (p - b) % L
<1>1. CASE p >= b
  <2>1. p - b \in 0..L - 1
    BY <1>1
  <2> QED
    BY <1>1, <2>1, ModRound DEF From
<1>2. CASE ~(p >= b)
  <2>1. p - b + L \in 0..L - 1 /\ p - b = (p - b + L) - L
    BY <1>2
  <2>2. ((p - b + L) - L) % L = p - b + L
    BY <2>1, ModRound
  <2> QED
    BY <1>2, <2>1, <2>2 DEF From
<1> QED
  BY <1>1, <1>2

LEMMA FromRange ==
  ASSUME NEW L \in Nat \ {0}, NEW b \in 0..L - 1, NEW p \in 0..L - 1
  PROVE  From(b, p, L) \in 0..L - 1 /\ From(b, p, L) \in Int
BY DEF From

\* Going on by z from p, by less than what is left of the round.
LEMMA FromStep ==
  ASSUME NEW L \in Nat \ {0}, NEW b \in 0..L - 1, NEW p \in 0..L - 1, NEW z \in Nat,
         From(b, p, L) + z < L
  PROVE  (p + z) % L \in 0..L - 1 /\ From(b, (p + z) % L, L) = From(b, p, L) + z
<1>1. CASE p + z < L
  <2>1. (p + z) % L = p + z
    BY <1>1, ModRound
  <2> QED
    BY <1>1, <2>1 DEF From
<1>2. CASE ~(p + z < L)
  <2>1. p + z - L \in 0..L - 1 /\ p + z = (p + z - L) + L
    BY <1>2 DEF From
  <2>2. (p + z) % L = p + z - L
    BY <2>1, ModRound
  <2> QED
    BY <1>2, <2>1, <2>2 DEF From
<1> QED
  BY <1>1, <1>2

\* Measured from a reader that has gone on.
LEMMA FromLater ==
  ASSUME NEW L \in Nat \ {0}, NEW b \in 0..L - 1, NEW c \in 0..L - 1, NEW p \in 0..L - 1,
         From(b, c, L) <= From(b, p, L)
  PROVE  From(c, p, L) = From(b, p, L) - From(b, c, L)
BY DEF From

\* No two frames begin at the same place.
LEMMA LaidApart ==
  ASSUME NEW L \in Nat \ {0}, NEW n \in Nat, NEW p, NEW s, NEW b, Laid(p, s, n, b, L),
         NEW i \in 1..n + 1, NEW k \in 1..n + 1, p[i] = p[k]
  PROVE  i = k
<1> b \in 0..L - 1 /\ p[i] \in 0..L - 1
  BY DEF Laid
<1>1. From(b, p[i], L) \in Int
  BY FromRange
<1>2. ~(i < k)
  BY <1>1 DEF Laid
<1>3. ~(k < i)
  BY <1>1 DEF Laid
<1> QED
  BY <1>2, <1>3

LEMMA LaidAppend ==
  ASSUME NEW L \in Nat \ {0}, NEW n \in Nat, NEW p, NEW s, NEW b, Laid(p, s, n, b, L),
         NEW z \in Nat \ {0}, From(b, p[n + 1], L) + z < L, NEW q, NEW r,
         \A i \in 1..n + 1 : q[i] = p[i], q[n + 2] = (p[n + 1] + z) % L,
         \A i \in 1..n : r[i] = s[i], r[n + 1] = z
  PROVE  Laid(q, r, n + 1, b, L)
<1>1. /\ b \in 0..L - 1 /\ \A i \in 1..n + 1 : p[i] \in 0..L - 1 /\ q[i] \in 0..L - 1
      /\ p[n + 1] \in 0..L - 1
  BY DEF Laid
<1>2. q[n + 2] \in 0..L - 1 /\ From(b, q[n + 2], L) = From(b, p[n + 1], L) + z
  BY <1>1, FromStep
<1>3. \A i \in 1..n + 1 : From(b, q[i], L) = From(b, p[i], L) /\ From(b, p[i], L) \in Int
  BY <1>1, FromRange
<1>4. \A i \in 1..n + 1 : From(b, p[i], L) <= From(b, p[n + 1], L)
  BY <1>3 DEF Laid
<1>5. \A i \in 1..n + 1 : r[i] \in Nat \ {0} /\ From(b, q[i], L) + r[i] = From(b, q[i + 1], L)
  <2> SUFFICES ASSUME NEW i \in 1..n + 1
               PROVE  r[i] \in Nat \ {0} /\ From(b, q[i], L) + r[i] = From(b, q[i + 1], L)
    OBVIOUS
  <2>1. CASE i = n + 1
    <3>1. n + 1 + 1 = n + 2
      OBVIOUS
    <3> QED
      BY <1>1, <1>2, <1>3, <2>1, <3>1
  <2>2. CASE i # n + 1
    <3>1. i \in 1..n /\ i + 1 \in 1..n + 1
      BY <2>2
    <3> QED
      BY <1>3, <3>1 DEF Laid
  <2> QED
    BY <2>1, <2>2
<1>6. \A i \in 1..n + 1 : \A k \in i + 1..n + 2 : From(b, q[i], L) < From(b, q[k], L)
  <2> SUFFICES ASSUME NEW i \in 1..n + 1, NEW k \in i + 1..n + 2
               PROVE  From(b, q[i], L) < From(b, q[k], L)
    OBVIOUS
  <2>1. CASE k = n + 2
    BY <1>2, <1>3, <1>4, <2>1
  <2>2. CASE k # n + 2
    <3>1. i \in 1..n /\ k \in i + 1..n + 1 /\ k \in 1..n + 1
      BY <2>2
    <3> QED
      BY <1>3, <3>1 DEF Laid
  <2> QED
    BY <2>1, <2>2
<1>7. \A i \in 1..(n + 1) + 1 : q[i] \in 0..L - 1
  <2>1. \A i \in 1..(n + 1) + 1 : i \in 1..n + 1 \/ i = n + 2
    OBVIOUS
  <2> QED
    BY <1>1, <1>2, <2>1
<1>8. (n + 1) + 1 = n + 2 /\ q[1] = b
  BY DEF Laid
<1> QED
  BY <1>5, <1>6, <1>7, <1>8 DEF Laid

LEMMA LaidDrop ==
  ASSUME NEW L \in Nat \ {0}, NEW n \in Nat, NEW p, NEW s, NEW b, Laid(p, s, n, b, L),
         NEW m \in 0..n, NEW q, NEW r,
         \A i \in 1..n - m + 1 : q[i] = p[i + m], \A i \in 1..n - m : r[i] = s[i + m]
  PROVE  Laid(q, r, n - m, p[m + 1], L)
<1> DEFINE c == p[m + 1]
<1>1. b \in 0..L - 1 /\ \A i \in 1..n + 1 : p[i] \in 0..L - 1
  BY DEF Laid
<1>2. \A i \in 1..n + 1 : From(b, p[i], L) \in Int
  BY <1>1, FromRange
<1>3. \A i \in m + 1..n + 1 : From(b, c, L) <= From(b, p[i], L)
  <2> SUFFICES ASSUME NEW i \in m + 1..n + 1 PROVE From(b, c, L) <= From(b, p[i], L)
    OBVIOUS
  <2>1. CASE i = m + 1
    BY <1>2, <2>1
  <2>2. CASE i # m + 1
    <3>1. m + 1 \in 1..n /\ i \in (m + 1) + 1..n + 1 /\ i \in 1..n + 1
      BY <2>2
    <3>2. From(b, c, L) < From(b, p[i], L)
      BY <3>1 DEF Laid
    <3> QED
      BY <1>2, <3>1, <3>2
  <2> QED
    BY <2>1, <2>2
<1>4. \A i \in m + 1..n + 1 : From(c, p[i], L) = From(b, p[i], L) - From(b, c, L)
  BY <1>1, <1>3, FromLater
<1>5. From(b, c, L) \in Int /\ q[1] = c
  BY <1>2
<1> HIDE DEF c
<1>6. \A i \in 1..n - m : r[i] \in Nat \ {0} /\ From(c, q[i], L) + r[i] = From(c, q[i + 1], L)
  <2> SUFFICES ASSUME NEW i \in 1..n - m
               PROVE  r[i] \in Nat \ {0} /\ From(c, q[i], L) + r[i] = From(c, q[i + 1], L)
    OBVIOUS
  <2>1. /\ q[i] = p[i + m] /\ q[i + 1] = p[i + m + 1] /\ r[i] = s[i + m]
        /\ i + m \in 1..n /\ i + m \in m + 1..n + 1 /\ i + m + 1 \in m + 1..n + 1
    OBVIOUS
  <2>2. s[i + m] \in Nat \ {0} /\ From(b, p[i + m], L) + s[i + m] = From(b, p[i + m + 1], L)
    BY <2>1 DEF Laid
  <2> QED
    BY <1>2, <1>4, <1>5, <2>1, <2>2
<1>7. \A i \in 1..n - m : \A k \in i + 1..n - m + 1 : From(c, q[i], L) < From(c, q[k], L)
  <2> SUFFICES ASSUME NEW i \in 1..n - m, NEW k \in i + 1..n - m + 1
               PROVE  From(c, q[i], L) < From(c, q[k], L)
    OBVIOUS
  <2>1. /\ q[i] = p[i + m] /\ q[k] = p[k + m] /\ i + m \in 1..n /\ k + m \in i + m + 1..n + 1
        /\ i + m \in m + 1..n + 1 /\ k + m \in m + 1..n + 1
    OBVIOUS
  <2>2. From(b, p[i + m], L) < From(b, p[k + m], L)
    BY <2>1 DEF Laid
  <2>3. From(b, p[i + m], L) \in Int /\ From(b, p[k + m], L) \in Int
    BY <1>2, <2>1
  <2> QED
    BY <1>4, <1>5, <2>1, <2>2, <2>3
<1>8. ASSUME NEW i \in 1..n - m + 1 PROVE q[i] \in 0..L - 1
  <2>1. i + m \in 1..n + 1
    OBVIOUS
  <2> QED
    BY <1>1, <2>1
<1> QED
  BY <1>5, <1>6, <1>7, <1>8 DEF Laid, c
-----------------------------------------------------------------------------
(* The Broadband Adapter receives.                                         *)

BbaPlaces == {"idle", "txcopy", "txgo", "rxcopy", "rxtail", "rxreset", "rxstart"}
RingFrames == [pos : 0..RingLen - 1, size : FrameSizes, st : {"early", "good", "bad"}]

Starts == [i \in 1..Len(ring) + 1 |-> IF i <= Len(ring) THEN ring[i].pos ELSE cbr]
Rooms  == [i \in 1..Len(ring) |-> Room(ring[i].size)]

BbaTypes ==
  /\ drv \in [name : {"bba_hw", "bba"}, up : BOOLEAN]
  /\ bpc \in [Threads -> BbaPlaces] /\ bjob = [t \in Threads |-> bjob[t]]
  /\ currx \in 0..RxWrap - 1 /\ currx % 4 = 0
  /\ cbr \in 0..RingLen - 1 /\ capr \in 0..RingLen - 1 /\ ring \in Seq(RingFrames)

\* One thread at most is in the driver, and none before it is up.
OneIn ==
  /\ \A t, u \in Threads : ~Idle(t) /\ ~Idle(u) => t = u
  /\ ~drv.up => \A t \in Threads : Idle(t)

\* The frames lie one behind the other from the chip's idea of the reader on; a receiver
\* that is off has none.
RingLaid ==
  /\ Laid(Starts, Rooms, Len(ring), ReadPos, RingLen)
  /\ ~rxOn => ring = <<>> /\ cbr = 0 /\ capr = TailOf(0)

\* Where the driver's position is: at the first frame, and while the chip has yet to be
\* told, at the second perhaps.
Reader ==
  /\ ~InRx => Wrapped(currx) = ReadPos
  /\ ~drv.up => ~rxOn
  /\ \A t \in Threads :
       /\ bpc[t] = "rxcopy" => ring # <<>> /\ bjob[t].size = ring[1].size
       /\ bpc[t] = "rxtail" => \E m \in 0..Len(ring) : m <= 1 /\ Wrapped(currx) = Starts[m + 1]
       /\ bpc[t] \in {"rxcopy", "rxtail", "rxreset"} => rxOn
       /\ bpc[t] = "rxstart" => ~rxOn

BbaReceives == BbaTypes /\ OneIn /\ RingLaid /\ Reader

LEMMA Widths ==
  /\ RingLen \in Nat \ {0} /\ RxWrap \in Nat \ {0} /\ RxWrap % RingLen = 0 /\ RxWrap % 4 = 0
  /\ \A size \in FrameSizes : size \in Nat /\ Room(size) \in Nat \ {0}
<1>1. RingLen \in Nat \ {0} /\ RxWrap \in Nat \ {0} /\ RxWrap % RingLen = 0 /\ RingLen % 4 = 0
  BY BbaLinkAssumption
<1>2. 4 \in Nat \ {0} /\ RxWrap \in Int
  BY <1>1
<1>3. (RxWrap % RingLen) % 4 = RxWrap % 4
  BY <1>1, <1>2, ModMod
<1>4. RxWrap % 4 = 0
  BY <1>1, <1>3
<1>5. \A size \in FrameSizes : size \in Nat /\ Room(size) \in Nat \ {0}
  BY BbaLinkAssumption DEF Room
<1> QED
  BY <1>1, <1>4, <1>5

\* The tail register holds the position less 16.
LEMMA TailPos ==
  ASSUME NEW x \in Int
  PROVE  TailOf(x) \in 0..RingLen - 1 /\ Wrapped(TailOf(x) + 16) = Wrapped(x)
<1>1. RingLen \in Nat \ {0} /\ x - 16 \in Int /\ 16 \in Int
  BY Widths
<1>2. (((x - 16) % RingLen) + 16) % RingLen = ((x - 16) + 16) % RingLen
  BY <1>1, ModAdd
<1>3. (x - 16) % RingLen \in 0..RingLen - 1
  BY <1>1, ModRange
<1>4. (x - 16) + 16 = x
  OBVIOUS
<1> QED
  BY <1>2, <1>3, <1>4 DEF TailOf, Wrapped

LEMMA FromBack ==
  ASSUME NEW L \in Nat \ {0}, NEW b \in 0..L - 1, NEW p \in 0..L - 1
  PROVE  (b + From(b, p, L)) % L = p /\ From(b, b, L) = 0
<1>1. b + From(b, p, L) = p \/ b + From(b, p, L) = p + L
  BY DEF From
<1>2. p % L = p /\ (p + L) % L = p
  BY ModRound
<1>3. From(b, b, L) = 0
  BY DEF From
<1> QED
  BY <1>1, <1>2, <1>3

\* The driver's position after a frame is where the chip has put the next one.
LEMMA NextRxPos ==
  ASSUME NEW pos \in Int, pos % 4 = 0, NEW size \in FrameSizes
  PROVE  /\ NextRx(pos, size) \in 0..RxWrap - 1 /\ NextRx(pos, size) % 4 = 0
         /\ Wrapped(NextRx(pos, size)) = Wrapped(Wrapped(pos) + Room(size))
<1> DEFINE x == ((pos + size + 4 + 3) \div 4) * 4
<1>1. size \in Nat /\ Room(size) \in Int /\ RingLen \in Nat \ {0} /\ RxWrap \in Nat \ {0} /\ 4 \in Nat \ {0}
  BY Widths
<1>2. x \in Int /\ x % 4 = 0
  BY <1>1
<1>3. x = pos + Room(size)
  BY <1>1 DEF Room
<1>4. NextRx(pos, size) = x % RxWrap
  BY DEF NextRx
<1> HIDE DEF x
<1>5. x % RxWrap \in 0..RxWrap - 1
  BY <1>1, <1>2, ModRange
<1>6. (x % RxWrap) % 4 = x % 4
  BY <1>1, <1>2, Widths, ModMod
<1>7. (x % RxWrap) % RingLen = x % RingLen
  BY <1>1, <1>2, Widths, ModMod
<1>8. ((pos % RingLen) + Room(size)) % RingLen = (pos + Room(size)) % RingLen
  BY <1>1, ModAdd
<1> QED
  BY <1>2, <1>3, <1>4, <1>5, <1>6, <1>7, <1>8 DEF Wrapped

LEMMA ReadPosRange == capr \in 0..RingLen - 1 => ReadPos \in 0..RingLen - 1
<1> SUFFICES ASSUME capr \in 0..RingLen - 1 PROVE ReadPos \in 0..RingLen - 1
  OBVIOUS
<1>1. capr + 16 \in Int /\ RingLen \in Nat \ {0}
  BY Widths
<1> QED
  BY <1>1, ModRange DEF ReadPos, Wrapped

\* The facts about the ring that every step uses.
LEMMA RingFacts ==
  ASSUME BbaTypes, RingLaid
  PROVE  /\ Len(ring) \in Nat /\ Starts[1] = ReadPos /\ ReadPos \in 0..RingLen - 1
         /\ Starts[Len(ring) + 1] = cbr
         /\ \A i \in 1..Len(ring) : /\ ring[i] \in RingFrames /\ Starts[i] = ring[i].pos
                                    /\ Rooms[i] = Room(ring[i].size)
         /\ \A i, k \in 1..Len(ring) + 1 : Starts[i] = Starts[k] => i = k
         /\ ReadPos = IF ring = <<>> THEN cbr ELSE Head(ring).pos
<1>1. Len(ring) \in Nat /\ ReadPos \in 0..RingLen - 1
  BY ReadPosRange DEF BbaTypes
<1>2. Starts[1] = ReadPos
  BY DEF RingLaid, Laid
<1>3. Starts[Len(ring) + 1] = cbr
  BY <1>1 DEF Starts
<1>4. \A i \in 1..Len(ring) : /\ ring[i] \in RingFrames /\ Starts[i] = ring[i].pos
                              /\ Rooms[i] = Room(ring[i].size)
  BY <1>1 DEF Starts, Rooms, BbaTypes
<1>5. \A i, k \in 1..Len(ring) + 1 : Starts[i] = Starts[k] => i = k
  BY <1>1, Widths, LaidApart DEF RingLaid
<1>6. ReadPos = IF ring = <<>> THEN cbr ELSE Head(ring).pos
  <2>1. CASE ring = <<>>
    BY <1>2, <1>3, <2>1
  <2>2. CASE ring # <<>>
    <3>1. Len(ring) > 0 /\ Head(ring) = ring[1] /\ 1 \in 1..Len(ring)
      BY <1>1, <2>2 DEF BbaTypes
    <3> QED
      BY <1>2, <1>4, <2>2, <3>1
  <2> QED
    BY <2>1, <2>2
<1> QED
  BY <1>1, <1>2, <1>3, <1>4, <1>5, <1>6

\* The chip takes back whole frames.
LEMMA TakenBack ==
  ASSUME BbaTypes, RingLaid, NEW m \in 0..Len(ring)
  PROVE  /\ Remaining(Starts[m + 1]) \in Seq(RingFrames)
         /\ Len(Remaining(Starts[m + 1])) = Len(ring) - m
         /\ \A i \in 1..Len(ring) - m : Remaining(Starts[m + 1])[i] = ring[i + m]
<1>0. Len(ring) \in Nat /\ \A i \in 1..Len(ring) : Starts[i] = ring[i].pos
  BY RingFacts
<1>1. DOMAIN ring = 1..Len(ring)
  BY DEF BbaTypes
<1>2. CASE m < Len(ring)
  <2>1. m + 1 \in DOMAIN ring /\ ring[m + 1].pos = Starts[m + 1]
    BY <1>0, <1>1, <1>2
  <2>2. \A i \in DOMAIN ring : ring[i].pos = Starts[m + 1] => i = m + 1
    BY <1>0, <1>1, <1>2, RingFacts
  <2>3. (CHOOSE i \in DOMAIN ring : ring[i].pos = Starts[m + 1]) = m + 1
    BY <2>1, <2>2
  <2>4. Remaining(Starts[m + 1]) = SubSeq(ring, m + 1, Len(ring))
    BY <2>1, <2>3 DEF Remaining
  <2>5. /\ m + 1 \in Int /\ Len(ring) \in Int
        /\ \A i \in m + 1..Len(ring) : ring[i] \in RingFrames
    BY <1>0, RingFacts
  <2>6. /\ SubSeq(ring, m + 1, Len(ring)) \in Seq(RingFrames)
        /\ Len(SubSeq(ring, m + 1, Len(ring))) =
             (IF m + 1 <= Len(ring) THEN Len(ring) - (m + 1) + 1 ELSE 0)
        /\ \A i \in 1..Len(ring) - (m + 1) + 1 : SubSeq(ring, m + 1, Len(ring))[i] = ring[m + 1 + i - 1]
    BY <2>5, SubSeqProperties
  <2>7. \A i \in 1..Len(ring) - m : i \in 1..Len(ring) - (m + 1) + 1 /\ m + 1 + i - 1 = i + m
    BY <1>0
  <2>8. Len(ring) - (m + 1) + 1 = Len(ring) - m /\ m + 1 <= Len(ring)
    BY <1>0, <1>2
  <2>9. Len(SubSeq(ring, m + 1, Len(ring))) = Len(ring) - m
    BY <2>6, <2>8
  <2>10. \A i \in 1..Len(ring) - m : SubSeq(ring, m + 1, Len(ring))[i] = ring[i + m]
    BY <2>6, <2>7
  <2> QED
    BY <2>4, <2>6, <2>9, <2>10
<1>3. CASE ~(m < Len(ring))
  <2>1. m = Len(ring) /\ Starts[m + 1] = cbr
    BY <1>0, <1>3, RingFacts
  <2>2. \A i \in DOMAIN ring : ring[i].pos # cbr
    BY <1>0, <1>1, <2>1, RingFacts
  <2>3. Remaining(Starts[m + 1]) = <<>>
    BY <2>1, <2>2 DEF Remaining
  <2> QED
    BY <1>0, <2>1, <2>3
<1> QED
  BY <1>2, <1>3

\* A step that leaves the ring and the positions alone.
LEMMA RingKept ==
  ASSUME RingLaid, UNCHANGED <<ring, cbr, capr, rxOn>>
  PROVE  RingLaid' /\ ReadPos' = ReadPos /\ Starts' = Starts
<1>1. Starts' = Starts
  BY DEF Starts
<1>2. Rooms' = Rooms
  BY DEF Rooms
<1>3. ReadPos' = ReadPos
  BY DEF ReadPos
<1>4. Len(ring)' = Len(ring)
  OBVIOUS
<1> QED
  BY <1>1, <1>2, <1>3, <1>4 DEF RingLaid

LEMMA BbaReceivesInit == BbaInit => BbaReceives
<1> SUFFICES ASSUME BbaInit PROVE BbaReceives
  OBVIOUS
<1>1. /\ drv \in [name : {"bba_hw", "bba"}, up : BOOLEAN] /\ drv.up = FALSE
      /\ \A t \in Threads : bpc[t] = "idle"
      /\ currx = 0 /\ cbr = 0 /\ capr = TailOf(0) /\ ring = <<>> /\ rxOn = FALSE
  BY DEF BbaInit
<1>2. RingLen \in Nat \ {0} /\ RxWrap \in Nat \ {0}
  BY Widths
<1>3. BbaTypes
  <2>1. bpc \in [Threads -> BbaPlaces] /\ bjob = [t \in Threads |-> bjob[t]]
    BY DEF BbaInit, BbaPlaces
  <2>2. capr \in 0..RingLen - 1
    BY <1>1, TailPos
  <2> QED
    BY <1>1, <1>2, <2>1, <2>2 DEF BbaTypes
<1>4. OneIn
  BY <1>1 DEF OneIn, Idle
<1>5. ReadPos = 0 /\ Wrapped(currx) = 0
  <2>1. Wrapped(0) = 0
    BY <1>2, ModRound DEF Wrapped
  <2> QED
    BY <1>1, <2>1, TailPos DEF ReadPos
<1>6. RingLaid
  <2>1. Len(ring) = 0 /\ Starts[1] = 0
    BY <1>1 DEF Starts
  <2>2. \A k \in 1..0 + 1 : k = 1
    OBVIOUS
  <2>3. Laid(Starts, Rooms, Len(ring), ReadPos, RingLen)
    BY <1>2, <1>5, <2>1, <2>2 DEF Laid
  <2> QED
    BY <1>1, <2>3 DEF RingLaid
<1>7. Reader
  BY <1>1, <1>5 DEF Reader, InRx
<1> QED
  BY <1>3, <1>4, <1>6, <1>7 DEF BbaReceives

LEMMA BringupReceives ==
  ASSUME BbaReceives, BbaBringup PROVE BbaReceives'
<1> USE DEF BbaReceives
<1>1. /\ ~drv.up /\ drv' = [drv EXCEPT !.up = TRUE] /\ currx' = 0 /\ rxOn' = TRUE /\ capr' = TailOf(0)
      /\ UNCHANGED <<bpc, bjob, cbr, ring>> /\ ~rxOn
  BY DEF BbaBringup, RtlStart, Reader
<1>2. RingLen \in Nat \ {0} /\ RxWrap \in Nat \ {0}
  BY Widths
<1>3. BbaTypes'
  <2>1. drv' \in [name : {"bba_hw", "bba"}, up : BOOLEAN]
    BY <1>1 DEF BbaTypes
  <2>2. currx' \in 0..RxWrap - 1 /\ currx' % 4 = 0
    BY <1>1, <1>2
  <2>3. capr' \in 0..RingLen - 1
    BY <1>1, TailPos
  <2>4. cbr' \in 0..RingLen - 1 /\ ring' \in Seq(RingFrames)
    BY <1>1 DEF BbaTypes
  <2>5. bpc' \in [Threads -> BbaPlaces] /\ bjob' = [t \in Threads |-> bjob'[t]]
    BY <1>1 DEF BbaTypes
  <2> QED
    BY <2>1, <2>2, <2>3, <2>4, <2>5 DEF BbaTypes
<1>4. \A t \in Threads : bpc[t] = "idle"
  BY <1>1 DEF OneIn, Idle
<1>5. OneIn'
  BY <1>1, <1>4 DEF OneIn, Idle
<1>6. capr' = capr /\ ring = <<>> /\ cbr = 0
  BY <1>1 DEF RingLaid
<1>7. RingLaid' /\ ReadPos' = ReadPos
  <2>1. Starts' = Starts /\ Rooms' = Rooms /\ Len(ring)' = Len(ring)
    BY <1>1 DEF Starts, Rooms
  <2>2. ReadPos' = ReadPos
    BY <1>6 DEF ReadPos
  <2> QED
    BY <1>1, <2>1, <2>2 DEF RingLaid
<1>8. Wrapped(currx') = ReadPos'
  BY <1>1, TailPos DEF ReadPos
<1>9. Reader'
  BY <1>1, <1>4, <1>8 DEF Reader, InRx
<1> QED
  BY <1>3, <1>5, <1>7, <1>9

\* A step of thread t within the driver, or of the chip.
LEMMA OneInKept ==
  ASSUME BbaTypes, OneIn, NEW t \in Threads, ~Idle(t), NEW at, bpc' = [bpc EXCEPT ![t] = at],
         UNCHANGED drv
  PROVE  OneIn' /\ drv.up /\ \A u \in Threads \ {t} : bpc[u] = "idle" /\ bpc'[u] = "idle"
BY DEF BbaTypes, OneIn, Idle

LEMMA OneInEnter ==
  ASSUME BbaTypes, OneIn, NEW t \in Threads, Enter(t), ~overlap', NEW at, bpc' = [bpc EXCEPT ![t] = at],
         UNCHANGED drv
  PROVE  OneIn' /\ drv.up /\ bpc[t] = "idle" /\ \A u \in Threads \ {t} : bpc[u] = "idle" /\ bpc'[u] = "idle"
BY DEF BbaTypes, OneIn, Idle, Enter, Busy

\* Transmission does not touch what receives.
LEMMA TxReceives ==
  ASSUME BbaReceives, NEW t \in Threads, TxBegin(t) \/ TxCopy(t) \/ TxGo(t), ~overlap'
  PROVE  BbaReceives'
<1> USE DEF BbaReceives
<1>1. UNCHANGED <<drv, bbaRx>>
  BY DEF TxBegin, TxCopy, TxGo, bbaRx
<1>2. /\ bpc' \in {[bpc EXCEPT ![t] = "txcopy"], [bpc EXCEPT ![t] = "txgo"], [bpc EXCEPT ![t] = "idle"]}
      /\ bpc[t] \in {"idle", "txcopy", "txgo"} /\ (Enter(t) \/ ~Idle(t))
  BY DEF TxBegin, TxCopy, TxGo, Enter, To, Leave, Idle
<1>3. PICK at \in {"txcopy", "txgo", "idle"} : bpc' = [bpc EXCEPT ![t] = at]
  BY <1>2
<1>4. OneIn' /\ \A u \in Threads \ {t} : bpc[u] = "idle" /\ bpc'[u] = "idle"
  BY <1>1, <1>2, <1>3, OneInEnter, OneInKept
<1>5. bpc'[t] = at
  BY <1>3 DEF BbaTypes
<1>6. bjob' = [u \in Threads |-> bjob'[u]]
  BY DEF TxBegin, TxCopy, TxGo, Leave, BbaTypes
<1>7. BbaTypes'
  BY <1>1, <1>3, <1>6 DEF BbaTypes, BbaPlaces, bbaRx
<1>8. RingLaid' /\ ReadPos' = ReadPos
  BY <1>1, RingKept DEF bbaRx
<1>9. ~InRx /\ \A u \in Threads : bpc'[u] \in {"txcopy", "txgo", "idle"}
  BY <1>2, <1>4, <1>5 DEF InRx
<1>10. Reader'
  BY <1>1, <1>8, <1>9 DEF Reader, InRx, bbaRx
<1> QED
  BY <1>4, <1>7, <1>8, <1>10

\* Nothing else is in the driver, so the driver's position is the chip's.
LEMMA LookReceives ==
  ASSUME BbaReceives, NEW t \in Threads, RxLook(t), ~overlap' PROVE BbaReceives'
<1> USE DEF BbaReceives
<1>1. UNCHANGED <<drv, currx, rxOn, cbr, capr, ring>> /\ Enter(t) /\ ReadPos # cbr
  BY DEF RxLook, bbaRx, Empty
<1>2. PICK h \in HeadersAt(Wrapped(currx)) :
        /\ bpc' = [bpc EXCEPT ![t] = IF h.st = "bad" THEN "rxreset" ELSE "rxcopy"]
        /\ bjob' = [bjob EXCEPT ![t] = h]
  BY DEF RxLook, To
<1>3. /\ OneIn' /\ drv.up /\ bpc[t] = "idle"
      /\ \A u \in Threads \ {t} : bpc[u] = "idle" /\ bpc'[u] = "idle"
  BY <1>1, <1>2, OneInEnter
<1>4. ~InRx /\ Wrapped(currx) = ReadPos
  BY <1>3 DEF InRx, Reader
<1>5. ring # <<>> /\ Len(ring) \in Nat /\ 1 \in 1..Len(ring) /\ ring[1].pos = ReadPos /\ rxOn
  <2>1. ring # <<>> /\ Len(ring) \in Nat
    BY <1>1, RingFacts
  <2>2. 1 \in 1..Len(ring)
    BY <2>1 DEF BbaTypes
  <2> QED
    BY <2>1, <2>2, RingFacts DEF RingLaid
<1>6. \A i \in DOMAIN ring : ring[i].pos = ReadPos => i = 1
  <2>1. DOMAIN ring = 1..Len(ring)
    BY DEF BbaTypes
  <2> QED
    BY <1>5, <2>1, RingFacts
<1>7. h.size = ring[1].size
  <2>1. 1 \in DOMAIN ring
    BY <1>5 DEF BbaTypes
  <2>2. HeadersAt(ReadPos) = {[st |-> ring[i].st, size |-> ring[i].size, pos |-> ReadPos] :
                                i \in {j \in DOMAIN ring : ring[j].pos = ReadPos}}
    BY <1>5, <2>1 DEF HeadersAt
  <2> QED
    BY <1>2, <1>4, <1>6, <2>2
<1>8. bpc'[t] \in {"rxreset", "rxcopy"} /\ bjob'[t] = h
  BY <1>2 DEF BbaTypes
<1>9. BbaTypes'
  <2>1. bpc' \in [Threads -> BbaPlaces] /\ bjob' = [u \in Threads |-> bjob'[u]]
    BY <1>2 DEF BbaTypes, BbaPlaces
  <2> QED
    BY <1>1, <2>1 DEF BbaTypes
<1>10. RingLaid' /\ ReadPos' = ReadPos /\ Starts' = Starts
  BY <1>1, RingKept
<1>11. Reader'
  <2>1. ~InRx'
    BY <1>3, <1>8 DEF InRx
  <2> QED
    BY <1>1, <1>3, <1>4, <1>5, <1>7, <1>8, <1>10, <2>1 DEF Reader
<1> QED
  BY <1>3, <1>9, <1>10, <1>11

\* The position behind the first frame is where the second one begins.
LEMMA TakeReceives ==
  ASSUME BbaReceives, NEW t \in Threads, RxTake(t) PROVE BbaReceives'
<1> USE DEF BbaReceives
<1>1. /\ UNCHANGED <<drv, rxOn, cbr, capr, ring, bjob>> /\ bpc[t] = "rxcopy" /\ ~Idle(t)
      /\ bpc' = [bpc EXCEPT ![t] = "rxtail"] /\ currx' = NextRx(currx, bjob[t].size)
  BY DEF RxTake, To, Idle
<1>2. OneIn' /\ drv.up /\ \A u \in Threads \ {t} : bpc[u] = "idle" /\ bpc'[u] = "idle"
  BY <1>1, OneInKept
<1>3. bpc'[t] = "rxtail"
  BY <1>1 DEF BbaTypes
<1>4. /\ Wrapped(currx) = ReadPos /\ ring # <<>> /\ bjob[t].size = ring[1].size /\ rxOn
      /\ Len(ring) \in Nat /\ 1 \in 1..Len(ring)
  <2>1. ~InRx
    BY <1>1, <1>2 DEF InRx
  <2>2. ring # <<>> /\ Len(ring) \in Nat
    BY <1>1, RingFacts DEF Reader
  <2>3. 1 \in 1..Len(ring)
    BY <2>2 DEF BbaTypes
  <2> QED
    BY <1>1, <2>1, <2>2, <2>3 DEF Reader
<1>5. /\ bjob[t].size \in FrameSizes /\ Rooms[1] = Room(bjob[t].size)
      /\ Starts[1] = ReadPos /\ ReadPos \in 0..RingLen - 1 /\ RingLen \in Nat \ {0}
      /\ Rooms[1] \in Int
  <2>1. ring[1] \in RingFrames /\ Rooms[1] = Room(ring[1].size)
    BY <1>4, RingFacts
  <2>2. ring[1].size \in FrameSizes
    BY <2>1 DEF RingFrames
  <2>3. Room(ring[1].size) \in Int /\ RingLen \in Nat \ {0}
    BY <2>2, Widths
  <2> QED
    BY <1>4, <2>1, <2>2, <2>3, RingFacts
<1>6. /\ currx' \in 0..RxWrap - 1 /\ currx' % 4 = 0
      /\ Wrapped(currx') = Wrapped(ReadPos + Rooms[1])
  BY <1>1, <1>4, <1>5, NextRxPos DEF BbaTypes
<1>7. Wrapped(currx') = Starts[2]
  <2>1. /\ Starts[1 + 1] \in 0..RingLen - 1
        /\ From(ReadPos, Starts[1], RingLen) + Rooms[1] = From(ReadPos, Starts[1 + 1], RingLen)
    BY <1>4 DEF RingLaid, Laid
  <2>2. From(ReadPos, Starts[2], RingLen) = Rooms[1]
    <3>1. From(ReadPos, ReadPos, RingLen) = 0 /\ 1 + 1 = 2
      BY <1>5, FromBack
    <3>2. From(ReadPos, Starts[2], RingLen) = 0 + Rooms[1]
      BY <1>5, <2>1, <3>1
    <3> QED
      BY <1>5, <3>2
  <2>3. (ReadPos + From(ReadPos, Starts[2], RingLen)) % RingLen = Starts[2]
    <3>1. Starts[2] \in 0..RingLen - 1
      BY <2>1
    <3> QED
      BY <1>5, <3>1, FromBack
  <2> QED
    BY <1>6, <2>2, <2>3 DEF Wrapped
<1>8. BbaTypes'
  <2>1. bpc' \in [Threads -> BbaPlaces]
    BY <1>1 DEF BbaTypes, BbaPlaces
  <2> QED
    BY <1>1, <1>6, <2>1 DEF BbaTypes
<1>9. RingLaid' /\ ReadPos' = ReadPos /\ Starts' = Starts
  BY <1>1, RingKept
<1>10. Reader'
  <2>1. InRx'
    BY <1>3 DEF InRx
  <2>2. 1 \in 0..Len(ring) /\ Wrapped(currx)' = Starts[1 + 1]
    BY <1>4, <1>7
  <2>3. \E m \in 0..Len(ring)' : m <= 1 /\ Wrapped(currx)' = Starts'[m + 1]
    BY <1>1, <1>9, <2>2
  <2> QED
    BY <1>1, <1>2, <1>3, <1>4, <2>1, <2>3 DEF Reader
<1> QED
  BY <1>2, <1>8, <1>9, <1>10

\* The chip takes back what lies before the driver's position.
LEMMA TailReceives ==
  ASSUME BbaReceives, NEW t \in Threads, RxTail(t) PROVE BbaReceives'
<1> USE DEF BbaReceives
<1>1. /\ UNCHANGED <<drv, rxOn, cbr, currx>> /\ bpc[t] = "rxtail" /\ ~Idle(t)
      /\ bpc' = [bpc EXCEPT ![t] = "idle"] /\ bjob' = [bjob EXCEPT ![t] = NoHeader]
      /\ capr' = TailOf(currx) /\ ring' = Remaining(Wrapped(currx))
  BY DEF RxTail, Leave, To, Idle
<1>2. OneIn' /\ drv.up /\ \A u \in Threads \ {t} : bpc[u] = "idle" /\ bpc'[u] = "idle"
  BY <1>1, OneInKept
<1>3. bpc'[t] = "idle"
  BY <1>1 DEF BbaTypes
<1>4. PICK m \in 0..Len(ring) : Wrapped(currx) = Starts[m + 1]
  BY <1>1 DEF Reader
<1>5. rxOn /\ Len(ring) \in Nat /\ Starts[m + 1] \in 0..RingLen - 1 /\ RingLen \in Nat \ {0}
  BY <1>1, RingFacts, Widths DEF Reader, RingLaid, Laid
<1>6. capr' \in 0..RingLen - 1 /\ ReadPos' = Starts[m + 1]
  <2>1. currx \in Int
    BY DEF BbaTypes
  <2> QED
    BY <1>1, <1>4, <2>1, TailPos DEF ReadPos
<1>7. /\ ring' \in Seq(RingFrames) /\ Len(ring') = Len(ring) - m
      /\ \A i \in 1..Len(ring) - m : ring'[i] = ring[i + m]
  BY <1>1, <1>4, TakenBack
<1>8. /\ \A i \in 1..Len(ring) - m + 1 : Starts'[i] = Starts[i + m]
      /\ \A i \in 1..Len(ring) - m : Rooms'[i] = Rooms[i + m]
  <2>1. \A i \in 1..Len(ring) - m : i + m \in 1..Len(ring) /\ i \in 1..Len(ring) - m + 1
    BY <1>5
  <2>2. \A i \in 1..Len(ring) - m + 1 : i \in 1..Len(ring) - m \/ i = Len(ring) - m + 1
    BY <1>5
  <2>3. \A i \in 1..Len(ring) - m : Starts'[i] = ring'[i].pos /\ Rooms'[i] = Room(ring'[i].size)
    BY <1>5, <1>7, <2>1 DEF Starts, Rooms
  <2>4. \A i \in 1..Len(ring) - m : Starts'[i] = Starts[i + m] /\ Rooms'[i] = Rooms[i + m]
    <3> SUFFICES ASSUME NEW i \in 1..Len(ring) - m
                 PROVE  Starts'[i] = Starts[i + m] /\ Rooms'[i] = Rooms[i + m]
      OBVIOUS
    <3> DEFINE j == i + m
    <3>1. j \in 1..Len(ring) /\ ring'[i] = ring[j]
      BY <1>7, <2>1
    <3> HIDE DEF j
    <3>2. Starts[j] = ring[j].pos /\ Rooms[j] = Room(ring[j].size)
      BY <3>1, RingFacts
    <3> QED
      BY <2>3, <3>1, <3>2 DEF j
  <2>5. Starts'[Len(ring) - m + 1] = cbr /\ (Len(ring) - m + 1) + m = Len(ring) + 1
    <3> DEFINE k == Len(ring) - m
    <3>1. k \in Nat /\ Len(ring') = k
      BY <1>5, <1>7
    <3> HIDE DEF k
    <3>2. Starts'[k + 1] = cbr
      BY <1>1, <3>1 DEF Starts
    <3> QED
      BY <1>5, <3>2 DEF k
  <2> QED
    BY <2>2, <2>4, <2>5, RingFacts
<1>9. Laid(Starts', Rooms', Len(ring) - m, Starts[m + 1], RingLen)
  BY <1>5, <1>8, LaidDrop DEF RingLaid
<1>10. BbaTypes'
  <2>1. bpc' \in [Threads -> BbaPlaces] /\ bjob' = [u \in Threads |-> bjob'[u]]
    BY <1>1 DEF BbaTypes, BbaPlaces
  <2> QED
    BY <1>1, <1>6, <1>7, <2>1 DEF BbaTypes
<1>11. RingLaid'
  BY <1>1, <1>5, <1>6, <1>7, <1>9 DEF RingLaid
<1>12. Reader'
  <2>1. Wrapped(currx)' = ReadPos'
    BY <1>1, <1>4, <1>6
  <2> QED
    BY <1>1, <1>2, <1>3, <1>5, <2>1 DEF Reader
<1> QED
  BY <1>2, <1>10, <1>11, <1>12

\* An empty ring that begins at its start.
LEMMA EmptyLaid ==
  ASSUME ring' = <<>>, cbr' = 0, capr' = TailOf(0)
  PROVE  RingLaid' /\ ReadPos' = 0 /\ Starts'[1] = 0 /\ Wrapped(0) = 0 /\ Len(ring') = 0
<1>1. RingLen \in Nat \ {0} /\ Wrapped(0) = 0
  BY Widths, ModRound DEF Wrapped
<1>2. ReadPos' = 0
  BY <1>1, TailPos DEF ReadPos
<1>3. Len(ring)' = 0 /\ Starts'[1] = 0 /\ \A k \in 1..0 + 1 : k = 1
  BY DEF Starts
<1>4. Laid(Starts', Rooms', 0, 0, RingLen)
  BY <1>1, <1>3 DEF Laid
<1> QED
  BY <1>1, <1>2, <1>3, <1>4 DEF RingLaid

\* A reset forgets the ring, and the restart begins at its start again.
LEMMA ResetReceives ==
  ASSUME BbaReceives, NEW t \in Threads, RxReset(t) \/ RxRestart(t) PROVE BbaReceives'
<1> USE DEF BbaReceives
<1>1. /\ UNCHANGED <<drv, bjob>> /\ bpc[t] \in {"rxreset", "rxstart"} /\ ~Idle(t)
      /\ bpc' \in {[bpc EXCEPT ![t] = "rxstart"], [bpc EXCEPT ![t] = "rxtail"]}
  BY DEF RxReset, RxRestart, To, Idle
<1>2. OneIn' /\ drv.up /\ \A u \in Threads \ {t} : bpc[u] = "idle" /\ bpc'[u] = "idle"
  BY <1>1, OneInKept
<1>3. RingLen \in Nat \ {0} /\ RxWrap \in Nat \ {0} /\ TailOf(0) \in 0..RingLen - 1
  BY Widths, TailPos
<1>4. ring' = <<>> /\ cbr' = 0 /\ capr' = TailOf(0)
  <2>1. CASE RxReset(t)
    BY <2>1 DEF RxReset, RtlReset
  <2>2. CASE RxRestart(t)
    BY <2>2 DEF RxRestart, RingLaid, Reader
  <2> QED
    BY <2>1, <2>2
<1>5. currx' \in 0..RxWrap - 1 /\ currx' % 4 = 0
  BY <1>3 DEF RxReset, RxRestart, RtlStart, BbaTypes
<1>6. BbaTypes'
  <2>1. bpc' \in [Threads -> BbaPlaces] /\ bjob' = [u \in Threads |-> bjob'[u]]
    BY <1>1 DEF BbaTypes, BbaPlaces
  <2>2. ring' \in Seq(RingFrames) /\ cbr' \in 0..RingLen - 1
    BY <1>3, <1>4
  <2> QED
    BY <1>1, <1>3, <1>4, <1>5, <2>1, <2>2 DEF BbaTypes
<1>7. RingLaid' /\ ReadPos' = 0 /\ Starts'[1] = 0 /\ Wrapped(0) = 0 /\ Len(ring') = 0
  BY <1>4, EmptyLaid
<1>8. CASE RxReset(t)
  <2>1. bpc'[t] = "rxstart" /\ ~rxOn'
    BY <1>8 DEF RxReset, To, RtlReset, BbaTypes
  <2>2. InRx'
    BY <2>1 DEF InRx
  <2>3. Reader'
    BY <1>1, <1>2, <2>1, <2>2 DEF Reader
  <2> QED
    BY <1>2, <1>6, <1>7, <2>3
<1>9. CASE RxRestart(t)
  <2>1. bpc'[t] = "rxtail" /\ rxOn' /\ currx' = 0
    BY <1>9 DEF RxRestart, To, RtlStart, BbaTypes
  <2>2. InRx'
    BY <2>1 DEF InRx
  <2>3. 0 \in 0..Len(ring') /\ 0 <= 1 /\ Wrapped(currx)' = Starts'[0 + 1]
    BY <1>7, <2>1
  <2>4. \E m \in 0..Len(ring') : m <= 1 /\ Wrapped(currx)' = Starts'[m + 1]
    BY <2>3
  <2>5. Reader'
    BY <1>1, <1>2, <2>1, <2>2, <2>4 DEF Reader
  <2> QED
    BY <1>2, <1>6, <1>7, <2>5
<1> QED
  BY <1>8, <1>9

\* What the chip does leaves the driver where it is.
LEMMA DriverKept ==
  ASSUME BbaReceives, UNCHANGED <<drv, bpc, bjob, currx, rxOn, capr>>,
         ring' \in Seq(RingFrames), cbr' \in 0..RingLen - 1, RingLaid',
         NEW n \in Nat, n = Len(ring'), n >= Len(ring),
         \A i \in 1..Len(ring) + 1 : Starts'[i] = Starts[i],
         \A i \in 1..Len(ring) : ring'[i].size = ring[i].size
  PROVE  BbaReceives'
<1> USE DEF BbaReceives
<1>1. BbaTypes'
  BY DEF BbaTypes
<1>2. OneIn'
  BY DEF OneIn, Idle
<1>3. ReadPos' = ReadPos /\ InRx' = InRx /\ Wrapped(currx)' = Wrapped(currx)
  BY DEF ReadPos, InRx
<1>4. Len(ring) \in Nat
  BY DEF BbaTypes
<1>5. Reader'
  <2> SUFFICES ASSUME NEW t \in Threads
               PROVE  /\ bpc[t] = "rxcopy" => ring' # <<>> /\ bjob[t].size = ring'[1].size
                      /\ bpc[t] = "rxtail" =>
                           \E m \in 0..Len(ring') : m <= 1 /\ Wrapped(currx) = Starts'[m + 1]
    BY <1>3 DEF Reader
  <2>1. CASE bpc[t] = "rxcopy"
    <3>1. ring # <<>> /\ bjob[t].size = ring[1].size
      BY <2>1 DEF Reader
    <3>2. 1 \in 1..Len(ring)
      BY <3>1 DEF BbaTypes
    <3>3. Len(ring') > 0
      BY <1>4, <3>2
    <3> QED
      BY <2>1, <3>1, <3>2, <3>3
  <2>2. CASE bpc[t] = "rxtail"
    <3>1. PICK m \in 0..Len(ring) : m <= 1 /\ Wrapped(currx) = Starts[m + 1]
      BY <2>2 DEF Reader
    <3>2. m \in 0..Len(ring') /\ Starts'[m + 1] = Starts[m + 1]
      BY <1>4
    <3> QED
      BY <2>2, <3>1, <3>2
  <2> QED
    BY <2>1, <2>2
<1> QED
  BY <1>1, <1>2, <1>5

\* A frame arrives behind the last one, where there is room for it.
LEMMA ArriveReceives ==
  ASSUME BbaReceives, NEW size \in FrameSizes, ChipRxBegin(size) PROVE BbaReceives'
<1> USE DEF BbaReceives
<1> DEFINE frame == [pos |-> cbr, size |-> size, st |-> "early"]
           n == Len(ring)
<1>1. /\ UNCHANGED <<drv, bpc, bjob, currx, rxOn, capr>> /\ rxOn /\ Fits(size)
      /\ ring' = Append(ring, frame) /\ cbr' = (cbr + Room(size)) % RingLen
  BY DEF ChipRxBegin, Wrapped
<1>2. /\ n \in Nat /\ ReadPos \in 0..RingLen - 1 /\ cbr \in 0..RingLen - 1 /\ Starts[n + 1] = cbr
      /\ RingLen \in Nat \ {0} /\ Room(size) \in Nat \ {0}
  BY RingFacts, Widths DEF BbaTypes
<1>3. frame \in RingFrames
  BY <1>2 DEF RingFrames
<1>4. /\ ring' \in Seq(RingFrames) /\ Len(ring') = n + 1 /\ ring'[n + 1] = frame
      /\ \A i \in 1..n : ring'[i] = ring[i]
  BY <1>1, <1>3 DEF BbaTypes
<1>5. cbr' \in 0..RingLen - 1
  <2>1. cbr + Room(size) \in Int
    BY <1>2
  <2> QED
    BY <1>1, <1>2, <2>1, ModRange
<1>6. From(ReadPos, Starts[n + 1], RingLen) + Room(size) < RingLen
  BY <1>1, <1>2, FromMod DEF Fits
<1> HIDE DEF frame
<1>7. /\ \A i \in 1..n + 1 : Starts'[i] = Starts[i]
      /\ Starts'[n + 2] = (Starts[n + 1] + Room(size)) % RingLen
      /\ \A i \in 1..n : Rooms'[i] = Rooms[i]
      /\ Rooms'[n + 1] = Room(size)
  <2>1. \A i \in 1..n + 2 : Starts'[i] = IF i <= n + 1 THEN ring'[i].pos ELSE cbr'
    <3>1. (n + 1) + 1 = n + 2
      BY <1>2
    <3> QED
      BY <1>4, <3>1 DEF Starts
  <2>2. \A i \in 1..n + 1 : Rooms'[i] = Room(ring'[i].size)
    BY <1>4 DEF Rooms
  <2>3. frame.pos = cbr /\ frame.size = size
    BY DEF frame
  <2>4. \A i \in 1..n : Starts'[i] = Starts[i] /\ Rooms'[i] = Rooms[i]
    <3> SUFFICES ASSUME NEW i \in 1..n PROVE Starts'[i] = Starts[i] /\ Rooms'[i] = Rooms[i]
      OBVIOUS
    <3>1. i \in 1..n + 1 /\ i \in 1..n + 2 /\ i <= n + 1
      BY <1>2
    <3> QED
      BY <1>4, <2>1, <2>2, <3>1, RingFacts
  <2>5. Starts'[n + 1] = cbr /\ Rooms'[n + 1] = Room(size) /\ Starts'[n + 2] = cbr'
    <3>1. n + 1 \in 1..n + 1 /\ n + 1 \in 1..n + 2 /\ n + 2 \in 1..n + 2 /\ ~(n + 2 <= n + 1) /\ n + 1 <= n + 1
      BY <1>2
    <3> QED
      BY <1>4, <2>1, <2>2, <2>3, <3>1
  <2>6. \A i \in 1..n + 1 : i \in 1..n \/ i = n + 1
    BY <1>2
  <2> QED
    BY <1>1, <1>2, <2>4, <2>5, <2>6
<1>8. Laid(Starts', Rooms', n + 1, ReadPos, RingLen)
  <2>1. Laid(Starts, Rooms, n, ReadPos, RingLen)
    BY DEF RingLaid
  <2> HIDE DEF n
  <2> QED
    BY <1>2, <1>6, <1>7, <2>1, LaidAppend
<1>9. RingLaid'
  <2>1. ReadPos' = ReadPos
    BY <1>1 DEF ReadPos
  <2> QED
    BY <1>1, <1>4, <1>8, <2>1 DEF RingLaid
<1>10. n + 1 \in Nat /\ n + 1 >= n
  BY <1>2
<1> QED
  BY <1>1, <1>4, <1>5, <1>7, <1>9, <1>10, DriverKept

LEMMA EndReceives ==
  ASSUME BbaReceives, ChipRxEnd PROVE BbaReceives'
<1> USE DEF BbaReceives
<1>1. UNCHANGED <<drv, bpc, bjob, currx, rxOn, capr, cbr>> /\ ring # <<>>
  BY DEF ChipRxEnd, Receiving
<1>2. PICK st \in {"good", "bad"} : ring' = [ring EXCEPT ![Len(ring)].st = st]
  BY DEF ChipRxEnd
<1>3. Len(ring) \in Nat /\ \A i \in 1..Len(ring) : ring[i] \in RingFrames
  BY RingFacts
<1>4. Len(ring) \in 1..Len(ring) /\ DOMAIN ring = 1..Len(ring)
  BY <1>1 DEF BbaTypes
<1>5. /\ ring' \in Seq(RingFrames) /\ Len(ring') = Len(ring)
      /\ \A i \in 1..Len(ring) : ring'[i].pos = ring[i].pos /\ ring'[i].size = ring[i].size
  <2>1. [ring[Len(ring)] EXCEPT !.st = st] \in RingFrames
    BY <1>3, <1>4 DEF RingFrames
  <2>2. ring' = [ring EXCEPT ![Len(ring)] = [ring[Len(ring)] EXCEPT !.st = st]]
    BY <1>2
  <2>3. ring' \in Seq(RingFrames) /\ Len(ring') = Len(ring)
    BY <1>4, <2>1, <2>2 DEF BbaTypes
  <2>4. \A i \in 1..Len(ring) :
          ring'[i] = IF i = Len(ring) THEN [ring[i] EXCEPT !.st = st] ELSE ring[i]
    BY <1>4, <2>2
  <2>5. \A i \in 1..Len(ring) : ring'[i].pos = ring[i].pos /\ ring'[i].size = ring[i].size
    BY <1>3, <2>4 DEF RingFrames
  <2> QED
    BY <2>3, <2>5
<1>6. Starts' = Starts /\ Rooms' = Rooms
  BY <1>1, <1>5 DEF Starts, Rooms
<1>7. RingLaid'
  <2>1. ReadPos' = ReadPos
    BY <1>1 DEF ReadPos
  <2> QED
    BY <1>1, <1>5, <1>6, <2>1 DEF RingLaid
<1>8. cbr' \in 0..RingLen - 1
  BY <1>1 DEF BbaTypes
<1> QED
  BY <1>1, <1>3, <1>5, <1>6, <1>7, <1>8, DriverKept

LEMMA ChipTxReceives ==
  ASSUME BbaReceives, ChipTxRead \/ ChipTxDone PROVE BbaReceives'
<1> USE DEF BbaReceives
<1>1. UNCHANGED <<drv, bpc, bjob, currx, rxOn, capr, cbr, ring>>
  BY DEF ChipTxRead, ChipTxDone, bbaRx
<1>2. RingLaid' /\ Starts' = Starts
  BY <1>1, RingKept
<1>3. /\ ring' \in Seq(RingFrames) /\ cbr' \in 0..RingLen - 1
      /\ Len(ring) \in Nat /\ Len(ring') = Len(ring)
  BY <1>1 DEF BbaTypes
<1> QED
  BY <1>1, <1>2, <1>3, DriverKept
-----------------------------------------------------------------------------
(* The Broadband Adapter transmits.                                        *)

Descriptors == [host : BOOLEAN, a : Nat, b : Nat]

\* The descriptor k places after d.
Slot(d, k) == IF d + k < TxN THEN d + k ELSE d + k - TxN

Restarting == \E t \in Threads : bpc[t] = "rxstart"

TxTypes ==
  /\ curtx \in 0..TxN - 1 /\ tsd \in [0..TxN - 1 -> Descriptors] /\ nextId \in Nat
  /\ chipTx \in [d : 0..TxN - 1, a : Nat] /\ due \in Seq(Nat) /\ Len(due) <= TxN

\* From the chip's descriptor on they hold the frames that are due, and the host owns the
\* others; the driver goes on behind the last frame.
Handed ==
  /\ \A k \in 0..Len(due) - 1 :
       LET desc == tsd[Slot(chipTx.d, k)]
       IN  ~desc.host /\ desc.a = due[k + 1] /\ desc.b = due[k + 1]
  /\ \A k \in Len(due)..TxN - 1 : tsd[Slot(chipTx.d, k)].host
  /\ chipTx.a # NoFrame => due # <<>> /\ chipTx.a = due[1]
  /\ ~drv.up \/ Restarting => due = <<>> /\ chipTx.d = 0
  /\ ~Restarting => curtx = Slot(chipTx.d, Len(due))

\* A frame that is being copied is in the driver's descriptor, which the host owns.
Copied ==
  \A t \in Threads : bpc[t] \in {"txcopy", "txgo"} =>
    /\ bjob[t].d = curtx /\ bjob[t].id \in Nat /\ Len(due) < TxN
    /\ tsd[curtx].host /\ tsd[curtx].a = bjob[t].id
    /\ bpc[t] = "txgo" => tsd[curtx].b = bjob[t].id

BbaSends == TxTypes /\ Handed /\ Copied

LEMMA SlotFacts ==
  ASSUME NEW d \in 0..TxN - 1
  PROVE  /\ \A k \in 0..TxN : Slot(d, k) \in 0..TxN - 1
         /\ \A k \in 0..TxN - 1 : Slot(d, k) \in 0..TxN - 1
         /\ \A k, l \in 0..TxN - 1 : Slot(d, k) = Slot(d, l) => k = l
         /\ Slot(d, 0) = d /\ Slot(d, TxN) = d
         /\ \A k \in 0..TxN - 1 : /\ NextTx(Slot(d, k)) = Slot(d, k + 1)
                                  /\ Slot(NextTx(d), k) = Slot(d, k + 1)
         /\ NextTx(d) \in 0..TxN - 1
<1>1. TxN \in Nat \ {0}
  BY BbaLinkAssumption
<1>2. \A x \in 0..TxN - 1 : NextTx(x) = IF x + 1 < TxN THEN x + 1 ELSE 0
  <2> SUFFICES ASSUME NEW x \in 0..TxN - 1 PROVE NextTx(x) = IF x + 1 < TxN THEN x + 1 ELSE 0
    OBVIOUS
  <2>1. CASE x + 1 < TxN
    <3>1. x + 1 \in 0..TxN - 1
      BY <1>1, <2>1
    <3> QED
      BY <1>1, <2>1, <3>1, ModRound DEF NextTx
  <2>2. CASE ~(x + 1 < TxN)
    <3>1. 0 \in 0..TxN - 1 /\ x + 1 = 0 + TxN
      BY <1>1, <2>2
    <3> QED
      BY <1>1, <2>2, <3>1, ModRound DEF NextTx
  <2> QED
    BY <2>1, <2>2
<1>3. /\ \A k \in 0..TxN : Slot(d, k) \in 0..TxN - 1
      /\ \A k \in 0..TxN - 1 : Slot(d, k) \in 0..TxN - 1
  BY <1>1 DEF Slot
<1>4. \A k, l \in 0..TxN - 1 : Slot(d, k) = Slot(d, l) => k = l
  BY <1>1 DEF Slot
<1>5. Slot(d, 0) = d /\ Slot(d, TxN) = d /\ NextTx(d) \in 0..TxN - 1
  BY <1>1, <1>2 DEF Slot
<1>6. ASSUME NEW k \in 0..TxN - 1
      PROVE  NextTx(Slot(d, k)) = Slot(d, k + 1) /\ Slot(NextTx(d), k) = Slot(d, k + 1)
  BY <1>1, <1>2 DEF Slot
<1> QED
  BY <1>3, <1>4, <1>5, <1>6

LEMMA BbaSendsInit == BbaInit => BbaSends
<1> SUFFICES ASSUME BbaInit PROVE BbaSends
  OBVIOUS
<1>1. /\ curtx = 0 /\ tsd = [d \in 0..TxN - 1 |-> FreeTx] /\ chipTx = [d |-> 0, a |-> NoFrame]
      /\ due = <<>> /\ nextId = 1 /\ \A t \in Threads : bpc[t] = "idle"
  BY DEF BbaInit
<1>2. TxN \in Nat \ {0} /\ FreeTx \in Descriptors /\ FreeTx.host
  BY BbaLinkAssumption DEF FreeTx, Descriptors, NoFrame
<1>3. TxTypes
  BY <1>1, <1>2 DEF TxTypes, NoFrame
<1>4. Handed
  <2>1. \A k \in 0..TxN - 1 : tsd[Slot(0, k)].host
    BY <1>1, <1>2, SlotFacts
  <2>2. Slot(0, 0) = 0
    BY <1>2, SlotFacts
  <2>3. Len(due) = 0 /\ \A k \in 0..0 - 1 : FALSE
    BY <1>1
  <2> QED
    BY <1>1, <2>1, <2>2, <2>3 DEF Handed, Restarting
<1> QED
  BY <1>1, <1>3, <1>4 DEF BbaSends, Copied

\* Steps that leave the descriptors alone.
LEMMA TxKept ==
  ASSUME BbaSends, UNCHANGED <<curtx, tsd, chipTx, due, nextId>>, drv'.up \/ ~drv.up, Restarting' = Restarting,
         \A t \in Threads : bpc'[t] \in {"txcopy", "txgo"} => bpc'[t] = bpc[t] /\ bjob'[t] = bjob[t]
  PROVE  BbaSends'
<1> USE DEF BbaSends
<1>1. TxTypes'
  BY DEF TxTypes
<1>2. Handed'
  BY DEF Handed
<1>3. Copied'
  BY DEF Copied
<1> QED
  BY <1>1, <1>2, <1>3

\* The frame goes into a descriptor that the host owns.
LEMMA BeginSends ==
  ASSUME BbaReceives, BbaSends, NEW t \in Threads, TxBegin(t), ~overlap', ~lapped'
  PROVE  BbaSends'
<1> USE DEF BbaSends, BbaReceives
<1>1. /\ UNCHANGED <<drv, curtx, chipTx, due>> /\ Enter(t) /\ bpc' = [bpc EXCEPT ![t] = "txcopy"]
      /\ bjob' = [bjob EXCEPT ![t] = [d |-> curtx, id |-> nextId]]
      /\ nextId' = (nextId % TxIds) + 1
      /\ tsd' = [tsd EXCEPT ![curtx].a = nextId] /\ tsd[curtx].host
  BY DEF TxBegin, To, Owned
<1>2. OneIn' /\ drv.up /\ bpc[t] = "idle" /\ \A u \in Threads \ {t} : bpc[u] = "idle" /\ bpc'[u] = "idle"
  BY <1>1, OneInEnter
<1>3. bpc'[t] = "txcopy" /\ bjob'[t] = [d |-> curtx, id |-> nextId] /\ ~Restarting /\ ~Restarting'
  BY <1>1, <1>2 DEF BbaTypes, Restarting
<1>4. nextId' \in Nat
  <2>1. TxIds \in Nat \ {0} /\ nextId \in Int
    BY BbaLinkAssumption DEF TxTypes
  <2>2. nextId % TxIds \in 0..TxIds - 1
    BY <2>1, ModRange
  <2> QED
    BY <1>1, <2>1, <2>2
<1>5. /\ tsd' \in [0..TxN - 1 -> Descriptors] /\ tsd'[curtx].host /\ tsd'[curtx].a = nextId
      /\ \A d \in 0..TxN - 1 : tsd'[d].host = tsd[d].host /\ (d # curtx => tsd'[d] = tsd[d])
  <2>1. tsd' = [tsd EXCEPT ![curtx] = [tsd[curtx] EXCEPT !.a = nextId]]
    BY <1>1
  <2>2. [tsd[curtx] EXCEPT !.a = nextId] \in Descriptors
    BY DEF TxTypes, Descriptors
  <2>3. tsd[curtx] \in Descriptors
    BY DEF TxTypes
  <2>4. [tsd[curtx] EXCEPT !.a = nextId].host = tsd[curtx].host /\ [tsd[curtx] EXCEPT !.a = nextId].a = nextId
    BY <2>3 DEF Descriptors
  <2>5. tsd' \in [0..TxN - 1 -> Descriptors]
    BY <2>1, <2>2 DEF TxTypes
  <2>6. \A d \in 0..TxN - 1 : tsd'[d] = IF d = curtx THEN [tsd[curtx] EXCEPT !.a = nextId] ELSE tsd[d]
    BY <2>1 DEF TxTypes
  <2>7. curtx \in 0..TxN - 1
    BY DEF TxTypes
  <2> QED
    BY <1>1, <2>4, <2>5, <2>6, <2>7
<1>6. TxTypes'
  BY <1>1, <1>4, <1>5 DEF TxTypes
<1>7. TxN \in Nat \ {0} /\ chipTx.d \in 0..TxN - 1 /\ Len(due) \in Nat /\ Len(due) <= TxN
  BY BbaLinkAssumption DEF TxTypes
<1>8. curtx = Slot(chipTx.d, Len(due)) /\ Len(due) < TxN
  <2>1. curtx = Slot(chipTx.d, Len(due))
    BY <1>3 DEF Handed
  <2>2. ~(Len(due) = TxN)
    <3> SUFFICES ASSUME Len(due) = TxN PROVE FALSE
      OBVIOUS
    <3>1. curtx = chipTx.d /\ Slot(chipTx.d, 0) = chipTx.d
      BY <1>7, <2>1, SlotFacts
    <3>2. 0 \in 0..Len(due) - 1
      BY <1>7
    <3> QED
      BY <1>1, <3>1, <3>2 DEF Handed
  <2> QED
    BY <1>7, <2>1, <2>2
<1>9. Handed'
  <2>1. \A k \in 0..TxN - 1 : Slot(chipTx.d, k) \in 0..TxN - 1
    BY <1>7, SlotFacts
  <2>2. \A k \in 0..Len(due) - 1 : k \in 0..TxN - 1 /\ Slot(chipTx.d, k) # curtx
    <3>1. \A k \in 0..Len(due) - 1 : k \in 0..TxN - 1
      BY <1>7
    <3> QED
      BY <1>1, <3>1 DEF Handed
  <2>3. \A k \in 0..Len(due) - 1 : tsd'[Slot(chipTx.d, k)] = tsd[Slot(chipTx.d, k)]
    BY <1>5, <2>1, <2>2
  <2>4. \A k \in Len(due)..TxN - 1 : tsd'[Slot(chipTx.d, k)].host
    <3>1. \A k \in Len(due)..TxN - 1 : k \in 0..TxN - 1
      BY <1>7
    <3> QED
      BY <1>5, <2>1, <3>1 DEF Handed
  <2> QED
    BY <1>1, <1>2, <1>3, <1>8, <2>3, <2>4 DEF Handed
<1>10. Copied'
  <2>1. nextId \in Nat
    BY DEF TxTypes
  <2> QED
    BY <1>1, <1>2, <1>3, <1>5, <1>8, <2>1 DEF Copied
<1> QED
  BY <1>6, <1>9, <1>10

LEMMA CopySends ==
  ASSUME BbaReceives, BbaSends, NEW t \in Threads, TxCopy(t) PROVE BbaSends'
<1> USE DEF BbaSends, BbaReceives
<1>1. /\ UNCHANGED <<drv, curtx, chipTx, due, bjob, nextId>> /\ bpc[t] = "txcopy" /\ ~Idle(t)
      /\ bpc' = [bpc EXCEPT ![t] = "txgo"] /\ tsd' = [tsd EXCEPT ![bjob[t].d].b = bjob[t].id]
  BY DEF TxCopy, To, Idle
<1>2. OneIn' /\ drv.up /\ \A u \in Threads \ {t} : bpc[u] = "idle" /\ bpc'[u] = "idle"
  BY <1>1, OneInKept
<1>3. bpc'[t] = "txgo" /\ ~Restarting /\ ~Restarting'
  BY <1>1, <1>2 DEF BbaTypes, Restarting
<1>4. /\ bjob[t].d = curtx /\ bjob[t].id \in Nat /\ Len(due) < TxN
      /\ tsd[curtx].host /\ tsd[curtx].a = bjob[t].id
  BY <1>1 DEF Copied
<1>5. /\ tsd' \in [0..TxN - 1 -> Descriptors] /\ tsd'[curtx].host /\ tsd'[curtx].b = bjob[t].id
      /\ tsd'[curtx].a = bjob[t].id
      /\ \A d \in 0..TxN - 1 : tsd'[d].host = tsd[d].host /\ (d # curtx => tsd'[d] = tsd[d])
  <2>0. curtx \in 0..TxN - 1
    BY DEF TxTypes
  <2> DEFINE new == [tsd[curtx] EXCEPT !.b = bjob[t].id]
  <2>1. tsd' = [tsd EXCEPT ![curtx] = new]
    BY <1>1, <1>4
  <2>2. new \in Descriptors /\ new.host = tsd[curtx].host /\ new.b = bjob[t].id /\ new.a = tsd[curtx].a
    BY <1>4, <2>0 DEF TxTypes, Descriptors
  <2> HIDE DEF new
  <2>3. tsd' \in [0..TxN - 1 -> Descriptors]
    BY <2>1, <2>2 DEF TxTypes
  <2>4. \A d \in 0..TxN - 1 : tsd'[d] = IF d = curtx THEN new ELSE tsd[d]
    BY <2>1 DEF TxTypes
  <2> QED
    BY <1>4, <2>0, <2>2, <2>3, <2>4
<1>6. TxTypes'
  BY <1>1, <1>5 DEF TxTypes
<1>7. TxN \in Nat \ {0} /\ chipTx.d \in 0..TxN - 1 /\ Len(due) \in Nat /\ Len(due) <= TxN
  BY BbaLinkAssumption DEF TxTypes
<1>8. Handed'
  <2>1. \A k \in 0..TxN - 1 : Slot(chipTx.d, k) \in 0..TxN - 1
    BY <1>7, SlotFacts
  <2>2. \A k \in 0..Len(due) - 1 : k \in 0..TxN - 1 /\ Slot(chipTx.d, k) # curtx
    <3>1. \A k \in 0..Len(due) - 1 : k \in 0..TxN - 1
      BY <1>7
    <3> QED
      BY <1>4, <3>1 DEF Handed
  <2>3. \A k \in 0..Len(due) - 1 : tsd'[Slot(chipTx.d, k)] = tsd[Slot(chipTx.d, k)]
    BY <1>5, <2>1, <2>2
  <2>4. \A k \in Len(due)..TxN - 1 : tsd'[Slot(chipTx.d, k)].host
    <3>1. \A k \in Len(due)..TxN - 1 : k \in 0..TxN - 1
      BY <1>7
    <3> QED
      BY <1>5, <2>1, <3>1 DEF Handed
  <2>5. curtx = Slot(chipTx.d, Len(due)) /\ (chipTx.a # NoFrame => due # <<>> /\ chipTx.a = due[1])
    BY <1>3 DEF Handed
  <2>6. \A k \in 0..Len(due) - 1 :
          LET desc == tsd'[Slot(chipTx.d, k)]
          IN  ~desc.host /\ desc.a = due[k + 1] /\ desc.b = due[k + 1]
    BY <2>3 DEF Handed
  <2> QED
    BY <1>1, <1>2, <1>3, <2>4, <2>5, <2>6 DEF Handed
<1>9. Copied'
  BY <1>1, <1>2, <1>3, <1>4, <1>5 DEF Copied
<1> QED
  BY <1>6, <1>8, <1>9

\* The store of the length makes the driver's descriptor the last one of the chip's.
LEMMA GoSends ==
  ASSUME BbaReceives, BbaSends, NEW t \in Threads, TxGo(t), ~lapped PROVE BbaSends'
<1> USE DEF BbaSends, BbaReceives
<1>1. /\ UNCHANGED <<drv, chipTx, nextId>> /\ bpc[t] = "txgo" /\ ~Idle(t)
      /\ bpc' = [bpc EXCEPT ![t] = "idle"] /\ tsd' = [tsd EXCEPT ![bjob[t].d].host = FALSE]
      /\ due' = Append(due, bjob[t].id) /\ curtx' = NextTx(curtx)
  BY DEF TxGo, To, Leave, Idle
<1>2. OneIn' /\ drv.up /\ \A u \in Threads \ {t} : bpc[u] = "idle" /\ bpc'[u] = "idle"
  BY <1>1, OneInKept
<1>3. bpc'[t] = "idle" /\ ~Restarting /\ ~Restarting'
  BY <1>1, <1>2 DEF BbaTypes, Restarting
<1>4. /\ bjob[t].d = curtx /\ bjob[t].id \in Nat /\ Len(due) < TxN
      /\ tsd[curtx].host /\ tsd[curtx].a = bjob[t].id /\ tsd[curtx].b = bjob[t].id
  BY <1>1 DEF Copied
<1>5. /\ tsd' \in [0..TxN - 1 -> Descriptors] /\ ~tsd'[curtx].host /\ tsd'[curtx].b = bjob[t].id
      /\ tsd'[curtx].a = bjob[t].id
      /\ \A d \in 0..TxN - 1 : d # curtx => tsd'[d] = tsd[d]
  <2>0. curtx \in 0..TxN - 1
    BY DEF TxTypes
  <2> DEFINE new == [tsd[curtx] EXCEPT !.host = FALSE]
  <2>1. tsd' = [tsd EXCEPT ![curtx] = new]
    BY <1>1, <1>4
  <2>2. new \in Descriptors /\ ~new.host /\ new.b = tsd[curtx].b /\ new.a = tsd[curtx].a
    BY <1>4, <2>0 DEF TxTypes, Descriptors
  <2> HIDE DEF new
  <2>3. tsd' \in [0..TxN - 1 -> Descriptors]
    BY <2>1, <2>2 DEF TxTypes
  <2>4. \A d \in 0..TxN - 1 : tsd'[d] = IF d = curtx THEN new ELSE tsd[d]
    BY <2>1 DEF TxTypes
  <2> QED
    BY <1>4, <2>0, <2>2, <2>3, <2>4
<1> DEFINE n == Len(due)
<1>6. /\ TxN \in Nat \ {0} /\ chipTx.d \in 0..TxN - 1 /\ n \in Nat /\ n < TxN
      /\ curtx = Slot(chipTx.d, n)
  BY <1>3, <1>4, BbaLinkAssumption DEF TxTypes, Handed
<1>7. /\ due' \in Seq(Nat) /\ Len(due') = n + 1 /\ due'[n + 1] = bjob[t].id
      /\ \A k \in 1..n : due'[k] = due[k]
  BY <1>1, <1>4 DEF TxTypes
<1> HIDE DEF n
<1>8. curtx' = Slot(chipTx.d, n + 1) /\ curtx' \in 0..TxN - 1
  <2>1. n \in 0..TxN - 1 /\ n + 1 \in 0..TxN
    BY <1>6
  <2>2. Slot(chipTx.d, n + 1) \in 0..TxN - 1
    BY <1>6, <2>1, SlotFacts
  <2>3. NextTx(Slot(chipTx.d, n)) = Slot(chipTx.d, n + 1)
    BY <1>6, <2>1, SlotFacts
  <2> QED
    BY <1>1, <1>6, <2>2, <2>3
<1>9. TxTypes'
  <2>1. Len(due') <= TxN
    BY <1>6, <1>7
  <2> QED
    BY <1>1, <1>5, <1>7, <1>8, <2>1 DEF TxTypes
<1>10. Handed'
  <2>1. /\ \A k \in 0..TxN - 1 : Slot(chipTx.d, k) \in 0..TxN - 1
        /\ \A k \in 0..TxN - 1 : k # n => Slot(chipTx.d, k) # curtx
    <3>1. n \in 0..TxN - 1
      BY <1>6
    <3>2. \A k \in 0..TxN - 1 : Slot(chipTx.d, k) \in 0..TxN - 1
      BY <1>6, SlotFacts
    <3>3. \A k, l \in 0..TxN - 1 : Slot(chipTx.d, k) = Slot(chipTx.d, l) => k = l
      BY <1>6, SlotFacts
    <3> QED
      BY <1>6, <3>1, <3>2, <3>3
  <2>2. ASSUME NEW k \in 0..n
        PROVE  /\ ~tsd'[Slot(chipTx.d, k)].host
               /\ tsd'[Slot(chipTx.d, k)].a = due'[k + 1] /\ tsd'[Slot(chipTx.d, k)].b = due'[k + 1]
    <3>1. CASE k = n
      BY <1>5, <1>6, <1>7, <3>1
    <3>2. CASE k # n
      <4>1. k \in 0..TxN - 1 /\ k \in 0..n - 1 /\ k + 1 \in 1..n
        BY <1>6, <3>2
      <4>2. tsd'[Slot(chipTx.d, k)] = tsd[Slot(chipTx.d, k)]
        BY <1>5, <2>1, <3>2, <4>1
      <4>3. k \in 0..Len(due) - 1
        BY <4>1 DEF n
      <4> QED
        BY <1>7, <4>1, <4>2, <4>3 DEF Handed
    <3> QED
      BY <3>1, <3>2
  <2>3. ASSUME NEW k \in n + 1..TxN - 1 PROVE tsd'[Slot(chipTx.d, k)].host
    <3>1. k \in 0..TxN - 1 /\ k # n /\ k \in n..TxN - 1
      BY <1>6
    <3>2. k \in Len(due)..TxN - 1
      BY <3>1 DEF n
    <3> QED
      BY <1>5, <2>1, <3>1, <3>2 DEF Handed
  <2>4. chipTx.a # NoFrame => due' # <<>> /\ chipTx.a = due'[1]
    <3> SUFFICES ASSUME chipTx.a # NoFrame PROVE due' # <<>> /\ chipTx.a = due'[1]
      OBVIOUS
    <3>1. due # <<>> /\ chipTx.a = due[1]
      BY DEF Handed
    <3>2. 1 \in 1..n
      BY <3>1 DEF n, TxTypes
    <3> QED
      BY <1>1, <1>7, <3>1, <3>2
  <2>5. (n + 1) - 1 = n
    BY <1>6
  <2> QED
    BY <1>1, <1>2, <1>3, <1>7, <1>8, <2>2, <2>3, <2>4, <2>5 DEF Handed
<1>11. Copied'
  BY <1>2, <1>3 DEF Copied
<1> QED
  BY <1>9, <1>10, <1>11

\* The chip reads the first half of the frame that is due.
LEMMA ReadSends ==
  ASSUME BbaReceives, BbaSends, ChipTxRead PROVE BbaSends'
<1> USE DEF BbaSends, BbaReceives
<1>1. /\ UNCHANGED <<drv, bpc, bjob, curtx, tsd, due, nextId>> /\ ~tsd[chipTx.d].host
      /\ chipTx' = [chipTx EXCEPT !.a = tsd[chipTx.d].a]
  BY DEF ChipTxRead, Sending
<1>2. /\ TxN \in Nat \ {0} /\ chipTx.d \in 0..TxN - 1 /\ Len(due) \in Nat /\ Len(due) <= TxN
      /\ tsd[chipTx.d] \in Descriptors /\ Slot(chipTx.d, 0) = chipTx.d
  BY BbaLinkAssumption, SlotFacts DEF TxTypes
<1>3. Len(due) > 0 /\ tsd[chipTx.d].a = due[1]
  <2>1. Len(due) > 0
    <3> SUFFICES ASSUME Len(due) = 0 PROVE FALSE
      BY <1>2
    <3>1. 0 \in Len(due)..TxN - 1
      BY <1>2
    <3> QED
      BY <1>1, <1>2, <3>1 DEF Handed
  <2>2. 0 \in 0..Len(due) - 1
    BY <1>2, <2>1
  <2> QED
    BY <1>2, <2>1, <2>2 DEF Handed
<1>4. chipTx'.d = chipTx.d /\ chipTx'.a = due[1] /\ chipTx' \in [d : 0..TxN - 1, a : Nat]
  BY <1>1, <1>2, <1>3 DEF TxTypes, Descriptors
<1>5. TxTypes'
  BY <1>1, <1>4 DEF TxTypes
<1>6. due # <<>> /\ Restarting' = Restarting
  BY <1>1, <1>3 DEF Restarting
<1>7. Handed'
  BY <1>1, <1>4, <1>6 DEF Handed
<1>8. Copied'
  BY <1>1 DEF Copied
<1> QED
  BY <1>5, <1>7, <1>8

\* The frame has left: its descriptor is the host's again, and the next one is first.
LEMMA DoneSends ==
  ASSUME BbaReceives, BbaSends, ChipTxDone PROVE BbaSends'
<1> USE DEF BbaSends, BbaReceives
<1> DEFINE d == chipTx.d
           n == Len(due)
<1>1. /\ UNCHANGED <<drv, bpc, bjob, curtx, nextId>> /\ ~tsd[d].host /\ chipTx.a # NoFrame
      /\ tsd' = [tsd EXCEPT ![d] = FreeTx] /\ chipTx' = [d |-> NextTx(d), a |-> NoFrame]
      /\ due # <<>> /\ due' = Tail(due)
  BY DEF ChipTxDone, Sending, NextTx, Handed
<1>2. TxN \in Nat \ {0} /\ d \in 0..TxN - 1 /\ n \in Nat /\ n <= TxN /\ n > 0
  BY <1>1, BbaLinkAssumption DEF TxTypes
<1>3. due' \in Seq(Nat) /\ Len(due') = n - 1 /\ \A k \in 1..n - 1 : due'[k] = due[k + 1]
  BY <1>1 DEF TxTypes
<1>4. /\ chipTx' \in [d : 0..TxN - 1, a : Nat] /\ chipTx'.d = NextTx(d) /\ chipTx'.a = NoFrame
      /\ NextTx(d) \in 0..TxN - 1 /\ Slot(d, 0) = d
  <2>1. NextTx(d) \in 0..TxN - 1 /\ Slot(d, 0) = d
    BY <1>2, SlotFacts
  <2> QED
    BY <1>1, <2>1 DEF NoFrame
<1>5. /\ tsd' \in [0..TxN - 1 -> Descriptors] /\ tsd'[d].host
      /\ \A e \in 0..TxN - 1 : e # d => tsd'[e] = tsd[e]
  <2>1. FreeTx \in Descriptors /\ FreeTx.host
    BY DEF FreeTx, Descriptors, NoFrame
  <2> QED
    BY <1>1, <1>2, <2>1 DEF TxTypes
<1>6. TxTypes'
  <2>1. Len(due') <= TxN
    BY <1>2, <1>3
  <2> QED
    BY <1>1, <1>3, <1>4, <1>5, <2>1 DEF TxTypes
<1>7. Restarting' = Restarting /\ ~Restarting /\ drv.up
  BY <1>1 DEF Restarting, Handed
<1>8. curtx = Slot(d, n)
  BY <1>7 DEF Handed
<1>9. ASSUME NEW k \in 0..TxN - 1
      PROVE  /\ Slot(NextTx(d), k) = Slot(d, k + 1) /\ Slot(d, k + 1) \in 0..TxN - 1
             /\ (k + 1 < TxN => Slot(d, k + 1) # d)
  <2>1. Slot(NextTx(d), k) = Slot(d, k + 1)
    BY <1>2, SlotFacts
  <2>2. k + 1 \in 0..TxN /\ (k + 1 < TxN => k + 1 \in 0..TxN - 1) /\ 0 \in 0..TxN - 1 /\ k + 1 # 0
    BY <1>2
  <2>3. Slot(d, k + 1) \in 0..TxN - 1
    BY <1>2, <2>2, SlotFacts
  <2>4. k + 1 < TxN => Slot(d, k + 1) # Slot(d, 0)
    BY <1>2, <2>2, SlotFacts
  <2> QED
    BY <1>4, <2>1, <2>3, <2>4
<1>10. Handed'
  <2>1. ASSUME NEW k \in 0..(n - 1) - 1
        PROVE  /\ ~tsd'[Slot(NextTx(d), k)].host
               /\ tsd'[Slot(NextTx(d), k)].a = due'[k + 1] /\ tsd'[Slot(NextTx(d), k)].b = due'[k + 1]
    <3>1. k \in 0..TxN - 1 /\ k + 1 < TxN /\ k + 1 \in 0..n - 1 /\ k + 1 \in 1..n - 1
      BY <1>2
    <3>2. tsd'[Slot(NextTx(d), k)] = tsd[Slot(d, k + 1)]
      BY <1>5, <1>9, <3>1
    <3>3. LET desc == tsd[Slot(d, k + 1)]
          IN  ~desc.host /\ desc.a = due[(k + 1) + 1] /\ desc.b = due[(k + 1) + 1]
      BY <3>1 DEF Handed
    <3> QED
      BY <1>3, <3>1, <3>2, <3>3
  <2>2. ASSUME NEW k \in n - 1..TxN - 1 PROVE tsd'[Slot(NextTx(d), k)].host
    <3>1. k \in 0..TxN - 1
      BY <1>2
    <3>2. CASE k + 1 < TxN
      <4>1. k + 1 \in n..TxN - 1
        BY <1>2, <3>2
      <4>2. tsd[Slot(d, k + 1)].host
        BY <4>1 DEF Handed
      <4> QED
        BY <1>5, <1>9, <3>1, <3>2, <4>2
    <3>3. CASE ~(k + 1 < TxN)
      <4>1. k + 1 = TxN
        BY <1>2, <3>3
      <4>2. Slot(d, k + 1) = d
        BY <1>2, <4>1, SlotFacts
      <4> QED
        BY <1>5, <1>9, <3>1, <4>2
    <3> QED
      BY <3>2, <3>3
  <2>3. curtx = Slot(NextTx(d), n - 1)
    <3>1. n - 1 \in 0..TxN - 1 /\ (n - 1) + 1 = n
      BY <1>2
    <3> QED
      BY <1>8, <1>9, <3>1
  <2> HIDE DEF n, d
  <2> QED
    BY <1>1, <1>3, <1>4, <1>7, <2>1, <2>2, <2>3 DEF Handed
<1>11. Copied'
  <2> SUFFICES ASSUME NEW t \in Threads, bpc[t] \in {"txcopy", "txgo"}
               PROVE  /\ bjob[t].d = curtx /\ bjob[t].id \in Nat /\ Len(due') < TxN
                      /\ tsd'[curtx].host /\ tsd'[curtx].a = bjob[t].id
                      /\ bpc[t] = "txgo" => tsd'[curtx].b = bjob[t].id
    BY <1>1 DEF Copied
  <2>1. curtx # d /\ curtx \in 0..TxN - 1
    BY <1>1 DEF Copied, TxTypes
  <2>2. Len(due') < TxN
    BY <1>2, <1>3
  <2> QED
    BY <1>5, <2>1, <2>2 DEF Copied
<1> QED
  BY <1>6, <1>10, <1>11

\* A reset gives all descriptors back, and the restart begins at the first one.
LEMMA ResetSends ==
  ASSUME BbaReceives, BbaSends, NEW t \in Threads, RxReset(t) \/ RxRestart(t) PROVE BbaSends'
<1> USE DEF BbaSends, BbaReceives
<1>1. /\ UNCHANGED <<drv, bjob, nextId>> /\ bpc[t] \in {"rxreset", "rxstart"} /\ ~Idle(t)
      /\ bpc' \in {[bpc EXCEPT ![t] = "rxstart"], [bpc EXCEPT ![t] = "rxtail"]}
  BY DEF RxReset, RxRestart, To, Idle
<1>2. OneIn' /\ drv.up /\ \A u \in Threads \ {t} : bpc[u] = "idle" /\ bpc'[u] = "idle"
  BY <1>1, OneInKept
<1>3. bpc'[t] \in {"rxstart", "rxtail"}
  BY <1>1 DEF BbaTypes
<1>4. TxN \in Nat \ {0} /\ FreeTx \in Descriptors /\ FreeTx.host
  BY BbaLinkAssumption DEF FreeTx, Descriptors, NoFrame
<1>5. Copied'
  BY <1>2, <1>3 DEF Copied
<1>6. Slot(0, 0) = 0 /\ \A k \in 0..TxN - 1 : Slot(0, k) \in 0..TxN - 1
  <2>1. 0 \in 0..TxN - 1
    BY <1>4
  <2> QED
    BY <2>1, SlotFacts
<1>7. CASE RxReset(t)
  <2>1. /\ tsd' = [d \in 0..TxN - 1 |-> FreeTx] /\ chipTx' = [d |-> 0, a |-> NoFrame] /\ due' = <<>>
        /\ UNCHANGED curtx /\ Restarting'
    BY <1>7 DEF RxReset, RtlReset, To, BbaTypes, Restarting
  <2>2. Len(due') = 0 /\ chipTx'.d = 0 /\ chipTx'.a = NoFrame /\ \A k \in 0..0 - 1 : FALSE
    BY <2>1
  <2>3. TxTypes'
    BY <1>1, <1>4, <2>1, <2>2 DEF TxTypes, NoFrame
  <2>4. \A k \in 0..TxN - 1 : tsd'[Slot(0, k)].host
    BY <1>4, <1>6, <2>1
  <2>5. Handed'
    BY <2>1, <2>2, <2>4 DEF Handed
  <2> QED
    BY <1>5, <2>3, <2>5
<1>8. CASE RxRestart(t)
  <2>1. UNCHANGED <<tsd, chipTx, due>> /\ curtx' = 0 /\ Restarting /\ bpc'[t] = "rxtail"
    BY <1>8 DEF RxRestart, RtlStart, To, BbaTypes, Restarting
  <2>2. ~Restarting' /\ due = <<>> /\ chipTx.d = 0 /\ Len(due) = 0
    BY <1>2, <2>1 DEF Restarting, Handed
  <2>3. TxTypes'
    BY <1>1, <1>4, <2>1 DEF TxTypes
  <2>4. Handed'
    BY <1>1, <1>2, <1>6, <2>1, <2>2 DEF Handed
  <2> QED
    BY <1>5, <2>3, <2>4
<1> QED
  BY <1>7, <1>8
-----------------------------------------------------------------------------
(* The Broadband Adapter as a whole.                                       *)

\* In the backend whoever is in the driver owns the critical section.
Apart == Locked => ~overlap /\ \A t \in Threads : ~Idle(t) => cs = t

BbaInv ==
  /\ drv \in [name : {"bba_hw", "bba"}, up : BOOLEAN] /\ bpc \in [Threads -> BbaPlaces]
  /\ Apart
  /\ ~overlap => BbaReceives /\ (~lapped => BbaSends)

BbaSteps == BbaBringup \/ BbaRuns \/ UNCHANGED bbaVars

LEMMA BbaSteps1 == Next => BbaSteps
BY DEF Next, ProbeW5500, ProbeBba, Standalone, RunBba, RunW5500, BbaSteps

\* No call overlaps another one that holds the critical section.
LEMMA ApartKept ==
  ASSUME BbaInv, BbaSteps
  PROVE  /\ drv' \in [name : {"bba_hw", "bba"}, up : BOOLEAN] /\ bpc' \in [Threads -> BbaPlaces]
         /\ Apart'
<1> USE DEF BbaInv
<1>1. CASE BbaBringup
  <2>1. /\ drv' = [drv EXCEPT !.up = TRUE] /\ UNCHANGED <<cs, bpc, overlap>>
    BY <1>1 DEF BbaBringup
  <2>2. drv' \in [name : {"bba_hw", "bba"}, up : BOOLEAN] /\ drv'.name = drv.name
    BY <2>1
  <2> QED
    BY <2>1, <2>2 DEF Apart, Locked, Idle
<1>2. CASE UNCHANGED bbaVars
  BY <1>2 DEF bbaVars, Apart, Locked, Idle
<1>3. ASSUME NEW t \in Threads, BbaThread(t)
      PROVE  /\ UNCHANGED drv /\ bpc' \in [Threads -> BbaPlaces] /\ Apart'
  <2>1. PICK at \in BbaPlaces : bpc' = [bpc EXCEPT ![t] = at]
    BY <1>3 DEF BbaThread, TxBegin, TxCopy, TxGo, RxLook, RxTake, RxTail, RxReset, RxRestart, To, Leave, BbaPlaces
  <2>2. UNCHANGED drv
    BY <1>3 DEF BbaThread, TxBegin, TxCopy, TxGo, RxLook, RxTake, RxTail, RxReset, RxRestart
  <2>3. CASE TxBegin(t) \/ RxLook(t)
    <3>1. Enter(t)
      BY <2>3 DEF TxBegin, RxLook
    <3>2. Locked => cs = NoThread /\ cs' = t /\ overlap' = (overlap \/ Busy(t))
      BY <3>1 DEF Enter
    <3>3. Locked => \A u \in Threads : Idle(u)
      BY <3>2 DEF Apart, Threads, NoThread
    <3>4. Locked => ~overlap'
      BY <3>2, <3>3 DEF Apart, Busy
    <3>5. Locked => \A u \in Threads : ~Idle(u)' => cs' = u
      BY <2>1, <3>2, <3>3 DEF Idle
    <3> QED
      BY <2>1, <2>2, <3>4, <3>5 DEF Apart, Locked
  <2>4. CASE TxCopy(t) \/ RxTake(t) \/ RxReset(t) \/ RxRestart(t)
    <3>1. UNCHANGED <<cs, overlap>> /\ ~Idle(t)
      BY <2>4 DEF TxCopy, RxTake, RxReset, RxRestart, Idle
    <3>2. \A u \in Threads : ~Idle(u)' => ~Idle(u)
      BY <2>1, <3>1 DEF Idle
    <3> QED
      BY <2>1, <2>2, <3>1, <3>2 DEF Apart, Locked
  <2>5. CASE TxGo(t) \/ RxTail(t)
    <3>1. UNCHANGED overlap /\ ~Idle(t) /\ Leave(t)
      BY <2>5 DEF TxGo, RxTail, Idle
    <3>2. Locked => \A u \in Threads \ {t} : Idle(u)
      BY <3>1 DEF Apart
    <3>3. Locked => \A u \in Threads : Idle(u)'
      BY <3>1, <3>2 DEF Leave, To, Idle
    <3> QED
      BY <2>1, <2>2, <3>1, <3>3 DEF Apart, Locked
  <2> QED
    BY <1>3, <2>2, <2>3, <2>4, <2>5, <2>1 DEF BbaThread
<1>4. CASE BbaChip
  <2>1. UNCHANGED <<drv, cs, bpc, overlap>>
    BY <1>4 DEF BbaChip, ChipTxRead, ChipTxDone, ChipRxBegin, ChipRxEnd
  <2> QED
    BY <2>1 DEF Apart, Locked, Idle
<1> QED
  BY <1>1, <1>2, <1>3, <1>4 DEF BbaSteps, BbaRuns, Before

\* Steps of the receiver.
LEMMA RxSends ==
  ASSUME BbaReceives, BbaSends, NEW t \in Threads, RxLook(t) \/ RxTake(t) \/ RxTail(t)
  PROVE  BbaSends'
<1> USE DEF BbaReceives
<1>1. UNCHANGED <<drv, curtx, tsd, chipTx, due, nextId>>
  BY DEF RxLook, RxTake, RxTail, bbaTx
<1>2. PICK at \in {"rxreset", "rxcopy", "rxtail", "idle"} : bpc' = [bpc EXCEPT ![t] = at]
  BY DEF RxLook, RxTake, RxTail, To, Leave
<1>3. bpc[t] \in {"idle", "rxcopy", "rxtail"}
  BY DEF RxLook, RxTake, RxTail, Enter, Idle
<1>4. \A u \in Threads \ {t} : bpc'[u] = bpc[u] /\ bjob'[u] = bjob[u]
  <2>1. \A u \in Threads \ {t} : bpc'[u] = bpc[u]
    BY <1>2 DEF BbaTypes
  <2>2. bjob' = bjob \/ \E x : bjob' = [bjob EXCEPT ![t] = x]
    BY DEF RxLook, RxTake, RxTail, Leave
  <2>3. DOMAIN bjob = Threads
    BY DEF BbaTypes
  <2> QED
    BY <2>1, <2>2, <2>3
<1>5. bpc'[t] = at
  BY <1>2 DEF BbaTypes
<1>6. Restarting' = Restarting
  BY <1>3, <1>4, <1>5 DEF Restarting
<1>7. \A u \in Threads : bpc'[u] \in {"txcopy", "txgo"} => bpc'[u] = bpc[u] /\ bjob'[u] = bjob[u]
  BY <1>4, <1>5
<1> QED
  BY <1>1, <1>6, <1>7, TxKept

LEMMA ThreadKept ==
  ASSUME BbaReceives, NEW t \in Threads, BbaThread(t), ~overlap'
  PROVE  BbaReceives' /\ (BbaSends /\ ~lapped' => BbaSends')
<1>1. CASE TxBegin(t)
  BY <1>1, TxReceives, BeginSends
<1>2. CASE TxCopy(t)
  BY <1>2, TxReceives, CopySends
<1>3. CASE TxGo(t)
  <2>1. lapped' = lapped
    BY <1>3 DEF TxGo
  <2> QED
    BY <1>3, <2>1, TxReceives, GoSends
<1>4. CASE RxLook(t)
  BY <1>4, LookReceives, RxSends
<1>5. CASE RxTake(t)
  BY <1>5, TakeReceives, RxSends
<1>6. CASE RxTail(t)
  BY <1>6, TailReceives, RxSends
<1>7. CASE RxReset(t) \/ RxRestart(t)
  BY <1>7, ResetReceives, ResetSends
<1> QED
  BY <1>1, <1>2, <1>3, <1>4, <1>5, <1>6, <1>7 DEF BbaThread

LEMMA ChipKept ==
  ASSUME BbaReceives, BbaChip PROVE BbaReceives' /\ (BbaSends => BbaSends')
<1>1. CASE ChipTxRead
  BY <1>1, ChipTxReceives, ReadSends
<1>2. CASE ChipTxDone
  BY <1>2, ChipTxReceives, DoneSends
<1>3. ASSUME (\E size \in FrameSizes : ChipRxBegin(size)) \/ ChipRxEnd
      PROVE  BbaSends => BbaSends'
  <2>1. UNCHANGED <<drv, bpc, bjob, curtx, tsd, chipTx, due, nextId>>
    BY <1>3 DEF ChipRxBegin, ChipRxEnd, bbaTx
  <2>2. Restarting' = Restarting
    BY <2>1 DEF Restarting
  <2> QED
    BY <2>1, <2>2, TxKept
<1> QED
  BY <1>1, <1>2, <1>3, ArriveReceives, EndReceives DEF BbaChip

LEMMA BringupSends ==
  ASSUME BbaReceives, BbaSends, BbaBringup PROVE BbaSends'
<1> USE DEF BbaSends, BbaReceives
<1>1. /\ ~drv.up /\ UNCHANGED <<bpc, bjob, tsd, chipTx, due, nextId>> /\ curtx' = 0
  BY DEF BbaBringup, RtlStart
<1>2. TxN \in Nat \ {0} /\ 0 \in 0..TxN - 1
  BY BbaLinkAssumption
<1>3. \A t \in Threads : bpc[t] = "idle"
  BY <1>1 DEF OneIn, Idle
<1>4. due = <<>> /\ chipTx.d = 0 /\ Slot(0, 0) = 0 /\ Len(due) = 0
  BY <1>1, <1>2, SlotFacts DEF Handed
<1>5. TxTypes'
  BY <1>1, <1>2 DEF TxTypes
<1>6. Handed'
  BY <1>1, <1>3, <1>4 DEF Handed, Restarting
<1>7. Copied'
  BY <1>1, <1>3 DEF Copied
<1> QED
  BY <1>5, <1>6, <1>7

LEMMA BbaInvInit == BbaInit => BbaInv
<1> SUFFICES ASSUME BbaInit PROVE BbaInv
  OBVIOUS
<1>1. BbaReceives /\ BbaSends
  BY BbaReceivesInit, BbaSendsInit
<1>2. Apart
  BY DEF BbaInit, Apart, Idle
<1> QED
  BY <1>1, <1>2 DEF BbaInv, BbaReceives, BbaTypes

LEMMA BbaInvNext == BbaInv /\ [Next]_vars => BbaInv'
<1> SUFFICES ASSUME BbaInv, BbaSteps PROVE BbaInv'
  BY BbaSteps1 DEF vars, BbaSteps
<1>1. /\ drv' \in [name : {"bba_hw", "bba"}, up : BOOLEAN] /\ bpc' \in [Threads -> BbaPlaces]
      /\ Apart'
  BY ApartKept
<1>2. ASSUME ~overlap' PROVE BbaReceives' /\ (~lapped' => BbaSends')
  <2>1. CASE BbaBringup
    <3>1. UNCHANGED <<overlap, lapped>>
      BY <2>1 DEF BbaBringup
    <3> QED
      BY <1>2, <2>1, <3>1, BringupReceives, BringupSends DEF BbaInv
  <2>2. CASE UNCHANGED bbaVars
    <3>1. UNCHANGED <<overlap, lapped, ring, cbr, capr, rxOn, bpc, bjob, drv, currx>>
      BY <2>2 DEF bbaVars
    <3>2. UNCHANGED <<curtx, tsd, chipTx, due, nextId>> /\ Restarting' = Restarting
      BY <2>2 DEF bbaVars, Restarting
    <3>3. BbaReceives
      BY <1>2, <3>1 DEF BbaInv
    <3>4. BbaReceives'
      <4>1. RingLaid' /\ Starts' = Starts
        BY <3>1, <3>3, RingKept DEF BbaReceives
      <4>2. /\ ring' \in Seq(RingFrames) /\ cbr' \in 0..RingLen - 1
            /\ Len(ring) \in Nat /\ Len(ring') = Len(ring)
        BY <3>1, <3>3 DEF BbaReceives, BbaTypes
      <4> QED
        BY <3>1, <3>3, <4>1, <4>2, DriverKept
    <3>5. BbaSends => BbaSends'
      BY <3>1, <3>2, TxKept
    <3> QED
      BY <1>2, <3>1, <3>4, <3>5 DEF BbaInv
  <2>3. CASE BbaRuns
    <3>1. ~overlap /\ BbaReceives /\ (~lapped => BbaSends)
      BY <2>3 DEF BbaRuns, Before, BbaInv
    <3>2. lapped => lapped'
      BY <2>3 DEF BbaRuns, Before, BbaThread, BbaChip, TxBegin, TxCopy, TxGo, RxLook, RxTake, RxTail,
                  RxReset, RxRestart, ChipTxRead, ChipTxDone, ChipRxBegin, ChipRxEnd, bbaTx
    <3>3. CASE BbaChip
      BY <3>1, <3>2, <3>3, ChipKept
    <3>4. CASE \E t \in Threads : BbaThread(t)
      BY <1>2, <3>1, <3>2, <3>4, ThreadKept
    <3> QED
      BY <2>3, <3>3, <3>4 DEF BbaRuns, Before
  <2> QED
    BY <2>1, <2>2, <2>3 DEF BbaSteps
<1> QED
  BY <1>1, <1>2 DEF BbaInv

LEMMA BbaGoals == BbaInv => BbaInStep /\ BbaSendsWhole
<1> SUFFICES ASSUME BbaInv PROVE BbaInStep /\ BbaSendsWhole
  OBVIOUS
<1>1. BbaInStep
  <2> SUFFICES ASSUME ~overlap, ~InRx
               PROVE  Wrapped(currx) = ReadPos /\ ReadPos = IF ring = <<>> THEN cbr ELSE Head(ring).pos
    BY DEF BbaInStep
  <2> QED
    BY RingFacts DEF BbaInv, BbaReceives, Reader
<1>2. BbaSendsWhole
  <2> SUFFICES ASSUME ~Sending.host, chipTx.a # NoFrame, ~lapped, ~overlap
               PROVE  due # <<>> /\ chipTx.a = Head(due) /\ Sending.b = Head(due)
    BY DEF BbaSendsWhole
  <2>1. BbaSends
    BY DEF BbaInv
  <2>2. due # <<>> /\ chipTx.a = due[1] /\ Head(due) = due[1] /\ Len(due) > 0
    BY <2>1 DEF BbaSends, TxTypes, Handed
  <2>3. 0 \in 0..Len(due) - 1 /\ Slot(chipTx.d, 0) = chipTx.d
    BY <2>1, <2>2, SlotFacts DEF BbaSends, TxTypes
  <2>4. tsd[chipTx.d].b = due[1]
    BY <2>1, <2>3 DEF BbaSends, Handed
  <2> QED
    BY <2>2, <2>4 DEF Sending
<1> QED
  BY <1>1, <1>2
-----------------------------------------------------------------------------
(* The W5500 gives the console its port back.                              *)

ScifStates == [pins : {"uart", "spi", "none"}, rts : {"modem", "gpio", "none"}]
ProbeSteps == {"sci", "scif", "version", "init", "up"}

\* A probe reads the version register of a chip only over the bus that it has just
\* taken, and what it saved of the console is what the console had.
SpiInv ==
  /\ probe \in Seq(ProbeSteps) /\ bus \in {"none", "sci", "scif"}
  /\ scif \in ScifStates
  /\ \A i \in 1..Len(probe) : probe[i] = "version" => i = 1 /\ bus # "none"
  /\ bus # "scif" => saved = NotSaved /\ scif.pins = "uart" /\ (retail => scif = Console)
  /\ bus = "scif" => /\ saved \in ScifStates /\ saved.pins = "uart"
                     /\ (retail => saved = Console)

LEMMA SpiInvInit == W5Init => SpiInv
<1> SUFFICES ASSUME W5Init PROVE SpiInv
  OBVIOUS
<1>1. scif = Console /\ saved = NotSaved /\ bus = "none" /\ scif \in ScifStates /\ scif.pins = "uart"
  BY DEF W5Init, Console, ScifStates
<1>2. probe \in Seq(ProbeSteps) /\ \A i \in 1..Len(probe) : probe[i] # "version"
  <2>1. probe = <<>> \/ probe = <<"sci">> \/ probe = <<"scif">> \/ probe = <<"sci", "scif">>
    BY DEF W5Init
  <2>2. CASE probe = <<>>
    BY <2>2
  <2>3. CASE probe = <<"sci">>
    BY <2>3 DEF ProbeSteps
  <2>4. CASE probe = <<"scif">>
    BY <2>4 DEF ProbeSteps
  <2>5. CASE probe = <<"sci", "scif">>
    <3>1. probe \in Seq(ProbeSteps) /\ Len(probe) = 2
      BY <2>5 DEF ProbeSteps
    <3>2. probe[1] = "sci" /\ probe[2] = "scif"
      BY <2>5
    <3>3. \A i \in 1..2 : i = 1 \/ i = 2
      OBVIOUS
    <3> QED
      BY <3>1, <3>2, <3>3
  <2> QED
    BY <2>1, <2>2, <2>3, <2>4, <2>5
<1> QED
  BY <1>1, <1>2 DEF SpiInv

LEMMA ProbeKept ==
  ASSUME SpiInv, W5Probe PROVE SpiInv'
<1> USE DEF SpiInv
<1>1. /\ UNCHANGED retail /\ bus = "none" /\ probe # <<>> /\ Head(probe) \in {"sci", "scif"}
      /\ Head(probe) = "sci" => \E ok \in BOOLEAN : SciInit(ok)
      /\ Head(probe) = "scif" => ScifInit
      /\ \/ probe' = Tail(probe) /\ bus' = bus /\ Head(probe) = "sci"
         \/ probe' = <<"version">> \o Tail(probe) /\ bus' = Head(probe)
  BY DEF W5Probe
<1>2. /\ Tail(probe) \in Seq(ProbeSteps) /\ Len(Tail(probe)) = Len(probe) - 1
      /\ \A i \in 1..Len(probe) - 1 : Tail(probe)[i] = probe[i + 1] /\ Tail(probe)[i] # "version"
      /\ Len(probe) \in Nat \ {0}
  BY <1>1
<1>3. /\ probe' \in Seq(ProbeSteps) /\ bus' \in {"none", "sci", "scif"}
      /\ \A i \in 1..Len(probe') : probe'[i] = "version" => i = 1 /\ bus' # "none"
  <2>1. CASE probe' = Tail(probe) /\ bus' = bus
    <3>1. \A i \in 1..Len(probe') : probe'[i] # "version"
      BY <1>2, <2>1
    <3> QED
      BY <1>1, <1>2, <2>1, <3>1
  <2>2. CASE probe' = <<"version">> \o Tail(probe) /\ bus' = Head(probe)
    <3>1. <<"version">> \in Seq(ProbeSteps) /\ Len(<<"version">>) = 1
      BY DEF ProbeSteps
    <3>2. /\ <<"version">> \o Tail(probe) \in Seq(ProbeSteps)
          /\ Len(<<"version">> \o Tail(probe)) = 1 + Len(Tail(probe))
          /\ \A i \in 1..1 + Len(Tail(probe)) :
               (<<"version">> \o Tail(probe))[i] =
                  IF i <= 1 THEN <<"version">>[i] ELSE Tail(probe)[i - 1]
      BY <1>2, <3>1, ConcatProperties
    <3>3. \A i \in 1..Len(probe') : i # 1 => probe'[i] # "version"
      <4> SUFFICES ASSUME NEW i \in 1..Len(probe'), i # 1 PROVE probe'[i] # "version"
        OBVIOUS
      <4>1. i \in 1..1 + Len(Tail(probe)) /\ i - 1 \in 1..Len(probe) - 1 /\ ~(i <= 1)
        BY <1>2, <2>2, <3>2
      <4>2. probe'[i] = Tail(probe)[i - 1]
        BY <2>2, <3>2, <4>1
      <4> QED
        BY <1>2, <4>1, <4>2
    <3> QED
      BY <1>1, <2>2, <3>2, <3>3
  <2> QED
    BY <1>1, <2>1, <2>2
<1>4. CASE Head(probe) = "sci"
  <2>1. PICK ok \in BOOLEAN : SciInit(ok)
    BY <1>1, <1>4
  <2>2. /\ saved' = saved /\ bus' # "scif"
        /\ scif' = IF retail THEN scif ELSE [scif EXCEPT !.rts = "gpio"]
    BY <1>1, <1>4, <2>1 DEF SciInit
  <2>3. scif' \in ScifStates /\ scif'.pins = "uart" /\ (retail => scif' = scif)
    BY <1>1, <2>2 DEF ScifStates
  <2> QED
    BY <1>1, <1>3, <2>2, <2>3
<1>5. CASE Head(probe) = "scif"
  <2>1. /\ saved' = scif /\ bus' = "scif" /\ scif' = [pins |-> "spi", rts |-> "gpio"]
    BY <1>1, <1>5 DEF ScifInit
  <2>2. scif' \in ScifStates
    BY <2>1 DEF ScifStates
  <2> QED
    BY <1>1, <1>3, <2>1, <2>2
<1> QED
  BY <1>1, <1>4, <1>5

LEMMA VersionKept ==
  ASSUME SpiInv, W5Version PROVE SpiInv'
<1> USE DEF SpiInv
<1>1. UNCHANGED retail /\ probe # <<>> /\ Head(probe) = "version"
  BY DEF W5Version
<1>2. /\ Tail(probe) \in Seq(ProbeSteps) /\ Len(Tail(probe)) = Len(probe) - 1
      /\ \A i \in 1..Len(probe) - 1 : Tail(probe)[i] # "version"
      /\ bus # "none" /\ Len(probe) \in Nat \ {0}
  <2>1. /\ 1 \in 1..Len(probe) /\ probe[1] = "version" /\ Len(probe) \in Nat \ {0}
        /\ Tail(probe) \in Seq(ProbeSteps) /\ Len(Tail(probe)) = Len(probe) - 1
        /\ \A i \in 1..Len(probe) - 1 : Tail(probe)[i] = probe[i + 1]
    BY <1>1
  <2>2. \A i \in 1..Len(probe) - 1 : i + 1 \in 1..Len(probe) /\ i + 1 # 1
    BY <2>1
  <2> QED
    BY <2>1, <2>2
<1>3. CASE probe' = <<"init">> /\ UNCHANGED <<bus, scif, saved, sci>>
  <2>1. probe' \in Seq(ProbeSteps) /\ \A i \in 1..Len(probe') : probe'[i] # "version"
    BY <1>3 DEF ProbeSteps
  <2> QED
    BY <1>1, <1>3, <2>1
<1>4. CASE SpiShutdown(bus) /\ bus' = "none" /\ probe' = Tail(probe)
  <2>1. scif' = (IF bus = "scif" THEN saved ELSE scif) /\ saved' = NotSaved
    BY <1>2, <1>4 DEF SpiShutdown, Restored, NotSaved
  <2>2. /\ scif' \in ScifStates /\ scif'.pins = "uart"
        /\ retail => scif' = Console
    BY <2>1
  <2>3. \A i \in 1..Len(probe') : probe'[i] # "version"
    BY <1>2, <1>4
  <2> QED
    BY <1>1, <1>2, <1>4, <2>1, <2>2, <2>3
<1> QED
  BY <1>3, <1>4 DEF W5Version

LEMMA SpiStart ==
  ASSUME SpiInv, W5Start PROVE SpiInv'
<1>1. CASE W5Bringup
  <2>1. /\ UNCHANGED <<bus, retail, scif, saved>> /\ probe' \in {<<"up">>, <<>>}
    BY <1>1 DEF W5Bringup
  <2>2. probe' \in Seq(ProbeSteps) /\ \A i \in 1..Len(probe') : probe'[i] # "version"
    <3>1. CASE probe' = <<"up">>
      BY <3>1 DEF ProbeSteps
    <3>2. CASE probe' = <<>>
      BY <3>2
    <3> QED
      BY <2>1, <3>1, <3>2
  <2> QED
    BY <2>1, <2>2 DEF SpiInv
<1> QED
  BY <1>1, ProbeKept, VersionKept DEF W5Start

LEMMA SpiInvNext == SpiInv /\ [Next]_vars => SpiInv'
<1> SUFFICES ASSUME SpiInv, [Next]_vars PROVE SpiInv'
  OBVIOUS
<1>1. W5Start \/ UNCHANGED spi
  BY DEF Next, ProbeW5500, ProbeBba, Standalone, RunBba, RunW5500, W5Runs, Alone, W5Thread, W5TxRoom,
         W5TxGoesOn, W5TxWr, W5TxData, W5TxPtr, W5TxSend, W5TxDone, W5Poll, W5RxSize, W5RxHead, W5RxPtr,
         W5RxRecv, W5Chip, W5ChipSend, W5ChipReceive, vars, w5Vars
<1>2. CASE UNCHANGED spi
  BY <1>2 DEF SpiInv, spi
<1> QED
  BY <1>1, <1>2, SpiStart
-----------------------------------------------------------------------------
(* The W5500 receives.                                                     *)

W5Places == {"idle", "wr", "data", "ptr", "send", "wait", "rxhead", "rxptr", "rxrecv"}
Jobs == [rd : Nat, rsr : Nat, len : Nat, id : Nat]
Buffered == [pos : 0..W5Wrap - 1, len : Lens]

W5Starts  == [i \in 1..Len(rxq) + 1 |-> IF i <= Len(rxq) THEN rxq[i].pos ELSE rxwr]
W5Lengths == [i \in 1..Len(rxq) |-> rxq[i].len]

W5Types ==
  /\ wpc \in [W5Threads -> W5Places] /\ wjob \in [W5Threads -> Jobs]
  /\ rxq \in Seq(Buffered) /\ {rxwr, rxrd, rxfree} \subseteq 0..W5Wrap - 1
  /\ w5Id \in Nat

BufferLaid == Laid(W5Starts, W5Lengths, Len(rxq), rxfree, W5Wrap)

\* The position that the poll writes at the end is where one of the frames begins, or
\* the end of the last one.
Polling ==
  /\ wpc[Worker] # "rxrecv" => rxrd = rxfree
  /\ wpc[Worker] \in {"rxhead", "rxptr"} => wjob[Worker].rd = rxrd
  /\ wpc[Worker] = "rxhead" => rxq # <<>> /\ \E k \in 1..Len(rxq) + 1 :
                                 wjob[Worker].rsr = From(rxfree, W5Starts[k], W5Wrap)
  /\ wpc[Worker] = "rxptr" => \E k \in 1..Len(rxq) + 1 :
                                wjob[Worker].len = From(rxfree, W5Starts[k], W5Wrap)
  /\ wpc[Worker] = "rxrecv" => \E k \in 1..Len(rxq) + 1 : rxrd = W5Starts[k]
  /\ wpc["app"] \notin {"rxhead", "rxptr", "rxrecv"}

W5Receives == W5Types /\ BufferLaid /\ Polling

LEMMA Registers ==
  W5Wrap \in Nat \ {0} /\ W5Buf \in Nat \ {0} /\ W5Buf < W5Wrap /\ Worker \in W5Threads
  /\ \A len \in Lens : len \in Nat \ {0}
BY W5LinkAssumption DEF W5Threads, Worker

LEMMA BufferFacts ==
  ASSUME W5Types, BufferLaid
  PROVE  /\ Len(rxq) \in Nat /\ W5Starts[1] = rxfree /\ W5Starts[Len(rxq) + 1] = rxwr
         /\ rxfree \in 0..W5Wrap - 1 /\ rxwr \in 0..W5Wrap - 1
         /\ \A i \in 1..Len(rxq) + 1 : W5Starts[i] \in 0..W5Wrap - 1
         /\ \A i \in 1..Len(rxq) : /\ rxq[i] \in Buffered /\ W5Starts[i] = rxq[i].pos
                                   /\ W5Lengths[i] = rxq[i].len /\ rxq[i].len \in Nat \ {0}
         /\ \A i, k \in 1..Len(rxq) + 1 : W5Starts[i] = W5Starts[k] => i = k
         /\ rxfree = IF rxq = <<>> THEN rxwr ELSE Head(rxq).pos
         /\ DOMAIN rxq = 1..Len(rxq)
<1>1. /\ Len(rxq) \in Nat /\ rxfree \in 0..W5Wrap - 1 /\ rxwr \in 0..W5Wrap - 1
      /\ DOMAIN rxq = 1..Len(rxq)
  BY DEF W5Types
<1>2. W5Starts[1] = rxfree /\ \A i \in 1..Len(rxq) + 1 : W5Starts[i] \in 0..W5Wrap - 1
  BY DEF BufferLaid, Laid
<1>3. W5Starts[Len(rxq) + 1] = rxwr
  BY <1>1 DEF W5Starts
<1>4. \A i \in 1..Len(rxq) : /\ rxq[i] \in Buffered /\ W5Starts[i] = rxq[i].pos
                             /\ W5Lengths[i] = rxq[i].len /\ rxq[i].len \in Nat \ {0}
  <2> SUFFICES ASSUME NEW i \in 1..Len(rxq)
               PROVE  /\ rxq[i] \in Buffered /\ W5Starts[i] = rxq[i].pos
                      /\ W5Lengths[i] = rxq[i].len /\ rxq[i].len \in Nat \ {0}
    OBVIOUS
  <2>1. rxq[i] \in Buffered
    BY DEF W5Types
  <2>2. rxq[i].len \in Nat \ {0}
    BY <2>1, Registers DEF Buffered
  <2> QED
    BY <1>1, <2>1, <2>2 DEF W5Starts, W5Lengths
<1>5. \A i, k \in 1..Len(rxq) + 1 : W5Starts[i] = W5Starts[k] => i = k
  BY <1>1, Registers, LaidApart DEF BufferLaid
<1>6. rxfree = IF rxq = <<>> THEN rxwr ELSE Head(rxq).pos
  <2>1. CASE rxq = <<>>
    BY <1>2, <1>3, <2>1
  <2>2. CASE rxq # <<>>
    <3>1. Head(rxq) = rxq[1] /\ 1 \in 1..Len(rxq)
      BY <1>1, <2>2 DEF W5Types
    <3> QED
      BY <1>2, <1>4, <2>2, <3>1
  <2> QED
    BY <2>1, <2>2
<1> QED
  BY <1>1, <1>2, <1>3, <1>4, <1>5, <1>6

LEMMA W5ReceivesInit == W5Init => W5Receives
<1> SUFFICES ASSUME W5Init PROVE W5Receives
  OBVIOUS
<1>1. /\ wpc = [t \in W5Threads |-> "idle"] /\ wjob = [t \in W5Threads |-> NoJob]
      /\ rxq = <<>> /\ rxwr = 0 /\ rxrd = 0 /\ rxfree = 0 /\ w5Id = 1
  BY DEF W5Init
<1>2. W5Types
  BY <1>1, Registers DEF W5Types, W5Places, Jobs, NoJob, NoW5Frame
<1>3. BufferLaid
  <2>1. Len(rxq) = 0 /\ W5Starts[1] = 0 /\ \A k \in 1..0 + 1 : k = 1
    BY <1>1 DEF W5Starts
  <2> QED
    BY <1>1, <2>1, Registers DEF BufferLaid, Laid
<1>4. Polling
  BY <1>1, Registers DEF Polling, W5Threads
<1> QED
  BY <1>2, <1>3, <1>4 DEF W5Receives

\* A step that leaves the receive buffer and the place of the poll alone.
LEMMA PollKept ==
  ASSUME W5Receives, UNCHANGED w5rx, W5Types',
         wpc'[Worker] = wpc[Worker] \/ (wpc'[Worker] \notin {"rxhead", "rxptr", "rxrecv"} /\ wpc[Worker] # "rxrecv"),
         wpc[Worker] \in {"rxhead", "rxptr", "rxrecv"} => wjob'[Worker] = wjob[Worker],
         wpc'["app"] \notin {"rxhead", "rxptr", "rxrecv"}
  PROVE  W5Receives'
<1>1. UNCHANGED <<rxq, rxwr, rxrd, rxfree>>
  BY DEF w5rx
<1>2. W5Starts' = W5Starts /\ W5Lengths' = W5Lengths /\ Len(rxq)' = Len(rxq)
  BY <1>1 DEF W5Starts, W5Lengths
<1>3. BufferLaid'
  BY <1>1, <1>2 DEF W5Receives, BufferLaid
<1>4. Polling'
  BY <1>1, <1>2 DEF W5Receives, Polling
<1> QED
  BY <1>3, <1>4 DEF W5Receives

LEMMA SizeReceives ==
  ASSUME W5Receives, W5RxSize PROVE W5Receives'
<1> USE DEF W5Receives
<1>1. /\ UNCHANGED w5rx /\ UNCHANGED w5Id /\ wpc[Worker] = "idle" /\ Rsr > 0 /\ wpc' = [wpc EXCEPT ![Worker] = "rxhead"]
      /\ wjob' = [wjob EXCEPT ![Worker] = [NoJob EXCEPT !.rsr = Rsr, !.rd = rxrd]]
  BY DEF W5RxSize, Waiting, Goto, w5tx
<1>2. UNCHANGED <<rxq, rxwr, rxrd, rxfree>>
  BY <1>1 DEF w5rx
<1>3. rxrd = rxfree /\ rxrd \in Nat
  BY <1>1 DEF Polling, W5Types
<1>4. Rsr = From(rxfree, rxwr, W5Wrap) /\ Rsr \in Nat
  <2>1. rxfree \in 0..W5Wrap - 1 /\ rxwr \in 0..W5Wrap - 1 /\ W5Wrap \in Nat \ {0}
    BY Registers, BufferFacts
  <2>2. Rsr = From(rxfree, rxwr, W5Wrap)
    BY <2>1, FromMod DEF Rsr
  <2>3. From(rxfree, rxwr, W5Wrap) \in 0..W5Wrap - 1
    BY <2>1, FromRange
  <2> QED
    BY <2>1, <2>2, <2>3
<1>5. rxq # <<>>
  <2> SUFFICES ASSUME rxq = <<>> PROVE FALSE
    OBVIOUS
  <2>1. rxfree = rxwr
    BY BufferFacts
  <2>2. From(rxfree, rxwr, W5Wrap) = 0
    BY <2>1, BufferFacts, Registers, FromBack
  <2> QED
    BY <1>1, <1>4, <2>2
<1>6. /\ [NoJob EXCEPT !.rsr = Rsr, !.rd = rxrd] \in Jobs
      /\ [NoJob EXCEPT !.rsr = Rsr, !.rd = rxrd].rsr = Rsr
      /\ [NoJob EXCEPT !.rsr = Rsr, !.rd = rxrd].rd = rxrd
  BY <1>3, <1>4 DEF NoJob, Jobs, NoW5Frame
<1>7. W5Types' /\ wpc'[Worker] = "rxhead" /\ wjob'[Worker].rsr = Rsr /\ wjob'[Worker].rd = rxrd
      /\ wpc'["app"] = wpc["app"]
  BY <1>1, <1>2, <1>6, Registers DEF W5Types, W5Places, W5Threads, Worker
<1>8. W5Starts' = W5Starts /\ W5Lengths' = W5Lengths /\ Len(rxq)' = Len(rxq)
  BY <1>2 DEF W5Starts, W5Lengths
<1>9. BufferLaid'
  BY <1>2, <1>8 DEF BufferLaid
<1>10. Len(rxq) + 1 \in 1..Len(rxq) + 1 /\ wjob'[Worker].rsr = From(rxfree, W5Starts[Len(rxq) + 1], W5Wrap)
  BY <1>4, <1>7, BufferFacts
<1>11. Polling'
  BY <1>2, <1>3, <1>5, <1>7, <1>8, <1>10 DEF Polling
<1> QED
  BY <1>7, <1>9, <1>11

\* The length is that of the first frame, or all that had been received.
LEMMA HeadReceives ==
  ASSUME W5Receives, W5RxHead PROVE W5Receives'
<1> USE DEF W5Receives
<1>1. /\ UNCHANGED w5rx /\ UNCHANGED w5Id /\ wpc[Worker] = "rxhead" /\ wpc' = [wpc EXCEPT ![Worker] = "rxptr"]
  BY DEF W5RxHead, Goto, w5tx
<1>2. UNCHANGED <<rxq, rxwr, rxrd, rxfree>>
  BY <1>1 DEF w5rx
<1>3. PICK len \in LensAt(wjob[Worker].rd) \cup {wjob[Worker].rsr} : wjob' = [wjob EXCEPT ![Worker].len = len]
  BY DEF W5RxHead
<1>4. rxrd = rxfree /\ wjob[Worker].rd = rxfree /\ rxq # <<>>
  BY <1>1 DEF Polling
<1>5. \E k \in 1..Len(rxq) + 1 : len = From(rxfree, W5Starts[k], W5Wrap)
  <2>1. CASE len = wjob[Worker].rsr
    BY <1>1, <2>1 DEF Polling
  <2>2. CASE len \in LensAt(rxfree)
    <3>1. Len(rxq) \in Nat /\ 1 \in 1..Len(rxq) /\ rxq[1].pos = rxfree
      BY <1>4, BufferFacts
    <3>2. \A i \in DOMAIN rxq : rxq[i].pos = rxfree => i = 1
      BY <3>1, BufferFacts
    <3>3. len = rxq[1].len
      BY <2>2, <3>1, <3>2, BufferFacts DEF LensAt
    <3>4. From(rxfree, W5Starts[1], W5Wrap) + W5Lengths[1] = From(rxfree, W5Starts[1 + 1], W5Wrap)
      BY <3>1 DEF BufferLaid, Laid
    <3>5. From(rxfree, W5Starts[1], W5Wrap) = 0
      BY BufferFacts, Registers, FromBack
    <3>6. W5Lengths[1] = len /\ len \in Int /\ 1 + 1 \in 1..Len(rxq) + 1
      BY <3>1, <3>3, BufferFacts
    <3>7. len = From(rxfree, W5Starts[1 + 1], W5Wrap)
      BY <3>4, <3>5, <3>6
    <3> QED
      BY <3>6, <3>7
  <2> QED
    BY <1>3, <1>4, <2>1, <2>2
<1>6. len \in Nat
  <2>1. PICK k \in 1..Len(rxq) + 1 : len = From(rxfree, W5Starts[k], W5Wrap)
    BY <1>5
  <2>2. W5Starts[k] \in 0..W5Wrap - 1 /\ rxfree \in 0..W5Wrap - 1 /\ W5Wrap \in Nat \ {0}
    BY BufferFacts, Registers
  <2>3. From(rxfree, W5Starts[k], W5Wrap) \in 0..W5Wrap - 1
    BY <2>2, FromRange
  <2> QED
    BY <2>1, <2>2, <2>3
<1>7. /\ W5Types' /\ wpc'[Worker] = "rxptr" /\ wjob'[Worker].len = len /\ wjob'[Worker].rd = rxfree
      /\ wpc'["app"] = wpc["app"]
  <2>1. [wjob[Worker] EXCEPT !.len = len] \in Jobs /\ wjob' = [wjob EXCEPT ![Worker] = [wjob[Worker] EXCEPT !.len = len]]
    BY <1>3, <1>6, Registers DEF W5Types, Jobs
  <2>2. wjob' \in [W5Threads -> Jobs] /\ wjob'[Worker] = [wjob[Worker] EXCEPT !.len = len] /\ wjob[Worker] \in Jobs
    BY <2>1, Registers DEF W5Types
  <2>3. wjob'[Worker].len = len /\ wjob'[Worker].rd = wjob[Worker].rd
    BY <2>2 DEF Jobs
  <2>4. /\ wpc' \in [W5Threads -> W5Places] /\ wpc'[Worker] = "rxptr" /\ wpc'["app"] = wpc["app"]
    BY <1>1, Registers DEF W5Types, W5Places, W5Threads, Worker
  <2> QED
    BY <1>1, <1>2, <1>4, <2>2, <2>3, <2>4 DEF W5Types
<1>8. W5Starts' = W5Starts /\ W5Lengths' = W5Lengths /\ Len(rxq)' = Len(rxq)
  BY <1>2 DEF W5Starts, W5Lengths
<1>9. BufferLaid'
  BY <1>2, <1>8 DEF BufferLaid
<1>10. Polling'
  BY <1>2, <1>4, <1>5, <1>7, <1>8 DEF Polling
<1> QED
  BY <1>7, <1>9, <1>10

LEMMA PtrReceives ==
  ASSUME W5Receives, W5RxPtr PROVE W5Receives'
<1> USE DEF W5Receives
<1>1. /\ UNCHANGED <<wjob, rxq, rxwr, rxfree>> /\ UNCHANGED w5Id
      /\ wpc[Worker] = "rxptr" /\ wpc' = [wpc EXCEPT ![Worker] = "rxrecv"]
      /\ rxrd' = (wjob[Worker].rd + wjob[Worker].len) % W5Wrap
  BY DEF W5RxPtr, Goto, w5tx, NextRd, Pos
<1>2. wjob[Worker].rd = rxfree
  BY <1>1 DEF Polling
<1>3. PICK k \in 1..Len(rxq) + 1 : wjob[Worker].len = From(rxfree, W5Starts[k], W5Wrap)
  BY <1>1 DEF Polling
<1>4. rxrd' = W5Starts[k] /\ rxrd' \in 0..W5Wrap - 1
  <2>1. W5Starts[k] \in 0..W5Wrap - 1 /\ rxfree \in 0..W5Wrap - 1 /\ W5Wrap \in Nat \ {0}
    BY BufferFacts, Registers
  <2>2. (rxfree + From(rxfree, W5Starts[k], W5Wrap)) % W5Wrap = W5Starts[k]
    BY <2>1, FromBack
  <2> QED
    BY <1>1, <1>2, <1>3, <2>1, <2>2
<1>5. W5Types' /\ wpc'[Worker] = "rxrecv" /\ wpc'["app"] = wpc["app"]
  BY <1>1, <1>4, Registers DEF W5Types, W5Places, W5Threads, Worker
<1>6. W5Starts' = W5Starts /\ W5Lengths' = W5Lengths /\ Len(rxq)' = Len(rxq)
  BY <1>1 DEF W5Starts, W5Lengths
<1>7. BufferLaid'
  BY <1>1, <1>6 DEF BufferLaid
<1>8. Polling'
  BY <1>1, <1>4, <1>5, <1>6 DEF Polling
<1> QED
  BY <1>5, <1>7, <1>8

\* The chip takes back whole frames.
LEMMA LeftFrom ==
  ASSUME W5Types, BufferLaid, NEW m \in 0..Len(rxq)
  PROVE  /\ Left(W5Starts[m + 1]) \in Seq(Buffered)
         /\ Len(Left(W5Starts[m + 1])) = Len(rxq) - m
         /\ \A i \in 1..Len(rxq) - m : Left(W5Starts[m + 1])[i] = rxq[i + m]
<1>1. /\ Len(rxq) \in Nat /\ \A i \in 1..Len(rxq) : W5Starts[i] = rxq[i].pos
      /\ DOMAIN rxq = 1..Len(rxq)
  BY BufferFacts
<1>2. CASE m < Len(rxq)
  <2>1. m + 1 \in DOMAIN rxq /\ rxq[m + 1].pos = W5Starts[m + 1]
    BY <1>1, <1>2
  <2>2. \A i \in DOMAIN rxq : rxq[i].pos = W5Starts[m + 1] => i = m + 1
    BY <1>1, <1>2, BufferFacts
  <2>3. (CHOOSE i \in DOMAIN rxq : rxq[i].pos = W5Starts[m + 1]) = m + 1
    BY <2>1, <2>2
  <2>4. Left(W5Starts[m + 1]) = SubSeq(rxq, m + 1, Len(rxq))
    BY <2>1, <2>3 DEF Left
  <2>5. m + 1 \in Int /\ Len(rxq) \in Int /\ \A i \in m + 1..Len(rxq) : rxq[i] \in Buffered
    BY <1>1, BufferFacts
  <2>6. /\ SubSeq(rxq, m + 1, Len(rxq)) \in Seq(Buffered)
        /\ Len(SubSeq(rxq, m + 1, Len(rxq))) =
             (IF m + 1 <= Len(rxq) THEN Len(rxq) - (m + 1) + 1 ELSE 0)
        /\ \A i \in 1..Len(rxq) - (m + 1) + 1 : SubSeq(rxq, m + 1, Len(rxq))[i] = rxq[m + 1 + i - 1]
    BY <2>5, SubSeqProperties
  <2>7. \A i \in 1..Len(rxq) - m : i \in 1..Len(rxq) - (m + 1) + 1 /\ m + 1 + i - 1 = i + m
    BY <1>1
  <2>8. Len(rxq) - (m + 1) + 1 = Len(rxq) - m /\ m + 1 <= Len(rxq)
    BY <1>1, <1>2
  <2>9. Len(SubSeq(rxq, m + 1, Len(rxq))) = Len(rxq) - m
    BY <2>6, <2>8
  <2>10. \A i \in 1..Len(rxq) - m : SubSeq(rxq, m + 1, Len(rxq))[i] = rxq[i + m]
    BY <2>6, <2>7
  <2> QED
    BY <2>4, <2>6, <2>9, <2>10
<1>3. CASE ~(m < Len(rxq))
  <2>1. m = Len(rxq) /\ W5Starts[m + 1] = rxwr
    <3>1. m = Len(rxq)
      <4>1. Len(rxq) \in Nat
        BY <1>1
      <4> QED
        BY <1>3, <4>1
    <3>2. W5Starts[Len(rxq) + 1] = rxwr
      BY BufferFacts
    <3> QED
      BY <3>1, <3>2
  <2>2. \A i \in DOMAIN rxq : rxq[i].pos # rxwr
    BY <1>1, <2>1, BufferFacts
  <2>3. Left(W5Starts[m + 1]) = <<>>
    BY <2>1, <2>2 DEF Left
  <2> QED
    BY <1>1, <2>1, <2>3
<1> QED
  BY <1>2, <1>3

LEMMA RecvReceives ==
  ASSUME W5Receives, W5RxRecv PROVE W5Receives'
<1> USE DEF W5Receives
<1>1. /\ UNCHANGED <<rxwr, rxrd>> /\ UNCHANGED w5Id
      /\ wpc[Worker] = "rxrecv" /\ wpc' = [wpc EXCEPT ![Worker] = "idle"]
      /\ wjob' = [wjob EXCEPT ![Worker] = NoJob] /\ rxfree' = rxrd /\ rxq' = Left(rxrd)
  BY DEF W5RxRecv, Goto
<1>2. PICK k \in 1..Len(rxq) + 1 : rxrd = W5Starts[k]
  BY <1>1 DEF Polling
<1> DEFINE m == k - 1
<1>3. m \in 0..Len(rxq) /\ rxrd = W5Starts[m + 1] /\ Len(rxq) \in Nat
  BY <1>2, BufferFacts
<1> HIDE DEF m
<1>4. /\ rxq' \in Seq(Buffered) /\ Len(rxq') = Len(rxq) - m
      /\ \A i \in 1..Len(rxq) - m : rxq'[i] = rxq[i + m]
  BY <1>1, <1>3, LeftFrom
<1>5. W5Types' /\ wpc'[Worker] = "idle" /\ wpc'["app"] = wpc["app"]
  <2>1. NoJob \in Jobs
    BY DEF NoJob, Jobs, NoW5Frame
  <2> QED
    BY <1>1, <1>4, <2>1, Registers DEF W5Types, W5Places, W5Threads, Worker
<1>6. /\ \A i \in 1..Len(rxq) - m + 1 : W5Starts'[i] = W5Starts[i + m]
      /\ \A i \in 1..Len(rxq) - m : W5Lengths'[i] = W5Lengths[i + m]
  <2>1. ASSUME NEW i \in 1..Len(rxq) - m
        PROVE  W5Starts'[i] = W5Starts[i + m] /\ W5Lengths'[i] = W5Lengths[i + m]
    <3> DEFINE j == i + m
    <3>1. j \in 1..Len(rxq) /\ rxq'[i] = rxq[j] /\ i \in 1..Len(rxq')
      BY <1>3, <1>4
    <3> HIDE DEF j
    <3>2. W5Starts[j] = rxq[j].pos /\ W5Lengths[j] = rxq[j].len
      BY <3>1, BufferFacts
    <3>3. W5Starts'[i] = rxq'[i].pos /\ W5Lengths'[i] = rxq'[i].len
      BY <1>3, <1>4, <3>1 DEF W5Starts, W5Lengths
    <3> QED
      BY <3>1, <3>2, <3>3 DEF j
  <2>2. W5Starts'[Len(rxq) - m + 1] = W5Starts[(Len(rxq) - m + 1) + m]
    <3> DEFINE n == Len(rxq) - m
    <3>1. n \in Nat /\ Len(rxq') = n /\ (n + 1) + m = Len(rxq) + 1
      BY <1>3, <1>4
    <3> HIDE DEF n
    <3>2. W5Starts'[n + 1] = rxwr
      BY <1>1, <3>1 DEF W5Starts
    <3> QED
      BY <3>1, <3>2, BufferFacts DEF n
  <2>3. \A i \in 1..Len(rxq) - m + 1 : i \in 1..Len(rxq) - m \/ i = Len(rxq) - m + 1
    BY <1>3
  <2> QED
    BY <2>1, <2>2, <2>3
<1>7. Laid(W5Starts', W5Lengths', Len(rxq) - m, W5Starts[m + 1], W5Wrap)
  BY <1>3, <1>6, Registers, LaidDrop DEF BufferLaid
<1>8. BufferLaid'
  BY <1>1, <1>3, <1>4, <1>7 DEF BufferLaid
<1>9. Polling'
  BY <1>1, <1>5 DEF Polling
<1> QED
  BY <1>5, <1>8, <1>9

\* A frame arrives behind the last one: the buffer is smaller than the width of the
\* registers, so a full one does not look empty.
LEMMA ArrivesReceives ==
  ASSUME W5Receives, NEW len \in Lens, W5ChipReceive(len) PROVE W5Receives'
<1> USE DEF W5Receives
<1> DEFINE frame == [pos |-> rxwr, len |-> len]
           n == Len(rxq)
<1>1. /\ UNCHANGED <<wpc, wjob, rxrd, rxfree>> /\ UNCHANGED w5Id /\ Rsr + len <= W5Buf
      /\ rxq' = Append(rxq, frame) /\ rxwr' = (rxwr + len) % W5Wrap
  BY DEF W5ChipReceive, Pos, w5tx
<1>2. /\ n \in Nat /\ rxfree \in 0..W5Wrap - 1 /\ rxwr \in 0..W5Wrap - 1 /\ W5Starts[n + 1] = rxwr
      /\ W5Wrap \in Nat \ {0} /\ len \in Nat \ {0} /\ W5Buf < W5Wrap /\ W5Buf \in Nat
  BY BufferFacts, Registers
<1>3. frame \in Buffered
  BY <1>2 DEF Buffered
<1>4. /\ rxq' \in Seq(Buffered) /\ Len(rxq') = n + 1 /\ rxq'[n + 1] = frame
      /\ \A i \in 1..n : rxq'[i] = rxq[i]
  BY <1>1, <1>3 DEF W5Types
<1>5. rxwr' \in 0..W5Wrap - 1
  BY <1>1, <1>2
<1>6. From(rxfree, W5Starts[n + 1], W5Wrap) + len < W5Wrap
  <2>1. Rsr = From(rxfree, rxwr, W5Wrap)
    BY <1>2, FromMod DEF Rsr
  <2>2. From(rxfree, rxwr, W5Wrap) \in Int
    BY <1>2, FromRange
  <2> QED
    BY <1>1, <1>2, <2>1, <2>2
<1>7. frame.pos = rxwr /\ frame.len = len
  OBVIOUS
<1> HIDE DEF frame
<1>8. /\ \A i \in 1..n + 1 : W5Starts'[i] = W5Starts[i]
      /\ W5Starts'[n + 2] = (W5Starts[n + 1] + len) % W5Wrap
      /\ \A i \in 1..n : W5Lengths'[i] = W5Lengths[i]
      /\ W5Lengths'[n + 1] = len
  <2>1. \A i \in 1..n + 2 : W5Starts'[i] = IF i <= n + 1 THEN rxq'[i].pos ELSE rxwr'
    <3>1. (n + 1) + 1 = n + 2
      BY <1>2
    <3> QED
      BY <1>4, <3>1 DEF W5Starts
  <2>2. \A i \in 1..n + 1 : W5Lengths'[i] = rxq'[i].len
    BY <1>4 DEF W5Lengths
  <2>3. ASSUME NEW i \in 1..n PROVE W5Starts'[i] = W5Starts[i] /\ W5Lengths'[i] = W5Lengths[i]
    <3>1. i \in 1..n + 1 /\ i \in 1..n + 2 /\ i <= n + 1
      BY <1>2
    <3> QED
      BY <1>4, <2>1, <2>2, <3>1, BufferFacts
  <2>4. W5Starts'[n + 1] = rxwr /\ W5Lengths'[n + 1] = len /\ W5Starts'[n + 2] = rxwr'
    <3>1. n + 1 \in 1..n + 1 /\ n + 1 \in 1..n + 2 /\ n + 2 \in 1..n + 2 /\ ~(n + 2 <= n + 1) /\ n + 1 <= n + 1
      BY <1>2
    <3> QED
      BY <1>4, <1>7, <2>1, <2>2, <3>1
  <2>5. \A i \in 1..n + 1 : i \in 1..n \/ i = n + 1
    BY <1>2
  <2> QED
    BY <1>1, <1>2, <2>3, <2>4, <2>5
<1>9. Laid(W5Starts', W5Lengths', n + 1, rxfree, W5Wrap)
  <2>1. Laid(W5Starts, W5Lengths, n, rxfree, W5Wrap)
    BY DEF BufferLaid
  <2> HIDE DEF n
  <2> QED
    BY <1>2, <1>6, <1>8, <2>1, LaidAppend
<1>10. BufferLaid'
  BY <1>1, <1>4, <1>9 DEF BufferLaid
<1>11. W5Types'
  BY <1>1, <1>4, <1>5 DEF W5Types
<1>12. Polling'
  <2>1. \A k \in 1..n + 1 : k \in 1..(n + 1) + 1
    BY <1>2
  <2>2. rxq' # <<>>
    BY <1>2, <1>4
  <2>3. Len(rxq') = n + 1 /\ \A k \in 1..n + 1 : W5Starts'[k] = W5Starts[k]
    BY <1>4, <1>8
  <2>4. wpc[Worker] = "rxhead" => \E k \in 1..Len(rxq') + 1 :
                                  wjob[Worker].rsr = From(rxfree, W5Starts'[k], W5Wrap)
    BY <2>1, <2>3 DEF Polling
  <2>5. wpc[Worker] = "rxptr" => \E k \in 1..Len(rxq') + 1 :
                                 wjob[Worker].len = From(rxfree, W5Starts'[k], W5Wrap)
    BY <2>1, <2>3 DEF Polling
  <2>6. wpc[Worker] = "rxrecv" => \E k \in 1..Len(rxq') + 1 : rxrd = W5Starts'[k]
    BY <2>1, <2>3 DEF Polling
  <2> QED
    BY <1>1, <2>2, <2>4, <2>5, <2>6 DEF Polling
<1> QED
  BY <1>10, <1>11, <1>12
-----------------------------------------------------------------------------
(* The W5500 transmits.                                                    *)

\* What was handed over lies behind the chip's position, and the frame under way behind
\* that once it is copied.
Due == Len(w5due)
TxUnit(n) == txmem[Cell(txrd + n - 1)]
Written(t) == \A i \in 1..wjob[t].len : TxUnit(Due + i) = wjob[t].id
Ahead(t) == wpc[t] \in {"wr", "data", "ptr", "send"}

\* One thread at most transmits; the driver's position is behind what was handed over,
\* and behind the frame under way once it is stored.  A thread waits for a SEND that is
\* pending, and only where none was lost does the chip hold nothing else.
W5Sending ==
  /\ {txrd, txwr} \subseteq 0..W5Wrap - 1 /\ {sending, lost} \subseteq BOOLEAN
  /\ w5due \in Seq(Nat) /\ Due <= W5Buf
  /\ \A i \in 1..Due : TxUnit(i) = w5due[i]
  /\ \A t, u \in W5Threads : wpc[t] \in Sends /\ wpc[u] \in Sends => t = u
  /\ \A t \in W5Threads : wpc[t] \in Sends => wjob[t].len \in Lens
  /\ \A t \in W5Threads : Ahead(t) => Due + wjob[t].len <= W5Buf
  /\ \A t \in W5Threads : wpc[t] \in {"data", "ptr"} => wjob[t].rd = txwr
  /\ \A t \in W5Threads : wpc[t] \in {"ptr", "send"} => Written(t)
  /\ \A t \in W5Threads : wpc[t] = "send" => txwr = Pos(txrd + (Due + wjob[t].len))
  /\ (\A t \in W5Threads : wpc[t] # "send") => txwr = Pos(txrd + Due)
  /\ sending => \E t \in W5Threads : wpc[t] = "wait" /\ (lost \/ w5due = Units(wjob[t]))
  /\ ~sending /\ ~lost => w5due = <<>>

W5Inv == W5Receives /\ (~clash => W5Sending)

\* Positions less than a buffer apart lie in different cells.
LEMMA CellsApart ==
  ASSUME NEW x \in Int, NEW i \in 0..W5Buf - 1, NEW j \in 0..W5Buf - 1, Cell(x + i) = Cell(x + j)
  PROVE  i = j
<1> DEFINE q == (x + i) \div W5Buf
           p == (x + j) \div W5Buf
           r == (x + i) % W5Buf
<1>1. W5Buf \in Nat \ {0} /\ i \in Int /\ j \in Int /\ x + i \in Int /\ x + j \in Int
  BY Registers
<1>2. /\ x + i = W5Buf * q + r /\ q \in Int
      /\ x + j = W5Buf * p + r /\ p \in Int /\ r \in Int
  BY <1>1, DivMod, ModRange DEF Cell
<1> HIDE DEF q, p, r
<1>3. W5Buf * q - W5Buf * p = W5Buf * (q - p) /\ q - p \in Int /\ W5Buf * q \in Int /\ W5Buf * p \in Int
  BY <1>1, <1>2
<1>4. i - j = W5Buf * (q - p)
  BY <1>1, <1>2, <1>3
<1>5. i - j < W5Buf /\ i - j > -W5Buf
  BY <1>1
<1>6. q - p = 0
  <2>1. /\ q - p >= 1 => W5Buf * (q - p) >= W5Buf
        /\ q - p <= -1 => W5Buf * (q - p) <= -W5Buf
    BY <1>1, <1>3, MulBound
  <2> QED
    BY <1>1, <1>3, <1>4, <1>5, <2>1
<1>7. i - j = 0
  BY <1>1, <1>3, <1>4, <1>6, MulBound
<1> QED
  BY <1>1, <1>7

\* A buffer divides the width of the registers, so the wrap does not show in the cells.
LEMMA CellWraps ==
  ASSUME NEW x \in Int, NEW k \in Int
  PROVE  Cell(Pos(x) + k) = Cell(x + k)
<1>1. W5Wrap \in Nat \ {0} /\ W5Buf \in Nat \ {0} /\ W5Wrap % W5Buf = 0
  BY W5LinkAssumption
<1>2. x % W5Wrap \in Int
  BY <1>1, ModRange
<1>3. ((x % W5Wrap) + k) % W5Buf = (((x % W5Wrap) % W5Buf) + k) % W5Buf
  BY <1>1, <1>2, ModAdd
<1>4. (x % W5Wrap) % W5Buf = x % W5Buf
  BY <1>1, ModMod
<1>5. ((x % W5Buf) + k) % W5Buf = (x + k) % W5Buf
  BY <1>1, ModAdd
<1> QED
  BY <1>3, <1>4, <1>5 DEF Cell, Pos

LEMMA BehindPos ==
  ASSUME txrd \in 0..W5Wrap - 1, NEW n \in 0..W5Wrap - 1
  PROVE  Pos(txrd + n) \in 0..W5Wrap - 1 /\ (Pos(txrd + n) - txrd) % W5Wrap = n
<1>1. W5Wrap \in Nat \ {0} /\ n \in Nat /\ n < W5Wrap
  BY Registers
<1>2. From(txrd, txrd, W5Wrap) = 0
  BY <1>1, FromBack
<1>3. /\ (txrd + n) % W5Wrap \in 0..W5Wrap - 1
      /\ From(txrd, (txrd + n) % W5Wrap, W5Wrap) = 0 + n
  BY <1>1, <1>2, FromStep
<1>4. From(txrd, (txrd + n) % W5Wrap, W5Wrap) = (((txrd + n) % W5Wrap) - txrd) % W5Wrap
  BY <1>1, <1>3, FromMod
<1> QED
  BY <1>1, <1>3, <1>4 DEF Pos

LEMMA DueFacts ==
  ASSUME W5Sending
  PROVE  /\ Due \in Nat /\ Due <= W5Buf /\ Due \in 0..W5Wrap - 1 /\ txrd \in Int /\ txwr \in Nat
         /\ txrd \in 0..W5Wrap - 1 /\ W5Wrap \in Nat \ {0} /\ W5Buf \in Nat \ {0}
         /\ DOMAIN w5due = 1..Due
<1>1. w5due \in Seq(Nat) /\ Due <= W5Buf /\ {txrd, txwr} \subseteq 0..W5Wrap - 1
  BY DEF W5Sending
<1>2. Due \in Nat /\ DOMAIN w5due = 1..Due
  BY <1>1 DEF Due
<1> HIDE DEF Due
<1> QED
  BY <1>1, <1>2, Registers

LEMMA W5InvInit == W5Init => W5Inv
<1> SUFFICES ASSUME W5Init PROVE W5Inv
  OBVIOUS
<1>1. /\ \A t \in W5Threads : wpc[t] = "idle"
      /\ txrd = 0 /\ txwr = 0 /\ sending = FALSE /\ w5due = <<>> /\ lost = FALSE
  BY DEF W5Init
<1>2. \A t \in W5Threads : wpc[t] \notin Sends /\ wpc[t] \notin {"data", "ptr", "send", "wait"} /\ ~Ahead(t)
  BY <1>1 DEF Sends, Ahead
<1>3. 0 \in 0..W5Wrap - 1 /\ W5Buf \in Nat /\ W5Wrap \in Nat \ {0}
  BY Registers
<1>4. Due = 0 /\ w5due \in Seq(Nat) /\ txrd + Due = 0
  BY <1>1 DEF Due
<1>5. Pos(txrd + Due) = 0
  BY <1>3, <1>4, ModRound DEF Pos
<1>6. W5Sending
  <2>1. \A i \in 1..Due : FALSE
    BY <1>4
  <2>2. \A t \in W5Threads : wpc[t] \notin {"data", "ptr"} /\ wpc[t] \notin {"ptr", "send"} /\ wpc[t] # "send"
    BY <1>2
  <2>3. {txrd, txwr} \subseteq 0..W5Wrap - 1 /\ {sending, lost} \subseteq BOOLEAN
    BY <1>1, <1>3
  <2>4. Due <= W5Buf /\ txwr = Pos(txrd + Due) /\ ~sending
    BY <1>1, <1>3, <1>4, <1>5
  <2> QED
    BY <1>1, <1>2, <1>4, <2>1, <2>2, <2>3, <2>4 DEF W5Sending
<1> QED
  BY <1>6, W5ReceivesInit DEF W5Inv

\* The steps of the poll and of the receiving chip keep it: they move no sender, and a
\* RECV at most loses a SEND.
LEMMA SendingKept ==
  ASSUME W5Sending, UNCHANGED <<txmem, txrd, txwr, w5due>>,
         UNCHANGED <<sending, lost>> \/ (sending' = FALSE /\ lost' = (lost \/ sending)),
         \A t \in W5Threads : (wpc'[t] \in Sends <=> wpc[t] \in Sends)
                              /\ (wpc[t] \in Sends => wpc'[t] = wpc[t] /\ wjob'[t] = wjob[t])
  PROVE  W5Sending'
<1>1. Due' = Due /\ \A n : TxUnit(n)' = TxUnit(n)
  BY DEF Due, TxUnit
<1>2. \A t \in W5Threads : wpc[t] \in Sends => Written(t)' = Written(t)
  BY <1>1 DEF Written
<1>3. \A x \in {"wr", "data", "ptr", "send", "wait"} : x \in Sends
  BY DEF Sends
<1>4. \A t \in W5Threads : /\ (wpc'[t] = "send") = (wpc[t] = "send") /\ (wpc'[t] = "wait") = (wpc[t] = "wait")
                           /\ (wpc'[t] = "ptr") = (wpc[t] = "ptr") /\ (wpc'[t] = "wr") = (wpc[t] = "wr")
                           /\ (wpc'[t] = "data") = (wpc[t] = "data")
  BY <1>3
<1>5. \A t \in W5Threads : /\ Ahead(t)' <=> Ahead(t)
                           /\ (Ahead(t) \/ wpc[t] = "wait" => wjob'[t] = wjob[t] /\ wpc[t] \in Sends)
  BY <1>3, <1>4 DEF Ahead
<1>6. /\ \A t \in W5Threads : Ahead(t)' => Due' + wjob'[t].len <= W5Buf
      /\ \A t \in W5Threads : wpc'[t] \in {"data", "ptr"} => wjob'[t].rd = txwr'
      /\ \A t \in W5Threads : wpc'[t] \in {"ptr", "send"} => Written(t)'
      /\ \A t \in W5Threads : wpc'[t] = "send" => txwr' = Pos(txrd' + (Due' + wjob'[t].len))
  BY <1>1, <1>2, <1>3, <1>4, <1>5 DEF W5Sending, Ahead
<1>7. /\ \A t, u \in W5Threads : wpc'[t] \in Sends /\ wpc'[u] \in Sends => t = u
      /\ \A t \in W5Threads : wpc'[t] \in Sends => wjob'[t].len \in Lens
      /\ (\A t \in W5Threads : wpc'[t] # "send") => txwr' = Pos(txrd' + Due')
  BY <1>1, <1>4 DEF W5Sending
<1>8. sending' => \E t \in W5Threads : wpc'[t] = "wait" /\ (lost' \/ w5due' = Units(wjob'[t]))
  <2> SUFFICES ASSUME sending' PROVE \E t \in W5Threads : wpc'[t] = "wait" /\ (lost' \/ w5due' = Units(wjob'[t]))
    OBVIOUS
  <2>1. sending /\ lost' = lost
    OBVIOUS
  <2>2. PICK t \in W5Threads : wpc[t] = "wait" /\ (lost \/ w5due = Units(wjob[t]))
    BY <2>1 DEF W5Sending
  <2> QED
    BY <1>4, <1>5, <2>1, <2>2
<1>9. /\ {sending', lost'} \subseteq BOOLEAN
      /\ ~sending' /\ ~lost' => w5due' = <<>>
  BY DEF W5Sending
<1>10. /\ {txrd', txwr'} \subseteq 0..W5Wrap - 1 /\ w5due' \in Seq(Nat) /\ Due' <= W5Buf
       /\ \A i \in 1..Due' : TxUnit(i)' = w5due'[i]
  BY <1>1 DEF W5Sending
<1> QED
  BY <1>6, <1>7, <1>8, <1>9, <1>10 DEF W5Sending

\* What a step of thread t in a transmission leaves alone.
LEMMA SenderAlone ==
  ASSUME W5Types, W5Sending, NEW t \in W5Threads, wpc[t] \in Sends,
         NEW at \in {"data", "ptr", "send", "wait", "idle"}, wpc' = [wpc EXCEPT ![t] = at]
  PROVE  /\ wpc' \in [W5Threads -> W5Places] /\ wpc'[t] = at
         /\ \A u \in W5Threads \ {t} : wpc[u] \notin Sends /\ wpc'[u] = wpc[u] /\ ~Ahead(u) /\ ~Ahead(u)'
         /\ wjob[t].len \in Lens /\ wjob[t].len \in Nat \ {0}
         /\ wjob[t] \in Jobs
         /\ wpc[t] # "wait" => ~sending /\ Due + wjob[t].len <= W5Buf
<1>1. /\ wpc' \in [W5Threads -> W5Places] /\ wpc'[t] = at
      /\ \A u \in W5Threads \ {t} : wpc[u] \notin Sends /\ wpc'[u] = wpc[u]
  BY DEF W5Types, W5Sending, W5Places
<1>2. wjob[t].len \in Lens /\ wjob[t].len \in Nat \ {0} /\ wjob[t] \in Jobs
  BY Registers DEF W5Types, W5Sending
<1>3. \A u \in W5Threads \ {t} : ~Ahead(u) /\ ~Ahead(u)' /\ wpc[u] # "wait"
  BY <1>1 DEF Ahead, Sends
<1>4. wpc[t] # "wait" => ~sending /\ Due + wjob[t].len <= W5Buf
  <2> SUFFICES ASSUME wpc[t] # "wait" PROVE ~sending /\ Due + wjob[t].len <= W5Buf
    OBVIOUS
  <2>1. Ahead(t)
    BY DEF Ahead, Sends
  <2>2. ~sending
    BY <1>3 DEF W5Sending
  <2> QED
    BY <2>1, <2>2 DEF W5Sending
<1> QED
  BY <1>1, <1>2, <1>3, <1>4

LEMMA RoomSends ==
  ASSUME W5Types, W5Sending, NEW t \in W5Threads, NEW len \in Lens, W5TxRoom(t, len)
  PROVE  W5Types' /\ (~clash' => W5Sending')
<1>1. /\ wpc[t] = "idle" /\ TxFree >= len /\ wpc' = [wpc EXCEPT ![t] = "wr"]
      /\ wjob' = [wjob EXCEPT ![t] = [NoJob EXCEPT !.len = len, !.id = w5Id]]
      /\ w5Id' = (w5Id % W5Ids) + 1 /\ clash' = OtherSends(t)
      /\ UNCHANGED <<txmem, txrd, txwr, sending, w5due, lost, rxq, rxwr, rxrd, rxfree>>
  BY DEF W5TxRoom, Goto, w5rx
<1>2. [NoJob EXCEPT !.len = len, !.id = w5Id] \in Jobs /\ [NoJob EXCEPT !.len = len, !.id = w5Id].len = len
  BY Registers DEF NoJob, Jobs, NoW5Frame, W5Types
<1>3. w5Id' \in Nat
  <2>1. W5Ids \in Nat \ {0} /\ w5Id \in Int
    BY W5LinkAssumption DEF W5Types
  <2>2. w5Id % W5Ids \in 0..W5Ids - 1
    BY <2>1, ModRange
  <2> QED
    BY <1>1, <2>1, <2>2
<1>4. /\ wpc' \in [W5Threads -> W5Places] /\ wpc'[t] = "wr" /\ wjob'[t].len = len
      /\ wjob' \in [W5Threads -> Jobs]
      /\ \A u \in W5Threads \ {t} : wpc'[u] = wpc[u]
  BY <1>1, <1>2 DEF W5Types, W5Places
<1>5. W5Types'
  BY <1>1, <1>3, <1>4 DEF W5Types
<1> SUFFICES ASSUME ~clash' PROVE W5Sending'
  BY <1>5
<1>6. ~sending /\ \A u \in W5Threads : wpc[u] \notin Sends
  BY <1>1 DEF W5Sending, Sends, OtherSends
<1>7. /\ \A u \in W5Threads : wpc'[u] \in Sends => u = t
      /\ \A u \in W5Threads : wpc'[u] \notin {"data", "ptr", "send", "wait"} /\ wpc[u] # "send"
      /\ \A u \in W5Threads : Ahead(u)' => u = t
  BY <1>4, <1>6 DEF Sends, Ahead
<1>8. Due' = Due /\ \A n : TxUnit(n)' = TxUnit(n)
  BY <1>1 DEF Due, TxUnit
<1>9. txwr = Pos(txrd + Due)
  BY <1>7 DEF W5Sending
<1>10. Due + len <= W5Buf
  <2>1. (txwr - txrd) % W5Wrap = Due
    BY <1>9, DueFacts, BehindPos
  <2> QED
    BY <1>1, <2>1, DueFacts, Registers DEF TxFree
<1> QED
  <2>1. /\ \A i \in 1..Due' : TxUnit(i)' = w5due'[i]
        /\ Due' <= W5Buf /\ Due' + wjob'[t].len <= W5Buf /\ txwr' = Pos(txrd' + Due')
    BY <1>1, <1>4, <1>8, <1>9, <1>10 DEF W5Sending
  <2>2. /\ {txrd', txwr'} \subseteq 0..W5Wrap - 1 /\ w5due' \in Seq(Nat) /\ ~sending'
        /\ {sending', lost'} \subseteq BOOLEAN /\ (~sending' /\ ~lost' => w5due' = <<>>)
    BY <1>1, <1>6 DEF W5Sending
  <2> QED
    BY <1>4, <1>7, <2>1, <2>2 DEF W5Sending

LEMMA WrSends ==
  ASSUME W5Types, W5Sending, NEW t \in W5Threads, W5TxWr(t)
  PROVE  W5Types' /\ W5Sending'
<1>1. /\ wpc[t] = "wr" /\ wpc' = [wpc EXCEPT ![t] = "data"] /\ wjob' = [wjob EXCEPT ![t].rd = txwr]
      /\ UNCHANGED <<txmem, txrd, txwr, sending, w5due, lost, w5Id, rxq, rxwr, rxrd, rxfree>>
  BY DEF W5TxWr, Goto, w5rx, w5tx
<1>2. wpc[t] \in Sends
  BY <1>1 DEF Sends
<1>3. /\ wpc' \in [W5Threads -> W5Places] /\ wpc'[t] = "data"
      /\ \A u \in W5Threads \ {t} : wpc[u] \notin Sends /\ wpc'[u] = wpc[u] /\ ~Ahead(u)'
      /\ wjob[t].len \in Lens /\ wjob[t] \in Jobs
      /\ ~sending /\ Due + wjob[t].len <= W5Buf
  BY <1>1, <1>2, SenderAlone
<1>4. /\ wjob' \in [W5Threads -> Jobs] /\ wjob'[t].rd = txwr /\ wjob'[t].len = wjob[t].len
  <2>1. txwr \in Nat
    BY DueFacts
  <2>2. [wjob[t] EXCEPT !.rd = txwr] \in Jobs /\ wjob' = [wjob EXCEPT ![t] = [wjob[t] EXCEPT !.rd = txwr]]
    BY <1>1, <1>3, <2>1 DEF Jobs
  <2>3. wjob' \in [W5Threads -> Jobs] /\ wjob'[t] = [wjob[t] EXCEPT !.rd = txwr]
    BY <2>2 DEF W5Types
  <2> QED
    BY <1>3, <2>3 DEF Jobs
<1>5. W5Types'
  BY <1>1, <1>3, <1>4 DEF W5Types
<1>6. Due' = Due /\ \A n : TxUnit(n)' = TxUnit(n)
  BY <1>1 DEF Due, TxUnit
<1>7. W5Sending'
  <2>1. /\ \A u \in W5Threads : wpc'[u] \in Sends => u = t
        /\ \A u \in W5Threads : wpc'[u] \notin {"ptr", "send", "wait"} /\ wpc[u] # "send"
        /\ \A u \in W5Threads : wpc'[u] \in {"data", "ptr"} => u = t
        /\ \A u \in W5Threads : Ahead(u)' => u = t
    BY <1>1, <1>3 DEF Sends
  <2>2. txwr' = Pos(txrd' + Due')
    BY <1>1, <1>6, <2>1 DEF W5Sending
  <2>3. \A i \in 1..Due' : TxUnit(i)' = w5due'[i]
    BY <1>1, <1>6 DEF W5Sending
  <2>4. /\ {txrd', txwr'} \subseteq 0..W5Wrap - 1 /\ w5due' \in Seq(Nat) /\ ~sending' /\ Due' <= W5Buf
        /\ {sending', lost'} \subseteq BOOLEAN /\ (~sending' /\ ~lost' => w5due' = <<>>)
    BY <1>1, <1>3, <1>6 DEF W5Sending
  <2>5. Due' + wjob'[t].len <= W5Buf /\ wjob'[t].len \in Lens /\ wjob'[t].rd = txwr'
    BY <1>1, <1>3, <1>4, <1>6
  <2> QED
    BY <2>1, <2>2, <2>3, <2>4, <2>5 DEF W5Sending
<1> QED
  BY <1>5, <1>7

\* The copy lands behind what was handed over, and what was handed over stays.
LEMMA DataSends ==
  ASSUME W5Types, W5Sending, NEW t \in W5Threads, W5TxData(t)
  PROVE  W5Types' /\ W5Sending'
<1>1. /\ wpc[t] = "data" /\ wpc' = [wpc EXCEPT ![t] = "ptr"]
      /\ txmem' = [c \in 0..W5Buf-1 |->
                     IF c \in CellsOf(wjob[t].rd, wjob[t].len) THEN wjob[t].id ELSE txmem[c]]
      /\ UNCHANGED <<wjob, txrd, txwr, sending, w5due, lost, w5Id, rxq, rxwr, rxrd, rxfree>>
  BY DEF W5TxData, Goto, w5rx
<1>2. wpc[t] \in Sends
  BY <1>1 DEF Sends
<1>3. /\ wpc' \in [W5Threads -> W5Places] /\ wpc'[t] = "ptr"
      /\ \A u \in W5Threads \ {t} : wpc[u] \notin Sends /\ wpc'[u] = wpc[u] /\ ~Ahead(u)'
      /\ wjob[t].len \in Lens /\ wjob[t].len \in Nat \ {0} /\ wjob[t] \in Jobs
      /\ ~sending /\ Due + wjob[t].len <= W5Buf
  BY <1>1, <1>2, SenderAlone
<1>4. W5Types'
  BY <1>1, <1>3 DEF W5Types
<1>5. wjob[t].rd = txwr /\ txwr = Pos(txrd + Due)
  <2>1. \A u \in W5Threads : wpc[u] # "send"
    BY <1>1, <1>3 DEF Sends
  <2> QED
    BY <1>1, <2>1 DEF W5Sending
<1> DEFINE len == wjob[t].len
           id == wjob[t].id
<1>6. /\ Due' = Due /\ Due \in Nat /\ Due <= W5Buf /\ txrd \in Int /\ W5Buf \in Nat \ {0}
      /\ len \in Nat \ {0} /\ Due + len <= W5Buf
  BY <1>1, <1>3, DueFacts DEF Due
<1>7. \A j \in 0..len - 1 : Cell(wjob[t].rd + j) = Cell(txrd + (Due + j))
  <2> SUFFICES ASSUME NEW j \in 0..len - 1 PROVE Cell(wjob[t].rd + j) = Cell(txrd + (Due + j))
    OBVIOUS
  <2>1. txrd + Due \in Int /\ j \in Int /\ (txrd + Due) + j = txrd + (Due + j)
    BY <1>6
  <2>2. Cell(Pos(txrd + Due) + j) = Cell((txrd + Due) + j)
    BY <2>1, CellWraps
  <2> QED
    BY <1>5, <2>1, <2>2
<1> HIDE DEF len, id
<1>8. \A c : c \in CellsOf(wjob[t].rd, wjob[t].len) <=> \E j \in 0..len - 1 : c = Cell(txrd + (Due + j))
  BY <1>7 DEF CellsOf, len
<1>9. \A n \in 0..W5Buf - 1 : Cell(txrd + n) \in 0..W5Buf - 1
  <2>1. \A n \in 0..W5Buf - 1 : txrd + n \in Int
    BY <1>6
  <2> QED
    BY <1>6, <2>1, ModRange DEF Cell
<1>10. ASSUME NEW i \in 1..len PROVE TxUnit(Due + i)' = id
  <2> DEFINE n == Due + (i - 1)
  <2>1. n \in 0..W5Buf - 1 /\ i - 1 \in 0..len - 1 /\ txrd + (Due + i) - 1 = txrd + n
    BY <1>6
  <2>2. Cell(txrd + n) \in CellsOf(wjob[t].rd, wjob[t].len)
    BY <1>8, <2>1
  <2> HIDE DEF n
  <2>3. txmem'[Cell(txrd + n)] = id
    BY <1>1, <1>9, <2>1, <2>2 DEF id
  <2> QED
    BY <1>1, <1>6, <2>1, <2>3 DEF TxUnit
<1>11. ASSUME NEW i \in 1..Due PROVE TxUnit(i)' = TxUnit(i)
  <2> DEFINE n == i - 1
  <2>1. n \in 0..W5Buf - 1 /\ n < Due /\ txrd + i - 1 = txrd + n /\ n \in Int
    BY <1>6
  <2> HIDE DEF n
  <2>2. Cell(txrd + n) \notin CellsOf(wjob[t].rd, wjob[t].len)
    <3> SUFFICES ASSUME NEW j \in 0..len - 1, Cell(txrd + n) = Cell(txrd + (Due + j)) PROVE FALSE
      BY <1>8
    <3>1. Due + j \in 0..W5Buf - 1 /\ Due + j >= Due
      BY <1>6
    <3>2. n = Due + j
      BY <1>6, <2>1, <3>1, CellsApart
    <3> QED
      BY <1>6, <2>1, <3>1, <3>2
  <2>3. txmem'[Cell(txrd + n)] = txmem[Cell(txrd + n)]
    BY <1>1, <1>9, <2>1, <2>2
  <2> QED
    BY <1>1, <2>1, <2>3 DEF TxUnit
<1>12. W5Sending'
  <2>1. /\ \A u \in W5Threads : wpc'[u] \in Sends => u = t
        /\ \A u \in W5Threads : wpc'[u] \notin {"data", "send", "wait"} /\ wpc[u] # "send"
        /\ \A u \in W5Threads : wpc'[u] \in {"data", "ptr"} => u = t
        /\ \A u \in W5Threads : wpc'[u] \in {"ptr", "send"} => u = t
        /\ \A u \in W5Threads : Ahead(u)' => u = t
    BY <1>1, <1>3 DEF Sends
  <2>2. \A i \in 1..Due' : TxUnit(i)' = w5due'[i]
    BY <1>1, <1>6, <1>11 DEF W5Sending
  <2>3. Written(t)'
    BY <1>1, <1>6, <1>10 DEF Written, len, id
  <2>4. /\ {txrd', txwr'} \subseteq 0..W5Wrap - 1 /\ w5due' \in Seq(Nat) /\ ~sending' /\ Due' <= W5Buf
        /\ {sending', lost'} \subseteq BOOLEAN /\ (~sending' /\ ~lost' => w5due' = <<>>)
    BY <1>1, <1>3, <1>6 DEF W5Sending
  <2>5. /\ Due' + wjob'[t].len <= W5Buf /\ wjob'[t].len \in Lens /\ wjob'[t].rd = txwr'
        /\ txwr' = Pos(txrd' + Due')
    BY <1>1, <1>3, <1>5, <1>6
  <2> QED
    BY <2>1, <2>2, <2>3, <2>4, <2>5 DEF W5Sending
<1> QED
  BY <1>4, <1>12

LEMMA PtrSends ==
  ASSUME W5Types, W5Sending, NEW t \in W5Threads, W5TxPtr(t)
  PROVE  W5Types' /\ W5Sending'
<1>1. /\ wpc[t] = "ptr" /\ wpc' = [wpc EXCEPT ![t] = "send"]
      /\ txwr' = Pos(wjob[t].rd + wjob[t].len)
      /\ UNCHANGED <<wjob, txmem, txrd, sending, w5due, lost, w5Id, rxq, rxwr, rxrd, rxfree>>
  BY DEF W5TxPtr, Goto, w5rx, NextWr
<1>2. wpc[t] \in Sends
  BY <1>1 DEF Sends
<1>3. /\ wpc' \in [W5Threads -> W5Places] /\ wpc'[t] = "send"
      /\ \A u \in W5Threads \ {t} : wpc[u] \notin Sends /\ wpc'[u] = wpc[u] /\ ~Ahead(u)'
      /\ wjob[t].len \in Lens /\ wjob[t].len \in Nat \ {0} /\ wjob[t] \in Jobs
      /\ ~sending /\ Due + wjob[t].len <= W5Buf
  BY <1>1, <1>2, SenderAlone
<1>4. W5Types'
  BY <1>1, <1>3 DEF W5Types
<1>5. wjob[t].rd = txwr /\ txwr = Pos(txrd + Due) /\ Written(t)
  <2>1. \A u \in W5Threads : wpc[u] # "send"
    BY <1>1, <1>3 DEF Sends
  <2> QED
    BY <1>1, <2>1 DEF W5Sending
<1>6. /\ Due' = Due /\ \A n : TxUnit(n)' = TxUnit(n)
  BY <1>1 DEF Due, TxUnit
<1>7. txwr' = Pos(txrd + (Due + wjob[t].len)) /\ txwr' \in 0..W5Wrap - 1
  <2>1. /\ W5Wrap \in Nat \ {0} /\ txrd + Due \in Int /\ wjob[t].len \in Int
        /\ (txrd + Due) + wjob[t].len = txrd + (Due + wjob[t].len)
    BY <1>3, DueFacts
  <2>2. (((txrd + Due) % W5Wrap) + wjob[t].len) % W5Wrap = ((txrd + Due) + wjob[t].len) % W5Wrap
    BY <2>1, ModAdd
  <2>3. txwr' = Pos(txrd + (Due + wjob[t].len))
    BY <1>1, <1>5, <2>1, <2>2 DEF Pos
  <2>4. txrd + (Due + wjob[t].len) \in Int
    BY <2>1
  <2> QED
    BY <2>1, <2>3, <2>4, ModRange DEF Pos
<1>8. W5Sending'
  <2>1. /\ \A u \in W5Threads : wpc'[u] \in Sends => u = t
        /\ \A u \in W5Threads : wpc'[u] \notin {"data", "ptr", "wait"} /\ wpc'[t] = "send"
        /\ \A u \in W5Threads : wpc'[u] \in {"ptr", "send"} => u = t
        /\ \A u \in W5Threads : Ahead(u)' => u = t
    BY <1>1, <1>3 DEF Sends
  <2>2. \A i \in 1..Due' : TxUnit(i)' = w5due'[i]
    BY <1>1, <1>6 DEF W5Sending
  <2>3. Written(t)'
    BY <1>1, <1>5, <1>6 DEF Written
  <2>4. /\ {txrd', txwr'} \subseteq 0..W5Wrap - 1 /\ w5due' \in Seq(Nat) /\ ~sending' /\ Due' <= W5Buf
        /\ {sending', lost'} \subseteq BOOLEAN /\ (~sending' /\ ~lost' => w5due' = <<>>)
    BY <1>1, <1>3, <1>6, <1>7 DEF W5Sending
  <2>5. /\ Due' + wjob'[t].len <= W5Buf /\ wjob'[t].len \in Lens
        /\ txwr' = Pos(txrd' + (Due' + wjob'[t].len))
    BY <1>1, <1>3, <1>6, <1>7
  <2> QED
    BY <2>1, <2>2, <2>3, <2>4, <2>5 DEF W5Sending
<1> QED
  BY <1>4, <1>8

\* SEND hands the frame over: what lies between the positions is what was handed over.
LEMMA CommandSends ==
  ASSUME W5Types, W5Sending, NEW t \in W5Threads, W5TxSend(t)
  PROVE  W5Types' /\ W5Sending'
<1>1. /\ wpc[t] = "send" /\ wpc' = [wpc EXCEPT ![t] = "wait"] /\ sending' = TRUE
      /\ w5due' = w5due \o Units(wjob[t])
      /\ UNCHANGED <<wjob, txmem, txrd, txwr, lost, w5Id, rxq, rxwr, rxrd, rxfree>>
  BY DEF W5TxSend, Goto, w5rx
<1>2. wpc[t] \in Sends
  BY <1>1 DEF Sends
<1>3. /\ wpc' \in [W5Threads -> W5Places] /\ wpc'[t] = "wait"
      /\ \A u \in W5Threads \ {t} : wpc[u] \notin Sends /\ wpc'[u] = wpc[u] /\ ~Ahead(u)'
      /\ wjob[t].len \in Lens /\ wjob[t].len \in Nat \ {0} /\ wjob[t] \in Jobs
      /\ ~sending /\ Due + wjob[t].len <= W5Buf
  BY <1>1, <1>2, SenderAlone
<1>4. W5Types'
  BY <1>1, <1>3 DEF W5Types
<1>5. txwr = Pos(txrd + (Due + wjob[t].len)) /\ Written(t)
  BY <1>1 DEF W5Sending
<1> DEFINE len == wjob[t].len
<1>6. /\ Units(wjob[t]) \in Seq(Nat) /\ Len(Units(wjob[t])) = len
      /\ \A i \in 1..len : Units(wjob[t])[i] = wjob[t].id
  BY <1>3 DEF Units, Jobs
<1>7. /\ w5due \in Seq(Nat) /\ Due = Len(w5due) /\ Due \in Nat /\ len \in Nat
  BY <1>3, DueFacts DEF W5Sending, Due
<1> HIDE DEF len
<1>8. /\ w5due' \in Seq(Nat) /\ Due' = Due + len
      /\ \A i \in 1..Due : w5due'[i] = w5due[i]
      /\ \A i \in 1..len : w5due'[Due + i] = wjob[t].id
  <2>1. /\ w5due \o Units(wjob[t]) \in Seq(Nat)
        /\ Len(w5due \o Units(wjob[t])) = Len(w5due) + Len(Units(wjob[t]))
        /\ \A i \in 1..Len(w5due) + Len(Units(wjob[t])) :
             (w5due \o Units(wjob[t]))[i] = IF i <= Len(w5due) THEN w5due[i]
                                           ELSE Units(wjob[t])[i - Len(w5due)]
    BY <1>6, <1>7, ConcatProperties
  <2>2. /\ w5due' \in Seq(Nat) /\ Due' = Due + len
        /\ \A i \in 1..Due + len : w5due'[i] = IF i <= Due THEN w5due[i] ELSE Units(wjob[t])[i - Due]
    BY <1>1, <1>6, <2>1 DEF Due
  <2>3. ASSUME NEW i \in 1..Due PROVE w5due'[i] = w5due[i]
    <3>1. i \in 1..Due + len /\ i <= Due
      BY <1>7
    <3> QED
      BY <2>2, <3>1
  <2>4. ASSUME NEW i \in 1..len PROVE w5due'[Due + i] = wjob[t].id
    <3>1. Due + i \in 1..Due + len /\ ~(Due + i <= Due) /\ (Due + i) - Due = i
      BY <1>7
    <3>2. w5due'[Due + i] = Units(wjob[t])[i]
      BY <2>2, <3>1
    <3> QED
      BY <1>6, <3>2
  <2> QED
    BY <2>2, <2>3, <2>4
<1>9. \A i \in 1..Due' : TxUnit(i)' = w5due'[i]
  <2>1. \A n : TxUnit(n)' = TxUnit(n)
    BY <1>1 DEF TxUnit
  <2>2. \A i \in 1..Due : TxUnit(i) = w5due'[i]
    BY <1>8 DEF W5Sending
  <2>3. \A i \in 1..len : TxUnit(Due + i) = w5due'[Due + i]
    BY <1>5, <1>8 DEF Written, len
  <2>4. \A i \in 1..Due + len : i \in 1..Due \/ (i - Due \in 1..len /\ i = Due + (i - Due))
    BY <1>7
  <2> QED
    BY <1>8, <2>1, <2>2, <2>3, <2>4
<1>10. W5Sending'
  <2>1. /\ \A u \in W5Threads : wpc'[u] \in Sends => u = t
        /\ \A u \in W5Threads : wpc'[u] \notin {"data", "ptr", "send"}
        /\ \A u \in W5Threads : ~Ahead(u)'
    BY <1>1, <1>3 DEF Sends, Ahead
  <2>2. lost' \/ w5due' = Units(wjob'[t])
    <3>1. CASE lost
      BY <1>1, <3>1
    <3>2. CASE ~lost
      <4>1. w5due = <<>>
        BY <1>3, <3>2 DEF W5Sending
      <4> QED
        BY <1>1, <1>6, <4>1
    <3> QED
      BY <3>1, <3>2
  <2>3. /\ {txrd', txwr'} \subseteq 0..W5Wrap - 1 /\ sending'
        /\ {sending', lost'} \subseteq BOOLEAN
    BY <1>1 DEF W5Sending
  <2>4. Due' <= W5Buf /\ wjob'[t].len \in Lens /\ txwr' = Pos(txrd' + Due')
    BY <1>1, <1>3, <1>5, <1>8 DEF len
  <2> QED
    BY <1>3, <1>8, <1>9, <2>1, <2>2, <2>3, <2>4 DEF W5Sending
<1> QED
  BY <1>4, <1>10

\* Unless the thread gives up, the chip has taken the SEND, or it was lost.
LEMMA DoneWaiting ==
  ASSUME W5Types, W5Sending, NEW t \in W5Threads, W5TxDone(t)
  PROVE  W5Types' /\ (~clash' => W5Sending')
<1>1. /\ wpc[t] = "wait" /\ wpc' = [wpc EXCEPT ![t] = "idle"] /\ clash' = (clash \/ sending)
      /\ wjob' = [wjob EXCEPT ![t] = NoJob]
      /\ UNCHANGED <<txmem, txrd, txwr, sending, w5due, lost, w5Id, rxq, rxwr, rxrd, rxfree>>
  BY DEF W5TxDone, Goto, w5rx
<1>2. wpc[t] \in Sends
  BY <1>1 DEF Sends
<1>3. /\ wpc' \in [W5Threads -> W5Places] /\ wpc'[t] = "idle"
      /\ \A u \in W5Threads \ {t} : wpc[u] \notin Sends /\ wpc'[u] = wpc[u] /\ ~Ahead(u)'
  BY <1>1, <1>2, SenderAlone
<1>4. W5Types'
  BY <1>1, <1>3 DEF W5Types, NoJob, Jobs, NoW5Frame
<1> SUFFICES ASSUME ~sending PROVE W5Sending'
  BY <1>1, <1>4
<1>5. W5Sending'
  <2>1. \A u \in W5Threads : wpc'[u] \notin Sends /\ wpc[u] # "send"
    BY <1>1, <1>3 DEF Sends
  <2>2. \A u \in W5Threads : wpc'[u] \notin {"data", "ptr", "send", "wait"} /\ ~Ahead(u)'
    BY <2>1 DEF Sends, Ahead
  <2>3. Due' = Due /\ \A n : TxUnit(n)' = TxUnit(n)
    BY <1>1 DEF Due, TxUnit
  <2>4. txwr' = Pos(txrd' + Due') /\ \A i \in 1..Due' : TxUnit(i)' = w5due'[i]
    BY <1>1, <2>1, <2>3 DEF W5Sending
  <2>5. /\ {txrd', txwr'} \subseteq 0..W5Wrap - 1 /\ w5due' \in Seq(Nat) /\ ~sending' /\ Due' <= W5Buf
        /\ {sending', lost'} \subseteq BOOLEAN /\ (~sending' /\ ~lost' => w5due' = <<>>)
    BY <1>1, <2>3 DEF W5Sending
  <2> QED
    BY <2>1, <2>2, <2>4, <2>5 DEF W5Sending
<1> QED
  BY <1>5

LEMMA TakenSends ==
  ASSUME W5Types, W5Sending, W5ChipSend
  PROVE  W5Types' /\ W5Sending'
<1>1. /\ sending /\ sending' = FALSE /\ txrd' = txwr /\ w5due' = <<>> /\ lost' = FALSE
      /\ UNCHANGED <<wpc, wjob, txwr, w5Id, rxq, rxwr, rxrd, rxfree>>
  BY DEF W5ChipSend, w5rx
<1>2. W5Types'
  BY <1>1 DEF W5Types
<1>3. PICK t \in W5Threads : wpc[t] = "wait"
  BY <1>1 DEF W5Sending
<1>4. \A u \in W5Threads : wpc[u] \in Sends => wpc[u] = "wait"
  BY <1>3 DEF W5Sending, Sends
<1>5. \A u \in W5Threads : wpc[u] \notin {"data", "ptr", "send"} /\ ~Ahead(u)'
  BY <1>1, <1>4 DEF Sends, Ahead
<1>6. Due' = 0 /\ w5due' \in Seq(Nat) /\ \A i \in 1..Due' : FALSE
  BY <1>1 DEF Due
<1>7. txwr' = Pos(txrd' + Due') /\ Due' <= W5Buf
  <2>1. txwr \in 0..W5Wrap - 1 /\ W5Wrap \in Nat \ {0} /\ W5Buf \in Nat
    BY Registers DEF W5Sending
  <2> QED
    BY <1>1, <1>6, <2>1, ModRound DEF Pos
<1>8. W5Sending'
  <2>1. /\ {txrd', txwr'} \subseteq 0..W5Wrap - 1 /\ {sending', lost'} \subseteq BOOLEAN
        /\ \A u, v \in W5Threads : wpc'[u] \in Sends /\ wpc'[v] \in Sends => u = v
        /\ \A u \in W5Threads : wpc'[u] \in Sends => wjob'[u].len \in Lens
    BY <1>1 DEF W5Sending
  <2>2. \A u \in W5Threads : wpc'[u] \notin {"data", "ptr", "send"}
    BY <1>1, <1>5
  <2> QED
    BY <1>1, <1>5, <1>6, <1>7, <2>1, <2>2 DEF W5Sending
<1> QED
  BY <1>2, <1>8

\* A transmission leaves the poll alone.
LEMMA TxPolls ==
  ASSUME W5Receives, NEW t \in W5Threads, W5Thread(t), W5Types' PROVE W5Receives'
<1> USE DEF W5Receives
<1>1. /\ UNCHANGED w5rx /\ wpc[t] \in {"idle", "wr", "data", "ptr", "send", "wait"}
      /\ wpc' \in {[wpc EXCEPT ![t] = "wr"], [wpc EXCEPT ![t] = "data"], [wpc EXCEPT ![t] = "ptr"],
                   [wpc EXCEPT ![t] = "send"], [wpc EXCEPT ![t] = "wait"], [wpc EXCEPT ![t] = "idle"]}
      /\ wjob' = wjob \/ \E x : wjob' = [wjob EXCEPT ![t] = x]
  BY DEF W5Thread, W5TxRoom, W5TxGoesOn, W5TxWr, W5TxData, W5TxPtr, W5TxSend, W5TxDone, Goto
<1>2. \A u \in W5Threads \ {t} : wpc'[u] = wpc[u] /\ wjob'[u] = wjob[u]
  BY <1>1 DEF W5Types
<1>3. wpc'[t] \in {"idle", "wr", "data", "ptr", "send", "wait"}
  BY <1>1 DEF W5Types
<1>4. wpc["app"] \notin {"rxhead", "rxptr", "rxrecv"} /\ "app" \in W5Threads
  BY DEF Polling, W5Threads
<1> QED
  BY <1>1, <1>2, <1>3, <1>4, Registers, PollKept

LEMMA ThreadSends ==
  ASSUME W5Receives, W5Sending, NEW t \in W5Threads, W5Thread(t)
  PROVE  W5Receives' /\ (~clash' => W5Sending')
<1>1. W5Types' /\ (~clash' => W5Sending')
  <2>1. CASE \E len \in Lens : W5TxRoom(t, len)
    BY <2>1, RoomSends DEF W5Receives
  <2>2. CASE W5TxWr(t)
    BY <2>2, WrSends DEF W5Receives
  <2>3. CASE W5TxData(t)
    BY <2>3, DataSends DEF W5Receives
  <2>4. CASE W5TxPtr(t)
    BY <2>4, PtrSends DEF W5Receives
  <2>5. CASE W5TxSend(t)
    BY <2>5, CommandSends DEF W5Receives
  <2>6. CASE W5TxDone(t)
    BY <2>6, DoneWaiting DEF W5Receives
  <2> QED
    BY <2>1, <2>2, <2>3, <2>4, <2>5, <2>6 DEF W5Thread, W5TxGoesOn
<1> QED
  BY <1>1, TxPolls

LEMMA PollSends ==
  ASSUME W5Receives, W5Sending, W5Poll PROVE W5Receives' /\ W5Sending'
<1>1. W5Receives'
  BY SizeReceives, HeadReceives, PtrReceives, RecvReceives DEF W5Poll
<1>2. /\ UNCHANGED <<txmem, txrd, txwr, w5due>>
      /\ UNCHANGED <<sending, lost>> \/ (sending' = FALSE /\ lost' = (lost \/ sending))
      /\ wpc[Worker] \in {"idle", "rxhead", "rxptr", "rxrecv"}
      /\ wpc' \in {[wpc EXCEPT ![Worker] = "rxhead"], [wpc EXCEPT ![Worker] = "rxptr"],
                   [wpc EXCEPT ![Worker] = "rxrecv"], [wpc EXCEPT ![Worker] = "idle"]}
      /\ wjob' = wjob \/ \E x : wjob' = [wjob EXCEPT ![Worker] = x]
  BY DEF W5Poll, W5RxSize, W5RxHead, W5RxPtr, W5RxRecv, Goto, w5tx
<1>3. \A u \in W5Threads \ {Worker} : wpc'[u] = wpc[u] /\ wjob'[u] = wjob[u]
  BY <1>2 DEF W5Receives, W5Types
<1>4. wpc'[Worker] \notin Sends /\ wpc[Worker] \notin Sends
  BY <1>2, Registers DEF W5Receives, W5Types, Sends
<1> QED
  BY <1>1, <1>2, <1>3, <1>4, SendingKept

LEMMA W5RunsKept ==
  ASSUME W5Inv, W5Runs PROVE W5Inv'
<1>1. ~clash /\ W5Receives /\ W5Sending
  BY DEF W5Inv, W5Runs, Alone
<1>2. CASE \E t \in W5Threads : W5Thread(t)
  BY <1>1, <1>2, ThreadSends DEF W5Inv
<1>3. CASE W5Poll
  BY <1>1, <1>3, PollSends DEF W5Inv
<1>4. CASE W5ChipSend
  <2>1. W5Types' /\ W5Sending'
    BY <1>1, <1>4, TakenSends DEF W5Receives
  <2>2. UNCHANGED w5rx /\ UNCHANGED <<wpc, wjob>>
    BY <1>4 DEF W5ChipSend
  <2>3. W5Receives'
    BY <1>1, <2>1, <2>2, PollKept DEF W5Receives, Polling
  <2> QED
    BY <2>1, <2>3 DEF W5Inv
<1>5. ASSUME NEW len \in Lens, W5ChipReceive(len) PROVE W5Inv'
  <2>1. W5Receives'
    BY <1>1, <1>5, ArrivesReceives
  <2>2. UNCHANGED <<txmem, txrd, txwr, sending, w5due, lost, wpc, wjob>>
    BY <1>5 DEF W5ChipReceive, w5tx
  <2> QED
    BY <1>1, <2>1, <2>2, SendingKept DEF W5Inv
<1> QED
  BY <1>2, <1>3, <1>4, <1>5 DEF W5Runs, Alone, W5Chip

LEMMA W5InvNext == W5Inv /\ [Next]_vars => W5Inv'
<1> SUFFICES ASSUME W5Inv, [Next]_vars PROVE W5Inv'
  OBVIOUS
<1>1. W5Runs \/ UNCHANGED <<wpc, wjob, w5tx, w5rx>>
  BY DEF Next, ProbeW5500, ProbeBba, Standalone, RunBba, RunW5500, W5Start, W5Probe, W5Version, W5Bringup,
         vars, w5Vars
<1>2. CASE UNCHANGED <<wpc, wjob, w5tx, w5rx>>
  <2>1. UNCHANGED <<w5rx, wpc, wjob, txmem, txrd, txwr, sending, w5due, lost, clash, w5Id>>
    BY <1>2 DEF w5tx
  <2>2. W5Receives'
    <3>1. W5Types'
      BY <2>1 DEF W5Inv, W5Receives, W5Types, w5rx
    <3> QED
      BY <2>1, <3>1, PollKept DEF W5Inv, W5Receives, Polling
  <2>3. ~clash' => W5Sending'
    BY <2>1, SendingKept DEF W5Inv
  <2> QED
    BY <2>2, <2>3 DEF W5Inv
<1> QED
  BY <1>1, <1>2, W5RunsKept

LEMMA W5Goals == W5Inv => W5InStep /\ W5SendsWhole
<1> SUFFICES ASSUME W5Inv PROVE W5InStep /\ W5SendsWhole
  OBVIOUS
<1>1. W5InStep
  BY BufferFacts DEF W5Inv, W5Receives, Polling, W5InStep
<1>2. W5SendsWhole
  <2> SUFFICES ASSUME sending, ~clash
               PROVE  /\ Outgoing = w5due
                      /\ lost \/ \E t \in W5Threads : wpc[t] = "wait" /\ Outgoing = Units(wjob[t])
    BY DEF W5SendsWhole
  <2>1. W5Sending
    BY DEF W5Inv
  <2>2. PICK t \in W5Threads : wpc[t] = "wait" /\ (lost \/ w5due = Units(wjob[t]))
    BY <2>1 DEF W5Sending
  <2>3. \A u \in W5Threads : wpc[u] # "send"
    BY <2>1, <2>2 DEF W5Sending, Sends
  <2>4. txwr = Pos(txrd + Due)
    BY <2>1, <2>3 DEF W5Sending
  <2>5. (txwr - txrd) % W5Wrap = Due
    BY <2>1, <2>4, DueFacts, BehindPos
  <2>6. Outgoing = [i \in 1..Due |-> w5due[i]]
    BY <2>1, <2>5 DEF Outgoing, W5Sending, TxUnit
  <2>7. w5due = [i \in 1..Due |-> w5due[i]]
    BY <2>1, DueFacts DEF W5Sending
  <2> QED
    BY <2>2, <2>6, <2>7
<1> QED
  BY <1>1, <1>2
-----------------------------------------------------------------------------
(* The theorems.                                                           *)

LEMMA LinkInv == Spec => [](BbaInv /\ W5Inv /\ SpiInv)
<1>1. Init => BbaInv /\ W5Inv /\ SpiInv
  BY BbaInvInit, W5InvInit, SpiInvInit DEF Init
<1>2. BbaInv /\ W5Inv /\ SpiInv /\ [Next]_vars => (BbaInv /\ W5Inv /\ SpiInv)'
  BY BbaInvNext, W5InvNext, SpiInvNext
<1> QED
  BY <1>1, <1>2, PTL DEF Spec

\* Whatever the sizes, a frame leaves either adapter whole and in the order of the calls
\* (BbaTx, W5500Tx).
THEOREM FramesSentWhole == Spec => []SendsWhole
<1>1. BbaInv /\ W5Inv /\ SpiInv => SendsWhole
  BY BbaGoals, W5Goals DEF SendsWhole
<1> QED
  BY <1>1, LinkInv, PTL

\* Whatever the sizes, driver and chip agree where the next received frame starts
\* (BbaRxPoll, W5500RxPoll).
THEOREM PollersInStep == Spec => []InStep
<1>1. BbaInv /\ W5Inv /\ SpiInv => InStep
  BY BbaGoals, W5Goals DEF InStep
<1> QED
  BY <1>1, LinkInv, PTL

\* The console has its serial port back unless the chip is on it (W5500Probe).
THEOREM ConsoleGetsPortBack == Spec => []ConsoleBack
<1>1. BbaInv /\ W5Inv /\ SpiInv => ConsoleBack
  BY DEF SpiInv, ConsoleBack, Console
<1> QED
  BY <1>1, LinkInv, PTL

\* The critical section of the backend keeps the transmitting thread and the worker apart
\* (BbaTx and BbaRxPoll of bba_hw.c), so what is promised of it has no exception.
THEOREM BackendCallsApart == Spec => [](Locked => ~overlap)
<1>1. BbaInv /\ W5Inv /\ SpiInv => (Locked => ~overlap)
  BY DEF BbaInv, Apart
<1> QED
  BY <1>1, LinkInv, PTL
=============================================================================

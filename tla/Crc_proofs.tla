----------------------------- MODULE Crc_proofs -----------------------------
(***************************************************************************)
(* Theorems about Crc for every set of messages, of any length, and        *)
(* everything the line can do to them.                                     *)
(***************************************************************************)
EXTENDS Crc, SequenceTheorems, TLAPS

----------------------------------------------------------------------------
(* The algebra of one turn, and of eight.                                  *)

LEMMA XorTypes ==
  ASSUME NEW S, NEW v \in SUBSET S, NEW w \in SUBSET S
  PROVE  v (+) w \in SUBSET S
BY DEF (+)

LEMMA PolyBits == CRC_POLY_32 \in Words /\ 31 \in CRC_POLY_32
BY DEF CRC_POLY_32, Words, Bits

\* A bit after a turn: its left neighbour, changed where the polynomial says so
\* if a 1 went out at the right.
LEMMA ShiftBit ==
  ASSUME NEW w \in Words
  PROVE  /\ Shift(w) \in Words
         /\ \A b \in Bits :
              b \in Shift(w) <=> ~ (b + 1 \in w <=> 0 \in w /\ b \in CRC_POLY_32)
<1>1. ShiftRight(w, 1) \in Words /\ \A b \in Bits : b \in ShiftRight(w, 1) <=> b + 1 \in w
  BY DEF ShiftRight, Words
<1>2. CASE 0 \in w
  <2>1. Shift(w) = ShiftRight(w, 1) (+) CRC_POLY_32
    BY <1>2 DEF Shift
  <2> QED
    BY <1>1, <1>2, <2>1, PolyBits DEF (+), Words
<1>3. CASE 0 \notin w
  BY <1>1, <1>3 DEF Shift
<1> QED
  BY <1>2, <1>3

\* A turn goes through exclusive or.
LEMMA ShiftXor ==
  ASSUME NEW v \in Words, NEW w \in Words
  PROVE  Shift(v (+) w) = Shift(v) (+) Shift(w)
<1>1. v (+) w \in Words
  BY XorTypes DEF Words
<1>2. \A b : b \in v (+) w <=> ~ (b \in v <=> b \in w)
  BY DEF (+)
<1>3. \A b \in Bits : b \in Shift(v (+) w) <=> ~ (b \in Shift(v) <=> b \in Shift(w))
  BY <1>1, <1>2, ShiftBit
<1>4. Shift(v) \in Words /\ Shift(w) \in Words /\ Shift(v (+) w) \in Words
  BY <1>1, ShiftBit
<1> QED
  BY <1>3, <1>4 DEF (+), Words

LEMMA Shift8Types ==
  ASSUME NEW w \in Words
  PROVE  Shift8(w) \in Words
<1>1. \A u \in Words : Shift(u) \in Words
  BY ShiftBit
<1> QED
  BY <1>1 DEF Shift8

LEMMA Shift8Xor ==
  ASSUME NEW v \in Words, NEW w \in Words
  PROVE  Shift8(v (+) w) = Shift8(v) (+) Shift8(w)
<1>1. \A x, y \in Words : Shift(x (+) y) = Shift(x) (+) Shift(y)
  BY ShiftXor
<1>2. \A x \in Words : Shift(x) \in Words
  BY ShiftBit
<1> DEFINE v1 == Shift(v)   w1 == Shift(w)
           v2 == Shift(v1)  w2 == Shift(w1)
           v3 == Shift(v2)  w3 == Shift(w2)
           v4 == Shift(v3)  w4 == Shift(w3)
           v5 == Shift(v4)  w5 == Shift(w4)
           v6 == Shift(v5)  w6 == Shift(w5)
           v7 == Shift(v6)  w7 == Shift(w6)
<1>3. /\ v1 \in Words /\ v2 \in Words /\ v3 \in Words /\ v4 \in Words
      /\ v5 \in Words /\ v6 \in Words /\ v7 \in Words
      /\ w1 \in Words /\ w2 \in Words /\ w3 \in Words /\ w4 \in Words
      /\ w5 \in Words /\ w6 \in Words /\ w7 \in Words
  BY <1>2
<1>4. Shift(v (+) w) = v1 (+) w1
  BY <1>1
<1> HIDE DEF v1, w1
<1>5. Shift(v1 (+) w1) = v2 (+) w2
  BY <1>1, <1>3
<1> HIDE DEF v2, w2
<1>6. Shift(v2 (+) w2) = v3 (+) w3
  BY <1>1, <1>3
<1> HIDE DEF v3, w3
<1>7. Shift(v3 (+) w3) = v4 (+) w4
  BY <1>1, <1>3
<1> HIDE DEF v4, w4
<1>8. Shift(v4 (+) w4) = v5 (+) w5
  BY <1>1, <1>3
<1> HIDE DEF v5, w5
<1>9. Shift(v5 (+) w5) = v6 (+) w6
  BY <1>1, <1>3
<1> HIDE DEF v6, w6
<1>10. Shift(v6 (+) w6) = v7 (+) w7
  BY <1>1, <1>3
<1>11. Shift(v7 (+) w7) = Shift(v7) (+) Shift(w7)
  BY <1>1, <1>3
<1> HIDE DEF v7, w7
<1>12. Shift8(v (+) w) = Shift(v7) (+) Shift(w7)
  BY <1>4, <1>5, <1>6, <1>7, <1>8, <1>9, <1>10, <1>11 DEF Shift8
<1> QED
  BY <1>12 DEF Shift8, v1, v2, v3, v4, v5, v6, v7, w1, w2, w3, w4, w5, w6, w7

\* A word whose low byte is empty only moves to the right.
LEMMA HighBits ==
  ASSUME NEW w \in Words, w \cap LowBits = {}
  PROVE  Shift8(w) = ShiftRight(w, 8)
<1>1. ASSUME NEW k \in 0 .. 7
      PROVE  Shift(ShiftRight(w, k)) = ShiftRight(w, k + 1)
  <2>1. 0 \notin ShiftRight(w, k)
    BY DEF ShiftRight, LowBits
  <2>2. ShiftRight(ShiftRight(w, k), 1) = ShiftRight(w, k + 1)
    BY DEF ShiftRight, Words, Bits
  <2> QED
    BY <2>1, <2>2 DEF Shift
<1>2. w = ShiftRight(w, 0)
  <2>1. \A b \in Bits : b + 0 = b
    BY DEF Bits
  <2> QED
    BY <2>1 DEF ShiftRight, Words
<1>3. /\ Shift(ShiftRight(w, 0)) = ShiftRight(w, 1)
      /\ Shift(ShiftRight(w, 1)) = ShiftRight(w, 2)
      /\ Shift(ShiftRight(w, 2)) = ShiftRight(w, 3)
      /\ Shift(ShiftRight(w, 3)) = ShiftRight(w, 4)
      /\ Shift(ShiftRight(w, 4)) = ShiftRight(w, 5)
      /\ Shift(ShiftRight(w, 5)) = ShiftRight(w, 6)
      /\ Shift(ShiftRight(w, 6)) = ShiftRight(w, 7)
      /\ Shift(ShiftRight(w, 7)) = ShiftRight(w, 8)
  <2>1. 0 + 1 = 1 /\ 1 + 1 = 2 /\ 2 + 1 = 3 /\ 3 + 1 = 4 /\ 4 + 1 = 5 /\ 5 + 1 = 6 /\ 6 + 1 = 7
        /\ 7 + 1 = 8
    OBVIOUS
  <2>2. \A k \in 0 .. 7 : Shift(ShiftRight(w, k)) = ShiftRight(w, k + 1)
    BY <1>1
  <2>3. 0 \in 0 .. 7 /\ 1 \in 0 .. 7 /\ 2 \in 0 .. 7 /\ 3 \in 0 .. 7 /\ 4 \in 0 .. 7
        /\ 5 \in 0 .. 7 /\ 6 \in 0 .. 7 /\ 7 \in 0 .. 7
    OBVIOUS
  <2> QED
    BY <2>1, <2>2, <2>3
<1> QED
  BY <1>2, <1>3 DEF Shift8

\* A look into the table stands for eight turns of the register.
LEMMA TableStep ==
  ASSUME NEW w \in Words, NEW c \in Bytes
  PROVE  update_crc_32(Table, w, c) = Shift8(w (+) c)
<1> DEFINE x == w (+) c
           low == x \cap LowBits
           high == x \ LowBits
<1>0. LowBits \subseteq Bits
  BY DEF LowBits, Bits
<1>1. x \in Words /\ low \in Words /\ low \in Bytes /\ high \in Words
  BY <1>0 DEF (+), Words, Bytes
<1>2. x = high (+) low
  BY DEF (+)
<1>3. ShiftRight(high, 8) = ShiftRight(w, 8)
  <2>1. \A b \in Bits : b + 8 \notin LowBits
    BY DEF LowBits, Bits
  <2> QED
    BY <2>1 DEF ShiftRight, (+), Bytes
<1>4. Shift8(high) = ShiftRight(w, 8)
  BY <1>1, <1>3, HighBits
<1>5. Table[low] = Shift8(low)
  BY <1>1 DEF Table
<1>6. Shift8(x) = Shift8(high) (+) Shift8(low)
  <2> HIDE DEF high, low, x
  <2> QED
    BY <1>1, <1>2, Shift8Xor
<1> QED
  BY <1>4, <1>5, <1>6 DEF update_crc_32

\* The bits of a byte may be put in all at once or one with each turn.
LEMMA BitTaken ==
  ASSUME NEW w \in Words, NEW c \in Bytes, NEW k \in 0 .. 7
  PROVE  /\ TakeBit(w, c, k) \in Words
         /\ Shift(w (+) ShiftRight(c, k)) = TakeBit(w, c, k) (+) ShiftRight(c, k + 1)
<1> DEFINE u == IF k \in c THEN w (+) {0} ELSE w
           v == w (+) ShiftRight(c, k)
<1>0. /\ \A b \in Bits : b \in Int /\ b >= 0 /\ b <= 31
      /\ \A b \in c : b \in Int /\ b >= 0 /\ b <= 7
      /\ 0 \in Bits /\ k \in Int /\ 0 + k = k
  BY DEF Bits, Bytes, LowBits
<1>1. u \in Words /\ v \in Words /\ ShiftRight(c, k + 1) \in Words
  BY <1>0 DEF (+), Words, ShiftRight
<1>2. /\ 0 \in u <=> ~ (0 \in w <=> k \in c)
      /\ \A b \in Bits : b + 1 \in u <=> b + 1 \in w
  BY <1>0 DEF (+)
<1>3. /\ 0 \in v <=> ~ (0 \in w <=> k \in c)
      /\ \A b \in Bits : b + 1 \in v <=> ~ (b + 1 \in w <=> b + (k + 1) \in c)
  <2>1. 0 \in ShiftRight(c, k) <=> k \in c
    BY <1>0 DEF ShiftRight
  <2>2. ASSUME NEW b \in Bits PROVE b + 1 \in ShiftRight(c, k) <=> b + (k + 1) \in c
    <3>1. b + 1 + k = b + (k + 1)
      BY <1>0
    <3>2. b + (k + 1) \in c => b + 1 \in Bits
      BY <1>0 DEF Bits
    <3> QED
      BY <3>1, <3>2 DEF ShiftRight
  <2> QED
    BY <2>1, <2>2 DEF (+)
<1>4. \A b \in Bits : b \in ShiftRight(c, k + 1) <=> b + (k + 1) \in c
  BY DEF ShiftRight
<1>5. TakeBit(w, c, k) = Shift(u)
  BY DEF TakeBit
<1> HIDE DEF u, v
<1>6. \A b \in Bits : b \in Shift(v) <=> ~ (b \in Shift(u) <=> b \in ShiftRight(c, k + 1))
  BY <1>1, <1>2, <1>3, <1>4, ShiftBit
<1>7. Shift(u) \in Words /\ Shift(v) \in Words
  BY <1>1, ShiftBit
<1>8. Shift(v) = Shift(u) (+) ShiftRight(c, k + 1)
  BY <1>1, <1>6, <1>7 DEF (+), Words
<1> QED
  BY <1>5, <1>7, <1>8 DEF v

LEMMA ByteTaken ==
  ASSUME NEW w \in Words, NEW c \in Bytes
  PROVE  Shift8(w (+) c) = TakeByte(w, c)
<1> DEFINE r1 == TakeBit(w, c, 0)   r2 == TakeBit(r1, c, 1)
           r3 == TakeBit(r2, c, 2)  r4 == TakeBit(r3, c, 3)
           r5 == TakeBit(r4, c, 4)  r6 == TakeBit(r5, c, 5)
           r7 == TakeBit(r6, c, 6)  r8 == TakeBit(r7, c, 7)
<1>0. /\ 0 \in 0 .. 7 /\ 1 \in 0 .. 7 /\ 2 \in 0 .. 7 /\ 3 \in 0 .. 7 /\ 4 \in 0 .. 7
      /\ 5 \in 0 .. 7 /\ 6 \in 0 .. 7 /\ 7 \in 0 .. 7
      /\ 0 + 1 = 1 /\ 1 + 1 = 2 /\ 2 + 1 = 3 /\ 3 + 1 = 4 /\ 4 + 1 = 5 /\ 5 + 1 = 6
      /\ 6 + 1 = 7 /\ 7 + 1 = 8
  OBVIOUS
<1>1. c = ShiftRight(c, 0) /\ ShiftRight(c, 8) = {}
  <2>1. \A b \in LowBits : b \in Bits /\ b + 0 = b
    BY DEF LowBits, Bits
  <2>2. \A b \in Bits : b + 8 \notin LowBits /\ b + 0 = b
    BY DEF LowBits, Bits
  <2> QED
    BY <2>1, <2>2 DEF ShiftRight, Bytes
<1>turn. ASSUME NEW x \in Words, NEW k \in 0 .. 7
         PROVE  /\ TakeBit(x, c, k) \in Words
                /\ Shift(x (+) ShiftRight(c, k)) = TakeBit(x, c, k) (+) ShiftRight(c, k + 1)
  BY BitTaken
<1>2. r1 \in Words /\ Shift(w (+) c) = r1 (+) ShiftRight(c, 1)
  BY <1>0, <1>1, <1>turn
<1> HIDE DEF r1
<1>3. r2 \in Words /\ Shift(r1 (+) ShiftRight(c, 1)) = r2 (+) ShiftRight(c, 2)
  BY <1>0, <1>2, <1>turn
<1> HIDE DEF r2
<1>4. r3 \in Words /\ Shift(r2 (+) ShiftRight(c, 2)) = r3 (+) ShiftRight(c, 3)
  BY <1>0, <1>3, <1>turn
<1> HIDE DEF r3
<1>5. r4 \in Words /\ Shift(r3 (+) ShiftRight(c, 3)) = r4 (+) ShiftRight(c, 4)
  BY <1>0, <1>4, <1>turn
<1> HIDE DEF r4
<1>6. r5 \in Words /\ Shift(r4 (+) ShiftRight(c, 4)) = r5 (+) ShiftRight(c, 5)
  BY <1>0, <1>5, <1>turn
<1> HIDE DEF r5
<1>7. r6 \in Words /\ Shift(r5 (+) ShiftRight(c, 5)) = r6 (+) ShiftRight(c, 6)
  BY <1>0, <1>6, <1>turn
<1> HIDE DEF r6
<1>8. r7 \in Words /\ Shift(r6 (+) ShiftRight(c, 6)) = r7 (+) ShiftRight(c, 7)
  BY <1>0, <1>7, <1>turn
<1> HIDE DEF r7
<1>9. r8 \in Words /\ Shift(r7 (+) ShiftRight(c, 7)) = r8 (+) ShiftRight(c, 8)
  BY <1>0, <1>8, <1>turn
<1> HIDE DEF r8
<1>10. Shift8(w (+) c) = r8
  <2>1. r8 (+) {} = r8
    BY DEF (+)
  <2> QED
    BY <1>1, <1>2, <1>3, <1>4, <1>5, <1>6, <1>7, <1>8, <1>9, <2>1 DEF Shift8
<1> QED
  BY <1>10 DEF TakeByte, r1, r2, r3, r4, r5, r6, r7, r8

----------------------------------------------------------------------------
(* How far to the left a difference reaches.                               *)

\* p is the place of the first flipped bit, counted from the right end of the
\* register.  Before it is shifted out it is the lowest bit of the difference;
\* after that the difference reaches beyond the last flipped bit.
Shows(d, p) ==
  IF p >= 0 THEN p \in d /\ \A b \in d : b >= p
            ELSE \E b \in d : b >= 32 + p

LEMMA ShiftShows ==
  ASSUME NEW d \in Words, NEW p \in Int, Shows(d, p)
  PROVE  Shows(Shift(d), p - 1)
<1>1. /\ Shift(d) \in Words
      /\ \A b \in Bits : b \in Shift(d) <=> ~ (b + 1 \in d <=> 0 \in d /\ b \in CRC_POLY_32)
  BY ShiftBit
<1>2. \A b \in d : b \in Bits
  BY DEF Words
<1>3. 0 \in d => 31 \in Shift(d)
  BY <1>1, <1>2, PolyBits DEF Bits
<1>4. CASE p >= 1
  <2>1. p \in d /\ \A b \in d : b >= p
    BY <1>4 DEF Shows
  <2>2. 0 \notin d
    BY <1>4, <2>1
  <2>3. p - 1 \in Bits /\ p - 1 + 1 = p
    BY <1>2, <1>4, <2>1 DEF Bits
  <2>4. p - 1 \in Shift(d)
    BY <1>1, <2>1, <2>2, <2>3
  <2>5. \A b \in Shift(d) : b >= p - 1
    BY <1>1, <2>1, <2>2 DEF Words, Bits
  <2> QED
    BY <1>4, <2>4, <2>5 DEF Shows
<1>5. CASE p = 0
  BY <1>3, <1>5 DEF Shows
<1>6. CASE p < 0
  <2>1. PICK b \in d : b >= 32 + p
    BY <1>6 DEF Shows
  <2>2. CASE 0 \in d
    BY <1>3, <1>6, <2>2 DEF Shows
  <2>3. CASE 0 \notin d
    <3>1. b \in Int /\ b - 1 \in Bits /\ b - 1 + 1 = b
      BY <1>2, <2>3 DEF Bits
    <3>2. b - 1 \in Shift(d)
      BY <1>1, <2>3, <3>1
    <3>3. b - 1 >= 32 + (p - 1)
      BY <2>1, <3>1
    <3> QED
      BY <1>6, <3>2, <3>3 DEF Shows
  <2> QED
    BY <2>2, <2>3
<1> QED
  BY <1>4, <1>5, <1>6

LEMMA Shift8Shows ==
  ASSUME NEW d \in Words, NEW p \in Int, Shows(d, p)
  PROVE  Shows(Shift8(d), p - 8)
<1>1. \A x \in Words, q \in Int : Shows(x, q) => Shift(x) \in Words /\ Shows(Shift(x), q - 1)
  BY ShiftBit, ShiftShows
<1> DEFINE d1 == Shift(d)   d2 == Shift(d1)  d3 == Shift(d2)  d4 == Shift(d3)
           d5 == Shift(d4)  d6 == Shift(d5)  d7 == Shift(d6)  d8 == Shift(d7)
<1>2. d1 \in Words /\ Shows(d1, p - 1)
  BY <1>1
<1>3. d2 \in Words /\ Shows(d2, p - 1 - 1)
  BY <1>1, <1>2
<1>4. d3 \in Words /\ Shows(d3, p - 1 - 1 - 1)
  BY <1>1, <1>3
<1>5. d4 \in Words /\ Shows(d4, p - 1 - 1 - 1 - 1)
  BY <1>1, <1>4
<1>6. d5 \in Words /\ Shows(d5, p - 1 - 1 - 1 - 1 - 1)
  BY <1>1, <1>5
<1>7. d6 \in Words /\ Shows(d6, p - 1 - 1 - 1 - 1 - 1 - 1)
  BY <1>1, <1>6
<1>8. d7 \in Words /\ Shows(d7, p - 1 - 1 - 1 - 1 - 1 - 1 - 1)
  BY <1>1, <1>7
<1>9. Shows(d8, p - 1 - 1 - 1 - 1 - 1 - 1 - 1 - 1)
  BY <1>1, <1>8
<1>10. p - 1 - 1 - 1 - 1 - 1 - 1 - 1 - 1 = p - 8
  OBVIOUS
<1>11. Shift8(d) = d8
  BY DEF Shift8
<1> HIDE DEF d8
<1> QED
  BY <1>9, <1>10, <1>11

----------------------------------------------------------------------------
(* The registers of the two ends.                                          *)

\* The flips in byte i of the line, and in the remainder behind n bytes.
ByteFlips(i, f) == {b \in LowBits : 8 * (i - 1) + b \in f}
WordFlips(n, f) == {b \in Bits : 8 * n + b \in f}

\* What is known of the receiver's register after k bytes, d being its
\* difference from the one the packet was built with: none before the first flipped bit, and one
\* that shows after it, as long as the flipped bits are a burst.
Differs(d, k, f) ==
  /\ (\A s \in f : s >= 8 * k) => d = {}
  /\ \A s \in f : f \subseteq s .. s + 31 /\ s < 8 * k => Shows(d, s - 8 * k)

LEMMA NoShift == Shift8({}) = {}
<1>1. {} \in Words /\ {} \cap LowBits = {} /\ ShiftRight({}, 8) = {}
  BY DEF Words, ShiftRight
<1> QED
  BY <1>1, HighBits

LEMMA DiffersNext ==
  ASSUME NEW d \in Words, NEW k \in Nat, NEW f \in SUBSET Nat, Differs(d, k, f)
  PROVE  Differs(Shift8(d (+) ByteFlips(k + 1, f)), k + 1, f)
<1> DEFINE e == ByteFlips(k + 1, f)
<1>0. \A b : b \in e <=> b \in LowBits /\ 8 * k + b \in f
  <2>1. 8 * (k + 1 - 1) = 8 * k
    OBVIOUS
  <2> QED
    BY <2>1 DEF ByteFlips
<1> HIDE DEF e
<1>1. d (+) e \in Words /\ e \in Words
  <2>1. LowBits \subseteq Bits
    BY DEF LowBits, Bits
  <2>2. e \in Words
    BY <1>0, <2>1 DEF Words
  <2> QED
    BY <2>2, XorTypes DEF Words
<1>2. ASSUME \A s \in f : s >= 8 * (k + 1)
      PROVE  Shift8(d (+) e) = {}
  <2>1. d = {}
    BY <1>2 DEF Differs
  <2>2. e = {}
    BY <1>0, <1>2 DEF LowBits
  <2> QED
    BY <2>1, <2>2, NoShift DEF (+)
<1>3. ASSUME NEW s \in f, f \subseteq s .. s + 31, s < 8 * (k + 1)
      PROVE  Shows(Shift8(d (+) e), s - 8 * (k + 1))
  <2> DEFINE p == s - 8 * k
  <2>1. p \in Int /\ p - 8 = s - 8 * (k + 1) /\ 8 * k + p = s /\ p <= 7
    BY <1>3
  <2>2. CASE s >= 8 * k
    <3>1. d = {}
      BY <1>3, <2>2 DEF Differs
    <3>2. d (+) e = e
      BY <3>1 DEF (+)
    <3>3. p >= 0 /\ p \in e
      BY <1>0, <1>3, <2>1, <2>2 DEF LowBits
    <3>4. \A b \in e : b >= p
      BY <1>0, <1>3, <2>1 DEF LowBits
    <3>5. Shows(e, p)
      BY <3>3, <3>4 DEF Shows
    <3> QED
      BY <1>1, <2>1, <3>2, <3>5, Shift8Shows
  <2>3. CASE s < 8 * k
    <3>1. p < 0 /\ Shows(d, p)
      BY <1>3, <2>1, <2>3 DEF Differs
    <3>2. PICK b \in d : b >= 32 + p
      BY <2>1, <3>1 DEF Shows
    <3>3. b \notin e
      BY <1>0, <1>3, <2>1, <3>2 DEF LowBits
    <3>4. Shows(d (+) e, p)
      BY <2>1, <3>1, <3>2, <3>3 DEF Shows, (+)
    <3> QED
      BY <1>1, <2>1, <3>4, Shift8Shows
  <2> QED
    BY <1>3, <2>2, <2>3
<1> QED
  BY <1>2, <1>3 DEF Differs, e

\* After the last byte the difference is compared with the flips in the
\* remainder.
LEMMA DiffersLast ==
  ASSUME NEW d \in Words, NEW n \in Nat, NEW f \in SUBSET Nat, Differs(d, n, f)
  PROVE  /\ f = {} => d = WordFlips(n, f)
         /\ Burst(f, n) => d # WordFlips(n, f)
<1> DEFINE e == WordFlips(n, f)
<1>0. e = {b \in Bits : 8 * n + b \in f}
  BY DEF WordFlips
<1> HIDE DEF e
<1>1. f = {} => d = e
  BY <1>0 DEF Differs
<1>2. ASSUME Burst(f, n) PROVE d # e
  <2>1. PICK s \in f : f \subseteq s .. s + 31 /\ s < 8 * (n + 4)
    BY <1>2 DEF Burst
  <2>2. CASE s >= 8 * n
    <3>1. d = {}
      BY <2>1, <2>2 DEF Differs
    <3>2. s - 8 * n \in e
      BY <1>0, <2>1, <2>2 DEF Bits
    <3> QED
      BY <3>1, <3>2
  <2>3. CASE s < 8 * n
    <3>1. s - 8 * n < 0 /\ Shows(d, s - 8 * n)
      BY <2>1, <2>3 DEF Differs
    <3>2. PICK b \in d : b >= 32 + (s - 8 * n)
      BY <2>1, <3>1 DEF Shows
    <3>3. b \notin e
      BY <1>0, <2>1, <3>2 DEF Bits
    <3> QED
      BY <3>2, <3>3
  <2> QED
    BY <2>1, <2>2, <2>3
<1> QED
  BY <1>1, <1>2 DEF e

LEMMA SameEnd ==
  ASSUME NEW v \in Words, NEW w \in Words, NEW e \in Words
  PROVE  Final(v) = Final(w) (+) e <=> v (+) w = e
BY DEF Final, (+), Words

----------------------------------------------------------------------------
(* A packet on the line.                                                   *)

LEMMA ByteTypes ==
  ASSUME NEW w, NEW k, NEW c \in Bytes
  PROVE  ByteOf(w, k) \in Bytes /\ c (+) ByteOf(w, k) \in Bytes
BY DEF ByteOf, Bytes, (+)

\* What arrives are the bytes that were sent and their remainder, with the
\* flips of each.
LEMMA Delivered ==
  ASSUME NEW m \in Seq(Bytes), NEW r \in Words, NEW f \in SUBSET Nat, NEW bytes,
         bytes = FlippedBytes(PacketBytes(m, r), f)
  PROVE  /\ DOMAIN bytes = 1 .. Len(m) + 4
         /\ \A i \in 1 .. Len(m) + 4 : bytes[i] \in Bytes
         /\ \A i \in 1 .. Len(m) : bytes[i] = m[i] (+) ByteFlips(i, f)
         /\ \A k \in 0 .. 3 :
              bytes[Len(m) + 1 + k] = ByteOf(r, k) (+) ByteFlips(Len(m) + 1 + k, f)
<1> DEFINE n == Len(m)
           sent == PacketBytes(m, r)
<1>1. n \in Nat /\ \A i \in 1 .. n : m[i] \in Bytes
  BY LenProperties, ElementOfSeq
<1>2. /\ DOMAIN sent = 1 .. n + 4
      /\ \A i \in 1 .. n : sent[i] = m[i]
      /\ \A i \in n + 1 .. n + 4 : sent[i] = ByteOf(r, i - n - 1)
  BY <1>1 DEF PacketBytes
<1>3. \A k \in 0 .. 3 : n + 1 + k \in n + 1 .. n + 4 /\ n + 1 + k - n - 1 = k
  BY <1>1
<1>4. \A i \in 1 .. n + 4 : sent[i] \in Bytes
  <2>1. \A k : ByteOf(r, k) \in Bytes
    BY DEF ByteOf, Bytes
  <2>2. \A i \in 1 .. n + 4 : i \in 1 .. n \/ i \in n + 1 .. n + 4
    BY <1>1
  <2> HIDE DEF sent
  <2> QED
    BY <1>1, <1>2, <2>1, <2>2
<1> HIDE DEF sent
<1>5. /\ DOMAIN bytes = 1 .. n + 4
      /\ \A i \in 1 .. n + 4 : bytes[i] = sent[i] (+) ByteOf(f, i - 1)
  BY <1>2 DEF FlippedBytes, sent
<1>6. \A i : ByteOf(f, i - 1) = ByteFlips(i, f)
  BY DEF ByteOf, ByteFlips
<1>7. \A i \in 1 .. n + 4 : bytes[i] \in Bytes
  BY <1>4, <1>5, ByteTypes
<1>8. \A i \in 1 .. n : i \in 1 .. n + 4
  BY <1>1
<1>9. \A i \in n + 1 .. n + 4 : i \in 1 .. n + 4
  BY <1>1
<1> QED
  BY <1>2, <1>3, <1>5, <1>6, <1>7, <1>8, <1>9

\* Behind as many bytes as were sent lies the remainder with its flips.
LEMMA RemainderDelivered ==
  ASSUME NEW n \in Nat, NEW r \in Words, NEW f \in SUBSET Nat, NEW bytes,
         \A k \in 0 .. 3 : bytes[n + 1 + k] = ByteOf(r, k) (+) ByteFlips(n + 1 + k, f)
  PROVE  Remainder(bytes, n) = r (+) WordFlips(n, f)
<1>1. ASSUME NEW b \in Bits, NEW k \in 0 .. 3, b - 8 * k \in LowBits
      PROVE  b - 8 * k \in bytes[n + 1 + k] <=> ~ (b \in r <=> 8 * n + b \in f)
  <2>1. 8 * k + (b - 8 * k) = b /\ 8 * (n + 1 + k - 1) + (b - 8 * k) = 8 * n + b
    BY DEF Bits
  <2>2. b - 8 * k \in ByteOf(r, k) <=> b \in r
    BY <1>1, <2>1 DEF ByteOf
  <2>3. b - 8 * k \in ByteFlips(n + 1 + k, f) <=> 8 * n + b \in f
    BY <1>1, <2>1 DEF ByteFlips
  <2> QED
    BY <2>2, <2>3 DEF (+)
<1>2. ASSUME NEW b \in Bits, NEW k \in 0 .. 3, b - 8 * k \in bytes[n + 1 + k]
      PROVE  b - 8 * k \in LowBits
  BY <1>2 DEF ByteOf, ByteFlips, (+)
<1>3. ASSUME NEW b \in Bits
      PROVE  \E k \in 0 .. 3 : b - 8 * k \in LowBits
  <2>1. /\ b <= 7 => b - 8 * 0 \in LowBits
        /\ b > 7 /\ b <= 15 => b - 8 * 1 \in LowBits
        /\ b > 15 /\ b <= 23 => b - 8 * 2 \in LowBits
        /\ b > 23 => b - 8 * 3 \in LowBits
    BY DEF Bits, LowBits
  <2>2. 0 \in 0 .. 3 /\ 1 \in 0 .. 3 /\ 2 \in 0 .. 3 /\ 3 \in 0 .. 3
    OBVIOUS
  <2> QED
    BY <2>1, <2>2 DEF Bits
<1>4. \A b \in Bits : b \in Remainder(bytes, n) <=> ~ (b \in r <=> 8 * n + b \in f)
  <2> TAKE b \in Bits
  <2>1. b \in Remainder(bytes, n) <=> \E k \in 0 .. 3 : b - 8 * k \in bytes[n + 1 + k]
    BY DEF Remainder
  <2> QED
    BY <1>1, <1>2, <1>3, <2>1
<1>5. Remainder(bytes, n) \subseteq Bits /\ r \subseteq Bits
  BY DEF Remainder, Words
<1> QED
  BY <1>4, <1>5 DEF WordFlips, (+)

----------------------------------------------------------------------------
(* The inductive invariant.                                                *)

\* The registers the packet is built with, after k bytes, each made from the
\* one before it.
Registers(k) ==
  /\ Len(registers) = k + 1
  /\ registers[1] = CRC_START_32
  /\ \A j \in 1 .. k : registers[j + 1] = Shift8(registers[j] (+) message[j])

TablesRight == \A s \in Sides : crc_tab32_init[s] => crc_tab32[s] = Table

\* The receiver checks the bytes that were sent: a listener that found the type
\* byte as it was, or a sender.
Aligned == message[1] = TYPE_ACK \/ input_str[1] = message[1]

AtSender == input_str = message /\ Registers(a) /\ crc = registers[a + 1] /\ flips = {}

OnWire == CRC_remainder = Final(registers[Len(message) + 1]) /\ flips = {}

FlippedMessage(m, f) == [i \in 1 .. Len(m) |-> m[i] (+) ByteFlips(i, f)]

AtReceiver ==
  /\ input_str = FlippedMessage(message, flips)
  /\ CRC_remainder = Final(registers[Len(message) + 1]) (+) WordFlips(Len(message), flips)
  /\ Differs(crc (+) registers[a + 1], a, flips)

CrcInv ==
  /\ TypeOK
  /\ TablesRight
  /\ pc \in {"sending", "receiving"} => crc_tab32_init[Computing]
  /\ pc = "idle" => flips = {}
  /\ pc # "idle" => message \in Messages
  /\ pc = "sending" => AtSender
  /\ pc \in {"wire", "receiving"} => Registers(Len(message))
  /\ pc = "wire" => OnWire
  /\ pc = "receiving" => /\ flips = {} => Aligned
                         /\ Aligned => AtReceiver
  /\ pc \in {"refused", "unknown"} => flips # {}
  /\ pc = "repeated" /\ flips = {} => message[1] = TYPE_HASH
  /\ pc = "accepted" /\ Burst(flips, Len(message)) => ~ Aligned

LEMMA TableTypes == Table \in [Bytes -> Words] /\ NoTable \in [Bytes -> Words]
<1>1. \A c \in Bytes : c \in Words
  BY DEF Bytes, Words, LowBits, Bits
<1>2. \A c \in Bytes : Shift8(c) \in Words
  BY <1>1, Shift8Types
<1>3. {} \in Words
  BY DEF Words
<1> QED
  BY <1>2, <1>3 DEF Table, NoTable

LEMMA StartType == CRC_START_32 \in Words
BY DEF CRC_START_32, Words

LEMMA CallTables ==
  ASSUME TypeOK, TablesRight, NEW side \in Sides, NEW bytes, Call(side, bytes)
  PROVE  /\ TablesRight' /\ crc_tab32_init'[side]
         /\ crc_tab32' \in [Sides -> [Bytes -> Words]]
         /\ crc_tab32_init' \in [Sides -> BOOLEAN]
<1>1. CASE crc_tab32_init[side]
  BY <1>1 DEF Call, TablesRight, tables, TypeOK
<1>2. CASE ~ crc_tab32_init[side]
  BY <1>2, TableTypes DEF Call, init_crc32_tab, TablesRight, TypeOK
<1> QED
  BY <1>1, <1>2

LEMMA MessageTypes ==
  ASSUME NEW m \in Messages
  PROVE  /\ m \in Seq(Bytes) /\ Len(m) \in Nat \ {0}
         /\ m[1] \in Types /\ m[1] \in Bytes /\ Len(m) = Lengths[m[1]]
<1>1. m \in Seq(Bytes) /\ m # <<>> /\ m[1] \in Types /\ Len(m) = Lengths[m[1]]
  BY CrcAssumption
<1>2. Len(m) \in Nat /\ Len(m) # 0
  BY <1>1, LenProperties, EmptySeq
<1>3. m[1] \in Bytes
  BY <1>1, <1>2, ElementOfSeq
<1> QED
  BY <1>1, <1>2, <1>3

LEMMA FlippedTypes ==
  ASSUME NEW m \in Seq(Bytes), NEW f
  PROVE  /\ Len(FlippedMessage(m, f)) = Len(m)
         /\ \A i \in 1 .. Len(m) : FlippedMessage(m, f)[i] = m[i] (+) ByteFlips(i, f)
<1>1. Len(m) \in Nat
  BY LenProperties
<1>2. \A i \in 1 .. Len(m) : m[i] (+) ByteFlips(i, f) \in Bytes
  <2>1. \A i \in 1 .. Len(m) : m[i] \in Bytes
    BY ElementOfSeq
  <2> QED
    BY <2>1 DEF ByteFlips, (+), Bytes
<1>3. FlippedMessage(m, f) \in [1 .. Len(m) -> Bytes]
  BY <1>2 DEF FlippedMessage
<1>4. \A i \in 1 .. Len(m) : FlippedMessage(m, f)[i] = m[i] (+) ByteFlips(i, f)
  BY DEF FlippedMessage
<1> HIDE DEF FlippedMessage
<1> QED
  BY <1>1, <1>3, <1>4

----------------------------------------------------------------------------
(* Every step keeps it.                                                    *)

LEMMA InitInv == Init => CrcInv
<1> SUFFICES ASSUME Init PROVE CrcInv
  OBVIOUS
<1>0. /\ {} \in Bytes /\ {} \in Words /\ {} \in SUBSET Nat /\ MaxDamaged \in Nat
      /\ client_message \in [1 .. BufferSize -> Bytes]
  BY CrcAssumption DEF Init, Bytes, Words
<1>1. TypeOK
  <2>1. /\ crc_tab32 \in [Sides -> [Bytes -> Words]]
        /\ crc_tab32_init \in [Sides -> BOOLEAN]
    BY TableTypes DEF Init
  <2>2. <<>> \in Seq(Bytes) /\ <<>> \in Seq(Words) /\ Len(<<>>) = 0
    BY EmptySeq
  <2>3. /\ message \in Seq(Bytes) /\ input_str \in Seq(Bytes) /\ registers \in Seq(Words)
        /\ a \in 0 .. Len(input_str)
    BY <2>2 DEF Init
  <2>4. crc \in Words /\ CRC_remainder \in Words /\ flips \in SUBSET Nat
    BY <1>0 DEF Init
  <2>5. damaged \in 0 .. MaxDamaged
    BY <1>0 DEF Init
  <2>6. pc \in AtRest /\ is_accepted \in BOOLEAN
    BY DEF Init, AtRest
  <2> QED
    BY <1>0, <2>1, <2>3, <2>4, <2>5, <2>6 DEF TypeOK
<1>2. TablesRight
  BY DEF Init, TablesRight, Sides
<1> QED
  BY <1>1, <1>2 DEF Init, CrcInv

LEMMA NewSenderInv == CrcInv /\ NewSender => CrcInv'
<1> SUFFICES ASSUME CrcInv, NewSender PROVE CrcInv'
  OBVIOUS
<1>1. TypeOK'
  BY TableTypes DEF CrcInv, NewSender, TypeOK, Sides, buffer, call
<1>2. TablesRight'
  BY DEF CrcInv, NewSender, TypeOK, TablesRight, Sides
<1>3. pc' \notin {"sending", "receiving", "wire"} /\ Aligned' = Aligned
  BY DEF NewSender, AtRest, Aligned, call
<1>4. /\ pc' = pc /\ message' = message /\ flips' = flips
  BY DEF NewSender
<1> QED
  BY <1>1, <1>2, <1>3, <1>4 DEF CrcInv

LEMMA SendInv == CrcInv /\ Send => CrcInv'
<1> SUFFICES ASSUME CrcInv, Send PROVE CrcInv'
  OBVIOUS
<1>1. PICK m \in Messages :
        message' = m /\ Call(IF m[1] = TYPE_ACK THEN "listener" ELSE "sender", m)
  BY DEF Send
<1>2. m \in Seq(Bytes) /\ Len(m) \in Nat
  BY MessageTypes
<1>3. /\ pc' = "sending" /\ input_str' = m /\ a' = 0 /\ crc' = CRC_START_32 /\ flips' = {}
      /\ registers' = <<CRC_START_32>> /\ CRC_remainder' = CRC_remainder
      /\ client_message' = client_message /\ is_accepted' = is_accepted /\ damaged' = damaged
  BY <1>1 DEF Call, Send, buffer
<1>4. /\ TablesRight' /\ crc_tab32_init'[Computing']
      /\ crc_tab32' \in [Sides -> [Bytes -> Words]] /\ crc_tab32_init' \in [Sides -> BOOLEAN]
  BY <1>1, <1>3, CallTables DEF CrcInv, Sides, Computing
<1>5. TypeOK'
  BY <1>1, <1>2, <1>3, <1>4, StartType DEF CrcInv, TypeOK
<1>6. AtSender'
  BY <1>1, <1>3 DEF AtSender, Registers
<1> QED
  BY <1>1, <1>3, <1>4, <1>5, <1>6 DEF CrcInv

\* One byte at either end is eight turns of its register.
LEMMA NextByteCrc ==
  ASSUME CrcInv, NextByte
  PROVE  /\ a + 1 \in 1 .. Len(input_str) /\ input_str[a + 1] \in Bytes
         /\ crc' = Shift8(crc (+) input_str[a + 1]) /\ crc' \in Words
<1>1. a + 1 \in 1 .. Len(input_str)
  BY LenProperties DEF CrcInv, TypeOK, NextByte
<1>2. input_str[a + 1] \in Bytes /\ crc \in Words
  BY <1>1, ElementOfSeq DEF CrcInv, TypeOK
<1>3. crc_tab32[Computing] = Table
  <2>1. Computing \in Sides
    BY DEF Computing, Sides, NextByte
  <2> QED
    BY <2>1 DEF CrcInv, TablesRight, NextByte
<1>4. crc' = Shift8(crc (+) input_str[a + 1])
  BY <1>2, <1>3, TableStep DEF NextByte
<1>5. crc (+) input_str[a + 1] \in Words
  <2>1. LowBits \subseteq Bits
    BY DEF LowBits, Bits
  <2> QED
    BY <1>2, <2>1 DEF (+), Words, Bytes
<1> QED
  BY <1>1, <1>2, <1>4, <1>5, Shift8Types

LEMMA NextByteType ==
  CrcInv /\ NextByte => TypeOK' /\ TablesRight' /\ crc_tab32_init'[Computing']
<1> SUFFICES ASSUME CrcInv, NextByte
    PROVE TypeOK' /\ TablesRight' /\ crc_tab32_init'[Computing']
  OBVIOUS
<1>1. crc' \in Words /\ a + 1 \in 0 .. Len(input_str)
  BY NextByteCrc, LenProperties DEF CrcInv, TypeOK
<1>2. registers' \in Seq(Words)
  BY <1>1, AppendProperties DEF CrcInv, TypeOK, NextByte
<1>3. TypeOK' /\ TablesRight'
  BY <1>1, <1>2 DEF CrcInv, TypeOK, TablesRight, NextByte, tables, buffer
<1>4. crc_tab32_init'[Computing']
  BY DEF CrcInv, NextByte, tables, Computing
<1> QED
  BY <1>3, <1>4

LEMMA NextByteSender == CrcInv /\ NextByte /\ pc = "sending" => CrcInv'
<1> SUFFICES ASSUME CrcInv, NextByte, pc = "sending" PROVE CrcInv'
  OBVIOUS
<1>1. /\ input_str = message /\ Registers(a) /\ crc = registers[a + 1] /\ flips = {}
  BY DEF CrcInv, AtSender
<1>2. /\ a \in Nat /\ Len(registers) = a + 1 /\ registers \in Seq(Words) /\ crc' \in Words
      /\ crc' = Shift8(crc (+) message[a + 1])
  BY <1>1, NextByteCrc, LenProperties DEF CrcInv, TypeOK, Registers
<1>3. /\ registers' = Append(registers, crc') /\ message' = message /\ a' = a + 1 /\ pc' = pc
      /\ input_str' = input_str /\ flips' = flips
  BY DEF NextByte
<1>4. /\ Len(registers') = a + 2 /\ registers'[a + 2] = crc'
      /\ \A j \in 1 .. a + 1 : registers'[j] = registers[j]
  <2>1. /\ Len(registers') = Len(registers) + 1 /\ registers'[Len(registers) + 1] = crc'
        /\ \A j \in 1 .. Len(registers) : registers'[j] = registers[j]
    BY <1>2, <1>3, AppendProperties
  <2>2. a + 1 + 1 = a + 2
    BY <1>2
  <2> QED
    BY <1>2, <2>1, <2>2
<1>5. \A j \in 1 .. a + 1 : registers'[j + 1] = Shift8(registers'[j] (+) message[j])
  <2> TAKE j \in 1 .. a + 1
  <2>1. CASE j = a + 1
    <3>1. j + 1 = a + 2
      BY <1>2, <2>1
    <3> QED
      BY <1>1, <1>2, <1>4, <2>1, <3>1
  <2>2. CASE j # a + 1
    <3>1. j \in 1 .. a /\ j + 1 \in 1 .. a + 1
      BY <1>2, <2>2
    <3> QED
      BY <1>1, <1>4, <3>1 DEF Registers
  <2> QED
    BY <2>1, <2>2
<1>6. Registers(a)'
  <2>1. registers'[1] = CRC_START_32
    BY <1>1, <1>2, <1>4 DEF Registers
  <2>2. a + 1 + 1 = a + 2
    BY <1>2
  <2> QED
    BY <1>3, <1>4, <1>5, <2>1, <2>2 DEF Registers
<1>7. AtSender'
  <2>1. a + 1 + 1 = a + 2
    BY <1>2
  <2> QED
    BY <1>1, <1>3, <1>4, <1>6, <2>1 DEF AtSender
<1> QED
  BY <1>3, <1>7, NextByteType DEF CrcInv

\* The two ends go through the same bytes, but for the flips.
LEMMA NextByteAligned ==
  ASSUME CrcInv, NextByte, pc = "receiving", Aligned
  PROVE  AtReceiver'
<1> DEFINE w == registers[a + 1]
           c == message[a + 1]
           e == ByteFlips(a + 1, flips)
<1>1. AtReceiver /\ Registers(Len(message))
  BY DEF CrcInv
<1>2. /\ message \in Seq(Bytes) /\ registers \in Seq(Words) /\ flips \in SUBSET Nat
      /\ a \in Nat /\ Len(message) \in Nat /\ crc \in Words
  BY LenProperties DEF CrcInv, TypeOK
<1>3. a + 1 \in 1 .. Len(message) /\ crc' = Shift8(crc (+) input_str[a + 1])
  BY <1>1, <1>2, NextByteCrc, FlippedTypes DEF AtReceiver
<1>4. w \in Words /\ c \in Bytes /\ registers[a + 2] = Shift8(w (+) c)
  <2>1. a + 1 \in 1 .. Len(registers) /\ a + 1 + 1 = a + 2
    BY <1>1, <1>2, <1>3 DEF Registers
  <2> QED
    BY <1>1, <1>2, <1>3, <2>1, ElementOfSeq DEF Registers
<1>5. input_str[a + 1] = c (+) e
  BY <1>1, <1>2, <1>3, FlippedTypes DEF AtReceiver
<1> HIDE DEF w, c, e
<1>6. c \in Words /\ e \in Words
  <2>1. LowBits \subseteq Bits
    BY DEF LowBits, Bits
  <2> QED
    BY <1>4, <2>1 DEF Bytes, Words, e, ByteFlips
<1>7. crc' (+) registers[a + 2] = Shift8((crc (+) w) (+) e)
  <2>1. (crc (+) (c (+) e)) \in Words /\ (w (+) c) \in Words
    BY <1>2, <1>4, <1>6 DEF (+), Words
  <2>2. Shift8(crc (+) (c (+) e)) (+) Shift8(w (+) c)
          = Shift8((crc (+) (c (+) e)) (+) (w (+) c))
    BY <2>1, Shift8Xor
  <2>3. (crc (+) (c (+) e)) (+) (w (+) c) = (crc (+) w) (+) e
    BY DEF (+)
  <2> QED
    BY <1>3, <1>4, <1>5, <2>2, <2>3
<1>8. Differs(Shift8((crc (+) w) (+) e), a + 1, flips)
  <2>1. crc (+) w \in Words /\ Differs(crc (+) w, a, flips)
    BY <1>1, <1>2, <1>4 DEF AtReceiver, (+), Words, w
  <2> QED
    BY <1>2, <2>1, DiffersNext DEF e
<1>9. /\ registers' = registers /\ message' = message /\ a' = a + 1 /\ pc' = pc
      /\ input_str' = input_str /\ flips' = flips /\ CRC_remainder' = CRC_remainder
  BY DEF NextByte
<1>10. a + 1 + 1 = a + 2
  BY <1>2
<1> QED
  BY <1>1, <1>7, <1>8, <1>9, <1>10 DEF AtReceiver

LEMMA NextByteReceiver == CrcInv /\ NextByte /\ pc = "receiving" => CrcInv'
<1> SUFFICES ASSUME CrcInv, NextByte, pc = "receiving" PROVE CrcInv'
  OBVIOUS
<1>1. /\ registers' = registers /\ message' = message /\ pc' = pc
      /\ input_str' = input_str /\ flips' = flips
  BY DEF NextByte
<1>2. Aligned' = Aligned
  BY <1>1 DEF Aligned
<1>3. Registers(Len(message))'
  BY <1>1 DEF CrcInv, Registers
<1> QED
  BY <1>1, <1>2, <1>3, NextByteType, NextByteAligned DEF CrcInv

LEMMA SentInv == CrcInv /\ Sent => CrcInv'
<1> SUFFICES ASSUME CrcInv, Sent PROVE CrcInv'
  OBVIOUS
<1>1. AtSender /\ a = Len(message)
  BY DEF CrcInv, Sent, AtSender
<1>2. /\ pc' = "wire" /\ CRC_remainder' = Final(crc)
      /\ UNCHANGED <<tables, message, buffer, call, flips, registers, damaged>>
  BY DEF Sent
<1>3. Final(crc) \in Words
  BY DEF CrcInv, TypeOK, Final, (+), Words
<1>4. TypeOK' /\ TablesRight'
  BY <1>2, <1>3 DEF CrcInv, TypeOK, TablesRight, tables, buffer, call
<1>5. Registers(Len(message))' /\ OnWire'
  BY <1>1, <1>2 DEF AtSender, Registers, OnWire, call
<1>6. message' \in Messages
  BY <1>2 DEF CrcInv, Sent
<1> QED
  BY <1>2, <1>4, <1>5, <1>6 DEF CrcInv

\* The call of a receiver.
LEMMA CheckTypes ==
  ASSUME CrcInv, NEW side \in Sides, NEW bytes, NEW n \in Nat \ {0}, Check(side, bytes, n),
         \A i \in 1 .. n : bytes[i] \in Bytes
  PROVE  /\ TablesRight' /\ crc_tab32_init'[side]
         /\ crc_tab32' \in [Sides -> [Bytes -> Words]]
         /\ crc_tab32_init' \in [Sides -> BOOLEAN]
         /\ pc' = "receiving" /\ a' = 0 /\ crc' = CRC_START_32 /\ crc' \in Words
         /\ input_str' \in Seq(Bytes) /\ a' \in 0 .. Len(input_str')
         /\ \A i \in 1 .. n : input_str'[i] = bytes[i]
         /\ input_str' = [i \in 1 .. n |-> bytes[i]]
         /\ CRC_remainder' = Remainder(bytes, n) /\ CRC_remainder' \in Words
<1>1. PICK s : s = [i \in 1 .. n |-> bytes[i]]
  OBVIOUS
<1>2. Call(side, s) /\ pc' = "receiving" /\ CRC_remainder' = Remainder(bytes, n)
  BY <1>1 DEF Check
<1>3. s \in Seq(Bytes) /\ Len(s) = n /\ \A i \in 1 .. n : s[i] = bytes[i]
  <2>1. s \in [1 .. n -> Bytes] /\ \A i \in 1 .. n : s[i] = bytes[i]
    BY <1>1
  <2> QED
    BY <2>1
<1>4. input_str' = s /\ a' = 0 /\ crc' = CRC_START_32
  BY <1>2 DEF Call
<1>5. Remainder(bytes, n) \in Words
  BY DEF Remainder, Words
<1> QED
  BY <1>1, <1>2, <1>3, <1>4, <1>5, CallTables, StartType DEF CrcInv

\* What the receiver starts from, when it checks the bytes that were sent.
LEMMA ReceiverStarts ==
  ASSUME CrcInv, pc = "wire", NEW f \in Flips, NEW bytes, NEW side \in Sides,
         \A i \in 1 .. Len(message) : bytes[i] = message[i] (+) ByteFlips(i, f),
         \A k \in 0 .. 3 : bytes[Len(message) + 1 + k]
                             = ByteOf(CRC_remainder, k) (+) ByteFlips(Len(message) + 1 + k, f),
         \A i \in 1 .. Len(message) : bytes[i] \in Bytes,
         Check(side, bytes, Len(message)),
         UNCHANGED <<message, registers>>, flips' = f
  PROVE  AtReceiver'
<1>1. OnWire /\ Registers(Len(message)) /\ message \in Messages
  BY DEF CrcInv
<1>n. PICK n : n = Len(message) /\ n \in Nat \ {0}
  BY <1>1, MessageTypes
<1>c. Check(side, bytes, n) /\ \A i \in 1 .. n : bytes[i] \in Bytes
  BY <1>n
<1>2. /\ a' = 0 /\ crc' = CRC_START_32 /\ CRC_remainder' = Remainder(bytes, Len(message))
      /\ input_str' = [i \in 1 .. Len(message) |-> bytes[i]]
  <2>1. /\ a' = 0 /\ crc' = CRC_START_32 /\ CRC_remainder' = Remainder(bytes, n)
        /\ input_str' = [i \in 1 .. n |-> bytes[i]]
    BY <1>n, <1>c, CheckTypes
  <2> QED
    BY <1>n, <2>1
<1>3. input_str' = FlippedMessage(message, f)
  BY <1>2 DEF FlippedMessage
<1>4. CRC_remainder' = CRC_remainder (+) WordFlips(Len(message), f)
  <2>1. CRC_remainder \in Words /\ f \in SUBSET Nat /\ n \in Nat
    BY <1>n, CrcAssumption DEF CrcInv, TypeOK
  <2>2. Remainder(bytes, n) = CRC_remainder (+) WordFlips(n, f)
    BY <1>n, <2>1, RemainderDelivered
  <2> QED
    BY <1>2, <1>n, <2>2
<1>5. Differs(CRC_START_32 (+) CRC_START_32, 0, f)
  <2>1. CRC_START_32 (+) CRC_START_32 = {}
    BY DEF (+)
  <2>2. \A s \in f : ~ (s < 8 * 0)
    BY CrcAssumption
  <2> QED
    BY <2>1, <2>2 DEF Differs
<1>6. registers[0 + 1] = CRC_START_32
  BY <1>1 DEF Registers
<1> QED
  BY <1>1, <1>2, <1>3, <1>4, <1>5, <1>6 DEF AtReceiver, OnWire

\* What every arrival has in common.
LEMMA ArrivesTypes ==
  ASSUME CrcInv, Arrives
  PROVE  \E f \in Flips : \E bytes :
           /\ flips' = f /\ f \in SUBSET Nat
           /\ damaged' \in 0 .. MaxDamaged
           /\ UNCHANGED <<message, registers>>
           /\ ReceiveAck(bytes) \/ ReceivePacket(bytes)
           /\ DOMAIN bytes = 1 .. Len(message) + 4
           /\ \A i \in 1 .. Len(message) + 4 : bytes[i] \in Bytes
           /\ \A i \in 1 .. Len(message) : bytes[i] = message[i] (+) ByteFlips(i, f)
           /\ \A k \in 0 .. 3 : bytes[Len(message) + 1 + k]
                                = ByteOf(CRC_remainder, k) (+) ByteFlips(Len(message) + 1 + k, f)
<1>1. PICK f \in Flips :
        /\ f # {} => damaged < MaxDamaged
        /\ damaged' = IF f = {} THEN damaged ELSE damaged + 1
        /\ flips' = f
        /\ LET bytes == FlippedBytes(PacketBytes(message, CRC_remainder), f)
           IN  ReceiveAck(bytes) \/ ReceivePacket(bytes)
  BY DEF Arrives
<1>2. PICK bytes : bytes = FlippedBytes(PacketBytes(message, CRC_remainder), f)
  OBVIOUS
<1>3. f \in SUBSET Nat /\ message \in Seq(Bytes) /\ CRC_remainder \in Words
  BY CrcAssumption DEF CrcInv, TypeOK
<1>4. damaged' \in 0 .. MaxDamaged
  BY <1>1, CrcAssumption DEF CrcInv, TypeOK
<1>5. UNCHANGED <<message, registers>>
  BY DEF Arrives
<1>6. ReceiveAck(bytes) \/ ReceivePacket(bytes)
  BY <1>1, <1>2
<1>7. /\ DOMAIN bytes = 1 .. Len(message) + 4
      /\ \A i \in 1 .. Len(message) + 4 : bytes[i] \in Bytes
      /\ \A i \in 1 .. Len(message) : bytes[i] = message[i] (+) ByteFlips(i, f)
      /\ \A k \in 0 .. 3 : bytes[Len(message) + 1 + k]
                           = ByteOf(CRC_remainder, k) (+) ByteFlips(Len(message) + 1 + k, f)
  BY <1>2, <1>3, Delivered
<1>8. flips' = f
  BY <1>1
<1> QED
  BY <1>3, <1>4, <1>5, <1>6, <1>7, <1>8

LEMMA ReceiveAckInv ==
  ASSUME CrcInv, Arrives, NEW f \in Flips, NEW bytes, ReceiveAck(bytes),
         flips' = f, f \in SUBSET Nat, damaged' \in 0 .. MaxDamaged,
         UNCHANGED <<message, registers>>,
         \A i \in 1 .. Len(message) + 4 : bytes[i] \in Bytes,
         \A i \in 1 .. Len(message) : bytes[i] = message[i] (+) ByteFlips(i, f),
         \A k \in 0 .. 3 : bytes[Len(message) + 1 + k]
                             = ByteOf(CRC_remainder, k) (+) ByteFlips(Len(message) + 1 + k, f)
  PROVE  CrcInv'
<1>1. /\ pc = "wire" /\ message \in Messages /\ Registers(Len(message))
      /\ message[1] = TYPE_ACK /\ UNCHANGED buffer
  BY DEF CrcInv, Arrives, ReceiveAck
<1>2. /\ Len(message) \in Nat \ {0} /\ Check("sender", bytes, Len(message))
      /\ \A i \in 1 .. Len(message) : bytes[i] \in Bytes
  BY <1>1, MessageTypes DEF ReceiveAck
<1>3. "sender" \in Sides /\ pc' = "receiving" /\ Computing' = "sender" /\ Aligned'
  BY <1>1 DEF Sides, Computing, Aligned, Check, ReceiveAck
<1>4. TypeOK'
  BY <1>1, <1>2, <1>3, CheckTypes DEF CrcInv, TypeOK, buffer
<1>5. TablesRight' /\ crc_tab32_init'[Computing']
  BY <1>2, <1>3, CheckTypes
<1>6. AtReceiver'
  BY <1>1, <1>2, <1>3, ReceiverStarts
<1>7. Registers(Len(message))'
  BY <1>1 DEF Registers
<1> QED
  BY <1>1, <1>3, <1>4, <1>5, <1>6, <1>7 DEF CrcInv

LEMMA ReceivePacketInv ==
  ASSUME CrcInv, Arrives, NEW f \in Flips, NEW bytes, ReceivePacket(bytes),
         flips' = f, f \in SUBSET Nat, damaged' \in 0 .. MaxDamaged,
         UNCHANGED <<message, registers>>,
         DOMAIN bytes = 1 .. Len(message) + 4,
         \A i \in 1 .. Len(message) + 4 : bytes[i] \in Bytes,
         \A i \in 1 .. Len(message) : bytes[i] = message[i] (+) ByteFlips(i, f),
         \A k \in 0 .. 3 : bytes[Len(message) + 1 + k]
                             = ByteOf(CRC_remainder, k) (+) ByteFlips(Len(message) + 1 + k, f)
  PROVE  CrcInv'
<1> DEFINE n == Len(message)
<1>1. /\ pc = "wire" /\ message \in Messages /\ Registers(n)
      /\ message[1] # TYPE_ACK /\ is_accepted' = is_accepted
  BY DEF CrcInv, Arrives, ReceivePacket
<1>2. /\ n \in Nat \ {0} /\ n = Lengths[message[1]] /\ n + 4 <= BufferSize
      /\ message[1] \in Types /\ message[1] \in Bytes
  BY <1>1, MessageTypes, CrcAssumption
<1>3. /\ client_message' \in [1 .. BufferSize -> Bytes]
      /\ \A i \in 1 .. n + 4 : client_message'[i] = bytes[i]
  <2>1. client_message' = [i \in 1 .. BufferSize |->
                            IF i \in DOMAIN bytes THEN bytes[i] ELSE client_message[i]]
    BY DEF ReceivePacket
  <2>2. BufferSize \in Nat /\ client_message \in [1 .. BufferSize -> Bytes]
    BY CrcAssumption DEF CrcInv, TypeOK
  <2>3. \A i \in 1 .. n + 4 : i \in 1 .. BufferSize
    BY <1>2, <2>2
  <2>4. DOMAIN bytes = 1 .. n + 4 /\ \A i \in 1 .. n + 4 : bytes[i] \in Bytes
    OBVIOUS
  <2> HIDE DEF n
  <2>5. \A i \in 1 .. BufferSize :
           (IF i \in DOMAIN bytes THEN bytes[i] ELSE client_message[i]) \in Bytes
    BY <2>2, <2>4
  <2> QED
    BY <2>1, <2>3, <2>4, <2>5
<1>4. bytes[1] = message[1] (+) ByteFlips(1, f)
  BY <1>2
<1>5. f = {} => bytes[1] = message[1]
  <2>1. f = {} => ByteFlips(1, f) = {}
    BY DEF ByteFlips
  <2> QED
    BY <1>4, <2>1 DEF (+)
<1>6. Registers(Len(message))' /\ message' \in Messages
  BY <1>1 DEF Registers
<1>7. CASE /\ bytes[1] \in {TYPE_DATA, TYPE_SYNC, TYPE_HASH}
           /\ Check("listener", client_message', Lengths[bytes[1]])
  <2> DEFINE m == Lengths[bytes[1]]
  <2>1. m \in Nat \ {0} /\ m + 4 <= BufferSize
    BY <1>7, CrcAssumption DEF Types
  <2>2. \A i \in 1 .. m : client_message'[i] \in Bytes
    BY <1>3, <2>1, CrcAssumption
  <2>3. "listener" \in Sides /\ pc' = "receiving" /\ Computing' = "listener"
    BY <1>1, <1>7 DEF Sides, Computing, Check
  <2>4. Check("listener", client_message', m)
    BY <1>7
  <2> HIDE DEF m
  <2>5. /\ TypeOK' /\ TablesRight' /\ crc_tab32_init'[Computing']
        /\ input_str'[1] = client_message'[1]
    <3>1. 1 \in 1 .. m
      BY <2>1
    <3>2. /\ TablesRight' /\ crc_tab32_init'["listener"] /\ pc' = "receiving"
          /\ crc_tab32' \in [Sides -> [Bytes -> Words]]
          /\ crc_tab32_init' \in [Sides -> BOOLEAN]
          /\ crc' \in Words /\ CRC_remainder' \in Words
          /\ input_str' \in Seq(Bytes) /\ a' \in 0 .. Len(input_str')
          /\ \A i \in 1 .. m : input_str'[i] = client_message'[i]
      BY <2>1, <2>2, <2>3, <2>4, CheckTypes
    <3> QED
      BY <1>1, <1>3, <2>3, <3>1, <3>2 DEF CrcInv, TypeOK
  <2>6. client_message'[1] = bytes[1]
    BY <1>2, <1>3
  <2>7. f = {} => Aligned'
    BY <1>5, <2>5, <2>6 DEF Aligned
  <2>8. ASSUME Aligned' PROVE AtReceiver'
    <3>1. bytes[1] = message[1]
      BY <1>1, <2>5, <2>6, <2>8 DEF Aligned
    <3>2. Check("listener", client_message', n)
      BY <1>2, <2>4, <3>1 DEF m
    <3>3. /\ \A i \in 1 .. n : i \in 1 .. n + 4
          /\ \A k \in 0 .. 3 : n + 1 + k \in 1 .. n + 4
      <4>1. n \in Nat
        BY <1>2
      <4> HIDE DEF n
      <4>2. \A i \in 1 .. n : i \in 1 .. n + 4
        BY <4>1
      <4>3. \A k \in 0 .. 3 : n + 1 + k \in 1 .. n + 4
        BY <4>1
      <4> QED
        BY <4>2, <4>3
    <3>4. /\ \A i \in 1 .. n : client_message'[i] = message[i] (+) ByteFlips(i, f)
          /\ \A i \in 1 .. n : client_message'[i] \in Bytes
          /\ \A k \in 0 .. 3 : client_message'[n + 1 + k]
                               = ByteOf(CRC_remainder, k) (+) ByteFlips(n + 1 + k, f)
      BY <1>3, <3>3
    <3>5. UNCHANGED <<message, registers>> /\ flips' = f
      OBVIOUS
    <3> QED
      BY <1>1, <2>3, <3>2, <3>4, <3>5, ReceiverStarts
  <2> QED
    BY <1>6, <2>3, <2>5, <2>7, <2>8 DEF CrcInv
<1>8. CASE bytes[1] = TYPE_HASH /\ NoCheck("repeated")
  <2>1. pc' = "repeated" /\ UNCHANGED <<tables, call, CRC_remainder>>
    BY <1>8 DEF NoCheck
  <2>2. TypeOK' /\ TablesRight'
    BY <1>1, <1>3, <2>1 DEF CrcInv, TypeOK, TablesRight, tables, call, AtRest
  <2> QED
    BY <1>5, <1>6, <1>8, <2>1, <2>2 DEF CrcInv
<1>9. CASE bytes[1] \notin {TYPE_DATA, TYPE_SYNC, TYPE_HASH} /\ NoCheck("unknown")
  <2>1. pc' = "unknown" /\ UNCHANGED <<tables, call, CRC_remainder>>
    BY <1>9 DEF NoCheck
  <2>2. TypeOK' /\ TablesRight'
    BY <1>1, <1>3, <2>1 DEF CrcInv, TypeOK, TablesRight, tables, call, AtRest
  <2>3. f # {}
    BY <1>1, <1>2, <1>5, <1>9 DEF Types
  <2> QED
    BY <1>6, <2>1, <2>2, <2>3 DEF CrcInv
<1> QED
  BY <1>7, <1>8, <1>9 DEF ReceivePacket

LEMMA ArrivesInv == CrcInv /\ Arrives => CrcInv'
BY ArrivesTypes, ReceiveAckInv, ReceivePacketInv

\* The verdict over the bytes that were sent.
LEMMA CompareAligned ==
  ASSUME CrcInv, pc = "receiving", a = Len(input_str), Aligned
  PROVE  /\ flips = {} => Final(crc) = CRC_remainder
         /\ Burst(flips, Len(message)) => Final(crc) # CRC_remainder
<1> DEFINE n == Len(message)
           w == registers[n + 1]
           e == WordFlips(n, flips)
<1>1. AtReceiver /\ Registers(n)
  BY DEF CrcInv
<1>2. /\ message \in Seq(Bytes) /\ registers \in Seq(Words) /\ flips \in SUBSET Nat
      /\ n \in Nat /\ crc \in Words
  BY LenProperties DEF CrcInv, TypeOK
<1>3. a = n
  BY <1>1, <1>2, FlippedTypes DEF AtReceiver
<1>4. w \in Words /\ e \in Words
  <2>1. n + 1 \in 1 .. Len(registers)
    BY <1>1, <1>2 DEF Registers
  <2> QED
    BY <1>2, <2>1, ElementOfSeq DEF Words, WordFlips
<1>5. CRC_remainder = Final(w) (+) e
  BY <1>1 DEF AtReceiver
<1>6. Differs(crc (+) w, n, flips)
  BY <1>1, <1>3 DEF AtReceiver
<1>7. crc (+) w \in Words
  <2> HIDE DEF w
  <2> QED
    BY <1>2, <1>4, XorTypes DEF Words
<1>8. /\ flips = {} => crc (+) w = e
      /\ Burst(flips, n) => crc (+) w # e
  <2> HIDE DEF w, n
  <2> QED
    BY <1>2, <1>6, <1>7, DiffersLast
<1>9. Final(crc) = CRC_remainder <=> crc (+) w = e
  <2> HIDE DEF w, e
  <2> QED
    BY <1>2, <1>4, <1>5, SameEnd
<1> HIDE DEF w, e
<1> QED
  BY <1>8, <1>9

LEMMA CompareInv == CrcInv /\ Compare => CrcInv'
<1> SUFFICES ASSUME CrcInv, Compare PROVE CrcInv'
  OBVIOUS
<1>1. /\ UNCHANGED <<tables, message, client_message, call, CRC_remainder, flips, registers, damaged>>
      /\ pc = "receiving" /\ a = Len(input_str)
      /\ pc' = IF Final(crc) = CRC_remainder THEN "accepted" ELSE "refused"
  BY DEF Compare
<1>2. is_accepted' \in BOOLEAN
  BY DEF Compare, CrcInv, TypeOK
<1>3. TypeOK' /\ TablesRight'
  BY <1>1, <1>2 DEF CrcInv, TypeOK, TablesRight, tables, call, AtRest
<1>4. Aligned' = Aligned
  BY <1>1 DEF Aligned, call
<1>5. (pc' = "refused" => flips' # {}) /\ (pc' = "accepted" /\ Burst(flips, Len(message)) => ~ Aligned')
  BY <1>1, <1>4, CompareAligned DEF CrcInv
<1>6. message' \in Messages
  BY <1>1 DEF CrcInv
<1> QED
  BY <1>1, <1>3, <1>5, <1>6 DEF CrcInv

LEMMA CrcStep == CrcInv /\ [Next]_vars => CrcInv'
<1> SUFFICES ASSUME CrcInv, [Next]_vars PROVE CrcInv'
  OBVIOUS
<1>1. CASE NextByte
  BY <1>1, NextByteSender, NextByteReceiver DEF NextByte
<1>2. CASE UNCHANGED vars
  BY <1>2
  DEF vars, tables, buffer, call, CrcInv, TypeOK, TablesRight, Computing, AtSender, OnWire,
             AtReceiver, Aligned, Registers
<1> QED
  BY <1>1, <1>2, NewSenderInv, SendInv, SentInv, ArrivesInv, CompareInv DEF Next

\* The invariant holds throughout, of every message and all damage.
THEOREM CrcCorrect == Spec => []CrcInv
BY InitInv, CrcStep, PTL DEF Spec

\* The table, the registers of both ends and the remainder are words of 32
\* bits throughout, and the index of the loop over the bytes stays inside the
\* string (crc32.c:60-76, 110-131).
THEOREM CrcTypes == Spec => []TypeOK
<1>1. CrcInv => TypeOK
  BY DEF CrcInv
<1> QED
  BY <1>1, CrcCorrect, PTL

----------------------------------------------------------------------------
(* What it says of a packet.                                               *)

\* Packets nothing happened to are accepted (listener.c 104, 147, 189, sender.c
\* 182, 333), repeated HASHes unseen: it does not matter which of the two
\* processes has filled its table, nor what is left in the listener's buffer.
THEOREM IntactPacketsAreAccepted == Spec => []IntactIsAccepted
<1>1. CrcInv => IntactIsAccepted
  BY DEF CrcInv, IntactIsAccepted
<1> QED
  BY <1>1, CrcCorrect, PTL

\* The table, which a process fills by its first call and keeps, stands for the
\* division bit by bit (crc32.c:59-73, 110-131): the remainder the sender puts
\* into a packet is that of its bytes, for a packet of any length.
THEOREM RemaindersAreBitwise == Spec => []RemainderIsBitwise
<1>1. CrcInv => RemainderIsBitwise
  <2> SUFFICES ASSUME CrcInv, pc = "wire"
      PROVE  /\ Len(registers) = Len(message) + 1
             /\ registers[1] = CRC_START_32
             /\ \A k \in 1 .. Len(message) : registers[k + 1] = TakeByte(registers[k], message[k])
             /\ CRC_remainder = Final(registers[Len(message) + 1])
    BY DEF RemainderIsBitwise
  <2>1. Registers(Len(message)) /\ OnWire
    BY DEF CrcInv
  <2>2. registers \in Seq(Words) /\ message \in Seq(Bytes) /\ Len(message) \in Nat
    BY LenProperties DEF CrcInv, TypeOK
  <2>3. ASSUME NEW k \in 1 .. Len(message)
        PROVE  registers[k + 1] = TakeByte(registers[k], message[k])
    <3>1. k \in 1 .. Len(registers)
      BY <2>1, <2>2 DEF Registers
    <3>2. registers[k] \in Words /\ message[k] \in Bytes
      BY <2>2, <3>1, ElementOfSeq
    <3> QED
      BY <2>1, <3>2, ByteTaken DEF Registers
  <2> QED
    BY <2>1, <2>3 DEF Registers, OnWire
<1> QED
  BY <1>1, CrcCorrect, PTL

\* A burst of at most 32 flipped bits is noticed, however long the packet is
\* and wherever the burst lies, by every receiver that checks the bytes that
\* were sent: by the sender, of ACKs, always, by the listener unless the burst
\* made it take the packet for one of another type (listener.c 101, 135, 179).
THEOREM BurstsAreNoticed == Spec => []BurstIsNoticed
<1>1. CrcInv => BurstIsNoticed
  BY DEF CrcInv, BurstIsNoticed, Aligned
<1> QED
  BY <1>1, CrcCorrect, PTL

=============================================================================

-------------------------- MODULE Arguments_proofs --------------------------
(***************************************************************************)
(* Proofs about Arguments: whatever is on the command line, and however    *)
(* long it is, the last argument of a kind counts, its digits are read as  *)
(* the number they stand for, and an operation runs only with what it      *)
(* needs.                                                                  *)
(*                                                                         *)
(* What the loops over the digits compute for every input is proved by     *)
(* induction.  The induction theorems of the library take a predicate as   *)
(* their parameter; the one here, about a set of numbers, takes none.      *)
(***************************************************************************)
EXTENDS Arguments, SequenceTheorems, WellFoundedInduction, TLAPS

----------------------------------------------------------------------------
(* Induction and recursion on 0 .. n.                                      *)

\* A set of numbers that is not empty has a least one.
LEMMA LeastNumber ==
  ASSUME NEW T, T \subseteq Nat, T # {}
  PROVE  \E n \in T : \A m \in T : n <= m
<1> DEFINE R == OpToRel(<, Nat)
<1>1. IsWellFoundedOn(R, Nat)
  BY NatLessThanWellFounded, Zenon
<1>2. \A n, m \in Nat : n < m => <<n, m>> \in R
  BY DEF OpToRel
<1> HIDE DEF R
<1>3. PICK n \in T : \A m \in T : ~ (<<m, n>> \in R)
  BY <1>1, WFMin
<1>4. ASSUME NEW m \in T PROVE n <= m
  <2>1. n \in Nat /\ m \in Nat
    OBVIOUS
  <2>2. ~ (m < n)
    BY <1>2, <1>3, <2>1
  <2> QED
    BY <2>1, <2>2
<1> QED
  BY <1>4

\* So what holds of 0 and goes from a number to the next holds of all up to n.
LEMMA Induction ==
  ASSUME NEW n \in Nat, NEW S, 0 \in S, \A k \in 1 .. n : k - 1 \in S => k \in S
  PROVE  \A k \in 0 .. n : k \in S
<1> SUFFICES ASSUME NEW l \in 0 .. n, l \notin S PROVE FALSE
  OBVIOUS
<1> DEFINE T == {k \in 0 .. n : k \notin S}
<1>1. PICK m \in T : \A k \in T : m <= k
  <2>1. T \subseteq Nat /\ T # {}
    OBVIOUS
  <2> HIDE DEF T
  <2> QED
    BY <2>1, LeastNumber
<1>2. m \in 0 .. n /\ m \notin S /\ m # 0
  OBVIOUS
<1>3. m \in 1 .. n /\ m - 1 \in 0 .. n
  BY <1>2
<1>4. m - 1 \in S
  <2>1. m - 1 \notin T
    BY <1>1, <1>2
  <2> QED
    BY <1>3, <2>1
<1> QED
  BY <1>2, <1>3, <1>4

\* A function on 0 .. n may be given by its first value and its steps.
Recursive(f, n, V, start, step) ==
  /\ f \in [0 .. n -> V] /\ f[0] = start
  /\ \A k \in 1 .. n : f[k] = step[<<k, f[k - 1]>>]

LEMMA Recursion ==
  ASSUME NEW n \in Nat, NEW V, NEW start \in V, NEW step \in [(1 .. n) \X V -> V]
  PROVE  \E f : Recursive(f, n, V, start, step)
<1> DEFINE Steps(f, m) == Recursive(f, m, V, start, step)
           S == {m \in 0 .. n : \E f : Steps(f, m)}
<1>0. \A f, m : Steps(f, m) <=>
        /\ f \in [0 .. m -> V] /\ f[0] = start
        /\ \A k \in 1 .. m : f[k] = step[<<k, f[k - 1]>>]
  BY DEF Recursive
<1> HIDE DEF Steps
<1>1. 0 \in S
  <2>1. PICK f : f = [k \in 0 .. 0 |-> start]
    OBVIOUS
  <2>2. f \in [0 .. 0 -> V] /\ f[0] = start /\ \A k \in 1 .. 0 : f[k] = step[<<k, f[k - 1]>>]
    BY <2>1
  <2>3. Steps(f, 0)
    BY <1>0, <2>2, Zenon
  <2>4. 0 \in 0 .. n
    OBVIOUS
  <2> QED
    BY <2>3, <2>4
<1>2. ASSUME NEW m \in 0 .. n - 1, m \in S PROVE m + 1 \in S
  <2>1. PICK f : /\ f \in [0 .. m -> V] /\ f[0] = start
                 /\ \A k \in 1 .. m : f[k] = step[<<k, f[k - 1]>>]
    BY <1>0, <1>2
  <2> DEFINE g == [k \in 0 .. m + 1 |-> IF k <= m THEN f[k] ELSE step[<<m + 1, f[m]>>]]
  <2>2. step[<<m + 1, f[m]>>] \in V
    <3>1. m + 1 \in 1 .. n /\ f[m] \in V
      BY <2>1
    <3> QED
      BY <3>1
  <2>3. g \in [0 .. m + 1 -> V]
    <3>1. ASSUME NEW k \in 0 .. m + 1, k <= m PROVE f[k] \in V
      BY <2>1, <3>1
    <3> QED
      BY <2>2, <3>1
  <2>4. g[0] = start
    BY <2>1
  <2>5. ASSUME NEW k \in 1 .. m + 1 PROVE g[k] = step[<<k, g[k - 1]>>]
    <3>1. g[k - 1] = f[k - 1]
      OBVIOUS
    <3>2. CASE k <= m
      <4>1. g[k] = f[k] /\ k \in 1 .. m
        BY <3>2
      <4>2. f[k] = step[<<k, f[k - 1]>>]
        BY <2>1, <4>1
      <4> HIDE DEF g
      <4> QED
        BY <3>1, <4>1, <4>2
    <3>3. CASE ~ (k <= m)
      <4>1. k = m + 1 /\ k - 1 = m
        BY <3>3
      <4>2. g[m + 1] = step[<<m + 1, f[m]>>]
        OBVIOUS
      <4> HIDE DEF g
      <4> QED
        BY <3>1, <4>1, <4>2
    <3> QED
      BY <3>2, <3>3
  <2> HIDE DEF g
  <2>6. Steps(g, m + 1)
    BY <1>0, <2>3, <2>4, <2>5
  <2>7. m + 1 \in 0 .. n
    OBVIOUS
  <2> QED
    BY <2>6, <2>7
<1> HIDE DEF S
<1>3. ASSUME NEW k \in 1 .. n, k - 1 \in S PROVE k \in S
  <2>1. k - 1 \in 0 .. n - 1 /\ (k - 1) + 1 = k
    OBVIOUS
  <2> QED
    BY <1>2, <1>3, <2>1
<1>4. n \in S
  BY <1>1, <1>3, Induction
<1> QED
  BY <1>4 DEF S, Steps

\* Every function that begins and goes on like that is one of them.
LEMMA Solution ==
  ASSUME NEW n \in Nat, NEW V, NEW start \in V, NEW step \in [(1 .. n) \X V -> V],
         NEW x, x = [k \in 0 .. n |-> x[k]], x[0] = start,
         \A k \in 1 .. n : x[k - 1] \in V => x[k] = step[<<k, x[k - 1]>>]
  PROVE  Recursive(x, n, V, start, step)
<1> DEFINE S == {k \in 0 .. n : x[k] \in V}
<1>1. 0 \in S
  OBVIOUS
<1>2. ASSUME NEW k \in 1 .. n, k - 1 \in S PROVE k \in S
  <2>1. x[k - 1] \in V
    BY <1>2
  <2>2. x[k] = step[<<k, x[k - 1]>>]
    BY <2>1
  <2>3. step[<<k, x[k - 1]>>] \in V
    BY <2>1
  <2>4. k \in 0 .. n
    OBVIOUS
  <2> QED
    BY <2>2, <2>3, <2>4
<1> HIDE DEF S
<1>3. \A k \in 0 .. n : k \in S
  BY <1>1, <1>2, Induction
<1>4. \A k \in 0 .. n : x[k] \in V
  BY <1>3 DEF S
<1>5. x \in [0 .. n -> V]
  BY <1>4
<1>6. ASSUME NEW k \in 1 .. n PROVE x[k] = step[<<k, x[k - 1]>>]
  <2>1. k - 1 \in 0 .. n
    OBVIOUS
  <2> QED
    BY <1>4, <2>1
<1> QED
  BY <1>5, <1>6 DEF Recursive

----------------------------------------------------------------------------
(* The loops over the digits.                                              *)

\* The loop over the digits of a port, ...
LEMMA IntSteps ==
  ASSUME NEW digits \in Seq(0 .. 9)
  PROVE  \E x \in [0 .. Len(digits) -> Nat] :
           /\ x[0] = 0
           /\ \A k \in 1 .. Len(digits) : x[k] = x[k - 1] * 10 + digits[k]
           /\ ReadInt(digits) = x[Len(digits)]
<1> DEFINE n == Len(digits)
           Eq(x) == x = [j \in 0 .. n |-> IF j = 0 THEN 0 ELSE x[j - 1] * 10 + digits[j]]
           step == [p \in (1 .. n) \X Nat |-> p[2] * 10 + digits[p[1]]]
<1>1. n \in Nat /\ \A k \in 1 .. n : digits[k] \in 0 .. 9
  BY LenProperties, ElementOfSeq
<1>2. ReadInt(digits) = (CHOOSE x : Eq(x))[n]
  BY DEF ReadInt
<1> HIDE DEF n
<1>3. ASSUME NEW k \in 1 .. n, NEW v \in Nat PROVE v * 10 + digits[k] \in Nat
  <2>1. PICK d \in 0 .. 9 : d = digits[k]
    BY <1>1
  <2> QED
    BY <2>1
<1>4. /\ step \in [(1 .. n) \X Nat -> Nat]
      /\ \A k \in 1 .. n, v \in Nat : step[<<k, v>>] = v * 10 + digits[k]
  BY <1>3
<1> HIDE DEF step
<1>5. PICK f : Recursive(f, n, Nat, 0, step)
  BY <1>1, <1>4, Recursion
<1>6. Eq(f)
  <2>1. f \in [0 .. n -> Nat] /\ f[0] = 0 /\ \A k \in 1 .. n : f[k] = step[<<k, f[k - 1]>>]
    BY <1>5 DEF Recursive
  <2>2. ASSUME NEW k \in 1 .. n PROVE f[k] = f[k - 1] * 10 + digits[k]
    <3>1. f[k - 1] \in Nat
      BY <1>1, <2>1
    <3> QED
      BY <1>4, <2>1, <3>1
  <2>3. \A k \in 0 .. n : f[k] = IF k = 0 THEN 0 ELSE f[k - 1] * 10 + digits[k]
    BY <1>1, <2>1, <2>2
  <2> QED
    BY <2>1, <2>3
<1>7. PICK x : Eq(x) /\ ReadInt(digits) = x[n]
  <2> HIDE DEF Eq
  <2> QED
    BY <1>2, <1>6
<1>8. x[0] = 0 /\ \A k \in 1 .. n : x[k] = x[k - 1] * 10 + digits[k]
  BY <1>1, <1>7
<1>9. Recursive(x, n, Nat, 0, step)
  <2>1. x = [k \in 0 .. n |-> x[k]]
    BY <1>7
  <2>2. \A k \in 1 .. n : x[k - 1] \in Nat => x[k] = step[<<k, x[k - 1]>>]
    BY <1>4, <1>8
  <2> QED
    BY <1>1, <1>4, <1>8, <2>1, <2>2, Solution
<1> QED
  BY <1>7, <1>8, <1>9 DEF n, Recursive

Byte == 0 .. 255

LEMMA ByteFacts ==
  /\ 0 \in Byte
  /\ \A z \in Nat : InByte(z) = z % 256 /\ InByte(z) \in Byte
<1>1. 2^8 = 256
  OBVIOUS
<1> QED
  BY <1>1 DEF InByte, Byte

\* ... and that of --n.
LEMMA ByteSteps ==
  ASSUME NEW digits \in Seq(0 .. 9)
  PROVE  \E x \in [0 .. Len(digits) -> Byte] :
           /\ x[0] = 0
           /\ \A k \in 1 .. Len(digits) : x[k] = InByte(InByte(x[k - 1] * 10) + digits[k])
           /\ ReadByte(digits) = x[Len(digits)]
<1> DEFINE n == Len(digits)
           Eq(x) == x = [j \in 0 .. n |-> IF j = 0 THEN 0 ELSE InByte(InByte(x[j - 1] * 10) + digits[j])]
           step == [p \in (1 .. n) \X Byte |-> InByte(InByte(p[2] * 10) + digits[p[1]])]
<1>1. n \in Nat /\ \A k \in 1 .. n : digits[k] \in 0 .. 9
  BY LenProperties, ElementOfSeq
<1>2. ReadByte(digits) = (CHOOSE x : Eq(x))[n]
  BY DEF ReadByte
<1> HIDE DEF n
<1>3. ASSUME NEW k \in 1 .. n, NEW v \in Byte PROVE InByte(InByte(v * 10) + digits[k]) \in Byte
  <2>1. PICK d \in 0 .. 9 : d = digits[k]
    BY <1>1
  <2>2. \A z \in Nat : InByte(z) \in Byte
    BY ByteFacts
  <2>3. v * 10 \in Nat
    BY DEF Byte
  <2>4. PICK b \in Byte : b = InByte(v * 10)
    BY <2>2, <2>3
  <2>5. b + d \in Nat
    BY DEF Byte
  <2> QED
    BY <2>1, <2>2, <2>4, <2>5
<1>4. /\ step \in [(1 .. n) \X Byte -> Byte]
      /\ \A k \in 1 .. n, v \in Byte : step[<<k, v>>] = InByte(InByte(v * 10) + digits[k])
  BY <1>3
<1> HIDE DEF step
<1>5. PICK f : Recursive(f, n, Byte, 0, step)
  BY <1>1, <1>4, ByteFacts, Recursion
<1>6. Eq(f)
  <2>1. f \in [0 .. n -> Byte] /\ f[0] = 0 /\ \A k \in 1 .. n : f[k] = step[<<k, f[k - 1]>>]
    BY <1>5 DEF Recursive
  <2>2. ASSUME NEW k \in 1 .. n PROVE f[k] = InByte(InByte(f[k - 1] * 10) + digits[k])
    <3>1. f[k - 1] \in Byte
      BY <1>1, <2>1
    <3> QED
      BY <1>4, <2>1, <3>1
  <2>3. \A k \in 0 .. n : f[k] = IF k = 0 THEN 0 ELSE InByte(InByte(f[k - 1] * 10) + digits[k])
    BY <1>1, <2>1, <2>2
  <2> QED
    BY <2>1, <2>3
<1>7. PICK x : Eq(x) /\ ReadByte(digits) = x[n]
  <2> HIDE DEF Eq
  <2> QED
    BY <1>2, <1>6
<1>8. x[0] = 0 /\ \A k \in 1 .. n : x[k] = InByte(InByte(x[k - 1] * 10) + digits[k])
  BY <1>1, <1>7
<1>9. Recursive(x, n, Byte, 0, step)
  <2>1. x = [k \in 0 .. n |-> x[k]]
    BY <1>7
  <2>2. \A k \in 1 .. n : x[k - 1] \in Byte => x[k] = step[<<k, x[k - 1]>>]
    BY <1>4, <1>8
  <2> QED
    BY <1>1, <1>4, <1>8, <2>1, <2>2, ByteFacts, Solution
<1> QED
  BY <1>7, <1>8, <1>9 DEF n, Recursive

\* The weights of the digits, from the right, and the sums of what they stand for.
Weights(n) == LET w[k \in 0 .. n] == IF k = 0 THEN 1 ELSE 10 * w[k - 1] IN w

Sums(digits, n, w) ==
  LET v[k \in 0 .. n] == IF k = 0 THEN 0 ELSE v[k - 1] + digits[n + 1 - k] * w[k - 1] IN v

LEMMA WeightSteps ==
  ASSUME NEW n \in Nat
  PROVE  \E x \in [0 .. n -> Nat] :
           /\ x[0] = 1
           /\ \A k \in 1 .. n : x[k] = 10 * x[k - 1]
           /\ Weights(n) = x
<1> DEFINE Eq(x) == x = [j \in 0 .. n |-> IF j = 0 THEN 1 ELSE 10 * x[j - 1]]
           step == [p \in (1 .. n) \X Nat |-> 10 * p[2]]
<1>2. Weights(n) = CHOOSE x : Eq(x)
  BY DEF Weights
<1>3. ASSUME NEW k \in 1 .. n, NEW v \in Nat PROVE 10 * v \in Nat
  OBVIOUS
<1>4. /\ step \in [(1 .. n) \X Nat -> Nat]
      /\ \A k \in 1 .. n, v \in Nat : step[<<k, v>>] = 10 * v
  BY <1>3
<1> HIDE DEF step
<1>5. PICK f : Recursive(f, n, Nat, 1, step)
  BY <1>4, Recursion
<1>6. Eq(f)
  <2>1. f \in [0 .. n -> Nat] /\ f[0] = 1 /\ \A k \in 1 .. n : f[k] = step[<<k, f[k - 1]>>]
    BY <1>5 DEF Recursive
  <2>2. ASSUME NEW k \in 1 .. n PROVE f[k] = 10 * f[k - 1]
    <3>1. f[k - 1] \in Nat
      BY <2>1
    <3> QED
      BY <1>4, <2>1, <3>1
  <2>3. \A k \in 0 .. n : f[k] = IF k = 0 THEN 1 ELSE 10 * f[k - 1]
    BY <2>1, <2>2
  <2> QED
    BY <2>1, <2>3
<1>7. PICK x : Eq(x) /\ Weights(n) = x
  <2> HIDE DEF Eq
  <2> QED
    BY <1>2, <1>6
<1>8. x[0] = 1 /\ \A k \in 1 .. n : x[k] = 10 * x[k - 1]
  BY <1>7
<1>9. Recursive(x, n, Nat, 1, step)
  <2>1. x = [k \in 0 .. n |-> x[k]]
    BY <1>7
  <2>2. \A k \in 1 .. n : x[k - 1] \in Nat => x[k] = step[<<k, x[k - 1]>>]
    BY <1>4, <1>8
  <2> QED
    BY <1>4, <1>8, <2>1, <2>2, Solution
<1> QED
  BY <1>7, <1>8, <1>9 DEF Recursive

LEMMA SumSteps ==
  ASSUME NEW n \in Nat, NEW digits, \A k \in 1 .. n : digits[k] \in 0 .. 9,
         NEW w \in [0 .. n -> Nat]
  PROVE  \E x \in [0 .. n -> Nat] :
           /\ x[0] = 0
           /\ \A k \in 1 .. n : x[k] = x[k - 1] + digits[n + 1 - k] * w[k - 1]
           /\ Sums(digits, n, w) = x
<1> DEFINE Eq(x) == x = [j \in 0 .. n |-> IF j = 0 THEN 0 ELSE x[j - 1] + digits[n + 1 - j] * w[j - 1]]
           step == [p \in (1 .. n) \X Nat |-> p[2] + digits[n + 1 - p[1]] * w[p[1] - 1]]
<1>2. Sums(digits, n, w) = CHOOSE x : Eq(x)
  BY DEF Sums
<1>3. ASSUME NEW k \in 1 .. n, NEW v \in Nat PROVE v + digits[n + 1 - k] * w[k - 1] \in Nat
  <2>1. PICK d \in 0 .. 9 : d = digits[n + 1 - k]
    <3>1. PICK m \in 1 .. n : m = n + 1 - k
      OBVIOUS
    <3>2. digits[m] \in 0 .. 9
      OBVIOUS
    <3> QED
      BY <3>1, <3>2
  <2>2. PICK u \in Nat : u = w[k - 1]
    OBVIOUS
  <2>3. v + d * u \in Nat
    OBVIOUS
  <2> QED
    BY <2>1, <2>2, <2>3
<1>4. /\ step \in [(1 .. n) \X Nat -> Nat]
      /\ \A k \in 1 .. n, v \in Nat : step[<<k, v>>] = v + digits[n + 1 - k] * w[k - 1]
  BY <1>3
<1> HIDE DEF step
<1>5. PICK f : Recursive(f, n, Nat, 0, step)
  BY <1>4, Recursion
<1>6. Eq(f)
  <2>1. f \in [0 .. n -> Nat] /\ f[0] = 0 /\ \A k \in 1 .. n : f[k] = step[<<k, f[k - 1]>>]
    BY <1>5 DEF Recursive
  <2>2. ASSUME NEW k \in 1 .. n PROVE f[k] = f[k - 1] + digits[n + 1 - k] * w[k - 1]
    <3>1. k - 1 \in 0 .. n
      OBVIOUS
    <3>2. f[k - 1] \in Nat
      BY <2>1, <3>1
    <3> QED
      BY <1>4, <2>1, <3>2
  <2>3. \A k \in 0 .. n : f[k] = IF k = 0 THEN 0 ELSE f[k - 1] + digits[n + 1 - k] * w[k - 1]
    BY <2>1, <2>2
  <2> QED
    BY <2>1, <2>3
<1>7. PICK x : Eq(x) /\ Sums(digits, n, w) = x
  <2> HIDE DEF Eq
  <2> QED
    BY <1>2, <1>6
<1>8. x[0] = 0 /\ \A k \in 1 .. n : x[k] = x[k - 1] + digits[n + 1 - k] * w[k - 1]
  BY <1>7
<1>9. Recursive(x, n, Nat, 0, step)
  <2>1. x = [k \in 0 .. n |-> x[k]]
    BY <1>7
  <2>2. \A k \in 1 .. n : x[k - 1] \in Nat => x[k] = step[<<k, x[k - 1]>>]
    BY <1>4, <1>8
  <2> QED
    BY <1>4, <1>8, <2>1, <2>2, Solution
<1> QED
  BY <1>7, <1>8, <1>9 DEF Recursive

LEMMA ValueIsSum ==
  ASSUME NEW digits
  PROVE  Value(digits) = Sums(digits, Len(digits), Weights(Len(digits)))[Len(digits)]
BY DEF Value, Sums, Weights

\* The window loop is the other one in a byte.
LEMMA ByteIsInt ==
  ASSUME NEW digits \in Seq(0 .. 9)
  PROVE  ReadByte(digits) = ReadInt(digits) % 256
<1>1. PICK n \in Nat : n = Len(digits) /\ \A k \in 1 .. n : digits[k] \in 0 .. 9
  BY LenProperties, ElementOfSeq
<1>2. PICK x \in [0 .. n -> Nat] :
        /\ x[0] = 0 /\ \A k \in 1 .. n : x[k] = x[k - 1] * 10 + digits[k]
        /\ ReadInt(digits) = x[n]
  BY <1>1, IntSteps
<1>3. PICK b \in [0 .. n -> Byte] :
        /\ b[0] = 0 /\ \A k \in 1 .. n : b[k] = InByte(InByte(b[k - 1] * 10) + digits[k])
        /\ ReadByte(digits) = b[n]
  BY <1>1, ByteSteps
<1> DEFINE S == {k \in 0 .. n : b[k] = x[k] % 256}
<1>4. 0 \in S
  BY <1>2, <1>3
<1>5. ASSUME NEW k \in 1 .. n, k - 1 \in S PROVE k \in S
  <2>1. PICK y \in Nat : y = x[k - 1]
    BY <1>2
  <2>2. PICK d \in 0 .. 9 : d = digits[k]
    BY <1>1
  <2>3. b[k - 1] = y % 256
    BY <1>5, <2>1
  <2>4. x[k] = y * 10 + d
    BY <1>2, <2>1, <2>2
  <2>5. b[k] = InByte(InByte((y % 256) * 10) + d)
    BY <1>3, <2>2, <2>3
  <2>6. b[k] = ((((y % 256) * 10) % 256) + d) % 256
    <3>1. PICK z \in Nat : z = (y % 256) * 10
      OBVIOUS
    <3>2. InByte(z) = z % 256
      BY ByteFacts
    <3>3. PICK u \in Nat : u = (z % 256) + d
      OBVIOUS
    <3>4. InByte(u) = u % 256
      BY ByteFacts
    <3> QED
      BY <2>5, <3>1, <3>2, <3>3, <3>4
  <2>7. ((((y % 256) * 10) % 256) + d) % 256 = (y * 10 + d) % 256
    OBVIOUS
  <2>8. k \in 0 .. n
    OBVIOUS
  <2> QED
    BY <2>4, <2>6, <2>7, <2>8
<1> HIDE DEF S
<1>6. n \in S
  <2>1. \A k \in 0 .. n : k \in S
    BY <1>4, <1>5, Induction
  <2> QED
    BY <2>1
<1> QED
  BY <1>2, <1>3, <1>6 DEF S

\* It has the digits' value: what it has read, with the weight that it gets
\* from the digits to come, and the value of these make up the number.
LEMMA IntIsValue ==
  ASSUME NEW digits \in Seq(0 .. 9)
  PROVE  ReadInt(digits) = Value(digits)
<1>1. PICK n \in Nat : n = Len(digits) /\ \A k \in 1 .. n : digits[k] \in 0 .. 9
  BY LenProperties, ElementOfSeq
<1>2. PICK x \in [0 .. n -> Nat] :
        /\ x[0] = 0 /\ \A k \in 1 .. n : x[k] = x[k - 1] * 10 + digits[k]
        /\ ReadInt(digits) = x[n]
  BY <1>1, IntSteps
<1>3. PICK w \in [0 .. n -> Nat] :
        /\ w[0] = 1 /\ \A k \in 1 .. n : w[k] = 10 * w[k - 1]
        /\ Weights(n) = w
  BY WeightSteps
<1>4. PICK v \in [0 .. n -> Nat] :
        /\ v[0] = 0 /\ \A k \in 1 .. n : v[k] = v[k - 1] + digits[n + 1 - k] * w[k - 1]
        /\ Sums(digits, n, w) = v
  <2>1. \A k \in 1 .. n : digits[k] \in 0 .. 9
    BY <1>1
  <2> QED
    BY <2>1, SumSteps
<1>5. Value(digits) = v[n]
  BY <1>1, <1>3, <1>4, ValueIsSum
<1> DEFINE S == {k \in 0 .. n : x[n] = x[n - k] * w[k] + v[k]}
<1>6. 0 \in S
  <2>1. x[n] \in Nat /\ n - 0 = n /\ x[n] * 1 + 0 = x[n]
    BY <1>2
  <2> QED
    BY <1>3, <1>4, <2>1
<1>7. ASSUME NEW k \in 1 .. n, k - 1 \in S PROVE k \in S
  <2>1. PICK m \in 1 .. n : m = n + 1 - k
    OBVIOUS
  <2>2. n - (k - 1) = m /\ n - k = m - 1
    BY <2>1
  <2>3. PICK y \in Nat : y = x[m - 1]
    BY <1>2
  <2>4. PICK u \in Nat : u = w[k - 1]
    BY <1>3
  <2>5. PICK s \in Nat : s = v[k - 1]
    BY <1>4
  <2>6. PICK d \in 0 .. 9 : d = digits[m]
    BY <1>1
  <2>7. x[n] = x[m] * w[k - 1] + v[k - 1]
    BY <1>7, <2>2
  <2>8. x[n] = (y * 10 + d) * u + s
    BY <1>2, <2>3, <2>4, <2>5, <2>6, <2>7
  <2>9. w[k] = 10 * u /\ v[k] = s + d * u
    BY <1>3, <1>4, <2>1, <2>4, <2>5, <2>6
  <2>10. (y * 10 + d) * u + s = y * (10 * u) + (s + d * u)
    OBVIOUS
  <2>11. x[n] = x[n - k] * w[k] + v[k]
    BY <2>2, <2>3, <2>8, <2>9, <2>10
  <2>12. k \in 0 .. n
    OBVIOUS
  <2> QED
    BY <2>11, <2>12
<1> HIDE DEF S
<1>8. n \in S
  <2>1. \A k \in 0 .. n : k \in S
    BY <1>6, <1>7, Induction
  <2> QED
    BY <2>1
<1>9. x[n] = x[0] * w[n] + v[n]
  <2>1. n - n = 0
    OBVIOUS
  <2> QED
    BY <1>8, <2>1 DEF S
<1>10. v[n] \in Nat /\ w[n] \in Nat
  BY <1>3, <1>4
<1> QED
  BY <1>2, <1>5, <1>9, <1>10

----------------------------------------------------------------------------
(* What was given.                                                         *)

\* Argument j is the last one that gave a file name.
LastName(j) ==
  /\ j \in DOMAIN argv /\ argv[j].is = "filename"
  /\ \A i \in j + 1 .. Len(argv) : argv[i].is # "filename"

NamesGiven ==
  \A j, k \in DOMAIN argv : argv[k].is = "send" /\ NameBefore(j, k) => argv[j].text # Empty

\* An option that has a value was given; the file name is the last one given;
\* every send that was read, but for one that ended the program, found that it
\* was not empty.
GivenInv ==
  /\ argv \in Seq(ArgumentSet)
  /\ DOMAIN options = Options
  /\ options["ip"] # Empty => IsGiven("ip")
  /\ options["dest_ip"] # Empty => IsGiven("dest_ip")
  /\ options["port"] # NoPort => IsGiven("port")
  /\ options["dest_port"] # NoPort => IsGiven("dest_port")
  /\ \A j : LastName(j) => options["filename"] = argv[j].text
  /\ outcome # "ERROR_NO_FILE" => NamesGiven
  /\ outcome \in {"parsing", "ERROR_NO_FILE", Checked}

LEMMA Appended ==
  ASSUME NEW arg, More(arg), argv \in Seq(ArgumentSet)
  PROVE  /\ argv' \in Seq(ArgumentSet)
         /\ Len(argv) \in Nat /\ Len(argv') = Len(argv) + 1
         /\ DOMAIN argv = 1 .. Len(argv) /\ DOMAIN argv' = 1 .. Len(argv')
         /\ \A k \in DOMAIN argv : k \in DOMAIN argv' /\ argv'[k] = argv[k]
         /\ argv'[Len(argv')] = arg
BY DEF More

\* What was given stays given, and the new argument is.
LEMMA StillGiven ==
  ASSUME NEW arg, More(arg), argv \in Seq(ArgumentSet)
  PROVE  /\ \A kind : IsGiven(kind) => IsGiven(kind)'
         /\ IsGiven(arg.is)'
<1>1. \A kind : IsGiven(kind) => IsGiven(kind)'
  BY Appended DEF IsGiven
<1>2. Len(argv') \in DOMAIN argv' /\ argv'[Len(argv')].is = arg.is
  BY Appended
<1> QED
  BY <1>1, <1>2 DEF IsGiven

\* The last file name is the new argument or stays what it was.
LEMMA LastNameAfter ==
  ASSUME NEW arg, More(arg), argv \in Seq(ArgumentSet), NEW j, LastName(j)'
  PROVE  /\ arg.is = "filename" => j = Len(argv') /\ argv'[j] = arg
         /\ arg.is # "filename" => LastName(j) /\ argv'[j] = argv[j]
<1>1. /\ j \in DOMAIN argv' /\ argv'[j].is = "filename"
      /\ \A i \in j + 1 .. Len(argv') : argv'[i].is # "filename"
  BY DEF LastName
<1>2. /\ Len(argv) \in Nat /\ Len(argv') = Len(argv) + 1
      /\ DOMAIN argv = 1 .. Len(argv) /\ DOMAIN argv' = 1 .. Len(argv')
      /\ \A k \in DOMAIN argv : k \in DOMAIN argv' /\ argv'[k] = argv[k]
      /\ argv'[Len(argv')] = arg
  BY Appended
<1>3. CASE arg.is = "filename"
  <2>1. j # Len(argv') => Len(argv') \in j + 1 .. Len(argv')
    BY <1>1, <1>2
  <2> QED
    BY <1>1, <1>2, <1>3, <2>1
<1>4. CASE arg.is # "filename"
  <2>1. j \in DOMAIN argv /\ argv'[j] = argv[j]
    BY <1>1, <1>2, <1>4
  <2>2. \A i \in j + 1 .. Len(argv) : i \in DOMAIN argv /\ i \in j + 1 .. Len(argv')
    BY <1>2, <2>1
  <2> QED
    BY <1>1, <1>2, <2>1, <2>2 DEF LastName
<1> QED
  BY <1>3, <1>4

\* A new argument says nothing of the sends before it, and of itself only if
\* it is one.
LEMMA NamesAfter ==
  ASSUME NEW arg, More(arg), argv \in Seq(ArgumentSet), NamesGiven,
         arg.is = "send" => \A j : LastName(j) => argv[j].text # Empty
  PROVE  NamesGiven'
<1> SUFFICES ASSUME NEW j \in DOMAIN argv', NEW k \in DOMAIN argv',
                    argv'[k].is = "send", NameBefore(j, k)'
             PROVE  argv'[j].text # Empty
  BY DEF NamesGiven
<1>1. /\ j < k /\ argv'[j].is = "filename"
      /\ \A i \in j + 1 .. k - 1 : argv'[i].is # "filename"
  BY DEF NameBefore
<1>2. /\ Len(argv) \in Nat /\ Len(argv') = Len(argv) + 1
      /\ DOMAIN argv = 1 .. Len(argv) /\ DOMAIN argv' = 1 .. Len(argv')
      /\ \A i \in DOMAIN argv : i \in DOMAIN argv' /\ argv'[i] = argv[i]
      /\ argv'[Len(argv')] = arg
  BY Appended
<1>3. j \in DOMAIN argv /\ argv'[j] = argv[j]
  BY <1>1, <1>2
<1>4. \A i \in j + 1 .. k - 1 : i \in DOMAIN argv /\ argv[i].is # "filename"
  BY <1>1, <1>2, <1>3
<1>5. CASE k = Len(argv')
  <2>1. arg.is = "send"
    BY <1>2, <1>5
  <2>2. k - 1 = Len(argv)
    BY <1>2, <1>5
  <2>3. LastName(j)
    BY <1>1, <1>3, <1>4, <2>2 DEF LastName
  <2> QED
    BY <1>3, <2>1, <2>3
<1>6. CASE k # Len(argv')
  <2>1. k \in DOMAIN argv /\ argv[k].is = "send"
    BY <1>2, <1>6
  <2> QED
    BY <1>1, <1>3, <1>4, <2>1 DEF NamesGiven, NameBefore
<1> QED
  BY <1>5, <1>6

----------------------------------------------------------------------------
LEMMA ReadKeeps ==
  ASSUME GivenInv, NEW arg \in ArgumentSet, More(arg),
         ReadText(arg) \/ ReadPort(arg) \/ ReadWindow(arg) \/ ReadCommand(arg) \/ ReadUnknown(arg)
  PROVE  GivenInv'
<1>1. /\ argv \in Seq(ArgumentSet) /\ argv' \in Seq(ArgumentSet) /\ outcome = "parsing"
      /\ NamesGiven /\ \A j : LastName(j) => options["filename"] = argv[j].text
  BY Appended DEF GivenInv, More
<1>2. CASE ReadText(arg) \/ ReadPort(arg) \/ ReadWindow(arg)
  <2>1. PICK value : options' = [options EXCEPT ![arg.is] = value]
                     /\ (arg.is = "filename" => value = arg.text)
    BY <1>2 DEF ReadText, ReadPort, ReadWindow
  <2>2. /\ operation' = operation /\ outcome' = "parsing"
        /\ arg.is \in Options /\ arg.is # "send"
    BY <1>1, <1>2 DEF ReadText, ReadPort, ReadWindow, Options, TextOptions, NumberOptions
  <2>3. DOMAIN options = Options
    BY DEF GivenInv
  <2>4. DOMAIN options' = Options
    BY <2>1, <2>3
  <2>5. \A o \in Options : o # arg.is => options'[o] = options[o]
    BY <2>1, <2>3
  <2>6. {"ip", "dest_ip", "port", "dest_port", "filename"} \subseteq Options
    BY DEF Options, TextOptions, NumberOptions
  <2>7. ASSUME NEW o \in Options, NEW none, options[o] # none => IsGiven(o)
        PROVE  options'[o] # none => IsGiven(o)'
    BY <1>1, <2>5, <2>7, StillGiven
  <2>8. NamesGiven'
    BY <1>1, <2>2, NamesAfter
  <2>9. ASSUME NEW j, LastName(j)' PROVE options'["filename"] = argv'[j].text
    <3>1. CASE arg.is = "filename"
      BY <1>1, <2>1, <2>3, <2>6, <2>9, <3>1, LastNameAfter
    <3>2. CASE arg.is # "filename"
      BY <1>1, <2>5, <2>6, <2>9, <3>2, LastNameAfter
    <3> QED
      BY <3>1, <3>2
  <2> QED
    BY <1>1, <2>2, <2>4, <2>6, <2>7, <2>8, <2>9 DEF GivenInv
<1>3. CASE ReadCommand(arg)
  <2>1. options' = options /\ arg.is # "filename"
    BY <1>3 DEF ReadCommand, Commands
  <2>2. outcome' \in {"parsing", "ERROR_NO_FILE"}
    BY <1>1, <1>3 DEF ReadCommand
  <2>3. outcome' # "ERROR_NO_FILE" => (arg.is = "send" => options["filename"] # Empty)
    BY <1>1, <1>3 DEF ReadCommand
  <2>4. outcome' # "ERROR_NO_FILE" => NamesGiven'
    BY <1>1, <2>3, NamesAfter
  <2>5. ASSUME NEW j, LastName(j)' PROVE options'["filename"] = argv'[j].text
    BY <1>1, <2>1, <2>5, LastNameAfter
  <2> QED
    BY <1>1, <2>1, <2>2, <2>4, <2>5, StillGiven DEF GivenInv
<1>4. CASE ReadUnknown(arg)
  <2>1. /\ options' = options /\ operation' = operation /\ outcome' = "parsing"
        /\ arg.is # "send" /\ arg.is # "filename"
    BY <1>1, <1>4 DEF ReadUnknown
  <2>2. NamesGiven'
    BY <1>1, <2>1, NamesAfter
  <2>3. ASSUME NEW j, LastName(j)' PROVE options'["filename"] = argv'[j].text
    BY <1>1, <2>1, <2>3, LastNameAfter
  <2> QED
    BY <1>1, <2>1, <2>2, <2>3, StillGiven DEF GivenInv
<1> QED
  BY <1>2, <1>3, <1>4

LEMMA FinishKeeps ==
  ASSUME GivenInv, Finish
  PROVE  GivenInv'
<1>1. argv' = argv /\ options' = options /\ operation' = operation /\ outcome = "parsing"
  BY DEF Finish
<1>2. Checked' = Checked
  BY <1>1 DEF Checked
<1>3. outcome' = Checked
  BY DEF Finish
<1> QED
  BY <1>1, <1>2, <1>3 DEF GivenInv, IsGiven, LastName, NamesGiven, NameBefore

\* A listener that runs was given an address to bind, a sender one to send to
\* and no empty name in front of a send, for every command line (tools.c
\* 81-104): the checks of parse_args, some at a command and some at the end,
\* miss nothing that they look for.
THEOREM RunsAreComplete == Spec => []RunsComplete
<1>1. Init => GivenInv
  <2> SUFFICES ASSUME Init PROVE GivenInv
    OBVIOUS
  <2>1. PICK name :
          options = [[o \in Options |-> IF o \in TextOptions THEN Empty ELSE NoPort]
                       EXCEPT !["filename"] = name, !["n"] = 1]
    BY DEF Init
  <2>2. /\ DOMAIN options = Options
        /\ options["ip"] = Empty /\ options["dest_ip"] = Empty
        /\ options["port"] = NoPort /\ options["dest_port"] = NoPort
    BY <2>1 DEF Options, TextOptions, NumberOptions
  <2>3. argv = <<>> /\ DOMAIN argv = {} /\ outcome = "parsing"
    BY DEF Init
  <2> QED
    BY <2>2, <2>3 DEF GivenInv, LastName, NamesGiven
<1>2. GivenInv /\ [Next]_vars => GivenInv'
  <2> SUFFICES ASSUME GivenInv, [Next]_vars PROVE GivenInv'
    OBVIOUS
  <2>1. CASE UNCHANGED vars
    BY <2>1 DEF vars, GivenInv, IsGiven, LastName, NamesGiven, NameBefore, Checked
  <2>2. CASE Read
    BY <2>2, ReadKeeps DEF Read
  <2>3. CASE Finish
    BY <2>3, FinishKeeps
  <2> QED
    BY <2>1, <2>2, <2>3 DEF Next, Idle
<1>3. GivenInv => RunsComplete
  <2> SUFFICES ASSUME GivenInv PROVE RunsComplete
    OBVIOUS
  <2>1. outcome = "listen" => options["ip"] # Empty /\ options["port"] # NoPort
    BY DEF GivenInv, Checked, NoOperation
  <2>2. outcome = "send" =>
          operation = "send" /\ options["dest_ip"] # Empty /\ options["dest_port"] # NoPort
    BY DEF GivenInv, Checked, NoOperation
  <2> QED
    BY <2>1, <2>2 DEF GivenInv, RunsComplete, NamesGiven
<1> QED
  BY <1>1, <1>2, <1>3, PTL DEF Spec

----------------------------------------------------------------------------
(* The last one counts.                                                    *)

LastInv ==
  /\ argv \in Seq(ArgumentSet) /\ DOMAIN options = Options
  /\ LastOneCounts

\* The last of some kinds is the new argument, or it was before and the new
\* one is of none of them.
LEMMA LastAfter ==
  ASSUME NEW arg, More(arg), argv \in Seq(ArgumentSet), NEW k \in DOMAIN argv', NEW kinds,
         IsLast(k, kinds)'
  PROVE  \/ argv'[k] = arg /\ arg.is \in kinds
         \/ k \in DOMAIN argv /\ argv'[k] = argv[k] /\ IsLast(k, kinds) /\ arg.is \notin kinds
<1>1. argv'[k].is \in kinds /\ \A j \in k + 1 .. Len(argv') : argv'[j].is \notin kinds
  BY DEF IsLast
<1>2. k \in 1 .. Len(argv) + 1 /\ Len(argv) \in Nat
  BY Appended
<1>3. CASE k = Len(argv) + 1
  BY <1>1, <1>3, Appended
<1>4. CASE k \in 1 .. Len(argv)
  <2>1. k \in DOMAIN argv /\ argv'[k] = argv[k]
    BY <1>4, Appended
  <2>2. ASSUME NEW j \in k + 1 .. Len(argv) PROVE argv[j].is \notin kinds
    <3>1. j \in DOMAIN argv /\ j \in k + 1 .. Len(argv')
      BY <1>2, <1>4, Appended
    <3> QED
      BY <1>1, <3>1, Appended
  <2>3. arg.is \notin kinds
    <3>1. Len(argv') \in k + 1 .. Len(argv')
      BY <1>2, <1>4, Appended
    <3> QED
      BY <1>1, <3>1, Appended
  <2> QED
    BY <1>1, <2>1, <2>2, <2>3 DEF IsLast
<1> QED
  BY <1>2, <1>3, <1>4

\* The digits of an argument are a sequence of digits.
LEMMA DigitsOf ==
  ASSUME NEW arg \in ArgumentSet, arg.is \in NumberOptions
  PROVE  /\ ReadInt(arg.digits) = Value(arg.digits)
         /\ ReadByte(arg.digits) = Value(arg.digits) % 256
<1>1. arg.digits \in Numerals
  BY DEF ArgumentSet, TextOptions, NumberOptions, Commands
<1>2. arg.digits \in Seq(0 .. 9)
  BY <1>1, ArgumentsAssumption
<1> QED
  BY <1>2, ByteIsInt, IntIsValue

LEMMA LastKept ==
  ASSUME LastInv, NEW arg \in ArgumentSet, More(arg),
         ReadText(arg) \/ ReadPort(arg) \/ ReadWindow(arg) \/ ReadCommand(arg) \/ ReadUnknown(arg)
  PROVE  LastInv'
<1>1. argv \in Seq(ArgumentSet) /\ argv' \in Seq(ArgumentSet) /\ outcome = "parsing"
  BY Appended DEF LastInv, More
<1>2. \A kind : ~ IsGiven(kind)' => ~ IsGiven(kind) /\ kind # arg.is
  BY <1>1, StillGiven
<1>3. ASSUME NEW k \in DOMAIN argv', NEW kinds, IsLast(k, kinds)'
      PROVE  \/ argv'[k] = arg /\ arg.is \in kinds
             \/ k \in DOMAIN argv /\ argv'[k] = argv[k] /\ IsLast(k, kinds) /\ arg.is \notin kinds
  BY <1>1, <1>3, LastAfter
<1>4. /\ DOMAIN options = Options /\ Options = {"ip", "dest_ip", "filename", "port", "dest_port", "n"}
      /\ LastOneCounts
  BY DEF LastInv, Options, TextOptions, NumberOptions
<1> DEFINE Counts ==
             \A k \in DOMAIN argv :
               /\ \A kind \in TextOptions : IsLast(k, {kind}) => options[kind] = argv[k].text
               /\ \A kind \in {"port", "dest_port"} :
                    IsLast(k, {kind}) => options[kind] = Value(argv[k].digits)
               /\ IsLast(k, {"n"}) => options["n"] = Value(argv[k].digits) % 256
           Does ==
             /\ \A k \in DOMAIN argv :
                  outcome # "ERROR_NO_FILE" /\ IsLast(k, Commands) => operation = argv[k].is
             /\ (\A kind \in Commands : ~ IsGiven(kind)) => operation = NoOperation
           Absent ==
             /\ \A kind \in {"port", "dest_port"} : ~ IsGiven(kind) => options[kind] = NoPort
             /\ ~ IsGiven("n") => options["n"] = 1
<1>5. Counts /\ Does /\ Absent
  BY <1>4 DEF LastOneCounts
<1>6. Counts' /\ Does' /\ Absent' /\ DOMAIN options' = Options => LastInv'
  BY <1>1 DEF LastInv, LastOneCounts
<1>7. CASE options' = options /\ arg.is \notin Options
  <2>1. \A k \in DOMAIN argv', kind \in Options : IsLast(k, {kind})' =>
          k \in DOMAIN argv /\ argv'[k] = argv[k] /\ IsLast(k, {kind})
    BY <1>3, <1>7
  <2>2. Counts'
    BY <1>4, <1>5, <1>7, <2>1 DEF TextOptions
  <2>3. Absent'
    BY <1>2, <1>5, <1>7
  <2>4. Does'
    <3>1. CASE ReadUnknown(arg)
      <4>1. operation' = operation /\ outcome' = outcome /\ arg.is \notin Commands
        BY <3>1 DEF ReadUnknown, Commands
      <4> QED
        BY <1>1, <1>2, <1>3, <1>5, <4>1
    <3>2. CASE ReadCommand(arg)
      <4>1. arg.is \in Commands /\ (outcome' # "ERROR_NO_FILE" => operation' = arg.is)
        BY <1>1, <3>2 DEF ReadCommand
      <4>2. \A k \in DOMAIN argv' : IsLast(k, Commands)' => argv'[k] = arg
        BY <1>3, <4>1
      <4> QED
        BY <1>2, <4>1, <4>2
    <3> QED
      BY <1>7, <3>1, <3>2 DEF ReadText, ReadPort, ReadWindow, Options, TextOptions, NumberOptions
  <2> QED
    BY <1>4, <1>6, <1>7, <2>2, <2>3, <2>4
<1>8. CASE ReadText(arg) \/ ReadPort(arg) \/ ReadWindow(arg)
  <2>1. arg.is \in Options /\ operation' = operation /\ outcome' = outcome
    BY <1>8 DEF ReadText, ReadPort, ReadWindow, Options, TextOptions, NumberOptions
  <2>2. PICK value : options' = [options EXCEPT ![arg.is] = value]
    BY <1>8 DEF ReadText, ReadPort, ReadWindow
  <2>3. /\ DOMAIN options' = Options /\ options'[arg.is] = value
        /\ \A o \in Options : o # arg.is => options'[o] = options[o]
    BY <1>4, <2>1, <2>2
  <2>4. Does'
    <3>1. arg.is \notin Commands
      BY <2>1 DEF Options, TextOptions, NumberOptions, Commands
    <3> QED
      BY <1>2, <1>3, <1>5, <2>1, <3>1
  <2>5. Absent'
    BY <1>2, <1>4, <1>5, <2>3
  <2>6. /\ arg.is \in TextOptions => options'[arg.is] = arg.text
        /\ arg.is \in {"port", "dest_port"} => options'[arg.is] = Value(arg.digits)
        /\ arg.is = "n" => options'[arg.is] = Value(arg.digits) % 256
    <3>1. CASE ReadText(arg)
      BY <1>4, <2>1, <3>1 DEF ReadText, TextOptions
    <3>2. CASE ReadPort(arg)
      BY <1>4, <2>1, <3>2, DigitsOf DEF ReadPort, TextOptions, NumberOptions
    <3>3. CASE ReadWindow(arg)
      BY <1>4, <2>1, <3>3, DigitsOf DEF ReadWindow, TextOptions, NumberOptions
    <3> QED
      BY <1>8, <3>1, <3>2, <3>3
  <2>7. ASSUME NEW k \in DOMAIN argv', NEW kind \in Options, IsLast(k, {kind})'
        PROVE  \/ argv'[k] = arg /\ arg.is = kind
               \/ /\ k \in DOMAIN argv /\ argv'[k] = argv[k] /\ IsLast(k, {kind})
                  /\ options'[kind] = options[kind]
    BY <1>3, <2>3, <2>7
  <2>8. Counts'
    <3> SUFFICES ASSUME NEW k \in DOMAIN argv', NEW kind \in Options, IsLast(k, {kind})'
                 PROVE  /\ kind \in TextOptions => options'[kind] = argv'[k].text
                        /\ kind \in {"port", "dest_port"} => options'[kind] = Value(argv'[k].digits)
                        /\ kind = "n" => options'[kind] = Value(argv'[k].digits) % 256
      BY <1>4 DEF TextOptions
    <3>1. CASE argv'[k] = arg /\ arg.is = kind
      BY <2>6, <3>1
    <3>2. CASE /\ k \in DOMAIN argv /\ argv'[k] = argv[k] /\ IsLast(k, {kind})
               /\ options'[kind] = options[kind]
      <4>0. Counts
        BY <1>5
      <4>1. kind \in TextOptions => options[kind] = argv[k].text
        BY <3>2, <4>0
      <4>2. kind \in {"port", "dest_port"} => options[kind] = Value(argv[k].digits)
        BY <3>2, <4>0
      <4>3. kind = "n" => options[kind] = Value(argv[k].digits) % 256
        BY <3>2, <4>0
      <4> HIDE DEF Counts
      <4> QED
        BY <3>2, <4>1, <4>2, <4>3
    <3> QED
      BY <2>7, <3>1, <3>2
  <2> QED
    BY <1>6, <2>3, <2>4, <2>5, <2>8
<1> QED
  <2>1. CASE ReadCommand(arg) \/ ReadUnknown(arg)
    <3>1. options' = options /\ arg.is \notin Options
      BY <2>1 DEF ReadCommand, ReadUnknown, Options, TextOptions, NumberOptions, Commands
    <3> QED
      BY <1>7, <3>1
  <2> QED
    BY <1>8, <2>1

\* Whatever the order and number of the arguments, each option has the value
\* it was given last, a number the one its digits stand for (of --n the last
\* eight bits), and the program does what it was told last (tools.c 38-91).
THEOREM TheLastOneCounts == Spec => []LastOneCounts
<1>1. Init => LastInv
  <2> SUFFICES ASSUME Init PROVE LastInv
    OBVIOUS
  <2>1. PICK name :
          options = [[o \in Options |-> IF o \in TextOptions THEN Empty ELSE NoPort]
                       EXCEPT !["filename"] = name, !["n"] = 1]
    BY DEF Init
  <2>2. /\ DOMAIN options = Options
        /\ options["port"] = NoPort /\ options["dest_port"] = NoPort /\ options["n"] = 1
    BY <2>1 DEF Options, TextOptions, NumberOptions
  <2>3. argv = <<>> /\ operation = NoOperation
    BY DEF Init
  <2> QED
    BY <2>2, <2>3 DEF LastInv, LastOneCounts
<1>2. LastInv /\ [Next]_vars => LastInv'
  <2> SUFFICES ASSUME LastInv, [Next]_vars PROVE LastInv'
    OBVIOUS
  <2>1. CASE UNCHANGED vars
    BY <2>1 DEF vars, LastInv, LastOneCounts, IsGiven, IsLast
  <2>2. CASE Read
    BY <2>2, LastKept DEF Read
  <2>3. CASE Finish
    <3>1. argv' = argv /\ options' = options /\ operation' = operation /\ outcome = "parsing"
      BY <2>3 DEF Finish
    <3> QED
      BY <3>1 DEF LastInv, LastOneCounts, IsGiven, IsLast
  <2> QED
    BY <2>1, <2>2, <2>3 DEF Next, Idle
<1>3. LastInv => LastOneCounts
  BY DEF LastInv
<1> QED
  BY <1>1, <1>2, <1>3, PTL DEF Spec

=============================================================================

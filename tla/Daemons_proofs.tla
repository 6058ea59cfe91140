-------------------------- MODULE Daemons_proofs ---------------------------
(***************************************************************************)
(* What start_daemon and stop_listeners do together, for any number of     *)
(* processes and callers: every daemon can be stopped, and nobody else is, *)
(* as long as no number is given out again and no two of them meet.        *)
(*                                                                         *)
(* The file is a sequence of bytes, the argument is about the sequence of  *)
(* numbers it stands for; Holds relates the two.                           *)
(***************************************************************************)
EXTENDS Daemons, SequenceTheorems, TLAPS

----------------------------------------------------------------------------
(* Numbers and their bytes.                                                *)

LEMMA ReadIsInverse ==
  ASSUME NEW n \in 1 .. 2^22
  PROVE  ReadNumber(Written(n)) = n
BY SMTT(30) DEF ReadNumber, Written

LEMMA WrittenFacts ==
  ASSUME NEW p \in Pids
  PROVE  /\ Written(p) \in Seq(0 .. 255) /\ Len(Written(p)) = 4
         /\ Written(p) = [j \in 1 .. 4 |-> Written(p)[j]]
         /\ ReadNumber(Written(p)) = p
<1>1. p \in 1 .. 2^22
  BY DaemonsAssumption
<1>2. /\ Written(p) \in Seq(0 .. 255) /\ Len(Written(p)) = 4
      /\ Written(p) = [j \in 1 .. 4 |-> Written(p)[j]]
  BY <1>1 DEF Written
<1> QED
  BY <1>1, <1>2, ReadIsInverse

\* The bytes b are those of the numbers ps.
Holds(b, ps) ==
  /\ b \in Seq(0 .. 255) /\ ps \in Seq(Pids)
  /\ Len(b) = 4 * Len(ps)
  /\ \A k \in 1 .. Len(ps) : \A j \in 1 .. 4 : b[4 * k - 4 + j] = Written(ps[k])[j]

LEMMA HoldsNothing == Holds(<<>>, <<>>)
BY DEF Holds

LEMMA HoldsLength ==
  ASSUME NEW b, NEW ps, Holds(b, ps)
  PROVE  /\ Len(b) \in Nat /\ Len(ps) \in Nat /\ Len(b) % 4 = 0 /\ Len(b) \div 4 = Len(ps)
         /\ b = <<>> <=> ps = <<>>
         /\ DOMAIN ps = 1 .. Len(ps) /\ DOMAIN b = 1 .. Len(b)
         /\ \A k \in DOMAIN ps : ps[k] \in Pids
<1>1. Len(b) \in Nat /\ Len(ps) \in Nat /\ Len(b) = 4 * Len(ps)
  BY LenProperties DEF Holds
<1>2. Len(b) % 4 = 0 /\ Len(b) \div 4 = Len(ps)
  BY <1>1
<1>3. b = <<>> <=> ps = <<>>
  BY <1>1, EmptySeq DEF Holds
<1> QED
  BY <1>1, <1>2, <1>3, LenProperties, ElementOfSeq DEF Holds

LEMMA HoldsAppend ==
  ASSUME NEW b, NEW ps, Holds(b, ps), NEW p \in Pids
  PROVE  /\ Holds(b \o Written(p), Append(ps, p))
         /\ Range(Append(ps, p)) = Range(ps) \cup {p}
         /\ Len(Append(ps, p)) = Len(ps) + 1
<1> DEFINE w == Written(p)
           c == b \o w
           qs == Append(ps, p)
<1>0. /\ b \in Seq(0 .. 255) /\ ps \in Seq(Pids) /\ Len(b) = 4 * Len(ps)
      /\ Len(b) \in Nat /\ Len(ps) \in Nat /\ DOMAIN ps = 1 .. Len(ps)
  BY HoldsLength DEF Holds
<1>bytes. \A k \in 1 .. Len(ps) : \A j \in 1 .. 4 : b[4 * k - 4 + j] = Written(ps[k])[j]
  BY DEF Holds
<1>1. w \in Seq(0 .. 255) /\ Len(w) = 4
  BY WrittenFacts
<1> HIDE DEF w
<1>2. /\ c \in Seq(0 .. 255) /\ Len(c) = Len(b) + 4
      /\ \A m \in 1 .. Len(b) + 4 : c[m] = IF m <= Len(b) THEN b[m] ELSE w[m - Len(b)]
  <2>1. /\ b \o w \in Seq(0 .. 255) /\ Len(b \o w) = Len(b) + Len(w)
        /\ \A m \in 1 .. Len(b) + Len(w) : (b \o w)[m] = IF m <= Len(b) THEN b[m] ELSE w[m - Len(b)]
    <3>1. b \in Seq(0 .. 255) /\ w \in Seq(0 .. 255)
      BY <1>0, <1>1
    <3> QED
      BY <3>1, ConcatProperties, ZenonT(60)
  <2> HIDE DEF c
  <2>2. c = b \o w
    BY DEF c
  <2>3. Len(b) + Len(w) = Len(b) + 4
    BY <1>1
  <2> QED
    BY <2>1, <2>2, <2>3
<1>3. /\ qs \in Seq(Pids) /\ Len(qs) = Len(ps) + 1
      /\ \A k \in 1 .. Len(ps) : qs[k] = ps[k]
      /\ qs[Len(ps) + 1] = p
  BY <1>0, AppendProperties
<1>4. DOMAIN qs = 1 .. Len(ps) + 1
  BY <1>3, LenProperties
<1> HIDE DEF c, qs
<1>5. ASSUME NEW k \in 1 .. Len(qs), NEW j \in 1 .. 4
      PROVE  c[4 * k - 4 + j] = Written(qs[k])[j]
  <2>1. CASE k <= Len(ps)
    <3> DEFINE m == 4 * k - 4 + j
    <3>1. m \in 1 .. Len(b) /\ k \in 1 .. Len(ps)
      BY <1>0, <2>1
    <3>2. b[m] = Written(ps[k])[j]
      BY <1>bytes, <3>1
    <3> HIDE DEF m
    <3>3. c[m] = b[m]
      BY <1>0, <1>2, <3>1
    <3>4. qs[k] = ps[k]
      BY <1>3, <3>1
    <3> QED
      BY <3>2, <3>3, <3>4 DEF m
  <2>2. CASE k = Len(ps) + 1
    <3>1. 4 * k - 4 + j = Len(b) + j /\ j \in 1 .. 4
      BY <1>0, <2>2
    <3>2. c[Len(b) + j] = w[j]
      <4>1. Len(b) + j \in 1 .. Len(b) + 4 /\ ~(Len(b) + j <= Len(b)) /\ (Len(b) + j) - Len(b) = j
        BY <1>0
      <4> QED
        BY <1>2, <4>1
    <3> QED
      BY <1>3, <2>2, <3>1, <3>2 DEF w
  <2> QED
    BY <1>0, <1>3, <2>1, <2>2
<1>6. Holds(c, qs)
  BY <1>0, <1>2, <1>3, <1>5 DEF Holds
<1>7. Range(qs) = Range(ps) \cup {p}
  <2>1. ASSUME NEW k \in 1 .. Len(ps) + 1 PROVE qs[k] \in Range(ps) \cup {p}
    <3>1. k \in 1 .. Len(ps) \/ k = Len(ps) + 1
      BY <1>0
    <3> QED
      BY <1>0, <1>3, <3>1 DEF Range
  <2>2. \A x : x \in Range(ps) => x \in Range(qs)
    BY <1>0, <1>3, <1>4 DEF Range
  <2>3. p \in Range(qs)
    BY <1>0, <1>3, <1>4 DEF Range
  <2> QED
    BY <1>4, <2>1, <2>2, <2>3 DEF Range
<1> QED
  BY <1>3, <1>6, <1>7 DEF c, qs, w

\* What is left behind the first q numbers.
LEMMA HoldsRest ==
  ASSUME NEW b, NEW ps, Holds(b, ps), NEW q \in Nat, q <= Len(ps)
  PROVE  LET qs == SubSeq(ps, q + 1, Len(ps)) IN
         /\ Holds(SubSeq(b, 4 * q + 1, Len(b)), qs)
         /\ Len(qs) = Len(ps) - q
         /\ \A k \in 1 .. Len(ps) - q : qs[k] = ps[q + k]
<1> DEFINE c == SubSeq(b, 4 * q + 1, Len(b))
           qs == SubSeq(ps, q + 1, Len(ps))
<1>0. /\ b \in Seq(0 .. 255) /\ ps \in Seq(Pids) /\ Len(b) = 4 * Len(ps)
      /\ Len(b) \in Nat /\ Len(ps) \in Nat
  BY HoldsLength DEF Holds
<1>bytes. \A k \in 1 .. Len(ps) : \A j \in 1 .. 4 : b[4 * k - 4 + j] = Written(ps[k])[j]
  BY DEF Holds
<1>1. /\ c \in Seq(0 .. 255) /\ Len(c) = Len(b) - 4 * q
      /\ \A m \in 1 .. Len(b) - 4 * q : c[m] = b[4 * q + m]
  <2> DEFINE lo == 4 * q + 1
  <2>0. /\ lo \in Int /\ Len(b) \in Int /\ lo >= 1 /\ lo <= Len(b) + 1
        /\ Len(b) - lo + 1 = Len(b) - 4 * q
        /\ \A m \in 1 .. Len(b) - 4 * q : lo + m - 1 = 4 * q + m
    BY <1>0
  <2>s. c = SubSeq(b, lo, Len(b))
    OBVIOUS
  <2> HIDE DEF lo, c
  <2>1. ASSUME NEW m \in lo .. Len(b) PROVE b[m] \in 0 .. 255
    <3>1. m \in 1 .. Len(b)
      BY <2>0
    <3> QED
      BY <1>0, <3>1, ElementOfSeq
  <2>2. /\ SubSeq(b, lo, Len(b)) \in Seq(0 .. 255)
        /\ Len(SubSeq(b, lo, Len(b))) = IF lo <= Len(b) THEN Len(b) - lo + 1 ELSE 0
        /\ \A m \in 1 .. Len(b) - lo + 1 : SubSeq(b, lo, Len(b))[m] = b[lo + m - 1]
    BY <2>0, <2>1, SubSeqProperties
  <2>3. Len(c) = Len(b) - 4 * q
    <3>1. CASE lo <= Len(b)
      <4>1. Len(c) = Len(b) - lo + 1
        BY <2>2, <2>s, <3>1
      <4> QED
        BY <2>0, <4>1
    <3>2. CASE ~ (lo <= Len(b))
      <4>1. Len(c) = 0
        BY <2>2, <2>s, <3>2
      <4>2. Len(b) - 4 * q = 0
        BY <2>0, <3>2
      <4> QED
        BY <4>1, <4>2
    <3> QED
      BY <3>1, <3>2
  <2>4. ASSUME NEW m \in 1 .. Len(b) - 4 * q PROVE c[m] = b[4 * q + m]
    <3>1. c[m] = b[lo + m - 1]
      BY <2>0, <2>2, <2>s
    <3> QED
      BY <2>0, <3>1
  <2> QED
    BY <2>2, <2>3, <2>4, <2>s
<1>2. /\ qs \in Seq(Pids) /\ Len(qs) = Len(ps) - q
      /\ \A k \in 1 .. Len(ps) - q : qs[k] = ps[q + k]
  <2>1. \A m \in q + 1 .. Len(ps) : ps[m] \in Pids
    BY <1>0, ElementOfSeq
  <2>2. /\ qs \in Seq(Pids)
        /\ Len(qs) = IF q + 1 <= Len(ps) THEN Len(ps) - (q + 1) + 1 ELSE 0
        /\ \A m \in 1 .. Len(ps) - (q + 1) + 1 : qs[m] = ps[(q + 1) + m - 1]
    BY <1>0, <2>1, SubSeqProperties
  <2> HIDE DEF qs
  <2> QED
    BY <1>0, <2>2
<1> HIDE DEF c, qs
<1>3. ASSUME NEW k \in 1 .. Len(qs), NEW j \in 1 .. 4
      PROVE  c[4 * k - 4 + j] = Written(qs[k])[j]
  <2>1. q + k \in 1 .. Len(ps) /\ k \in 1 .. Len(ps) - q
    BY <1>0, <1>2
  <2>2. 4 * k - 4 + j \in 1 .. Len(b) - 4 * q
    BY <1>0, <2>1
  <2>3. c[4 * k - 4 + j] = b[4 * q + (4 * k - 4 + j)]
    BY <1>1, <2>2
  <2>4. 4 * q + (4 * k - 4 + j) = 4 * (q + k) - 4 + j
    BY <2>1
  <2>5. b[4 * (q + k) - 4 + j] = Written(ps[q + k])[j]
    BY <1>bytes, <2>1
  <2> QED
    BY <1>2, <2>1, <2>3, <2>4, <2>5
<1>4. Len(c) = 4 * Len(qs)
  BY <1>0, <1>1, <1>2
<1>5. Holds(c, qs)
  BY <1>1, <1>2, <1>3, <1>4 DEF Holds
<1> QED
  BY <1>2, <1>5 DEF c, qs

\* The first number.
LEMMA HoldsFirst ==
  ASSUME NEW b, NEW ps, Holds(b, ps), b # <<>>
  PROVE  ReadNumber(SubSeq(b, 1, 4)) = ps[1] /\ 1 \in DOMAIN ps /\ Len(ps) >= 1
<1>0. /\ b \in Seq(0 .. 255) /\ Len(b) \in Nat /\ Len(ps) \in Nat /\ Len(b) = 4 * Len(ps)
      /\ ps # <<>> /\ DOMAIN ps = 1 .. Len(ps)
  BY HoldsLength DEF Holds
<1>1. Len(ps) >= 1 /\ Len(b) >= 4
  BY <1>0, EmptySeq DEF Holds
<1>2. ps[1] \in Pids
  BY <1>0, <1>1, HoldsLength
<1>3. \A j \in 1 .. 4 : b[j] = Written(ps[1])[j]
  <2>1. \A j \in 1 .. 4 : b[4 * 1 - 4 + j] = Written(ps[1])[j]
    BY <1>0, <1>1 DEF Holds
  <2>2. \A j \in 1 .. 4 : 4 * 1 - 4 + j = j
    OBVIOUS
  <2> QED
    BY <2>1, <2>2
<1>4. \A j \in 1 .. 4 : SubSeq(b, 1, 4)[j] = b[j]
  <2>1. ASSUME NEW m \in 1 .. 4 PROVE b[m] \in 0 .. 255
    <3>1. m \in 1 .. Len(b)
      BY <1>0, <1>1
    <3> QED
      BY <1>0, <3>1, ElementOfSeq
  <2>2. \A m \in 1 .. 4 - 1 + 1 : SubSeq(b, 1, 4)[m] = b[1 + m - 1]
    BY <2>1, SubSeqProperties
  <2> QED
    BY <2>2
<1>5. ReadNumber(SubSeq(b, 1, 4)) = ReadNumber(Written(ps[1]))
  BY <1>3, <1>4 DEF ReadNumber
<1> QED
  BY <1>0, <1>1, <1>2, <1>5, WrittenFacts

\* What is left behind the first number.
LEMMA HoldsTail ==
  ASSUME NEW b, NEW ps, Holds(b, ps), b # <<>>
  PROVE  LET qs == SubSeq(ps, 2, Len(ps)) IN
         Holds(SubSeq(b, 5, Len(b)), qs) /\ Range(ps) = {ps[1]} \cup Range(qs)
<1> DEFINE qs == SubSeq(ps, 2, Len(ps))
<1>0. Len(ps) \in Nat /\ Len(ps) >= 1 /\ DOMAIN ps = 1 .. Len(ps)
  BY HoldsLength, HoldsFirst
<1>1. PICK q \in Nat : q = 1
  OBVIOUS
<1>2. /\ Holds(SubSeq(b, 4 * q + 1, Len(b)), SubSeq(ps, q + 1, Len(ps)))
      /\ Len(SubSeq(ps, q + 1, Len(ps))) = Len(ps) - q
      /\ \A k \in 1 .. Len(ps) - q : SubSeq(ps, q + 1, Len(ps))[k] = ps[q + k]
  <2>1. q <= Len(ps)
    BY <1>0, <1>1
  <2> QED
    BY <2>1, HoldsRest
<1>3. /\ Holds(SubSeq(b, 5, Len(b)), qs) /\ Len(qs) = Len(ps) - 1
      /\ \A k \in 1 .. Len(ps) - 1 : qs[k] = ps[1 + k]
  <2>1. 4 * q + 1 = 5 /\ q + 1 = 2
    BY <1>1
  <2> QED
    BY <1>1, <1>2, <2>1
<1> HIDE DEF qs
<1>4. DOMAIN qs = 1 .. Len(ps) - 1
  BY <1>3, HoldsLength
<1>5. \A x \in Range(ps) : x = ps[1] \/ x \in Range(qs)
  <2>1. ASSUME NEW k \in 1 .. Len(ps), k # 1 PROVE ps[k] \in Range(qs)
    <3>1. k - 1 \in 1 .. Len(ps) - 1 /\ 1 + (k - 1) = k
      BY <1>0, <2>1
    <3>2. qs[k - 1] = ps[k]
      BY <1>3, <3>1
    <3> QED
      BY <1>4, <3>1, <3>2 DEF Range
  <2> QED
    BY <1>0, <2>1 DEF Range
<1>6. \A x \in Range(qs) : x \in Range(ps)
  <2>1. ASSUME NEW k \in 1 .. Len(ps) - 1 PROVE qs[k] \in Range(ps)
    <3>1. 1 + k \in 1 .. Len(ps)
      BY <1>0
    <3> QED
      BY <1>0, <1>3, <3>1 DEF Range
  <2> QED
    BY <1>4, <2>1 DEF Range
<1>7. ps[1] \in Range(ps)
  BY <1>0 DEF Range
<1> QED
  BY <1>3, <1>5, <1>6, <1>7 DEF qs

LEMMA HoldsNumbers ==
  ASSUME NEW ps, Holds(bytes, ps)
  PROVE  Numbers = Range(ps)
<1>0. /\ bytes \in Seq(0 .. 255) /\ Len(bytes) \in Nat /\ Len(ps) \in Nat
      /\ Len(bytes) = 4 * Len(ps) /\ Len(bytes) \div 4 = Len(ps)
      /\ DOMAIN ps = 1 .. Len(ps) /\ \A k \in DOMAIN ps : ps[k] \in Pids
  BY HoldsLength DEF Holds
<1>bytes. \A k \in 1 .. Len(ps) : \A j \in 1 .. 4 : bytes[4 * k - 4 + j] = Written(ps[k])[j]
  BY DEF Holds
<1>1. ASSUME NEW k \in 1 .. Len(ps) PROVE SubSeq(bytes, 4 * k - 3, 4 * k) = Written(ps[k])
  <2> DEFINE s == SubSeq(bytes, 4 * k - 3, 4 * k)
             w == Written(ps[k])
  <2>1. ASSUME NEW m \in 4 * k - 3 .. 4 * k PROVE bytes[m] \in 0 .. 255
    <3>1. m \in 1 .. Len(bytes)
      BY <1>0
    <3> QED
      BY <1>0, <3>1, ElementOfSeq
  <2>2. /\ s \in Seq(0 .. 255)
        /\ Len(s) = IF 4 * k - 3 <= 4 * k THEN 4 * k - (4 * k - 3) + 1 ELSE 0
        /\ \A m \in 1 .. 4 * k - (4 * k - 3) + 1 : s[m] = bytes[(4 * k - 3) + m - 1]
    BY <2>1, SubSeqProperties
  <2> HIDE DEF s
  <2>3. Len(s) = 4 /\ 4 * k - (4 * k - 3) + 1 = 4
    BY <2>2
  <2>4. \A m \in 1 .. 4 : s[m] = bytes[4 * k - 4 + m]
    <3>1. \A m \in 1 .. 4 : (4 * k - 3) + m - 1 = 4 * k - 4 + m
      OBVIOUS
    <3> QED
      BY <2>2, <2>3, <3>1
  <2>5. \A m \in 1 .. 4 : s[m] = w[m]
    BY <1>bytes, <2>4
  <2>6. w \in Seq(0 .. 255) /\ Len(w) = 4
    BY <1>0, WrittenFacts
  <2> HIDE DEF w
  <2>7. s = w
    BY <2>2, <2>3, <2>5, <2>6, SeqEqual
  <2> QED
    BY <2>7 DEF s, w
<1>2. ASSUME NEW p \in Pids
      PROVE  (\E k \in 1 .. Len(ps) : Written(ps[k]) = Written(p)) <=> p \in Range(ps)
  <2>1. ASSUME NEW k \in 1 .. Len(ps), Written(ps[k]) = Written(p) PROVE ps[k] = p
    BY <1>0, <2>1, WrittenFacts
  <2> QED
    BY <1>0, <2>1 DEF Range
<1>3. \A p : p \in Numbers <=> p \in Pids /\ \E k \in 1 .. Len(ps) : Written(ps[k]) = Written(p)
  BY <1>0, <1>1 DEF Numbers
<1>4. Range(ps) \subseteq Pids
  BY <1>0 DEF Range
<1> QED
  BY <1>2, <1>3, <1>4

----------------------------------------------------------------------------
(* The invariant.                                                          *)

Pend(p) == \E c \in Callers : call[c] \in Pending /\ child[c] = p

\* No daemon was started while others were stopped and no open failed.
Undisturbed == met \subseteq {"reused"}

BaseInv ==
  /\ proc \in [Pids -> {"free", "daemon", "other"}]
  /\ call \in [Callers -> {"idle", "written", "left", "crashed", "runs"} \cup Pending]
  /\ child \in [Callers -> Pids \cup {0}]
  /\ exists \in BOOLEAN /\ opened \subseteq Callers
  /\ stop \in {"idle", "read", "kill", "remove"} /\ tries \in 0 .. 2
  /\ met \subseteq {"race", "unopened", "reused"}
  /\ \A c \in Callers : call[c] \in Pending => child[c] \in Pids
  /\ Meeting \subseteq met
  /\ Undisturbed => \A c \in Callers : call[c] = "opened" => c \in opened

\* The file holds the numbers ns, the buffer of stop_listeners those of us,
\* and q numbers were taken from the file.
HeldInv(ns, us, q) ==
  /\ Holds(bytes, ns) /\ Holds(unread, us)
  /\ q \in Nat /\ q <= Len(ns) /\ position = 4 * q
  /\ process_id \in Pids \cup {0}
  /\ stop \in {"read", "kill"} => Range(us) \subseteq Range(ns)
  /\ stop = "kill" => process_id \in Range(ns)

\* Where the number p is found: in the file, in a call that has yet to write
\* it, or, of a stop under way, in hand, in the buffer or in what is unread.
Known(p, ns, us, q) ==
  \/ stop = "idle" /\ (p \in Range(ns) \/ Pend(p))
  \/ stop = "kill" /\ p = process_id
  \/ stop \in {"read", "kill"} /\ (p \in Range(us) \/ \E k \in q + 1 .. Len(ns) : ns[k] = p)

KnownInv(ns, us, q) ==
  Undisturbed => \A p \in Pids : proc[p] = "daemon" => Known(p, ns, us, q)

DaemonsInv == BaseInv /\ \E ns, us, q : HeldInv(ns, us, q) /\ KnownInv(ns, us, q)

LEMMA Initially == Init => DaemonsInv
<1> SUFFICES ASSUME Init PROVE DaemonsInv
  OBVIOUS
<1>1. Holds(bytes, <<>>) /\ Holds(unread, <<>>) /\ Len(<<>>) = 0
  BY HoldsNothing DEF Init
<1>2. HeldInv(<<>>, <<>>, 0)
  BY <1>1 DEF Init, HeldInv
<1>3. KnownInv(<<>>, <<>>, 0)
  BY DEF Init, KnownInv
<1>4. Numbers = {}
  <2>1. Range(<<>>) = {}
    BY DEF Range
  <2> QED
    BY <1>1, <2>1, HoldsNumbers
<1>5. BaseInv
  <2>1. Meeting = {}
    BY <1>4 DEF Init, Meeting, Pending
  <2>2. proc \in [Pids -> {"free", "daemon", "other"}]
    BY DEF Init
  <2>3. /\ call \in [Callers -> {"idle", "written", "left", "crashed", "runs"} \cup Pending]
        /\ child \in [Callers -> Pids \cup {0}]
    BY DEF Init
  <2>4. \A c \in Callers : call[c] = "idle"
    BY DEF Init
  <2>5. /\ opened \subseteq Callers
        /\ stop \in {"idle", "read", "kill", "remove"} /\ tries \in 0 .. 2
        /\ met \subseteq {"race", "unopened", "reused"}
    BY DEF Init
  <2>7. exists \in BOOLEAN
    BY Zenon DEF Init
  <2>6. \A c \in Callers : call[c] \notin Pending /\ call[c] # "opened"
    BY <2>4 DEF Pending
  <2> QED
    BY <2>1, <2>2, <2>3, <2>5, <2>6, <2>7 DEF BaseInv
<1> QED
  BY <1>2, <1>3, <1>5 DEF DaemonsInv

\* While a stop is under way, undisturbed, no call is pending.
LEMMA QuietStop ==
  ASSUME BaseInv, Undisturbed, stop # "idle"
  PROVE  \A c \in Callers : call[c] \notin Pending
BY DEF BaseInv, Undisturbed, Meeting

LEMMA QuietStopNext ==
  ASSUME BaseInv', Undisturbed', stop' # "idle"
  PROVE  \A c \in Callers : call'[c] \notin Pending
BY DEF BaseInv, Undisturbed, Meeting

LEMMA NextFacts ==
  ASSUME BaseInv, [Next]_vars
  PROVE  /\ met \subseteq met' /\ met' \subseteq {"race", "unopened", "reused"}
         /\ Meeting' \subseteq met' /\ (Undisturbed' => Undisturbed)
<1>1. CASE Next
  BY <1>1 DEF Next, BaseInv, Meeting, Undisturbed
<1>2. CASE UNCHANGED vars
  <2>1. Meeting' = Meeting
    BY <1>2 DEF vars, fileVars, stopVars, Meeting, Numbers
  <2> QED
    BY <1>2, <2>1 DEF vars, BaseInv, Undisturbed
<1> QED
  BY <1>1, <1>2

LEMMA BaseStep ==
  ASSUME BaseInv, [Next]_vars
  PROVE  BaseInv'
<1> DEFINE Types ==
      /\ proc \in [Pids -> {"free", "daemon", "other"}]
      /\ call \in [Callers -> {"idle", "written", "left", "crashed", "runs"} \cup Pending]
      /\ child \in [Callers -> Pids \cup {0}]
      /\ exists \in BOOLEAN /\ opened \subseteq Callers
      /\ stop \in {"idle", "read", "kill", "remove"} /\ tries \in 0 .. 2
    Children == \A c \in Callers : call[c] \in Pending => child[c] \in Pids
    Opened == \A c \in Callers : call[c] = "opened" => c \in opened
<1>0. Types /\ Children /\ (Undisturbed => Opened)
  BY DEF BaseInv
<1>1. Types' /\ Children' /\ (Undisturbed /\ Undisturbed' => Opened')
  <2>1. ASSUME NEW c \in Callers, Fork(c) PROVE Types' /\ Children' /\ (Undisturbed => Opened')
    BY <1>0, <2>1 DEF Fork, Goes, fileVars, stopVars, Pending
  <2>2. ASSUME NEW c \in Callers, ForkFails(c) PROVE Types' /\ Children' /\ (Undisturbed => Opened')
    BY <1>0, <2>2 DEF ForkFails, Goes, fileVars, stopVars, Pending
  <2>3. ASSUME NEW c \in Callers, OpenDatabase(c) PROVE Types' /\ Children' /\ (Undisturbed => Opened')
    BY <1>0, <2>3 DEF OpenDatabase, Goes, stopVars, Pending
  <2>4. ASSUME NEW c \in Callers, OpenDatabaseFails(c) PROVE Types' /\ Children' /\ (Undisturbed => Opened')
    BY <1>0, <2>4 DEF OpenDatabaseFails, Goes, fileVars, stopVars, Pending
  <2>5. ASSUME NEW c \in Callers, WriteNumber(c) PROVE Types' /\ Children' /\ (Undisturbed => Opened')
    BY <1>0, <2>5 DEF WriteNumber, Goes, stopVars, Pending
  <2>6. ASSUME NEW c \in Callers, SetSid(c) PROVE Types' /\ Children' /\ (Undisturbed => Opened')
    BY <1>0, <2>6 DEF SetSid, Goes, fileVars, stopVars, Pending
  <2>7. CASE StopOpens
    BY <1>0, <2>7 DEF StopOpens, fileVars
  <2>8. CASE StopReads
    BY <1>0, <2>8 DEF StopReads, fileVars
  <2>9. CASE Kill
    BY <1>0, <2>9 DEF Kill, Running, fileVars
  <2>10. CASE KillFails
    BY <1>0, <2>10 DEF KillFails, fileVars
  <2>11. CASE StopRemoves
    <3>1. Types' /\ Children'
      BY <1>0, <2>11 DEF StopRemoves
    <3>2. Undisturbed => Opened'
      BY <1>0, <2>11, QuietStop DEF StopRemoves, Pending
    <3> QED
      BY <3>1, <3>2
  <2>12. ASSUME NEW p \in Pids, Ends(p) \/ Starts(p) PROVE Types' /\ Children' /\ (Undisturbed => Opened')
    BY <1>0, <2>12 DEF Ends, Starts, fileVars, stopVars
  <2>13. CASE UNCHANGED vars
    BY <1>0, <2>13 DEF vars, fileVars, stopVars
  <2> HIDE DEF Types, Children, Opened
  <2> QED
    BY <2>1, <2>2, <2>3, <2>4, <2>5, <2>6, <2>7, <2>8, <2>9, <2>10, <2>11, <2>12, <2>13
    DEF Next, StopListeners
<1> QED
  BY <1>1, NextFacts DEF BaseInv

----------------------------------------------------------------------------
(* The witnesses of a step: the file keeps its numbers, ...                *)

\* The file, the buffer and the place in both stay.
LEMMA HeldKept ==
  ASSUME NEW ns, NEW us, NEW q, HeldInv(ns, us, q),
         bytes' = bytes, unread' = unread, position' = position, process_id' = process_id,
         stop' \in {"read", "kill"} => stop \in {"read", "kill"},
         stop' = "kill" => stop = "kill"
  PROVE  HeldInv(ns, us, q)'
BY DEF HeldInv

\* Every daemon was one and is found where it was found.
LEMMA KnownKept ==
  ASSUME NEW ns, NEW us, NEW q, KnownInv(ns, us, q),
         Undisturbed' => Undisturbed,
         \A p \in Pids : proc'[p] = "daemon" => proc[p] = "daemon",
         \A p \in Pids : Undisturbed' /\ Pend(p) => Pend(p)',
         process_id' = process_id, stop' = stop
  PROVE  KnownInv(ns, us, q)'
BY DEF KnownInv, Known

\* The steps of start_daemon but the last write.
LEMMA CallsKeep ==
  ASSUME BaseInv, BaseInv', NEW ns, NEW us, NEW q, HeldInv(ns, us, q), KnownInv(ns, us, q),
         Undisturbed' => Undisturbed, NEW c \in Callers,
         Fork(c) \/ ForkFails(c) \/ OpenDatabase(c) \/ OpenDatabaseFails(c) \/ SetSid(c)
  PROVE  HeldInv(ns, us, q)' /\ KnownInv(ns, us, q)'
<1>1. /\ bytes' = bytes /\ unread' = unread /\ position' = position
      /\ process_id' = process_id /\ stop' = stop
  BY DEF Fork, ForkFails, OpenDatabase, OpenDatabaseFails, SetSid, fileVars, stopVars
<1>2. HeldInv(ns, us, q)'
  BY <1>1, HeldKept
<1>3. CASE Fork(c)
  <2>1. PICK n \in Pids : proc' = [proc EXCEPT ![n] = "daemon"] /\ child' = [child EXCEPT ![c] = n]
    BY <1>3 DEF Fork
  <2>2. call[c] = "idle" /\ call' = [call EXCEPT ![c] = "forked"]
    BY <1>3 DEF Fork, Goes
  <2>3. /\ call'[c] = "forked" /\ child'[c] = n
        /\ \A d \in Callers : d # c => call'[d] = call[d] /\ child'[d] = child[d]
        /\ \A p \in Pids : p # n => proc'[p] = proc[p]
    BY <2>1, <2>2 DEF BaseInv
  <2>4. Pend(n)' /\ \A p \in Pids : Pend(p) => Pend(p)'
    BY <2>2, <2>3 DEF Pend, Pending
  <2>5. Undisturbed' => stop = "idle"
    BY <1>1, <2>3, QuietStopNext DEF Pending
  <2> QED
    BY <1>1, <1>2, <2>3, <2>4, <2>5 DEF KnownInv, Known
<1>4. CASE ForkFails(c) \/ SetSid(c)
  <2>1. proc' = proc /\ \A d \in Callers : call[d] \in Pending => call'[d] = call[d]
    BY <1>4 DEF ForkFails, SetSid, Goes, Pending, BaseInv
  <2>2. child' = child
    BY <1>4 DEF ForkFails, SetSid
  <2>3. \A p \in Pids : Pend(p) => Pend(p)'
    BY <2>1, <2>2 DEF Pend
  <2> QED
    BY <1>1, <1>2, <2>1, <2>3, KnownKept
<1>5. CASE OpenDatabase(c)
  <2>1. proc' = proc /\ child' = child
        /\ \A d \in Callers : call[d] \in Pending => call'[d] \in Pending
    BY <1>5 DEF OpenDatabase, Goes, Pending, BaseInv
  <2>2. \A p \in Pids : Pend(p) => Pend(p)'
    BY <2>1 DEF Pend
  <2> QED
    BY <1>1, <1>2, <2>1, <2>2, KnownKept
<1>6. CASE OpenDatabaseFails(c)
  <2>1. call'[c] = "crashed"
    BY <1>6 DEF OpenDatabaseFails, Goes, BaseInv
  <2>2. "unopened" \in Meeting'
    BY <2>1 DEF Meeting
  <2> QED
    BY <1>2, <2>2 DEF KnownInv, Undisturbed, BaseInv
<1> QED
  BY <1>3, <1>4, <1>5, <1>6

\* ... and WriteNumber appends one.
LEMMA WriteKeeps ==
  ASSUME BaseInv, NEW ns, NEW us, NEW q, HeldInv(ns, us, q), KnownInv(ns, us, q),
         Undisturbed' => Undisturbed, NEW c \in Callers, WriteNumber(c)
  PROVE  \E ms : HeldInv(ms, us, q)' /\ KnownInv(ms, us, q)'
<1>1. /\ unread' = unread /\ position' = position /\ process_id' = process_id /\ stop' = stop
      /\ proc' = proc /\ child' = child
      /\ call[c] = "opened" /\ call' = [call EXCEPT ![c] = "written"]
  BY DEF WriteNumber, Goes, stopVars
<1>2. child[c] \in Pids /\ \A d \in Callers : d # c => call'[d] = call[d]
  BY <1>1 DEF BaseInv, Pending
<1>3. Undisturbed' => stop = "idle" /\ c \in opened
  <2>1. Undisturbed => stop = "idle"
    BY <1>1, QuietStop DEF Pending
  <2> QED
    BY <1>1, <2>1 DEF BaseInv
<1>4. \A p \in Pids : Pend(p) => Pend(p)' \/ p = child[c]
  BY <1>1, <1>2 DEF Pend
<1>5. CASE c \in opened
  <2>0. PICK ms : ms = Append(ns, child[c])
    OBVIOUS
  <2>1. bytes' = bytes \o Written(child[c])
    BY <1>5 DEF WriteNumber
  <2>2. Holds(bytes', ms) /\ Range(ms) = Range(ns) \cup {child[c]} /\ Len(ms) = Len(ns) + 1
    <3>1. Holds(bytes, ns)
      BY DEF HeldInv
    <3>2. /\ Holds(bytes \o Written(child[c]), Append(ns, child[c]))
          /\ Range(Append(ns, child[c])) = Range(ns) \cup {child[c]}
          /\ Len(Append(ns, child[c])) = Len(ns) + 1
      <4>1. child[c] \in Pids
        BY <1>2
      <4> QED
        BY <3>1, <4>1, HoldsAppend
    <3> QED
      BY <2>0, <2>1, <3>2
  <2>3. q \in Nat /\ q <= Len(ms)
    <3>1. Len(ns) \in Nat
      BY HoldsLength DEF HeldInv
    <3> QED
      BY <2>2, <3>1 DEF HeldInv
  <2>4. HeldInv(ms, us, q)'
    <3>1. Range(ns) \subseteq Range(ms)
      BY <2>2
    <3>2. /\ Holds(unread, us) /\ position = 4 * q /\ process_id \in Pids \cup {0}
          /\ stop \in {"read", "kill"} => Range(us) \subseteq Range(ns)
          /\ stop = "kill" => process_id \in Range(ns)
      BY DEF HeldInv
    <3> QED
      BY <1>1, <2>2, <2>3, <3>1, <3>2 DEF HeldInv
  <2>5. KnownInv(ms, us, q)'
    <3> SUFFICES ASSUME Undisturbed', NEW p \in Pids, proc'[p] = "daemon"
                 PROVE  Known(p, ms, us, q)'
      BY DEF KnownInv
    <3>1. proc[p] = "daemon" /\ Undisturbed /\ stop = "idle"
      BY <1>1, <1>3
    <3>2. p \in Range(ns) \/ Pend(p)
      BY <3>1 DEF KnownInv, Known
    <3>3. p \in Range(ms) \/ Pend(p)'
      BY <1>4, <2>2, <3>2
    <3> QED
      BY <1>1, <3>1, <3>3 DEF Known
  <2> QED
    BY <2>4, <2>5
<1>6. CASE c \notin opened
  <2>1. bytes' = bytes
    BY <1>6 DEF WriteNumber
  <2>2. HeldInv(ns, us, q)'
    BY <1>1, <2>1, HeldKept
  <2>3. KnownInv(ns, us, q)'
    BY <1>3, <1>6 DEF KnownInv
  <2> QED
    BY <2>2, <2>3
<1> QED
  BY <1>5, <1>6

\* Nobody is ended or replaced but for the worse.
LEMMA SystemKeeps ==
  ASSUME NEW ns, NEW us, NEW q, HeldInv(ns, us, q), KnownInv(ns, us, q), BaseInv,
         Undisturbed' => Undisturbed,
         UNCHANGED vars \/ \E p \in Pids : Ends(p) \/ Starts(p)
  PROVE  HeldInv(ns, us, q)' /\ KnownInv(ns, us, q)'
<1>1. /\ bytes' = bytes /\ unread' = unread /\ position' = position
      /\ process_id' = process_id /\ stop' = stop /\ call' = call /\ child' = child
  BY DEF vars, fileVars, stopVars, Ends, Starts
<1>2. \A p \in Pids : proc'[p] = "daemon" => proc[p] = "daemon"
  <2>1. CASE UNCHANGED vars
    BY <2>1 DEF vars
  <2>2. ASSUME NEW n \in Pids, Ends(n) \/ Starts(n)
        PROVE  \A p \in Pids : proc'[p] = "daemon" => proc[p] = "daemon"
    BY <2>2 DEF Ends, Starts, BaseInv
  <2> QED
    BY <2>1, <2>2
<1>3. \A p \in Pids : Pend(p) => Pend(p)'
  BY <1>1 DEF Pend
<1>4. HeldInv(ns, us, q)'
  BY <1>1, HeldKept
<1> QED
  BY <1>1, <1>2, <1>3, <1>4, KnownKept

\* The process in hand is no daemon when kill fails for good.
LEMMA KillKeeps ==
  ASSUME NEW ns, NEW us, NEW q, HeldInv(ns, us, q), KnownInv(ns, us, q), BaseInv,
         Undisturbed' => Undisturbed,
         Kill \/ KillFails
  PROVE  HeldInv(ns, us, q)' /\ KnownInv(ns, us, q)'
<1>1. /\ bytes' = bytes /\ unread' = unread /\ position' = position
      /\ process_id' = process_id /\ stop = "kill" /\ stop' \in {"kill", "read"}
      /\ call' = call /\ child' = child
  BY DEF fileVars, Kill, KillFails
<1>2. HeldInv(ns, us, q)'
  BY <1>1, HeldKept
<1>3. \A p \in Pids : proc'[p] = "daemon" => proc[p] = "daemon" /\ p # process_id
  <2>1. CASE Kill
    BY <2>1 DEF Kill, Running, BaseInv
  <2>2. CASE KillFails
    BY <2>2 DEF KillFails, Running
  <2> QED
    BY <2>1, <2>2
<1>4. KnownInv(ns, us, q)'
  <2> SUFFICES ASSUME Undisturbed', NEW p \in Pids, proc'[p] = "daemon"
               PROVE  Known(p, ns, us, q)'
    BY DEF KnownInv
  <2>1. proc[p] = "daemon" /\ p # process_id /\ Known(p, ns, us, q)
    BY <1>3 DEF KnownInv
  <2>2. p \in Range(us) \/ \E k \in q + 1 .. Len(ns) : ns[k] = p
    BY <1>1, <2>1 DEF Known
  <2> QED
    BY <1>1, <2>2 DEF Known
<1> QED
  BY <1>2, <1>4

\* A stop begins with the whole file before it.
LEMMA OpenKeeps ==
  ASSUME NEW ns, NEW us, NEW q, HeldInv(ns, us, q), KnownInv(ns, us, q), BaseInv', StopOpens,
         Undisturbed' => Undisturbed
  PROVE  HeldInv(ns, <<>>, 0)' /\ KnownInv(ns, <<>>, 0)'
<1>1. /\ bytes' = bytes /\ unread' = <<>> /\ position' = 0 /\ process_id' = process_id
      /\ stop = "idle" /\ stop' = "read" /\ call' = call /\ child' = child /\ proc' = proc
  BY DEF StopOpens, fileVars
<1>2. /\ Holds(bytes, ns) /\ process_id \in Pids \cup {0}
      /\ Len(ns) \in Nat /\ DOMAIN ns = 1 .. Len(ns)
  BY HoldsLength DEF HeldInv
<1>3. Range(<<>>) \subseteq Range(ns)
  BY DEF Range
<1>4. HeldInv(ns, <<>>, 0)'
  <2>1. Holds(bytes', ns) /\ Holds(unread', <<>>)
    BY <1>1, <1>2, HoldsNothing
  <2>2. 0 \in Nat /\ 0 <= Len(ns) /\ position' = 4 * 0
    BY <1>1, <1>2
  <2> QED
    BY <1>1, <1>2, <1>3, <2>1, <2>2 DEF HeldInv
<1>5. KnownInv(ns, <<>>, 0)'
  <2> SUFFICES ASSUME Undisturbed', NEW p \in Pids, proc'[p] = "daemon"
               PROVE  Known(p, ns, <<>>, 0)'
    BY DEF KnownInv
  <2>1. ~ Pend(p)
    <3>1. \A c \in Callers : call'[c] \notin Pending
      BY <1>1, QuietStopNext
    <3> QED
      BY <1>1, <3>1 DEF Pend
  <2>2. p \in Range(ns)
    BY <1>1, <2>1 DEF KnownInv, Known
  <2>3. \E k \in 0 + 1 .. Len(ns) : ns[k] = p
    BY <1>2, <2>2 DEF Range
  <2> QED
    BY <1>1, <2>3 DEF Known
<1> QED
  BY <1>4, <1>5

\* It ends with an empty file, and with no daemon.
LEMMA RemoveKeeps ==
  ASSUME NEW ns, NEW us, NEW q, HeldInv(ns, us, q), KnownInv(ns, us, q), StopRemoves,
         Undisturbed' => Undisturbed
  PROVE  HeldInv(<<>>, us, 0)' /\ KnownInv(<<>>, us, 0)'
<1>1. /\ bytes' = <<>> /\ unread' = unread /\ position' = 0 /\ process_id' = process_id
      /\ stop = "remove" /\ stop' = "idle" /\ proc' = proc
  BY DEF StopRemoves
<1>2. HeldInv(<<>>, us, 0)'
  <2>1. Holds(bytes', <<>>) /\ Holds(unread', us) /\ process_id' \in Pids \cup {0}
    BY <1>1, HoldsNothing DEF HeldInv
  <2>2. 0 \in Nat /\ 0 <= Len(<<>>) /\ position' = 4 * 0
    BY <1>1
  <2> QED
    BY <1>1, <2>1, <2>2 DEF HeldInv
<1>3. KnownInv(<<>>, us, 0)'
  BY <1>1 DEF KnownInv, Known
<1> QED
  BY <1>2, <1>3

\* What a read finds in the buffer, and how far it has the file then.
Ahead == IF unread = <<>> THEN SubSeq(bytes, position + 1, Len(bytes)) ELSE unread
Taken == IF unread = <<>> THEN Len(bytes) ELSE position

\* That, the numbers rs and those behind the first m of the file, is all that
\* is left to stop.
LEMMA Buffer ==
  ASSUME NEW ns, NEW us, NEW q, HeldInv(ns, us, q), KnownInv(ns, us, q), stop = "read"
  PROVE  \E rs, m :
           /\ Holds(Ahead, rs) /\ Range(rs) \subseteq Range(ns)
           /\ m \in Nat /\ m <= Len(ns) /\ (Ahead = <<>> => m = Len(ns))
           /\ Taken = 4 * m
           /\ Undisturbed => \A p \in Pids : proc[p] = "daemon" =>
                p \in Range(rs) \/ \E k \in m + 1 .. Len(ns) : ns[k] = p
<1>0. /\ Holds(bytes, ns) /\ Holds(unread, us) /\ q \in Nat /\ q <= Len(ns) /\ position = 4 * q
      /\ Range(us) \subseteq Range(ns)
  BY DEF HeldInv
<1>1. Len(ns) \in Nat /\ DOMAIN ns = 1 .. Len(ns) /\ Len(bytes) = 4 * Len(ns)
  BY <1>0, HoldsLength DEF Holds
<1>2. Undisturbed => \A p \in Pids : proc[p] = "daemon" =>
        p \in Range(us) \/ \E k \in q + 1 .. Len(ns) : ns[k] = p
  BY DEF KnownInv, Known
<1>3. CASE unread = <<>>
  <2>0. PICK rs : rs = SubSeq(ns, q + 1, Len(ns))
    OBVIOUS
  <2>1. Range(us) = {}
    <3>1. us = <<>>
      BY <1>0, <1>3, HoldsLength
    <3> QED
      BY <3>1 DEF Range
  <2>2. Ahead = SubSeq(bytes, 4 * q + 1, Len(bytes)) /\ Taken = Len(bytes)
    BY <1>0, <1>3 DEF Ahead, Taken
  <2>3. Holds(Ahead, rs) /\ Len(rs) = Len(ns) - q /\ \A k \in 1 .. Len(ns) - q : rs[k] = ns[q + k]
    BY <1>0, <2>0, <2>2, HoldsRest
  <2>4. DOMAIN rs = 1 .. Len(ns) - q
    BY <2>3, HoldsLength
  <2>5. Range(rs) \subseteq Range(ns)
    <3>1. ASSUME NEW k \in 1 .. Len(ns) - q PROVE rs[k] \in Range(ns)
      <4>1. q + k \in 1 .. Len(ns)
        BY <1>0, <1>1
      <4> QED
        BY <1>1, <2>3, <4>1 DEF Range
    <3> QED
      BY <2>4, <3>1 DEF Range
  <2>6. ASSUME NEW k \in q + 1 .. Len(ns) PROVE ns[k] \in Range(rs)
    <3>1. k - q \in 1 .. Len(ns) - q /\ q + (k - q) = k
      BY <1>0, <1>1
    <3>2. rs[k - q] = ns[k]
      BY <2>3, <3>1
    <3> QED
      BY <2>4, <3>1, <3>2 DEF Range
  <2>7. Undisturbed => \A p \in Pids : proc[p] = "daemon" => p \in Range(rs)
    BY <1>2, <2>1, <2>6
  <2>8. Len(ns) <= Len(ns) /\ Len(bytes) = 4 * Len(ns)
    BY <1>1
  <2> QED
    BY <1>1, <2>2, <2>3, <2>5, <2>7, <2>8
<1>4. CASE unread # <<>>
  <2>1. Ahead = unread /\ Taken = position
    BY <1>4 DEF Ahead, Taken
  <2> QED
    BY <1>0, <1>2, <1>4, <2>1
<1> QED
  BY <1>3, <1>4

LEMMA ReadKeeps ==
  ASSUME NEW ns, NEW us, NEW q, HeldInv(ns, us, q), KnownInv(ns, us, q), StopReads,
         Undisturbed' => Undisturbed
  PROVE  \E vs, m : HeldInv(ns, vs, m)' /\ KnownInv(ns, vs, m)'
<1>1. PICK b : b = Ahead
  OBVIOUS
<1>2. /\ stop = "read" /\ bytes' = bytes /\ proc' = proc
      /\ position' = Taken
      /\ \/ b = <<>> /\ stop' = "remove" /\ unread' = unread /\ process_id' = process_id
         \/ /\ b # <<>> /\ stop' = "kill" /\ process_id' = ReadNumber(SubSeq(b, 1, 4))
            /\ unread' = SubSeq(b, 5, Len(b))
  BY <1>1 DEF StopReads, Ahead, Taken, fileVars
<1>r. stop = "read"
  BY <1>2
<1>m. PICK rs, m :
        /\ Holds(Ahead, rs) /\ Range(rs) \subseteq Range(ns)
        /\ m \in Nat /\ m <= Len(ns) /\ (Ahead = <<>> => m = Len(ns))
        /\ Taken = 4 * m
        /\ Undisturbed => \A p \in Pids : proc[p] = "daemon" =>
             p \in Range(rs) \/ \E k \in m + 1 .. Len(ns) : ns[k] = p
  BY <1>r, Buffer
<1>3. /\ Holds(b, rs) /\ Range(rs) \subseteq Range(ns)
      /\ m \in Nat /\ m <= Len(ns) /\ (b = <<>> => m = Len(ns))
      /\ Taken = 4 * m
      /\ Undisturbed => \A p \in Pids : proc[p] = "daemon" =>
           p \in Range(rs) \/ \E k \in m + 1 .. Len(ns) : ns[k] = p
  BY <1>1, <1>m
<1>4. /\ Holds(bytes, ns) /\ Holds(unread, us) /\ process_id \in Pids \cup {0}
      /\ position' = 4 * m
  BY <1>2, <1>3 DEF HeldInv
<1>5. CASE b = <<>>
  <2>1. HeldInv(ns, us, m)'
    BY <1>2, <1>3, <1>4, <1>5 DEF HeldInv
  <2>2. Undisturbed => \A p \in Pids : proc[p] # "daemon"
    <3>1. Range(rs) = {}
      <4>1. rs = <<>>
        BY <1>3, <1>5, HoldsLength
      <4> QED
        BY <4>1 DEF Range
    <3>2. ~ \E k \in m + 1 .. Len(ns) : TRUE
      BY <1>3, <1>5
    <3> QED
      BY <1>3, <3>1, <3>2
  <2>3. KnownInv(ns, us, m)'
    BY <1>2, <2>2 DEF KnownInv
  <2> QED
    BY <2>1, <2>3
<1>6. CASE b # <<>>
  <2>0. PICK vs : vs = SubSeq(rs, 2, Len(rs))
    OBVIOUS
  <2>1. Holds(SubSeq(b, 5, Len(b)), vs) /\ Range(rs) = {rs[1]} \cup Range(vs)
    BY <1>3, <1>6, <2>0, HoldsTail
  <2>2. process_id' = rs[1] /\ stop' = "kill" /\ unread' = SubSeq(b, 5, Len(b))
    BY <1>2, <1>3, <1>6, HoldsFirst
  <2>3. rs[1] \in Pids
    BY <1>3, <1>6, HoldsFirst, HoldsLength
  <2>4. HeldInv(ns, vs, m)'
    BY <1>2, <1>3, <1>4, <2>1, <2>2, <2>3 DEF HeldInv
  <2>5. KnownInv(ns, vs, m)'
    <3> SUFFICES ASSUME Undisturbed', NEW p \in Pids, proc'[p] = "daemon"
                 PROVE  Known(p, ns, vs, m)'
      BY DEF KnownInv
    <3>1. p \in Range(rs) \/ \E k \in m + 1 .. Len(ns) : ns[k] = p
      BY <1>2, <1>3
    <3>2. p = process_id' \/ p \in Range(vs) \/ \E k \in m + 1 .. Len(ns) : ns[k] = p
      BY <2>1, <2>2, <3>1
    <3> QED
      BY <2>2, <3>2 DEF Known
  <2> QED
    BY <2>4, <2>5
<1> QED
  BY <1>2, <1>5, <1>6

LEMMA DaemonsStep == DaemonsInv /\ [Next]_vars => DaemonsInv'
<1> SUFFICES ASSUME DaemonsInv, [Next]_vars PROVE DaemonsInv'
  OBVIOUS
<1>1. BaseInv /\ BaseInv' /\ (Undisturbed' => Undisturbed)
  BY BaseStep, NextFacts DEF DaemonsInv
<1>2. PICK ns, us, q : HeldInv(ns, us, q) /\ KnownInv(ns, us, q)
  BY DEF DaemonsInv
<1>3. \E ms, vs, m : HeldInv(ms, vs, m)' /\ KnownInv(ms, vs, m)'
  <2>1. ASSUME NEW c \in Callers,
               Fork(c) \/ ForkFails(c) \/ OpenDatabase(c) \/ OpenDatabaseFails(c) \/ SetSid(c)
        PROVE  HeldInv(ns, us, q)' /\ KnownInv(ns, us, q)'
    BY <1>1, <1>2, <2>1, CallsKeep
  <2>2. ASSUME NEW c \in Callers, WriteNumber(c)
        PROVE  \E ms : HeldInv(ms, us, q)' /\ KnownInv(ms, us, q)'
    BY <1>1, <1>2, <2>2, WriteKeeps
  <2>3. ASSUME StopOpens PROVE HeldInv(ns, <<>>, 0)' /\ KnownInv(ns, <<>>, 0)'
    BY <1>1, <1>2, <2>3, OpenKeeps
  <2>4. ASSUME StopReads PROVE \E vs, m : HeldInv(ns, vs, m)' /\ KnownInv(ns, vs, m)'
    BY <1>1, <1>2, <2>4, ReadKeeps
  <2>5. ASSUME Kill \/ KillFails PROVE HeldInv(ns, us, q)' /\ KnownInv(ns, us, q)'
    BY <1>1, <1>2, <2>5, KillKeeps
  <2>6. ASSUME StopRemoves PROVE HeldInv(<<>>, us, 0)' /\ KnownInv(<<>>, us, 0)'
    BY <1>2, <1>1, <2>6, RemoveKeeps
  <2>7. ASSUME UNCHANGED vars \/ \E p \in Pids : Ends(p) \/ Starts(p)
        PROVE  HeldInv(ns, us, q)' /\ KnownInv(ns, us, q)'
    BY <1>1, <1>2, <2>7, SystemKeeps
  <2> QED
    BY <2>1, <2>2, <2>3, <2>4, <2>5, <2>6, <2>7 DEF Next, StopListeners
<1> QED
  BY <1>1, <1>3 DEF DaemonsInv

LEMMA DaemonsInvariant == Spec => []DaemonsInv
<1> QED
  BY Initially, DaemonsStep, PTL DEF Spec

----------------------------------------------------------------------------
(* The theorems.                                                           *)

\* daemons.data is a sequence of four-byte numbers at every step, and what
\* stop_listeners passes to kill is the number of a process, never one put
\* together from the bytes of two (listener.c 261-269, 296-301).
THEOREM DaemonTypes == Spec => []TypeOK
<1>1. DaemonsInv => TypeOK
  <2> SUFFICES ASSUME DaemonsInv PROVE TypeOK
    OBVIOUS
  <2>1. PICK ns, us, q : HeldInv(ns, us, q)
    BY DEF DaemonsInv
  <2>2. /\ bytes \in Seq(0 .. 255) /\ unread \in Seq(0 .. 255)
        /\ Len(bytes) \in Nat /\ Len(ns) \in Nat /\ Len(bytes) = 4 * Len(ns) /\ Len(bytes) % 4 = 0
    BY <2>1, HoldsLength DEF HeldInv, Holds
  <2>3. position \in 0 .. Len(bytes) /\ process_id \in Pids \cup {0}
    BY <2>1, <2>2 DEF HeldInv
  <2> QED
    BY <2>2, <2>3 DEF DaemonsInv, BaseInv, TypeOK
<1> QED
  BY <1>1, DaemonsInvariant, PTL

\* Every daemon can be stopped, whatever the calls of start_daemon and
\* stop_listeners, unless two of them meet or an open fails
\* (listener.c 261-269, 296-317).
THEOREM DaemonsAreKnown == Spec => []DaemonsStayKnown
<1>1. DaemonsInv => DaemonsStayKnown
  <2> SUFFICES ASSUME DaemonsInv, Undisturbed, NEW p \in Pids, proc[p] = "daemon"
               PROVE  p \in Numbers \/ \E c \in Callers : call[c] \in Pending /\ child[c] = p
    BY DEF DaemonsStayKnown, Undisturbed
  <2>1. PICK ns, us, q : HeldInv(ns, us, q) /\ KnownInv(ns, us, q)
    BY DEF DaemonsInv
  <2>2. Known(p, ns, us, q)
    BY <2>1 DEF KnownInv
  <2>3. Numbers = Range(ns) /\ DOMAIN ns = 1 .. Len(ns) /\ Len(ns) \in Nat /\ q \in Nat
    BY <2>1, HoldsNumbers, HoldsLength DEF HeldInv
  <2>4. CASE stop = "idle"
    BY <2>2, <2>3, <2>4 DEF Known, Pend
  <2>5. CASE stop # "idle"
    <3>1. \A k \in q + 1 .. Len(ns) : k \in DOMAIN ns
      BY <2>3
    <3>2. stop \in {"read", "kill"} => Range(us) \subseteq Range(ns)
      BY <2>1 DEF HeldInv
    <3>3. stop = "kill" => process_id \in Range(ns)
      BY <2>1 DEF HeldInv
    <3> QED
      BY <2>2, <2>3, <2>5, <3>1, <3>2, <3>3 DEF Known, Range
  <2> QED
    BY <2>4, <2>5
<1> QED
  BY <1>1, DaemonsInvariant, PTL

\* stop_listeners ends no process but daemons, until the number of one that
\* is gone is given out again (listener.c 265-268, 297-299).
THEOREM NobodyElseIsEnded == Spec => OthersAreSpared
<1>1. DaemonsInv => (Kill /\ "reused" \notin met => proc[process_id] = "daemon")
  <2> SUFFICES ASSUME DaemonsInv, Kill, "reused" \notin met PROVE proc[process_id] = "daemon"
    OBVIOUS
  <2>1. PICK ns, us, q : HeldInv(ns, us, q)
    BY DEF DaemonsInv
  <2>2. process_id \in Pids /\ proc[process_id] # "free" /\ stop = "kill"
    BY DEF Kill, Running
  <2>3. process_id \in Numbers
    BY <2>1, <2>2, HoldsNumbers DEF HeldInv
  <2>4. proc[process_id] # "other"
    BY <2>2, <2>3 DEF DaemonsInv, BaseInv, Meeting
  <2> QED
    BY <2>2, <2>4 DEF DaemonsInv, BaseInv
<1>2. DaemonsInv => [Kill /\ "reused" \notin met => proc[process_id] = "daemon"]_vars
  BY <1>1
<1> QED
  BY <1>2, DaemonsInvariant, PTL DEF OthersAreSpared

=============================================================================

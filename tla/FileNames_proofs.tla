-------------------------- MODULE FileNames_proofs --------------------------
(***************************************************************************)
(* Proofs about FileNames, for senders that name their files without a     *)
(* directory: numbers are used in order, and no file is opened a second    *)
(* time as long as there are no more SYNCs than numbers above the old ones.*)
(***************************************************************************)
EXTENDS FileNames, WellFoundedInduction, TLAPS

Plain == Directories \subseteq {"none"}

TypeInv ==
  /\ syncs \in 0 .. MaxSyncs
  /\ owner \in [Names -> Int]

\* Every SYNC takes at most one number of a stem, the lowest that is free, and
\* those from before are below OldNumbers.
NumbersUsed ==
  \A n \in Names : n.number # Unnumbered /\ owner[n] # Nobody =>
    n.number < syncs + OldNumbers

----------------------------------------------------------------------------
\* What the library's Min is of the free numbers.

LEMMA LeastExists ==
  ASSUME NEW S, S \subseteq Nat, S # {}
  PROVE  \E x \in S : \A y \in S : x <= y
<1> DEFINE Below == OpToRel(<, Nat)
           Pairs == {ss \in Nat \X Nat : ss[1] < ss[2]}
<1>1. IsWellFoundedOn(Below, Nat)
  BY NatLessThanWellFounded, Zenon
<1>2. Below = Pairs
  BY Zenon DEF OpToRel
<1>3. IsWellFoundedOn(Pairs, Nat)
  BY <1>1, <1>2, Zenon
<1>4. PICK x \in S : \A y \in S : ~ (<<y, x>> \in Pairs)
  <2> HIDE DEF Pairs
  <2> QED
    BY <1>3, WFMin
<1>5. \A y \in S : <<y, x>> \in Nat \X Nat
  OBVIOUS
<1>6. \A y \in S : ~ (y < x)
  BY <1>4, <1>5
<1> QED
  BY <1>6

LEMMA MinIsLeast ==
  ASSUME NEW S, S \subseteq Nat, S # {}
  PROVE  Min(S) \in S /\ \A y \in S : Min(S) <= y
BY LeastExists DEF Min

----------------------------------------------------------------------------
\* The name that a SYNC for a plain path makes the listener open: it is the
\* path's own when that is free, else the one with the lowest free number,
\* and only a stem that has none left gives up a file.

LEMMA NameParts ==
  /\ \A s, f : Name(s, f).stem = s /\ Name(s, f).number = f
  /\ \A s \in Stems, f \in 0 .. NumberLimit - 1 : Name(s, f) \in Names
  /\ \A s \in Stems : Name(s, Unnumbered) \in Names
BY DEF Names, Name

LEMMA NameOfParts == \A n \in Names : n = Name(n.stem, n.number)
BY DEF Names, Name

LEMMA NumberTypes ==
  \A n \in Names :
    /\ n.stem \in Stems
    /\ n.number # Unnumbered => n.number \in 0 .. NumberLimit - 1
    /\ n.number \in Int /\ (n.number # Unnumbered => n.number \in Nat)
BY FileNamesAssumption DEF Names, Unnumbered

Free(path) == {f \in 0 .. NumberLimit - 1 : ~ Exists(Numbered(path, f))}

LEMMA PlainPath ==
  ASSUME Plain, NEW path \in Paths
  PROVE  /\ path.name \in Names /\ path.name.number = Unnumbered
         /\ Exists(path) <=> owner[path.name] # Nobody
         /\ \A f \in 0 .. NumberLimit - 1 :
              /\ Numbered(path, f).name \in Names
              /\ Numbered(path, f).name = Name(path.name.stem, f)
              /\ Exists(Numbered(path, f)) <=> owner[Numbered(path, f).name] # Nobody
<1>1. path.dir = "none"
  BY DEF Plain, Paths
<1>2. path.name \in Names /\ path.name.number = Unnumbered
  BY DEF Paths, Names
<1>3. ASSUME NEW f \in 0 .. NumberLimit - 1
      PROVE  /\ Numbered(path, f).dir = "none"
             /\ Numbered(path, f).name = Name(path.name.stem, f)
             /\ Numbered(path, f).name \in Names
  <2>1. path.name.stem \in Stems
    BY DEF Paths
  <2>2. Numbered(path, f) = [dir |-> path.dir, name |-> Name(path.name.stem, f)]
    BY <1>1 DEF Numbered
  <2> QED
    BY <1>1, <2>1, <2>2, NameParts
<1> QED
  BY <1>1, <1>2, <1>3 DEF Exists

LEMMA ParsedName ==
  ASSUME Plain, NEW path \in Paths
  PROVE  \/ Parsed(path) = path /\ ~ Exists(path)
         \/ Parsed(path) = path /\ Free(path) = {}
         \/ \E f \in Free(path) :
              /\ Parsed(path) = Numbered(path, f)
              /\ Exists(path)
              /\ \A g \in Free(path) : f <= g
<1>1. Free(path) \subseteq Nat
  BY FileNamesAssumption DEF Free
<1>2. Parsed(path) = IF Exists(path) /\ Free(path) # {}
                     THEN Numbered(path, Min(Free(path))) ELSE path
  BY DEF Parsed, Free
<1>3. CASE Exists(path) /\ Free(path) # {}
  BY <1>1, <1>2, <1>3, MinIsLeast
<1>4. CASE ~ (Exists(path) /\ Free(path) # {})
  BY <1>2, <1>4
<1> QED
  BY <1>3, <1>4

----------------------------------------------------------------------------
LEMMA TypeStep ==
  ASSUME Plain, TypeInv, [Next]_vars
  PROVE  TypeInv'
<1>1. CASE UNCHANGED vars
  BY <1>1 DEF TypeInv, vars
<1>2. ASSUME NEW path \in Paths, ReceiveSync(path)
      PROVE  TypeInv'
  <2>1. syncs' \in 0 .. MaxSyncs
    BY <1>2, FileNamesAssumption DEF TypeInv, ReceiveSync
  <2>2. syncs + 1 \in Int
    BY FileNamesAssumption DEF TypeInv
  <2>3. owner' \in [Names -> Int]
    BY <1>2, <2>2 DEF TypeInv, ReceiveSync
  <2> QED
    BY <2>1, <2>3 DEF TypeInv
<1> QED
  BY <1>1, <1>2 DEF Next, Idle

LEMMA TypeCorrect ==
  ASSUME Plain
  PROVE  Spec => []TypeInv
<1>1. Init => TypeInv
  BY FileNamesAssumption DEF Init, TypeInv, Older, Nobody
<1>2. TypeInv /\ [Next]_vars => TypeInv'
  BY TypeStep
<1> QED
  BY <1>1, <1>2, PTL DEF Spec

\* A received file gets the lowest number that is free, for any number of
\* SYNCs and whatever files there were before (listener.c:331-361).
THEOREM NumbersAreInOrder ==
  ASSUME Plain
  PROVE  Spec => []NumbersInOrder
<1>1. Init => NumbersInOrder
  BY DEF Init, NumbersInOrder, Nobody, Older
<1>2. TypeInv /\ NumbersInOrder /\ [Next]_vars => NumbersInOrder'
  <2> SUFFICES ASSUME TypeInv, NumbersInOrder, [Next]_vars PROVE NumbersInOrder'
    OBVIOUS
  <2>1. CASE UNCHANGED vars
    BY <2>1 DEF NumbersInOrder, vars
  <2>2. ASSUME NEW path \in Paths, ReceiveSync(path)
        PROVE  NumbersInOrder'
    <3> DEFINE new == Parsed(path).name
    <3>1. new \in Names
      BY PlainPath, ParsedName DEF Free
    <3>2. \A n \in Names : owner'[n] = IF n = new THEN syncs + 1 ELSE owner[n]
      BY <2>2, <3>1 DEF ReceiveSync, TypeInv
    <3>3. syncs + 1 # Nobody
      BY FileNamesAssumption DEF TypeInv, Nobody
    <3>4. \A n \in Names : owner[n] # Nobody => owner'[n] # Nobody
      BY <3>2, <3>3
    <3> HIDE DEF new
    <3> SUFFICES ASSUME NEW n \in Names, n.number # Unnumbered, owner'[n] > 0,
                        NEW f \in {Unnumbered} \cup 0 .. n.number - 1
                 PROVE  owner'[Name(n.stem, f)] # Nobody
      BY DEF NumbersInOrder
    <3>5. n.number \in 0 .. NumberLimit - 1 /\ Name(n.stem, f) \in Names
      <4>1. n.number \in 0 .. NumberLimit - 1 /\ n.stem \in Stems
        BY NumberTypes
      <4>2. f = Unnumbered \/ f \in 0 .. NumberLimit - 1
        BY <4>1, FileNamesAssumption
      <4> QED
        BY <4>1, <4>2, NameParts
    <3>6. CASE owner[n] > 0
      BY <3>4, <3>5, <3>6 DEF NumbersInOrder
    <3>7. CASE ~ (owner[n] > 0)
      <4>1. n = new
        BY <3>2, <3>7
      <4>2. PICK g \in Free(path) :
              Parsed(path) = Numbered(path, g) /\ Exists(path) /\ \A h \in Free(path) : g <= h
        <5>1. Parsed(path) # path
          BY <4>1, PlainPath DEF new
        <5> QED
          BY <5>1, ParsedName
      <4>3. g \in 0 .. NumberLimit - 1 /\ n = Name(path.name.stem, g) /\ n.number = g
        BY <4>1, <4>2, PlainPath, NameParts DEF new, Free
      <4>4. CASE f = Unnumbered
        <5>1. n.stem = path.name.stem
          BY <4>3, NameParts
        <5>2. path.name = Name(path.name.stem, Unnumbered)
          <6>1. path.name \in Names /\ path.name.number = Unnumbered
            BY PlainPath
          <6>2. path.name = Name(path.name.stem, path.name.number)
            BY <6>1, NameOfParts
          <6> QED
            BY <6>1, <6>2
        <5>3. Name(n.stem, f) = path.name
          BY <4>4, <5>1, <5>2
        <5> QED
          BY <5>3, <4>2, <3>4, PlainPath
      <4>5. CASE f # Unnumbered
        <5>1. f \in 0 .. NumberLimit - 1 /\ f < g
          <6>1. f \in 0 .. n.number - 1 /\ n.number = g /\ g \in Nat
            BY <4>3, <4>5, FileNamesAssumption
          <6> QED
            BY <4>3, <4>5, <6>1, FileNamesAssumption
        <5>2. f \notin Free(path)
          BY <4>2, <5>1, FileNamesAssumption DEF Free
        <5>3. owner[Numbered(path, f).name] # Nobody
          BY <5>1, <5>2, PlainPath DEF Free
        <5>4. Name(n.stem, f) = Numbered(path, f).name
          BY <4>3, <5>1, PlainPath, NameParts
        <5> QED
          BY <3>4, <3>5, <5>3, <5>4
      <4> QED
        BY <4>4, <4>5
    <3> QED
      BY <3>6, <3>7
  <2> QED
    BY <2>1, <2>2 DEF Next, Idle
<1> QED
  BY <1>1, <1>2, TypeCorrect, PTL DEF Spec

----------------------------------------------------------------------------
\* With no more SYNCs than numbers that are free no file that is there is opened again,
\* whichever names were asked for and in whatever order (listener.c:327-362,
\* 374).
THEOREM PlainFilesAreKept ==
  ASSUME Plain, MaxSyncs + OldNumbers <= NumberLimit
  PROVE  Spec => KeepsFiles
<1> DEFINE Kept == \A n \in Names : owner[n] # Nobody => owner'[n] = owner[n]
<1>1. Init => NumbersUsed
  <2> SUFFICES ASSUME Init, NEW n \in Names, n.number # Unnumbered, owner[n] # Nobody
               PROVE  n.number < syncs + OldNumbers
    BY DEF NumbersUsed
  <2> QED
    BY NumberTypes, FileNamesAssumption DEF Init, Nobody
<1>2. TypeInv /\ NumbersUsed /\ [Next]_vars => NumbersUsed' /\ [Kept]_vars
  <2> SUFFICES ASSUME TypeInv, NumbersUsed, [Next]_vars
               PROVE  NumbersUsed' /\ [Kept]_vars
    OBVIOUS
  <2>1. CASE UNCHANGED vars
    BY <2>1 DEF NumbersUsed, vars
  <2>2. ASSUME NEW path \in Paths, ReceiveSync(path)
        PROVE  NumbersUsed' /\ Kept
    <3> DEFINE next == syncs + OldNumbers
    <3>1. next \in 0 .. NumberLimit - 1 /\ syncs' + OldNumbers = next + 1 /\ next \in Nat
      BY <2>2, FileNamesAssumption DEF ReceiveSync, TypeInv
    <3>n. NumbersUsed <=> \A n \in Names : n.number # Unnumbered /\ owner[n] # Nobody => n.number < next
      BY DEF NumbersUsed
    <3> HIDE DEF next
    <3>2. next \in Free(path)
      <4>1. /\ Numbered(path, next).name \in Names
            /\ Numbered(path, next).name.number = next
        BY <3>1, PlainPath, NameParts
      <4>2. owner[Numbered(path, next).name] = Nobody
        BY <3>1, <3>n, <4>1 DEF Unnumbered
      <4> QED
        BY <3>1, <4>2, PlainPath DEF Free
    <3> DEFINE new == Parsed(path).name
    <3>3. /\ new \in Names /\ owner[new] = Nobody
          /\ new.number = Unnumbered \/ new.number <= next
      <4>1. CASE Parsed(path) = path /\ ~ Exists(path)
        BY <4>1, PlainPath
      <4>2. ASSUME NEW f \in Free(path), Parsed(path) = Numbered(path, f),
                   \A g \in Free(path) : f <= g
            PROVE  <3>3!:
        BY <3>2, <4>2, PlainPath, NameParts DEF Free
      <4> QED
        BY <3>2, <4>1, <4>2, ParsedName
    <3>4. \A n \in Names : owner'[n] = IF n = new THEN syncs + 1 ELSE owner[n]
      BY <2>2, <3>3 DEF ReceiveSync, TypeInv
    <3> HIDE DEF new
    <3>5. Kept
      BY <3>3, <3>4
    <3>6. NumbersUsed'
      <4> SUFFICES ASSUME NEW n \in Names, n.number # Unnumbered, owner'[n] # Nobody
                   PROVE  n.number < syncs' + OldNumbers
        BY DEF NumbersUsed
      <4>1. n.number \in Int
        BY NumberTypes
      <4> QED
        BY <3>1, <3>3, <3>4, <3>n, <4>1
    <3> QED
      BY <3>5, <3>6
  <2> QED
    BY <2>1, <2>2 DEF Next, Idle
<1> QED
  BY <1>1, <1>2, TypeCorrect, PTL DEF Spec, KeepsFiles

=============================================================================

--------------------------------- MODULE Crc ---------------------------------
(***************************************************************************)
(* The CRC that stands behind every packet (crc_32 of the library libcrc)  *)
(* and what the two receivers check with it.  A packet is built, the line  *)
(* may flip bits of it, the receiver computes crc_32 of what came and      *)
(* compares.  The sender takes every datagram for an ACK.  The listener    *)
(* goes by the type byte, which may be one of the bytes that changed: it   *)
(* says how many bytes are checked, where their remainder lies and whether *)
(* anything is checked at all.  What Packets says of a damaged packet in   *)
(* one field, ok, rests on this.                                           *)
(*                                                                         *)
(* A word is the set of its bits that are 1, so exclusive or is symmetric  *)
(* difference.  Each process has a table of its own, filled by its first   *)
(* call.  On the line bit b of byte i is bit 8 * (i - 1) + b, the          *)
(* remainder follows the bytes, low byte first (the order of the machines  *)
(* the program is built for).                                              *)
(***************************************************************************)
EXTENDS Integers, Sequences

Bits == 0 .. 31
LowBits == 0 .. 7
Words == SUBSET Bits
Bytes == SUBSET LowBits

TYPE_DATA == {}
TYPE_ACK == {0}
TYPE_SYNC == {1}
TYPE_HASH == {0, 1}
Types == {TYPE_DATA, TYPE_ACK, TYPE_SYNC, TYPE_HASH}

CONSTANTS Lengths,     \* of each type of packet: its bytes in front of the remainder
          BufferSize,  \* the bytes of client_message
          Messages,    \* the packets that are sent, without their remainders
          Flips,       \* what the line can do: the bits it flips, {} for none
          MaxDamaged   \* bound: the packets it does something to

ASSUME CrcAssumption ==
  /\ Lengths \in [Types -> Nat \ {0}]
  /\ BufferSize \in Nat /\ \A t \in Types : Lengths[t] + 4 <= BufferSize
  /\ Messages \subseteq Seq(Bytes)
  /\ \A m \in Messages : m # <<>> /\ m[1] \in Types /\ Len(m) = Lengths[m[1]]
  /\ Flips \subseteq SUBSET Nat
  /\ MaxDamaged \in Nat

Sides == {"sender", "listener"}

VARIABLES
  crc_tab32, crc_tab32_init,   \* the static variables of each process
  pc,               \* how far the packet is
  message,          \* the bytes that were sent
  client_message,   \* the listener's buffer, which keeps what lies behind a shorter packet
  is_accepted,      \* of the listener: it has taken a HASH
  input_str, a, crc,  \* of the call that runs
  CRC_remainder,    \* the last field of the packet
  flips,            \* history: what the line did to it
  registers,        \* history: the values crc had where it was built
  damaged           \* the packets the line did something to

tables == <<crc_tab32, crc_tab32_init>>
buffer == <<client_message, is_accepted>>
call == <<input_str, a, crc>>
vars == <<tables, pc, message, buffer, call, CRC_remainder, flips, registers, damaged>>

\* ACKs go from the listener to the sender, all others the other way.
Computing ==
  CASE pc = "sending" -> IF message[1] = TYPE_ACK THEN "listener" ELSE "sender"
    [] pc = "receiving" -> IF message[1] = TYPE_ACK THEN "sender" ELSE "listener"

AtRest == {"idle", "accepted", "refused", "repeated", "unknown"}

----------------------------------------------------------------------------
\* Words.

v (+) w == (v \ w) \cup (w \ v)
ShiftRight(w, n) == {b \in Bits : b + n \in w}

CRC_POLY_32 == {5, 8, 9, 15, 19, 20, 21, 23, 24, 26, 27, 29, 30, 31}
CRC_START_32 == Bits

\* One turn of the inner loop of init_crc32_tab.
Shift(w) == IF 0 \in w THEN ShiftRight(w, 1) (+) CRC_POLY_32 ELSE ShiftRight(w, 1)

\* Mutant: the inner loop stops a turn early.
Shift8Short(w) == Shift(Shift(Shift(Shift(Shift(Shift(Shift(w)))))))

\* All eight.
Shift8(w) == Shift(Shift(Shift(Shift(Shift(Shift(Shift(Shift(w))))))))

NoTable == [i \in Bytes |-> {}]
Table == [i \in Bytes |-> Shift8(i)]

\* One byte more.  The loop of crc_32 does the same.
update_crc_32(table, w, c) == ShiftRight(w, 8) (+) table[(w (+) c) \cap LowBits]

\* Mutant: the complement is that of a word of 64 bits and nothing cuts it.
FinalWide(w) == w (+) (0 .. 63)

Final(w) == w (+) Bits

----------------------------------------------------------------------------
\* crc_32, up to its loop.

\* Mutant: the table counts as filled but is not.
init_crc32_tab_Flag(side) ==
  /\ crc_tab32_init' = [crc_tab32_init EXCEPT ![side] = TRUE]
  /\ crc_tab32' = crc_tab32

init_crc32_tab(side) ==
  /\ crc_tab32_init' = [crc_tab32_init EXCEPT ![side] = TRUE]
  /\ crc_tab32' = [crc_tab32 EXCEPT ![side] = Table]

\* Mutant: the first call fills the table when it has used it.
CallLate(side, bytes) ==
  /\ IF crc_tab32_init[side] THEN init_crc32_tab(side) ELSE init_crc32_tab_Flag(side)
  /\ input_str' = bytes
  /\ a' = 0
  /\ crc' = CRC_START_32

Call(side, bytes) ==
  /\ IF crc_tab32_init[side] THEN UNCHANGED tables ELSE init_crc32_tab(side)
  /\ input_str' = bytes
  /\ a' = 0
  /\ crc' = CRC_START_32

----------------------------------------------------------------------------
\* A packet is built, the first one or one after another.

Send ==
  /\ pc \in AtRest
  /\ pc' = "sending"
  /\ \E m \in Messages :
       /\ message' = m
       /\ Call(IF m[1] = TYPE_ACK THEN "listener" ELSE "sender", m)
  /\ registers' = <<CRC_START_32>>
  /\ flips' = {}
  /\ UNCHANGED <<buffer, CRC_remainder, damaged>>

\* Every transfer has a sender process of its own, whose table is yet to be
\* filled; the listener's goes on.
NewSender ==
  /\ pc \in AtRest
  /\ crc_tab32' = [crc_tab32 EXCEPT !["sender"] = NoTable]
  /\ crc_tab32_init' = [crc_tab32_init EXCEPT !["sender"] = FALSE]
  /\ UNCHANGED <<pc, message, buffer, call, CRC_remainder, flips, registers, damaged>>

NextByte ==
  /\ pc \in {"sending", "receiving"}
  /\ a < Len(input_str)
  /\ crc' = update_crc_32(crc_tab32[Computing], crc, input_str[a + 1])
  /\ a' = a + 1
  /\ registers' = IF pc = "sending" THEN Append(registers, crc') ELSE registers
  /\ UNCHANGED <<tables, pc, message, buffer, input_str, CRC_remainder, flips, damaged>>

Sent ==
  /\ pc = "sending"
  /\ a = Len(input_str)
  /\ CRC_remainder' = Final(crc)
  /\ pc' = "wire"
  /\ UNCHANGED <<tables, message, buffer, call, flips, registers, damaged>>

----------------------------------------------------------------------------
\* The line, and what is called on what it delivers.

ByteOf(w, k) == {b \in LowBits : 8 * k + b \in w}

PacketBytes(m, remainder) ==
  [i \in 1 .. Len(m) + 4 |-> IF i <= Len(m) THEN m[i] ELSE ByteOf(remainder, i - Len(m) - 1)]

FlippedBytes(bytes, f) == [i \in DOMAIN bytes |-> bytes[i] (+) ByteOf(f, i - 1)]

\* The four bytes behind the first n, as a word.
Remainder(bytes, n) == {b \in Bits : \E k \in 0 .. 3 : b - 8 * k \in bytes[n + 1 + k]}

\* The receiver checks the first n of its bytes.
Check(side, bytes, n) ==
  /\ pc' = "receiving"
  /\ Call(side, [i \in 1 .. n |-> bytes[i]])
  /\ CRC_remainder' = Remainder(bytes, n)

\* The listener ends the round without a look at the remainder.
NoCheck(outcome) ==
  /\ pc' = outcome
  /\ UNCHANGED <<tables, call, CRC_remainder>>

\* The sender asks for as many bytes as an ACK has and reads no type.
ReceiveAck(bytes) ==
  /\ message[1] = TYPE_ACK
  /\ Check("sender", bytes, Lengths[TYPE_ACK])
  /\ UNCHANGED buffer

\* The listener.  An ACK it takes for an unknown type.
ReceivePacket(bytes) ==
  /\ message[1] # TYPE_ACK
  /\ client_message' = [i \in 1 .. BufferSize |->
                          IF i \in DOMAIN bytes THEN bytes[i] ELSE client_message[i]]
  /\ \/ /\ bytes[1] \in {TYPE_DATA, TYPE_SYNC, TYPE_HASH}
        /\ bytes[1] = TYPE_HASH => ~ is_accepted
        /\ Check("listener", client_message', Lengths[bytes[1]])
     \/ /\ bytes[1] = TYPE_HASH /\ is_accepted
        /\ NoCheck("repeated")
     \/ /\ bytes[1] \notin {TYPE_DATA, TYPE_SYNC, TYPE_HASH}
        /\ NoCheck("unknown")
  /\ UNCHANGED is_accepted

Arrives ==
  /\ pc = "wire"
  /\ \E f \in Flips :
       /\ f # {} => damaged < MaxDamaged
       /\ damaged' = IF f = {} THEN damaged ELSE damaged + 1
       /\ flips' = f
       /\ LET bytes == FlippedBytes(PacketBytes(message, CRC_remainder), f)
          IN  ReceiveAck(bytes) \/ ReceivePacket(bytes)
  /\ UNCHANGED <<message, registers>>

\* compare_hash, the other half of the check of a HASH, returns 1 always.
Compare ==
  /\ pc = "receiving"
  /\ a = Len(input_str)
  /\ pc' = IF Final(crc) = CRC_remainder THEN "accepted" ELSE "refused"
  /\ is_accepted' = (is_accepted \/ (pc' = "accepted" /\ message[1] # TYPE_ACK
                                                     /\ input_str[1] = TYPE_HASH))
  /\ UNCHANGED <<tables, message, client_message, call, CRC_remainder, flips, registers, damaged>>

Init ==
  /\ crc_tab32 = [s \in Sides |-> NoTable]
  /\ crc_tab32_init = [s \in Sides |-> FALSE]
  /\ pc = "idle"
  /\ message = <<>> /\ input_str = <<>> /\ a = 0
  /\ client_message = [i \in 1 .. BufferSize |-> {}] /\ is_accepted = FALSE
  /\ crc = {} /\ CRC_remainder = {}
  /\ flips = {} /\ registers = <<>> /\ damaged = 0

Next == NewSender \/ Send \/ NextByte \/ Sent \/ Arrives \/ Compare

Spec == Init /\ [][Next]_vars

TypeOK ==
  /\ crc_tab32 \in [Sides -> [Bytes -> Words]]
  /\ crc_tab32_init \in [Sides -> BOOLEAN]
  /\ pc \in AtRest \cup {"sending", "wire", "receiving"}
  /\ message \in Seq(Bytes) /\ input_str \in Seq(Bytes)
  /\ client_message \in [1 .. BufferSize -> Bytes] /\ is_accepted \in BOOLEAN
  /\ a \in 0 .. Len(input_str)
  /\ crc \in Words /\ CRC_remainder \in Words
  /\ flips \in SUBSET Nat
  /\ registers \in Seq(Words)
  /\ damaged \in 0 .. MaxDamaged

----------------------------------------------------------------------------
\* A packet that no bit of was flipped is accepted: the two processes agree on
\* its remainder, whichever of them had filled its table before and whatever
\* an earlier packet, damaged or not, has left in the buffer.  Only a HASH may
\* be answered without a look at it.
IntactIsAccepted ==
  flips = {} => /\ pc \notin {"refused", "unknown"}
                /\ pc = "repeated" => message[1] = TYPE_HASH

\* A byte taken in bit by bit, the low one first, as the division of
\* polynomials that defines the CRC has it.
TakeBit(w, c, b) == Shift(IF b \in c THEN w (+) {0} ELSE w)
TakeByte(w, c) ==
  TakeBit(TakeBit(TakeBit(TakeBit(TakeBit(TakeBit(TakeBit(TakeBit(
    w, c, 0), c, 1), c, 2), c, 3), c, 4), c, 5), c, 6), c, 7)

\* The remainder computed with the table, in whichever call it was filled, is
\* the remainder of that division (crc32.c 64-73, 110-131).
RemainderIsBitwise ==
  pc = "wire" =>
    /\ Len(registers) = Len(message) + 1
    /\ registers[1] = CRC_START_32
    /\ \A k \in 1 .. Len(message) : registers[k + 1] = TakeByte(registers[k], message[k])
    /\ CRC_remainder = Final(registers[Len(message) + 1])

\* The flipped bits lie within 32 that follow each other on the line; s is the
\* first of them, n the bytes of the packet.
Burst(f, n) ==
  \E s \in f : f \subseteq s .. s + 31 /\ s < 8 * (n + 4)

\* A packet damaged so, in its bytes, its remainder or across both, is taken
\* only by a listener that took its type for another one (listener.c 101, 135,
\* 179): over the bytes of the type that was sent the check always notices,
\* however many they are.  A damaged ACK is never taken (sender.c 182, 333).
\* (What a listener that has accepted a HASH takes for another one it confirms
\* unchecked, see ConfirmedIsCorrect.)
BurstIsNoticed ==
  Burst(flips, Len(message)) /\ pc = "accepted" =>
    message[1] # TYPE_ACK /\ input_str[1] # message[1]

\* packets.h:25 says of the state in an ACK: "11111111 if packet is correct
\* 00000000 otherwise."  Here of the answer the listener gives once it has
\* accepted a HASH, to every packet whose type byte says HASH (listener.c 186).
\* The code does not keep it: TLC finds it violated, see the README.
ConfirmedIsCorrect == pc = "repeated" => flips = {}

=============================================================================

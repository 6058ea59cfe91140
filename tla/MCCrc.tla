------------------------------- MODULE MCCrc -------------------------------
(***************************************************************************)
(* Crc on short packets of every type and on bursts of several lengths and *)
(* shapes at every place of them.                                          *)
(***************************************************************************)
EXTENDS Crc, FiniteSets

Byte(k) == {b \in LowBits : (k \div 2^b) % 2 = 1}

ShortLengths ==
  [t \in Types |-> CASE t = TYPE_DATA -> 7 [] t = TYPE_SYNC -> 3
                     [] t = TYPE_HASH -> 2 [] t = TYPE_ACK -> 1]

\* crc_32 with a given table, in one go.
CrcWith(table, s) ==
  LET register[k \in 0 .. Len(s)] ==
        IF k = 0 THEN CRC_START_32 ELSE update_crc_32(table, register[k - 1], s[k])
  IN  Final(register[Len(s)])

\* A HASH and a block of a file that holds its bytes: one flipped bit too many
\* in the type byte, and the block is a HASH.
Hash == <<TYPE_HASH, Byte(199)>>
HashInBlock == PacketBytes(Hash, CrcWith(Table, Hash))
Block == <<TYPE_DATA>> \o Tail(HashInBlock) \o <<Byte(90)>>

PacketsOfEachType == {Block, <<TYPE_SYNC, Byte(49), Byte(50)>>, Hash, <<TYPE_ACK>>}

\* The first and the last bit of a burst, and what lies between them.
Shapes(s, n) ==
  {{s} \cup (s + n - 1 .. s + n - 1) \cup between :
     between \in {{}, {b \in s .. s + n - 1 : b % 3 = 0}}}

\* The generator is 33 bits long and shifted it is the smallest damage that
\* goes unnoticed, so no longer burst could be promised.
Generator == {0} \cup {b + 1 : b \in CRC_POLY_32}

Damages ==
  {{}, Generator} \cup UNION {Shapes(s, n) : s \in 0 .. 8 * 11 - 1, n \in {1, 2, 32}}

\* The remainders that test/testcrc.c:61-64 expects of the strings
\* "123456789", " " and "", 0xCBF43926, 0xE96CCF45 and 0: the constants, the
\* final exclusive or and the order of the bits are those of the common CRC-32,
\* in every process that has filled its table.
Word(b3, b2, b1, b0) ==
  {b \in Bits : (<<b0, b1, b2, b3>>[b \div 8 + 1] \div 2^(b % 8)) % 2 = 1}

KnownAnswers ==
  pc = "wire" =>
    \A s \in Sides : crc_tab32_init[s] =>
      /\ CrcWith(crc_tab32[s], [i \in 1 .. 9 |-> Byte(48 + i)]) = Word(203, 244, 57, 38)
      /\ CrcWith(crc_tab32[s], <<Byte(32)>>) = Word(233, 108, 207, 69)
      /\ CrcWith(crc_tab32[s], <<>>) = {}

=============================================================================

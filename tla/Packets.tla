------------------------------ MODULE Packets ------------------------------
(***************************************************************************)
(* The packets of the protocol (packets.h) and the cutting of the source   *)
(* file into DATA packets (sender.c, lines 257-289).                       *)
(*                                                                         *)
(* Abstractions.  A packet is a record; its CRC is the field ok, TRUE when *)
(* the remainder matches the bytes before it.  A damaged packet keeps only *)
(* its (possibly changed) type byte.  That the check then fails is proved  *)
(* in Crc_proofs of damage within 32 bits, in an ACK or in a packet whose  *)
(* type byte stays what it was; of other damage it is taken for granted.   *)
(* The contents of a file are the index of the transfer the file belongs   *)
(* to; block k of it is the 1011 bytes that DATA packet k carries.         *)
(***************************************************************************)
EXTENDS Integers, Sequences

CONSTANTS LastPacket,   \* index of the packet whose fread meets the end of file
          MaxSessions   \* bound: transfers a user runs, one process after another

\* packet_n travels in 31 bits, its top bit is the "last packet" flag.  One
\* more packet than LastPacket can be numbered, see SendNewPacket.
ASSUME PacketsAssumption ==
  /\ LastPacket \in 0 .. 2 * (2^30 - 1)
  /\ MaxSessions \in Nat \ {0}

Files == 1 .. MaxSessions        \* the file of each transfer
PacketNs == 0 .. LastPacket + 1  \* the packet numbers a sender can put on the wire
Blocks == 0 .. LastPacket        \* the blocks of a file that hold its bytes

\* feof after fseek and fread of packet n.  A file whose size is a multiple
\* of the packet's data ends in an empty packet LastPacket.
AtEof(n) == n >= LastPacket

SyncPacket(f) == [type |-> "SYNC", ok |-> TRUE, file |-> f]
DataPacket(f, n) == [type |-> "DATA", ok |-> TRUE, file |-> f, n |-> n, last |-> AtEof(n)]
HashPacket(f) == [type |-> "HASH", ok |-> TRUE, file |-> f]
AckPacket(n, last, state) == [type |-> "ACK", ok |-> TRUE, n |-> n, last |-> last, state |-> state]
Damaged(t) == [type |-> t, ok |-> FALSE]

CONFIRM_CODE == "confirm"
NEGATIVE_CODE == "negative"

\* The type bytes the listener tells apart; OTHER is any unknown value.
ListenerTypes == {"SYNC", "DATA", "HASH", "OTHER"}

\* Everything that can wait for the listener, and for the sender.
ListenerPackets ==
       [type : {"SYNC", "HASH"}, ok : {TRUE}, file : Files]
  \cup [type : {"DATA"}, ok : {TRUE}, file : Files, n : PacketNs, last : BOOLEAN]
  \cup [type : ListenerTypes, ok : {FALSE}]

SenderPackets ==
       [type : {"ACK"}, ok : {TRUE}, n : PacketNs, last : BOOLEAN,
        state : {CONFIRM_CODE, NEGATIVE_CODE}]
  \cup [type : {"ACK"}, ok : {FALSE}]

\* An ACK the sender believes: right CRC and a positive state.
Confirms(p) == p.ok /\ p.state = CONFIRM_CODE

=============================================================================

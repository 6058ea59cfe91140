------------------------------ MODULE Listener ------------------------------
(***************************************************************************)
(* The listening process (listener.c): one loop that receives a datagram,  *)
(* handles it to the end and answers it.  One action per kind of datagram. *)
(*                                                                         *)
(* content is the file that was opened last as its stream sees it: for     *)
(* each block, the transfer its bytes come from, or Hole.  unflushed is    *)
(* the block whose bytes are still in the stdio buffer only; fseek and     *)
(* fclose flush it, and a process that dies loses it.  An earlier file is  *)
(* not kept: its stream is leaked and nothing writes to it again.          *)
(***************************************************************************)
EXTENDS Network

CONSTANT LocalPort   \* the port the sender is bound to (option --port)

ASSUME ListenerAssumption == LocalPort \in 0 .. 2^16 - 1

VARIABLES
  listening,     \* the process runs
  handle,        \* data_owner->file: never set, open or closed
  is_accepted,
  owner,         \* the transfer whose SYNC opened the file, 0 if none
  content,
  unflushed,
  opens          \* history: calls of setup_data_file, 2 stands for "many"

fileVars == <<owner, content, unflushed, opens>>
listenerVars == <<listening, handle, is_accepted, fileVars>>

Hole == 0
NoBlock == -1
EmptyFile == [k \in Blocks |-> Hole]

ListenerTypeOK ==
  /\ listening \in BOOLEAN
  /\ handle \in {"unset", "open", "closed"}
  /\ is_accepted \in BOOLEAN
  /\ owner \in Files \cup {0}
  /\ content \in [Blocks -> Files \cup {Hole}]
  /\ unflushed \in Blocks \cup {NoBlock}
  /\ opens \in 0 .. 2

ListenerInit ==
  /\ listening = TRUE
  /\ handle = "unset"
  /\ is_accepted = FALSE
  /\ owner = 0
  /\ content = EmptyFile
  /\ unflushed = NoBlock
  /\ opens = 0

\* Answers go to client_port.  It starts as 5010 and every SYNC, whose
\* sender_port the sender fills with the same constant, sets it to 5010.
client_port == 5010

Reply(ack) ==
  toSender' = IF client_port = LocalPort THEN Append(toSender, ack) ELSE toSender

\* recvfrom takes the oldest datagram.
Receive ==
  /\ listening
  /\ toListener # <<>>
  /\ toListener' = Tail(toListener)
Packet == Head(toListener)

----------------------------------------------------------------------------
\* Mutant: the file is opened for appending and keeps what it has.
ReceiveSyncAppends ==
  /\ Receive
  /\ Packet.ok /\ Packet.type = "SYNC"
  /\ Reply(AckPacket(0, FALSE, CONFIRM_CODE))
  /\ handle' = "open"
  /\ owner' = Packet.file
  /\ unflushed' = NoBlock
  /\ opens' = IF opens = 0 THEN 1 ELSE 2
  /\ UNCHANGED <<faults, listening, is_accepted, content>>

\* A SYNC with a right CRC is confirmed first, then the file is opened.  The
\* stream of an earlier file is dropped without fclose, and is_accepted keeps
\* its value.
ReceiveSync ==
  /\ Receive
  /\ Packet.ok /\ Packet.type = "SYNC"
  /\ Reply(AckPacket(0, FALSE, CONFIRM_CODE))
  /\ handle' = "open"
  /\ owner' = Packet.file
  /\ content' = EmptyFile
  /\ unflushed' = NoBlock
  /\ opens' = IF opens = 0 THEN 1 ELSE 2
  /\ UNCHANGED <<faults, listening, is_accepted>>

\* setup_data_file cannot open the file: the process exits, the ACK is out.
\* exit flushes the stream of an earlier file.
ReceiveSyncOpenFails ==
  /\ Receive
  /\ Packet.ok /\ Packet.type = "SYNC"
  /\ Fault("openfail")
  /\ Reply(AckPacket(0, FALSE, CONFIRM_CODE))
  /\ listening' = FALSE
  /\ unflushed' = NoBlock
  /\ opens' = IF opens = 0 THEN 1 ELSE 2
  /\ UNCHANGED <<handle, is_accepted, owner, content>>

\* Mutant: without fseek a block lands behind the ones the file already has.
WriteBlockAtEnd(f, n) ==
  LET end == Cardinality({k \in Blocks : content[k] # Hole}) IN
  /\ content' = [k \in Blocks |-> IF k = end THEN f ELSE content[k]]
  /\ unflushed' = IF end \in Blocks THEN end ELSE NoBlock

\* fseek flushes what the last fwrite left in the buffer, fwrite puts the
\* block at its place.  The empty packet after the last block writes nothing;
\* bytes the file has already need no second flush.
WriteBlock(f, n) ==
  /\ content' = [k \in Blocks |-> IF k = n THEN f ELSE content[k]]
  /\ unflushed' = IF n \notin Blocks THEN NoBlock
                  ELSE IF content[n] = f THEN NoBlock ELSE n

ReceiveData ==
  /\ Receive
  /\ Packet.ok /\ Packet.type = "DATA"
  /\ handle = "open"
  /\ WriteBlock(Packet.file, Packet.n)
  /\ Reply(AckPacket(Packet.n, Packet.last, CONFIRM_CODE))
  /\ UNCHANGED <<faults, listening, handle, is_accepted, owner, opens>>

\* The stream is a wild or a closed one, which C leaves undefined: the
\* process dies, or the write goes nowhere and the packet is confirmed.
ReceiveDataNoFile ==
  /\ Receive
  /\ Packet.ok /\ Packet.type = "DATA"
  /\ handle # "open"
  /\ \/ listening' = FALSE /\ UNCHANGED toSender
     \/ UNCHANGED listening /\ Reply(AckPacket(Packet.n, Packet.last, CONFIRM_CODE))
  /\ UNCHANGED <<faults, handle, is_accepted, fileVars>>

\* compare_hash reads the file but compares nothing: it returns 1.
compare_hash(f) == TRUE

\* Mutant: the file is accepted and left open.
ReceiveHashLeavesOpen ==
  /\ Receive
  /\ Packet.ok /\ Packet.type = "HASH"
  /\ handle = "open" /\ ~is_accepted
  /\ is_accepted' = TRUE
  /\ Reply(AckPacket(0, FALSE, CONFIRM_CODE))
  /\ UNCHANGED <<faults, listening, handle, fileVars>>

\* The first HASH that passes closes the file.  is_accepted is never reset.
ReceiveHash ==
  /\ Receive
  /\ Packet.ok /\ Packet.type = "HASH"
  /\ handle = "open" /\ ~is_accepted
  /\ IF compare_hash(Packet.file)
     THEN /\ is_accepted' = TRUE
          /\ handle' = "closed"
          /\ Reply(AckPacket(0, FALSE, CONFIRM_CODE))
     ELSE /\ Reply(AckPacket(0, FALSE, NEGATIVE_CODE))
          /\ UNCHANGED <<is_accepted, handle>>
  /\ unflushed' = NoBlock
  /\ UNCHANGED <<faults, listening, owner, content, opens>>

\* Mutant: a repeated HASH is compared again, with a file that is closed.
ReceiveHashAgainRefuses ==
  /\ Receive
  /\ Packet.type = "HASH"
  /\ is_accepted
  /\ Reply(AckPacket(0, FALSE, NEGATIVE_CODE))
  /\ UNCHANGED <<faults, listening, handle, is_accepted, fileVars>>

\* Once one was accepted every HASH is confirmed, before its CRC is looked at.
ReceiveHashAgain ==
  /\ Receive
  /\ Packet.type = "HASH"
  /\ is_accepted
  /\ Reply(AckPacket(0, FALSE, CONFIRM_CODE))
  /\ UNCHANGED <<faults, listening, handle, is_accepted, fileVars>>

\* No file was ever opened: fseek, fread and fclose on a wild pointer.
ReceiveHashNoFile ==
  /\ Receive
  /\ Packet.ok /\ Packet.type = "HASH"
  /\ handle = "unset" /\ ~is_accepted
  /\ \/ /\ listening' = FALSE
        /\ UNCHANGED <<toSender, handle, is_accepted>>
     \/ /\ is_accepted' = TRUE
        /\ handle' = "closed"
        /\ Reply(AckPacket(0, FALSE, CONFIRM_CODE))
        /\ UNCHANGED listening
  /\ UNCHANGED <<faults, fileVars>>

\* A wrong CRC is answered negatively, for a SYNC at the port the damaged
\* packet names.  packet_n of a negative answer is not modelled: the sender
\* only logs it.
ReceiveDamaged ==
  /\ Receive
  /\ ~Packet.ok /\ Packet.type \in {"SYNC", "DATA", "HASH"}
  /\ ~(Packet.type = "HASH" /\ is_accepted)
  /\ \/ Reply(AckPacket(0, FALSE, NEGATIVE_CODE))
     \/ Packet.type = "SYNC" /\ UNCHANGED toSender
  /\ UNCHANGED <<faults, listenerVars>>

\* "Unknown packet type": no answer.
ReceiveUnknown ==
  /\ Receive
  /\ Packet.type = "OTHER"
  /\ UNCHANGED <<toSender, faults, listenerVars>>

----------------------------------------------------------------------------
\* The user stops the program and starts it again: the socket's queue (some
\* oldest part of what is on its way), the stdio buffer and every variable of
\* the process are lost.
Restart ==
  /\ Fault("restart")
  /\ listening' = TRUE
  /\ \E k \in 0 .. Len(toListener) : toListener' = SubSeq(toListener, k + 1, Len(toListener))
  /\ handle' = "unset"
  /\ is_accepted' = FALSE
  /\ content' = [k \in Blocks |-> IF k = unflushed THEN Hole ELSE content[k]]
  /\ unflushed' = NoBlock
  /\ UNCHANGED <<toSender, owner, opens>>

\* recvfrom reports an error: the process exits, which flushes the stream.
ListenerReceiveFails ==
  /\ listening
  /\ Fault("recvfail")
  /\ listening' = FALSE
  /\ unflushed' = NoBlock
  /\ UNCHANGED <<toListener, toSender, handle, is_accepted, owner, content, opens>>

\* Nobody has the port: what arrives is thrown away.
ListenerGone ==
  /\ ~listening /\ toListener # <<>>
  /\ toListener' = Tail(toListener)
  /\ UNCHANGED <<toSender, faults, listenerVars>>

ListenerReceives ==
  \/ ReceiveSync \/ ReceiveSyncOpenFails
  \/ ReceiveData \/ ReceiveDataNoFile
  \/ ReceiveHash \/ ReceiveHashAgain \/ ReceiveHashNoFile
  \/ ReceiveDamaged \/ ReceiveUnknown

ListenerStep == ListenerReceives \/ ListenerReceiveFails \/ Restart \/ ListenerGone

=============================================================================

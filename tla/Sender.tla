------------------------------- MODULE Sender -------------------------------
(***************************************************************************)
(* The sending process (sender.c): the SYNC handshake, the DATA window     *)
(* with its retransmissions, the HASH handshake, and the recursive call of *)
(* send_DATA_packet when the HASH is answered negatively.  A step is the   *)
(* code between two system calls on the socket; the sleeps are left out.   *)
(***************************************************************************)
EXTENDS Network

CONSTANT WindowSize   \* packets_buffer_size, a uint8_t (option --n)

ASSUME SenderAssumption == WindowSize \in 0 .. 2^8 - 1

VARIABLES
  session,                \* which run of the sending program this is
  pc,                     \* where the sender is
  i,                      \* the index of both for loops over the window
  unconfirmed_packets,    \* packet waiting in each slot, or None
  first_unsent_packet_n,
  last_packet_n,
  sending,
  depth                   \* callers of send_DATA_packet that wait in their HASH loop

senderVars == <<session, pc, i, unconfirmed_packets, first_unsent_packet_n,
                last_packet_n, sending, depth>>
windowVars == <<unconfirmed_packets, first_unsent_packet_n, last_packet_n, sending>>

None == -1
Slots == 1 .. WindowSize
EmptyWindow == [s \in Slots |-> None]

SyncPhase == {"sync_send", "sync_wait"}
DataPhase == {"check", "send", "recv"}
HashPhase == {"hash_send", "hash_wait"}
Ended == {"done", "exited"}

SenderTypeOK ==
  /\ session \in Files
  /\ pc \in SyncPhase \cup DataPhase \cup HashPhase \cup Ended
  /\ i \in 1 .. WindowSize + 1
  /\ unconfirmed_packets \in [Slots -> PacketNs \cup {None}]
  /\ first_unsent_packet_n \in 0 .. LastPacket + 2
  /\ last_packet_n \in PacketNs
  /\ sending \in BOOLEAN
  /\ depth \in Nat

SenderInit ==
  /\ session = 1
  /\ pc = "sync_send"
  /\ i = 1
  /\ unconfirmed_packets = EmptyWindow
  /\ first_unsent_packet_n = 0
  /\ last_packet_n = 0
  /\ sending = TRUE
  /\ depth = 0

----------------------------------------------------------------------------
\* sendto: the datagram is on its way, or the call fails.
SendTo(packet) == toListener' = Append(toListener, packet) /\ UNCHANGED faults
SendToFails == Fault("sendfail") /\ UNCHANGED toListener

\* select and recvfrom take the oldest ACK.
TakeAck == toSender # <<>> /\ toSender' = Tail(toSender) /\ UNCHANGED <<toListener, faults>>
Ack == Head(toSender)

\* The entry of send_DATA_packet: open the file, start with an empty window.
EnterData ==
  /\ pc' = "check"
  /\ i' = 1
  /\ unconfirmed_packets' = EmptyWindow
  /\ first_unsent_packet_n' = 0
  /\ last_packet_n' = 0
  /\ sending' = TRUE

----------------------------------------------------------------------------
\* send_SYNC_packet

SendSync ==
  /\ pc = "sync_send"
  /\ \/ SendTo(SyncPacket(session)) /\ pc' = "sync_wait"
     \/ SendToFails /\ UNCHANGED pc
  /\ UNCHANGED <<toSender, session, i, depth, windowVars>>

SyncRefused ==
  /\ pc = "sync_wait"
  /\ TakeAck
  /\ ~Confirms(Ack)
  /\ pc' = "sync_send"
  /\ UNCHANGED <<session, i, depth, windowVars>>

SyncConfirmed ==
  /\ pc = "sync_wait"
  /\ TakeAck
  /\ Confirms(Ack)
  /\ EnterData
  /\ UNCHANGED <<session, depth>>

SyncTimeout ==
  /\ pc = "sync_wait"
  /\ SelectTimesOut
  /\ pc' = "sync_send"
  /\ UNCHANGED <<toListener, toSender, session, i, depth, windowVars>>

----------------------------------------------------------------------------
\* send_DATA_packet: one round of the window.

AllConfirmed == \A s \in Slots : unconfirmed_packets[s] = None

\* Mutant: the window is not looked at once the last packet is confirmed.
FinishDataEarly ==
  /\ pc = "check"
  /\ ~sending
  /\ pc' = "hash_send"
  /\ UNCHANGED <<netVars, session, i, depth, windowVars>>

\* The top of the outer loop: another round, or all was sent and confirmed.
StartRound ==
  /\ pc = "check"
  /\ ~(AllConfirmed /\ ~sending)
  /\ pc' = "send"
  /\ i' = 1
  /\ UNCHANGED <<netVars, session, depth, windowVars>>

FinishData ==
  /\ pc = "check"
  /\ AllConfirmed /\ ~sending
  /\ pc' = "hash_send"
  /\ UNCHANGED <<netVars, session, i, depth, windowVars>>

\* Mutant: nobody remembers that the last packet was read.
SendNewPacketPastEnd ==
  /\ pc = "send" /\ i <= WindowSize
  /\ unconfirmed_packets[i] = None
  /\ LET n == first_unsent_packet_n IN
     /\ SendTo(DataPacket(session, n))
     /\ unconfirmed_packets' = [unconfirmed_packets EXCEPT ![i] = n]
     /\ first_unsent_packet_n' = n + 1
  /\ i' = i + 1
  /\ UNCHANGED <<toSender, session, pc, last_packet_n, sending, depth>>

\* Mutant: the next number is lost when the packet's slot is not the first.
SendNewPacketTwice ==
  /\ pc = "send" /\ i <= WindowSize
  /\ last_packet_n = 0 /\ unconfirmed_packets[i] = None
  /\ LET n == first_unsent_packet_n IN
     /\ last_packet_n' = IF AtEof(n) THEN n ELSE last_packet_n
     /\ SendTo(DataPacket(session, n))
     /\ unconfirmed_packets' = [unconfirmed_packets EXCEPT ![i] = n]
     /\ first_unsent_packet_n' = IF i = 1 THEN n + 1 ELSE n
  /\ i' = i + 1
  /\ UNCHANGED <<toSender, session, pc, sending, depth>>

\* A free slot takes the next packet of the file.  last_packet_n is written
\* before sendto can fail, and it is 0 ("none yet") also when packet 0 is the
\* last one: then an empty packet 1 follows if there is room for it.
SendNewPacket ==
  /\ pc = "send" /\ i <= WindowSize
  /\ last_packet_n = 0 /\ unconfirmed_packets[i] = None
  /\ LET n == first_unsent_packet_n IN
     /\ last_packet_n' = IF AtEof(n) THEN n ELSE last_packet_n
     /\ \/ /\ SendTo(DataPacket(session, n))
           /\ unconfirmed_packets' = [unconfirmed_packets EXCEPT ![i] = n]
           /\ first_unsent_packet_n' = n + 1
        \/ /\ SendToFails
           /\ UNCHANGED <<unconfirmed_packets, first_unsent_packet_n>>
  /\ i' = i + 1
  /\ UNCHANGED <<toSender, session, pc, sending, depth>>

ResendPacket ==
  /\ pc = "send" /\ i <= WindowSize
  /\ unconfirmed_packets[i] # None
  /\ SendTo(DataPacket(session, unconfirmed_packets[i])) \/ SendToFails
  /\ i' = i + 1
  /\ UNCHANGED <<toSender, session, pc, depth, windowVars>>

SkipSlot ==
  /\ pc = "send" /\ i <= WindowSize
  /\ last_packet_n # 0 /\ unconfirmed_packets[i] = None
  /\ i' = i + 1
  /\ UNCHANGED <<netVars, session, pc, depth, windowVars>>

StartReceiving ==
  /\ pc = "send" /\ i > WindowSize
  /\ pc' = "recv"
  /\ i' = 1
  /\ UNCHANGED <<netVars, session, depth, windowVars>>

\* A damaged or negative ACK is only logged; it has used up one of the
\* WindowSize receptions of the round.
AckRefused ==
  /\ pc = "recv" /\ i <= WindowSize
  /\ TakeAck
  /\ ~Confirms(Ack)
  /\ i' = i + 1
  /\ UNCHANGED <<session, pc, depth, windowVars>>

\* Mutant: an ACK is taken to confirm every packet up to its number.
AckConfirmedCumulative ==
  /\ pc = "recv" /\ i <= WindowSize
  /\ TakeAck
  /\ Confirms(Ack)
  /\ unconfirmed_packets' =
       [s \in Slots |-> IF unconfirmed_packets[s] <= Ack.n THEN None ELSE unconfirmed_packets[s]]
  /\ sending' = (sending /\ ~Ack.last)
  /\ pc' = IF Ack.last THEN "check" ELSE "recv"
  /\ i' = IF Ack.last THEN i ELSE i + 1
  /\ UNCHANGED <<session, first_unsent_packet_n, last_packet_n, depth>>

\* Mutant: the ACK of the last packet leaves the sender waiting for more.
AckConfirmedKeepsSending ==
  /\ pc = "recv" /\ i <= WindowSize
  /\ TakeAck
  /\ Confirms(Ack)
  /\ unconfirmed_packets' =
       [s \in Slots |-> IF unconfirmed_packets[s] = Ack.n THEN None ELSE unconfirmed_packets[s]]
  /\ i' = i + 1
  /\ UNCHANGED <<session, pc, sending, first_unsent_packet_n, last_packet_n, depth>>

\* A positive ACK frees every slot that holds its packet number; one with the
\* "last packet" flag ends the round.
AckConfirmed ==
  /\ pc = "recv" /\ i <= WindowSize
  /\ TakeAck
  /\ Confirms(Ack)
  /\ unconfirmed_packets' =
       [s \in Slots |-> IF unconfirmed_packets[s] = Ack.n THEN None ELSE unconfirmed_packets[s]]
  /\ sending' = (sending /\ ~Ack.last)
  /\ pc' = IF Ack.last THEN "check" ELSE "recv"
  /\ i' = IF Ack.last THEN i ELSE i + 1
  /\ UNCHANGED <<session, first_unsent_packet_n, last_packet_n, depth>>

\* The round ends when no ACK comes in time or all receptions are used up.
EndRound ==
  /\ pc = "recv"
  /\ \/ i <= WindowSize /\ SelectTimesOut
     \/ i > WindowSize /\ UNCHANGED faults
  /\ pc' = "check"
  /\ UNCHANGED <<toListener, toSender, session, i, depth, windowVars>>

----------------------------------------------------------------------------
\* send_DATA_packet: the HASH handshake.

SendHash ==
  /\ pc = "hash_send"
  /\ SendTo(HashPacket(session)) \/ SendToFails
  /\ pc' = "hash_wait"
  /\ UNCHANGED <<toSender, session, i, depth, windowVars>>

HashAckDamaged ==
  /\ pc = "hash_wait"
  /\ TakeAck
  /\ ~Ack.ok
  /\ pc' = "hash_send"
  /\ UNCHANGED <<session, i, depth, windowVars>>

\* A negative answer: send_DATA_packet calls itself, this call waits.
HashRefused ==
  /\ pc = "hash_wait"
  /\ TakeAck
  /\ Ack.ok /\ Ack.state = NEGATIVE_CODE
  /\ EnterData
  /\ depth' = depth + 1
  /\ UNCHANGED session

\* A positive answer ends the call.  A caller that waits still sees its own
\* negative ACK and sends the HASH once more; the first call ends the program.
HashConfirmed ==
  /\ pc = "hash_wait"
  /\ TakeAck
  /\ Confirms(Ack)
  /\ IF depth = 0
     THEN pc' = "done" /\ UNCHANGED depth
     ELSE pc' = "hash_send" /\ depth' = depth - 1
  /\ UNCHANGED <<session, i, windowVars>>

\* Mutant: no answer to the HASH in time, and the sender goes on waiting.
HashTimeoutWaits ==
  /\ pc = "hash_wait"
  /\ SelectTimesOut
  /\ UNCHANGED <<toListener, toSender, senderVars>>

HashTimeout ==
  /\ pc = "hash_wait"
  /\ SelectTimesOut
  /\ pc' = "hash_send"
  /\ UNCHANGED <<toListener, toSender, session, i, depth, windowVars>>

----------------------------------------------------------------------------
\* recvfrom fails on a readable socket, or fopen does: the program exits.
ReceiveFails ==
  /\ pc \in {"sync_wait", "hash_wait"} \/ (pc = "recv" /\ i <= WindowSize)
  /\ toSender # <<>>
  /\ Fault("recvfail")
  /\ pc' = "exited"
  /\ UNCHANGED <<toListener, toSender, session, i, depth, windowVars>>

OpenFails ==
  /\ \/ pc = "sync_wait" /\ toSender # <<>> /\ Confirms(Ack)
     \/ pc = "hash_wait" /\ toSender # <<>> /\ Ack.ok /\ Ack.state = NEGATIVE_CODE
  /\ Fault("openfail")
  /\ toSender' = Tail(toSender)
  /\ pc' = "exited"
  /\ UNCHANGED <<toListener, session, i, depth, windowVars>>

\* The user sends another file: a new process, whose socket may still be
\* reached by what is in transit.
NextTransfer ==
  /\ pc \in Ended /\ session < MaxSessions
  /\ session' = session + 1
  /\ pc' = "sync_send"
  /\ i' = 1
  /\ unconfirmed_packets' = EmptyWindow
  /\ first_unsent_packet_n' = 0
  /\ last_packet_n' = 0
  /\ sending' = TRUE
  /\ depth' = 0
  /\ UNCHANGED netVars

\* Nobody has the port any more: what arrives is thrown away.
SenderGone ==
  /\ pc \in Ended /\ toSender # <<>>
  /\ toSender' = Tail(toSender)
  /\ UNCHANGED <<toListener, faults, senderVars>>

SenderReceives ==
  \/ SyncRefused \/ SyncConfirmed
  \/ AckRefused \/ AckConfirmed
  \/ HashAckDamaged \/ HashRefused \/ HashConfirmed

SenderRuns ==
  \/ SendSync \/ SyncTimeout
  \/ StartRound \/ FinishData
  \/ SendNewPacket \/ ResendPacket \/ SkipSlot \/ StartReceiving \/ EndRound
  \/ SendHash \/ HashTimeout

SenderStep ==
  \/ SenderRuns \/ SenderReceives
  \/ ReceiveFails \/ OpenFails \/ NextTransfer \/ SenderGone

=============================================================================

---------------------------- MODULE FileTransfer ----------------------------
(***************************************************************************)
(* The whole system: a sending process, a listening process and the        *)
(* network between them, and what is to be said about the three together.  *)
(***************************************************************************)
EXTENDS Sender, Listener

vars == <<netVars, senderVars, listenerVars>>

Init == NetInit /\ SenderInit /\ ListenerInit

\* The last transfer has ended, the listener waits for datagrams for ever.
Finished ==
  /\ pc \in Ended /\ session = MaxSessions
  /\ toListener = <<>> /\ toSender = <<>>

Idle == Finished /\ UNCHANGED vars

Next ==
  \/ SenderStep /\ UNCHANGED listenerVars
  \/ ListenerStep /\ UNCHANGED senderVars
  \/ NetworkStep /\ UNCHANGED <<senderVars, listenerVars>>
  \/ Idle

Spec == Init /\ [][Next]_vars

\* Both processes keep running; an ACK that is in transit each time the
\* sender polls is read in the end (it stays in the socket's buffer).
Fairness ==
  /\ WF_vars(SenderRuns /\ UNCHANGED listenerVars)
  /\ SF_vars(SenderReceives /\ UNCHANGED listenerVars)
  /\ WF_vars(SenderGone /\ UNCHANGED listenerVars)
  /\ WF_vars((ListenerReceives \/ ListenerGone) /\ UNCHANGED senderVars)

FairSpec == Spec /\ Fairness

----------------------------------------------------------------------------
\* Every variable has its type.
TypeOK == NetTypeOK /\ SenderTypeOK /\ ListenerTypeOK

\* Packets of this pass over the file that the sender takes for received.
Confirmed == {n \in 0 .. first_unsent_packet_n - 1 :
                \A s \in Slots : unconfirmed_packets[s] # n}

\* Block n of the file that is being sent is in the listener's file.  The
\* empty packet behind the last block has nothing to write.
Written(n) == n \in Blocks => content[n] = session
FileComplete == \A n \in Blocks : Written(n)

----------------------------------------------------------------------------
(* Safety.                                                                 *)

\* The numbers on the wire never run past the end of the file: fread stops
\* the sender at LastPacket, or one later when packet 0 is the last one and 0
\* is mistaken for "none yet" (sender.c 228, 259, 264).
NumberInv ==
  last_packet_n = 0 => \/ first_unsent_packet_n <= LastPacket
                       \/ LastPacket = 0 /\ first_unsent_packet_n = 1

\* No packet waits in two slots, and none that was never sent waits in one,
\* through every loss, retransmission and repeated pass (sender.c 227-316).
WindowInv ==
  /\ \A s \in Slots : unconfirmed_packets[s] < first_unsent_packet_n
  /\ \A s, t \in Slots : s # t /\ unconfirmed_packets[s] # None
                           => unconfirmed_packets[s] # unconfirmed_packets[t]

\* When the window is empty at the top of the loop and the sender has not seen
\* the ACK of the last packet, there is a packet left to send (sender.c
\* 246-259), unless a call to send has failed.  Otherwise its loop would spin
\* for ever.
NothingLeftBehind ==
  session = 1 /\ "sendfail" \notin faults.kinds /\ pc = "check" /\ AllConfirmed /\ sending
    => last_packet_n = 0

\* The network has made no copy and the listener was not started again, and
\* either it has opened one file only or no timer has beaten an answer.
NoCopies == faults.kinds \cap {"duplicate", "restart"} = {}
Patient == "delay" \notin faults.kinds
SafeOpening == NoCopies /\ session = 1 /\ (opens <= 1 \/ Patient)

\* As long as that is so, a packet the sender has dropped from its window is in
\* the file, whatever the network loses, damages, delays or reorders
\* (sender.c 351-355, listener.c 148-152).
ConfirmedIsWritten ==
  SafeOpening /\ pc \in DataPhase => \A n \in Confirmed : Written(n)

\* ... and the whole file is there when the sender asks for the comparison,
\* after any number of passes (sender.c 246-251, 436-443).
FinishedIsComplete ==
  SafeOpening /\ pc \in HashPhase \cup {"done"} => FileComplete

\* The network keeps the order and makes no copies.
InOrder == faults.kinds \cap {"duplicate", "reorder"} = {}

\* As long as that is so and the listener is not started again, a file opened
\* again by a late SYNC costs packet 0 at most: its number is the one in the
\* ACK of a SYNC (listener.c 106, sender.c 352).  No other packet is forgotten
\* or missing in the end, whatever is lost, late or damaged and however often
\* the file is sent.
LaterConfirmedIsWritten ==
  NoCopies /\ InOrder /\ session = 1 =>
    /\ pc \in DataPhase => \A n \in Confirmed \ {0} : Written(n)
    /\ pc \in HashPhase \cup {"done"} => \A n \in Blocks \ {0} : Written(n)

\* A line that loses and delays and does nothing else to datagrams, between
\* programs that are not started again.
OneRoute == faults.kinds \cap {"duplicate", "reorder", "corrupt", "restart"} = {}

\* On such a line no block of a first transfer reaches the listener when its
\* file is not open: not before a SYNC, not after fclose (listener.c 151-152,
\* where both are undefined behaviour).  Damage can bring one after fclose, in
\* a second pass over the file, but none before fopen.
WritesGoToOpenFile ==
  NoCopies /\ InOrder /\ session = 1 /\ listening /\ toListener # <<>>
    /\ Packet.ok /\ Packet.type = "DATA" =>
      /\ handle # "unset"
      /\ OneRoute => handle = "open"

\* A file never mixes the blocks of two transfers (listener.c 118, 151-152).
\* The SYNC of the second one is to separate them; it does not when it is lost
\* and a late ACK of the first one stands in for its answer (sender.c 190).
OneTransferPerFile ==
  \A n \in Blocks : content[n] \in {Hole, owner}

\* The other half holds on every line that keeps the order and makes no copies,
\* lost SYNCs, restarts and failed calls included: no block of an earlier
\* transfer gets into a later file (listener.c 118, 148-152).
NoStaleBlocks ==
  InOrder => \A n \in Blocks : content[n] = Hole \/ content[n] >= owner

\* A sender that reports success has had its HASH accepted, and the file it
\* sent is closed with all its bytes on disk (sender.c 441-443, listener.c
\* 186-195).  With a window of one or two packets and timers that outlast the
\* network and a file of several packets no ACK of a DATA packet is left to be
\* taken for the answer; with a window of three one may be when datagrams are
\* lost, and sender.c:442 says "The HASH packet was received successfully." all
\* the same.
DoneIsSaved == pc = "done" => is_accepted /\ handle = "closed" /\ unflushed = NoBlock

\* A sender that reports success has delivered the whole file (sender.c 108).
DoneIsComplete == pc = "done" => FileComplete

\* When the last transfer has ended, its file is closed and all its bytes have
\* left the process (listener.c 192).
FinishedIsSaved ==
  Finished /\ pc = "done" => handle = "closed" /\ unflushed = NoBlock

----------------------------------------------------------------------------
(* What makes ConfirmedIsWritten and FinishedIsComplete inductive: what     *)
(* may be in transit in each phase of the first transfer.                  *)

\* In the SYNC handshake nothing but SYNCs has been sent, and one confirmation
\* at most is on its way.
SyncInv ==
  SafeOpening /\ pc \in SyncPhase =>
    /\ depth = 0
    /\ ~is_accepted
    /\ \A k \in DOMAIN toListener : toListener[k].ok => toListener[k].type = "SYNC"
    /\ \A k \in DOMAIN toSender : Confirms(toSender[k]) => opens # 0
    /\ \A j, k \in DOMAIN toSender : Confirms(toSender[j]) /\ Confirms(toSender[k]) => j = k
    /\ listening /\ opens # 0 => handle = "open"

Transferring == DataPhase \cup HashPhase \cup {"done"}

\* A packet of this transfer: a block of its file, or the HASH of all of it.
OfTransfer(p) ==
  p.ok => /\ p.type = "DATA" => p.file = 1 /\ p.last = AtEof(p.n)
          /\ p.type = "HASH" => FileComplete

\* From then on the file is open until it is complete, every packet on its way
\* belongs to it and every confirmation on its way is of a block it has.
TransitInv ==
  SafeOpening /\ pc \in Transferring =>
    /\ opens # 0
    /\ listening => handle = "open" \/ FileComplete
    /\ is_accepted => FileComplete
    /\ \A k \in DOMAIN toListener : OfTransfer(toListener[k])
    /\ \A k \in DOMAIN toSender : Confirms(toSender[k]) => Written(toSender[k].n)

\* The "last packet" flag is on its way, to the listener or back.
FlagInTransit ==
  \/ \E k \in DOMAIN toListener : LET p == toListener[k] IN p.ok /\ p.type = "DATA" /\ p.last
  \/ \E k \in DOMAIN toSender : Confirms(toSender[k]) /\ toSender[k].last

\* The first pass does not end before the last packet was sent; any other
\* begins with a complete file.
PassInv ==
  SafeOpening /\ pc \in Transferring =>
    /\ pc \notin DataPhase \/ depth > 0 => FileComplete
    /\ \A n \in Confirmed : Written(n)
    /\ pc \in DataPhase /\ depth = 0 /\ first_unsent_packet_n <= LastPacket =>
         sending /\ ~FlagInTransit

TransferInv == SyncInv /\ TransitInv /\ PassInv

----------------------------------------------------------------------------
(* Liveness.                                                               *)

\* The sender ends in the end, with success (sender.c 108): timeouts and
\* retransmissions make up for every loss.
Completes == <>(pc = "done")

----------------------------------------------------------------------------
(* Refinement: with timers that outlast the network the system copies a    *)
(* file the way FileCopy says.                                             *)

Copy == INSTANCE FileCopy WITH
  Blocks <- Blocks,
  stored <- {n \in Blocks : content[n] = session},
  known <- Confirmed \cap Blocks,
  phase <- IF pc \in HashPhase THEN "comparing"
           ELSE IF pc = "done" THEN "accepted"
           ELSE IF pc = "exited" THEN "aborted" ELSE "copying"

\* Every step of sender and listener is a step of FileCopy or none.
CopySpec == Copy!Spec

=============================================================================

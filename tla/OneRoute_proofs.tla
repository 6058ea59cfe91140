-------------------------- MODULE OneRoute_proofs --------------------------
(***************************************************************************)
(* What a first transfer may rely on when the network keeps the order: the *)
(* channel to the listener holds SYNCs before everything else.  The first  *)
(* invariant, Line, is of a line that only loses and delays, where DATA    *)
(* packets also come before HASHes; the second, Later, is of one that      *)
(* damages datagrams, too.                                                 *)
(***************************************************************************)
EXTENDS FileTransfer_proofs

SyncsOnly == \A k \in DOMAIN toListener : toListener[k].type = "SYNC"
HashesOnly == \A k \in DOMAIN toListener : toListener[k].type = "HASH"
HashOut == \E k \in DOMAIN toListener : toListener[k].type = "HASH"

\* Nothing is damaged and nobody answers negatively.
Intact ==
  /\ \A k \in DOMAIN toListener :
       toListener[k].ok /\ (toListener[k].type = "DATA" => toListener[k].file = 1)
  /\ \A k \in DOMAIN toSender : Confirms(toSender[k])

\* SYNCs come first and HASHes last.
Phases ==
  \A j, k \in DOMAIN toListener : j <= k =>
    /\ toListener[j].type # "SYNC" => toListener[k].type # "SYNC"
    /\ toListener[j].type = "HASH" => toListener[k].type = "HASH"

Handshake ==
  pc \in SyncPhase => SyncsOnly /\ \A k \in DOMAIN toSender : toSender[k].n = 0

\* The file is open from the first answer to the first HASH.
FileOpen ==
  /\ pc \in SyncPhase \cup DataPhase => ~HashOut /\ handle # "closed" /\ ~is_accepted
  /\ handle = "closed" \/ is_accepted => HashesOnly
  /\ listening /\ (toSender # <<>> \/ pc \in Transferring \/ ~SyncsOnly) => handle # "unset"

Line == Intact /\ Phases /\ Handshake /\ FileOpen
LineInv == OneRoute /\ session = 1 => Line

----------------------------------------------------------------------------
(* Channels that lose and keep the order.                                  *)

Thinned(new, old) ==
  /\ OrderKept(new, old)
  /\ \A j \in DOMAIN new : \E k \in DOMAIN old : new[j] = old[k]

LEMMA SameThinned ==
  ASSUME NEW chan
  PROVE  Thinned(chan, chan)
BY DEF Thinned, OrderKept

LEMMA TailThinned ==
  ASSUME NEW S, NEW chan \in Seq(S), chan # <<>>
  PROVE  Thinned(Tail(chan), chan)
BY TailFacts, TailOrder DEF Thinned

LEMMA MisbehaveThinned ==
  ASSUME NEW S, NEW chan \in Seq(S), NEW new, NEW types, OneRoute', Misbehave(chan, new, types)
  PROVE  Thinned(new, chan)
<1>1. faults'.kinds \cap {"duplicate", "reorder"} = {}
  BY DEF OneRoute
<1>2. OrderKept(new, chan)
  BY <1>1, MisbehaveOrder
<1>3. Lose(chan, new)
  <2>1. \A kind : Fault(kind) => kind \in faults'.kinds
    BY DEF Fault
  <2>2. ~Fault("duplicate") /\ ~Fault("reorder") /\ ~Fault("corrupt")
    BY <2>1 DEF OneRoute
  <2> QED
    BY <2>2 DEF Misbehave, Duplicate, Overtake, Corrupt
<1>4. PICK k \in DOMAIN chan : new = Without(chan, k)
  BY <1>3 DEF Lose
<1>5. /\ new \in Seq(S) /\ Len(new) = Len(chan) - 1
      /\ \A m \in 1 .. Len(chan) - 1 : new[m] = chan[IF m < k THEN m ELSE m + 1]
  BY <1>4, WithoutFacts
<1>6. DOMAIN new = 1 .. Len(chan) - 1 /\ DOMAIN chan = 1 .. Len(chan) /\ Len(chan) \in Nat
  BY <1>5, LenProperties
<1>7. \A m \in DOMAIN new : (IF m < k THEN m ELSE m + 1) \in DOMAIN chan
  BY <1>6
<1> QED
  BY <1>2, <1>5, <1>6, <1>7 DEF Thinned

\* What is true of the channel to the listener stays true when it gets thinner.
LEMMA ThinnedLine ==
  ASSUME TypeInv', Intact, Phases, Thinned(toListener', toListener)
  PROVE  /\ \A k \in DOMAIN toListener' :
              toListener'[k].ok /\ (toListener'[k].type = "DATA" => toListener'[k].file = 1)
         /\ Phases'
         /\ SyncsOnly => SyncsOnly'
         /\ HashesOnly => HashesOnly'
         /\ ~HashOut => ~HashOut'
<1>1. \A j \in DOMAIN toListener' : \E k \in DOMAIN toListener : toListener'[j] = toListener[k]
  BY DEF Thinned
<1>2. \A k \in DOMAIN toListener' :
        toListener'[k].ok /\ (toListener'[k].type = "DATA" => toListener'[k].file = 1)
  BY <1>1 DEF Intact
<1>3. Phases'
  BY <1>2 DEF Phases, Thinned, OrderKept
<1> QED
  BY <1>1, <1>2, <1>3 DEF SyncsOnly, HashesOnly, HashOut

\* The same of the channel to the sender.
LEMMA ThinnedAcks ==
  ASSUME TypeInv, TypeInv', Thinned(toSender', toSender)
  PROVE  /\ \A j \in DOMAIN toSender' : \E k \in DOMAIN toSender : toSender'[j] = toSender[k]
         /\ toSender' # <<>> => toSender # <<>>
<1>1. \A j \in DOMAIN toSender' : \E k \in DOMAIN toSender : toSender'[j] = toSender[k]
  BY DEF Thinned
<1>2. toSender' # <<>> => 1 \in DOMAIN toSender'
  <2>1. toSender' \in Seq(SenderPackets)
    BY DEF TypeInv, TypeOK, NetTypeOK
  <2> QED
    BY <2>1, EmptySeq, LenProperties
<1>3. toSender = <<>> => DOMAIN toSender = {}
  OBVIOUS
<1> QED
  BY <1>1, <1>2, <1>3

----------------------------------------------------------------------------
(* The invariant.                                                          *)

\* Losses, and steps of the listener that only stop it.
LEMMA LineQuiet ==
  ASSUME TypeInv, TypeInv', Line, UNCHANGED senderVars,
         Thinned(toListener', toListener), Thinned(toSender', toSender),
         listening' => listening, UNCHANGED <<handle, is_accepted>>
  PROVE  Line'
<1>1. Intact /\ Phases /\ Handshake /\ FileOpen
  BY DEF Line
<1>2. pc' = pc
  BY DEF senderVars
<1>4. Intact'
  BY <1>1, ThinnedLine, ThinnedAcks DEF Intact
<1>5. Handshake'
  BY <1>1, <1>2, ThinnedLine, ThinnedAcks DEF Handshake
<1>6. FileOpen'
  BY <1>1, <1>2, ThinnedLine, ThinnedAcks DEF FileOpen
<1> QED
  BY <1>1, <1>4, <1>5, <1>6, ThinnedLine DEF Line

\* A step of the sender that sends nothing, or a packet that fits its phase.
LEMMA LineSends ==
  ASSUME TypeInv, TypeInv', Line, UNCHANGED listenerVars, session = 1, session' = 1,
         Thinned(toSender', toSender),
         \/ toListener' = toListener
         \/ \E p \in ListenerPackets :
              /\ toListener' = Append(toListener, p) /\ p.ok
              /\ p.type = "SYNC" => pc \in SyncPhase /\ pc' \in SyncPhase
              /\ p.type = "DATA" => pc \in DataPhase /\ p.file = 1
              /\ p.type = "HASH" => pc \in HashPhase,
         pc' \in SyncPhase => pc \in SyncPhase,
         pc' \in DataPhase => pc \in SyncPhase \cup DataPhase,
         pc' \in Transferring => pc \in Transferring \/ toSender # <<>>
  PROVE  Line'
<1>1. Intact /\ Phases /\ Handshake /\ FileOpen
  BY DEF Line
<1>2. UNCHANGED <<listening, handle, is_accepted>>
  BY DEF listenerVars
<1>4. /\ SyncPhase \cap DataPhase = {} /\ SyncPhase \cap HashPhase = {} /\ DataPhase \cap HashPhase = {}
      /\ DataPhase \subseteq Transferring /\ HashPhase \subseteq Transferring
      /\ SyncPhase \cap Transferring = {}
  BY DEF SyncPhase, DataPhase, HashPhase, Transferring
<1>5. /\ \A k \in DOMAIN toListener' :
           toListener'[k].ok /\ (toListener'[k].type = "DATA" => toListener'[k].file = 1)
      /\ Phases'
      /\ pc \in SyncPhase /\ pc' \in SyncPhase => SyncsOnly'
      /\ pc \in SyncPhase \cup DataPhase => ~HashOut'
      /\ handle = "closed" \/ is_accepted => HashesOnly'
      /\ pc \notin Transferring /\ SyncsOnly => SyncsOnly'
  <2>1. CASE toListener' = toListener
    <3>1. Thinned(toListener', toListener)
      BY <2>1, SameThinned
    <3> QED
      BY <1>1, <3>1, ThinnedLine DEF Handshake, FileOpen
  <2>2. ASSUME NEW p \in ListenerPackets, toListener' = Append(toListener, p), p.ok,
               p.type = "SYNC" => pc \in SyncPhase /\ pc' \in SyncPhase,
               p.type = "DATA" => pc \in DataPhase /\ p.file = 1,
               p.type = "HASH" => pc \in HashPhase
        PROVE  <1>5!:
    <3>0. toListener \in Seq(ListenerPackets)
      BY DEF TypeInv, TypeOK, NetTypeOK
    <3> DEFINE new == Len(toListener) + 1
    <3>1. /\ DOMAIN toListener' = DOMAIN toListener \cup {new}
          /\ \A j \in DOMAIN toListener : toListener'[j] = toListener[j]
          /\ toListener'[new] = p
      BY <2>2, <3>0, AppendFacts
    <3>2. \A j \in DOMAIN toListener : ~(new <= j)
      BY <3>0, LenProperties
    <3>3. p.type \in {"SYNC", "DATA", "HASH"}
      BY <2>2 DEF ListenerPackets
    <3> HIDE DEF new
    <3>4. \A k \in DOMAIN toListener' :
            toListener'[k].ok /\ (toListener'[k].type = "DATA" => toListener'[k].file = 1)
      BY <1>1, <2>2, <3>1 DEF Intact
    <3>5. /\ p.type = "SYNC" => \A j \in DOMAIN toListener : toListener[j].type = "SYNC"
          /\ p.type # "HASH" => \A j \in DOMAIN toListener : toListener[j].type # "HASH"
      BY <1>1, <2>2, <3>3 DEF Handshake, FileOpen, SyncsOnly, HashOut
    <3>6. Phases'
      <4> SUFFICES ASSUME NEW j \in DOMAIN toListener', NEW k \in DOMAIN toListener', j <= k
                   PROVE  /\ toListener'[j].type # "SYNC" => toListener'[k].type # "SYNC"
                          /\ toListener'[j].type = "HASH" => toListener'[k].type = "HASH"
        BY DEF Phases
      <4>1. CASE k \in DOMAIN toListener
        BY <1>1, <3>1, <3>2, <4>1 DEF Phases
      <4>2. CASE k = new
        BY <3>1, <3>5, <4>2
      <4> QED
        BY <3>1, <4>1, <4>2
    <3>7. pc \in SyncPhase => p.type = "SYNC"
      BY <1>4, <2>2, <3>3
    <3>8. pc \in SyncPhase \cup DataPhase => p.type # "HASH"
      BY <1>4, <2>2
    <3>9. handle = "closed" \/ is_accepted => p.type = "HASH"
      BY <1>1, <2>2, <3>3 DEF FileOpen
    <3>10. pc \notin Transferring => p.type = "SYNC"
      BY <1>4, <2>2, <3>3
    <3>11. pc \in SyncPhase => SyncsOnly
      BY <1>1 DEF Handshake
    <3>12. pc \in SyncPhase \cup DataPhase => ~HashOut
      BY <1>1 DEF FileOpen
    <3>13. handle = "closed" \/ is_accepted => HashesOnly
      BY <1>1 DEF FileOpen
    <3> QED
      BY <2>2, <3>1, <3>4, <3>6, <3>7, <3>8, <3>9, <3>10, <3>11, <3>12, <3>13
         DEF SyncsOnly, HashesOnly, HashOut
  <2> QED
    BY <2>1, <2>2
<1>6. Intact'
  BY <1>1, <1>5, ThinnedAcks DEF Intact
<1>7. Handshake'
  BY <1>1, <1>5, ThinnedAcks DEF Handshake
<1>8. FileOpen'
  <2>1. pc' \in SyncPhase \cup DataPhase => ~HashOut' /\ handle' # "closed" /\ ~is_accepted'
    BY <1>1, <1>2, <1>5 DEF FileOpen
  <2>2. handle' = "closed" \/ is_accepted' => HashesOnly'
    BY <1>2, <1>5
  <2>3. listening' /\ (toSender' # <<>> \/ pc' \in Transferring \/ ~SyncsOnly') => handle' # "unset"
    BY <1>1, <1>2, <1>5, ThinnedAcks DEF FileOpen
  <2> QED
    BY <2>1, <2>2, <2>3 DEF FileOpen
<1> QED
  BY <1>5, <1>6, <1>7, <1>8 DEF Line

LEMMA LineSender ==
  ASSUME TypeInv, TypeInv', Line, SenderStep, UNCHANGED listenerVars, session = 1, session' = 1
  PROVE  Line'
<1>0. toSender \in Seq(SenderPackets) /\ session \in Files
  BY DEF TypeInv, TypeOK, NetTypeOK, SenderTypeOK
<1>pcs. /\ \A p \in {"sync_send", "sync_wait"} : p \in SyncPhase /\ p \notin DataPhase \cup Transferring
        /\ \A p \in {"check", "send", "recv"} : p \notin SyncPhase /\ p \in DataPhase /\ p \in Transferring
        /\ \A p \in {"hash_send", "hash_wait"} :
             p \in HashPhase /\ p \notin SyncPhase \cup DataPhase /\ p \in Transferring
        /\ "done" \notin SyncPhase \cup DataPhase /\ "done" \in Transferring
        /\ "exited" \notin SyncPhase \cup DataPhase \cup Transferring
  BY DEF SyncPhase, DataPhase, HashPhase, Transferring
<1>same. /\ toListener' = toListener => Thinned(toListener', toListener)
         /\ toSender' = toSender => Thinned(toSender', toSender)
         /\ TakeAck => Thinned(toSender', toSender) /\ toListener' = toListener
                       /\ \E k \in DOMAIN toSender : toSender[k] = Ack
         /\ toSender # <<>> /\ toSender' = Tail(toSender) => Thinned(toSender', toSender)
  BY <1>0, SameThinned, TailThinned, TailFacts DEF TakeAck, Ack
<1>confirms. toSender # <<>> => Confirms(Ack)
  BY <1>0, TailFacts DEF Ack, Line, Intact
<1>1. CASE SendSync
  <2>1. SyncPacket(session) \in ListenerPackets /\ SyncPacket(session).ok
        /\ SyncPacket(session).type = "SYNC"
    BY <1>0, PacketTypes DEF SyncPacket
  <2>2. pc = "sync_send" /\ pc' \in {"sync_send", "sync_wait"} /\ toSender' = toSender
        /\ (toListener' = toListener \/ toListener' = Append(toListener, SyncPacket(session)))
    BY <1>1 DEF SendSync, SendTo, SendToFails
  <2> QED
    BY <1>pcs, <1>same, <2>1, <2>2, LineSends
<1>2. CASE SendNewPacket \/ ResendPacket
  <2>1. PICK n \in PacketNs : SendTo(DataPacket(session, n)) \/ SendToFails
    <3>1. CASE SendNewPacket
      <4>1. first_unsent_packet_n \in Nat /\ LastPacket \in Nat
        BY ConstantTypes DEF TypeInv, TypeOK, SenderTypeOK
      <4>2. first_unsent_packet_n \in PacketNs
        BY <3>1, <4>1 DEF SendNewPacket, TypeInv, NumberInv, PacketNs
      <4> QED
        BY <3>1, <4>2 DEF SendNewPacket
    <3>2. CASE ResendPacket
      <4>1. unconfirmed_packets[i] \in PacketNs
        BY <3>2 DEF ResendPacket, Slots, TypeInv, TypeOK, SenderTypeOK
      <4> QED
        BY <3>2, <4>1 DEF ResendPacket
    <3> QED
      BY <1>2, <3>1, <3>2
  <2>2. /\ DataPacket(session, n) \in ListenerPackets /\ DataPacket(session, n).ok
        /\ DataPacket(session, n).type = "DATA" /\ DataPacket(session, n).file = 1
    BY <1>0, PacketTypes DEF DataPacket
  <2>3. toListener' = toListener \/ toListener' = Append(toListener, DataPacket(session, n))
    BY <2>1 DEF SendTo, SendToFails
  <2>4. pc = "send" /\ pc' = "send" /\ toSender' = toSender
    BY <1>2 DEF SendNewPacket, ResendPacket
  <2> QED
    BY <1>pcs, <1>same, <2>2, <2>3, <2>4, LineSends
<1>3. CASE SendHash
  <2>1. HashPacket(session) \in ListenerPackets /\ HashPacket(session).ok
        /\ HashPacket(session).type = "HASH"
    BY <1>0, PacketTypes DEF HashPacket
  <2>2. pc = "hash_send" /\ pc' = "hash_wait" /\ toSender' = toSender
        /\ (toListener' = toListener \/ toListener' = Append(toListener, HashPacket(session)))
    BY <1>3 DEF SendHash, SendTo, SendToFails
  <2> QED
    BY <1>pcs, <1>same, <2>1, <2>2, LineSends
<1>4. CASE SyncConfirmed
  <2>1. TakeAck /\ toSender # <<>> /\ pc = "sync_wait" /\ pc' = "check"
    BY <1>4 DEF SyncConfirmed, TakeAck, EnterData
  <2> QED
    BY <1>pcs, <1>same, <2>1, LineSends
<1>5. CASE AckConfirmed
  <2>1. TakeAck /\ pc = "recv" /\ pc' \in {"check", "recv"}
    BY <1>5 DEF AckConfirmed
  <2> QED
    BY <1>pcs, <1>same, <2>1, LineSends
<1>6. CASE StartRound \/ SkipSlot \/ StartReceiving \/ EndRound
  <2>1. toListener' = toListener /\ toSender' = toSender
        /\ pc \in {"check", "send", "recv"} /\ pc' \in {"check", "send", "recv"}
    BY <1>6 DEF StartRound, SkipSlot, StartReceiving, EndRound, netVars
  <2> QED
    BY <1>pcs, <1>same, <2>1, LineSends
<1>7. CASE SyncTimeout \/ FinishData \/ HashTimeout
  <2>1. toListener' = toListener /\ toSender' = toSender
        /\ \/ pc = "sync_wait" /\ pc' = "sync_send"
           \/ pc = "check" /\ pc' = "hash_send"
           \/ pc = "hash_wait" /\ pc' = "hash_send"
    BY <1>7 DEF SyncTimeout, FinishData, HashTimeout, netVars
  <2> QED
    BY <1>pcs, <1>same, <2>1, LineSends
<1>8. CASE HashConfirmed
  <2>1. TakeAck /\ pc = "hash_wait" /\ pc' \in {"done", "hash_send"}
    BY <1>8 DEF HashConfirmed
  <2> QED
    BY <1>pcs, <1>same, <2>1, LineSends
<1>9. CASE ReceiveFails \/ OpenFails
  <2>1. toListener' = toListener /\ pc' = "exited" /\ Thinned(toSender', toSender)
    BY <1>9, <1>same DEF ReceiveFails, OpenFails
  <2> QED
    BY <1>pcs, <2>1, LineSends
<1>10. CASE SenderGone
  <2>1. toListener' = toListener /\ pc' = pc /\ Thinned(toSender', toSender)
        /\ pc \in {"done", "exited"}
    BY <1>10, <1>same DEF SenderGone, senderVars, Ended
  <2> QED
    BY <1>pcs, <2>1, LineSends
<1>11. ~SyncRefused /\ ~AckRefused /\ ~HashAckDamaged /\ ~HashRefused /\ ~NextTransfer
  <2>1. TakeAck => Ack.ok /\ Ack.state = CONFIRM_CODE /\ Confirms(Ack)
    BY <1>confirms DEF TakeAck, Confirms
  <2>2. CONFIRM_CODE # NEGATIVE_CODE
    BY DEF CONFIRM_CODE, NEGATIVE_CODE
  <2> QED
    BY <2>1, <2>2 DEF SyncRefused, AckRefused, HashAckDamaged, HashRefused, NextTransfer
<1> QED
  BY <1>1, <1>2, <1>3, <1>4, <1>5, <1>6, <1>7, <1>8, <1>9, <1>10, <1>11
     DEF SenderStep, SenderRuns, SenderReceives

\* The listener takes a datagram and answers it, or not, with a confirmation.
LEMMA LineAnswers ==
  ASSUME TypeInv, TypeInv', Line, Receive, UNCHANGED senderVars,
         NEW a \in SenderPackets, Confirms(a),
         toSender' = toSender \/ toSender' = Append(toSender, a),
         pc \in SyncPhase => a.n = 0,
         pc \in SyncPhase \cup DataPhase => handle' # "closed" /\ ~is_accepted',
         handle' = "closed" \/ is_accepted' => HashesOnly',
         listening' => handle' # "unset"
  PROVE  Line'
<1>1. Intact /\ Phases /\ Handshake /\ FileOpen
  BY DEF Line
<1>2. pc' = pc
  BY DEF senderVars
<1>3. Thinned(toListener', toListener)
  BY TailThinned DEF Receive, TypeInv, TypeOK, NetTypeOK
<1>4. \A k \in DOMAIN toSender' :
        toSender'[k] = a \/ \E j \in DOMAIN toSender : toSender'[k] = toSender[j]
  <2>1. toSender \in Seq(SenderPackets)
    BY DEF TypeInv, TypeOK, NetTypeOK
  <2> QED
    BY <2>1, AppendFacts
<1>5. Intact'
  BY <1>1, <1>3, <1>4, ThinnedLine DEF Intact
<1>6. Handshake'
  BY <1>1, <1>2, <1>3, <1>4, ThinnedLine DEF Handshake
<1>7. FileOpen'
  BY <1>1, <1>2, <1>3, ThinnedLine DEF FileOpen
<1> QED
  BY <1>1, <1>3, <1>5, <1>6, <1>7, ThinnedLine DEF Line

LEMMA LineListener ==
  ASSUME TypeInv, TypeInv', Line, ListenerStep, UNCHANGED senderVars, OneRoute', session = 1
  PROVE  Line'
<1>1. Intact /\ Phases /\ Handshake /\ FileOpen
  BY DEF Line
<1>pcs. SyncPhase \cap DataPhase = {}
  BY DEF SyncPhase, DataPhase
<1>head. ASSUME Receive
         PROVE  /\ Packet \in ListenerPackets /\ Packet.ok
                /\ 1 \in DOMAIN toListener /\ Packet = toListener[1]
                /\ \A j \in DOMAIN toListener : 1 <= j
                /\ Packet.type \in {"SYNC", "DATA", "HASH"}
                /\ Thinned(toListener', toListener)
  <2>1. Packet \in ListenerPackets /\ 1 \in DOMAIN toListener /\ Packet = toListener[1]
    BY <1>head, ReceiveFacts
  <2>2. Packet.ok
    BY <1>1, <2>1 DEF Intact
  <2>3. \A p \in ListenerPackets : p.ok => p.type \in {"SYNC", "DATA", "HASH"}
    BY DEF ListenerPackets
  <2>4. Thinned(toListener', toListener) /\ \A j \in DOMAIN toListener : 1 <= j
    BY <1>head, TailThinned, LenProperties DEF Receive, TypeInv, TypeOK, NetTypeOK
  <2> QED
    BY <2>1, <2>2, <2>3, <2>4
<1>zero. /\ AckPacket(0, FALSE, CONFIRM_CODE) \in SenderPackets
         /\ Confirms(AckPacket(0, FALSE, CONFIRM_CODE))
         /\ AckPacket(0, FALSE, CONFIRM_CODE).n = 0
  BY PacketTypes, ConstantTypes DEF AckPacket, Confirms
<1>2. CASE ReceiveSync \/ ReceiveSyncOpenFails
  <2>1. /\ Receive /\ Packet.type = "SYNC"
        /\ Reply(AckPacket(0, FALSE, CONFIRM_CODE)) /\ is_accepted' = is_accepted
        /\ \/ handle' = "open"
           \/ handle' = handle /\ ~listening'
    BY <1>2 DEF ReceiveSync, ReceiveSyncOpenFails
  <2>2. ~HashesOnly
    BY <1>head, <2>1 DEF HashesOnly
  <2>3. handle # "closed" /\ ~is_accepted
    BY <1>1, <2>2 DEF FileOpen
  <2>4. toSender' = toSender \/ toSender' = Append(toSender, AckPacket(0, FALSE, CONFIRM_CODE))
    BY <2>1, ReceiveFacts
  <2> QED
    BY <1>zero, <2>1, <2>3, <2>4, LineAnswers
<1>3. ASSUME Receive, Packet.type = "DATA"
      PROVE  /\ handle = "open" /\ ~is_accepted
             /\ pc \notin SyncPhase
             /\ Packet.file = 1 /\ Packet.n \in PacketNs /\ Packet.last \in BOOLEAN
  <2>1. ~SyncsOnly /\ ~HashesOnly
    BY <1>3, <1>head DEF SyncsOnly, HashesOnly
  <2>2. handle \in {"unset", "open", "closed"} /\ listening
    BY <1>3 DEF Receive, TypeInv, TypeOK, ListenerTypeOK
  <2> QED
    BY <1>1, <1>3, <1>head, <2>1, <2>2, PacketFields DEF FileOpen, Handshake, Intact
<1>4. CASE ReceiveData
  <2> DEFINE a == AckPacket(Packet.n, Packet.last, CONFIRM_CODE)
  <2>1. /\ Receive /\ Packet.type = "DATA" /\ Reply(a)
        /\ handle' = handle /\ is_accepted' = is_accepted
    BY <1>4 DEF ReceiveData
  <2>2. /\ handle = "open" /\ ~is_accepted /\ pc \notin SyncPhase
        /\ Packet.n \in PacketNs /\ Packet.last \in BOOLEAN
    BY <1>3, <2>1
  <2>3. a \in SenderPackets /\ Confirms(a)
    BY <2>2, PacketTypes DEF AckPacket, Confirms
  <2>4. toSender' = toSender \/ toSender' = Append(toSender, a)
    BY <2>1, ReceiveFacts
  <2>5. PICK ack : ack = a
    OBVIOUS
  <2>6. /\ ack \in SenderPackets /\ Confirms(ack)
        /\ toSender' = toSender \/ toSender' = Append(toSender, ack)
    BY <2>3, <2>4, <2>5
  <2> HIDE DEF a
  <2> QED
    BY <2>1, <2>2, <2>6, LineAnswers
<1>5. CASE ReceiveHash \/ ReceiveHashAgain
  <2>1. /\ Receive /\ Packet.type = "HASH" /\ Reply(AckPacket(0, FALSE, CONFIRM_CODE))
        /\ handle' \in {handle, "closed"}
    BY <1>5 DEF ReceiveHash, ReceiveHashAgain, compare_hash
  <2>2. HashesOnly /\ ~SyncsOnly /\ HashOut
    BY <1>1, <1>head, <2>1 DEF Phases, HashesOnly, SyncsOnly, HashOut
  <2>3. HashesOnly'
    BY <1>1, <1>head, <2>1, <2>2, ThinnedLine
  <2>4. pc \notin SyncPhase \cup DataPhase
    BY <1>1, <2>2 DEF FileOpen
  <2>5. handle # "unset"
    BY <1>1, <2>1, <2>2 DEF FileOpen, Receive
  <2>6. toSender' = toSender \/ toSender' = Append(toSender, AckPacket(0, FALSE, CONFIRM_CODE))
    BY <2>1, ReceiveFacts
  <2> QED
    BY <1>zero, <2>1, <2>3, <2>4, <2>5, <2>6, LineAnswers
<1>6. CASE ListenerReceiveFails \/ ListenerGone
  <2>1. /\ Thinned(toListener', toListener) /\ toSender' = toSender
        /\ listening' => listening
        /\ UNCHANGED <<handle, is_accepted>>
    <3>1. CASE ListenerReceiveFails
      BY <3>1, SameThinned DEF ListenerReceiveFails
    <3>2. CASE ListenerGone
      <4>1. Thinned(toListener', toListener)
        BY <3>2, TailThinned DEF ListenerGone, TypeInv, TypeOK, NetTypeOK
      <4> QED
        BY <3>2, <4>1 DEF ListenerGone, listenerVars
    <3> QED
      BY <1>6, <3>1, <3>2
  <2> QED
    BY <2>1, SameThinned, LineQuiet
<1>7. ~ReceiveDataNoFile
  BY <1>3 DEF ReceiveDataNoFile
<1>8. ~ReceiveHashNoFile
  <2> SUFFICES ASSUME ReceiveHashNoFile PROVE FALSE
    OBVIOUS
  <2>1. Receive /\ listening /\ Packet.type = "HASH" /\ handle = "unset"
    BY DEF ReceiveHashNoFile, Receive
  <2>2. ~SyncsOnly
    BY <1>head, <2>1 DEF SyncsOnly
  <2> QED
    BY <1>1, <2>1, <2>2 DEF FileOpen
<1>9. ~ReceiveDamaged /\ ~ReceiveUnknown /\ ~Restart
  <2>1. ~Restart
    <3>1. Fault("restart") => "restart" \in faults'.kinds
      BY DEF Fault
    <3> QED
      BY <3>1 DEF Restart, OneRoute
  <2> QED
    BY <1>head, <2>1 DEF ReceiveDamaged, ReceiveUnknown
<1> QED
  BY <1>2, <1>4, <1>5, <1>6, <1>7, <1>8, <1>9 DEF ListenerStep, ListenerReceives

LEMMA LineStep ==
  ASSUME TypeInv, LineInv, [Next]_vars
  PROVE  LineInv'
<1> SUFFICES ASSUME OneRoute', session' = 1 PROVE Line'
  BY DEF LineInv
<1>1. TypeInv'
  BY TypeStep
<1>2. session = 1
  <2>1. session \in Nat \ {0}
    BY DEF TypeInv, TypeOK, SenderTypeOK, Files
  <2> QED
    BY <2>1, SessionSteps
<1>3. OneRoute
  <2>1. faults.kinds \subseteq faults'.kinds
    BY FaultsStay
  <2> QED
    BY <2>1 DEF OneRoute
<1>4. Line
  BY <1>2, <1>3 DEF LineInv
<1>5. CASE SenderStep /\ UNCHANGED listenerVars
  BY <1>1, <1>2, <1>4, <1>5, LineSender
<1>6. CASE ListenerStep /\ UNCHANGED senderVars
  BY <1>1, <1>2, <1>4, <1>6, LineListener
<1>7. CASE NetworkStep /\ UNCHANGED <<senderVars, listenerVars>>
  <2>1. toListener \in Seq(ListenerPackets) /\ toSender \in Seq(SenderPackets)
    BY DEF TypeInv, TypeOK, NetTypeOK
  <2>2. Thinned(toListener', toListener) /\ Thinned(toSender', toSender)
    BY <1>7, <2>1, MisbehaveThinned, SameThinned DEF NetworkStep
  <2> QED
    BY <1>1, <1>4, <1>7, <2>2, LineQuiet DEF listenerVars
<1>8. CASE UNCHANGED vars
  BY <1>1, <1>4, <1>8, SameThinned, LineQuiet DEF vars, netVars, listenerVars
<1> QED
  BY <1>5, <1>6, <1>7, <1>8 DEF Next, Idle

LEMMA LineInvariant == Spec => []LineInv
<1>1. Init => LineInv
  <2> SUFFICES ASSUME Init PROVE Line
    BY DEF LineInv
  <2>1. /\ toListener = <<>> /\ toSender = <<>> /\ pc = "sync_send"
        /\ handle = "unset" /\ is_accepted = FALSE
    BY DEF Init, NetInit, SenderInit, ListenerInit
  <2>2. DOMAIN toListener = {} /\ DOMAIN toSender = {}
    BY <2>1
  <2>3. pc \notin DataPhase /\ pc \notin Transferring
    BY <2>1 DEF DataPhase, HashPhase, Transferring
  <2> QED
    BY <2>1, <2>2, <2>3 DEF Line, Intact, Phases, Handshake, FileOpen, SyncsOnly, HashOut
<1>2. TypeInv /\ LineInv /\ [Next]_vars => LineInv'
  BY LineStep
<1> QED
  BY <1>1, <1>2, TypeInvariant, PTL DEF Spec

----------------------------------------------------------------------------
(* What a file that is opened again may lose.  The line may damage packets *)
(* now, so that a pass may be followed by another one.                     *)

SyncOut == \E k \in DOMAIN toListener : toListener[k].ok /\ toListener[k].type = "SYNC"

\* No SYNC comes behind another packet, and in the handshake there is nothing
\* else.
Sequel ==
  /\ \A k \in DOMAIN toListener :
       toListener[k].ok /\ toListener[k].type = "DATA" => toListener[k].file = 1
  /\ \A j, k \in DOMAIN toListener :
       j <= k /\ toListener[j].ok /\ toListener[k].ok /\ toListener[k].type = "SYNC" =>
         toListener[j].type = "SYNC"
  /\ pc \in SyncPhase =>
       /\ depth = 0 /\ ~is_accepted /\ handle # "closed"
       /\ \A k \in DOMAIN toListener : toListener[k].ok => toListener[k].type = "SYNC"
       /\ \A k \in DOMAIN toSender : Confirms(toSender[k]) => toSender[k].n = 0 /\ ~toSender[k].last

\* Whoever has been answered, or has sent more than SYNCs, has had a file opened.
Opened ==
  listening /\ ( \/ pc \in Transferring
                 \/ is_accepted
                 \/ \E k \in DOMAIN toListener : toListener[k].ok /\ toListener[k].type # "SYNC"
                 \/ \E k \in DOMAIN toSender : Confirms(toSender[k]))
    => handle # "unset"

\* A block behind the first one that was confirmed is in the file, and no SYNC
\* is left that could empty the file again.
LaterBlock(n) == n # 0 => Written(n) /\ ~SyncOut
LaterBlocks ==
  /\ \A k \in DOMAIN toSender : Confirms(toSender[k]) => LaterBlock(toSender[k].n)
  /\ pc \in DataPhase => \A n \in Confirmed : LaterBlock(n)

\* So are all of them when a pass has ended.
AllLater == \A n \in Blocks : LaterBlock(n)
PassEnded ==
  \/ pc \in HashPhase \cup {"done"} \/ depth > 0
  \/ is_accepted \/ handle = "closed"
  \/ \E k \in DOMAIN toListener : toListener[k].ok /\ toListener[k].type = "HASH"

\* The first pass does not end before the last packet was sent.
FirstPass ==
  pc \in DataPhase /\ depth = 0 /\ first_unsent_packet_n <= LastPacket =>
    sending /\ ~FlagInTransit

Later == Sequel /\ Opened /\ LaterBlocks /\ (PassEnded => AllLater) /\ FirstPass
LaterInv == NoCopies /\ InOrder /\ session = 1 => Later

\* Which packets count as confirmed after a step of the sender.
LEMMA ConfirmedChanges ==
  ASSUME TypeInv
  PROVE  /\ UNCHANGED windowVars => Confirmed' = Confirmed
         /\ EnterData => Confirmed' = {}
         /\ SendNewPacket => \A n \in Confirmed' : n \in Confirmed
         /\ AckConfirmed => \A n \in Confirmed' : n \in Confirmed \/ n = Ack.n
<1>0. /\ unconfirmed_packets \in [Slots -> PacketNs \cup {None}]
      /\ first_unsent_packet_n \in Nat
  BY DEF TypeInv, TypeOK, SenderTypeOK
<1>1. UNCHANGED windowVars => Confirmed' = Confirmed
  BY DEF windowVars, Confirmed
<1>2. EnterData => Confirmed' = {}
  BY DEF EnterData, Confirmed
<1>3. ASSUME SendNewPacket, NEW n \in Confirmed' PROVE n \in Confirmed
  <2> DEFINE next == first_unsent_packet_n
  <2>1. CASE UNCHANGED <<unconfirmed_packets, first_unsent_packet_n>>
    BY <1>3, <2>1 DEF Confirmed
  <2>2. CASE /\ unconfirmed_packets' = [unconfirmed_packets EXCEPT ![i] = next]
             /\ first_unsent_packet_n' = next + 1
    <3>1. i \in Slots /\ unconfirmed_packets[i] = None
      BY <1>3 DEF SendNewPacket, Slots, TypeInv, TypeOK, SenderTypeOK
    <3>2. \A s \in Slots : unconfirmed_packets'[s] = IF s = i THEN next ELSE unconfirmed_packets[s]
      BY <1>0, <2>2
    <3>3. n \in 0 .. next /\ \A s \in Slots : unconfirmed_packets'[s] # n
      BY <1>0, <1>3, <2>2 DEF Confirmed
    <3>4. n # next
      BY <3>1, <3>2, <3>3
    <3>5. n \in 0 .. next - 1
      BY <1>0, <3>3, <3>4
    <3>6. \A s \in Slots : unconfirmed_packets[s] # n
      BY <3>1, <3>2, <3>3 DEF None
    <3> QED
      BY <3>5, <3>6 DEF Confirmed
  <2> QED
    BY <1>3, <2>1, <2>2 DEF SendNewPacket
<1>4. ASSUME AckConfirmed, NEW n \in Confirmed' PROVE n \in Confirmed \/ n = Ack.n
  <2>1. /\ first_unsent_packet_n' = first_unsent_packet_n
        /\ \A s \in Slots : unconfirmed_packets'[s] =
             IF unconfirmed_packets[s] = Ack.n THEN None ELSE unconfirmed_packets[s]
    BY <1>4 DEF AckConfirmed
  <2> QED
    BY <1>4, <2>1 DEF Confirmed
<1> QED
  BY <1>1, <1>2, <1>3, <1>4

\* A step of the sender that sends nothing, or a packet that fits its phase.
LEMMA LaterSends ==
  ASSUME TypeInv, TypeInv', Later, UNCHANGED listenerVars, session = 1, session' = 1,
         NothingNew(toSender', toSender),
         \/ toListener' = toListener
         \/ \E p \in ListenerPackets :
              /\ toListener' = Append(toListener, p) /\ p.ok
              /\ p.type = "SYNC" => pc \in SyncPhase /\ pc' \in SyncPhase
              /\ p.type = "DATA" => pc \in DataPhase /\ p.file = 1
              /\ p.type = "HASH" => pc \in HashPhase,
         pc' \in SyncPhase => pc \in SyncPhase /\ depth' = depth,
         pc' \in Transferring => pc \in Transferring \/ \E k \in DOMAIN toSender : Confirms(toSender[k]),
         pc' \in DataPhase => \A n \in Confirmed' :
           \/ n = 0
           \/ pc \in DataPhase /\ n \in Confirmed
           \/ \E k \in DOMAIN toSender : Confirms(toSender[k]) /\ toSender[k].n = n,
         pc' \in HashPhase \cup {"done"} \/ depth' > 0 => AllLater,
         FirstPass'
  PROVE  Later'
<1>1. Sequel /\ Opened /\ LaterBlocks /\ (PassEnded => AllLater)
  BY DEF Later
<1>2. UNCHANGED <<listening, handle, is_accepted, content>>
  BY DEF listenerVars, fileVars
<1>3. \A n : Written(n)' = Written(n)
  BY <1>2 DEF Written
<1>4. /\ SyncPhase \cap DataPhase = {} /\ SyncPhase \cap HashPhase = {}
      /\ DataPhase \subseteq Transferring /\ HashPhase \subseteq Transferring
      /\ SyncPhase \cap Transferring = {} /\ HashPhase \cup {"done"} \subseteq Transferring
  BY DEF SyncPhase, DataPhase, HashPhase, Transferring
<1>5. /\ \A k \in DOMAIN toListener' :
           toListener'[k].ok /\ toListener'[k].type = "DATA" => toListener'[k].file = 1
      /\ \A j, k \in DOMAIN toListener' :
           j <= k /\ toListener'[j].ok /\ toListener'[k].ok /\ toListener'[k].type = "SYNC" =>
             toListener'[j].type = "SYNC"
      /\ pc \in SyncPhase =>
           \A k \in DOMAIN toListener' : toListener'[k].ok => toListener'[k].type = "SYNC"
      /\ \A k \in DOMAIN toListener' : toListener'[k].ok /\ toListener'[k].type # "SYNC" =>
           pc \in Transferring \/ \E j \in DOMAIN toListener : toListener[j].ok /\ toListener[j].type # "SYNC"
      /\ \A k \in DOMAIN toListener' : toListener'[k].ok /\ toListener'[k].type = "HASH" =>
           pc \in HashPhase \/ \E j \in DOMAIN toListener : toListener[j].ok /\ toListener[j].type = "HASH"
      /\ SyncOut' => SyncOut \/ (pc \in SyncPhase /\ pc' \in SyncPhase)
  <2>1. CASE toListener' = toListener
    BY <1>1, <2>1 DEF Sequel, SyncOut
  <2>2. ASSUME NEW p \in ListenerPackets, toListener' = Append(toListener, p), p.ok,
               p.type = "SYNC" => pc \in SyncPhase /\ pc' \in SyncPhase,
               p.type = "DATA" => pc \in DataPhase /\ p.file = 1,
               p.type = "HASH" => pc \in HashPhase
        PROVE  <1>5!:
    <3>0. toListener \in Seq(ListenerPackets)
      BY DEF TypeInv, TypeOK, NetTypeOK
    <3> DEFINE new == Len(toListener) + 1
    <3>1. /\ DOMAIN toListener' = DOMAIN toListener \cup {new}
          /\ \A j \in DOMAIN toListener : toListener'[j] = toListener[j]
          /\ toListener'[new] = p
      BY <2>2, <3>0, AppendFacts
    <3>2. \A j \in DOMAIN toListener : ~(new <= j)
      BY <3>0, LenProperties
    <3>3. p.type \in {"SYNC", "DATA", "HASH"}
      BY <2>2 DEF ListenerPackets
    <3> HIDE DEF new
    <3>4. \A k \in DOMAIN toListener' :
            toListener'[k].ok /\ toListener'[k].type = "DATA" => toListener'[k].file = 1
      BY <1>1, <2>2, <3>1 DEF Sequel
    <3>5. p.type = "SYNC" =>
            \A j \in DOMAIN toListener : toListener[j].ok => toListener[j].type = "SYNC"
      BY <1>1, <2>2 DEF Sequel
    <3>6. ASSUME NEW j \in DOMAIN toListener', NEW k \in DOMAIN toListener', j <= k,
                 toListener'[j].ok, toListener'[k].ok, toListener'[k].type = "SYNC"
          PROVE  toListener'[j].type = "SYNC"
      <4>1. CASE k \in DOMAIN toListener
        BY <1>1, <3>1, <3>2, <3>6, <4>1 DEF Sequel
      <4>2. CASE k = new
        BY <3>1, <3>5, <3>6, <4>2
      <4> QED
        BY <3>1, <3>6, <4>1, <4>2
    <3>7. pc \in SyncPhase => p.type = "SYNC"
      BY <1>4, <2>2, <3>3
    <3>8. pc \in SyncPhase =>
            \A k \in DOMAIN toListener' : toListener'[k].ok => toListener'[k].type = "SYNC"
      BY <1>1, <3>1, <3>7 DEF Sequel
    <3>9. p.type # "SYNC" => pc \in Transferring
      BY <1>4, <2>2, <3>3
    <3>10. SyncOut' => SyncOut \/ (pc \in SyncPhase /\ pc' \in SyncPhase)
      BY <2>2, <3>1 DEF SyncOut
    <3> QED
      BY <2>2, <3>1, <3>4, <3>6, <3>8, <3>9, <3>10
  <2> QED
    BY <2>1, <2>2
<1>6. \A n : LaterBlock(n) => LaterBlock(n)' \/ (pc \in SyncPhase /\ pc' \in SyncPhase)
  BY <1>3, <1>5 DEF LaterBlock
<1>7. \A k \in DOMAIN toSender' : Confirms(toSender'[k]) =>
        \E j \in DOMAIN toSender : Confirms(toSender[j]) /\ toSender'[k] = toSender[j]
  BY DEF NothingNew, Confirms
<1>8. Sequel'
  <2>1. ASSUME pc' \in SyncPhase
        PROVE  /\ depth' = 0 /\ ~is_accepted' /\ handle' # "closed"
               /\ \A k \in DOMAIN toSender' : Confirms(toSender'[k]) =>
                    toSender'[k].n = 0 /\ ~toSender'[k].last
    BY <1>1, <1>2, <1>7, <2>1 DEF Sequel
  <2> QED
    BY <1>5, <2>1 DEF Sequel
<1>9. Opened'
  BY <1>1, <1>2, <1>5, <1>7 DEF Opened
<1>10. LaterBlocks'
  <2>1. ASSUME NEW k \in DOMAIN toSender', Confirms(toSender'[k]), NEW n, n = toSender'[k].n
        PROVE  LaterBlock(n)'
    <3>1. PICK j \in DOMAIN toSender : Confirms(toSender[j]) /\ toSender'[k] = toSender[j]
      BY <1>7, <2>1
    <3>2. LaterBlock(n) /\ (pc \in SyncPhase => n = 0)
      BY <1>1, <2>1, <3>1 DEF LaterBlocks, Sequel
    <3>3. n = 0 => LaterBlock(n)'
      BY DEF LaterBlock
    <3> QED
      BY <1>6, <3>2, <3>3
  <2>2. ASSUME pc' \in DataPhase, NEW n \in Confirmed'
        PROVE  LaterBlock(n)'
    <3>1. pc' \notin SyncPhase
      BY <1>4, <2>2
    <3>2. n = 0 => LaterBlock(n)'
      BY DEF LaterBlock
    <3>3. n # 0 => LaterBlock(n)
      BY <1>1, <2>2 DEF LaterBlocks
    <3> QED
      BY <1>6, <3>1, <3>2, <3>3
  <2> QED
    BY <2>1, <2>2 DEF LaterBlocks
<1>11. PassEnded' => AllLater'
  <2>1. CASE pc' \in SyncPhase
    <3>1. pc' \notin HashPhase \cup {"done"} /\ ~(depth' > 0)
      BY <1>4, <1>8, <2>1 DEF Sequel
    <3> QED
      BY <1>8, <2>1, <3>1 DEF PassEnded, Sequel
  <2>2. CASE pc' \notin SyncPhase
    <3>1. PassEnded' => AllLater
      BY <1>1, <1>2, <1>5 DEF PassEnded
    <3>2. AllLater => AllLater'
      BY <1>6, <2>2 DEF AllLater
    <3> QED
      BY <3>1, <3>2
  <2> QED
    BY <2>1, <2>2
<1> QED
  BY <1>8, <1>9, <1>10, <1>11 DEF Later

\* What arrives, in this order, was sent; and an answer, if there is one, is true.
LEMMA LaterListens ==
  ASSUME TypeInv, TypeInv', Later, UNCHANGED senderVars,
         OrderKept(toListener', toListener),
         \/ NothingNew(toSender', toSender)
         \/ \E a \in SenderPackets :
              /\ toSender' = Append(toSender, a)
              /\ Confirms(a) =>
                   /\ \A n : n = a.n => LaterBlock(n)'
                   /\ pc \in SyncPhase => a.n = 0 /\ ~a.last
                   /\ a.last => FlagInTransit
                   /\ listening' => handle' # "unset",
         listening' => listening,
         handle' = "unset" => handle = "unset" /\ is_accepted' = is_accepted,
         is_accepted' \/ handle' = "closed" =>
           \/ is_accepted \/ handle = "closed"
           \/ AllLater /\ pc \notin SyncPhase,
         \A n : LaterBlock(n) => LaterBlock(n)'
  PROVE  Later'
<1>0. Sequel /\ Opened /\ LaterBlocks /\ (PassEnded => AllLater) /\ FirstPass
  BY DEF Later
<1>1. /\ UNCHANGED <<pc, depth, sending, first_unsent_packet_n>>
      /\ Confirmed' = Confirmed
  BY DEF senderVars, Confirmed
<1>2. \A k \in DOMAIN toListener' : toListener'[k].ok =>
        \E j \in DOMAIN toListener : toListener'[k] = toListener[j]
  <2>1. \A k \in DOMAIN toListener' : k <= k
    <3>1. toListener' \in Seq(ListenerPackets)
      BY DEF TypeInv, TypeOK, NetTypeOK
    <3> QED
      BY <3>1, LenProperties
  <2> QED
    BY <2>1 DEF OrderKept
<1>3. \A k \in DOMAIN toSender' : Confirms(toSender'[k]) =>
        \/ \E j \in DOMAIN toSender : Confirms(toSender[j]) /\ toSender'[k] = toSender[j]
        \/ /\ \A n : n = toSender'[k].n => LaterBlock(n)'
           /\ pc \in SyncPhase => toSender'[k].n = 0 /\ ~toSender'[k].last
           /\ toSender'[k].last => FlagInTransit
           /\ listening' => handle' # "unset"
  <2>1. CASE NothingNew(toSender', toSender)
    BY <2>1 DEF NothingNew, Confirms
  <2>2. ASSUME NEW a \in SenderPackets, toSender' = Append(toSender, a),
               Confirms(a) =>
                 /\ \A n : n = a.n => LaterBlock(n)'
                 /\ pc \in SyncPhase => a.n = 0 /\ ~a.last
                 /\ a.last => FlagInTransit
                 /\ listening' => handle' # "unset"
        PROVE  <1>3!:
    <3>1. \A k \in DOMAIN toSender' :
            toSender'[k] = a \/ \E j \in DOMAIN toSender : toSender'[k] = toSender[j]
      BY <2>2, AppendFacts DEF TypeInv, TypeOK, NetTypeOK
    <3> QED
      BY <2>2, <3>1
  <2> QED
    BY <2>1, <2>2
<1>4. \A n : LaterBlock(n) => LaterBlock(n)'
  OBVIOUS
<1>5. Sequel'
  <2>1. ASSUME NEW j \in DOMAIN toListener', NEW k \in DOMAIN toListener', j <= k,
               toListener'[j].ok, toListener'[k].ok, toListener'[k].type = "SYNC"
        PROVE  toListener'[j].type = "SYNC"
    BY <1>0, <2>1 DEF Sequel, OrderKept
  <2>2. ASSUME pc' \in SyncPhase
        PROVE  /\ depth' = 0 /\ ~is_accepted' /\ handle' # "closed"
               /\ \A k \in DOMAIN toListener' : toListener'[k].ok => toListener'[k].type = "SYNC"
               /\ \A k \in DOMAIN toSender' : Confirms(toSender'[k]) =>
                    toSender'[k].n = 0 /\ ~toSender'[k].last
    BY <1>0, <1>1, <1>2, <1>3, <2>2 DEF Sequel
  <2>3. \A k \in DOMAIN toListener' :
          toListener'[k].ok /\ toListener'[k].type = "DATA" => toListener'[k].file = 1
    BY <1>0, <1>2 DEF Sequel
  <2> QED
    BY <2>1, <2>2, <2>3 DEF Sequel
<1>6. Opened'
  <2> SUFFICES ASSUME listening', handle' = "unset",
                      \/ pc' \in Transferring
                      \/ is_accepted'
                      \/ \E k \in DOMAIN toListener' : toListener'[k].ok /\ toListener'[k].type # "SYNC"
                      \/ \E k \in DOMAIN toSender' : Confirms(toSender'[k])
               PROVE  FALSE
    BY DEF Opened
  <2> QED
    BY <1>0, <1>1, <1>2, <1>3 DEF Opened
<1>7. LaterBlocks'
  <2>1. ASSUME NEW k \in DOMAIN toSender', Confirms(toSender'[k]), NEW n, n = toSender'[k].n
        PROVE  LaterBlock(n)'
    BY <1>0, <1>3, <1>4, <2>1 DEF LaterBlocks
  <2>2. ASSUME pc' \in DataPhase, NEW n \in Confirmed'
        PROVE  LaterBlock(n)'
    BY <1>0, <1>1, <1>4, <2>2 DEF LaterBlocks
  <2> QED
    BY <2>1, <2>2 DEF LaterBlocks
<1>8. PassEnded' => AllLater'
  <2>1. PassEnded' => AllLater
    BY <1>0, <1>1, <1>2 DEF PassEnded
  <2> QED
    BY <1>4, <2>1 DEF AllLater
<1>9. FirstPass'
  <2>1. FlagInTransit' => FlagInTransit
    BY <1>2, <1>3 DEF FlagInTransit
  <2> QED
    BY <1>0, <1>1, <2>1 DEF FirstPass
<1> QED
  BY <1>5, <1>6, <1>7, <1>8, <1>9 DEF Later

LEMMA LaterSender ==
  ASSUME TypeInv, TypeInv', WindowInv, Later, SenderStep, UNCHANGED listenerVars,
         session = 1, session' = 1
  PROVE  Later'
<1>0. /\ toListener \in Seq(ListenerPackets) /\ toSender \in Seq(SenderPackets)
      /\ unconfirmed_packets \in [Slots -> PacketNs \cup {None}]
      /\ first_unsent_packet_n \in Nat /\ LastPacket \in Nat
      /\ depth \in Nat /\ session \in Files
  BY ConstantTypes DEF TypeInv, TypeOK, NetTypeOK, SenderTypeOK
<1>inv. /\ Sequel /\ LaterBlocks /\ FirstPass
        /\ pc \in HashPhase \cup {"done"} \/ depth > 0 => AllLater
  BY DEF Later, PassEnded
<1>pcs. /\ \A p \in {"sync_send", "sync_wait"} :
             p \in SyncPhase /\ p \notin DataPhase \cup HashPhase \cup {"done"} \cup Transferring
        /\ \A p \in {"check", "send", "recv"} :
             p \notin SyncPhase \cup HashPhase \cup {"done"} /\ p \in DataPhase /\ p \in Transferring
        /\ \A p \in {"hash_send", "hash_wait"} :
             p \in HashPhase /\ p \notin SyncPhase \cup DataPhase /\ p \in Transferring
        /\ "done" \notin SyncPhase \cup DataPhase /\ "done" \in Transferring
        /\ "exited" \notin SyncPhase \cup DataPhase \cup HashPhase \cup {"done"} \cup Transferring
  BY DEF SyncPhase, DataPhase, HashPhase, Transferring
<1>same. toSender' = toSender => NothingNew(toSender', toSender)
  BY SameIsKept
<1>take. TakeAck => /\ \E k \in DOMAIN toSender : toSender[k] = Ack
                    /\ NothingNew(toSender', toSender) /\ toListener' = toListener
  BY <1>0, TailFacts, KeptIsNothingNew DEF TakeAck, Ack
<1>quiet. NothingNew(toSender', toSender) /\ toListener' = toListener /\ ~FlagInTransit
            => ~FlagInTransit'
  BY SameIsKept, NoNewFlag
<1>1. CASE SendSync
  <2>1. SyncPacket(session) \in ListenerPackets /\ SyncPacket(session).ok
        /\ SyncPacket(session).type = "SYNC"
    BY <1>0, PacketTypes DEF SyncPacket
  <2>2. /\ pc = "sync_send" /\ pc' \in {"sync_send", "sync_wait"}
        /\ toSender' = toSender /\ depth' = depth
        /\ (toListener' = toListener \/ toListener' = Append(toListener, SyncPacket(session)))
    BY <1>1 DEF SendSync, SendTo, SendToFails
  <2>3. FirstPass'
    BY <1>pcs, <2>2 DEF FirstPass
  <2> QED
    BY <1>inv, <1>pcs, <1>same, <2>1, <2>2, <2>3, LaterSends
<1>2. CASE SyncConfirmed
  <2>1. /\ TakeAck /\ Confirms(Ack) /\ pc = "sync_wait" /\ pc' = "check"
        /\ depth' = depth /\ sending' /\ Confirmed' = {}
    BY <1>2, ConfirmedChanges DEF SyncConfirmed, EnterData
  <2>2. FirstPass'
    <3>1. ~FlagInTransit
      BY <1>inv, <1>pcs, <2>1 DEF Sequel, FlagInTransit
    <3> QED
      BY <1>quiet, <1>take, <2>1, <3>1 DEF FirstPass
  <2> QED
    BY <1>inv, <1>pcs, <1>take, <2>1, <2>2, LaterSends
<1>3. CASE SyncTimeout \/ SyncRefused
  <2>1. /\ pc = "sync_wait" /\ pc' = "sync_send" /\ depth' = depth
        /\ toListener' = toListener /\ NothingNew(toSender', toSender)
    BY <1>3, <1>same, <1>take DEF SyncTimeout, SyncRefused
  <2>2. FirstPass'
    BY <1>pcs, <2>1 DEF FirstPass
  <2> QED
    BY <1>inv, <1>pcs, <2>1, <2>2, LaterSends
<1>4. CASE StartRound \/ SkipSlot \/ StartReceiving \/ EndRound \/ AckRefused
  <2>1. /\ pc \in {"check", "send", "recv"} /\ pc' \in {"check", "send", "recv"}
        /\ depth' = depth /\ UNCHANGED windowVars
        /\ toListener' = toListener /\ NothingNew(toSender', toSender)
    BY <1>4, <1>same, <1>take DEF StartRound, SkipSlot, StartReceiving, EndRound, AckRefused, netVars
  <2>2. Confirmed' = Confirmed
    BY <2>1, ConfirmedChanges
  <2>3. FirstPass'
    BY <1>inv, <1>pcs, <1>quiet, <2>1 DEF FirstPass, windowVars
  <2> QED
    BY <1>inv, <1>pcs, <2>1, <2>2, <2>3, LaterSends
<1>data. ASSUME NEW n \in PacketNs
         PROVE  /\ DataPacket(session, n) \in ListenerPackets
                /\ DataPacket(session, n).ok /\ DataPacket(session, n).type = "DATA"
                /\ DataPacket(session, n).file = 1
                /\ DataPacket(session, n).last => n >= LastPacket
  BY <1>0, PacketTypes DEF DataPacket, AtEof
<1>5. CASE SendNewPacket
  <2> DEFINE n == first_unsent_packet_n
  <2>1. /\ pc = "send" /\ pc' = "send" /\ depth' = depth /\ sending' = sending
        /\ toSender' = toSender
        /\ \/ toListener' = Append(toListener, DataPacket(session, n)) /\ first_unsent_packet_n' = n + 1
           \/ toListener' = toListener /\ first_unsent_packet_n' = n
    BY <1>5 DEF SendNewPacket, SendTo, SendToFails
  <2>2. n \in PacketNs
    BY <1>0, <1>5 DEF SendNewPacket, TypeInv, NumberInv, PacketNs
  <2>3. PICK p \in ListenerPackets :
          /\ p = DataPacket(session, n)
          /\ p.ok /\ p.type = "DATA" /\ p.file = 1 /\ (p.last => n >= LastPacket)
    BY <1>data, <2>2
  <2>4. \A m \in Confirmed' : m \in Confirmed
    BY <1>5, ConfirmedChanges
  <2>5. FirstPass'
    <3> SUFFICES ASSUME depth' = 0, first_unsent_packet_n' <= LastPacket
                 PROVE  sending' /\ ~FlagInTransit'
      BY DEF FirstPass
    <3>1. n <= LastPacket
      BY <1>0, <2>1
    <3>2. sending /\ ~FlagInTransit
      BY <1>inv, <1>pcs, <2>1, <3>1 DEF FirstPass
    <3>3. CASE toListener' = toListener
      BY <1>quiet, <1>same, <2>1, <3>2, <3>3
    <3>4. CASE toListener' = Append(toListener, p) /\ first_unsent_packet_n' = n + 1
      <4>1. ~p.last
        BY <1>0, <2>3, <3>4
      <4> QED
        BY <1>same, <2>1, <2>3, <3>2, <3>4, <4>1, NoNewFlag
    <3> QED
      BY <2>1, <2>3, <3>3, <3>4
  <2>6. toListener' = toListener \/ toListener' = Append(toListener, p)
    BY <2>1, <2>3
  <2> HIDE DEF n
  <2> QED
    BY <1>inv, <1>pcs, <1>same, <2>1, <2>3, <2>4, <2>5, <2>6, LaterSends
<1>6. CASE ResendPacket
  <2> DEFINE n == unconfirmed_packets[i]
  <2>1. /\ pc = "send" /\ pc' = "send" /\ depth' = depth /\ UNCHANGED windowVars
        /\ toSender' = toSender
        /\ toListener' = Append(toListener, DataPacket(session, n)) \/ toListener' = toListener
    BY <1>6 DEF ResendPacket, SendTo, SendToFails
  <2>2. n \in PacketNs /\ n < first_unsent_packet_n
    BY <1>0, <1>6 DEF ResendPacket, Slots, WindowInv, TypeInv, TypeOK, SenderTypeOK
  <2>3. PICK p \in ListenerPackets :
          /\ p = DataPacket(session, n)
          /\ p.ok /\ p.type = "DATA" /\ p.file = 1 /\ (p.last => n >= LastPacket)
    BY <1>data, <2>2
  <2>4. Confirmed' = Confirmed
    BY <2>1, ConfirmedChanges
  <2>5. toListener' = toListener \/ toListener' = Append(toListener, p)
    BY <2>1, <2>3
  <2>6. p.last => first_unsent_packet_n > LastPacket
    BY <1>0, <2>2, <2>3 DEF PacketNs
  <2>7. FirstPass'
    <3> SUFFICES ASSUME depth' = 0, first_unsent_packet_n' <= LastPacket
                 PROVE  sending' /\ ~FlagInTransit'
      BY DEF FirstPass
    <3>1. first_unsent_packet_n <= LastPacket /\ sending' = sending
      BY <2>1 DEF windowVars
    <3>2. sending /\ ~FlagInTransit
      BY <1>inv, <1>pcs, <2>1, <3>1 DEF FirstPass
    <3>3. ~p.last
      BY <1>0, <2>6, <3>1
    <3> QED
      BY <1>quiet, <1>same, <2>1, <2>3, <2>5, <3>1, <3>2, <3>3, NoNewFlag
  <2> HIDE DEF n
  <2> QED
    BY <1>inv, <1>pcs, <1>same, <2>1, <2>3, <2>4, <2>5, <2>7, LaterSends
<1>7. CASE AckConfirmed
  <2>1. /\ TakeAck /\ Confirms(Ack) /\ pc = "recv" /\ pc' \in {"check", "recv"}
        /\ depth' = depth /\ first_unsent_packet_n' = first_unsent_packet_n
        /\ sending' = (sending /\ ~Ack.last)
    BY <1>7 DEF AckConfirmed
  <2>2. \A m \in Confirmed' : m \in Confirmed \/ m = Ack.n
    BY <1>7, ConfirmedChanges
  <2>3. FirstPass'
    <3> SUFFICES ASSUME depth = 0, first_unsent_packet_n <= LastPacket
                 PROVE  sending' /\ ~FlagInTransit'
      BY <2>1 DEF FirstPass
    <3>1. sending /\ ~FlagInTransit
      BY <1>inv, <1>pcs, <2>1 DEF FirstPass
    <3>2. ~Ack.last
      BY <1>take, <2>1, <3>1 DEF FlagInTransit
    <3> QED
      BY <1>quiet, <1>take, <2>1, <3>1, <3>2
  <2> QED
    BY <1>inv, <1>pcs, <1>take, <2>1, <2>2, <2>3, LaterSends
<1>8. CASE FinishData
  <2>1. /\ pc = "check" /\ pc' = "hash_send" /\ depth' = depth
        /\ toListener' = toListener /\ NothingNew(toSender', toSender)
        /\ ~sending /\ \A s \in Slots : unconfirmed_packets[s] = None
    BY <1>8, <1>same DEF FinishData, AllConfirmed, netVars
  <2>2. AllLater
    <3>1. CASE depth > 0
      BY <1>inv, <3>1
    <3>2. CASE depth = 0
      <4>1. first_unsent_packet_n > LastPacket
        BY <1>0, <1>inv, <1>pcs, <2>1, <3>2 DEF FirstPass
      <4>2. \A n \in Blocks : n \in Confirmed
        BY <1>0, <2>1, <4>1 DEF Confirmed, Blocks, None
      <4> QED
        BY <1>inv, <1>pcs, <2>1, <4>2 DEF LaterBlocks, AllLater
    <3> QED
      BY <1>0, <3>1, <3>2
  <2>3. FirstPass'
    BY <1>pcs, <2>1 DEF FirstPass
  <2> QED
    BY <1>pcs, <2>1, <2>2, <2>3, LaterSends
<1>9. CASE SendHash
  <2>1. HashPacket(session) \in ListenerPackets /\ HashPacket(session).ok
        /\ HashPacket(session).type = "HASH"
    BY <1>0, PacketTypes DEF HashPacket
  <2>2. /\ pc = "hash_send" /\ pc' = "hash_wait" /\ toSender' = toSender
        /\ (toListener' = toListener \/ toListener' = Append(toListener, HashPacket(session)))
    BY <1>9 DEF SendHash, SendTo, SendToFails
  <2>3. FirstPass' /\ AllLater
    BY <1>inv, <1>pcs, <2>2 DEF FirstPass
  <2> QED
    BY <1>pcs, <1>same, <2>1, <2>2, <2>3, LaterSends
<1>10. CASE HashTimeout \/ HashAckDamaged \/ HashConfirmed
  <2>1. /\ pc = "hash_wait" /\ pc' \in {"hash_send", "done"}
        /\ toListener' = toListener /\ NothingNew(toSender', toSender)
    BY <1>10, <1>same, <1>take DEF HashTimeout, HashAckDamaged, HashConfirmed
  <2>2. FirstPass' /\ AllLater
    BY <1>inv, <1>pcs, <2>1 DEF FirstPass
  <2> QED
    BY <1>pcs, <2>1, <2>2, LaterSends
<1>11. CASE HashRefused
  <2>1. /\ TakeAck /\ pc = "hash_wait" /\ pc' = "check"
        /\ depth' = depth + 1 /\ Confirmed' = {}
    BY <1>11, ConfirmedChanges DEF HashRefused, EnterData
  <2>2. FirstPass' /\ AllLater
    BY <1>0, <1>inv, <1>pcs, <2>1 DEF FirstPass
  <2> QED
    BY <1>pcs, <1>take, <2>1, <2>2, LaterSends
<1>12. CASE ReceiveFails \/ OpenFails
  <2>1. /\ pc' = "exited" /\ depth' = depth
        /\ toListener' = toListener /\ NothingNew(toSender', toSender)
    BY <1>0, <1>12, <1>same, TailFacts, KeptIsNothingNew DEF ReceiveFails, OpenFails
  <2>2. FirstPass'
    BY <1>pcs, <2>1 DEF FirstPass
  <2> QED
    BY <1>inv, <1>pcs, <2>1, <2>2, LaterSends
<1>13. CASE SenderGone
  <2>1. /\ pc \in {"done", "exited"} /\ pc' = pc /\ depth' = depth
        /\ toListener' = toListener /\ NothingNew(toSender', toSender)
    BY <1>0, <1>13, TailFacts, KeptIsNothingNew DEF SenderGone, senderVars, Ended
  <2>2. FirstPass'
    BY <1>pcs, <2>1 DEF FirstPass
  <2> QED
    BY <1>inv, <1>pcs, <2>1, <2>2, LaterSends
<1>14. ~NextTransfer
  BY DEF NextTransfer
<1> QED
  BY <1>1, <1>2, <1>3, <1>4, <1>5, <1>6, <1>7, <1>8, <1>9, <1>10, <1>11, <1>12, <1>13, <1>14
     DEF SenderStep, SenderRuns, SenderReceives

LEMMA LaterListener ==
  ASSUME TypeInv, TypeInv', Later, ListenerReceives, UNCHANGED senderVars, session = 1
  PROVE  Later'
<1>0. Sequel /\ Opened /\ LaterBlocks /\ (PassEnded => AllLater)
  BY DEF Later
<1>1. Receive
  BY DEF ListenerReceives, ReceiveSync, ReceiveSyncOpenFails, ReceiveData, ReceiveDataNoFile,
     ReceiveHash, ReceiveHashAgain, ReceiveHashNoFile, ReceiveDamaged, ReceiveUnknown
<1>2. /\ Packet \in ListenerPackets /\ 1 \in DOMAIN toListener /\ Packet = toListener[1]
      /\ \A j \in DOMAIN toListener : 1 <= j
      /\ OrderKept(toListener', toListener) /\ NothingNew(toListener', toListener)
  BY <1>1, ReceiveFacts, TailOrder, LenProperties DEF Receive, TypeInv, TypeOK, NetTypeOK
<1>3. listening /\ session' = 1
  BY <1>1 DEF Receive, senderVars
<1>same. toSender' = toSender => NothingNew(toSender', toSender)
  BY SameIsKept
<1>zero. LaterBlock(0)' /\ \A n : n = 0 => LaterBlock(n)'
  BY DEF LaterBlock
<1>syncs. ~SyncOut => ~SyncOut'
  BY <1>2 DEF SyncOut, NothingNew
<1>stays. UNCHANGED content => \A n : LaterBlock(n) => LaterBlock(n)'
  BY <1>3, <1>syncs DEF LaterBlock, Written
<1>ack. ASSUME NEW n \in PacketNs, NEW last \in BOOLEAN, NEW state \in {CONFIRM_CODE, NEGATIVE_CODE}
        PROVE  /\ AckPacket(n, last, state) \in SenderPackets
               /\ AckPacket(n, last, state).n = n /\ AckPacket(n, last, state).last = last
               /\ Confirms(AckPacket(n, last, state)) <=> state = CONFIRM_CODE
  BY PacketTypes DEF AckPacket, Confirms
<1>yes. PICK yes \in SenderPackets :
          yes = AckPacket(0, FALSE, CONFIRM_CODE) /\ yes.n = 0 /\ ~yes.last
  BY <1>ack, ConstantTypes
<1>4. CASE ReceiveSync \/ ReceiveSyncOpenFails
  <2>1. /\ Packet.ok /\ Packet.type = "SYNC"
        /\ toSender' = toSender \/ toSender' = Append(toSender, yes)
        /\ is_accepted' = is_accepted
        /\ \/ handle' = "open" /\ listening' = listening
           \/ handle' = handle /\ ~listening'
    <3>1. Reply(yes)
      BY <1>4, <1>yes DEF ReceiveSync, ReceiveSyncOpenFails
    <3>2. toSender' = toSender \/ toSender' = Append(toSender, yes)
      BY <1>1, <3>1, ReceiveFacts
    <3> QED
      BY <1>4, <3>2 DEF ReceiveSync, ReceiveSyncOpenFails
  <2>2. SyncOut
    BY <1>2, <2>1 DEF SyncOut
  <2>3. \A n : LaterBlock(n) => LaterBlock(n)'
    BY <1>zero, <2>2 DEF LaterBlock
  <2> QED
    BY <1>2, <1>3, <1>same, <1>yes, <1>zero, <2>1, <2>3, LaterListens
<1>5. ASSUME Packet.ok, Packet.type = "DATA"
      PROVE  /\ ~SyncOut /\ ~SyncOut' /\ pc \notin SyncPhase
             /\ Packet.file = 1 /\ Packet.n \in PacketNs /\ Packet.last \in BOOLEAN
             /\ handle # "unset"
             /\ Packet.last => FlagInTransit
  <2>1. ~SyncOut /\ pc \notin SyncPhase /\ Packet.file = 1 /\ handle # "unset"
    BY <1>0, <1>2, <1>3, <1>5 DEF Sequel, Opened, SyncOut
  <2> QED
    BY <1>2, <1>5, <1>syncs, <2>1, PacketFields DEF FlagInTransit
<1>6. CASE ReceiveData
  <2>1. /\ Packet.ok /\ Packet.type = "DATA"
        /\ Reply(AckPacket(Packet.n, Packet.last, CONFIRM_CODE))
        /\ UNCHANGED <<listening, handle, is_accepted>>
        /\ content' = [k \in Blocks |-> IF k = Packet.n THEN Packet.file ELSE content[k]]
    BY <1>6 DEF ReceiveData, WriteBlock
  <2>2. PICK a \in SenderPackets :
          /\ a = AckPacket(Packet.n, Packet.last, CONFIRM_CODE)
          /\ a.n = Packet.n /\ a.last = Packet.last
    BY <1>5, <1>ack, <2>1
  <2>3. toSender' = toSender \/ toSender' = Append(toSender, a)
    BY <1>1, <2>1, <2>2, ReceiveFacts
  <2>4. \A n : n = Packet.n => LaterBlock(n)'
    BY <1>3, <1>5, <2>1 DEF LaterBlock, Written
  <2>5. \A n : LaterBlock(n) => LaterBlock(n)'
    BY <1>3, <1>5, <2>1 DEF LaterBlock, Written
  <2> QED
    BY <1>2, <1>5, <1>same, <2>1, <2>2, <2>3, <2>4, <2>5, LaterListens
<1>7. CASE ReceiveDataNoFile
  <2>1. /\ Packet.ok /\ Packet.type = "DATA" /\ handle # "open"
        /\ \/ toSender' = toSender
           \/ Reply(AckPacket(Packet.n, Packet.last, CONFIRM_CODE))
        /\ UNCHANGED <<handle, is_accepted, content>>
    BY <1>7 DEF ReceiveDataNoFile, fileVars
  <2>2. PICK a \in SenderPackets :
          /\ a = AckPacket(Packet.n, Packet.last, CONFIRM_CODE)
          /\ a.n = Packet.n /\ a.last = Packet.last
    BY <1>5, <1>ack, <2>1
  <2>3. toSender' = toSender \/ toSender' = Append(toSender, a)
    BY <1>1, <2>1, <2>2, ReceiveFacts
  <2>4. AllLater
    <3>1. handle = "closed"
      BY <1>5, <2>1 DEF TypeInv, TypeOK, ListenerTypeOK
    <3> QED
      BY <1>0, <3>1 DEF PassEnded
  <2>5. \A n : n = Packet.n => LaterBlock(n)'
    <3>1. ASSUME NEW n, n = Packet.n PROVE LaterBlock(n)
      <4>1. CASE n \in Blocks
        BY <2>4, <4>1 DEF AllLater
      <4>2. CASE n \notin Blocks
        BY <1>5, <2>1, <4>2 DEF LaterBlock, Written
      <4> QED
        BY <4>1, <4>2
    <3> QED
      BY <1>stays, <2>1, <3>1
  <2> QED
    BY <1>2, <1>3, <1>5, <1>same, <1>stays, <2>1, <2>2, <2>3, <2>5, LaterListens
<1>8. CASE ReceiveHash
  <2>1. /\ Packet.ok /\ Packet.type = "HASH"
        /\ toSender' = toSender \/ toSender' = Append(toSender, yes)
        /\ handle' = "closed" /\ UNCHANGED <<listening, content>>
    BY <1>1, <1>8, <1>yes, ReceiveFacts DEF ReceiveHash, compare_hash
  <2>2. AllLater /\ pc \notin SyncPhase
    BY <1>0, <1>2, <2>1 DEF PassEnded, Sequel
  <2>3. \A n : LaterBlock(n) => LaterBlock(n)'
    BY <1>stays, <2>1
  <2>4. \A n : n = yes.n => LaterBlock(n)'
    BY <1>yes, <1>zero
  <2> QED
    BY <1>2, <1>same, <1>yes, <2>1, <2>2, <2>3, <2>4, LaterListens
<1>9. CASE ReceiveHashAgain
  <2>1. /\ is_accepted
        /\ toSender' = toSender \/ toSender' = Append(toSender, yes)
        /\ UNCHANGED <<listening, handle, is_accepted, content>>
    BY <1>1, <1>9, <1>yes, ReceiveFacts DEF ReceiveHashAgain, fileVars
  <2>2. handle # "unset"
    BY <1>0, <1>3, <2>1 DEF Opened
  <2> QED
    BY <1>2, <1>same, <1>stays, <1>yes, <1>zero, <2>1, <2>2, LaterListens
<1>10. ~ReceiveHashNoFile
  BY <1>0, <1>2, <1>3 DEF ReceiveHashNoFile, Opened
<1>11. CASE ReceiveDamaged \/ ReceiveUnknown
  <2>1. PICK no \in SenderPackets : no = AckPacket(0, FALSE, NEGATIVE_CODE) /\ ~Confirms(no)
    BY <1>ack, ConstantTypes DEF CONFIRM_CODE, NEGATIVE_CODE
  <2>2. /\ toSender' = toSender \/ toSender' = Append(toSender, no)
        /\ UNCHANGED <<listening, handle, is_accepted, content>>
    BY <1>1, <1>11, <2>1, ReceiveFacts DEF ReceiveDamaged, ReceiveUnknown, listenerVars, fileVars
  <2> QED
    BY <1>2, <1>same, <1>stays, <2>1, <2>2, LaterListens
<1> QED
  BY <1>4, <1>6, <1>7, <1>8, <1>9, <1>10, <1>11 DEF ListenerReceives

LEMMA LaterStep ==
  ASSUME TypeInv, WindowInv, LaterInv, [Next]_vars
  PROVE  LaterInv'
<1> SUFFICES ASSUME NoCopies', InOrder', session' = 1 PROVE Later'
  BY DEF LaterInv
<1>0. /\ TypeInv'
      /\ toListener \in Seq(ListenerPackets) /\ toSender \in Seq(SenderPackets)
  BY TypeStep DEF TypeInv, TypeOK, NetTypeOK
<1>1. session = 1
  <2>1. session \in Nat \ {0}
    BY DEF TypeInv, TypeOK, SenderTypeOK, Files
  <2> QED
    BY <2>1, SessionSteps
<1>2. Later
  BY <1>1, NoCopiesBefore, InOrderBefore DEF LaterInv
<1>same. /\ toSender' = toSender => NothingNew(toSender', toSender)
         /\ toListener' = toListener => OrderKept(toListener', toListener)
                                        /\ NothingNew(toListener', toListener)
  BY SameIsKept DEF OrderKept
<1>quiet. ASSUME UNCHANGED senderVars, UNCHANGED <<handle, is_accepted, content>>,
                 listening' => listening,
                 OrderKept(toListener', toListener), NothingNew(toListener', toListener),
                 NothingNew(toSender', toSender)
          PROVE  Later'
  <2>1. session' = session
    BY <1>quiet DEF senderVars
  <2>2. SyncOut' => SyncOut
    BY <1>quiet DEF SyncOut, NothingNew
  <2>3. \A n : LaterBlock(n) => LaterBlock(n)'
    BY <1>quiet, <2>1, <2>2 DEF LaterBlock, Written
  <2> QED
    BY <1>0, <1>2, <1>quiet, <2>3, LaterListens
<1>3. CASE SenderStep /\ UNCHANGED listenerVars
  BY <1>0, <1>1, <1>2, <1>3, LaterSender
<1>4. CASE ListenerStep /\ UNCHANGED senderVars
  <2>1. CASE ListenerReceives
    BY <1>0, <1>1, <1>2, <1>4, <2>1, LaterListener
  <2>2. CASE ListenerReceiveFails
    BY <1>4, <1>quiet, <1>same, <2>2 DEF ListenerReceiveFails
  <2>3. CASE ListenerGone
    <3>1. OrderKept(toListener', toListener) /\ NothingNew(toListener', toListener)
      BY <1>0, <2>3, TailOrder, TailFacts, KeptIsNothingNew DEF ListenerGone
    <3> QED
      BY <1>4, <1>quiet, <1>same, <2>3, <3>1 DEF ListenerGone, listenerVars, fileVars
  <2>4. ~Restart
    <3>1. Fault("restart") => "restart" \in faults'.kinds
      BY DEF Fault
    <3> QED
      BY <3>1 DEF Restart, NoCopies
  <2> QED
    BY <1>4, <2>1, <2>2, <2>3, <2>4 DEF ListenerStep
<1>5. CASE NetworkStep /\ UNCHANGED <<senderVars, listenerVars>>
  <2>1. /\ OrderKept(toListener', toListener) /\ NothingNew(toListener', toListener)
        /\ NothingNew(toSender', toSender)
    BY <1>0, <1>5, <1>same, MisbehaveOrder, MisbehaveNothingNew DEF NetworkStep, InOrder
  <2> QED
    BY <1>5, <1>quiet, <2>1 DEF listenerVars, fileVars
<1>6. CASE UNCHANGED vars
  BY <1>6, <1>quiet, <1>same DEF vars, netVars, listenerVars, fileVars
<1> QED
  BY <1>3, <1>4, <1>5, <1>6 DEF Next, Idle

LEMMA LaterInvariant == Spec => []LaterInv
<1>1. Init => LaterInv
  <2> SUFFICES ASSUME Init PROVE Later
    BY DEF LaterInv
  <2>1. /\ toListener = <<>> /\ toSender = <<>> /\ pc = "sync_send" /\ depth = 0
        /\ handle = "unset" /\ is_accepted = FALSE
    BY DEF Init, NetInit, SenderInit, ListenerInit
  <2>2. DOMAIN toListener = {} /\ DOMAIN toSender = {}
    BY <2>1
  <2>3. pc \notin DataPhase \cup HashPhase \cup {"done"} \cup Transferring
    BY <2>1 DEF DataPhase, HashPhase, Transferring
  <2> QED
    BY <2>1, <2>2, <2>3 DEF Later, Sequel, Opened, LaterBlocks, PassEnded, FirstPass
<1>2. TypeInv /\ WindowInv /\ LaterInv /\ [Next]_vars => LaterInv'
  BY LaterStep
<1> QED
  BY <1>1, <1>2, TypeInvariant, WindowCorrect, PTL DEF Spec

----------------------------------------------------------------------------
(* Theorems.                                                               *)

\* A file opened again by a late SYNC costs packet 0 at most: every other one
\* that the sender has dropped from its window is in the file, and in the end
\* all others are, although a damaged HASH may have the file sent again
\* (listener.c 106-118, sender.c 351-355, 436-439).
THEOREM LaterConfirmedBlocksAreWritten == Spec => []LaterConfirmedIsWritten
<1>1. LaterInv => LaterConfirmedIsWritten
  BY DEF LaterInv, Later, LaterBlocks, PassEnded, AllLater, LaterBlock, LaterConfirmedIsWritten
<1> QED
  BY <1>1, LaterInvariant, PTL

\* On one route no block is written before fopen or after fclose, and none
\* before fopen on a line that damages datagrams (listener.c 151-152).
THEOREM WritesAreToOpenFile == Spec => []WritesGoToOpenFile
<1>1. ASSUME TypeInv, NoCopies, InOrder, session = 1, listening, toListener # <<>>,
             Packet.ok, Packet.type = "DATA"
      PROVE  /\ LaterInv => handle # "unset"
             /\ LineInv /\ OneRoute => handle = "open"
  <2>1. 1 \in DOMAIN toListener /\ Packet = toListener[1]
    BY <1>1, TailFacts DEF TypeInv, TypeOK, NetTypeOK, Packet
  <2>2. ~SyncsOnly /\ ~HashesOnly
    BY <1>1, <2>1 DEF SyncsOnly, HashesOnly
  <2>3. LaterInv => handle # "unset"
    BY <1>1, <2>1 DEF LaterInv, Later, Opened
  <2>4. handle \in {"unset", "open", "closed"}
    BY <1>1 DEF TypeInv, TypeOK, ListenerTypeOK
  <2> QED
    BY <1>1, <2>2, <2>3, <2>4 DEF LineInv, Line, FileOpen
<1>2. TypeInv /\ LineInv /\ LaterInv => WritesGoToOpenFile
  BY <1>1 DEF WritesGoToOpenFile
<1> QED
  BY <1>2, LineInvariant, LaterInvariant, TypeInvariant, PTL

=============================================================================

------------------------ MODULE FileTransfer_proofs ------------------------
(***************************************************************************)
(* Theorems about FileTransfer for every window size, file length, number  *)
(* of transfers, set of faults and budget of faults.                       *)
(***************************************************************************)
EXTENDS FileTransfer, SequenceTheorems, TLAPS

----------------------------------------------------------------------------
(* Channels.                                                               *)

\* Taking datagram k out of a channel moves the later ones up by one.
LEMMA WithoutFacts ==
  ASSUME NEW S, NEW chan \in Seq(S), NEW k \in DOMAIN chan
  PROVE  /\ Without(chan, k) \in Seq(S)
         /\ Len(Without(chan, k)) = Len(chan) - 1
         /\ \A m \in 1 .. Len(chan) - 1 :
              Without(chan, k)[m] = chan[IF m < k THEN m ELSE m + 1]
<1> DEFINE front == SubSeq(chan, 1, k - 1)
           back == SubSeq(chan, k + 1, Len(chan))
<1>1. Len(chan) \in Nat /\ k \in 1 .. Len(chan) /\ \A m \in 1 .. Len(chan) : chan[m] \in S
  BY LenProperties, ElementOfSeq
<1>2. /\ front \in Seq(S) /\ Len(front) = k - 1
      /\ \A m \in 1 .. k - 1 : front[m] = chan[m]
  <2>1. \A m \in 1 .. k - 1 : chan[m] \in S
    BY <1>1
  <2> QED
    BY <1>1, <2>1, SubSeqProperties
<1>3. /\ back \in Seq(S) /\ Len(back) = Len(chan) - k
      /\ \A m \in 1 .. Len(chan) - k : back[m] = chan[m + k]
  <2>1. \A m \in k + 1 .. Len(chan) : chan[m] \in S
    BY <1>1
  <2>2. k + 1 \in Int /\ Len(chan) \in Int
    BY <1>1
  <2>3. /\ back \in Seq(S)
        /\ Len(back) = IF k + 1 <= Len(chan) THEN Len(chan) - (k + 1) + 1 ELSE 0
        /\ \A m \in 1 .. Len(chan) - (k + 1) + 1 : back[m] = chan[k + 1 + m - 1]
    BY <2>1, <2>2, SubSeqProperties
  <2> QED
    BY <1>1, <2>3
<1>4. Without(chan, k) = front \o back
  BY DEF Without, RemoveAt
<1> HIDE DEF front, back
<1>5. /\ front \o back \in Seq(S)
      /\ Len(front \o back) = Len(front) + Len(back)
      /\ \A m \in 1 .. Len(front) + Len(back) :
           (front \o back)[m] = IF m <= Len(front) THEN front[m] ELSE back[m - Len(front)]
  BY <1>2, <1>3, ConcatProperties
<1>6. ASSUME NEW m \in 1 .. Len(chan) - 1
      PROVE  (front \o back)[m] = chan[IF m < k THEN m ELSE m + 1]
  <2>1. CASE m < k
    <3>1. m \in 1 .. k - 1 /\ m \in 1 .. Len(front) + Len(back) /\ m <= Len(front)
      BY <1>1, <1>2, <1>3, <2>1
    <3>2. (front \o back)[m] = front[m]
      BY <1>5, <3>1
    <3>3. front[m] = chan[m]
      BY <1>2, <3>1
    <3> QED
      BY <2>1, <3>2, <3>3
  <2>2. CASE m >= k
    <3>1. m - (k - 1) \in 1 .. Len(chan) - k /\ m - (k - 1) + k = m + 1
      BY <1>1, <2>2
    <3>2. (front \o back)[m] = back[m - (k - 1)]
      <4>1. m \in 1 .. Len(front) + Len(back) /\ ~(m <= Len(front))
        BY <1>1, <1>2, <1>3, <2>2
      <4>2. (front \o back)[m] = back[m - Len(front)]
        BY <1>5, <4>1
      <4> QED
        BY <1>2, <4>2
    <3>3. back[m - (k - 1)] = chan[m - (k - 1) + k]
      BY <1>3, <3>1
    <3> QED
      BY <1>1, <2>2, <3>1, <3>2, <3>3
  <2>3. m < k \/ m >= k
    BY <1>1
  <2> QED
    BY <2>1, <2>2, <2>3
<1>7. Len(front) + Len(back) = Len(chan) - 1
  BY <1>1, <1>2, <1>3
<1> QED
  BY <1>4, <1>5, <1>6, <1>7

\* A channel has type Seq(S) again after whatever the network does to it.
LEMMA MisbehaveType ==
  ASSUME NEW S, NEW chan \in Seq(S), NEW new, NEW types,
         \A t \in types : Damaged(t) \in S,
         Misbehave(chan, new, types)
  PROVE  new \in Seq(S)
<1>1. CASE Lose(chan, new)
  BY <1>1, WithoutFacts DEF Lose
<1>2. CASE Duplicate(chan, new)
  BY <1>2, LenProperties, ElementOfSeq, AppendProperties DEF Duplicate
<1>3. CASE Overtake(chan, new)
  BY <1>3, LenProperties, ElementOfSeq, AppendProperties, WithoutFacts DEF Overtake
<1>4. CASE Corrupt(chan, new, types)
  BY <1>4, LenProperties, ExceptSeq DEF Corrupt
<1> QED
  BY <1>1, <1>2, <1>3, <1>4 DEF Misbehave

\* What is in transit undamaged was in transit before, and is there twice only
\* when it was there twice.
Kept(new, old) ==
  \A j1, j2 \in DOMAIN new : new[j1].ok /\ new[j2].ok =>
    \E k1, k2 \in DOMAIN old :
      new[j1] = old[k1] /\ new[j2] = old[k2] /\ (j1 # j2 => k1 # k2)

LEMMA TailFacts ==
  ASSUME NEW S, NEW chan \in Seq(S), chan # <<>>
  PROVE  /\ Tail(chan) \in Seq(S)
         /\ Head(chan) \in S
         /\ 1 \in DOMAIN chan
         /\ Head(chan) = chan[1]
         /\ \A j \in DOMAIN Tail(chan) : j + 1 \in DOMAIN chan /\ Tail(chan)[j] = chan[j + 1]
         /\ Kept(Tail(chan), chan)
<1>1. /\ Tail(chan) \in Seq(S) /\ Head(chan) \in S
      /\ Len(Tail(chan)) = Len(chan) - 1
      /\ \A j \in 1 .. Len(Tail(chan)) : Tail(chan)[j] = chan[j + 1]
  BY HeadTailProperties
<1>2. /\ Len(chan) \in Nat \ {0} /\ DOMAIN chan = 1 .. Len(chan)
      /\ DOMAIN Tail(chan) = 1 .. Len(Tail(chan))
  BY <1>1, EmptySeq, LenProperties
<1>3. Head(chan) = chan[1]
  OBVIOUS
<1>4. \A j \in DOMAIN Tail(chan) : j + 1 \in DOMAIN chan /\ Tail(chan)[j] = chan[j + 1]
  BY <1>1, <1>2
<1>5. Kept(Tail(chan), chan)
  BY <1>2, <1>4 DEF Kept
<1> QED
  BY <1>1, <1>2, <1>3, <1>4, <1>5

LEMMA AppendFacts ==
  ASSUME NEW S, NEW chan \in Seq(S), NEW e \in S
  PROVE  /\ Append(chan, e) \in Seq(S)
         /\ DOMAIN Append(chan, e) = DOMAIN chan \cup {Len(chan) + 1}
         /\ Len(chan) + 1 \notin DOMAIN chan
         /\ \A j \in DOMAIN chan : Append(chan, e)[j] = chan[j]
         /\ Append(chan, e)[Len(chan) + 1] = e
<1>1. /\ Append(chan, e) \in Seq(S)
      /\ Len(Append(chan, e)) = Len(chan) + 1
      /\ \A j \in 1 .. Len(chan) : Append(chan, e)[j] = chan[j]
      /\ Append(chan, e)[Len(chan) + 1] = e
  BY AppendProperties
<1>2. /\ Len(chan) \in Nat /\ DOMAIN chan = 1 .. Len(chan)
      /\ DOMAIN Append(chan, e) = 1 .. Len(Append(chan, e))
  BY <1>1, LenProperties
<1>3. DOMAIN Append(chan, e) = DOMAIN chan \cup {Len(chan) + 1}
  BY <1>1, <1>2
<1>4. Len(chan) + 1 \notin DOMAIN chan
  BY <1>2
<1> QED
  BY <1>1, <1>2, <1>3, <1>4

\* A network that makes no copies keeps or loses what it is given.
LEMMA MisbehaveKept ==
  ASSUME NEW S, NEW chan \in Seq(S), NEW new, NEW types,
         "duplicate" \notin faults'.kinds,
         Misbehave(chan, new, types)
  PROVE  Kept(new, chan)
<1>0. DOMAIN chan = 1 .. Len(chan) /\ Len(chan) \in Nat
  BY LenProperties
<1>1. CASE Lose(chan, new)
  <2>1. PICK k \in DOMAIN chan : new = Without(chan, k)
    BY <1>1 DEF Lose
  <2>2. /\ DOMAIN new = 1 .. Len(chan) - 1
        /\ \A m \in 1 .. Len(chan) - 1 : new[m] = chan[IF m < k THEN m ELSE m + 1]
    BY <1>0, <2>1, WithoutFacts, LenProperties
  <2> DEFINE from(m) == IF m < k THEN m ELSE m + 1
  <2>3. \A m \in DOMAIN new : from(m) \in DOMAIN chan /\ new[m] = chan[from(m)]
    BY <1>0, <2>2
  <2>4. \A m, n \in DOMAIN new : m # n => from(m) # from(n)
    BY <1>0, <2>2
  <2> HIDE DEF from
  <2> QED
    BY <2>3, <2>4 DEF Kept
<1>2. CASE Overtake(chan, new)
  <2>1. PICK k \in DOMAIN chan : new = Append(Without(chan, k), chan[k])
    BY <1>2 DEF Overtake
  <2> DEFINE rest == Without(chan, k)
  <2>2. /\ rest \in Seq(S) /\ Len(rest) = Len(chan) - 1
        /\ \A m \in 1 .. Len(chan) - 1 : rest[m] = chan[IF m < k THEN m ELSE m + 1]
    BY WithoutFacts
  <2>3. chan[k] \in S
    BY <1>0, ElementOfSeq
  <2> HIDE DEF rest
  <2>4. /\ DOMAIN new = DOMAIN rest \cup {Len(rest) + 1}
        /\ \A m \in DOMAIN rest : new[m] = rest[m]
        /\ new[Len(rest) + 1] = chan[k]
    BY <2>1, <2>2, <2>3, AppendFacts DEF rest
  <2>5. DOMAIN rest = 1 .. Len(chan) - 1
    BY <2>2, LenProperties
  <2>6. /\ DOMAIN new = 1 .. Len(chan)
        /\ \A m \in 1 .. Len(chan) - 1 : new[m] = chan[IF m < k THEN m ELSE m + 1]
        /\ new[Len(chan)] = chan[k]
    <3>1. Len(rest) + 1 = Len(chan)
      BY <1>0, <2>2
    <3>2. DOMAIN new = 1 .. Len(chan)
      BY <1>0, <2>4, <2>5, <3>1
    <3> QED
      BY <2>2, <2>4, <2>5, <3>1, <3>2
  <2> DEFINE from(m) == IF m = Len(chan) THEN k ELSE IF m < k THEN m ELSE m + 1
  <2>7. \A m \in DOMAIN new : from(m) \in DOMAIN chan /\ new[m] = chan[from(m)]
    BY <1>0, <2>6
  <2>8. \A m, n \in DOMAIN new : m # n => from(m) # from(n)
    BY <1>0, <2>6
  <2> HIDE DEF from
  <2> QED
    BY <2>7, <2>8 DEF Kept
<1>3. CASE Corrupt(chan, new, types)
  <2>1. PICK k \in DOMAIN chan, t \in types : new = [chan EXCEPT ![k] = Damaged(t)]
    BY <1>3 DEF Corrupt
  <2>2. DOMAIN new = DOMAIN chan
    BY <2>1
  <2>3. \A j \in DOMAIN chan : new[j] = IF j = k THEN Damaged(t) ELSE chan[j]
    BY <2>1
  <2>4. ~Damaged(t).ok
    BY DEF Damaged
  <2> QED
    BY <2>2, <2>3, <2>4 DEF Kept
<1>4. ~Duplicate(chan, new)
  BY DEF Duplicate, Fault
<1> QED
  BY <1>1, <1>2, <1>3, <1>4 DEF Misbehave

----------------------------------------------------------------------------
(* Types.                                                                  *)

LEMMA PacketTypes ==
  /\ \A f \in Files : SyncPacket(f) \in ListenerPackets /\ HashPacket(f) \in ListenerPackets
  /\ \A f \in Files, n \in PacketNs : DataPacket(f, n) \in ListenerPackets
  /\ \A t \in ListenerTypes : Damaged(t) \in ListenerPackets
  /\ \A n \in PacketNs, last \in BOOLEAN, state \in {CONFIRM_CODE, NEGATIVE_CODE} :
       AckPacket(n, last, state) \in SenderPackets
  /\ Damaged("ACK") \in SenderPackets
<1>1. \A f \in Files : SyncPacket(f) \in ListenerPackets /\ HashPacket(f) \in ListenerPackets
  BY DEF SyncPacket, HashPacket, ListenerPackets
<1>2. \A f \in Files, n \in PacketNs : DataPacket(f, n) \in ListenerPackets
  <2>1. \A n \in PacketNs : AtEof(n) \in BOOLEAN
    BY DEF AtEof
  <2> QED
    BY <2>1 DEF DataPacket, ListenerPackets
<1>3. \A t \in ListenerTypes : Damaged(t) \in ListenerPackets
  BY DEF Damaged, ListenerPackets
<1>4. \A n \in PacketNs, last \in BOOLEAN, state \in {CONFIRM_CODE, NEGATIVE_CODE} :
        AckPacket(n, last, state) \in SenderPackets
  BY DEF AckPacket, SenderPackets
<1>5. Damaged("ACK") \in SenderPackets
  BY DEF Damaged, SenderPackets
<1> QED
  BY <1>1, <1>2, <1>3, <1>4, <1>5

LEMMA PacketFields ==
  /\ \A p \in ListenerPackets : p.ok /\ p.type \in {"SYNC", "DATA", "HASH"} => p.file \in Files
  /\ \A p \in ListenerPackets : p.ok /\ p.type = "DATA" => p.n \in PacketNs /\ p.last \in BOOLEAN
  /\ \A p \in SenderPackets : p.ok => p.n \in PacketNs /\ p.last \in BOOLEAN
<1>1. ASSUME NEW p \in ListenerPackets, p.ok, p.type \in {"SYNC", "HASH"}
      PROVE  p.file \in Files
  BY <1>1 DEF ListenerPackets
<1>2. ASSUME NEW p \in ListenerPackets, p.ok, p.type = "DATA"
      PROVE  p.file \in Files /\ p.n \in PacketNs /\ p.last \in BOOLEAN
  BY <1>2 DEF ListenerPackets
<1>3. ASSUME NEW p \in SenderPackets, p.ok
      PROVE  p.n \in PacketNs /\ p.last \in BOOLEAN
  BY <1>3 DEF SenderPackets, Damaged
<1> QED
  BY <1>1, <1>2, <1>3

LEMMA ConstantTypes ==
  /\ LastPacket \in Nat /\ MaxSessions \in Nat \ {0}
  /\ MaxFaults \in Nat /\ WindowSize \in Nat
  /\ 0 \in PacketNs /\ LastPacket + 1 \in PacketNs
  /\ 1 \in Files
BY PacketsAssumption, NetworkAssumption, SenderAssumption DEF PacketNs, Files

\* The system calls keep the types of the channels.
LEMMA CallTypes ==
  ASSUME NetTypeOK
  PROVE  /\ \A p \in ListenerPackets : SendTo(p) /\ UNCHANGED toSender => NetTypeOK'
         /\ SendToFails /\ UNCHANGED toSender => NetTypeOK'
         /\ SelectTimesOut /\ UNCHANGED <<toListener, toSender>> => NetTypeOK'
         /\ TakeAck => NetTypeOK' /\ Ack \in SenderPackets
         /\ toSender # <<>> => Ack \in SenderPackets /\ Tail(toSender) \in Seq(SenderPackets)
         /\ \A kind : Fault(kind) => faults' \in FaultCounts
<1>1. \A kind : Fault(kind) => faults' \in FaultCounts
  BY ConstantTypes DEF Fault, NetTypeOK, FaultCounts
<1>2. ASSUME NEW p \in ListenerPackets PROVE SendTo(p) /\ UNCHANGED toSender => NetTypeOK'
  BY AppendProperties DEF SendTo, NetTypeOK
<1>3. SendToFails /\ UNCHANGED toSender => NetTypeOK'
  BY <1>1 DEF SendToFails, NetTypeOK
<1>4. SelectTimesOut /\ UNCHANGED <<toListener, toSender>> => NetTypeOK'
  BY <1>1 DEF SelectTimesOut, NetTypeOK
<1>5. toSender # <<>> => Ack \in SenderPackets /\ Tail(toSender) \in Seq(SenderPackets)
  BY TailFacts DEF NetTypeOK, Ack
<1>6. TakeAck => NetTypeOK' /\ Ack \in SenderPackets
  BY <1>5 DEF TakeAck, NetTypeOK
<1> QED
  BY <1>1, <1>2, <1>3, <1>4, <1>5, <1>6

TypeInv == TypeOK /\ NumberInv

WindowTypes ==
  /\ unconfirmed_packets \in [Slots -> PacketNs \cup {None}]
  /\ first_unsent_packet_n \in 0 .. LastPacket + 2
  /\ last_packet_n \in PacketNs
  /\ sending \in BOOLEAN
  /\ NumberInv

PlaceTypes ==
  /\ session \in Files
  /\ pc \in SyncPhase \cup DataPhase \cup HashPhase \cup Ended
  /\ i \in 1 .. WindowSize + 1
  /\ depth \in Nat

LEMMA EnterDataTypes ==
  ASSUME EnterData
  PROVE  pc' \in DataPhase /\ i' \in 1 .. WindowSize + 1 /\ WindowTypes'
BY ConstantTypes DEF EnterData, EmptyWindow, DataPhase, NumberInv, WindowTypes

LEMMA TypeInit == Init => TypeInv
<1> SUFFICES ASSUME Init PROVE TypeInv
  OBVIOUS
<1>1. NetTypeOK
  BY ConstantTypes, EmptySeq DEF Init, NetInit, NetTypeOK, FaultCounts
<1>2. SenderTypeOK
  BY ConstantTypes DEF Init, SenderInit, SenderTypeOK, EmptyWindow, SyncPhase
<1>3. ListenerTypeOK
  <2>1. content \in [Blocks -> Files \cup {Hole}]
    BY DEF Init, ListenerInit, EmptyFile
  <2>2. listening \in BOOLEAN /\ is_accepted \in BOOLEAN
    BY DEF Init, ListenerInit
  <2>3. owner \in Files \cup {0} /\ unflushed \in Blocks \cup {NoBlock} /\ opens \in 0 .. 2
    BY DEF Init, ListenerInit
  <2>4. handle \in {"unset", "open", "closed"}
    BY DEF Init, ListenerInit
  <2> QED
    BY <2>1, <2>2, <2>3, <2>4 DEF ListenerTypeOK
<1>4. NumberInv
  BY ConstantTypes DEF Init, SenderInit, NumberInv
<1> QED
  BY <1>1, <1>2, <1>3, <1>4 DEF TypeInv, TypeOK

LEMMA SenderStepTypes ==
  ASSUME TypeInv, SenderStep
  PROVE  NetTypeOK' /\ SenderTypeOK' /\ NumberInv'
<1> USE ConstantTypes DEF TypeInv, TypeOK
<1> USE DEF WindowTypes, PlaceTypes
<1>0. WindowTypes /\ PlaceTypes
  BY DEF SenderTypeOK
<1>same. UNCHANGED windowVars => WindowTypes'
  BY <1>0 DEF windowVars, NumberInv
<1>net. UNCHANGED netVars => NetTypeOK'
  BY DEF netVars, NetTypeOK
<1> SUFFICES NetTypeOK' /\ WindowTypes' /\ PlaceTypes'
  BY DEF SenderTypeOK
<1>1. CASE SendSync
  BY <1>1, <1>0, <1>same, CallTypes, PacketTypes DEF SendSync, SyncPhase
<1>2. CASE SyncRefused
  BY <1>2, <1>0, <1>same, CallTypes DEF SyncRefused, SyncPhase
<1>3. CASE SyncConfirmed
  BY <1>3, <1>0, CallTypes, EnterDataTypes DEF SyncConfirmed
<1>4. CASE SyncTimeout
  BY <1>4, <1>0, <1>same, CallTypes DEF SyncTimeout, SyncPhase
<1>5. CASE StartRound
  BY <1>5, <1>0, <1>same, <1>net DEF StartRound, DataPhase
<1>6. CASE FinishData
  BY <1>6, <1>0, <1>same, <1>net DEF FinishData, HashPhase
<1>7. CASE SendNewPacket
  <2>1. /\ first_unsent_packet_n \in 0 .. LastPacket + 1
        /\ first_unsent_packet_n = LastPacket + 1 => LastPacket = 0
    BY <1>0, <1>7 DEF SendNewPacket, NumberInv
  <2>2. NetTypeOK'
    BY <1>0, <1>7, <2>1, CallTypes, PacketTypes DEF SendNewPacket, PacketNs
  <2>3. WindowTypes'
    BY <1>0, <1>7, <2>1 DEF SendNewPacket, PacketNs, NumberInv, AtEof
  <2>4. PlaceTypes'
    BY <1>0, <1>7 DEF SendNewPacket
  <2> QED
    BY <2>2, <2>3, <2>4
<1>8. CASE ResendPacket
  <2>1. unconfirmed_packets[i] \in PacketNs
    BY <1>0, <1>8 DEF ResendPacket, Slots
  <2> QED
    BY <1>8, <2>1, <1>0, <1>same, CallTypes, PacketTypes DEF ResendPacket
<1>9. CASE SkipSlot
  BY <1>9, <1>0, <1>same, <1>net DEF SkipSlot
<1>10. CASE StartReceiving
  BY <1>10, <1>0, <1>same, <1>net DEF StartReceiving, DataPhase
<1>11. CASE AckRefused
  BY <1>11, <1>0, <1>same, CallTypes DEF AckRefused
<1>12. CASE AckConfirmed
  <2>1. NetTypeOK' /\ Ack \in SenderPackets /\ Ack.ok
    BY <1>12, CallTypes DEF AckConfirmed, Confirms
  <2>2. Ack.last \in BOOLEAN
    BY <2>1, PacketFields
  <2>3. WindowTypes'
    BY <1>0, <1>12, <2>2 DEF AckConfirmed, NumberInv
  <2>4. PlaceTypes'
    BY <1>0, <1>12 DEF AckConfirmed, DataPhase
  <2> QED
    BY <2>1, <2>3, <2>4
<1>13. CASE EndRound
  <2>1. SelectTimesOut \/ UNCHANGED faults
    BY <1>13 DEF EndRound
  <2>2. NetTypeOK'
    BY <1>13, <2>1, <1>net, CallTypes DEF EndRound, netVars
  <2> QED
    BY <1>13, <2>2, <1>0, <1>same DEF EndRound, DataPhase
<1>14. CASE SendHash
  BY <1>14, <1>0, <1>same, CallTypes, PacketTypes DEF SendHash, HashPhase
<1>15. CASE HashAckDamaged
  BY <1>15, <1>0, <1>same, CallTypes DEF HashAckDamaged, HashPhase
<1>16. CASE HashRefused
  BY <1>16, <1>0, CallTypes, EnterDataTypes DEF HashRefused
<1>17. CASE HashConfirmed
  BY <1>17, <1>0, <1>same, CallTypes DEF HashConfirmed, HashPhase, Ended
<1>18. CASE HashTimeout
  BY <1>18, <1>0, <1>same, CallTypes DEF HashTimeout, HashPhase
<1>19. CASE ReceiveFails
  BY <1>19, <1>0, <1>same, CallTypes DEF ReceiveFails, Ended, NetTypeOK
<1>20. CASE OpenFails
  BY <1>20, <1>0, <1>same, CallTypes DEF OpenFails, Ended, NetTypeOK
<1>21. CASE NextTransfer
  BY <1>21, <1>0, <1>net DEF NextTransfer, SyncPhase, EmptyWindow, NumberInv, Files
<1>22. CASE SenderGone
  <2>1. UNCHANGED <<session, pc, i, depth, windowVars>>
    BY <1>22 DEF SenderGone, senderVars, windowVars
  <2> QED
    BY <1>22, <2>1, <1>0, <1>same, CallTypes DEF SenderGone, NetTypeOK
<1> QED
  BY <1>1, <1>2, <1>3, <1>4, <1>5, <1>6, <1>7, <1>8, <1>9, <1>10, <1>11, <1>12, <1>13,
     <1>14, <1>15, <1>16, <1>17, <1>18, <1>19, <1>20, <1>21, <1>22
     DEF SenderStep, SenderRuns, SenderReceives

\* The listener takes the oldest datagram and may answer it.
LEMMA ReceiveTypes ==
  ASSUME NetTypeOK, Receive
  PROVE  /\ toListener' \in Seq(ListenerPackets)
         /\ Packet \in ListenerPackets
         /\ \A a \in SenderPackets : Reply(a) => toSender' \in Seq(SenderPackets)
<1>1. toListener' \in Seq(ListenerPackets) /\ Packet \in ListenerPackets
  BY TailFacts DEF NetTypeOK, Receive, Packet
<1>2. ASSUME NEW a \in SenderPackets, Reply(a) PROVE toSender' \in Seq(SenderPackets)
  BY <1>2, AppendProperties DEF NetTypeOK, Reply
<1> QED
  BY <1>1, <1>2

LEMMA ListenerStepTypes ==
  ASSUME TypeInv, ListenerStep
  PROVE  NetTypeOK' /\ ListenerTypeOK'
<1> USE DEF TypeInv, TypeOK
<1>0. NetTypeOK /\ ListenerTypeOK /\ faults \in FaultCounts
  BY DEF NetTypeOK
<1>file. UNCHANGED fileVars => /\ owner' \in Files \cup {0}
                               /\ content' \in [Blocks -> Files \cup {Hole}]
                               /\ unflushed' \in Blocks \cup {NoBlock}
                               /\ opens' \in 0 .. 2
  BY <1>0 DEF fileVars, ListenerTypeOK
<1>all. UNCHANGED listenerVars => ListenerTypeOK'
  BY <1>0 DEF listenerVars, fileVars, ListenerTypeOK
<1>ack. \A state \in {CONFIRM_CODE, NEGATIVE_CODE} : AckPacket(0, FALSE, state) \in SenderPackets
  BY PacketTypes, ConstantTypes
<1>1. CASE ReceiveSync
  <2>1. Packet.file \in Files
    BY <1>0, <1>1, ReceiveTypes, PacketFields DEF ReceiveSync
  <2>2. NetTypeOK'
    BY <1>0, <1>1, <1>ack, ReceiveTypes DEF ReceiveSync, NetTypeOK
  <2>3. content' \in [Blocks -> Files \cup {Hole}] /\ unflushed' \in Blocks \cup {NoBlock}
    BY <1>1 DEF ReceiveSync, EmptyFile
  <2>4. opens' \in 0 .. 2
    BY <1>1 DEF ReceiveSync
  <2> QED
    BY <1>0, <1>1, <2>1, <2>2, <2>3, <2>4 DEF ReceiveSync, ListenerTypeOK
<1>2. CASE ReceiveSyncOpenFails
  <2>1. NetTypeOK'
    BY <1>0, <1>2, <1>ack, ReceiveTypes, CallTypes DEF ReceiveSyncOpenFails, NetTypeOK
  <2>2. unflushed' \in Blocks \cup {NoBlock} /\ opens' \in 0 .. 2
    BY <1>2 DEF ReceiveSyncOpenFails
  <2> QED
    BY <1>0, <1>2, <2>1, <2>2 DEF ReceiveSyncOpenFails, ListenerTypeOK
<1>3. CASE ReceiveData
  <2>1. /\ Packet.file \in Files /\ Packet.n \in PacketNs
        /\ AckPacket(Packet.n, Packet.last, CONFIRM_CODE) \in SenderPackets
    BY <1>0, <1>3, ReceiveTypes, PacketFields, PacketTypes DEF ReceiveData
  <2>2. NetTypeOK'
    BY <1>0, <1>3, <2>1, ReceiveTypes DEF ReceiveData, NetTypeOK
  <2>3. content' \in [Blocks -> Files \cup {Hole}] /\ unflushed' \in Blocks \cup {NoBlock}
    BY <1>0, <1>3, <2>1 DEF ReceiveData, WriteBlock, ListenerTypeOK
  <2> QED
    BY <1>0, <1>3, <2>2, <2>3 DEF ReceiveData, ListenerTypeOK
<1>4. CASE ReceiveDataNoFile
  <2>1. AckPacket(Packet.n, Packet.last, CONFIRM_CODE) \in SenderPackets
    BY <1>0, <1>4, ReceiveTypes, PacketFields, PacketTypes DEF ReceiveDataNoFile
  <2>2. NetTypeOK'
    BY <1>0, <1>4, <2>1, ReceiveTypes DEF ReceiveDataNoFile, NetTypeOK
  <2> QED
    BY <1>0, <1>4, <1>file, <2>2 DEF ReceiveDataNoFile, ListenerTypeOK
<1>5. CASE ReceiveHash
  <2>1. NetTypeOK'
    BY <1>0, <1>5, <1>ack, ReceiveTypes DEF ReceiveHash, compare_hash, NetTypeOK
  <2> QED
    BY <1>0, <1>5, <2>1 DEF ReceiveHash, compare_hash, ListenerTypeOK
<1>6. CASE ReceiveHashAgain
  <2>1. NetTypeOK'
    BY <1>0, <1>6, <1>ack, ReceiveTypes DEF ReceiveHashAgain, NetTypeOK
  <2> QED
    BY <1>0, <1>6, <1>file, <2>1 DEF ReceiveHashAgain, ListenerTypeOK
<1>7. CASE ReceiveHashNoFile
  <2>1. NetTypeOK'
    BY <1>0, <1>7, <1>ack, ReceiveTypes DEF ReceiveHashNoFile, NetTypeOK
  <2> QED
    BY <1>0, <1>7, <1>file, <2>1 DEF ReceiveHashNoFile, ListenerTypeOK
<1>8. CASE ReceiveDamaged
  <2>1. NetTypeOK'
    BY <1>0, <1>8, <1>ack, ReceiveTypes DEF ReceiveDamaged, NetTypeOK
  <2> QED
    BY <1>8, <1>all, <2>1 DEF ReceiveDamaged
<1>9. CASE ReceiveUnknown
  <2>1. NetTypeOK'
    BY <1>0, <1>9, ReceiveTypes DEF ReceiveUnknown, NetTypeOK
  <2> QED
    BY <1>9, <1>all, <2>1 DEF ReceiveUnknown
<1>10. CASE Restart
  <2>1. toListener' \in Seq(ListenerPackets)
    <3>1. PICK k \in 0 .. Len(toListener) :
            toListener' = SubSeq(toListener, k + 1, Len(toListener))
      BY <1>10 DEF Restart
    <3>2. Len(toListener) \in Nat
      BY <1>0, LenProperties DEF NetTypeOK
    <3>3. \A m \in k + 1 .. Len(toListener) : toListener[m] \in ListenerPackets
      BY <1>0, <3>2, ElementOfSeq DEF NetTypeOK
    <3>4. k + 1 \in Int /\ Len(toListener) \in Int
      BY <3>2
    <3> QED
      BY <3>1, <3>3, <3>4, SubSeqProperties
  <2>2. NetTypeOK'
    BY <1>0, <1>10, <2>1, CallTypes DEF Restart, NetTypeOK
  <2>3. content' \in [Blocks -> Files \cup {Hole}] /\ unflushed' \in Blocks \cup {NoBlock}
    BY <1>0, <1>10 DEF Restart, ListenerTypeOK
  <2> QED
    BY <1>0, <1>10, <2>2, <2>3 DEF Restart, ListenerTypeOK
<1>11. CASE ListenerGone
  <2>1. NetTypeOK'
    BY <1>0, <1>11, TailFacts DEF ListenerGone, NetTypeOK
  <2> QED
    BY <1>11, <1>all, <2>1 DEF ListenerGone
<1>12. CASE ListenerReceiveFails
  <2>1. NetTypeOK'
    BY <1>0, <1>12, CallTypes DEF ListenerReceiveFails, NetTypeOK
  <2>2. unflushed' \in Blocks \cup {NoBlock}
    BY <1>12 DEF ListenerReceiveFails
  <2> QED
    BY <1>0, <1>12, <2>1, <2>2 DEF ListenerReceiveFails, ListenerTypeOK
<1> QED
  BY <1>1, <1>2, <1>3, <1>4, <1>5, <1>6, <1>7, <1>8, <1>9, <1>10, <1>11, <1>12
     DEF ListenerStep, ListenerReceives

LEMMA NetworkStepTypes ==
  ASSUME NetTypeOK, NetworkStep
  PROVE  NetTypeOK'
<1>0. toListener \in Seq(ListenerPackets) /\ toSender \in Seq(SenderPackets)
  BY DEF NetTypeOK
<1>1. CASE Misbehave(toListener, toListener', ListenerTypes) /\ UNCHANGED toSender
  <2>1. toListener' \in Seq(ListenerPackets)
    BY <1>0, <1>1, MisbehaveType, PacketTypes
  <2>2. faults' \in FaultCounts
    BY <1>1, CallTypes DEF Misbehave, Lose, Duplicate, Overtake, Corrupt
  <2> QED
    BY <1>0, <1>1, <2>1, <2>2 DEF NetTypeOK
<1>2. CASE Misbehave(toSender, toSender', {"ACK"}) /\ UNCHANGED toListener
  <2>1. toSender' \in Seq(SenderPackets)
    BY <1>0, <1>2, MisbehaveType, PacketTypes
  <2>2. faults' \in FaultCounts
    BY <1>2, CallTypes DEF Misbehave, Lose, Duplicate, Overtake, Corrupt
  <2> QED
    BY <1>0, <1>2, <2>1, <2>2 DEF NetTypeOK
<1> QED
  BY <1>1, <1>2 DEF NetworkStep

LEMMA TypeStep == TypeInv /\ [Next]_vars => TypeInv'
<1> SUFFICES ASSUME TypeInv, [Next]_vars PROVE TypeInv'
  OBVIOUS
<1>sender. UNCHANGED senderVars => SenderTypeOK' /\ NumberInv'
  BY DEF TypeInv, TypeOK, senderVars, windowVars, SenderTypeOK, NumberInv
<1>listener. UNCHANGED listenerVars => ListenerTypeOK'
  BY DEF TypeInv, TypeOK, listenerVars, fileVars, ListenerTypeOK
<1>1. CASE SenderStep /\ UNCHANGED listenerVars
  BY <1>1, <1>listener, SenderStepTypes DEF TypeInv, TypeOK
<1>2. CASE ListenerStep /\ UNCHANGED senderVars
  BY <1>2, <1>sender, ListenerStepTypes DEF TypeInv, TypeOK
<1>3. CASE NetworkStep /\ UNCHANGED <<senderVars, listenerVars>>
  BY <1>3, <1>sender, <1>listener, NetworkStepTypes DEF TypeInv, TypeOK
<1>4. CASE UNCHANGED vars
  BY <1>4, <1>sender, <1>listener DEF vars, netVars, TypeInv, TypeOK, NetTypeOK
<1> QED
  BY <1>1, <1>2, <1>3, <1>4 DEF Next, Idle

LEMMA TypeInvariant == Spec => []TypeInv
BY TypeInit, TypeStep, PTL DEF Spec

\* Every variable has its type in every behaviour.
THEOREM TypeCorrect == Spec => []TypeOK
<1>1. TypeInv => TypeOK
  BY DEF TypeInv
<1> QED
  BY <1>1, TypeInvariant, PTL

\* The sender never numbers a packet past the end of the file (sender.c 228,
\* 259, 264).
THEOREM NumbersBounded == Spec => []NumberInv
<1>1. TypeInv => NumberInv
  BY DEF TypeInv
<1> QED
  BY <1>1, TypeInvariant, PTL

----------------------------------------------------------------------------
(* The window.                                                             *)

\* Three things change the window: a new pass, a new packet and an ACK.
LEMMA WindowChanges ==
  ASSUME [Next]_vars
  PROVE  \/ UNCHANGED windowVars
         \/ EnterData
         \/ SendNewPacket
         \/ AckConfirmed
         \/ NextTransfer
<1>1. ASSUME SenderRuns PROVE UNCHANGED windowVars \/ SendNewPacket
  BY <1>1 DEF SenderRuns, SendSync, SyncTimeout, StartRound, FinishData, ResendPacket, SkipSlot,
     StartReceiving, EndRound, SendHash, HashTimeout
<1>2. ASSUME SenderReceives PROVE UNCHANGED windowVars \/ EnterData \/ AckConfirmed
  BY <1>2 DEF SenderReceives, SyncRefused, SyncConfirmed, AckRefused, HashAckDamaged, HashRefused,
     HashConfirmed
<1>3. ASSUME UNCHANGED senderVars PROVE UNCHANGED windowVars
  BY <1>3 DEF senderVars, windowVars
<1>4. ASSUME SenderStep
      PROVE  \/ UNCHANGED windowVars \/ SendNewPacket \/ EnterData
             \/ AckConfirmed \/ NextTransfer
  BY <1>1, <1>2, <1>3, <1>4 DEF SenderStep, ReceiveFails, OpenFails, SenderGone
<1>5. [Next]_vars => SenderStep \/ UNCHANGED senderVars
  BY DEF Next, Idle, vars
<1> QED
  BY <1>3, <1>4, <1>5

LEMMA WindowStep == TypeInv /\ WindowInv /\ [Next]_vars => WindowInv'
<1> SUFFICES ASSUME TypeInv, WindowInv, [Next]_vars PROVE WindowInv'
  OBVIOUS
<1>0. /\ unconfirmed_packets \in [Slots -> PacketNs \cup {None}]
      /\ first_unsent_packet_n \in Nat
  BY DEF TypeInv, TypeOK, SenderTypeOK
<1>empty. unconfirmed_packets' = EmptyWindow /\ first_unsent_packet_n' = 0 => WindowInv'
  BY DEF WindowInv, EmptyWindow, None
<1>1. CASE UNCHANGED windowVars
  BY <1>1 DEF windowVars, WindowInv
<1>2. CASE EnterData
  BY <1>2, <1>empty DEF EnterData
<1>3. CASE SendNewPacket
  <2> DEFINE n == first_unsent_packet_n
  <2>1. CASE unconfirmed_packets' = unconfirmed_packets /\ first_unsent_packet_n' = n
    BY <2>1 DEF WindowInv
  <2>2. CASE /\ unconfirmed_packets' = [unconfirmed_packets EXCEPT ![i] = n]
             /\ first_unsent_packet_n' = n + 1
    <3>1. \A s \in Slots :
            unconfirmed_packets'[s] = IF s = i THEN n ELSE unconfirmed_packets[s]
      BY <1>0, <2>2
    <3>2. \A s \in Slots : unconfirmed_packets[s] < n /\ unconfirmed_packets[s] \in Int
      BY <1>0 DEF WindowInv, PacketNs, None
    <3> QED
      BY <1>0, <2>2, <3>1, <3>2 DEF WindowInv
  <2> QED
    BY <1>3, <2>1, <2>2 DEF SendNewPacket
<1>4. CASE AckConfirmed
  <2>1. \A s \in Slots : \/ unconfirmed_packets'[s] = None
                         \/ unconfirmed_packets'[s] = unconfirmed_packets[s]
    BY <1>4 DEF AckConfirmed
  <2>2. first_unsent_packet_n' = first_unsent_packet_n
    BY <1>4 DEF AckConfirmed
  <2> QED
    BY <1>0, <2>1, <2>2 DEF WindowInv, None
<1>5. CASE NextTransfer
  BY <1>5, <1>empty DEF NextTransfer
<1> QED
  BY <1>1, <1>2, <1>3, <1>4, <1>5, WindowChanges

\* A packet waits in one slot at most, and only after it was sent (sender.c
\* 227-316).
THEOREM WindowCorrect == Spec => []WindowInv
<1>1. Init => WindowInv
  BY DEF Init, SenderInit, WindowInv, EmptyWindow, None
<1> QED
  BY <1>1, WindowStep, TypeInvariant, PTL DEF Spec

----------------------------------------------------------------------------
(* The transfer: every confirmed packet is in the file.                    *)

\* A fault that has happened has happened.
LEMMA FaultsStay ==
  ASSUME [Next]_vars
  PROVE  faults.kinds \subseteq faults'.kinds
<1>1. ASSUME NEW kind, Fault(kind) PROVE faults.kinds \subseteq faults'.kinds
  BY <1>1 DEF Fault
<1>2. ASSUME SenderStep PROVE faults' = faults \/ \E kind : Fault(kind)
  <2>1. ASSUME SenderRuns PROVE faults' = faults \/ \E kind : Fault(kind)
    BY <2>1 DEF SenderRuns, SendSync, SyncTimeout, StartRound, FinishData, SendNewPacket, ResendPacket,
       SkipSlot, StartReceiving, EndRound, SendHash, HashTimeout, SendTo, SendToFails,
       SelectTimesOut, netVars
  <2>2. ASSUME SenderReceives PROVE faults' = faults
    BY <2>2 DEF SenderReceives, SyncRefused, SyncConfirmed, AckRefused, AckConfirmed, HashAckDamaged,
       HashRefused, HashConfirmed, TakeAck
  <2> QED
    BY <1>2, <2>1, <2>2 DEF SenderStep, ReceiveFails, OpenFails, NextTransfer, SenderGone, netVars
<1>3. ASSUME ListenerStep PROVE faults' = faults \/ \E kind : Fault(kind)
  BY <1>3 DEF ListenerStep, ListenerReceives, ReceiveSync, ReceiveSyncOpenFails, ReceiveData,
     ReceiveDataNoFile, ReceiveHash, ReceiveHashAgain, ReceiveHashNoFile, ReceiveDamaged,
     ReceiveUnknown, Restart, ListenerReceiveFails, ListenerGone
<1>4. ASSUME NetworkStep PROVE \E kind : Fault(kind)
  BY <1>4 DEF NetworkStep, Misbehave, Lose, Duplicate, Overtake, Corrupt
<1>5. faults' = faults \/ \E kind : Fault(kind)
  BY <1>2, <1>3, <1>4 DEF Next, Idle, vars, netVars
<1> QED
  BY <1>1, <1>5

\* What is free of copies now was so before.
LEMMA NoCopiesBefore ==
  ASSUME [Next]_vars, NoCopies'
  PROVE  NoCopies
<1>1. faults.kinds \subseteq faults'.kinds
  BY FaultsStay
<1> QED
  BY <1>1 DEF NoCopies

\* Nothing undamaged is in new that was not in old.
NothingNew(new, old) ==
  \A j \in DOMAIN new : new[j].ok => \E k \in DOMAIN old : new[j] = old[k]

LEMMA KeptIsNothingNew ==
  ASSUME NEW new, NEW old, Kept(new, old)
  PROVE  NothingNew(new, old)
BY DEF Kept, NothingNew

LEMMA SameIsKept ==
  ASSUME NEW chan
  PROVE  Kept(chan, chan) /\ NothingNew(chan, chan)
BY DEF Kept, NothingNew

\* A run of the sender is followed by the next one.
LEMMA SessionSteps ==
  ASSUME [Next]_vars
  PROVE  session' = session \/ session' = session + 1
<1>1. ASSUME SenderRuns PROVE session' = session
  BY <1>1 DEF SenderRuns, SendSync, SyncTimeout, StartRound, FinishData, SendNewPacket,
     ResendPacket, SkipSlot, StartReceiving, EndRound, SendHash, HashTimeout
<1>2. ASSUME SenderReceives PROVE session' = session
  BY <1>2 DEF SenderReceives, SyncRefused, SyncConfirmed, AckRefused, AckConfirmed,
     HashAckDamaged, HashRefused, HashConfirmed
<1>3. ASSUME UNCHANGED senderVars PROVE session' = session
  BY <1>3 DEF senderVars
<1> QED
  BY <1>1, <1>2, <1>3 DEF Next, Idle, vars, SenderStep, ReceiveFails, OpenFails, NextTransfer,
     SenderGone

\* With patient timers the handshake has one datagram out at most, the SYNC or
\* its answer, and leaves no SYNC behind.
PatientInv ==
  NoCopies /\ Patient /\ session = 1 =>
    /\ pc = "sync_send" => toListener = <<>> /\ toSender = <<>>
    /\ pc = "sync_wait" => Len(toListener) + Len(toSender) <= 1
    /\ pc \notin SyncPhase =>
         \A k \in DOMAIN toListener : toListener[k].ok => toListener[k].type # "SYNC"

\* A network that makes no copies makes no channel longer.
LEMMA MisbehaveLength ==
  ASSUME NEW S, NEW chan \in Seq(S), NEW new, NEW types,
         "duplicate" \notin faults'.kinds,
         Misbehave(chan, new, types)
  PROVE  Len(new) \in Nat /\ Len(new) <= Len(chan) /\ (chan = <<>> => new = <<>>)
<1>0. DOMAIN chan = 1 .. Len(chan) /\ Len(chan) \in Nat
  BY LenProperties
<1>1. CASE Lose(chan, new)
  BY <1>0, <1>1, WithoutFacts DEF Lose
<1>2. CASE Overtake(chan, new)
  <2>1. PICK k \in DOMAIN chan : new = Append(Without(chan, k), chan[k])
    BY <1>2 DEF Overtake
  <2>2. Without(chan, k) \in Seq(S) /\ Len(Without(chan, k)) = Len(chan) - 1 /\ chan[k] \in S
    BY <1>0, WithoutFacts, ElementOfSeq
  <2> QED
    BY <1>0, <2>1, <2>2, AppendProperties
<1>3. CASE Corrupt(chan, new, types)
  <2>1. PICK k \in DOMAIN chan, t \in types : new = [chan EXCEPT ![k] = Damaged(t)]
    BY <1>3 DEF Corrupt
  <2>2. Len(new) = Len(chan)
    BY <1>0, <2>1
  <2> QED
    BY <1>0, <2>1, <2>2
<1>4. ~Duplicate(chan, new)
  BY DEF Duplicate, Fault
<1> QED
  BY <1>1, <1>2, <1>3, <1>4 DEF Misbehave

LEMMA PatientSender ==
  ASSUME TypeInv, PatientInv, NoCopies, Patient, Patient', session = 1, session' = 1,
         SenderStep, UNCHANGED listenerVars
  PROVE  PatientInv'
<1>phases. /\ SyncPhase = {"sync_send", "sync_wait"}
           /\ (DataPhase \cup HashPhase \cup Ended) \cap SyncPhase = {}
           /\ "check" \notin SyncPhase /\ "exited" \notin SyncPhase
  BY DEF SyncPhase, DataPhase, HashPhase, Ended
<1>types. /\ toListener \in Seq(ListenerPackets) /\ toSender \in Seq(SenderPackets)
          /\ Len(toListener) \in Nat /\ Len(toSender) \in Nat
  BY LenProperties DEF TypeInv, TypeOK, NetTypeOK
<1>1. CASE SendSync
  <2>1. pc = "sync_send" /\ toSender' = toSender /\ toListener = <<>> /\ toSender = <<>>
    BY <1>1 DEF SendSync, PatientInv
  <2>2. \/ pc' = "sync_send" /\ toListener' = toListener
        \/ pc' = "sync_wait" /\ toListener' = Append(toListener, SyncPacket(session))
    BY <1>1, <2>1 DEF SendSync, SendTo, SendToFails
  <2>3. Len(Append(toListener, SyncPacket(session))) = 1
    BY <2>1
  <2>4. Len(toSender) = 0
    BY <2>1
  <2>5. CASE pc' = "sync_send" /\ toListener' = toListener
    BY <1>phases, <2>1, <2>5 DEF PatientInv
  <2>6. CASE pc' = "sync_wait" /\ toListener' = Append(toListener, SyncPacket(session))
    <3>1. Len(toListener') + Len(toSender') <= 1
      BY <2>1, <2>3, <2>4, <2>6
    <3> QED
      BY <1>phases, <2>6, <3>1 DEF PatientInv
  <2> QED
    BY <2>2, <2>5, <2>6
<1>2. CASE SyncRefused \/ SyncConfirmed
  <2>1. /\ pc = "sync_wait" /\ toSender # <<>> /\ toSender' = Tail(toSender)
        /\ toListener' = toListener
        /\ pc' \in {"sync_send", "check"}
    BY <1>2 DEF SyncRefused, SyncConfirmed, TakeAck, EnterData
  <2>2. Len(toSender) # 0
    BY <1>types, <2>1, EmptySeq
  <2>3. Len(toListener) + Len(toSender) <= 1
    BY <2>1 DEF PatientInv
  <2>4. Len(toListener) = 0 /\ Len(toSender) = 1
    BY <1>types, <2>2, <2>3
  <2>5. toListener = <<>> /\ Tail(toSender) = <<>>
    <3>1. Tail(toSender) \in Seq(SenderPackets) /\ Len(Tail(toSender)) = 0
      BY <1>types, <2>1, <2>4, HeadTailProperties
    <3> QED
      BY <1>types, <2>4, <3>1, EmptySeq
  <2> QED
    BY <1>phases, <2>1, <2>5 DEF PatientInv
<1>3. CASE SyncTimeout
  <2>1. pc' = "sync_send" /\ SelectTimesOut /\ UNCHANGED <<toListener, toSender>>
    BY <1>3 DEF SyncTimeout
  <2>2. ~Fault("delay")
    BY DEF Fault, Patient
  <2>3. toListener = <<>> /\ toSender = <<>>
    BY <2>1, <2>2 DEF SelectTimesOut
  <2> QED
    BY <1>phases, <2>1, <2>3 DEF PatientInv
<1>4. ASSUME pc \notin SyncPhase, pc' \notin SyncPhase,
             \/ toListener' = toListener
             \/ \E p \in ListenerPackets :
                  p.type # "SYNC" /\ toListener' = Append(toListener, p)
      PROVE  PatientInv'
  <2>1. \A k \in DOMAIN toListener : toListener[k].ok => toListener[k].type # "SYNC"
    BY <1>4 DEF PatientInv
  <2>2. \A k \in DOMAIN toListener' : toListener'[k].ok => toListener'[k].type # "SYNC"
    BY <1>4, <1>types, <2>1, AppendFacts
  <2> QED
    BY <1>phases, <1>4, <2>2 DEF PatientInv
<1>5. CASE SendNewPacket \/ ResendPacket
  <2>1. ASSUME NEW n \in PacketNs
        PROVE  DataPacket(session, n) \in ListenerPackets /\ DataPacket(session, n).type # "SYNC"
    BY PacketTypes DEF DataPacket, TypeInv, TypeOK, SenderTypeOK
  <2>2. pc \notin SyncPhase /\ pc' \notin SyncPhase
    BY <1>5 DEF SendNewPacket, ResendPacket, SyncPhase
  <2>3. \E n \in PacketNs :
          toListener' = toListener \/ toListener' = Append(toListener, DataPacket(session, n))
    <3>1. CASE SendNewPacket
      <4>1. first_unsent_packet_n \in Nat /\ LastPacket \in Nat
        BY ConstantTypes DEF TypeInv, TypeOK, SenderTypeOK
      <4>2. first_unsent_packet_n \in PacketNs
        BY <3>1, <4>1 DEF SendNewPacket, TypeInv, NumberInv, PacketNs
      <4> QED
        BY <3>1, <4>2 DEF SendNewPacket, SendTo, SendToFails
    <3>2. CASE ResendPacket
      <4>1. unconfirmed_packets[i] \in PacketNs
        BY <3>2 DEF ResendPacket, Slots, TypeInv, TypeOK, SenderTypeOK
      <4> QED
        BY <3>2, <4>1 DEF ResendPacket, SendTo, SendToFails
    <3> QED
      BY <1>5, <3>1, <3>2
  <2> QED
    BY <1>4, <2>1, <2>2, <2>3
<1>6. CASE SendHash
  <2>1. HashPacket(session) \in ListenerPackets /\ HashPacket(session).type # "SYNC"
    BY PacketTypes DEF HashPacket, TypeInv, TypeOK, SenderTypeOK
  <2>2. pc \notin SyncPhase /\ pc' \notin SyncPhase
    BY <1>6 DEF SendHash, SyncPhase
  <2> QED
    BY <1>4, <1>6, <2>1, <2>2 DEF SendHash, SendTo, SendToFails
<1>7. CASE StartRound \/ FinishData \/ SkipSlot \/ StartReceiving \/ EndRound \/ HashTimeout
  <2>1. toListener' = toListener /\ pc \notin SyncPhase /\ pc' \notin SyncPhase
    BY <1>7 DEF StartRound, FinishData, SkipSlot, StartReceiving, EndRound, HashTimeout, netVars,
       SyncPhase
  <2> QED
    BY <1>4, <2>1
<1>8. CASE AckRefused \/ AckConfirmed \/ HashAckDamaged \/ HashRefused \/ HashConfirmed
  <2>1. toListener' = toListener /\ pc \notin SyncPhase /\ pc' \notin SyncPhase
    BY <1>8 DEF AckRefused, AckConfirmed, HashAckDamaged, HashRefused, HashConfirmed, TakeAck,
       EnterData, SyncPhase
  <2> QED
    BY <1>4, <2>1
<1>9. CASE ReceiveFails \/ OpenFails
  <2>1. /\ pc' = "exited" /\ toListener' = toListener /\ toSender # <<>>
        /\ pc = "sync_wait" \/ pc \notin SyncPhase
    BY <1>9 DEF ReceiveFails, OpenFails, SyncPhase
  <2>2. CASE pc = "sync_wait"
    <3>1. Len(toSender) # 0
      BY <1>types, <2>1, EmptySeq
    <3>2. Len(toListener) + Len(toSender) <= 1
      BY <2>2 DEF PatientInv
    <3>3. Len(toListener) = 0
      BY <1>types, <3>1, <3>2
    <3>4. DOMAIN toListener' = {}
      BY <1>types, <2>1, <3>3, LenProperties
    <3> QED
      BY <1>phases, <2>1, <3>4 DEF PatientInv
  <2>3. CASE pc \notin SyncPhase
    BY <1>4, <1>phases, <2>1, <2>3
  <2> QED
    BY <2>1, <2>2, <2>3
<1>10. CASE SenderGone
  <2>1. pc' = pc /\ pc \notin SyncPhase /\ toListener' = toListener
    BY <1>10, <1>phases DEF SenderGone, senderVars
  <2> QED
    BY <1>4, <2>1
<1>11. ~NextTransfer
  BY DEF NextTransfer
<1> QED
  BY <1>1, <1>2, <1>3, <1>5, <1>6, <1>7, <1>8, <1>9, <1>10, <1>11
     DEF SenderStep, SenderRuns, SenderReceives

LEMMA PatientListener ==
  ASSUME TypeInv, TypeInv', PatientInv, NoCopies, NoCopies', Patient, session = 1,
         ListenerStep, UNCHANGED senderVars
  PROVE  PatientInv'
<1>types. /\ toListener \in Seq(ListenerPackets) /\ toSender \in Seq(SenderPackets)
          /\ toSender' \in Seq(SenderPackets)
          /\ Len(toListener) \in Nat /\ Len(toSender) \in Nat
  BY LenProperties DEF TypeInv, TypeOK, NetTypeOK
<1>same. pc' = pc /\ session' = session
  BY DEF senderVars
<1>1. CASE ListenerReceives \/ ListenerGone
  <2>1. /\ toListener # <<>> /\ toListener' = Tail(toListener)
        /\ toSender' = toSender \/ \E a : toSender' = Append(toSender, a)
    BY <1>1 DEF ListenerReceives, ReceiveSync, ReceiveSyncOpenFails, ReceiveData,
       ReceiveDataNoFile, ReceiveHash, ReceiveHashAgain, ReceiveHashNoFile, ReceiveDamaged,
       ReceiveUnknown, ListenerGone, Receive, Reply
  <2>2. Len(toListener') = Len(toListener) - 1 /\ NothingNew(toListener', toListener)
    BY <1>types, <2>1, HeadTailProperties, TailFacts, KeptIsNothingNew
  <2>3. Len(toSender') \in Nat /\ Len(toSender') <= Len(toSender) + 1
    <3>1. ASSUME NEW a, toSender' = Append(toSender, a) PROVE Len(toSender') = Len(toSender) + 1
      BY <1>types, <3>1
    <3> QED
      BY <1>types, <2>1, <3>1
  <2> QED
    BY <1>types, <1>same, <2>1, <2>2, <2>3 DEF PatientInv, NothingNew
<1>2. CASE ListenerReceiveFails
  BY <1>2, <1>same DEF ListenerReceiveFails, PatientInv
<1>3. ~Restart
  BY DEF Restart, Fault, NoCopies
<1> QED
  BY <1>1, <1>2, <1>3 DEF ListenerStep

LEMMA PatientStep ==
  ASSUME TypeInv, PatientInv, [Next]_vars
  PROVE  PatientInv'
<1> SUFFICES ASSUME NoCopies', Patient', session' = 1 PROVE PatientInv'
  BY DEF PatientInv
<1>1. NoCopies /\ Patient /\ TypeInv'
  BY NoCopiesBefore, FaultsStay, TypeStep DEF Patient
<1>2. session = 1
  <2>1. session \in Nat \ {0}
    BY DEF TypeInv, TypeOK, SenderTypeOK, Files
  <2>2. session' = session \/ session' = session + 1
    BY SessionSteps
  <2> QED
    BY <2>1, <2>2
<1>3. CASE SenderStep /\ UNCHANGED listenerVars
  BY <1>1, <1>2, <1>3, PatientSender
<1>4. CASE ListenerStep /\ UNCHANGED senderVars
  BY <1>1, <1>2, <1>4, PatientListener
<1>5. CASE NetworkStep /\ UNCHANGED <<senderVars, listenerVars>>
  <2>1. /\ toListener \in Seq(ListenerPackets) /\ toSender \in Seq(SenderPackets)
        /\ Len(toListener) \in Nat /\ Len(toSender) \in Nat
    BY LenProperties DEF TypeInv, TypeOK, NetTypeOK
  <2>2. "duplicate" \notin faults'.kinds
    BY DEF NoCopies
  <2>3. /\ Len(toListener') \in Nat /\ Len(toListener') <= Len(toListener)
        /\ toListener = <<>> => toListener' = <<>>
        /\ Len(toSender') \in Nat /\ Len(toSender') <= Len(toSender)
        /\ toSender = <<>> => toSender' = <<>>
        /\ NothingNew(toListener', toListener)
    BY <1>5, <2>1, <2>2, MisbehaveLength, MisbehaveKept, KeptIsNothingNew, SameIsKept DEF NetworkStep
  <2>4. pc' = pc
    BY <1>5 DEF senderVars
  <2>5. (pc = "sync_wait" => Len(toListener) + Len(toSender) <= 1)
    BY <1>1, <1>2 DEF PatientInv
  <2>6. (pc = "sync_wait" => Len(toListener') + Len(toSender') <= 1)
    BY <2>1, <2>3, <2>5
  <2> QED
    BY <1>1, <1>2, <2>3, <2>4, <2>6 DEF PatientInv, NothingNew
<1>6. CASE UNCHANGED vars
  BY <1>1, <1>2, <1>6 DEF PatientInv, vars, netVars, senderVars
<1> QED
  BY <1>3, <1>4, <1>5, <1>6 DEF Next, Idle

LEMMA PatientInvariant == Spec => []PatientInv
<1>1. Init => PatientInv
  <2> SUFFICES ASSUME Init PROVE PatientInv
    OBVIOUS
  <2>1. pc = "sync_send" /\ toListener = <<>> /\ toSender = <<>>
    BY DEF Init, NetInit, SenderInit
  <2> QED
    BY <2>1 DEF PatientInv, SyncPhase
<1>2. TypeInv /\ PatientInv /\ [Next]_vars => PatientInv'
  BY PatientStep
<1> QED
  BY <1>1, <1>2, TypeInvariant, PTL DEF Spec

\* TransitInv is kept when both channels lose packets, or the listener's one
\* is given a packet of the transfer, and nothing else changes.
LEMMA TransitKept ==
  ASSUME TypeInv, TransitInv,
         SafeOpening, pc \in Transferring,
         UNCHANGED <<session, listenerVars>>,
         NothingNew(toSender', toSender),
         \/ NothingNew(toListener', toListener)
         \/ \E p \in ListenerPackets :
              OfTransfer(p) /\ toListener' = Append(toListener, p)
  PROVE  TransitInv'
<1>1. UNCHANGED <<session, opens, content, listening, handle, is_accepted>>
  BY DEF listenerVars, fileVars
<1>2. /\ \A n : Written(n) <=> Written(n)'
      /\ FileComplete <=> FileComplete'
  BY <1>1 DEF Written, FileComplete
<1>4. /\ opens # 0
      /\ listening => handle = "open" \/ FileComplete
      /\ is_accepted => FileComplete
      /\ \A k \in DOMAIN toListener : OfTransfer(toListener[k])
      /\ \A k \in DOMAIN toSender : Confirms(toSender[k]) => Written(toSender[k].n)
  BY DEF TransitInv
<1>5. \A k \in DOMAIN toSender' : Confirms(toSender'[k]) => Written(toSender'[k].n)
  BY <1>4 DEF NothingNew, Confirms
<1>6. \A k \in DOMAIN toListener' : OfTransfer(toListener'[k])
  <2>1. CASE NothingNew(toListener', toListener)
    BY <1>4, <2>1 DEF NothingNew, OfTransfer
  <2>2. ASSUME NEW p \in ListenerPackets, OfTransfer(p), toListener' = Append(toListener, p)
        PROVE  \A k \in DOMAIN toListener' : OfTransfer(toListener'[k])
    <3>1. /\ DOMAIN toListener' = DOMAIN toListener \cup {Len(toListener) + 1}
          /\ \A j \in DOMAIN toListener : toListener'[j] = toListener[j]
          /\ toListener'[Len(toListener) + 1] = p
      BY <2>2, AppendFacts DEF TypeInv, TypeOK, NetTypeOK
    <3> QED
      BY <1>4, <2>2, <3>1
  <2> QED
    BY <2>1, <2>2
<1> QED
  BY <1>1, <1>2, <1>4, <1>5, <1>6 DEF TransitInv, OfTransfer, Written

\* The flag is not put on its way by losing packets or by sending others.
LEMMA NoNewFlag ==
  ASSUME TypeInv,
         NothingNew(toSender', toSender),
         \/ NothingNew(toListener', toListener)
         \/ \E p \in ListenerPackets :
              /\ ~(p.ok /\ p.type = "DATA" /\ p.last)
              /\ toListener' = Append(toListener, p),
         ~FlagInTransit
  PROVE  ~FlagInTransit'
<1>1. \A k \in DOMAIN toSender' : ~(Confirms(toSender'[k]) /\ toSender'[k].last)
  BY DEF NothingNew, FlagInTransit, Confirms
<1>2. \A k \in DOMAIN toListener' :
        ~(toListener'[k].ok /\ toListener'[k].type = "DATA" /\ toListener'[k].last)
  <2>1. CASE NothingNew(toListener', toListener)
    BY <2>1 DEF NothingNew, FlagInTransit
  <2>2. ASSUME NEW p \in ListenerPackets, ~(p.ok /\ p.type = "DATA" /\ p.last),
               toListener' = Append(toListener, p)
        PROVE  \A k \in DOMAIN toListener' :
                 ~(toListener'[k].ok /\ toListener'[k].type = "DATA" /\ toListener'[k].last)
    <3>1. /\ DOMAIN toListener' = DOMAIN toListener \cup {Len(toListener) + 1}
          /\ \A j \in DOMAIN toListener : toListener'[j] = toListener[j]
          /\ toListener'[Len(toListener) + 1] = p
      BY <2>2, AppendFacts DEF TypeInv, TypeOK, NetTypeOK
    <3> QED
      BY <2>2, <3>1 DEF FlagInTransit
  <2> QED
    BY <2>1, <2>2
<1> QED
  BY <1>1, <1>2 DEF FlagInTransit, Confirms

\* PassInv is kept by a step that leaves the window alone and neither begins
\* nor ends a pass.
LEMMA PassKept ==
  ASSUME TypeInv, PassInv,
         SafeOpening, pc \in Transferring, pc \in DataPhase <=> pc' \in DataPhase,
         pc \in DataPhase => depth' = depth,
         UNCHANGED <<session, windowVars, listenerVars>>,
         NothingNew(toSender', toSender),
         \/ NothingNew(toListener', toListener)
         \/ \E p \in ListenerPackets :
              /\ p.ok /\ p.type = "DATA" /\ p.last => first_unsent_packet_n > LastPacket
              /\ toListener' = Append(toListener, p)
  PROVE  PassInv'
<1>1. /\ UNCHANGED <<session, opens, content>>
      /\ UNCHANGED <<unconfirmed_packets, first_unsent_packet_n, sending>>
  BY DEF listenerVars, fileVars, windowVars
<1>2. FileComplete <=> FileComplete'
  BY <1>1 DEF Written, FileComplete
<1>3. Confirmed' = Confirmed
  BY <1>1 DEF Confirmed
<1>4. /\ pc \notin DataPhase \/ depth > 0 => FileComplete
      /\ \A n \in Confirmed : Written(n)
      /\ pc \in DataPhase /\ depth = 0 /\ first_unsent_packet_n <= LastPacket =>
           sending /\ ~FlagInTransit
  BY DEF PassInv
<1>5. (\A n \in Confirmed : Written(n))'
  BY <1>1, <1>3, <1>4 DEF Written
<1>6. pc' \in DataPhase /\ depth' = 0 /\ first_unsent_packet_n' <= LastPacket =>
        sending' /\ ~FlagInTransit'
  <2> SUFFICES ASSUME pc \in DataPhase, depth = 0, first_unsent_packet_n <= LastPacket
               PROVE  sending /\ ~FlagInTransit'
    BY <1>1
  <2>1. first_unsent_packet_n \in Int /\ LastPacket \in Int
    BY ConstantTypes DEF TypeInv, TypeOK, SenderTypeOK
  <2> QED
    BY <1>4, <2>1, NoNewFlag
<1> QED
  BY <1>2, <1>4, <1>5, <1>6 DEF PassInv

\* SyncInv is kept by what happens within the handshake.
LEMMA SyncKept ==
  ASSUME TypeInv, SyncInv,
         SafeOpening, pc \in SyncPhase, depth' = 0,
         UNCHANGED <<session, listenerVars>>,
         Kept(toSender', toSender),
         \/ NothingNew(toListener', toListener)
         \/ \E p \in ListenerPackets :
              p.type = "SYNC" /\ toListener' = Append(toListener, p)
  PROVE  SyncInv'
<1>1. UNCHANGED <<opens, listening, handle, is_accepted>>
  BY DEF listenerVars, fileVars
<1>2. /\ ~is_accepted
      /\ \A k \in DOMAIN toListener : toListener[k].ok => toListener[k].type = "SYNC"
      /\ \A k \in DOMAIN toSender : Confirms(toSender[k]) => opens # 0
      /\ \A j, k \in DOMAIN toSender : Confirms(toSender[j]) /\ Confirms(toSender[k]) => j = k
      /\ listening /\ opens # 0 => handle = "open"
  BY DEF SyncInv
<1>3. \A k \in DOMAIN toListener' : toListener'[k].ok => toListener'[k].type = "SYNC"
  <2>1. CASE NothingNew(toListener', toListener)
    BY <1>2, <2>1 DEF NothingNew
  <2>2. ASSUME NEW p \in ListenerPackets, p.type = "SYNC", toListener' = Append(toListener, p)
        PROVE  \A k \in DOMAIN toListener' : toListener'[k].ok => toListener'[k].type = "SYNC"
    <3>1. /\ DOMAIN toListener' = DOMAIN toListener \cup {Len(toListener) + 1}
          /\ \A j \in DOMAIN toListener : toListener'[j] = toListener[j]
          /\ toListener'[Len(toListener) + 1] = p
      BY <2>2, AppendFacts DEF TypeInv, TypeOK, NetTypeOK
    <3> QED
      BY <1>2, <2>2, <3>1
  <2> QED
    BY <2>1, <2>2
<1>4. \A j, k \in DOMAIN toSender' :
        Confirms(toSender'[j]) /\ Confirms(toSender'[k]) => j = k /\ opens # 0
  BY <1>2 DEF Kept, Confirms
<1> QED
  BY <1>1, <1>2, <1>3, <1>4 DEF SyncInv, Confirms

LEMMA SenderTransfer ==
  ASSUME NoCopies, Patient' => Patient, TypeInv, WindowInv, TransferInv, SenderStep, UNCHANGED listenerVars
  PROVE  TransferInv'
<1> USE DEF TransferInv
<1>phases. /\ SyncPhase \cap Transferring = {}
           /\ "exited" \notin SyncPhase \cup Transferring
           /\ "done" \notin SyncPhase \cup DataPhase \cup HashPhase
           /\ DataPhase \cap HashPhase = {}
           /\ DataPhase \cup HashPhase \cup {"done"} = Transferring
  BY DEF SyncPhase, DataPhase, HashPhase, Transferring
<1>vacuous. pc' = "exited" \/ ~SafeOpening' => TransferInv'
  BY <1>phases DEF SyncInv, TransitInv, PassInv
<1> SUFFICES ASSUME pc' # "exited", SafeOpening' PROVE TransferInv'
  BY <1>vacuous
<1>types. /\ toListener \in Seq(ListenerPackets) /\ toSender \in Seq(SenderPackets)
          /\ unconfirmed_packets \in [Slots -> PacketNs \cup {None}]
          /\ first_unsent_packet_n \in Nat /\ LastPacket \in Nat
          /\ depth \in Nat /\ session \in Nat \ {0}
  BY ConstantTypes DEF TypeInv, TypeOK, NetTypeOK, SenderTypeOK, Files
<1>same. UNCHANGED <<opens, content, handle, is_accepted, listening>>
  BY DEF listenerVars, fileVars
<1>safe. session' = session => SafeOpening
  BY <1>same DEF SafeOpening
<1>take. TakeAck => /\ Ack \in SenderPackets
                    /\ 1 \in DOMAIN toSender /\ Ack = toSender[1]
                    /\ Kept(toSender', toSender) /\ NothingNew(toSender', toSender)
                    /\ Kept(toListener', toListener) /\ NothingNew(toListener', toListener)
  BY <1>types, TailFacts, SameIsKept, KeptIsNothingNew DEF TakeAck, Ack
<1>1. ASSUME SendSync \/ SyncRefused \/ SyncTimeout PROVE TransferInv'
  <2>1. /\ pc \in SyncPhase /\ pc' \in SyncPhase
        /\ UNCHANGED <<session, depth>>
        /\ SafeOpening
    BY <1>1, <1>same, <1>safe DEF SendSync, SyncRefused, SyncTimeout, SyncPhase
  <2>2. Kept(toSender', toSender)
    BY <1>1, <1>take, SameIsKept DEF SendSync, SyncRefused, SyncTimeout
  <2>3. \/ NothingNew(toListener', toListener)
        \/ \E p \in ListenerPackets :
             p.type = "SYNC" /\ toListener' = Append(toListener, p)
    <3>1. SyncPacket(session).type = "SYNC" /\ SyncPacket(session) \in ListenerPackets
      BY PacketTypes DEF SyncPacket, TypeInv, TypeOK, SenderTypeOK
    <3> QED
      BY <1>1, <3>1, SameIsKept DEF SendSync, SyncRefused, SyncTimeout, SendTo, SendToFails, TakeAck
  <2>4. depth' = 0
    BY <2>1 DEF SyncInv
  <2>5. SyncInv'
    BY <2>1, <2>2, <2>3, <2>4, SyncKept
  <2> QED
    BY <1>phases, <2>1, <2>5 DEF TransitInv, PassInv
<1>2. ASSUME SyncConfirmed PROVE TransferInv'
  <2>1. /\ pc \in SyncPhase /\ pc' \in DataPhase
        /\ UNCHANGED <<session, depth>>
        /\ SafeOpening /\ TakeAck /\ Confirms(Ack)
    BY <1>2, <1>same, <1>safe DEF SyncConfirmed, SyncPhase, EnterData, DataPhase
  <2>2. /\ depth = 0 /\ ~is_accepted
        /\ \A k \in DOMAIN toListener : toListener[k].ok => toListener[k].type = "SYNC"
        /\ opens # 0
        /\ listening => handle = "open"
        /\ \A k \in DOMAIN toSender : Confirms(toSender[k]) => k = 1
    BY <1>take, <2>1 DEF SyncInv
  <2>3. \A k \in DOMAIN toSender' : ~Confirms(toSender'[k])
    <3>1. toSender # <<>> /\ toSender' = Tail(toSender)
      BY <2>1 DEF TakeAck
    <3>2. \A j \in DOMAIN toSender' : j + 1 \in DOMAIN toSender /\ toSender'[j] = toSender[j + 1]
      BY <1>types, <3>1, TailFacts
    <3>3. \A j \in DOMAIN toSender' : j \in Nat \ {0}
      BY <1>types, <3>1, TailFacts, LenProperties
    <3> QED
      BY <2>2, <3>2, <3>3
  <2>4. toListener' = toListener
    BY <2>1 DEF TakeAck
  <2>5. TransitInv'
    BY <1>same, <2>2, <2>3, <2>4 DEF TransitInv, OfTransfer, Confirms
  <2>6. first_unsent_packet_n' = 0 /\ sending'
    BY <1>2 DEF SyncConfirmed, EnterData
  <2>7. Confirmed' = {}
    BY <2>6 DEF Confirmed
  <2>8. ~FlagInTransit'
    BY <2>2, <2>3, <2>4 DEF FlagInTransit, Confirms
  <2>9. PassInv'
    BY <2>1, <2>2, <2>6, <2>7, <2>8 DEF PassInv
  <2> QED
    BY <1>phases, <2>1, <2>5, <2>9 DEF SyncInv
<1>3. ASSUME StartRound \/ ResendPacket \/ SkipSlot \/ StartReceiving \/ AckRefused \/ EndRound
      PROVE  TransferInv'
  <2>1. /\ pc \in DataPhase /\ pc' \in DataPhase
        /\ UNCHANGED <<session, depth, windowVars>>
        /\ SafeOpening
    BY <1>3, <1>same, <1>safe DEF StartRound, ResendPacket, SkipSlot, StartReceiving, AckRefused, EndRound,
       DataPhase
  <2>2. NothingNew(toSender', toSender)
    BY <1>3, <1>take, SameIsKept DEF StartRound, ResendPacket, SkipSlot, StartReceiving, AckRefused,
       EndRound, netVars
  <2>3. \/ NothingNew(toListener', toListener)
        \/ \E p \in ListenerPackets :
             /\ OfTransfer(p)
             /\ p.ok /\ p.type = "DATA" /\ p.last => first_unsent_packet_n > LastPacket
             /\ toListener' = Append(toListener, p)
    <3>1. ASSUME ResendPacket, toListener' # toListener
          PROVE  \E p \in ListenerPackets :
                   /\ OfTransfer(p)
                   /\ p.ok /\ p.type = "DATA" /\ p.last => first_unsent_packet_n > LastPacket
                   /\ toListener' = Append(toListener, p)
      <4> DEFINE n == unconfirmed_packets[i]
                 p == DataPacket(session, n)
      <4>1. n \in PacketNs /\ n < first_unsent_packet_n
        BY <1>types, <3>1 DEF ResendPacket, Slots, WindowInv, TypeInv, TypeOK, SenderTypeOK
      <4>2. p \in ListenerPackets
        BY <4>1, PacketTypes DEF TypeInv, TypeOK, SenderTypeOK
      <4>3. p.type = "DATA" /\ p.file = 1 /\ p.n = n /\ p.last = AtEof(n)
        BY <2>1 DEF DataPacket, SafeOpening
      <4>4. toListener' = Append(toListener, p)
        BY <3>1 DEF ResendPacket, SendTo, SendToFails
      <4> HIDE DEF n, p
      <4>5. p.last => n >= LastPacket
        BY <4>3 DEF AtEof
      <4>6. p.last => first_unsent_packet_n > LastPacket
        BY <1>types, <4>1, <4>5 DEF PacketNs
      <4> QED
        BY <4>2, <4>3, <4>4, <4>6 DEF OfTransfer
    <3> QED
      BY <1>3, <1>take, <3>1, SameIsKept DEF StartRound, SkipSlot, StartReceiving, AckRefused,
         EndRound, netVars
  <2>4. TransitInv'
    BY <1>phases, <2>1, <2>2, <2>3, TransitKept
  <2>5. PassInv'
    BY <1>phases, <2>1, <2>2, <2>3, PassKept
  <2> QED
    BY <1>phases, <2>1, <2>4, <2>5 DEF SyncInv
<1>4. ASSUME FinishData PROVE TransferInv'
  <2>1. /\ pc \in DataPhase /\ pc' \in HashPhase
        /\ UNCHANGED <<session, depth, windowVars, netVars>>
        /\ SafeOpening
    BY <1>4, <1>same, <1>safe DEF FinishData, DataPhase, HashPhase
  <2>2. TransitInv'
    BY <1>phases, <2>1, TransitKept, SameIsKept DEF netVars
  <2>3. FileComplete
    <3>1. CASE depth > 0
      BY <1>phases, <2>1, <3>1 DEF PassInv
    <3>2. CASE depth = 0
      <4>1. ~sending /\ \A s \in Slots : unconfirmed_packets[s] = None
        BY <1>4 DEF FinishData, AllConfirmed
      <4>2. first_unsent_packet_n > LastPacket
        BY <1>phases, <1>types, <2>1, <3>2, <4>1 DEF PassInv
      <4>3. \A n \in Blocks : n \in Confirmed
        BY <1>types, <4>1, <4>2 DEF Confirmed, Blocks, None
      <4> QED
        BY <1>phases, <2>1, <4>3 DEF PassInv, FileComplete
    <3> QED
      BY <1>types, <3>1, <3>2
  <2>4. FileComplete' /\ (\A n \in Confirmed : Written(n))'
    BY <1>same, <2>1, <2>3 DEF FileComplete, Written
  <2> QED
    BY <1>phases, <2>1, <2>2, <2>4 DEF SyncInv, PassInv
<1>5. ASSUME SendNewPacket PROVE TransferInv'
  <2> DEFINE n == first_unsent_packet_n
             p == DataPacket(session, n)
  <2>1. /\ pc \in DataPhase /\ pc' \in DataPhase
        /\ UNCHANGED <<session, depth, sending, toSender>>
        /\ SafeOpening
    BY <1>5, <1>same, <1>safe DEF SendNewPacket, DataPhase
  <2>2. /\ n \in PacketNs /\ p \in ListenerPackets
        /\ p.type = "DATA" /\ p.file = 1 /\ p.n = n /\ p.last = AtEof(n)
    <3>1. n \in PacketNs
      BY <1>5, <1>types DEF SendNewPacket, TypeInv, NumberInv, PacketNs
    <3> QED
      BY <2>1, <3>1, PacketTypes DEF TypeInv, TypeOK, SenderTypeOK, DataPacket, SafeOpening
  <2>3. NothingNew(toSender', toSender)
    BY <2>1, SameIsKept
  <2>4. \/ /\ toListener' = Append(toListener, p)
           /\ unconfirmed_packets' = [unconfirmed_packets EXCEPT ![i] = n]
           /\ first_unsent_packet_n' = n + 1
        \/ UNCHANGED <<toListener, unconfirmed_packets, first_unsent_packet_n>>
    BY <1>5 DEF SendNewPacket, SendTo, SendToFails
  <2>5. i \in Slots /\ unconfirmed_packets[i] = None
    BY <1>5 DEF SendNewPacket, Slots, TypeInv, TypeOK, SenderTypeOK
  <2> HIDE DEF p
  <2>6. OfTransfer(p)
    BY <2>2 DEF OfTransfer
  <2>7. TransitInv'
    BY <1>phases, <2>1, <2>2, <2>3, <2>4, <2>6, SameIsKept, TransitKept
  <2>8. Confirmed' \subseteq Confirmed
    <3>1. CASE UNCHANGED <<unconfirmed_packets, first_unsent_packet_n>>
      BY <3>1 DEF Confirmed
    <3>2. CASE /\ unconfirmed_packets' = [unconfirmed_packets EXCEPT ![i] = n]
               /\ first_unsent_packet_n' = n + 1
      <4>1. \A s \in Slots : unconfirmed_packets'[s] = IF s = i THEN n ELSE unconfirmed_packets[s]
        BY <1>types, <3>2
      <4>2. SUFFICES ASSUME NEW m \in Confirmed' PROVE m \in Confirmed
        OBVIOUS
      <4>3. m \in 0 .. n /\ \A s \in Slots : unconfirmed_packets'[s] # m
        BY <1>types, <3>2, <4>2 DEF Confirmed
      <4>4. m # n
        BY <2>5, <4>1, <4>3
      <4>5. \A s \in Slots : unconfirmed_packets[s] # m
        BY <2>5, <4>1, <4>3 DEF None
      <4> QED
        BY <1>types, <4>3, <4>4, <4>5 DEF Confirmed
    <3> QED
      BY <2>4, <3>1, <3>2
  <2>9. (\A m \in Confirmed : Written(m))'
    BY <1>phases, <1>same, <2>1, <2>8 DEF PassInv, Written
  <2>10. FileComplete <=> FileComplete'
    BY <1>same, <2>1 DEF FileComplete, Written
  <2>11. ASSUME depth = 0, first_unsent_packet_n' <= LastPacket
         PROVE  sending /\ ~FlagInTransit'
    <3>1. n <= LastPacket
      BY <1>types, <2>4, <2>11
    <3>2. sending /\ ~FlagInTransit
      BY <1>phases, <2>1, <2>11, <3>1 DEF PassInv
    <3>3. CASE toListener' = toListener
      BY <2>3, <3>2, <3>3, SameIsKept, NoNewFlag
    <3>4. CASE toListener' = Append(toListener, p) /\ first_unsent_packet_n' = n + 1
      <4>1. ~AtEof(n)
        BY <1>types, <2>11, <3>4 DEF AtEof
      <4> QED
        BY <2>2, <2>3, <3>2, <3>4, <4>1, NoNewFlag
    <3> QED
      BY <2>4, <3>2, <3>3, <3>4
  <2>12. PassInv'
    BY <1>phases, <2>1, <2>9, <2>10, <2>11 DEF PassInv
  <2> QED
    BY <1>phases, <2>1, <2>7, <2>12 DEF SyncInv
<1>6. ASSUME AckConfirmed PROVE TransferInv'
  <2>1. /\ pc \in DataPhase /\ pc' \in DataPhase
        /\ UNCHANGED <<session, depth, first_unsent_packet_n>>
        /\ SafeOpening /\ TakeAck /\ Confirms(Ack)
        /\ sending' = (sending /\ ~Ack.last)
        /\ \A s \in Slots : unconfirmed_packets'[s] =
             IF unconfirmed_packets[s] = Ack.n THEN None ELSE unconfirmed_packets[s]
    BY <1>6, <1>same, <1>safe DEF AckConfirmed, DataPhase
  <2>2. TransitInv'
    BY <1>phases, <1>take, <2>1, TransitKept
  <2>3. Written(Ack.n)
    BY <1>phases, <1>take, <2>1 DEF TransitInv
  <2>4. Confirmed' \subseteq Confirmed \cup {Ack.n}
    BY <2>1 DEF Confirmed
  <2>5. (\A m \in Confirmed : Written(m))'
    BY <1>phases, <1>same, <2>1, <2>3, <2>4 DEF PassInv, Written
  <2>6. FileComplete <=> FileComplete'
    BY <1>same, <2>1 DEF FileComplete, Written
  <2>7. ASSUME depth = 0, first_unsent_packet_n <= LastPacket
        PROVE  sending' /\ ~FlagInTransit'
    <3>1. sending /\ ~FlagInTransit
      BY <1>phases, <2>1, <2>7 DEF PassInv
    <3>2. ~Ack.last
      BY <1>take, <2>1, <3>1 DEF FlagInTransit
    <3> QED
      BY <1>take, <2>1, <3>1, <3>2, NoNewFlag
  <2>8. PassInv'
    BY <1>phases, <2>1, <2>5, <2>6, <2>7 DEF PassInv
  <2> QED
    BY <1>phases, <2>1, <2>2, <2>8 DEF SyncInv
<1>7. ASSUME SendHash \/ HashAckDamaged \/ HashConfirmed \/ HashTimeout
      PROVE  TransferInv'
  <2>1. /\ pc \in HashPhase /\ pc' \in HashPhase \cup {"done"}
        /\ UNCHANGED <<session, windowVars>>
        /\ SafeOpening
    BY <1>7, <1>same, <1>safe DEF SendHash, HashAckDamaged, HashConfirmed, HashTimeout, HashPhase
  <2>2. NothingNew(toSender', toSender)
    BY <1>7, <1>take, SameIsKept DEF SendHash, HashAckDamaged, HashConfirmed, HashTimeout
  <2>3. \/ NothingNew(toListener', toListener)
        \/ \E p \in ListenerPackets :
             OfTransfer(p) /\ p.type = "HASH" /\ toListener' = Append(toListener, p)
    <3>1. FileComplete
      BY <1>phases, <2>1 DEF PassInv
    <3>2. HashPacket(session) \in ListenerPackets /\ HashPacket(session).type = "HASH"
      BY PacketTypes DEF HashPacket, TypeInv, TypeOK, SenderTypeOK
    <3>3. OfTransfer(HashPacket(session))
      BY <3>1, <3>2 DEF OfTransfer
    <3> QED
      BY <1>7, <1>take, <3>2, <3>3, SameIsKept DEF SendHash, HashAckDamaged, HashConfirmed,
         HashTimeout, SendTo, SendToFails
  <2>4. TransitInv'
    BY <1>phases, <2>1, <2>2, <2>3, TransitKept
  <2>5. PassInv'
    BY <1>phases, <2>1, <2>2, <2>3, PassKept
  <2> QED
    BY <1>phases, <2>1, <2>4, <2>5 DEF SyncInv
<1>8. ASSUME HashRefused PROVE TransferInv'
  <2>1. /\ pc \in HashPhase /\ pc' \in DataPhase
        /\ session' = session /\ depth' = depth + 1 /\ first_unsent_packet_n' = 0
        /\ SafeOpening /\ TakeAck
    BY <1>8, <1>same, <1>safe DEF HashRefused, EnterData, HashPhase, DataPhase
  <2>2. TransitInv'
    BY <1>phases, <1>take, <2>1, TransitKept
  <2>3. FileComplete'
    BY <1>phases, <1>same, <2>1 DEF PassInv, FileComplete, Written
  <2>4. Confirmed' = {}
    BY <2>1 DEF Confirmed
  <2>5. depth' # 0
    BY <1>types, <2>1
  <2>6. PassInv'
    BY <2>3, <2>4, <2>5 DEF PassInv
  <2> QED
    BY <1>phases, <2>1, <2>2, <2>6 DEF SyncInv
<1>9. ASSUME SenderGone PROVE TransferInv'
  <2>1. /\ pc' = "done" /\ pc = "done"
        /\ UNCHANGED <<session, windowVars, toListener>>
        /\ SafeOpening
    BY <1>9, <1>same, <1>safe DEF SenderGone, senderVars, windowVars, Ended
  <2>2. NothingNew(toSender', toSender)
    BY <1>9, <1>types, TailFacts, KeptIsNothingNew DEF SenderGone
  <2>3. TransitInv'
    BY <1>phases, <2>1, <2>2, SameIsKept, TransitKept
  <2>4. PassInv'
    BY <1>phases, <2>1, <2>2, SameIsKept, PassKept
  <2> QED
    BY <1>phases, <2>1, <2>3, <2>4 DEF SyncInv
<1>10. ~ReceiveFails /\ ~OpenFails
  BY DEF ReceiveFails, OpenFails
<1>11. ~NextTransfer
  BY <1>types DEF NextTransfer, SafeOpening
<1> QED
  BY <1>1, <1>2, <1>3, <1>4, <1>5, <1>6, <1>7, <1>8, <1>9, <1>10, <1>11
     DEF SenderStep, SenderRuns, SenderReceives

LEMMA NetworkTransfer ==
  ASSUME NoCopies, NoCopies', Patient' => Patient,
         TypeInv, TransferInv, NetworkStep, UNCHANGED <<senderVars, listenerVars>>
  PROVE  TransferInv'
<1> USE DEF TransferInv
<1>1. UNCHANGED <<session, pc, depth, windowVars, opens>>
  BY DEF senderVars, windowVars, listenerVars, fileVars
<1>2. /\ Kept(toSender', toSender) /\ NothingNew(toSender', toSender)
      /\ Kept(toListener', toListener) /\ NothingNew(toListener', toListener)
  <2>1. toListener \in Seq(ListenerPackets) /\ toSender \in Seq(SenderPackets)
    BY DEF TypeInv, TypeOK, NetTypeOK
  <2>2. CASE Misbehave(toListener, toListener', ListenerTypes) /\ UNCHANGED toSender
    BY <2>1, <2>2, MisbehaveKept, SameIsKept, KeptIsNothingNew DEF NoCopies
  <2>3. CASE Misbehave(toSender, toSender', {"ACK"}) /\ UNCHANGED toListener
    BY <2>1, <2>3, MisbehaveKept, SameIsKept, KeptIsNothingNew DEF NoCopies
  <2> QED
    BY <2>2, <2>3 DEF NetworkStep
<1>3. SyncInv'
  <2> SUFFICES ASSUME SafeOpening, pc \in SyncPhase PROVE SyncInv'
    BY <1>1 DEF SyncInv, SafeOpening
  <2>1. depth' = 0
    BY <1>1 DEF SyncInv
  <2> QED
    BY <1>1, <1>2, <2>1, SyncKept
<1>4. TransitInv'
  <2> SUFFICES ASSUME SafeOpening, pc \in Transferring PROVE TransitInv'
    BY <1>1 DEF TransitInv, SafeOpening
  <2> QED
    BY <1>1, <1>2, TransitKept
<1>5. PassInv'
  <2> SUFFICES ASSUME SafeOpening, pc \in Transferring PROVE PassInv'
    BY <1>1 DEF PassInv, SafeOpening
  <2> QED
    BY <1>1, <1>2, PassKept
<1> QED
  BY <1>3, <1>4, <1>5

\* The listener keeps both invariants of a transfer when it takes a datagram,
\* forgets no block, confirms only what it has written, and is done with the
\* file only when that is complete.
LEMMA AnswerKept ==
  ASSUME TypeInv, TransitInv, PassInv,
         SafeOpening, pc \in Transferring,
         UNCHANGED <<senderVars, opens>>,
         NothingNew(toListener', toListener),
         \A n \in Blocks : content[n] = session => content'[n] = session,
         listening' => handle' = "open" \/ FileComplete,
         is_accepted' => FileComplete,
         \/ toSender' = toSender
         \/ \E a \in SenderPackets :
              /\ toSender' = Append(toSender, a)
              /\ Confirms(a) => /\ a.n \in Blocks => content'[a.n] = session
                                /\ a.last => FlagInTransit
  PROVE  TransitInv' /\ PassInv'
<1>1. UNCHANGED <<session, pc, depth, sending, unconfirmed_packets, first_unsent_packet_n, opens>>
  BY DEF senderVars, windowVars
<1>2. (\A n : Written(n) => Written(n)') /\ (FileComplete => FileComplete')
  BY <1>1 DEF Written, FileComplete
<1>3. \A k \in DOMAIN toSender' : Confirms(toSender'[k]) =>
        /\ toSender'[k].n \in Blocks => content'[toSender'[k].n] = session
        /\ toSender'[k].last => FlagInTransit
  <2>1. \A k \in DOMAIN toSender : Confirms(toSender[k]) =>
          /\ toSender[k].n \in Blocks => content'[toSender[k].n] = session
          /\ toSender[k].last => FlagInTransit
    BY DEF TransitInv, Written, FlagInTransit
  <2>2. CASE toSender' = toSender
    BY <2>1, <2>2
  <2>3. ASSUME NEW a \in SenderPackets, toSender' = Append(toSender, a),
               Confirms(a) => /\ a.n \in Blocks => content'[a.n] = session
                              /\ a.last => FlagInTransit
        PROVE  \A k \in DOMAIN toSender' : Confirms(toSender'[k]) =>
                 /\ toSender'[k].n \in Blocks => content'[toSender'[k].n] = session
                 /\ toSender'[k].last => FlagInTransit
    <3>1. /\ DOMAIN toSender' = DOMAIN toSender \cup {Len(toSender) + 1}
          /\ \A j \in DOMAIN toSender : toSender'[j] = toSender[j]
          /\ toSender'[Len(toSender) + 1] = a
      BY <2>3, AppendFacts DEF TypeInv, TypeOK, NetTypeOK
    <3> QED
      BY <2>1, <2>3, <3>1
  <2> QED
    BY <2>2, <2>3
<1>4. TransitInv'
  <2>1. \A k \in DOMAIN toListener' : OfTransfer(toListener'[k])
    BY DEF TransitInv, NothingNew, OfTransfer
  <2> QED
    BY <1>1, <1>2, <1>3, <2>1 DEF TransitInv, OfTransfer, Confirms, Written
<1>5. FlagInTransit' => FlagInTransit
  <2>1. \A k \in DOMAIN toListener' :
          toListener'[k].ok /\ toListener'[k].type = "DATA" /\ toListener'[k].last => FlagInTransit
    BY DEF FlagInTransit, NothingNew
  <2> QED
    BY <1>3, <2>1 DEF FlagInTransit, Confirms
<1>6. PassInv'
  <2>1. Confirmed' = Confirmed
    BY <1>1 DEF Confirmed
  <2>2. (\A n \in Confirmed : Written(n))'
    BY <1>1, <2>1 DEF PassInv, Written
  <2> QED
    BY <1>1, <1>2, <1>5, <2>2 DEF PassInv
<1> QED
  BY <1>4, <1>6

\* The same in the handshake: the listener confirms when it opens the file, and
\* not before the sender has its earlier confirmation.
LEMMA AnswerKeptInSync ==
  ASSUME TypeInv, SyncInv,
         SafeOpening, pc \in SyncPhase,
         UNCHANGED senderVars,
         NothingNew(toListener', toListener),
         ~is_accepted', opens # 0 => opens' # 0,
         listening' /\ opens' # 0 => handle' = "open",
         \/ toSender' = toSender
         \/ \E a \in SenderPackets :
              /\ toSender' = Append(toSender, a)
              /\ Confirms(a) => opens' # 0 /\ \A k \in DOMAIN toSender : ~Confirms(toSender[k])
  PROVE  SyncInv'
<1>1. UNCHANGED <<session, pc, depth>> /\ depth = 0
  BY DEF senderVars, SyncInv
<1>2. /\ \A k \in DOMAIN toSender : Confirms(toSender[k]) => opens # 0
      /\ \A j, k \in DOMAIN toSender : Confirms(toSender[j]) /\ Confirms(toSender[k]) => j = k
      /\ \A k \in DOMAIN toListener : toListener[k].ok => toListener[k].type = "SYNC"
  BY DEF SyncInv
<1>3. \A j, k \in DOMAIN toSender' :
        Confirms(toSender'[j]) /\ Confirms(toSender'[k]) => j = k /\ opens' # 0
  <2>1. CASE toSender' = toSender
    BY <1>2, <2>1
  <2>2. ASSUME NEW a \in SenderPackets, toSender' = Append(toSender, a),
               Confirms(a) => opens' # 0 /\ \A k \in DOMAIN toSender : ~Confirms(toSender[k])
        PROVE  \A j, k \in DOMAIN toSender' :
                 Confirms(toSender'[j]) /\ Confirms(toSender'[k]) => j = k /\ opens' # 0
    <3>1. /\ DOMAIN toSender' = DOMAIN toSender \cup {Len(toSender) + 1}
          /\ \A j \in DOMAIN toSender : toSender'[j] = toSender[j]
          /\ toSender'[Len(toSender) + 1] = a
      BY <2>2, AppendFacts DEF TypeInv, TypeOK, NetTypeOK
    <3>2. CASE Confirms(a)
      BY <2>2, <3>1, <3>2
    <3>3. CASE ~Confirms(a)
      BY <1>2, <3>1, <3>3
    <3> QED
      BY <3>2, <3>3
  <2> QED
    BY <2>1, <2>2
<1>4. \A k \in DOMAIN toListener' : toListener'[k].ok => toListener'[k].type = "SYNC"
  BY <1>2 DEF NothingNew
<1> QED
  BY <1>1, <1>3, <1>4 DEF SyncInv, Confirms

\* What the listener takes and what it can answer.
LEMMA ReceiveFacts ==
  ASSUME TypeInv, Receive
  PROVE  /\ Packet \in ListenerPackets
         /\ 1 \in DOMAIN toListener /\ Packet = toListener[1]
         /\ NothingNew(toListener', toListener)
         /\ \A a : Reply(a) => toSender' = Append(toSender, a) \/ toSender' = toSender
BY TailFacts, KeptIsNothingNew DEF TypeInv, TypeOK, NetTypeOK, Receive, Packet, Reply

\* In the handshake.
LEMMA ListenerInSync ==
  ASSUME TypeInv, SyncInv, PatientInv, SafeOpening, pc \in SyncPhase,
         ListenerReceives \/ ListenerReceiveFails \/ ListenerGone,
         opens' <= 1 \/ Patient, UNCHANGED senderVars
  PROVE  SyncInv'
<1>0. /\ ~is_accepted
      /\ \A k \in DOMAIN toListener : toListener[k].ok => toListener[k].type = "SYNC"
      /\ listening /\ opens # 0 => handle = "open"
      /\ opens \in 0 .. 2
  BY DEF SyncInv, TypeInv, TypeOK, ListenerTypeOK
<1>first. ASSUME Receive, opens' = IF opens = 0 THEN 1 ELSE 2
          PROVE  opens' # 0 /\ \A k \in DOMAIN toSender : ~Confirms(toSender[k])
  <2>1. CASE opens = 0
    BY <1>first, <2>1 DEF SyncInv
  <2>2. CASE opens # 0
    <3>1. Patient /\ NoCopies /\ session = 1
      BY <1>first, <2>2 DEF SafeOpening
    <3>2. toListener # <<>>
      BY <1>first DEF Receive
    <3>3. Len(toListener) \in Nat \ {0} /\ Len(toSender) \in Nat
      BY <3>2, EmptySeq, LenProperties DEF TypeInv, TypeOK, NetTypeOK
    <3>4. Len(toListener) + Len(toSender) <= 1
      BY <3>1, <3>2 DEF PatientInv, SyncPhase
    <3>5. Len(toSender) = 0
      BY <3>3, <3>4
    <3>6. DOMAIN toSender = {}
      BY <3>5, LenProperties DEF TypeInv, TypeOK, NetTypeOK
    <3> QED
      BY <1>first, <2>2, <3>6
  <2> QED
    BY <2>1, <2>2
<1>refuse. AckPacket(0, FALSE, NEGATIVE_CODE) \in SenderPackets /\ ~Confirms(AckPacket(0, FALSE, NEGATIVE_CODE))
  BY PacketTypes, ConstantTypes DEF AckPacket, Confirms, CONFIRM_CODE, NEGATIVE_CODE
<1>confirm. AckPacket(0, FALSE, CONFIRM_CODE) \in SenderPackets
  BY PacketTypes, ConstantTypes
<1>1. CASE ReceiveSync
  <2>1. opens' # 0 /\ \A k \in DOMAIN toSender : ~Confirms(toSender[k])
    BY <1>first, <1>1 DEF ReceiveSync
  <2> QED
    BY <1>0, <1>1, <1>confirm, <2>1, ReceiveFacts, AnswerKeptInSync DEF ReceiveSync
<1>2. CASE ReceiveSyncOpenFails
  <2>1. opens' # 0 /\ \A k \in DOMAIN toSender : ~Confirms(toSender[k])
    BY <1>first, <1>2 DEF ReceiveSyncOpenFails
  <2> QED
    BY <1>0, <1>2, <1>confirm, <2>1, ReceiveFacts, AnswerKeptInSync DEF ReceiveSyncOpenFails
<1>3. CASE ReceiveDamaged \/ ReceiveUnknown
  <2>1. Receive /\ UNCHANGED listenerVars
    BY <1>3 DEF ReceiveDamaged, ReceiveUnknown
  <2>2. \/ toSender' = toSender
        \/ toSender' = Append(toSender, AckPacket(0, FALSE, NEGATIVE_CODE))
    BY <1>3, <2>1, ReceiveFacts DEF ReceiveDamaged, ReceiveUnknown
  <2> QED
    BY <1>0, <1>refuse, <2>1, <2>2, ReceiveFacts, AnswerKeptInSync DEF listenerVars, fileVars
<1>4. CASE ListenerGone
  <2>1. NothingNew(toListener', toListener)
    BY <1>4, TailFacts, KeptIsNothingNew DEF ListenerGone, TypeInv, TypeOK, NetTypeOK
  <2> QED
    BY <1>0, <1>4, <2>1, AnswerKeptInSync DEF ListenerGone, listenerVars, fileVars
<1>5. CASE ListenerReceiveFails
  BY <1>0, <1>5, SameIsKept, AnswerKeptInSync DEF ListenerReceiveFails
<1>6. ~ReceiveData /\ ~ReceiveDataNoFile /\ ~ReceiveHash /\ ~ReceiveHashAgain /\ ~ReceiveHashNoFile
  BY <1>0, ReceiveFacts
     DEF ReceiveData, ReceiveDataNoFile, ReceiveHash, ReceiveHashAgain, ReceiveHashNoFile
<1> QED
  BY <1>1, <1>2, <1>3, <1>4, <1>5, <1>6 DEF ListenerReceives

\* In the transfer.
LEMMA ListenerInTransfer ==
  ASSUME TypeInv, TransitInv, PassInv, PatientInv, SafeOpening, pc \in Transferring,
         ListenerReceives \/ ListenerReceiveFails \/ ListenerGone,
         opens' <= 1 \/ Patient, UNCHANGED senderVars
  PROVE  TransitInv' /\ PassInv'
<1>0. /\ opens # 0
      /\ listening => handle = "open" \/ FileComplete
      /\ is_accepted => FileComplete
      /\ \A k \in DOMAIN toListener : OfTransfer(toListener[k])
      /\ session = 1
  BY DEF TransitInv, SafeOpening
<1>refuse. /\ AckPacket(0, FALSE, NEGATIVE_CODE) \in SenderPackets
           /\ ~Confirms(AckPacket(0, FALSE, NEGATIVE_CODE))
  BY PacketTypes, ConstantTypes DEF AckPacket, Confirms, CONFIRM_CODE, NEGATIVE_CODE
<1>confirm. /\ AckPacket(0, FALSE, CONFIRM_CODE) \in SenderPackets
            /\ AckPacket(0, FALSE, CONFIRM_CODE).n = 0
            /\ ~AckPacket(0, FALSE, CONFIRM_CODE).last
  BY PacketTypes, ConstantTypes DEF AckPacket
<1>1. ~ReceiveSync /\ ~ReceiveSyncOpenFails
  <2> SUFFICES ASSUME Receive, Packet.ok, Packet.type = "SYNC", opens' = IF opens = 0 THEN 1 ELSE 2
               PROVE  FALSE
    BY DEF ReceiveSync, ReceiveSyncOpenFails
  <2>1. opens' = 2
    BY <1>0
  <2>2. Patient /\ NoCopies /\ session = 1
    BY <2>1 DEF SafeOpening
  <2>3. \A k \in DOMAIN toListener : toListener[k].ok => toListener[k].type # "SYNC"
    BY <2>2 DEF PatientInv, Transferring, SyncPhase, DataPhase, HashPhase
  <2> QED
    BY <2>3, ReceiveFacts
<1>data. ASSUME ReceiveData \/ ReceiveDataNoFile
         PROVE  LET a == AckPacket(Packet.n, Packet.last, CONFIRM_CODE) IN
                /\ Receive /\ Packet.ok /\ Packet.type = "DATA" /\ Packet.file = 1
                /\ a \in SenderPackets /\ a.n = Packet.n
                /\ a.last => FlagInTransit
  <2>1. Receive /\ Packet.ok /\ Packet.type = "DATA"
    BY <1>data DEF ReceiveData, ReceiveDataNoFile
  <2>2. Packet.file = 1 /\ Packet.n \in PacketNs /\ Packet.last \in BOOLEAN
    BY <1>0, <2>1, ReceiveFacts, PacketFields DEF OfTransfer
  <2>3. Packet.last => FlagInTransit
    BY <2>1, ReceiveFacts DEF FlagInTransit
  <2> QED
    BY <2>1, <2>2, <2>3, PacketTypes DEF AckPacket
<1>2. CASE ReceiveData
  <2>1. \A n \in Blocks : content[n] = session => content'[n] = session
    BY <1>0, <1>2, <1>data DEF ReceiveData, WriteBlock
  <2>2. Packet.n \in Blocks => content'[Packet.n] = session
    BY <1>0, <1>2, <1>data DEF ReceiveData, WriteBlock
  <2> QED
    BY <1>0, <1>2, <1>data, <2>1, <2>2, ReceiveFacts, AnswerKept DEF ReceiveData
<1>3. CASE ReceiveDataNoFile
  <2>1. /\ UNCHANGED <<handle, is_accepted, content, opens>>
        /\ listening /\ handle # "open"
        /\ listening' => listening
        /\ \/ toSender' = toSender
           \/ toSender' = Append(toSender, AckPacket(Packet.n, Packet.last, CONFIRM_CODE))
    BY <1>3, ReceiveFacts DEF ReceiveDataNoFile, fileVars, Receive
  <2>2. FileComplete
    BY <1>0, <2>1
  <2>3. Packet.n \in Blocks => content'[Packet.n] = session
    BY <2>1, <2>2 DEF FileComplete, Written
  <2> QED
    BY <1>0, <1>3, <1>data, <2>1, <2>2, <2>3, ReceiveFacts, AnswerKept
<1>4. CASE ReceiveHash \/ ReceiveHashAgain \/ ReceiveHashNoFile
  <2>1. Receive /\ UNCHANGED <<content, opens>>
    BY <1>4 DEF ReceiveHash, ReceiveHashAgain, ReceiveHashNoFile, fileVars
  <2>2. FileComplete
    BY <1>0, <1>4, ReceiveFacts DEF ReceiveHash, ReceiveHashAgain, ReceiveHashNoFile, OfTransfer
  <2>3. 0 \in Blocks => content'[0] = session
    BY <2>1, <2>2 DEF FileComplete, Written
  <2>4. \/ toSender' = toSender
        \/ toSender' = Append(toSender, AckPacket(0, FALSE, CONFIRM_CODE))
        \/ toSender' = Append(toSender, AckPacket(0, FALSE, NEGATIVE_CODE))
    BY <1>4, <2>1, ReceiveFacts DEF ReceiveHash, ReceiveHashAgain, ReceiveHashNoFile
  <2> QED
    BY <1>refuse, <1>confirm, <2>1, <2>2, <2>3, <2>4, ReceiveFacts, AnswerKept
<1>5. CASE ReceiveDamaged \/ ReceiveUnknown
  <2>1. Receive /\ UNCHANGED listenerVars
    BY <1>5 DEF ReceiveDamaged, ReceiveUnknown
  <2>2. \/ toSender' = toSender
        \/ toSender' = Append(toSender, AckPacket(0, FALSE, NEGATIVE_CODE))
    BY <1>5, <2>1, ReceiveFacts DEF ReceiveDamaged, ReceiveUnknown
  <2> QED
    BY <1>0, <1>refuse, <2>1, <2>2, ReceiveFacts, AnswerKept DEF listenerVars, fileVars
<1>6. CASE ListenerGone
  <2>1. NothingNew(toListener', toListener)
    BY <1>6, TailFacts, KeptIsNothingNew DEF ListenerGone, TypeInv, TypeOK, NetTypeOK
  <2> QED
    BY <1>0, <1>6, <2>1, AnswerKept DEF ListenerGone, listenerVars, fileVars
<1>7. CASE ListenerReceiveFails
  BY <1>0, <1>7, SameIsKept, AnswerKept DEF ListenerReceiveFails
<1> QED
  BY <1>1, <1>2, <1>3, <1>4, <1>5, <1>6, <1>7 DEF ListenerReceives

\* A later file takes its transfer out of what the invariants are about.
LEMMA ListenerTransfer ==
  ASSUME NoCopies, NoCopies', Patient' => Patient,
         TypeInv, PatientInv, TransferInv, ListenerStep, UNCHANGED senderVars
  PROVE  TransferInv'
<1> USE DEF TransferInv
<1>1. UNCHANGED <<session, pc>>
  BY DEF senderVars
<1>2. ListenerReceives \/ ListenerReceiveFails \/ ListenerGone
  BY DEF ListenerStep, Restart, Fault, NoCopies
<1>3. opens \in 0 .. 2 /\ (opens' <= 1 => opens <= 1)
  <2>1. opens \in 0 .. 2
    BY DEF TypeInv, TypeOK, ListenerTypeOK
  <2>2. CASE ReceiveSync \/ ReceiveSyncOpenFails
    <3>1. opens' = IF opens = 0 THEN 1 ELSE 2
      BY <2>2 DEF ReceiveSync, ReceiveSyncOpenFails
    <3> QED
      BY <2>1, <3>1
  <2>3. CASE ~(ReceiveSync \/ ReceiveSyncOpenFails)
    <3>1. opens' = opens
      BY <1>2, <2>3 DEF ListenerReceives, ListenerReceiveFails, ListenerGone, ReceiveData, ReceiveDataNoFile, ReceiveHash,
         ReceiveHashAgain, ReceiveHashNoFile, ReceiveDamaged, ReceiveUnknown, listenerVars, fileVars
    <3> QED
      BY <2>1, <3>1
  <2> QED
    BY <2>2, <2>3
<1>4. SyncPhase \cap Transferring = {}
  BY DEF SyncPhase, Transferring, DataPhase, HashPhase
<1>5. CASE ~SafeOpening'
  BY <1>5 DEF SyncInv, TransitInv, PassInv
<1>6. ASSUME SafeOpening' PROVE TransferInv'
  <2>1. SafeOpening /\ (opens' <= 1 \/ Patient)
    BY <1>1, <1>3, <1>6 DEF SafeOpening
  <2>2. CASE pc \in SyncPhase
    BY <1>1, <1>2, <1>4, <2>1, <2>2, ListenerInSync DEF TransitInv, PassInv
  <2>3. CASE pc \in Transferring
    BY <1>1, <1>2, <1>4, <2>1, <2>3, ListenerInTransfer DEF SyncInv
  <2>4. CASE pc \notin SyncPhase \cup Transferring
    BY <1>1, <2>4 DEF SyncInv, TransitInv, PassInv
  <2> QED
    BY <2>2, <2>3, <2>4
<1> QED
  BY <1>5, <1>6

LEMMA TransferInit == Init => TransferInv
<1> SUFFICES ASSUME Init PROVE TransferInv
  OBVIOUS
<1>1. /\ pc = "sync_send" /\ depth = 0 /\ is_accepted = FALSE /\ opens = 0
      /\ toListener = <<>> /\ toSender = <<>>
  BY DEF Init, NetInit, SenderInit, ListenerInit
<1>2. pc \notin Transferring
  BY <1>1 DEF Transferring, DataPhase, HashPhase
<1>3. DOMAIN toListener = {} /\ DOMAIN toSender = {}
  BY <1>1
<1>4. SyncInv
  BY <1>1, <1>3 DEF SyncInv
<1> QED
  BY <1>2, <1>4 DEF TransferInv, TransitInv, PassInv

LEMMA TransferStep ==
  ASSUME TypeInv, WindowInv, PatientInv, TransferInv, [Next]_vars
  PROVE  TransferInv'
<1>0. SUFFICES ASSUME NoCopies' PROVE TransferInv'
  BY DEF TransferInv, SyncInv, TransitInv, PassInv, SafeOpening
<1>before. NoCopies /\ (Patient' => Patient)
  BY <1>0, NoCopiesBefore, FaultsStay DEF Patient
<1>1. CASE SenderStep /\ UNCHANGED listenerVars
  BY <1>before, <1>1, SenderTransfer
<1>2. CASE ListenerStep /\ UNCHANGED senderVars
  BY <1>0, <1>before, <1>2, ListenerTransfer
<1>3. CASE NetworkStep /\ UNCHANGED <<senderVars, listenerVars>>
  BY <1>0, <1>before, <1>3, NetworkTransfer
<1>4. CASE UNCHANGED vars
  BY <1>4 DEF vars, netVars, senderVars, windowVars, listenerVars, fileVars, TransferInv, SyncInv,
     TransitInv, PassInv, SafeOpening, Patient, NoCopies, OfTransfer, FlagInTransit, FileComplete, Written, Confirmed
<1> QED
  BY <1>1, <1>2, <1>3, <1>4 DEF Next, Idle

\* The inductive invariant of the first transfer holds whatever the network
\* loses, damages, delays or reorders, and whichever system call fails; as long
\* as nothing has been copied, the listener has not been started again, and it
\* has opened one file only or no timer has beaten an answer (sender.c 131-449,
\* listener.c 101-196).
THEOREM TransferCorrect == Spec => []TransferInv
<1>1. TypeInv /\ WindowInv /\ PatientInv /\ TransferInv /\ [Next]_vars => TransferInv'
  BY TransferStep
<1> QED
  BY <1>1, TransferInit, TypeInvariant, WindowCorrect, PatientInvariant, PTL DEF Spec

\* A packet the sender dropped from its window is in the listener's file, under
\* the same condition (sender.c 351-355, listener.c 148-152).
THEOREM ConfirmedBlocksAreWritten == Spec => []ConfirmedIsWritten
<1>1. TransferInv => ConfirmedIsWritten
  BY DEF TransferInv, PassInv, ConfirmedIsWritten, SafeOpening, Transferring
<1> QED
  BY <1>1, TransferCorrect, PTL

\* The whole file is there when the sender asks for the comparison and when it
\* reports success (sender.c 246-251, 436-443, 108).
THEOREM FinishedFileIsComplete == Spec => []FinishedIsComplete
<1>1. DataPhase \cap (HashPhase \cup {"done"}) = {}
  BY DEF DataPhase, HashPhase
<1>2. TransferInv => FinishedIsComplete
  BY <1>1 DEF TransferInv, PassInv, FinishedIsComplete, SafeOpening, Transferring
<1> QED
  BY <1>2, TransferCorrect, PTL

\* A sender that reports success has delivered the whole file when timers
\* outlast the network, nothing is copied and neither side is started again,
\* whatever is lost, damaged or reordered and whichever calls fail (sender.c
\* 108): the comparison of hashes, which accepts anything, is not needed.
THEOREM SuccessIsComplete ==
  ASSUME MaxSessions = 1, Faults \cap {"duplicate", "restart", "delay"} = {}
  PROVE  Spec => []DoneIsComplete
<1>1. TypeInv /\ FinishedIsComplete => DoneIsComplete
  <2> SUFFICES ASSUME TypeInv, FinishedIsComplete PROVE DoneIsComplete
    OBVIOUS
  <2>1. faults.kinds \subseteq Faults /\ session = 1
    BY DEF TypeInv, TypeOK, NetTypeOK, FaultCounts, SenderTypeOK, Files
  <2>2. SafeOpening
    BY <2>1 DEF SafeOpening, NoCopies, Patient
  <2> QED
    BY <2>2 DEF FinishedIsComplete, DoneIsComplete
<1> QED
  BY <1>1, TypeInvariant, FinishedFileIsComplete, PTL

----------------------------------------------------------------------------
(* The order of transfers: no block of an earlier one in a later file.     *)

\* What makes NoStaleBlocks inductive: what is on its way is of this transfer or
\* of earlier ones, no earlier than the file, the older datagram of no later one.
OrderInv ==
  InOrder =>
    /\ owner \in Nat /\ owner <= session
    /\ \A n \in Blocks : content[n] = Hole \/ content[n] >= owner
    /\ \A k \in DOMAIN toListener :
         toListener[k].ok => owner <= toListener[k].file /\ toListener[k].file <= session
    /\ \A j, k \in DOMAIN toListener :
         j <= k /\ toListener[j].ok /\ toListener[k].ok => toListener[j].file <= toListener[k].file

\* What is in transit undamaged was in transit before, in the same order.
OrderKept(new, old) ==
  \A j1, j2 \in DOMAIN new : j1 <= j2 /\ new[j1].ok /\ new[j2].ok =>
    \E k1, k2 \in DOMAIN old : k1 <= k2 /\ new[j1] = old[k1] /\ new[j2] = old[k2]

\* Taking datagrams from the front keeps the order.
LEMMA SuffixOrder ==
  ASSUME NEW S, NEW chan \in Seq(S), NEW n \in 0 .. Len(chan)
  PROVE  OrderKept(SubSeq(chan, n + 1, Len(chan)), chan)
<1> DEFINE new == SubSeq(chan, n + 1, Len(chan))
<1>1. Len(chan) \in Nat /\ DOMAIN chan = 1 .. Len(chan)
  BY LenProperties
<1>2. \A m \in n + 1 .. Len(chan) : chan[m] \in S
  BY <1>1, ElementOfSeq
<1>3. n + 1 \in Int /\ Len(chan) \in Int
  BY <1>1
<1>4. /\ new \in Seq(S)
      /\ Len(new) = IF n + 1 <= Len(chan) THEN Len(chan) - (n + 1) + 1 ELSE 0
      /\ \A m \in 1 .. Len(chan) - (n + 1) + 1 : new[m] = chan[n + 1 + m - 1]
  BY <1>2, <1>3, SubSeqProperties
<1> HIDE DEF new
<1>5. ASSUME NEW L \in Nat, L = Len(chan)
      PROVE  /\ DOMAIN new = 1 .. L - n
             /\ \A m \in 1 .. L - n : new[m] = chan[m + n]
  <2>1. Len(new) = IF n + 1 <= L THEN L - (n + 1) + 1 ELSE 0
    BY <1>4, <1>5
  <2>2. n \in Int /\ 0 <= n /\ n <= L
    BY <1>1, <1>5
  <2>3. L - (n + 1) + 1 = L - n /\ (~(n + 1 <= L) => L - n = 0)
    BY <1>5, <2>2
  <2>4. Len(new) = L - n
    BY <2>1, <2>3
  <2>5. DOMAIN new = 1 .. Len(new)
    BY <1>4, LenProperties
  <2>6. \A m \in 1 .. L - n : new[m] = chan[n + 1 + m - 1]
    BY <1>4, <1>5, <2>3
  <2>7. \A m \in 1 .. L - n : n + 1 + m - 1 = m + n
    BY <1>5, <2>2
  <2> QED
    BY <2>4, <2>5, <2>6, <2>7
<1>6. \A m \in DOMAIN new : m \in Int /\ m + n \in DOMAIN chan /\ new[m] = chan[m + n]
  <2>1. PICK L \in Nat : L = Len(chan)
    BY <1>1
  <2>2. DOMAIN new = 1 .. L - n /\ \A m \in 1 .. L - n : new[m] = chan[m + n]
    BY <1>5, <2>1
  <2>3. \A m \in 1 .. L - n : m \in Int /\ m + n \in DOMAIN chan
    BY <1>1, <2>1
  <2> QED
    BY <2>2, <2>3
<1>7. \A j1, j2 \in DOMAIN new : j1 <= j2 => j1 + n <= j2 + n
  BY <1>1, <1>6
<1>8. OrderKept(new, chan)
  BY <1>6, <1>7 DEF OrderKept
<1> QED
  BY <1>8 DEF new

LEMMA TailOrder ==
  ASSUME NEW S, NEW chan \in Seq(S), chan # <<>>
  PROVE  OrderKept(Tail(chan), chan)
<1>1. \A j \in DOMAIN Tail(chan) : j + 1 \in DOMAIN chan /\ Tail(chan)[j] = chan[j + 1]
  BY TailFacts
<1>2. \A j \in DOMAIN Tail(chan) : j \in Int
  BY TailFacts, LenProperties
<1>3. \A j1, j2 \in DOMAIN Tail(chan) : j1 <= j2 => j1 + 1 <= j2 + 1
  BY <1>2
<1> QED
  BY <1>1, <1>3 DEF OrderKept

\* A network that neither copies nor reorders keeps the order.
LEMMA MisbehaveOrder ==
  ASSUME NEW S, NEW chan \in Seq(S), NEW new, NEW types,
         faults'.kinds \cap {"duplicate", "reorder"} = {},
         Misbehave(chan, new, types)
  PROVE  OrderKept(new, chan)
<1>0. DOMAIN chan = 1 .. Len(chan) /\ Len(chan) \in Nat
  BY LenProperties
<1>1. CASE Lose(chan, new)
  <2>1. PICK k \in DOMAIN chan : new = Without(chan, k)
    BY <1>1 DEF Lose
  <2>2. /\ new \in Seq(S) /\ Len(new) = Len(chan) - 1
        /\ \A m \in 1 .. Len(chan) - 1 : new[m] = chan[IF m < k THEN m ELSE m + 1]
    BY <2>1, WithoutFacts
  <2>3. DOMAIN new = 1 .. Len(chan) - 1
    BY <2>2, LenProperties
  <2> DEFINE from(m) == IF m < k THEN m ELSE m + 1
  <2>4. \A m \in DOMAIN new : from(m) \in DOMAIN chan /\ new[m] = chan[from(m)]
    BY <1>0, <2>2, <2>3
  <2>5. \A m, n \in DOMAIN new : m <= n => from(m) <= from(n)
    BY <1>0, <2>3
  <2> HIDE DEF from
  <2> QED
    BY <2>4, <2>5 DEF OrderKept
<1>2. CASE Corrupt(chan, new, types)
  <2>1. PICK k \in DOMAIN chan, t \in types : new = [chan EXCEPT ![k] = Damaged(t)]
    BY <1>2 DEF Corrupt
  <2>2. DOMAIN new = DOMAIN chan
    BY <2>1
  <2>3. \A j \in DOMAIN chan : new[j] = IF j = k THEN Damaged(t) ELSE chan[j]
    BY <2>1
  <2>4. ~Damaged(t).ok
    BY DEF Damaged
  <2> QED
    BY <2>2, <2>3, <2>4 DEF OrderKept
<1>3. ~Duplicate(chan, new) /\ ~Overtake(chan, new)
  <2>1. "duplicate" \notin faults'.kinds /\ "reorder" \notin faults'.kinds
    OBVIOUS
  <2> QED
    BY <2>1 DEF Duplicate, Overtake, Fault
<1> QED
  BY <1>1, <1>2, <1>3 DEF Misbehave

\* OrderInv is kept by a step that leaves the file's owner alone, writes only
\* what is as new as the owner, and sends nothing but this transfer's packets.
LEMMA OrderStays ==
  ASSUME TypeInv, OrderInv, InOrder, TypeInv',
         owner' = owner, session' \in {session, session + 1},
         \A n \in Blocks : content'[n] \in {Hole, content[n]} \/ content'[n] >= owner,
         \/ OrderKept(toListener', toListener)
         \/ \E p \in ListenerPackets :
              (p.ok => p.file = session') /\ toListener' = Append(toListener, p)
  PROVE  OrderInv'
<1>0. /\ session \in Nat /\ owner \in Nat /\ session' \in Nat /\ session <= session'
      /\ toListener \in Seq(ListenerPackets)
  BY DEF TypeInv, TypeOK, NetTypeOK, SenderTypeOK, ListenerTypeOK, Files
<1>1. /\ owner <= session
      /\ \A n \in Blocks : content[n] = Hole \/ content[n] >= owner
      /\ \A k \in DOMAIN toListener :
           toListener[k].ok => owner <= toListener[k].file /\ toListener[k].file <= session
      /\ \A j, k \in DOMAIN toListener :
           j <= k /\ toListener[j].ok /\ toListener[k].ok =>
             toListener[j].file <= toListener[k].file
  BY DEF OrderInv
<1>files. \A k \in DOMAIN toListener : toListener[k].ok =>
            toListener[k].type \in {"SYNC", "DATA", "HASH"} /\ toListener[k].file \in Nat
  <2>1. \A k \in DOMAIN toListener : toListener[k] \in ListenerPackets
    BY <1>0, LenProperties, ElementOfSeq
  <2>2. \A p \in ListenerPackets : p.ok => p.type \in {"SYNC", "DATA", "HASH"} /\ p.file \in Files
    BY DEF ListenerPackets
  <2> QED
    BY <2>1, <2>2 DEF Files
<1>2. \A n \in Blocks : content'[n] = Hole \/ content'[n] >= owner
  BY <1>1
<1>3. CASE OrderKept(toListener', toListener)
  <2>1. \A k \in DOMAIN toListener' : toListener'[k].ok =>
          owner <= toListener'[k].file /\ toListener'[k].file <= session'
    <3> SUFFICES ASSUME NEW k \in DOMAIN toListener', toListener'[k].ok
                 PROVE  owner <= toListener'[k].file /\ toListener'[k].file <= session'
      OBVIOUS
    <3>1. k \in Int
      BY LenProperties DEF TypeInv, TypeOK, NetTypeOK
    <3>2. PICK k1 \in DOMAIN toListener : toListener'[k] = toListener[k1]
      <4>1. k <= k
        BY <1>3, <3>1
      <4> QED
        BY <1>3, <4>1 DEF OrderKept
    <3> QED
      BY <1>0, <1>1, <1>files, <3>2
  <2>2. \A j, k \in DOMAIN toListener' :
          j <= k /\ toListener'[j].ok /\ toListener'[k].ok =>
            toListener'[j].file <= toListener'[k].file
    BY <1>1, <1>3 DEF OrderKept
  <2> QED
    BY <1>0, <1>1, <1>2, <2>1, <2>2 DEF OrderInv
<1>4. ASSUME NEW p \in ListenerPackets, p.ok => p.file = session',
             toListener' = Append(toListener, p)
      PROVE  OrderInv'
  <2>1. /\ DOMAIN toListener' = DOMAIN toListener \cup {Len(toListener) + 1}
        /\ \A j \in DOMAIN toListener : toListener'[j] = toListener[j]
        /\ toListener'[Len(toListener) + 1] = p
        /\ Len(toListener) + 1 \notin DOMAIN toListener
    BY <1>0, <1>4, AppendFacts
  <2>2. Len(toListener) \in Nat /\ DOMAIN toListener = 1 .. Len(toListener)
    BY <1>0, LenProperties
  <2>3. \A k \in DOMAIN toListener' : toListener'[k].ok =>
          owner <= toListener'[k].file /\ toListener'[k].file <= session'
    BY <1>0, <1>1, <1>4, <1>files, <2>1
  <2>4. \A j, k \in DOMAIN toListener' :
          j <= k /\ toListener'[j].ok /\ toListener'[k].ok =>
            toListener'[j].file <= toListener'[k].file
    <3> SUFFICES ASSUME NEW j \in DOMAIN toListener', NEW k \in DOMAIN toListener',
                        j <= k, toListener'[j].ok, toListener'[k].ok
                 PROVE  toListener'[j].file <= toListener'[k].file
      OBVIOUS
    <3>1. CASE k \in DOMAIN toListener
      <4>1. j \in DOMAIN toListener
        BY <2>1, <2>2, <3>1
      <4> QED
        BY <1>1, <2>1, <3>1, <4>1
    <3>2. CASE k = Len(toListener) + 1
      BY <1>0, <1>4, <2>1, <2>3, <3>2
    <3> QED
      BY <2>1, <3>1, <3>2
  <2> QED
    BY <1>0, <1>1, <1>2, <2>3, <2>4 DEF OrderInv
<1> QED
  BY <1>3, <1>4

\* Once the network has kept the order up to now, it had done so before.
LEMMA InOrderBefore ==
  ASSUME [Next]_vars, InOrder'
  PROVE  InOrder
<1>1. faults.kinds \subseteq faults'.kinds
  BY FaultsStay
<1> QED
  BY <1>1 DEF InOrder

LEMMA OrderSender ==
  ASSUME TypeInv, TypeInv', OrderInv, InOrder, SenderStep, UNCHANGED listenerVars
  PROVE  OrderInv'
<1>1. UNCHANGED <<owner, content>>
  BY DEF listenerVars, fileVars
<1>2. session' = session \/ (session' = session + 1 /\ toListener' = toListener)
  <2>1. ASSUME SenderRuns PROVE session' = session
    BY <2>1 DEF SenderRuns, SendSync, SyncTimeout, StartRound, FinishData, SendNewPacket,
       ResendPacket, SkipSlot, StartReceiving, EndRound, SendHash, HashTimeout
  <2>2. ASSUME SenderReceives PROVE session' = session
    BY <2>2 DEF SenderReceives, SyncRefused, SyncConfirmed, AckRefused, AckConfirmed,
       HashAckDamaged, HashRefused, HashConfirmed
  <2> QED
    BY <2>1, <2>2 DEF SenderStep, ReceiveFails, OpenFails, NextTransfer, SenderGone, senderVars,
       netVars
<1>3. \/ toListener' = toListener
      \/ \E p \in ListenerPackets :
           (p.ok => p.file = session') /\ toListener' = Append(toListener, p)
  <2>1. \A f : SyncPacket(f).file = f /\ HashPacket(f).file = f
    BY DEF SyncPacket, HashPacket
  <2>2. \A f, n : DataPacket(f, n).file = f
    BY DEF DataPacket
  <2>3. session \in Files
    BY DEF TypeInv, TypeOK, SenderTypeOK
  <2>4. CASE SendSync
    BY <2>1, <2>3, <2>4, PacketTypes DEF SendSync, SendTo, SendToFails
  <2>5. CASE SendHash
    BY <2>1, <2>3, <2>5, PacketTypes DEF SendHash, SendTo, SendToFails
  <2>6. CASE SendNewPacket
    <3>1. first_unsent_packet_n \in Nat /\ LastPacket \in Nat
      BY ConstantTypes DEF TypeInv, TypeOK, SenderTypeOK
    <3>2. first_unsent_packet_n \in PacketNs
      BY <2>6, <3>1 DEF SendNewPacket, TypeInv, NumberInv, PacketNs
    <3> QED
      BY <2>2, <2>3, <2>6, <3>2, PacketTypes DEF SendNewPacket, SendTo, SendToFails
  <2>7. CASE ResendPacket
    <3>1. unconfirmed_packets[i] \in PacketNs
      BY <2>7 DEF ResendPacket, Slots, TypeInv, TypeOK, SenderTypeOK
    <3> QED
      BY <2>2, <2>3, <2>7, <3>1, PacketTypes DEF ResendPacket, SendTo, SendToFails
  <2>8. ASSUME SenderRuns, ~SendSync, ~SendHash, ~SendNewPacket, ~ResendPacket
        PROVE  toListener' = toListener
    BY <2>8 DEF SenderRuns, SyncTimeout, StartRound, FinishData, SkipSlot, StartReceiving, EndRound,
       HashTimeout, netVars
  <2>9. ASSUME SenderReceives PROVE toListener' = toListener
    BY <2>9 DEF SenderReceives, SyncRefused, SyncConfirmed, AckRefused, AckConfirmed,
       HashAckDamaged, HashRefused, HashConfirmed, TakeAck
  <2> QED
    BY <2>4, <2>5, <2>6, <2>7, <2>8, <2>9 DEF SenderStep, ReceiveFails, OpenFails, NextTransfer,
       SenderGone, netVars
<1>4. toListener' = toListener => OrderKept(toListener', toListener)
  BY DEF OrderKept
<1> QED
  BY <1>1, <1>2, <1>3, <1>4, OrderStays

LEMMA OrderListener ==
  ASSUME TypeInv, TypeInv', OrderInv, InOrder, ListenerStep, UNCHANGED senderVars
  PROVE  OrderInv'
<1>0. /\ toListener \in Seq(ListenerPackets)
      /\ owner \in Nat /\ session \in Nat /\ session' = session
      /\ content \in [Blocks -> Files \cup {Hole}]
  BY DEF TypeInv, TypeOK, NetTypeOK, SenderTypeOK, ListenerTypeOK, Files, senderVars
<1>receive. ASSUME toListener # <<>>, toListener' = Tail(toListener)
            PROVE  /\ OrderKept(toListener', toListener)
                   /\ 1 \in DOMAIN toListener /\ Packet = toListener[1] /\ Packet \in ListenerPackets
                   /\ \A j \in DOMAIN toListener' :
                        j + 1 \in DOMAIN toListener /\ toListener'[j] = toListener[j + 1]
  BY <1>0, <1>receive, TailFacts, TailOrder DEF Packet
<1>1. CASE ReceiveSync
  <2>1. /\ toListener # <<>> /\ toListener' = Tail(toListener)
        /\ Packet.ok /\ Packet.type = "SYNC" /\ owner' = Packet.file /\ content' = EmptyFile
    BY <1>1 DEF ReceiveSync, Receive
  <2>2. Packet.file \in Nat
    BY <1>receive, <2>1, PacketFields DEF Files
  <2>3. /\ Packet.file <= session
        /\ \A k \in DOMAIN toListener :
             toListener[k].ok => Packet.file <= toListener[k].file /\ toListener[k].file <= session
    <3>1. \A k \in DOMAIN toListener : 1 <= k
      BY <1>0, LenProperties
    <3> QED
      BY <1>receive, <2>1, <3>1 DEF OrderInv
  <2>4. \A j, k \in DOMAIN toListener' :
          j <= k /\ toListener'[j].ok /\ toListener'[k].ok =>
            toListener'[j].file <= toListener'[k].file
    BY <1>receive, <2>1 DEF OrderInv, OrderKept
  <2>5. \A n \in Blocks : content'[n] = Hole
    BY <2>1 DEF EmptyFile
  <2> QED
    BY <1>0, <1>receive, <2>1, <2>2, <2>3, <2>4, <2>5 DEF OrderInv
<1>2. CASE ReceiveData
  <2>1. /\ toListener # <<>> /\ toListener' = Tail(toListener) /\ owner' = owner
        /\ Packet.ok
        /\ \A n \in Blocks : content'[n] = content[n] \/ content'[n] = Packet.file
    BY <1>2 DEF ReceiveData, Receive, WriteBlock
  <2>2. owner <= Packet.file
    BY <1>receive, <2>1 DEF OrderInv
  <2> QED
    BY <1>0, <1>receive, <2>1, <2>2, OrderStays
<1>3. CASE \/ ReceiveSyncOpenFails \/ ReceiveDataNoFile \/ ReceiveHash \/ ReceiveHashAgain
           \/ ReceiveHashNoFile \/ ReceiveDamaged \/ ReceiveUnknown \/ ListenerGone
  <2>1. /\ toListener # <<>> /\ toListener' = Tail(toListener)
        /\ owner' = owner /\ content' = content
    BY <1>3 DEF ReceiveSyncOpenFails, ReceiveDataNoFile, ReceiveHash, ReceiveHashAgain,
       ReceiveHashNoFile, ReceiveDamaged, ReceiveUnknown, ListenerGone, Receive, listenerVars, fileVars
  <2> QED
    BY <1>0, <1>receive, <2>1, OrderStays
<1>4. CASE ListenerReceiveFails
  <2>1. toListener' = toListener /\ owner' = owner /\ content' = content
    BY <1>4 DEF ListenerReceiveFails
  <2>2. OrderKept(toListener', toListener)
    BY <2>1 DEF OrderKept
  <2> QED
    BY <1>0, <2>1, <2>2, OrderStays
<1>5. CASE Restart
  <2>1. /\ owner' = owner
        /\ \A n \in Blocks : content'[n] \in {Hole, content[n]}
        /\ \E k \in 0 .. Len(toListener) : toListener' = SubSeq(toListener, k + 1, Len(toListener))
    BY <1>5 DEF Restart
  <2>2. OrderKept(toListener', toListener)
    BY <1>0, <2>1, SuffixOrder
  <2> QED
    BY <1>0, <2>1, <2>2, OrderStays
<1> QED
  BY <1>1, <1>2, <1>3, <1>4, <1>5 DEF ListenerStep, ListenerReceives

LEMMA OrderStep ==
  ASSUME TypeInv, OrderInv, [Next]_vars
  PROVE  OrderInv'
<1>0. SUFFICES ASSUME InOrder' PROVE OrderInv'
  BY DEF OrderInv
<1>before. InOrder /\ TypeInv'
  BY <1>0, InOrderBefore, TypeStep
<1>1. CASE SenderStep /\ UNCHANGED listenerVars
  BY <1>before, <1>1, OrderSender
<1>2. CASE ListenerStep /\ UNCHANGED senderVars
  BY <1>before, <1>2, OrderListener
<1>3. CASE NetworkStep /\ UNCHANGED <<senderVars, listenerVars>>
  <2>1. /\ toListener \in Seq(ListenerPackets)
        /\ owner' = owner /\ session' = session /\ content' = content
    BY <1>3 DEF senderVars, listenerVars, fileVars, TypeInv, TypeOK, NetTypeOK
  <2>2. OrderKept(toListener', toListener)
    <3>1. CASE Misbehave(toListener, toListener', ListenerTypes)
      BY <1>0, <2>1, <3>1, MisbehaveOrder DEF InOrder
    <3>2. CASE toListener' = toListener
      BY <3>2 DEF OrderKept
    <3> QED
      BY <1>3, <3>1, <3>2 DEF NetworkStep
  <2> QED
    BY <1>before, <2>1, <2>2, OrderStays
<1>4. CASE UNCHANGED vars
  BY <1>4 DEF vars, netVars, senderVars, listenerVars, fileVars, OrderInv, InOrder
<1> QED
  BY <1>1, <1>2, <1>3, <1>4 DEF Next, Idle

\* No block of an earlier transfer gets into a later file as long as the
\* network neither copies nor reorders (listener.c 118, 148-152).
THEOREM NoStaleBlocksCorrect == Spec => []NoStaleBlocks
<1>1. Init => OrderInv
  <2> SUFFICES ASSUME Init PROVE OrderInv
    OBVIOUS
  <2>1. /\ toListener = <<>> /\ owner = 0 /\ session = 1
        /\ content = EmptyFile
    BY DEF Init, NetInit, SenderInit, ListenerInit
  <2>2. DOMAIN toListener = {} /\ \A n \in Blocks : content[n] = Hole
    BY <2>1 DEF EmptyFile
  <2> QED
    BY <2>1, <2>2 DEF OrderInv
<1>2. OrderInv => NoStaleBlocks
  BY DEF OrderInv, NoStaleBlocks
<1>3. TypeInv /\ OrderInv /\ [Next]_vars => OrderInv'
  BY OrderStep
<1> QED
  BY <1>1, <1>2, <1>3, TypeInvariant, PTL DEF Spec

----------------------------------------------------------------------------
(* The last packet: nothing is left behind.                                *)

\* The flag of a packet, and of its confirmation, says whether it is the last.
DataFlag(p) == p.ok /\ p.type = "DATA" => p.last = AtEof(p.n)
AckFlag(a) == Confirms(a) /\ a.n # 0 => a.last = AtEof(a.n)

\* What makes NothingLeftBehind inductive: until its confirmation is seen, the
\* last packet waits in a slot.
LastInv ==
  /\ last_packet_n # 0 => AtEof(last_packet_n)
  /\ \A k \in DOMAIN toListener : DataFlag(toListener[k])
  /\ \A k \in DOMAIN toSender : AckFlag(toSender[k])
  /\ "sendfail" \notin faults.kinds /\ pc \in DataPhase /\ sending /\ last_packet_n # 0 =>
       \E s \in Slots : unconfirmed_packets[s] = last_packet_n

\* Whatever the network does, it invents nothing.
LEMMA MisbehaveNothingNew ==
  ASSUME NEW S, NEW chan \in Seq(S), NEW new, NEW types, Misbehave(chan, new, types)
  PROVE  NothingNew(new, chan)
<1>1. CASE Duplicate(chan, new)
  <2>1. PICK k \in DOMAIN chan : new = Append(chan, chan[k])
    BY <1>1 DEF Duplicate
  <2>2. chan[k] \in S
    BY LenProperties, ElementOfSeq
  <2> QED
    BY <2>1, <2>2, AppendFacts DEF NothingNew
<1>2. CASE Lose(chan, new)
  <2>1. PICK k \in DOMAIN chan : new = Without(chan, k)
    BY <1>2 DEF Lose
  <2>2. /\ new \in Seq(S) /\ Len(new) = Len(chan) - 1
        /\ \A m \in 1 .. Len(chan) - 1 : new[m] = chan[IF m < k THEN m ELSE m + 1]
    BY <2>1, WithoutFacts
  <2>3. DOMAIN new = 1 .. Len(chan) - 1 /\ DOMAIN chan = 1 .. Len(chan) /\ Len(chan) \in Nat
    BY <2>2, LenProperties
  <2> QED
    BY <2>2, <2>3 DEF NothingNew
<1>3. CASE Overtake(chan, new)
  <2>1. PICK k \in DOMAIN chan : new = Append(Without(chan, k), chan[k])
    BY <1>3 DEF Overtake
  <2> DEFINE rest == Without(chan, k)
  <2>2. /\ rest \in Seq(S) /\ Len(rest) = Len(chan) - 1
        /\ \A m \in 1 .. Len(chan) - 1 : rest[m] = chan[IF m < k THEN m ELSE m + 1]
    BY WithoutFacts
  <2>3. /\ DOMAIN rest = 1 .. Len(chan) - 1 /\ DOMAIN chan = 1 .. Len(chan)
        /\ Len(chan) \in Nat /\ chan[k] \in S
    BY <2>2, LenProperties, ElementOfSeq
  <2> HIDE DEF rest
  <2>4. /\ DOMAIN new = DOMAIN rest \cup {Len(rest) + 1}
        /\ \A m \in DOMAIN rest : new[m] = rest[m]
        /\ new[Len(rest) + 1] = chan[k]
    BY <2>1, <2>2, <2>3, AppendFacts DEF rest
  <2>5. \A m \in DOMAIN rest : \E j \in DOMAIN chan : new[m] = chan[j]
    BY <2>2, <2>3, <2>4
  <2> QED
    BY <2>4, <2>5 DEF NothingNew
<1>4. CASE Corrupt(chan, new, types)
  BY <1>4 DEF Corrupt, Damaged, NothingNew
<1> QED
  BY <1>1, <1>2, <1>3, <1>4 DEF Misbehave

\* What a step puts on its way to the listener.
LEMMA ToListenerChanges ==
  ASSUME TypeInv, [Next]_vars
  PROVE  \/ NothingNew(toListener', toListener)
         \/ \E p \in ListenerPackets : DataFlag(p) /\ toListener' = Append(toListener, p)
<1>0. toListener \in Seq(ListenerPackets)
  BY DEF TypeInv, TypeOK, NetTypeOK
<1>same. toListener' = toListener => NothingNew(toListener', toListener)
  BY SameIsKept
<1>tail. toListener # <<>> /\ toListener' = Tail(toListener) => NothingNew(toListener', toListener)
  BY <1>0, TailFacts, KeptIsNothingNew
<1>1. CASE SenderStep
  <2>1. session \in Files
    BY DEF TypeInv, TypeOK, SenderTypeOK
  <2>2. CASE SendSync \/ SendHash
    <3>1. /\ DataFlag(SyncPacket(session)) /\ SyncPacket(session) \in ListenerPackets
          /\ DataFlag(HashPacket(session)) /\ HashPacket(session) \in ListenerPackets
      BY <2>1, PacketTypes DEF DataFlag, SyncPacket, HashPacket
    <3> QED
      BY <1>same, <2>2, <3>1 DEF SendSync, SendHash, SendTo, SendToFails
  <2>3. ASSUME NEW n \in PacketNs
        PROVE  DataPacket(session, n) \in ListenerPackets /\ DataFlag(DataPacket(session, n))
    BY <2>1, PacketTypes DEF DataPacket, DataFlag
  <2>4. CASE SendNewPacket
    <3>1. first_unsent_packet_n \in Nat /\ LastPacket \in Nat
      BY ConstantTypes DEF TypeInv, TypeOK, SenderTypeOK
    <3>2. first_unsent_packet_n \in PacketNs
      BY <2>4, <3>1 DEF SendNewPacket, TypeInv, NumberInv, PacketNs
    <3> QED
      BY <1>same, <2>3, <2>4, <3>2 DEF SendNewPacket, SendTo, SendToFails
  <2>5. CASE ResendPacket
    <3>1. unconfirmed_packets[i] \in PacketNs
      BY <2>5 DEF ResendPacket, Slots, TypeInv, TypeOK, SenderTypeOK
    <3> QED
      BY <1>same, <2>3, <2>5, <3>1 DEF ResendPacket, SendTo, SendToFails
  <2>6. ASSUME SenderRuns, ~SendSync, ~SendHash, ~SendNewPacket, ~ResendPacket
        PROVE  toListener' = toListener
    BY <2>6 DEF SenderRuns, SyncTimeout, StartRound, FinishData, SkipSlot, StartReceiving, EndRound,
       HashTimeout, netVars
  <2>7. ASSUME SenderReceives PROVE toListener' = toListener
    BY <2>7 DEF SenderReceives, SyncRefused, SyncConfirmed, AckRefused, AckConfirmed,
       HashAckDamaged, HashRefused, HashConfirmed, TakeAck
  <2> QED
    BY <1>1, <1>same, <2>2, <2>4, <2>5, <2>6, <2>7
       DEF SenderStep, ReceiveFails, OpenFails, NextTransfer, SenderGone, netVars
<1>2. CASE ListenerStep
  <2>1. CASE ListenerReceives \/ ListenerGone
    BY <1>tail, <2>1 DEF ListenerReceives, ReceiveSync, ReceiveSyncOpenFails, ReceiveData,
       ReceiveDataNoFile, ReceiveHash, ReceiveHashAgain, ReceiveHashNoFile, ReceiveDamaged,
       ReceiveUnknown, ListenerGone, Receive
  <2>2. CASE ListenerReceiveFails
    BY <1>same, <2>2 DEF ListenerReceiveFails
  <2>3. CASE Restart
    <3>1. PICK k \in 0 .. Len(toListener) : toListener' = SubSeq(toListener, k + 1, Len(toListener))
      BY <2>3 DEF Restart
    <3>2. OrderKept(toListener', toListener)
      BY <1>0, <3>1, SuffixOrder
    <3>3. \A j \in DOMAIN toListener' : j <= j
      <4>1. toListener' \in Seq(ListenerPackets)
        BY TypeStep DEF TypeInv, TypeOK, NetTypeOK
      <4> QED
        BY <4>1, LenProperties
    <3> QED
      BY <3>2, <3>3 DEF OrderKept, NothingNew
  <2> QED
    BY <1>2, <2>1, <2>2, <2>3 DEF ListenerStep
<1>3. CASE NetworkStep
  BY <1>0, <1>3, <1>same, MisbehaveNothingNew DEF NetworkStep
<1>4. CASE UNCHANGED vars
  BY <1>4, <1>same DEF vars, netVars
<1> QED
  BY <1>1, <1>2, <1>3, <1>4 DEF Next, Idle

\* What a step puts on its way to the sender.
LEMMA ToSenderChanges ==
  ASSUME TypeInv, [Next]_vars, \A k \in DOMAIN toListener : DataFlag(toListener[k])
  PROVE  \/ NothingNew(toSender', toSender)
         \/ \E a \in SenderPackets : AckFlag(a) /\ toSender' = Append(toSender, a)
<1>0. toSender \in Seq(SenderPackets)
  BY DEF TypeInv, TypeOK, NetTypeOK
<1>same. toSender' = toSender => NothingNew(toSender', toSender)
  BY SameIsKept
<1>tail. toSender # <<>> /\ toSender' = Tail(toSender) => NothingNew(toSender', toSender)
  BY <1>0, TailFacts, KeptIsNothingNew
<1>1. CASE SenderStep
  <2>1. ASSUME SenderRuns PROVE toSender' = toSender
    BY <2>1 DEF SenderRuns, SendSync, SyncTimeout, StartRound, FinishData, SendNewPacket,
       ResendPacket, SkipSlot, StartReceiving, EndRound, SendHash, HashTimeout, netVars
  <2>2. ASSUME SenderReceives PROVE TakeAck
    BY <2>2 DEF SenderReceives, SyncRefused, SyncConfirmed, AckRefused, AckConfirmed,
       HashAckDamaged, HashRefused, HashConfirmed
  <2> QED
    BY <1>1, <1>same, <1>tail, <2>1, <2>2
       DEF SenderStep, TakeAck, ReceiveFails, OpenFails, NextTransfer, SenderGone, netVars
<1>2. CASE ListenerStep
  <2>1. \A state \in {CONFIRM_CODE, NEGATIVE_CODE} :
          /\ AckPacket(0, FALSE, state) \in SenderPackets
          /\ AckFlag(AckPacket(0, FALSE, state))
    BY PacketTypes, ConstantTypes DEF AckPacket, AckFlag
  <2>2. CASE ReceiveData \/ ReceiveDataNoFile
    <3>1. Receive /\ Packet.ok /\ Packet.type = "DATA"
      BY <2>2 DEF ReceiveData, ReceiveDataNoFile
    <3>2. Packet.n \in PacketNs /\ Packet.last \in BOOLEAN /\ Packet.last = AtEof(Packet.n)
      BY <3>1, ReceiveFacts, PacketFields DEF DataFlag
    <3> DEFINE a == AckPacket(Packet.n, Packet.last, CONFIRM_CODE)
    <3>3. a \in SenderPackets /\ AckFlag(a)
      BY <3>2, PacketTypes DEF AckPacket, AckFlag
    <3>4. toSender' = toSender \/ toSender' = Append(toSender, a)
      BY <2>2, <3>1, ReceiveFacts DEF ReceiveData, ReceiveDataNoFile
    <3> QED
      BY <1>same, <3>3, <3>4
  <2>3. CASE ListenerReceives /\ ~ReceiveData /\ ~ReceiveDataNoFile
    <3>1. Receive
      BY <2>3 DEF ListenerReceives, ReceiveSync, ReceiveSyncOpenFails, ReceiveHash,
         ReceiveHashAgain, ReceiveHashNoFile, ReceiveDamaged, ReceiveUnknown
    <3>2. \/ toSender' = toSender
          \/ \E state \in {CONFIRM_CODE, NEGATIVE_CODE} :
               toSender' = Append(toSender, AckPacket(0, FALSE, state))
      BY <2>3, <3>1, ReceiveFacts DEF ListenerReceives, ReceiveSync, ReceiveSyncOpenFails, ReceiveHash,
         ReceiveHashAgain, ReceiveHashNoFile, ReceiveDamaged, ReceiveUnknown
    <3> QED
      BY <1>same, <2>1, <3>2
  <2>4. CASE ListenerReceiveFails \/ Restart \/ ListenerGone
    BY <1>same, <2>4 DEF ListenerReceiveFails, Restart, ListenerGone
  <2> QED
    BY <1>2, <2>2, <2>3, <2>4 DEF ListenerStep
<1>3. CASE NetworkStep
  BY <1>0, <1>3, <1>same, MisbehaveNothingNew DEF NetworkStep
<1>4. CASE UNCHANGED vars
  BY <1>4, <1>same DEF vars, netVars
<1> QED
  BY <1>1, <1>2, <1>3, <1>4 DEF Next, Idle

\* The transfer of data begins with an empty window.
LEMMA DataPhaseEntered ==
  ASSUME [Next]_vars, pc' \in DataPhase
  PROVE  pc \in DataPhase \/ EnterData
<1>1. \A p \in {"sync_send", "sync_wait", "hash_send", "hash_wait", "done", "exited"} : p \notin DataPhase
  BY DEF DataPhase
<1>2. CASE SenderRuns
  BY <1>1, <1>2 DEF SenderRuns, SendSync, SyncTimeout, StartRound, FinishData, SendNewPacket,
     ResendPacket, SkipSlot, StartReceiving, EndRound, SendHash, HashTimeout, DataPhase
<1>3. CASE SenderReceives
  BY <1>1, <1>3 DEF SenderReceives, SyncRefused, SyncConfirmed, AckRefused, AckConfirmed,
     HashAckDamaged, HashRefused, HashConfirmed, DataPhase
<1>4. CASE ReceiveFails \/ OpenFails \/ NextTransfer \/ SenderGone
  BY <1>1, <1>4 DEF ReceiveFails, OpenFails, NextTransfer, SenderGone, senderVars
<1>5. CASE UNCHANGED senderVars
  BY <1>5 DEF senderVars
<1> QED
  BY <1>2, <1>3, <1>4, <1>5 DEF Next, Idle, vars, SenderStep

LEMMA LastStep ==
  ASSUME TypeInv, LastInv, [Next]_vars
  PROVE  LastInv'
<1>0. /\ toListener \in Seq(ListenerPackets) /\ toSender \in Seq(SenderPackets)
      /\ unconfirmed_packets \in [Slots -> PacketNs \cup {None}]
  BY DEF TypeInv, TypeOK, NetTypeOK, SenderTypeOK
<1>1. \A k \in DOMAIN toListener' : DataFlag(toListener'[k])
  <2>1. \A k \in DOMAIN toListener : DataFlag(toListener[k])
    BY DEF LastInv
  <2>2. CASE NothingNew(toListener', toListener)
    BY <2>1, <2>2 DEF NothingNew, DataFlag
  <2>3. ASSUME NEW p \in ListenerPackets, DataFlag(p), toListener' = Append(toListener, p)
        PROVE  \A k \in DOMAIN toListener' : DataFlag(toListener'[k])
    BY <1>0, <2>1, <2>3, AppendFacts
  <2> QED
    BY <2>2, <2>3, ToListenerChanges
<1>2. \A k \in DOMAIN toSender' : AckFlag(toSender'[k])
  <2>1. /\ \A k \in DOMAIN toSender : AckFlag(toSender[k])
        /\ \A k \in DOMAIN toListener : DataFlag(toListener[k])
    BY DEF LastInv
  <2>2. CASE NothingNew(toSender', toSender)
    BY <2>1, <2>2 DEF NothingNew, AckFlag, Confirms
  <2>3. ASSUME NEW a \in SenderPackets, AckFlag(a), toSender' = Append(toSender, a)
        PROVE  \A k \in DOMAIN toSender' : AckFlag(toSender'[k])
    BY <1>0, <2>1, <2>3, AppendFacts
  <2> QED
    BY <2>1, <2>2, <2>3, ToSenderChanges
<1> DEFINE Waits == \E s \in Slots : unconfirmed_packets[s] = last_packet_n
<1>3. /\ last_packet_n' # 0 => AtEof(last_packet_n')
      /\ "sendfail" \notin faults'.kinds /\ pc' \in DataPhase /\ sending' /\ last_packet_n' # 0 => Waits'
  <2>1. CASE EnterData \/ NextTransfer
    BY <2>1 DEF EnterData, NextTransfer
  <2> SUFFICES ASSUME ~EnterData PROVE <1>3!:
    BY <2>1
  <2>2. CASE UNCHANGED windowVars
    <3>1. "sendfail" \notin faults'.kinds => "sendfail" \notin faults.kinds
      BY FaultsStay
    <3>2. UNCHANGED <<unconfirmed_packets, last_packet_n, sending>>
      BY <2>2 DEF windowVars
    <3> QED
      BY <3>1, <3>2, DataPhaseEntered DEF LastInv
  <2>3. CASE SendNewPacket
    <3> DEFINE n == first_unsent_packet_n
    <3>1. /\ last_packet_n = 0 /\ i \in Slots
          /\ last_packet_n' = IF AtEof(n) THEN n ELSE last_packet_n
          /\ \/ unconfirmed_packets' = [unconfirmed_packets EXCEPT ![i] = n]
             \/ Fault("sendfail")
      BY <2>3 DEF SendNewPacket, SendToFails, Slots, TypeInv, TypeOK, SenderTypeOK
    <3>2. Fault("sendfail") => "sendfail" \in faults'.kinds
      BY DEF Fault
    <3> QED
      BY <1>0, <3>1, <3>2
  <2>4. CASE AckConfirmed
    <3>1. /\ TakeAck /\ Confirms(Ack) /\ pc \in DataPhase
          /\ sending' = (sending /\ ~Ack.last)
          /\ last_packet_n' = last_packet_n /\ faults' = faults
          /\ \A s \in Slots : unconfirmed_packets'[s] =
               IF unconfirmed_packets[s] = Ack.n THEN None ELSE unconfirmed_packets[s]
      BY <2>4 DEF AckConfirmed, TakeAck, DataPhase
    <3>2. AckFlag(Ack)
      BY <1>0, <3>1, TailFacts DEF TakeAck, Ack, LastInv
    <3>3. last_packet_n # 0 => AtEof(last_packet_n)
      BY DEF LastInv
    <3>4. last_packet_n # 0 /\ sending' => Ack.n # last_packet_n
      BY <3>1, <3>2, <3>3 DEF AckFlag
    <3> QED
      BY <3>1, <3>3, <3>4 DEF LastInv
  <2> QED
    BY <2>1, <2>2, <2>3, <2>4, WindowChanges
<1> QED
  BY <1>1, <1>2, <1>3 DEF LastInv

\* Until a call to send fails the sender has a packet left to send, or one that
\* waits, or has seen the ACK of the last one: its loop never spins (sender.c
\* 246-279).
THEOREM NothingIsLeftBehind == Spec => []NothingLeftBehind
<1>1. Init => LastInv
  <2> SUFFICES ASSUME Init PROVE LastInv
    OBVIOUS
  <2>1. toListener = <<>> /\ toSender = <<>> /\ last_packet_n = 0
    BY DEF Init, NetInit, SenderInit
  <2>2. DOMAIN toListener = {} /\ DOMAIN toSender = {}
    BY <2>1
  <2> QED
    BY <2>1, <2>2 DEF LastInv
<1>2. TypeInv /\ LastInv => NothingLeftBehind
  BY ConstantTypes DEF LastInv, NothingLeftBehind, AllConfirmed, DataPhase, None, TypeInv, TypeOK,
     SenderTypeOK, PacketNs
<1>3. TypeInv /\ LastInv /\ [Next]_vars => LastInv'
  BY LastStep
<1> QED
  BY <1>1, <1>2, <1>3, TypeInvariant, PTL DEF Spec

=============================================================================

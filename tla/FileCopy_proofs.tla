-------------------------- MODULE FileCopy_proofs ---------------------------
(***************************************************************************)
(* The transfer of one file when timers outlast the network, nothing is    *)
(* copied and neither side is started again.  Each round of the window     *)
(* takes all its answers in; therefore a success means a saved file        *)
(* (SuccessIsSaved), and the transfer implements FileCopy (TransferIsCopy).*)
(***************************************************************************)
EXTENDS FileTransfer_proofs

\* Timers outlast the network, nothing is copied and neither side is started
\* again.
Prompt ==
  /\ MaxSessions = 1
  /\ Faults \cap {"duplicate", "restart", "delay"} = {}

\* A window of one packet, or of two and a file that needs two.
SmallWindow == WindowSize <= 1 \/ (WindowSize = 2 /\ LastPacket >= 1)

LEMMA PromptFacts ==
  ASSUME Prompt, TypeInv
  PROVE  /\ session = 1 /\ Files = {1} /\ NoCopies /\ Patient /\ SafeOpening
         /\ \A kind \in {"duplicate", "restart", "delay"} : ~Fault(kind)
<1>1. session = 1 /\ Files = {1}
  BY DEF Prompt, Files, TypeInv, TypeOK, SenderTypeOK
<1>2. faults.kinds \subseteq Faults
  BY DEF TypeInv, TypeOK, NetTypeOK, FaultCounts
<1>3. NoCopies /\ Patient
  BY <1>2 DEF Prompt, NoCopies, Patient
<1>4. \A kind \in {"duplicate", "restart", "delay"} : ~Fault(kind)
  BY DEF Fault, Prompt
<1> QED
  BY <1>1, <1>3, <1>4 DEF SafeOpening

LEMMA PromptStays ==
  ASSUME Prompt, TypeInv'
  PROVE  session' = 1 /\ NoCopies' /\ Patient'
<1>1. session' = 1
  BY DEF Prompt, Files, TypeInv, TypeOK, SenderTypeOK
<1>2. faults'.kinds \subseteq Faults
  BY DEF TypeInv, TypeOK, NetTypeOK, FaultCounts
<1> QED
  BY <1>1, <1>2 DEF Prompt, NoCopies, Patient

----------------------------------------------------------------------------
(* Rounds: how much is on its way, and where the "last packet" flag is.     *)

\* The datagrams on their way, and the packets that wait.
Out == Len(toListener) + Len(toSender)
Used(s) == IF s \in Slots /\ unconfirmed_packets[s] # None THEN 1 ELSE 0
Waiting == Used(1) + Used(2)
SentInRound == (IF i > 1 THEN Used(1) ELSE 0) + (IF i > 2 THEN Used(2) ELSE 0)

\* What an earlier round may leave on its way: nothing until the ACK of the
\* last packet, which cuts its round short.
Left == IF sending THEN 0 ELSE Waiting

OutInv ==
  /\ pc = "check" => Out <= Left
  /\ pc = "send" => Out <= Left + SentInRound
  /\ pc = "recv" => Out <= WindowSize - i + 1 /\ (sending /\ i = 1 => Out <= Waiting)
  /\ pc = "hash_send" => Out = 0
  /\ pc = "hash_wait" => Out <= 1

\* No answer is left to be taken for the answer to a HASH.
HashOut ==
  /\ pc = "hash_send" => Out = 0
  /\ pc = "hash_wait" => Out <= 1

\* The "last packet" flag on its way, to the listener and back.
FlagOut(p) == p.ok /\ p.type = "DATA" /\ p.last
FlagBack(a) == Confirms(a) /\ a.last
Flagged(n) ==
  \/ \E k \in DOMAIN toListener : FlagOut(toListener[k]) /\ toListener[k].n = n
  \/ \E k \in DOMAIN toSender : FlagBack(toSender[k]) /\ toSender[k].n = n
NoFlag == \A n \in PacketNs : ~Flagged(n)
OneFlag ==
  /\ \A j, k \in DOMAIN toListener : FlagOut(toListener[j]) /\ FlagOut(toListener[k]) => j = k
  /\ \A j, k \in DOMAIN toSender : FlagBack(toSender[j]) /\ FlagBack(toSender[k]) => j = k
  /\ \A j \in DOMAIN toListener, k \in DOMAIN toSender :
       ~(FlagOut(toListener[j]) /\ FlagBack(toSender[k]))

\* One packet with the flag at most is on its way, and it still waits in its
\* slot: this round has sent it.
Waits(n) == \E s \in Slots : unconfirmed_packets[s] = n /\ (pc = "send" => s < i)
FlagInv ==
  pc \in DataPhase =>
    /\ OneFlag
    /\ \A n \in PacketNs : Flagged(n) => sending /\ AtEof(n) /\ Waits(n)

\* The last packet has a number of its own, or the window has room for no other.
LastNumber ==
  LastPacket >= 1 =>
    /\ first_unsent_packet_n <= LastPacket + 1
    /\ first_unsent_packet_n = LastPacket + 1 => last_packet_n # 0

\* Once its ACK was seen, its slot stays free.
ClosingInv ==
  pc \in DataPhase /\ ~sending =>
    /\ first_unsent_packet_n > LastPacket
    /\ WindowSize = 1 \/ last_packet_n # 0
    /\ \E s \in Slots : unconfirmed_packets[s] = None
    /\ \A s \in Slots : unconfirmed_packets[s] < LastPacket
    /\ pc = "send" => ~AllConfirmed

RoundInv == OutInv /\ FlagInv /\ LastNumber /\ ClosingInv

LEMMA WindowFacts ==
  ASSUME SmallWindow, TypeInv
  PROVE  /\ WindowSize \in {0, 1, 2} /\ Slots \subseteq {1, 2}
         /\ WindowSize = 1 => Slots = {1}
         /\ WindowSize = 2 => Slots = {1, 2} /\ LastPacket >= 1
         /\ i \in 1 .. WindowSize + 1
         /\ first_unsent_packet_n \in Nat /\ LastPacket \in Nat /\ last_packet_n \in Nat
         /\ unconfirmed_packets \in [Slots -> PacketNs \cup {None}]
         /\ Len(toListener) \in Nat /\ Len(toSender) \in Nat
         /\ toListener \in Seq(ListenerPackets) /\ toSender \in Seq(SenderPackets)
         /\ sending \in BOOLEAN
<1>1. WindowSize \in {0, 1, 2}
  BY ConstantTypes DEF SmallWindow
<1>2. /\ i \in 1 .. WindowSize + 1
      /\ first_unsent_packet_n \in Nat /\ LastPacket \in Nat /\ last_packet_n \in Nat
      /\ unconfirmed_packets \in [Slots -> PacketNs \cup {None}]
      /\ sending \in BOOLEAN
  BY ConstantTypes DEF TypeInv, TypeOK, SenderTypeOK, PacketNs
<1>3. /\ toListener \in Seq(ListenerPackets) /\ toSender \in Seq(SenderPackets)
      /\ Len(toListener) \in Nat /\ Len(toSender) \in Nat
  BY LenProperties DEF TypeInv, TypeOK, NetTypeOK
<1>4. /\ Slots \subseteq {1, 2}
      /\ WindowSize = 1 => Slots = {1}
      /\ WindowSize = 2 => Slots = {1, 2} /\ LastPacket >= 1
  BY <1>1 DEF Slots, SmallWindow
<1> QED
  BY <1>1, <1>2, <1>3, <1>4

----------------------------------------------------------------------------
(* The flag.                                                               *)

LEMMA KeptFlags ==
  ASSUME Kept(toListener', toListener), Kept(toSender', toSender)
  PROVE  /\ \A n \in PacketNs : Flagged(n)' => Flagged(n)
         /\ OneFlag => OneFlag'
<1>1. \A n \in PacketNs : Flagged(n)' => Flagged(n)
  BY DEF Kept, Flagged, FlagOut, FlagBack, Confirms
<1>2. ASSUME OneFlag, NEW j \in DOMAIN toListener', NEW k \in DOMAIN toListener',
             FlagOut(toListener'[j]), FlagOut(toListener'[k])
      PROVE  j = k
  BY <1>2 DEF Kept, OneFlag, FlagOut
<1>3. ASSUME OneFlag, NEW j \in DOMAIN toSender', NEW k \in DOMAIN toSender',
             FlagBack(toSender'[j]), FlagBack(toSender'[k])
      PROVE  j = k
  BY <1>3 DEF Kept, OneFlag, FlagBack, Confirms
<1>4. ASSUME OneFlag, NEW j \in DOMAIN toListener', NEW k \in DOMAIN toSender',
             FlagOut(toListener'[j]), FlagBack(toSender'[k])
      PROVE  FALSE
  BY <1>4 DEF Kept, OneFlag, FlagOut, FlagBack, Confirms
<1> QED
  BY <1>1, <1>2, <1>3, <1>4 DEF OneFlag

\* The sender sends a packet.
LEMMA SentFlags ==
  ASSUME TypeInv, NEW p \in ListenerPackets,
         toListener' = Append(toListener, p), toSender' = toSender
  PROVE  /\ \A n \in PacketNs : Flagged(n)' => Flagged(n) \/ (FlagOut(p) /\ p.n = n)
         /\ OneFlag /\ (FlagOut(p) => NoFlag) => OneFlag'
<1>1. toListener \in Seq(ListenerPackets) /\ toSender \in Seq(SenderPackets)
  BY DEF TypeInv, TypeOK, NetTypeOK
<1> DEFINE new == Len(toListener) + 1
<1>2. /\ DOMAIN toListener' = DOMAIN toListener \cup {new}
      /\ \A j \in DOMAIN toListener : toListener'[j] = toListener[j]
      /\ toListener'[new] = p
  BY <1>1, AppendFacts
<1> HIDE DEF new
<1>3. \A n \in PacketNs : Flagged(n)' => Flagged(n) \/ (FlagOut(p) /\ p.n = n)
  BY <1>2 DEF Flagged
<1>4. ASSUME OneFlag, FlagOut(p) => NoFlag PROVE OneFlag'
  <2>1. CASE ~FlagOut(p)
    BY <1>2, <1>4, <2>1 DEF OneFlag
  <2>2. CASE FlagOut(p)
    <3>1. \A k \in DOMAIN toListener : FlagOut(toListener[k]) => toListener[k].n \in PacketNs
      BY <1>1, LenProperties, ElementOfSeq, PacketFields DEF FlagOut
    <3>2. \A k \in DOMAIN toSender : FlagBack(toSender[k]) => toSender[k].n \in PacketNs
      BY <1>1, LenProperties, ElementOfSeq, PacketFields DEF FlagBack, Confirms
    <3>3. /\ \A k \in DOMAIN toListener : ~FlagOut(toListener[k])
          /\ \A k \in DOMAIN toSender : ~FlagBack(toSender[k])
      BY <1>4, <2>2, <3>1, <3>2 DEF NoFlag, Flagged
    <3> QED
      BY <1>2, <3>3 DEF OneFlag
  <2> QED
    BY <2>1, <2>2
<1> QED
  BY <1>3, <1>4

\* The listener answers a packet.
LEMMA AnsweredFlags ==
  ASSUME TypeInv, Receive, NEW a \in SenderPackets, toSender' = Append(toSender, a),
         FlagBack(a) => FlagOut(Packet) /\ a.n = Packet.n
  PROVE  /\ \A n \in PacketNs : Flagged(n)' => Flagged(n)
         /\ OneFlag => OneFlag'
<1>1. toListener \in Seq(ListenerPackets) /\ toSender \in Seq(SenderPackets)
  BY DEF TypeInv, TypeOK, NetTypeOK
<1>2. /\ 1 \in DOMAIN toListener /\ Packet = toListener[1]
      /\ \A j \in DOMAIN toListener' : j + 1 \in DOMAIN toListener /\ toListener'[j] = toListener[j + 1]
      /\ Kept(toListener', toListener)
  BY <1>1, TailFacts DEF Receive, Packet
<1> DEFINE new == Len(toSender) + 1
<1>3. /\ DOMAIN toSender' = DOMAIN toSender \cup {new}
      /\ \A j \in DOMAIN toSender : toSender'[j] = toSender[j]
      /\ toSender'[new] = a
  BY <1>1, AppendFacts
<1> HIDE DEF new
<1>4. \A n \in PacketNs : Flagged(n)' => Flagged(n)
  BY <1>2, <1>3 DEF Flagged
<1>5. ASSUME OneFlag PROVE OneFlag'
  <2>1. \A j \in DOMAIN toListener' : j \in Nat \ {0}
    <3>1. toListener' \in Seq(ListenerPackets)
      BY <1>1, TailFacts DEF Receive
    <3> QED
      BY <3>1, LenProperties
  <2>2. \A j, k \in DOMAIN toListener' : FlagOut(toListener'[j]) /\ FlagOut(toListener'[k]) => j = k
    <3>1. ASSUME NEW j \in DOMAIN toListener', NEW k \in DOMAIN toListener',
                 FlagOut(toListener'[j]), FlagOut(toListener'[k])
          PROVE  j = k
      <4>1. j + 1 = k + 1
        BY <1>2, <1>5, <3>1 DEF OneFlag
      <4> QED
        BY <2>1, <4>1
    <3> QED
      BY <3>1
  <2>3. CASE ~FlagBack(a)
    BY <1>2, <1>3, <1>5, <2>2, <2>3 DEF OneFlag
  <2>4. CASE FlagBack(a)
    <3>1. FlagOut(toListener[1])
      BY <1>2, <2>4
    <3>2. \A k \in DOMAIN toSender : ~FlagBack(toSender[k])
      BY <1>2, <1>5, <3>1 DEF OneFlag
    <3>3. ASSUME NEW j \in DOMAIN toListener', FlagOut(toListener'[j]) PROVE FALSE
      <4>1. j + 1 = 1
        BY <1>2, <1>5, <3>1, <3>3 DEF OneFlag
      <4> QED
        BY <2>1, <4>1
    <3> QED
      BY <1>3, <2>2, <3>2, <3>3 DEF OneFlag
  <2> QED
    BY <2>3, <2>4
<1> QED
  BY <1>4, <1>5

\* The sender takes the ACK with the flag: there is no other.
LEMMA TakenFlag ==
  ASSUME TypeInv, TakeAck, FlagBack(Ack), OneFlag
  PROVE  NoFlag'
<1>1. toSender \in Seq(SenderPackets)
  BY DEF TypeInv, TypeOK, NetTypeOK
<1>2. /\ 1 \in DOMAIN toSender /\ Ack = toSender[1]
      /\ \A j \in DOMAIN toSender' : j + 1 \in DOMAIN toSender /\ toSender'[j] = toSender[j + 1]
      /\ toSender' \in Seq(SenderPackets)
      /\ toListener' = toListener
  BY <1>1, TailFacts DEF TakeAck, Ack
<1>3. \A j \in DOMAIN toSender' : j + 1 # 1
  BY <1>2, LenProperties
<1>4. \A j \in DOMAIN toSender' : ~FlagBack(toSender'[j])
  BY <1>2, <1>3 DEF OneFlag
<1>5. \A j \in DOMAIN toListener' : ~FlagOut(toListener'[j])
  BY <1>2 DEF OneFlag
<1> QED
  BY <1>4, <1>5 DEF NoFlag, Flagged

\* With nothing on its way there is no flag.
LEMMA NothingOut ==
  ASSUME TypeInv, Out <= 0
  PROVE  /\ toListener = <<>> /\ toSender = <<>>
         /\ DOMAIN toListener = {} /\ DOMAIN toSender = {}
         /\ NoFlag /\ OneFlag
<1>1. toListener \in Seq(ListenerPackets) /\ toSender \in Seq(SenderPackets)
  BY DEF TypeInv, TypeOK, NetTypeOK
<1>2. Len(toListener) = 0 /\ Len(toSender) = 0
  BY <1>1, LenProperties DEF Out
<1>3. toListener = <<>> /\ toSender = <<>>
  BY <1>1, <1>2, EmptySeq
<1>4. DOMAIN toListener = {} /\ DOMAIN toSender = {}
  BY <1>3
<1> QED
  BY <1>3, <1>4 DEF NoFlag, OneFlag, Flagged

----------------------------------------------------------------------------
(* Rounds: the sender.                                                     *)

\* What the sender's system calls do to the number of datagrams out.
LEMMA OutChanges ==
  ASSUME TypeInv, Patient'
  PROVE  /\ Out \in Nat
         /\ \A p : SendTo(p) /\ UNCHANGED toSender => Out' = Out + 1
         /\ TakeAck => Out' = Out - 1
         /\ UNCHANGED <<toListener, toSender>> => Out' = Out
         /\ SelectTimesOut /\ UNCHANGED <<toListener, toSender>> => Out' = 0
<1>1. /\ toListener \in Seq(ListenerPackets) /\ toSender \in Seq(SenderPackets)
      /\ Len(toListener) \in Nat /\ Len(toSender) \in Nat
  BY LenProperties DEF TypeInv, TypeOK, NetTypeOK
<1>2. ASSUME NEW p, SendTo(p), UNCHANGED toSender PROVE Out' = Out + 1
  <2>1. Len(Append(toListener, p)) = Len(toListener) + 1
    BY <1>1
  <2> QED
    BY <1>1, <1>2, <2>1 DEF SendTo, Out
<1>3. ASSUME TakeAck PROVE Out' = Out - 1
  <2>1. Len(Tail(toSender)) = Len(toSender) - 1
    BY <1>1, <1>3, HeadTailProperties DEF TakeAck
  <2> QED
    BY <1>1, <1>3, <2>1 DEF TakeAck, Out
<1>4. ASSUME SelectTimesOut, UNCHANGED <<toListener, toSender>> PROVE Out' = 0
  <2>1. ~Fault("delay")
    BY DEF Fault, Patient
  <2> QED
    BY <1>4, <2>1 DEF SelectTimesOut, Out
<1> QED
  BY <1>1, <1>2, <1>3, <1>4 DEF Out

\* A pass begins with nothing on its way.
LEMMA RoundEntered ==
  ASSUME TypeInv', EnterData, Out' = 0
  PROVE  RoundInv'
<1>1. NoFlag' /\ OneFlag'
  <2>1. /\ toListener' \in Seq(ListenerPackets) /\ toSender' \in Seq(SenderPackets)
        /\ Len(toListener') \in Nat /\ Len(toSender') \in Nat
    BY LenProperties DEF TypeInv, TypeOK, NetTypeOK
  <2>2. DOMAIN toListener' = {} /\ DOMAIN toSender' = {}
    BY <2>1, LenProperties DEF Out
  <2> QED
    BY <2>2 DEF NoFlag, OneFlag, Flagged
<1>2. /\ pc' = "check" /\ i' = 1 /\ sending' = TRUE /\ first_unsent_packet_n' = 0
  BY DEF EnterData
<1>3. OutInv'
  BY <1>2 DEF OutInv, Left
<1>4. FlagInv'
  BY <1>1 DEF FlagInv, NoFlag
<1>5. LastNumber' /\ ClosingInv'
  BY <1>2, ConstantTypes DEF LastNumber, ClosingInv
<1> QED
  BY <1>3, <1>4, <1>5 DEF RoundInv

\* The sender sends the packet that is in slot i from now on.
LEMMA SlotSent ==
  ASSUME SmallWindow, Patient', TypeInv, TypeInv', OutInv, FlagInv, NEW n \in PacketNs,
         pc = "send", pc' = "send", i \in Slots, i' = i + 1, sending' = sending,
         toListener' = Append(toListener, DataPacket(session, n)), toSender' = toSender,
         \A s \in Slots : unconfirmed_packets'[s] = IF s = i THEN n ELSE unconfirmed_packets[s],
         sending \/ unconfirmed_packets[i] = n,
         AtEof(n) => sending /\ NoFlag
  PROVE  OutInv' /\ FlagInv'
<1>types. Slots \subseteq {1, 2} /\ n # None /\ 1 # 2
  BY WindowFacts, ConstantTypes DEF PacketNs, None
<1>0. pc \in DataPhase /\ pc' \in DataPhase
  BY DEF DataPhase
<1>1. Out \in Nat /\ Out' = Out + 1
  BY OutChanges DEF Out, SendTo
<1>2. SentInRound' = SentInRound + 1 /\ Left' = Left /\ SentInRound \in Nat /\ Left \in Nat
  <2>1. Used(1) \in {0, 1} /\ Used(2) \in {0, 1}
    BY DEF Used
  <2>3. CASE i = 1
    <3>1. /\ Used(1)' = 1 /\ Used(2)' = Used(2)
          /\ unconfirmed_packets[i] = n => Used(1) = 1
      BY <1>types, <2>3 DEF Used
    <3>2. SentInRound = 0 /\ SentInRound' = 1
      BY <2>3, <3>1 DEF SentInRound
    <3>3. Left \in Nat /\ Left' = Left
      BY <2>1, <3>1 DEF Left, Waiting
    <3> QED
      BY <3>2, <3>3
  <2>4. CASE i = 2
    <3>1. /\ Used(2)' = 1 /\ Used(1)' = Used(1)
          /\ unconfirmed_packets[i] = n => Used(2) = 1
      BY <1>types, <2>4 DEF Used
    <3>2. SentInRound = Used(1) /\ SentInRound' = Used(1) + 1
      BY <2>1, <2>4, <3>1 DEF SentInRound
    <3>3. Left \in Nat /\ Left' = Left
      BY <2>1, <3>1 DEF Left, Waiting
    <3> QED
      BY <2>1, <3>2, <3>3
  <2> QED
    BY <1>types, <2>3, <2>4
<1>3. OutInv'
  <2>1. Out <= Left + SentInRound
    BY DEF OutInv
  <2>2. Out' <= Left' + SentInRound'
    BY <1>1, <1>2, <2>1
  <2> QED
    BY <2>2 DEF OutInv
<1>4. FlagInv'
  <2> DEFINE p == DataPacket(session, n)
  <2>1. p \in ListenerPackets /\ p.n = n /\ (FlagOut(p) <=> AtEof(n))
    BY PacketTypes DEF DataPacket, FlagOut, TypeInv, TypeOK, SenderTypeOK
  <2> HIDE DEF p
  <2>2. /\ \A m \in PacketNs : Flagged(m)' => Flagged(m) \/ (AtEof(n) /\ m = n)
        /\ OneFlag'
    BY <1>0, <2>1, SentFlags DEF p, FlagInv
  <2>3. Waits(n)'
    BY <1>types, i \in Slots, i \in Nat DEF Waits
  <2>4. ASSUME NEW m \in PacketNs, Waits(m) PROVE Waits(m)'
    <3>1. PICK s \in Slots : unconfirmed_packets[s] = m /\ s < i
      BY <2>4 DEF Waits
    <3>2. s # i /\ s < i + 1
      BY <1>types, <3>1
    <3> QED
      BY <3>1, <3>2 DEF Waits
  <2>5. ASSUME NEW m \in PacketNs, Flagged(m)' PROVE sending' /\ AtEof(m) /\ Waits(m)'
    <3>1. CASE Flagged(m)
      BY <1>0, <2>4, <3>1 DEF FlagInv
    <3>2. CASE AtEof(n) /\ m = n
      BY <2>3, <3>2
    <3> QED
      BY <2>2, <2>5, <3>1, <3>2
  <2> QED
    BY <2>2, <2>5 DEF FlagInv, AtEof
<1> QED
  BY <1>3, <1>4

\* The sender passes slot i, or its call to send fails.
LEMMA SlotPassed ==
  ASSUME SmallWindow, Patient', TypeInv, TypeInv', OutInv, FlagInv,
         pc = "send", pc' = "send", i \in Slots, i' = i + 1,
         UNCHANGED <<sending, unconfirmed_packets, toListener, toSender>>
  PROVE  OutInv' /\ FlagInv'
<1>types. Slots \subseteq {1, 2}
  BY WindowFacts
<1>0. pc \in DataPhase /\ pc' \in DataPhase
  BY DEF DataPhase
<1>1. PICK o \in Nat : Out = o /\ Out' = o
  BY OutChanges
<1>2. PICK l \in Nat, a \in Nat, b \in Nat :
        Left = l /\ Left' = l /\ SentInRound = a /\ SentInRound' = b /\ a <= b
  <2>1. /\ Used(1)' = Used(1) /\ Used(2)' = Used(2)
        /\ Used(1) \in {0, 1} /\ Used(2) \in {0, 1}
    BY DEF Used
  <2>2. CASE i = 1
    BY <2>1, <2>2 DEF SentInRound, Left, Waiting
  <2>3. CASE i = 2
    BY <2>1, <2>3 DEF SentInRound, Left, Waiting
  <2> QED
    BY <1>types, <2>2, <2>3
<1>3. OutInv'
  <2>1. o <= l + a
    BY <1>1, <1>2 DEF OutInv
  <2>2. o <= l + b
    BY <1>2, <2>1
  <2> QED
    BY <1>1, <1>2, <2>2 DEF OutInv
<1>4. FlagInv'
  <2>1. (\A n \in PacketNs : Flagged(n)' => Flagged(n)) /\ OneFlag'
    BY <1>0, SameIsKept, KeptFlags DEF FlagInv
  <2>2. ASSUME NEW m \in PacketNs, Waits(m) PROVE Waits(m)'
    <3>1. PICK s \in Slots : unconfirmed_packets[s] = m /\ s < i
      BY <2>2 DEF Waits
    <3>2. s < i + 1
      BY <1>types, <3>1
    <3> QED
      BY <3>1, <3>2 DEF Waits
  <2> QED
    BY <1>0, <2>1, <2>2 DEF FlagInv
<1> QED
  BY <1>3, <1>4

LEMMA RoundSend ==
  ASSUME Prompt, SmallWindow, TypeInv, TypeInv', WindowInv, RoundInv,
         SendNewPacket \/ ResendPacket \/ SkipSlot
  PROVE  RoundInv'
<1>types. /\ WindowSize \in {0, 1, 2} /\ Slots \subseteq {1, 2}
          /\ WindowSize = 1 => Slots = {1}
          /\ WindowSize = 2 => Slots = {1, 2} /\ LastPacket >= 1
          /\ i \in 1 .. WindowSize + 1
          /\ first_unsent_packet_n \in Nat /\ LastPacket \in Nat /\ last_packet_n \in Nat
          /\ unconfirmed_packets \in [Slots -> PacketNs \cup {None}]
          /\ sending \in BOOLEAN
  BY WindowFacts
<1>patient. Patient'
  BY PromptStays
<1>0. /\ OutInv /\ FlagInv /\ LastNumber /\ ClosingInv
      /\ pc = "send" /\ pc' = "send" /\ pc \in DataPhase /\ pc' \in DataPhase
      /\ i \in Slots /\ i' = i + 1 /\ sending' = sending
      /\ toSender' = toSender /\ session' = session
  BY <1>types DEF RoundInv, SendNewPacket, ResendPacket, SkipSlot, DataPhase, Slots, netVars, windowVars
<1>1. CASE SendNewPacket
  <2> DEFINE n == first_unsent_packet_n
  <2>1. /\ last_packet_n = 0 /\ unconfirmed_packets[i] = None
        /\ last_packet_n' = IF AtEof(n) THEN n ELSE last_packet_n
        /\ \/ /\ toListener' = Append(toListener, DataPacket(session, n))
              /\ unconfirmed_packets' = [unconfirmed_packets EXCEPT ![i] = n]
              /\ first_unsent_packet_n' = n + 1
           \/ UNCHANGED <<toListener, unconfirmed_packets, first_unsent_packet_n>>
    BY <1>1 DEF SendNewPacket, SendTo, SendToFails
  <2>2. sending
    <3> SUFFICES ASSUME ~sending PROVE FALSE
      BY <1>types
    <3>1. WindowSize = 1 /\ ~AllConfirmed
      BY <1>0, <2>1 DEF ClosingInv
    <3> QED
      BY <1>types, <1>0, <2>1, <3>1 DEF AllConfirmed
  <2>3. n \in PacketNs
    BY <1>types, <2>1 DEF TypeInv, NumberInv, PacketNs
  <2>4. LastNumber'
    BY <1>types, <1>0, <2>1 DEF LastNumber, AtEof
  <2>5. ClosingInv'
    BY <1>0, <2>2 DEF ClosingInv
  <2>6. CASE UNCHANGED <<toListener, unconfirmed_packets, first_unsent_packet_n>>
    BY <1>patient, <1>0, <2>4, <2>5, <2>6, SlotPassed DEF RoundInv
  <2>7. CASE /\ toListener' = Append(toListener, DataPacket(session, n))
             /\ unconfirmed_packets' = [unconfirmed_packets EXCEPT ![i] = n]
    <3>1. \A s \in Slots : unconfirmed_packets'[s] = IF s = i THEN n ELSE unconfirmed_packets[s]
      BY <1>types, <2>7
    <3>2. ASSUME AtEof(n), NEW m \in PacketNs, Flagged(m) PROVE FALSE
      <4>1. AtEof(m) /\ \E s \in Slots : unconfirmed_packets[s] = m /\ s < i
        BY <1>0, <3>2 DEF FlagInv, Waits
      <4>2. m < n /\ m \in Nat
        BY <4>1, ConstantTypes DEF WindowInv, PacketNs
      <4>3. LastPacket >= 1
        BY <1>types, <1>0, <4>1
      <4> QED
        BY <1>types, <1>0, <2>1, <3>2, <4>1, <4>2, <4>3 DEF LastNumber, AtEof
    <3>3. AtEof(n) => sending /\ NoFlag
      BY <2>2, <3>2 DEF NoFlag
    <3> QED
      BY <1>patient, <1>0, <2>2, <2>3, <2>4, <2>5, <2>7, <3>1, <3>3, SlotSent DEF RoundInv
  <2> QED
    BY <2>1, <2>6, <2>7
<1>2. CASE ResendPacket
  <2> DEFINE n == unconfirmed_packets[i]
  <2>1. /\ n # None /\ UNCHANGED <<unconfirmed_packets, first_unsent_packet_n, last_packet_n>>
        /\ \/ toListener' = Append(toListener, DataPacket(session, n))
           \/ toListener' = toListener
    BY <1>2 DEF ResendPacket, SendTo, SendToFails, windowVars
  <2>2. n \in PacketNs
    BY <1>types, <1>0, <2>1
  <2>3. LastNumber' /\ ClosingInv'
    BY <1>0, <2>1 DEF LastNumber, ClosingInv, AllConfirmed
  <2>4. CASE toListener' = toListener
    BY <1>patient, <1>0, <2>1, <2>3, <2>4, SlotPassed DEF RoundInv
  <2>5. CASE toListener' = Append(toListener, DataPacket(session, n))
    <3>1. ASSUME AtEof(n) PROVE sending
      BY <1>types, <1>0, <2>2, <3>1, ConstantTypes DEF ClosingInv, AtEof, PacketNs
    <3>2. ASSUME AtEof(n), NEW m \in PacketNs, Flagged(m) PROVE FALSE
      <4>1. PICK s \in Slots : unconfirmed_packets[s] = m /\ s < i
        BY <1>0, <3>2 DEF FlagInv, Waits
      <4>2. AtEof(m) /\ s # i /\ LastPacket >= 1
        BY <1>types, <1>0, <3>2, <4>1 DEF FlagInv
      <4>3. /\ m # n /\ m < first_unsent_packet_n /\ n < first_unsent_packet_n
            /\ m \in Nat /\ n \in Nat
        BY <1>0, <2>1, <2>2, <4>1, <4>2, ConstantTypes DEF WindowInv, PacketNs
      <4> QED
        BY <1>types, <1>0, <3>2, <4>2, <4>3 DEF LastNumber, AtEof
    <3>3. AtEof(n) => sending /\ NoFlag
      BY <3>1, <3>2 DEF NoFlag
    <3>4. \A s \in Slots : unconfirmed_packets'[s] = IF s = i THEN n ELSE unconfirmed_packets[s]
      BY <2>1
    <3> QED
      BY <1>patient, <1>0, <2>2, <2>3, <2>5, <3>3, <3>4, SlotSent DEF RoundInv
  <2> QED
    BY <2>1, <2>4, <2>5
<1>3. CASE SkipSlot
  <2>1. UNCHANGED <<toListener, windowVars>>
    BY <1>3 DEF SkipSlot, netVars
  <2>2. LastNumber' /\ ClosingInv'
    BY <1>0, <2>1 DEF LastNumber, ClosingInv, AllConfirmed, windowVars
  <2> QED
    BY <1>patient, <1>0, <2>1, <2>2, SlotPassed DEF RoundInv, windowVars
<1> QED
  BY <1>1, <1>2, <1>3

\* A round begins.
LEMMA RoundBegins ==
  ASSUME SmallWindow, TypeInv, TypeInv', RoundInv, StartRound
  PROVE  RoundInv'
<1>0. /\ OutInv /\ FlagInv /\ LastNumber /\ ClosingInv
      /\ pc = "check" /\ pc' = "send" /\ pc \in DataPhase /\ pc' \in DataPhase
      /\ ~(AllConfirmed /\ ~sending) /\ i' = 1
      /\ UNCHANGED <<toListener, toSender, windowVars>>
  BY DEF RoundInv, StartRound, DataPhase, netVars
<1>1. UNCHANGED <<unconfirmed_packets, first_unsent_packet_n, last_packet_n, sending>>
  BY <1>0 DEF windowVars
<1>2. LastNumber' /\ ClosingInv'
  BY <1>0, <1>1 DEF LastNumber, ClosingInv, AllConfirmed
<1>3. /\ sending => Out <= 0
      /\ \A n \in PacketNs : ~Flagged(n)
      /\ OneFlag
  <2>1. sending => Out <= 0
    BY <1>0 DEF OutInv, Left
  <2>2. \A n \in PacketNs : Flagged(n) => sending
    BY <1>0 DEF FlagInv
  <2> QED
    BY <1>0, <2>1, <2>2, NothingOut DEF NoFlag, FlagInv
<1>4. FlagInv'
  BY <1>0, <1>3, SameIsKept, KeptFlags DEF FlagInv
<1>5. OutInv'
  <2>1. Out' = Out /\ Left' = Left /\ SentInRound' = 0
    BY <1>0, <1>1 DEF Out, Left, Waiting, Used, SentInRound
  <2>2. Out <= Left
    BY <1>0 DEF OutInv
  <2>3. Left \in Nat
    BY DEF Left, Waiting, Used
  <2> QED
    BY <1>0, <2>1, <2>2, <2>3 DEF OutInv
<1> QED
  BY <1>2, <1>4, <1>5 DEF RoundInv

\* Everything that waits was sent.
LEMMA RoundSent ==
  ASSUME SmallWindow, TypeInv, TypeInv', RoundInv, StartReceiving
  PROVE  RoundInv'
<1>types. /\ WindowSize \in {0, 1, 2} /\ Slots \subseteq {1, 2}
          /\ WindowSize = 1 => Slots = {1}
          /\ WindowSize = 2 => Slots = {1, 2} /\ LastPacket >= 1
          /\ i \in 1 .. WindowSize + 1 /\ sending \in BOOLEAN
          /\ Len(toListener) \in Nat /\ Len(toSender) \in Nat
  BY WindowFacts
<1>0. /\ OutInv /\ FlagInv /\ LastNumber /\ ClosingInv
      /\ pc = "send" /\ pc' = "recv" /\ pc \in DataPhase /\ pc' \in DataPhase
      /\ i = WindowSize + 1 /\ i' = 1
      /\ UNCHANGED <<toListener, toSender, windowVars>>
  BY <1>types DEF RoundInv, StartReceiving, DataPhase, netVars
<1>1. UNCHANGED <<unconfirmed_packets, first_unsent_packet_n, last_packet_n, sending>>
  BY <1>0 DEF windowVars
<1>2. LastNumber' /\ ClosingInv'
  BY <1>0, <1>1 DEF LastNumber, ClosingInv
<1>3. FlagInv'
  <2>1. \A n : Waits(n) => Waits(n)'
    BY <1>0, <1>1 DEF Waits
  <2> QED
    BY <1>0, <1>1, <2>1, SameIsKept, KeptFlags DEF FlagInv
<1>4. OutInv'
  <2>1. Out' = Out /\ Waiting' = Waiting /\ Out \in Nat
    BY <1>types, <1>0, <1>1 DEF Out, Waiting, Used
  <2>2. Out <= Left + SentInRound
    BY <1>0 DEF OutInv
  <2>3. /\ Used(1) \in {0, 1} /\ Used(2) \in {0, 1}
        /\ WindowSize = 0 => Used(1) = 0 /\ Used(2) = 0
        /\ WindowSize = 1 => Used(2) = 0
    BY DEF Used, Slots
  <2>4. SentInRound = Waiting
    <3>1. CASE WindowSize = 0
      BY <1>0, <2>3, <3>1 DEF SentInRound, Waiting
    <3>2. CASE WindowSize = 1
      BY <1>0, <2>3, <3>2 DEF SentInRound, Waiting
    <3>3. CASE WindowSize = 2
      BY <1>0, <2>3, <3>3 DEF SentInRound, Waiting
    <3> QED
      BY <1>types, <3>1, <3>2, <3>3
  <2>5. CASE sending
    <3>1. Out <= Waiting
      BY <2>1, <2>2, <2>3, <2>4, <2>5 DEF Left, Waiting
    <3>2. Waiting <= WindowSize
      BY <1>types, <2>3 DEF Waiting
    <3>3. Out <= WindowSize
      BY <1>types, <2>1, <2>3, <3>1, <3>2 DEF Waiting
    <3> QED
      BY <1>types, <1>0, <1>1, <2>1, <3>1, <3>3 DEF OutInv
  <2>6. CASE ~sending
    <3>1. PICK s \in Slots : unconfirmed_packets[s] = None
      BY <1>0, <2>6 DEF ClosingInv
    <3>2. Used(s) = 0
      BY <3>1 DEF Used
    <3>3. CASE WindowSize = 1
      <4>1. Waiting = 0
        BY <1>types, <2>3, <3>2, <3>3 DEF Waiting
      <4>2. Out <= WindowSize
        BY <2>1, <2>2, <2>4, <2>6, <3>3, <4>1 DEF Left
      <4> QED
        BY <1>types, <1>0, <1>1, <2>1, <2>6, <4>2 DEF OutInv
    <3>4. CASE WindowSize = 2
      <4>1. Waiting \in {0, 1}
        BY <1>types, <2>3, <3>2, <3>4 DEF Waiting
      <4>2. Out <= WindowSize
        BY <2>1, <2>2, <2>4, <2>6, <3>4, <4>1 DEF Left
      <4> QED
        BY <1>types, <1>0, <1>1, <2>1, <2>6, <4>2 DEF OutInv
    <3> QED
      BY <1>types, <3>1, <3>3, <3>4 DEF Slots
  <2> QED
    BY <2>5, <2>6
<1> QED
  BY <1>2, <1>3, <1>4 DEF RoundInv

\* An ACK is taken.
LEMMA RoundTakes ==
  ASSUME Prompt, SmallWindow, TypeInv, TypeInv', WindowInv, LastInv, RoundInv,
         AckRefused \/ AckConfirmed
  PROVE  RoundInv'
<1>types. /\ WindowSize \in {0, 1, 2} /\ Slots \subseteq {1, 2}
          /\ WindowSize = 1 => Slots = {1}
          /\ WindowSize = 2 => Slots = {1, 2} /\ LastPacket >= 1
          /\ i \in 1 .. WindowSize + 1 /\ sending \in BOOLEAN
          /\ first_unsent_packet_n \in Nat /\ LastPacket \in Nat /\ last_packet_n \in Nat
          /\ unconfirmed_packets \in [Slots -> PacketNs \cup {None}]
          /\ toSender \in Seq(SenderPackets)
  BY WindowFacts
<1>0. /\ OutInv /\ FlagInv /\ LastNumber /\ ClosingInv
      /\ pc = "recv" /\ pc \in DataPhase /\ i \in Slots /\ TakeAck
      /\ UNCHANGED <<first_unsent_packet_n, last_packet_n>>
  BY <1>types DEF RoundInv, AckRefused, AckConfirmed, DataPhase, windowVars, Slots
<1>size. WindowSize \in {1, 2}
  BY <1>types, <1>0 DEF Slots
<1>1. /\ Ack = toSender[1] /\ 1 \in DOMAIN toSender
      /\ Kept(toSender', toSender) /\ Kept(toListener', toListener)
      /\ Ack \in SenderPackets
  BY <1>types, <1>0, TailFacts, SameIsKept DEF TakeAck, Ack
<1>2. /\ \A n \in PacketNs : Flagged(n)' => Flagged(n)
      /\ OneFlag'
  BY <1>0, <1>1, KeptFlags DEF FlagInv
<1>3. LastNumber'
  BY <1>0 DEF LastNumber
<1>4. PICK o \in Nat : Out = o /\ Out' = o - 1 /\ o <= WindowSize - i + 1
  BY <1>0, OutChanges, PromptStays DEF OutInv
<1>next. ASSUME pc' = "recv", i' = i + 1 PROVE OutInv'
  <2>1. o - 1 <= WindowSize - (i + 1) + 1 /\ i + 1 # 1
    BY <1>types, <1>4
  <2> QED
    BY <1>next, <1>4, <2>1 DEF OutInv
<1>5. CASE AckRefused
  <2>1. pc' = "recv" /\ i' = i + 1 /\ UNCHANGED <<unconfirmed_packets, sending>>
    BY <1>5, <1>0 DEF AckRefused, windowVars
  <2>2. FlagInv' /\ ClosingInv'
    BY <1>0, <1>2, <2>1 DEF FlagInv, ClosingInv, Waits
  <2> QED
    BY <1>next, <1>3, <2>1, <2>2 DEF RoundInv
<1>6. CASE AckConfirmed
  <2> DEFINE n == Ack.n
  <2>1. /\ Confirms(Ack) /\ n \in PacketNs /\ n # None
        /\ \A s \in Slots : unconfirmed_packets'[s] =
             IF unconfirmed_packets[s] = n THEN None ELSE unconfirmed_packets[s]
        /\ sending' = (sending /\ ~Ack.last)
        /\ pc' = IF Ack.last THEN "check" ELSE "recv"
        /\ i' = IF Ack.last THEN i ELSE i + 1
        /\ Ack.last \in BOOLEAN
    <3>1. Confirms(Ack) /\ n \in PacketNs /\ Ack.last \in BOOLEAN
      BY <1>1, <1>6, PacketFields DEF AckConfirmed, Confirms
    <3>2. n # None
      BY <3>1, ConstantTypes DEF PacketNs, None
    <3> QED
      BY <1>6, <3>1, <3>2 DEF AckConfirmed
  <2>2. pc' \in DataPhase
    BY <2>1 DEF DataPhase
  <2>3. CASE ~Ack.last
    <3>1. pc' = "recv" /\ i' = i + 1 /\ sending' = sending
      BY <1>types, <2>1, <2>3
    <3>2. ASSUME NEW m \in PacketNs, Flagged(m)' PROVE sending' /\ AtEof(m) /\ Waits(m)'
      <4>1. sending /\ AtEof(m) /\ Waits(m)
        BY <1>0, <1>2, <3>2 DEF FlagInv
      <4>2. m # n
        <5>1. CASE WindowSize = 1
          <6>1. Out' <= 0
            BY <1>types, <1>0, <1>4, <5>1
          <6>2. NoFlag'
            <7>1. /\ toListener' \in Seq(ListenerPackets) /\ toSender' \in Seq(SenderPackets)
                  /\ Len(toListener') \in Nat /\ Len(toSender') \in Nat
              BY LenProperties DEF TypeInv, TypeOK, NetTypeOK
            <7>2. DOMAIN toListener' = {} /\ DOMAIN toSender' = {}
              BY <6>1, <7>1, LenProperties DEF Out
            <7> QED
              BY <7>2 DEF NoFlag, Flagged
          <6> QED
            BY <3>2, <6>2 DEF NoFlag
        <5>2. CASE LastPacket >= 1
          <6>1. n # 0 => ~AtEof(n)
            BY <1>1, <2>1, <2>3 DEF LastInv, AckFlag
          <6>2. m # 0
            BY <1>types, <4>1, <5>2 DEF AtEof
          <6> QED
            BY <4>1, <6>1, <6>2
        <5> QED
          BY <1>types, <1>size, <5>1, <5>2
      <4>3. Waits(m)'
        BY <2>1, <3>1, <4>1, <4>2 DEF Waits
      <4> QED
        BY <3>1, <4>1, <4>3
    <3>3. FlagInv'
      BY <1>2, <3>2 DEF FlagInv, AtEof
    <3>4. ClosingInv'
      <4> SUFFICES ASSUME ~sending PROVE ClosingInv'
        BY <3>1 DEF ClosingInv
      <4>1. /\ first_unsent_packet_n > LastPacket
            /\ WindowSize = 1 \/ last_packet_n # 0
            /\ \E s \in Slots : unconfirmed_packets[s] = None
            /\ \A s \in Slots : unconfirmed_packets[s] < LastPacket
        BY <1>0 DEF ClosingInv
      <4>2. \A s \in Slots : unconfirmed_packets'[s] < LastPacket
        BY <1>types, <2>1, <4>1 DEF None
      <4> QED
        BY <1>0, <2>1, <3>1, <4>1, <4>2 DEF ClosingInv
    <3> QED
      BY <1>next, <1>3, <3>1, <3>3, <3>4 DEF RoundInv
  <2>4. CASE Ack.last
    <3>1. pc' = "check" /\ ~sending' /\ FlagBack(Ack)
      BY <2>1, <2>4 DEF FlagBack
    <3>2. Flagged(n)
      BY <1>1, <3>1 DEF Flagged
    <3>3. sending /\ AtEof(n)
      BY <1>0, <2>1, <3>2 DEF FlagInv
    <3>4. PICK t \in Slots : unconfirmed_packets[t] = n
      BY <1>0, <2>1, <3>2 DEF FlagInv, Waits
    <3>5. unconfirmed_packets'[t] = None /\ n < first_unsent_packet_n /\ n \in Nat
          /\ \A s \in Slots : s # t => unconfirmed_packets'[s] = unconfirmed_packets[s]
      BY <2>1, <3>4, ConstantTypes DEF WindowInv, PacketNs
    <3>6. first_unsent_packet_n > LastPacket
      BY <1>types, <3>3, <3>5 DEF AtEof
    <3>7. FlagInv'
      <4>1. NoFlag'
        BY <1>0, <3>1, TakenFlag DEF FlagInv
      <4> QED
        BY <1>2, <4>1 DEF FlagInv, NoFlag
    <3>8. ClosingInv'
      <4>1. WindowSize = 1 \/ last_packet_n # 0
        <5>1. CASE WindowSize = 2
          <6>1. LastPacket >= 1 /\ first_unsent_packet_n = LastPacket + 1
            BY <1>types, <1>0, <3>6, <5>1 DEF LastNumber
          <6> QED
            BY <1>0, <6>1 DEF LastNumber
        <5> QED
          BY <1>size, <5>1
      <4>2. ASSUME NEW s \in Slots PROVE unconfirmed_packets'[s] < LastPacket
        <5>1. CASE s = t
          BY <1>types, <3>5, <5>1 DEF None
        <5>2. CASE s # t
          <6>1. LastPacket >= 1 /\ unconfirmed_packets'[s] = unconfirmed_packets[s]
            BY <1>types, <1>size, <3>5, <5>2
          <6>2. unconfirmed_packets[s] # n /\ unconfirmed_packets[s] < first_unsent_packet_n
            BY <2>1, <3>4, <5>2 DEF WindowInv
          <6>3. unconfirmed_packets[s] \in Int
            BY <1>types, ConstantTypes DEF PacketNs, None
          <6>4. first_unsent_packet_n = LastPacket + 1 /\ n = LastPacket
            BY <1>types, <1>0, <3>3, <3>5, <3>6, <6>1 DEF LastNumber, AtEof
          <6> QED
            BY <1>types, <6>1, <6>2, <6>3, <6>4
        <5> QED
          BY <5>1, <5>2
      <4> QED
        BY <1>0, <3>1, <3>5, <3>6, <4>1, <4>2 DEF ClosingInv
    <3>9. OutInv'
      <4>1. Used(t) = 1 /\ Used(t)' = 0 /\ \A s \in {1, 2} : s # t => Used(s)' = Used(s)
        BY <2>1, <3>4, <3>5 DEF Used
      <4>2. Used(1) \in {0, 1} /\ Used(2) \in {0, 1} /\ Used(1)' \in {0, 1} /\ Used(2)' \in {0, 1}
        BY DEF Used
      <4>3. PICK w \in Nat : Waiting = w + 1 /\ Waiting' = w
        <5>1. CASE t = 1
          BY <4>1, <4>2, <5>1 DEF Waiting
        <5>2. CASE t = 2
          BY <4>1, <4>2, <5>2 DEF Waiting
        <5> QED
          BY <1>types, <5>1, <5>2
      <4>4. Left' = w
        BY <3>1, <4>3 DEF Left
      <4>5. o - 1 <= w
        <5>1. CASE i = 1
          <6>1. o <= w + 1
            BY <1>0, <1>4, <3>3, <4>3, <5>1 DEF OutInv
          <6> QED
            BY <6>1
        <5>2. CASE i = 2
          BY <1>types, <1>0, <1>4, <5>2
        <5> QED
          BY <1>types, <1>0, <5>1, <5>2
      <4> QED
        BY <1>4, <3>1, <4>4, <4>5 DEF OutInv
    <3> QED
      BY <1>3, <3>7, <3>8, <3>9 DEF RoundInv
  <2> QED
    BY <2>1, <2>3, <2>4
<1> QED
  BY <1>5, <1>6

LEMMA OutIsNumber == TypeInv' => Out' \in Nat
<1> SUFFICES ASSUME TypeInv' PROVE Out' \in Nat
  OBVIOUS
<1>1. toListener' \in Seq(ListenerPackets) /\ toSender' \in Seq(SenderPackets)
  BY DEF TypeInv, TypeOK, NetTypeOK
<1>2. Len(toListener') \in Nat /\ Len(toSender') \in Nat
  BY <1>1, LenProperties
<1> QED
  BY <1>2 DEF Out

LEMMA NothingOutAfter ==
  ASSUME TypeInv', Out' = 0
  PROVE  NoFlag' /\ OneFlag'
<1>1. /\ toListener' \in Seq(ListenerPackets) /\ toSender' \in Seq(SenderPackets)
      /\ Len(toListener') \in Nat /\ Len(toSender') \in Nat
  BY LenProperties DEF TypeInv, TypeOK, NetTypeOK
<1>2. DOMAIN toListener' = {} /\ DOMAIN toSender' = {}
  BY <1>1, LenProperties DEF Out
<1> QED
  BY <1>2 DEF NoFlag, OneFlag, Flagged

\* A round ends with nothing on its way when no timer is early.
LEMMA RoundEnds ==
  ASSUME Prompt, SmallWindow, TypeInv, TypeInv', RoundInv, EndRound
  PROVE  RoundInv'
<1>0. /\ OutInv /\ FlagInv /\ LastNumber /\ ClosingInv
      /\ pc = "recv" /\ pc' = "check" /\ pc \in DataPhase /\ pc' \in DataPhase
      /\ UNCHANGED <<toListener, toSender, windowVars>>
  BY DEF RoundInv, EndRound, DataPhase
<1>1. UNCHANGED <<unconfirmed_packets, first_unsent_packet_n, last_packet_n, sending>>
  BY <1>0 DEF windowVars
<1>2. LastNumber' /\ ClosingInv'
  BY <1>0, <1>1 DEF LastNumber, ClosingInv
<1>3. Out' = 0
  <2>1. CASE SelectTimesOut
    BY <1>0, <2>1, OutChanges, PromptStays
  <2>2. CASE i > WindowSize
    <3>1. PICK o \in Nat : Out = o /\ Out' = o /\ o <= WindowSize - i + 1
      BY <1>0, OutChanges, PromptStays DEF OutInv
    <3>2. i \in 1 .. WindowSize + 1 /\ WindowSize \in Nat
      BY ConstantTypes DEF TypeInv, TypeOK, SenderTypeOK
    <3>3. o = 0
      BY <2>2, <3>1, <3>2
    <3> QED
      BY <3>1, <3>3
  <2> QED
    BY <2>1, <2>2 DEF EndRound
<1>4. OutInv'
  <2>1. Left' \in Nat
    BY DEF Left, Waiting, Used
  <2> QED
    BY <1>0, <1>3, <2>1 DEF OutInv
<1>5. FlagInv'
  BY <1>3, NothingOutAfter DEF FlagInv, NoFlag
<1> QED
  BY <1>2, <1>4, <1>5 DEF RoundInv

\* The sender's other steps.
LEMMA RoundOther ==
  ASSUME Prompt, SmallWindow, TypeInv, TypeInv', PatientInv, RoundInv, SenderStep,
         ~StartRound, ~SendNewPacket, ~ResendPacket, ~SkipSlot, ~StartReceiving, ~EndRound,
         ~AckRefused, ~AckConfirmed
  PROVE  RoundInv'
<1>0. OutInv /\ LastNumber
  BY DEF RoundInv
<1>o. PICK o \in Nat : Out = o
  BY OutChanges, PromptStays
<1>1. /\ \A p : SendTo(p) /\ UNCHANGED toSender => Out' = o + 1
      /\ TakeAck => Out' = o - 1 /\ o > 0
      /\ UNCHANGED <<toListener, toSender>> => Out' = o
      /\ SelectTimesOut /\ UNCHANGED <<toListener, toSender>> => Out' = 0
  <2>1. TakeAck => Out' = o - 1
    BY <1>o, OutChanges, PromptStays
  <2>2. Out' \in Nat
    BY OutIsNumber
  <2>3. TakeAck => o > 0
    BY <1>o, <2>1, <2>2
  <2> QED
    BY <1>o, <2>1, <2>3, OutChanges, PromptStays
<1>2. ASSUME pc' \notin DataPhase, UNCHANGED windowVars, OutInv' PROVE RoundInv'
  BY <1>0, <1>2 DEF RoundInv, FlagInv, ClosingInv, LastNumber, windowVars
<1>3. \A p \in SyncPhase \cup HashPhase \cup Ended : p \notin DataPhase
  BY DEF SyncPhase, HashPhase, Ended, DataPhase
<1>4. \A p \in SyncPhase \cup Ended :
        p \notin {"check", "send", "recv", "hash_send", "hash_wait"}
  BY DEF SyncPhase, Ended
<1>5. CASE SendSync \/ SyncRefused \/ SyncTimeout \/ ReceiveFails \/ OpenFails
  <2>1. pc' \in SyncPhase \cup Ended /\ UNCHANGED windowVars
    BY <1>5 DEF SendSync, SyncRefused, SyncTimeout, ReceiveFails, OpenFails, SyncPhase, Ended
  <2>2. OutInv'
    BY <1>4, <2>1 DEF OutInv
  <2> QED
    BY <1>2, <1>3, <2>1, <2>2
<1>6. CASE SyncConfirmed
  <2>1. pc = "sync_wait" /\ TakeAck /\ EnterData
    BY <1>6 DEF SyncConfirmed
  <2>2. o <= 1
    BY <1>o, <2>1, PromptFacts DEF PatientInv, Out
  <2>3. Out' = 0
    BY <1>1, <2>1, <2>2
  <2> QED
    BY <2>1, <2>3, RoundEntered
<1>7. CASE FinishData
  <2>1. /\ pc = "check" /\ pc' = "hash_send" /\ AllConfirmed /\ ~sending
        /\ UNCHANGED <<toListener, toSender, windowVars>>
    BY <1>7 DEF FinishData, netVars
  <2>2. Left = 0
    BY <2>1 DEF Left, Waiting, Used, AllConfirmed
  <2>3. Out' = 0
    BY <1>0, <1>o, <1>1, <2>1, <2>2 DEF OutInv
  <2>4. OutInv' /\ pc' \notin DataPhase
    BY <2>1, <2>3 DEF OutInv, DataPhase
  <2> QED
    BY <1>2, <2>1, <2>4
<1>8. CASE SendHash
  <2>1. /\ pc = "hash_send" /\ pc' = "hash_wait" /\ UNCHANGED windowVars /\ UNCHANGED toSender
        /\ SendTo(HashPacket(session)) \/ UNCHANGED toListener
    BY <1>8 DEF SendHash, SendToFails
  <2>2. o = 0
    BY <1>0, <1>o, <2>1 DEF OutInv
  <2>3. Out' <= 1
    BY <1>1, <2>1, <2>2
  <2>4. OutInv' /\ pc' \notin DataPhase
    BY <2>1, <2>3 DEF OutInv, DataPhase
  <2> QED
    BY <1>2, <2>1, <2>4
<1>9. CASE HashAckDamaged \/ HashTimeout
  <2>1. /\ pc = "hash_wait" /\ pc' = "hash_send" /\ UNCHANGED windowVars
        /\ TakeAck \/ (SelectTimesOut /\ UNCHANGED <<toListener, toSender>>)
    BY <1>9 DEF HashAckDamaged, HashTimeout
  <2>2. o <= 1
    BY <1>0, <1>o, <2>1 DEF OutInv
  <2>3. Out' = 0
    BY <1>1, <2>1, <2>2
  <2>4. OutInv' /\ pc' \notin DataPhase
    BY <2>1, <2>3 DEF OutInv, DataPhase
  <2> QED
    BY <1>2, <2>1, <2>4
<1>10. CASE HashRefused
  <2>1. pc = "hash_wait" /\ TakeAck /\ EnterData
    BY <1>10 DEF HashRefused
  <2>2. o <= 1
    BY <1>0, <1>o, <2>1 DEF OutInv
  <2>3. Out' = 0
    BY <1>1, <2>1, <2>2
  <2> QED
    BY <2>1, <2>3, RoundEntered
<1>11. CASE HashConfirmed
  <2>1. pc = "hash_wait" /\ TakeAck /\ pc' \in {"done", "hash_send"} /\ UNCHANGED windowVars
    BY <1>11 DEF HashConfirmed
  <2>2. o <= 1
    BY <1>0, <1>o, <2>1 DEF OutInv
  <2>3. Out' = 0
    BY <1>1, <2>1, <2>2
  <2>4. OutInv' /\ pc' \notin DataPhase
    BY <2>1, <2>3 DEF OutInv, DataPhase
  <2> QED
    BY <1>2, <2>1, <2>4
<1>12. CASE NextTransfer
  BY <1>12, PromptFacts DEF NextTransfer, Prompt
<1>13. CASE SenderGone
  <2>1. pc' = pc /\ pc \in Ended /\ UNCHANGED windowVars
    BY <1>13 DEF SenderGone, senderVars, windowVars
  <2>2. OutInv'
    BY <1>4, <2>1 DEF OutInv
  <2> QED
    BY <1>2, <1>3, <2>1, <2>2
<1> QED
  BY <1>5, <1>6, <1>7, <1>8, <1>9, <1>10, <1>11, <1>12, <1>13
  DEF SenderStep, SenderRuns, SenderReceives

----------------------------------------------------------------------------
(* Rounds: the listener and the network.                                   *)

\* The listener puts no flag into an answer that the packet did not have.
LEMMA ListenerAnswers ==
  ASSUME TypeInv, ListenerReceives
  PROVE  /\ Receive
         /\ \/ toSender' = toSender
            \/ \E a \in SenderPackets :
                 /\ toSender' = Append(toSender, a)
                 /\ FlagBack(a) => FlagOut(Packet) /\ a.n = Packet.n
<1>1. Receive
  BY DEF ListenerReceives, ReceiveSync, ReceiveSyncOpenFails, ReceiveData, ReceiveDataNoFile,
         ReceiveHash, ReceiveHashAgain, ReceiveHashNoFile, ReceiveDamaged, ReceiveUnknown
<1>2. ASSUME NEW state \in {CONFIRM_CODE, NEGATIVE_CODE}
      PROVE  AckPacket(0, FALSE, state) \in SenderPackets /\ ~FlagBack(AckPacket(0, FALSE, state))
  BY PacketTypes, ConstantTypes DEF AckPacket, FlagBack
<1>3. CASE ReceiveData \/ ReceiveDataNoFile
  <2> DEFINE a == AckPacket(Packet.n, Packet.last, CONFIRM_CODE)
  <2>1. Packet.ok /\ Packet.type = "DATA"
    BY <1>3 DEF ReceiveData, ReceiveDataNoFile
  <2>2. Packet.n \in PacketNs /\ Packet.last \in BOOLEAN
    BY <1>1, <2>1, ReceiveFacts, PacketFields
  <2>3. a \in SenderPackets /\ a.n = Packet.n /\ a.last = Packet.last
    BY <2>2, PacketTypes DEF AckPacket
  <2>4. toSender' = toSender \/ toSender' = Append(toSender, a)
    BY <1>3 DEF ReceiveData, ReceiveDataNoFile, Reply
  <2>5. FlagBack(a) => FlagOut(Packet)
    BY <2>1, <2>3 DEF FlagBack, FlagOut
  <2> HIDE DEF a
  <2> QED
    BY <1>1, <2>3, <2>4, <2>5
<1>4. CASE ~ReceiveData /\ ~ReceiveDataNoFile
  <2>1. \/ toSender' = toSender
        \/ \E state \in {CONFIRM_CODE, NEGATIVE_CODE} :
             toSender' = Append(toSender, AckPacket(0, FALSE, state))
    BY <1>4 DEF ListenerReceives, ReceiveSync, ReceiveSyncOpenFails,
                ReceiveHash, ReceiveHashAgain, ReceiveHashNoFile, ReceiveDamaged, ReceiveUnknown, Reply
  <2> QED
    BY <1>1, <1>2, <2>1
<1> QED
  BY <1>3, <1>4

\* Neither the listener nor the network adds to what is on its way.
LEMMA NothingMore ==
  ASSUME Prompt, TypeInv, TypeInv', ListenerStep \/ NetworkStep
  PROVE  /\ Out' \in Nat /\ Out \in Nat /\ Out' <= Out
         /\ \A n \in PacketNs : Flagged(n)' => Flagged(n)
         /\ OneFlag => OneFlag'
<1>0. /\ toListener \in Seq(ListenerPackets) /\ toSender \in Seq(SenderPackets)
      /\ Len(toListener) \in Nat /\ Len(toSender) \in Nat
  BY LenProperties DEF TypeInv, TypeOK, NetTypeOK
<1>kept. ASSUME Kept(toListener', toListener), Kept(toSender', toSender),
                NEW l \in Nat, NEW m \in Nat, l = Len(toListener'), m = Len(toSender'),
                l <= Len(toListener), m <= Len(toSender)
         PROVE  /\ Out' \in Nat /\ Out \in Nat /\ Out' <= Out
                /\ \A n \in PacketNs : Flagged(n)' => Flagged(n)
                /\ OneFlag => OneFlag'
  <2>1. Out' \in Nat /\ Out \in Nat /\ Out' <= Out
    BY <1>0, <1>kept DEF Out
  <2> QED
    BY <1>kept, <2>1, KeptFlags
<1>1. CASE ListenerReceives
  <2>1. Receive
    BY <1>1, ListenerAnswers
  <2>2. Len(toListener') = Len(toListener) - 1 /\ Len(toListener) > 0
        /\ Kept(toListener', toListener)
    BY <1>0, <2>1, TailFacts, HeadTailProperties, EmptySeq DEF Receive
  <2>3. CASE toSender' = toSender
    <3>1. Kept(toSender', toSender)
      BY <2>3, SameIsKept
    <3> QED
      BY <1>0, <1>kept, <2>2, <2>3, <3>1
  <2>4. CASE \E a \in SenderPackets : /\ toSender' = Append(toSender, a)
                                      /\ FlagBack(a) => FlagOut(Packet) /\ a.n = Packet.n
    <3>1. PICK a \in SenderPackets : /\ toSender' = Append(toSender, a)
                                     /\ FlagBack(a) => FlagOut(Packet) /\ a.n = Packet.n
      BY <2>4
    <3>2. Len(toSender') = Len(toSender) + 1
      BY <1>0, <3>1
    <3>3. Out' \in Nat /\ Out \in Nat /\ Out' <= Out
      BY <1>0, <2>2, <3>2 DEF Out
    <3> QED
      BY <2>1, <3>1, <3>3, AnsweredFlags
  <2> QED
    BY <1>1, <2>3, <2>4, ListenerAnswers
<1>2. CASE ListenerReceiveFails
  <2>1. toListener' = toListener /\ toSender' = toSender
    BY <1>2 DEF ListenerReceiveFails
  <2>2. Kept(toListener', toListener) /\ Kept(toSender', toSender)
    BY <2>1, SameIsKept
  <2> QED
    BY <1>0, <1>kept, <2>1, <2>2
<1>3. CASE ListenerGone
  <2>1. toListener # <<>> /\ toListener' = Tail(toListener) /\ toSender' = toSender
    BY <1>3 DEF ListenerGone
  <2>2. Kept(toListener', toListener) /\ Kept(toSender', toSender)
    BY <1>0, <2>1, TailFacts, SameIsKept
  <2>3. Len(toListener') = Len(toListener) - 1 /\ Len(toListener) > 0
    BY <1>0, <2>1, HeadTailProperties, EmptySeq
  <2>4. /\ Len(toListener') \in Nat /\ Len(toListener') <= Len(toListener)
        /\ Len(toSender') \in Nat /\ Len(toSender') <= Len(toSender)
    BY <1>0, <2>1, <2>3
  <2> QED
    BY <1>kept, <2>2, <2>4
<1>4. CASE Restart
  BY <1>4, PromptFacts DEF Restart
<1>5. "duplicate" \notin faults'.kinds
  BY PromptStays DEF NoCopies
<1>6. CASE Misbehave(toListener, toListener', ListenerTypes) /\ UNCHANGED toSender
  <2>1. Kept(toListener', toListener) /\ Kept(toSender', toSender)
    BY <1>0, <1>5, <1>6, MisbehaveKept, SameIsKept
  <2>2. Len(toListener') \in Nat /\ Len(toListener') <= Len(toListener)
    BY <1>0, <1>5, <1>6, MisbehaveLength
  <2> QED
    BY <1>0, <1>6, <1>kept, <2>1, <2>2
<1>7. CASE Misbehave(toSender, toSender', {"ACK"}) /\ UNCHANGED toListener
  <2>1. Kept(toListener', toListener) /\ Kept(toSender', toSender)
    BY <1>0, <1>5, <1>7, MisbehaveKept, SameIsKept
  <2>2. Len(toSender') \in Nat /\ Len(toSender') <= Len(toSender)
    BY <1>0, <1>5, <1>7, MisbehaveLength
  <2> QED
    BY <1>0, <1>7, <1>kept, <2>1, <2>2
<1> QED
  BY <1>1, <1>2, <1>3, <1>4, <1>6, <1>7 DEF ListenerStep, NetworkStep

LEMMA RoundKept ==
  ASSUME TypeInv, RoundInv, UNCHANGED senderVars,
         Out' \in Nat, Out \in Nat, Out' <= Out,
         \A n \in PacketNs : Flagged(n)' => Flagged(n),
         OneFlag => OneFlag'
  PROVE  RoundInv'
<1>0. /\ UNCHANGED <<pc, i, unconfirmed_packets, first_unsent_packet_n, last_packet_n, sending>>
      /\ OutInv /\ FlagInv /\ LastNumber /\ ClosingInv
  BY DEF senderVars, RoundInv
<1>1. LastNumber' /\ ClosingInv'
  BY <1>0 DEF LastNumber, ClosingInv, AllConfirmed
<1>2. FlagInv'
  <2>1. \A n : Waits(n) => Waits(n)'
    BY <1>0 DEF Waits
  <2> QED
    BY <1>0, <2>1 DEF FlagInv
<1>3. OutInv'
  <2>1. PICK o \in Nat, q \in Nat : Out = o /\ Out' = q /\ q <= o
    OBVIOUS
  <2>2. PICK l \in Nat, s \in Nat, w \in Nat :
          /\ Left = l /\ Left' = l /\ SentInRound = s /\ SentInRound' = s
          /\ Waiting = w /\ Waiting' = w
    BY <1>0 DEF Left, SentInRound, Waiting, Used
  <2>3. i \in Nat /\ WindowSize \in Nat
    BY ConstantTypes DEF TypeInv, TypeOK, SenderTypeOK
  <2> QED
    BY <1>0, <2>1, <2>2, <2>3 DEF OutInv
<1> QED
  BY <1>1, <1>2, <1>3 DEF RoundInv

LEMMA RoundInitially == Init => RoundInv
<1> SUFFICES ASSUME Init PROVE RoundInv
  OBVIOUS
<1>1. /\ pc = "sync_send" /\ first_unsent_packet_n = 0
  BY DEF Init, SenderInit
<1> QED
  BY <1>1, ConstantTypes DEF RoundInv, OutInv, FlagInv, LastNumber, ClosingInv, DataPhase

LEMMA RoundStep ==
  ASSUME Prompt, SmallWindow, TypeInv, WindowInv, PatientInv, LastInv, RoundInv, [Next]_vars
  PROVE  RoundInv'
<1>0. TypeInv'
  BY TypeStep
<1>1. CASE SenderStep
  BY <1>0, <1>1, RoundBegins, RoundSend, RoundSent, RoundEnds, RoundTakes, RoundOther
<1>2. CASE (ListenerStep \/ NetworkStep) /\ UNCHANGED senderVars
  BY <1>0, <1>2, NothingMore, RoundKept
<1>3. CASE UNCHANGED vars
  <2>1. UNCHANGED senderVars /\ toListener' = toListener /\ toSender' = toSender
    BY <1>3 DEF vars, netVars
  <2>2. Out' \in Nat /\ Out' = Out
    BY <1>0, <2>1, OutIsNumber DEF Out
  <2>3. (\A n \in PacketNs : Flagged(n)' => Flagged(n)) /\ (OneFlag => OneFlag')
    BY <2>1, SameIsKept, KeptFlags
  <2>4. Out \in Nat /\ Out' <= Out
    BY <2>2
  <2> QED
    BY <2>1, <2>2, <2>3, <2>4, RoundKept
<1> QED
  BY <1>1, <1>2, <1>3 DEF Next, Idle

----------------------------------------------------------------------------
(* Success is saved.                                                       *)

\* From the comparison on nothing but HASHs is on its way, and a positive
\* answer means that the file was accepted, which closed it.
SavedInv ==
  /\ is_accepted => handle = "closed" /\ unflushed = NoBlock
  /\ pc \in HashPhase =>
       /\ \A k \in DOMAIN toListener : toListener[k].ok => toListener[k].type = "HASH"
       /\ \A k \in DOMAIN toSender : Confirms(toSender[k]) => is_accepted
  /\ pc = "done" => is_accepted
  /\ listening /\ pc \in Transferring => handle # "unset"
  /\ listening => \A k \in DOMAIN toListener :
                    toListener[k].ok /\ toListener[k].type = "HASH" => handle # "unset"

LEMMA SavedSender ==
  ASSUME Prompt, TypeInv, TypeInv', TransferInv, SavedInv, HashOut', SenderStep,
         UNCHANGED listenerVars
  PROVE  SavedInv'
<1>0. /\ toListener \in Seq(ListenerPackets) /\ toSender \in Seq(SenderPackets)
      /\ UNCHANGED <<listening, handle, is_accepted, unflushed>>
  BY DEF TypeInv, TypeOK, NetTypeOK, listenerVars, fileVars
<1>1. /\ is_accepted => handle = "closed" /\ unflushed = NoBlock
      /\ pc = "hash_wait" => \A k \in DOMAIN toSender : Confirms(toSender[k]) => is_accepted
      /\ pc = "done" => is_accepted
      /\ listening /\ pc \in Transferring => handle # "unset"
      /\ listening => \A k \in DOMAIN toListener :
                        toListener[k].ok /\ toListener[k].type = "HASH" => handle # "unset"
  BY DEF SavedInv, HashPhase
<1>2. pc' = "hash_send" => DOMAIN toListener' = {} /\ DOMAIN toSender' = {}
  <2>1. /\ toListener' \in Seq(ListenerPackets) /\ toSender' \in Seq(SenderPackets)
        /\ Len(toListener') \in Nat /\ Len(toSender') \in Nat
    BY LenProperties DEF TypeInv, TypeOK, NetTypeOK
  <2> QED
    BY <2>1, LenProperties DEF HashOut, Out
<1>phases. /\ Transferring = {"check", "send", "recv", "hash_send", "hash_wait", "done"}
           /\ HashPhase = {"hash_send", "hash_wait"}
  BY DEF Transferring, DataPhase, HashPhase
<1>3. CASE SyncConfirmed
  <2>1. /\ pc = "sync_wait" /\ pc' = "check" /\ toSender # <<>> /\ Confirms(Ack)
        /\ toListener' = toListener
    BY <1>3 DEF SyncConfirmed, EnterData, TakeAck
  <2>2. listening => handle = "open"
    <3>1. 1 \in DOMAIN toSender /\ Ack = toSender[1]
      BY <1>0, <2>1, TailFacts DEF Ack
    <3> QED
      BY <2>1, <3>1, PromptFacts DEF TransferInv, SyncInv, SyncPhase
  <2> QED
    BY <1>0, <1>1, <1>phases, <2>1, <2>2 DEF SavedInv
<1>4. CASE SendHash
  <2>1. /\ pc = "hash_send" /\ pc' = "hash_wait" /\ toSender' = toSender
        /\ \/ toListener' = Append(toListener, HashPacket(session))
           \/ toListener' = toListener
    BY <1>4 DEF SendHash, SendTo, SendToFails
  <2>2. \A k \in DOMAIN toListener' :
          \/ k \in DOMAIN toListener /\ toListener'[k] = toListener[k]
          \/ toListener'[k] = HashPacket(session)
    <3>1. HashPacket(session) \in ListenerPackets
      BY PacketTypes DEF TypeInv, TypeOK, SenderTypeOK
    <3> QED
      BY <1>0, <2>1, <3>1, AppendFacts
  <2>3. HashPacket(session).type = "HASH"
    BY DEF HashPacket
  <2>4. /\ \A k \in DOMAIN toListener' : toListener'[k].ok => toListener'[k].type = "HASH"
        /\ \A k \in DOMAIN toSender' : Confirms(toSender'[k]) => is_accepted
    BY <1>phases, <2>1, <2>2, <2>3 DEF SavedInv
  <2>5. listening => handle # "unset"
    BY <1>1, <1>phases, <2>1
  <2> QED
    BY <1>0, <1>1, <1>phases, <2>1, <2>4, <2>5 DEF SavedInv
<1>5. CASE HashConfirmed
  <2>1. /\ pc = "hash_wait" /\ pc' \in {"done", "hash_send"}
        /\ toSender # <<>> /\ Confirms(Ack) /\ toListener' = toListener
    BY <1>5 DEF HashConfirmed, TakeAck
  <2>2. is_accepted
    <3>1. 1 \in DOMAIN toSender /\ Ack = toSender[1]
      BY <1>0, <2>1, TailFacts DEF Ack
    <3> QED
      BY <1>1, <2>1, <3>1
  <2> QED
    BY <1>0, <1>1, <1>2, <1>phases, <2>1, <2>2 DEF SavedInv
<1>6. CASE ~SyncConfirmed /\ ~SendHash /\ ~HashConfirmed
  <2>1. /\ pc' # "hash_wait"
        /\ pc' = "done" => pc = "done"
        /\ pc' \in Transferring => pc \in Transferring
    BY <1>6, <1>phases, PromptFacts
       DEF SenderStep, SenderRuns, SenderReceives, SendSync, SyncTimeout, StartRound, FinishData,
           SendNewPacket, ResendPacket, SkipSlot, StartReceiving, EndRound, HashTimeout,
           SyncRefused, AckRefused, AckConfirmed, HashAckDamaged, HashRefused, EnterData,
           ReceiveFails, OpenFails, NextTransfer, Prompt, SenderGone, senderVars, Ended
  <2>2. \/ toListener' = toListener
        \/ \E p : toListener' = Append(toListener, p) /\ p.type # "HASH" /\ p \in ListenerPackets
    <3>1. CASE SendSync
      <4>1. SyncPacket(session) \in ListenerPackets /\ SyncPacket(session).type # "HASH"
        BY PacketTypes DEF TypeInv, TypeOK, SenderTypeOK, SyncPacket
      <4> QED
        BY <3>1, <4>1 DEF SendSync, SendTo, SendToFails
    <3>2. CASE SendNewPacket
      <4> DEFINE p == DataPacket(session, first_unsent_packet_n)
      <4>1. toListener' = Append(toListener, p) \/ toListener' = toListener
        BY <3>2 DEF SendNewPacket, SendTo, SendToFails
      <4>2. first_unsent_packet_n \in PacketNs
        BY <3>2, ConstantTypes DEF SendNewPacket, TypeInv, TypeOK, SenderTypeOK, NumberInv, PacketNs
      <4>3. p \in ListenerPackets /\ p.type # "HASH"
        BY <4>2, PacketTypes DEF TypeInv, TypeOK, SenderTypeOK, DataPacket
      <4> QED
        BY <4>1, <4>3
    <3>3. CASE ResendPacket
      <4> DEFINE p == DataPacket(session, unconfirmed_packets[i])
      <4>1. /\ toListener' = Append(toListener, p) \/ toListener' = toListener
            /\ i <= WindowSize /\ unconfirmed_packets[i] # None
        BY <3>3 DEF ResendPacket, SendTo, SendToFails
      <4>2. unconfirmed_packets[i] \in PacketNs
        BY <4>1, ConstantTypes DEF TypeInv, TypeOK, SenderTypeOK, Slots
      <4>3. p \in ListenerPackets /\ p.type # "HASH"
        BY <4>2, PacketTypes DEF TypeInv, TypeOK, SenderTypeOK, DataPacket
      <4> QED
        BY <4>1, <4>3
    <3>4. CASE ~SendSync /\ ~SendNewPacket /\ ~ResendPacket
      BY <1>6, <3>4, PromptFacts
         DEF SenderStep, SenderRuns, SenderReceives, SyncTimeout, StartRound, FinishData,
             SkipSlot, StartReceiving, EndRound, HashTimeout,
             SyncRefused, AckRefused, AckConfirmed, HashAckDamaged, HashRefused, TakeAck,
             ReceiveFails, OpenFails, NextTransfer, Prompt, SenderGone, netVars
    <3> QED
      BY <3>1, <3>2, <3>3, <3>4
  <2>3. \A k \in DOMAIN toListener' : toListener'[k].type = "HASH" =>
          k \in DOMAIN toListener /\ toListener'[k] = toListener[k]
    BY <1>0, <2>2, AppendFacts
  <2> QED
    BY <1>0, <1>1, <1>2, <1>phases, <2>1, <2>3 DEF SavedInv
<1> QED
  BY <1>3, <1>4, <1>5, <1>6

\* What the listener and the network leave of SavedInv when an answer is added
\* at most.
LEMMA SavedAnswer ==
  ASSUME TypeInv, SavedInv, UNCHANGED pc, NothingNew(toListener', toListener),
         is_accepted' => handle' = "closed" /\ unflushed' = NoBlock,
         is_accepted => is_accepted',
         listening' => listening,
         listening' /\ handle # "unset" => handle' # "unset",
         \/ NothingNew(toSender', toSender)
         \/ \E a \in SenderPackets :
              /\ toSender' = Append(toSender, a)
              /\ Confirms(a) /\ pc \in HashPhase => is_accepted'
  PROVE  SavedInv'
<1>0. toListener \in Seq(ListenerPackets) /\ toSender \in Seq(SenderPackets)
  BY DEF TypeInv, TypeOK, NetTypeOK
<1>1. \A k \in DOMAIN toListener' : toListener'[k].ok => \E j \in DOMAIN toListener : toListener'[k] = toListener[j]
  BY DEF NothingNew
<1>2. ASSUME pc \in HashPhase
      PROVE  /\ \A k \in DOMAIN toListener' : toListener'[k].ok => toListener'[k].type = "HASH"
             /\ \A k \in DOMAIN toSender' : Confirms(toSender'[k]) => is_accepted'
  <2>1. \A k \in DOMAIN toListener' : toListener'[k].ok => toListener'[k].type = "HASH"
    BY <1>1, <1>2 DEF SavedInv
  <2>2. \A k \in DOMAIN toSender : Confirms(toSender[k]) => is_accepted'
    BY <1>2 DEF SavedInv
  <2>3. CASE NothingNew(toSender', toSender)
    BY <2>1, <2>2, <2>3 DEF NothingNew, Confirms
  <2>4. CASE \E a \in SenderPackets : /\ toSender' = Append(toSender, a)
                                      /\ Confirms(a) /\ pc \in HashPhase => is_accepted'
    BY <1>0, <1>2, <2>1, <2>2, <2>4, AppendFacts
  <2> QED
    BY <2>3, <2>4
<1>3. ASSUME listening', NEW k \in DOMAIN toListener', toListener'[k].ok, toListener'[k].type = "HASH"
      PROVE  handle' # "unset"
  BY <1>1, <1>3 DEF SavedInv
<1>4. listening' /\ pc \in Transferring => handle' # "unset"
  BY DEF SavedInv
<1>5. pc = "done" => is_accepted'
  BY DEF SavedInv
<1> QED
  BY <1>2, <1>3, <1>4, <1>5 DEF SavedInv

LEMMA SavedListener ==
  ASSUME Prompt, TypeInv, PatientInv, TransferInv, SavedInv, ListenerReceives, UNCHANGED senderVars
  PROVE  SavedInv'
<1>0. /\ Receive /\ Packet = toListener[1] /\ 1 \in DOMAIN toListener /\ listening
      /\ NothingNew(toListener', toListener) /\ pc' = pc
      /\ Packet \in ListenerPackets
  BY ListenerAnswers, ReceiveFacts DEF senderVars, Receive
<1>1. /\ is_accepted => handle = "closed" /\ unflushed = NoBlock
      /\ pc \in HashPhase /\ Packet.ok => Packet.type = "HASH"
      /\ Packet.ok /\ Packet.type = "HASH" => handle # "unset"
  BY <1>0 DEF SavedInv
<1>same. NothingNew(toSender, toSender)
  BY SameIsKept
<1>ack. /\ \A state \in {CONFIRM_CODE, NEGATIVE_CODE} : AckPacket(0, FALSE, state) \in SenderPackets
        /\ ~Confirms(AckPacket(0, FALSE, NEGATIVE_CODE))
  BY PacketTypes, ConstantTypes DEF AckPacket, Confirms, CONFIRM_CODE, NEGATIVE_CODE
<1>2. CASE ReceiveSync \/ ReceiveSyncOpenFails
  <2>1. Packet.ok /\ Packet.type = "SYNC"
    BY <1>2 DEF ReceiveSync, ReceiveSyncOpenFails
  <2>2. pc \in SyncPhase
    BY <1>0, <2>1, PromptFacts DEF PatientInv
  <2>3. ~is_accepted /\ pc \notin HashPhase
    BY <2>2, PromptFacts DEF TransferInv, SyncInv, SyncPhase, HashPhase
  <2>4. /\ is_accepted' = is_accepted
        /\ handle' = "open" \/ ~listening'
        /\ \/ toSender' = toSender
           \/ toSender' = Append(toSender, AckPacket(0, FALSE, CONFIRM_CODE))
    BY <1>2 DEF ReceiveSync, ReceiveSyncOpenFails, Reply
  <2> QED
    BY <1>0, <1>same, <1>ack, <2>3, <2>4, SavedAnswer
<1>3. CASE ReceiveData \/ ReceiveDataNoFile
  <2>1. Packet.ok /\ Packet.type = "DATA"
    BY <1>3 DEF ReceiveData, ReceiveDataNoFile
  <2>2. pc \notin HashPhase
    BY <1>1, <2>1
  <2>3. /\ is_accepted' = is_accepted /\ handle' = handle
        /\ is_accepted => unflushed' = unflushed
        /\ listening' => listening
        /\ \/ toSender' = toSender
           \/ toSender' = Append(toSender, AckPacket(Packet.n, Packet.last, CONFIRM_CODE))
    BY <1>0, <1>1, <1>3 DEF ReceiveData, ReceiveDataNoFile, Reply, fileVars
  <2>4. AckPacket(Packet.n, Packet.last, CONFIRM_CODE) \in SenderPackets
    BY <1>0, <2>1, PacketFields, PacketTypes
  <2> QED
    BY <1>0, <1>1, <1>same, <2>2, <2>3, <2>4, SavedAnswer
<1>4. CASE ReceiveHash
  <2>1. /\ is_accepted' /\ handle' = "closed" /\ unflushed' = NoBlock /\ listening' = listening
        /\ \/ toSender' = toSender
           \/ toSender' = Append(toSender, AckPacket(0, FALSE, CONFIRM_CODE))
    BY <1>4 DEF ReceiveHash, compare_hash, Reply
  <2> QED
    BY <1>0, <1>same, <1>ack, <2>1, SavedAnswer
<1>5. CASE ReceiveHashAgain
  <2>1. /\ is_accepted /\ UNCHANGED <<is_accepted, handle, unflushed, listening>>
        /\ \/ toSender' = toSender
           \/ toSender' = Append(toSender, AckPacket(0, FALSE, CONFIRM_CODE))
    BY <1>5 DEF ReceiveHashAgain, Reply, fileVars
  <2> QED
    BY <1>0, <1>1, <1>same, <1>ack, <2>1, SavedAnswer
<1>6. ~ReceiveHashNoFile
  BY <1>1 DEF ReceiveHashNoFile
<1>7. CASE ReceiveDamaged \/ ReceiveUnknown
  <2>1. /\ UNCHANGED <<is_accepted, handle, unflushed, listening>>
        /\ \/ toSender' = toSender
           \/ toSender' = Append(toSender, AckPacket(0, FALSE, NEGATIVE_CODE))
    BY <1>7 DEF ReceiveDamaged, ReceiveUnknown, Reply, listenerVars, fileVars
  <2> QED
    BY <1>0, <1>1, <1>same, <1>ack, <2>1, SavedAnswer
<1> QED
  BY <1>2, <1>3, <1>4, <1>5, <1>6, <1>7 DEF ListenerReceives

LEMMA SavedStep ==
  ASSUME Prompt, TypeInv, PatientInv, TransferInv, HashOut', SavedInv, [Next]_vars
  PROVE  SavedInv'
<1>0. /\ toListener \in Seq(ListenerPackets) /\ toSender \in Seq(SenderPackets)
      /\ is_accepted => handle = "closed" /\ unflushed = NoBlock
  BY DEF TypeInv, TypeOK, NetTypeOK, SavedInv
<1>1. CASE SenderStep /\ UNCHANGED listenerVars
  BY <1>1, TypeStep, SavedSender
<1>2. CASE ListenerReceives /\ UNCHANGED senderVars
  BY <1>2, SavedListener
<1>3. CASE (ListenerReceiveFails \/ ListenerGone) /\ UNCHANGED senderVars
  <2>1. NothingNew(toListener', toListener) /\ NothingNew(toSender', toSender)
    BY <1>0, <1>3, SameIsKept, TailFacts, KeptIsNothingNew DEF ListenerReceiveFails, ListenerGone
  <2>2. /\ UNCHANGED <<pc, is_accepted, handle>> /\ (listening' => listening)
        /\ unflushed' \in {unflushed, NoBlock}
    BY <1>3 DEF ListenerReceiveFails, ListenerGone, senderVars, listenerVars, fileVars
  <2> QED
    BY <1>0, <2>1, <2>2, SavedAnswer
<1>4. CASE NetworkStep /\ UNCHANGED <<senderVars, listenerVars>>
  <2>1. CASE Misbehave(toListener, toListener', ListenerTypes) /\ UNCHANGED toSender
    BY <1>0, <1>4, <2>1, MisbehaveNothingNew, SameIsKept, SavedAnswer
       DEF senderVars, listenerVars, fileVars
  <2>2. CASE Misbehave(toSender, toSender', {"ACK"}) /\ UNCHANGED toListener
    BY <1>0, <1>4, <2>2, MisbehaveNothingNew, SameIsKept, SavedAnswer
       DEF senderVars, listenerVars, fileVars
  <2> QED
    BY <1>4, <2>1, <2>2 DEF NetworkStep
<1>5. CASE UNCHANGED vars
  BY <1>0, <1>5, SameIsKept, SavedAnswer DEF vars, netVars, senderVars, listenerVars, fileVars
<1>6. ~Restart
  BY PromptFacts DEF Restart
<1> QED
  BY <1>1, <1>2, <1>3, <1>4, <1>5, <1>6 DEF Next, Idle, ListenerStep

LEMMA SavedInitially == Init => SavedInv
BY DEF Init, NetInit, SenderInit, ListenerInit, SavedInv, HashPhase, Transferring, DataPhase

LEMMA LastInvariant == Spec => []LastInv
<1>1. Init => LastInv
  BY DEF Init, NetInit, SenderInit, LastInv, DataPhase
<1> QED
  BY <1>1, LastStep, TypeInvariant, PTL DEF Spec

LEMMA RoundsInvariant ==
  ASSUME Prompt, SmallWindow
  PROVE  Spec => [](RoundInv /\ SavedInv)
<1>1. TypeInv /\ WindowInv /\ PatientInv /\ LastInv /\ RoundInv /\ [Next]_vars => RoundInv'
  BY RoundStep
<1>2. TypeInv /\ PatientInv /\ TransferInv /\ RoundInv' /\ SavedInv /\ [Next]_vars => SavedInv'
  <2>1. RoundInv' => HashOut'
    BY DEF RoundInv, OutInv, HashOut
  <2> QED
    BY <2>1, SavedStep
<1> QED
  BY <1>1, <1>2, RoundInitially, SavedInitially, TypeInvariant, WindowCorrect, PatientInvariant,
     LastInvariant, TransferCorrect, PTL DEF Spec

----------------------------------------------------------------------------
(* Without damage there is one pass.                                       *)

Undamaged == "corrupt" \notin Faults

ListenerIntact == \A k \in DOMAIN toListener : toListener[k].ok
SenderIntact == \A k \in DOMAIN toSender : Confirms(toSender[k])

\* Everything on its way is intact and nothing is refused.
IntactInv == depth = 0 /\ ListenerIntact /\ SenderIntact

LEMMA UndamagedFacts ==
  ASSUME Prompt, Undamaged, TypeInv
  PROVE  ~Restart /\ ~Fault("duplicate") /\ ~Fault("corrupt")
BY PromptFacts DEF Undamaged, Fault, Restart

\* Every datagram in new was in old.
Sub(new, old) == \A j \in DOMAIN new : \E k \in DOMAIN old : new[j] = old[k]

LEMMA TailIsSub ==
  ASSUME NEW S, NEW chan \in Seq(S), chan # <<>>
  PROVE  Sub(Tail(chan), chan)
BY TailFacts DEF Sub

LEMMA IntactNetwork ==
  ASSUME NEW S, NEW chan \in Seq(S), NEW new, NEW types, Misbehave(chan, new, types),
         ~Fault("duplicate"), ~Fault("corrupt")
  PROVE  Sub(new, chan)
<1>0. DOMAIN chan = 1 .. Len(chan) /\ Len(chan) \in Nat
  BY LenProperties
<1>1. CASE Lose(chan, new)
  <2>1. PICK k \in DOMAIN chan : new = Without(chan, k)
    BY <1>1 DEF Lose
  <2>2. /\ new \in Seq(S) /\ Len(new) = Len(chan) - 1
        /\ \A m \in 1 .. Len(chan) - 1 : new[m] = chan[IF m < k THEN m ELSE m + 1]
    BY <2>1, WithoutFacts
  <2>3. DOMAIN new = 1 .. Len(chan) - 1
    BY <2>2, LenProperties
  <2> QED
    BY <1>0, <2>2, <2>3 DEF Sub
<1>2. CASE Overtake(chan, new)
  <2>1. PICK k \in DOMAIN chan : new = Append(Without(chan, k), chan[k])
    BY <1>2 DEF Overtake
  <2> DEFINE rest == Without(chan, k)
  <2>2. /\ rest \in Seq(S) /\ Len(rest) = Len(chan) - 1
        /\ \A m \in 1 .. Len(chan) - 1 : rest[m] = chan[IF m < k THEN m ELSE m + 1]
    BY WithoutFacts
  <2>3. DOMAIN rest = 1 .. Len(chan) - 1 /\ chan[k] \in S
    BY <1>0, <2>2, LenProperties, ElementOfSeq
  <2> HIDE DEF rest
  <2>4. /\ DOMAIN new = DOMAIN rest \cup {Len(rest) + 1}
        /\ \A m \in DOMAIN rest : new[m] = rest[m]
        /\ new[Len(rest) + 1] = chan[k]
    BY <2>1, <2>2, <2>3, AppendFacts DEF rest
  <2>5. \A m \in DOMAIN rest : \E j \in DOMAIN chan : new[m] = chan[j]
    BY <1>0, <2>2, <2>3, <2>4
  <2> QED
    BY <2>4, <2>5 DEF Sub
<1> QED
  BY <1>1, <1>2 DEF Misbehave, Duplicate, Corrupt

\* What the sender sends is intact, and nothing damages it.
LEMMA ToListenerIntact ==
  ASSUME Prompt, Undamaged, TypeInv, [Next]_vars, ListenerIntact
  PROVE  ListenerIntact'
<1> USE DEF ListenerIntact
<1>0. toListener \in Seq(ListenerPackets)
  BY DEF TypeInv, TypeOK, NetTypeOK
<1>1. Sub(toListener', toListener) => ListenerIntact'
  BY DEF Sub
<1>same. toListener' = toListener => ListenerIntact'
  OBVIOUS
<1>append. ASSUME NEW p \in ListenerPackets, p.ok, toListener' = Append(toListener, p)
           PROVE  ListenerIntact'
  BY <1>0, <1>append, AppendFacts
<1>2. CASE SenderStep
  <2>1. session \in Files
    BY DEF TypeInv, TypeOK, SenderTypeOK
  <2>2. /\ SyncPacket(session).ok /\ SyncPacket(session) \in ListenerPackets
        /\ HashPacket(session).ok /\ HashPacket(session) \in ListenerPackets
        /\ \A n \in PacketNs :
             DataPacket(session, n).ok /\ DataPacket(session, n) \in ListenerPackets
    BY <2>1, PacketTypes DEF SyncPacket, HashPacket, DataPacket
  <2>3. CASE SendSync \/ SendHash
    BY <1>same, <1>append, <2>2, <2>3 DEF SendSync, SendHash, SendTo, SendToFails
  <2>4. CASE SendNewPacket
    <3>1. first_unsent_packet_n \in Nat /\ LastPacket \in Nat
      BY ConstantTypes DEF TypeInv, TypeOK, SenderTypeOK
    <3>2. first_unsent_packet_n \in PacketNs
      BY <2>4, <3>1 DEF SendNewPacket, TypeInv, NumberInv, PacketNs
    <3> QED
      BY <1>same, <1>append, <2>2, <2>4, <3>2 DEF SendNewPacket, SendTo, SendToFails
  <2>5. CASE ResendPacket
    <3>1. unconfirmed_packets[i] \in PacketNs
      BY <2>5 DEF ResendPacket, Slots, TypeInv, TypeOK, SenderTypeOK
    <3> QED
      BY <1>same, <1>append, <2>2, <2>5, <3>1 DEF ResendPacket, SendTo, SendToFails
  <2>6. ASSUME SenderRuns, ~SendSync, ~SendHash, ~SendNewPacket, ~ResendPacket
        PROVE  toListener' = toListener
    BY <2>6 DEF SenderRuns, SyncTimeout, StartRound, FinishData, SkipSlot, StartReceiving, EndRound,
       HashTimeout, netVars
  <2>7. ASSUME SenderReceives PROVE toListener' = toListener
    BY <2>7 DEF SenderReceives, SyncRefused, SyncConfirmed, AckRefused, AckConfirmed,
       HashAckDamaged, HashRefused, HashConfirmed, TakeAck
  <2> QED
    BY <1>2, <1>same, <2>3, <2>4, <2>5, <2>6, <2>7
       DEF SenderStep, ReceiveFails, OpenFails, NextTransfer, SenderGone, netVars
<1>3. CASE ListenerStep
  <2>1. \/ toListener # <<>> /\ toListener' = Tail(toListener)
        \/ toListener' = toListener
        \/ Restart
    BY <1>3 DEF ListenerStep, ListenerReceives, ReceiveSync, ReceiveSyncOpenFails, ReceiveData,
       ReceiveDataNoFile, ReceiveHash, ReceiveHashAgain, ReceiveHashNoFile, ReceiveDamaged,
       ReceiveUnknown, ListenerGone, ListenerReceiveFails, Receive
  <2>2. ~Restart
    BY UndamagedFacts
  <2> QED
    BY <1>0, <1>1, <1>same, <2>1, <2>2, TailIsSub
<1>4. CASE NetworkStep
  BY <1>0, <1>1, <1>same, <1>4, UndamagedFacts, IntactNetwork DEF NetworkStep
<1>5. CASE UNCHANGED vars
  BY <1>5, <1>same DEF vars, netVars
<1> QED
  BY <1>2, <1>3, <1>4, <1>5 DEF Next, Idle

\* What the listener answers to it is positive.
LEMMA ToSenderIntact ==
  ASSUME Prompt, Undamaged, TypeInv, [Next]_vars, ListenerIntact, SenderIntact
  PROVE  SenderIntact'
<1> USE DEF ListenerIntact, SenderIntact
<1>0. toSender \in Seq(SenderPackets)
  BY DEF TypeInv, TypeOK, NetTypeOK
<1>1. Sub(toSender', toSender) => SenderIntact'
  BY DEF Sub, Confirms
<1>same. toSender' = toSender => SenderIntact'
  OBVIOUS
<1>append. ASSUME NEW a \in SenderPackets, Confirms(a), toSender' = Append(toSender, a)
           PROVE  SenderIntact'
  BY <1>0, <1>append, AppendFacts
<1>2. CASE SenderStep
  <2>1. ASSUME SenderRuns PROVE toSender' = toSender
    BY <2>1 DEF SenderRuns, SendSync, SyncTimeout, StartRound, FinishData, SendNewPacket,
       ResendPacket, SkipSlot, StartReceiving, EndRound, SendHash, HashTimeout, netVars
  <2>2. ASSUME SenderReceives PROVE TakeAck
    BY <2>2 DEF SenderReceives, SyncRefused, SyncConfirmed, AckRefused, AckConfirmed,
       HashAckDamaged, HashRefused, HashConfirmed
  <2>3. \/ toSender' = toSender
        \/ toSender # <<>> /\ toSender' = Tail(toSender)
    BY <1>2, <2>1, <2>2
       DEF SenderStep, TakeAck, ReceiveFails, OpenFails, NextTransfer, SenderGone, netVars
  <2> QED
    BY <1>0, <1>1, <1>same, <2>3, TailIsSub
<1>3. CASE ListenerStep
  <2>1. \A n \in PacketNs, last \in BOOLEAN :
          /\ AckPacket(n, last, CONFIRM_CODE) \in SenderPackets
          /\ Confirms(AckPacket(n, last, CONFIRM_CODE))
    BY PacketTypes DEF AckPacket, Confirms
  <2>2. 0 \in PacketNs /\ FALSE \in BOOLEAN
    BY ConstantTypes
  <2>3. CASE ReceiveData \/ ReceiveDataNoFile
    <3>1. Receive /\ Packet.ok /\ Packet.type = "DATA"
      BY <2>3 DEF ReceiveData, ReceiveDataNoFile
    <3>2. Packet.n \in PacketNs /\ Packet.last \in BOOLEAN
      BY <3>1, ReceiveFacts, PacketFields
    <3>3. \/ toSender' = toSender
          \/ toSender' = Append(toSender, AckPacket(Packet.n, Packet.last, CONFIRM_CODE))
      BY <2>3, <3>1, ReceiveFacts DEF ReceiveData, ReceiveDataNoFile
    <3> QED
      BY <1>same, <1>append, <2>1, <3>2, <3>3
  <2>4. CASE ReceiveSync \/ ReceiveSyncOpenFails \/ ReceiveHash \/ ReceiveHashAgain \/ ReceiveHashNoFile
    <3>1. Receive
      BY <2>4 DEF ReceiveSync, ReceiveSyncOpenFails, ReceiveHash, ReceiveHashAgain, ReceiveHashNoFile
    <3>2. toSender' = toSender \/ toSender' = Append(toSender, AckPacket(0, FALSE, CONFIRM_CODE))
      BY <2>4, <3>1, ReceiveFacts DEF ReceiveSync, ReceiveSyncOpenFails, ReceiveHash, ReceiveHashAgain,
         ReceiveHashNoFile, compare_hash
    <3> QED
      BY <1>same, <1>append, <2>1, <2>2, <3>2
  <2>5. ~ReceiveDamaged
    BY ReceiveFacts DEF ReceiveDamaged
  <2>6. CASE ReceiveUnknown \/ ListenerReceiveFails \/ Restart \/ ListenerGone
    BY <1>same, <2>6 DEF ReceiveUnknown, ListenerReceiveFails, Restart, ListenerGone
  <2> QED
    BY <1>3, <2>3, <2>4, <2>5, <2>6 DEF ListenerStep, ListenerReceives
<1>4. CASE NetworkStep
  BY <1>0, <1>1, <1>same, <1>4, UndamagedFacts, IntactNetwork DEF NetworkStep
<1>5. CASE UNCHANGED vars
  BY <1>5, <1>same DEF vars, netVars
<1> QED
  BY <1>2, <1>3, <1>4, <1>5 DEF Next, Idle

LEMMA IntactStep ==
  ASSUME Prompt, Undamaged, TypeInv, IntactInv, [Next]_vars
  PROVE  IntactInv'
<1>1. ListenerIntact' /\ SenderIntact'
  BY ToListenerIntact, ToSenderIntact DEF IntactInv
<1>2. toSender # <<>> => Confirms(Ack)
  <2>1. toSender # <<>> => 1 \in DOMAIN toSender /\ Ack = toSender[1]
    BY TailFacts DEF TypeInv, TypeOK, NetTypeOK, Ack
  <2> QED
    BY <2>1 DEF IntactInv, SenderIntact
<1>3. ~HashRefused
  BY <1>2 DEF HashRefused, TakeAck, Confirms, CONFIRM_CODE, NEGATIVE_CODE
<1>4. ~NextTransfer
  BY PromptFacts DEF NextTransfer, Prompt
<1>5. CASE SenderStep
  <2>1. ASSUME SenderRuns PROVE depth' = depth
    BY <2>1 DEF SenderRuns, SendSync, SyncTimeout, StartRound, FinishData, SendNewPacket,
       ResendPacket, SkipSlot, StartReceiving, EndRound, SendHash, HashTimeout
  <2>2. ASSUME SenderReceives PROVE depth' = depth
    BY <1>3, <2>2 DEF SenderReceives, SyncRefused, SyncConfirmed, AckRefused, AckConfirmed,
       HashAckDamaged, HashConfirmed, IntactInv
  <2>3. depth' = depth
    BY <1>4, <1>5, <2>1, <2>2 DEF SenderStep, ReceiveFails, OpenFails, SenderGone, senderVars
  <2> QED
    BY <1>1, <2>3 DEF IntactInv
<1>6. CASE UNCHANGED senderVars
  BY <1>1, <1>6 DEF IntactInv, senderVars
<1> QED
  BY <1>5, <1>6 DEF Next, Idle, vars

----------------------------------------------------------------------------
(* Without faults on the line no window is too large.                      *)

\* The only faults are failing system calls, and the file has two packets.
CleanLine == LastPacket >= 1 /\ Faults \subseteq {"sendfail", "recvfail", "openfail"}

\* Every round of the window takes in all its answers.
RoundsOut ==
  /\ pc = "check" => Out = 0
  /\ pc = "send" => Out <= i - 1
  /\ pc = "recv" => Out <= WindowSize - i + 1

\* The ACKs on their way and behind them the packets, in the order of their
\* numbers.
Increasing(chan) == \A j, k \in DOMAIN chan : j < k => chan[j].n < chan[k].n
Ahead(acks, packets) == \A j \in DOMAIN acks, k \in DOMAIN packets : acks[j].n < packets[k].n
InLine(acks, packets) == Increasing(acks) /\ Increasing(packets) /\ Ahead(acks, packets)

\* No packet is sent twice.  What waits in the window is out as long as
\* somebody listens, so that the ACK of the last packet is the last one.
InTransit(n) ==
  \/ \E k \in DOMAIN toListener : toListener[k].n = n
  \/ \E k \in DOMAIN toSender : toSender[k].n = n
Queue ==
  /\ LocalPort = client_port
  /\ InLine(toSender, toListener)
  /\ \A k \in DOMAIN toListener :
       toListener[k].type = "DATA" /\ toListener[k].n < first_unsent_packet_n
  /\ \A k \in DOMAIN toSender :
       /\ toSender[k].n < first_unsent_packet_n
       /\ toSender[k].last => toSender[k].n >= LastPacket
  /\ listening => \A s \in Slots :
       unconfirmed_packets[s] = None \/ InTransit(unconfirmed_packets[s])
  /\ pc = "send" => \A s \in Slots : s >= i => unconfirmed_packets[s] = None

\* Or else nobody answers any more.
Deaf == toSender = <<>> /\ (~listening \/ LocalPort # client_port)

CleanInv ==
  /\ HashOut /\ RoundsOut /\ LastNumber
  /\ pc \in DataPhase => Deaf \/ Queue

LEMMA CleanFacts ==
  ASSUME Prompt, CleanLine, TypeInv, IntactInv
  PROVE  /\ Undamaged /\ ~NetworkStep /\ ~Restart /\ ~NextTransfer
         /\ ~SyncRefused /\ ~AckRefused /\ ~HashAckDamaged /\ ~HashRefused
<1>1. Undamaged
  BY DEF CleanLine, Undamaged
<1>2. ~NetworkStep
  BY DEF CleanLine, NetworkStep, Misbehave, Lose, Duplicate, Overtake, Corrupt, Fault
<1>3. ~Restart /\ ~NextTransfer
  BY PromptFacts DEF Restart, NextTransfer, Prompt
<1>4. toSender # <<>> => Confirms(Ack)
  <2>1. toSender # <<>> => 1 \in DOMAIN toSender /\ Ack = toSender[1]
    BY TailFacts DEF TypeInv, TypeOK, NetTypeOK, Ack
  <2> QED
    BY <2>1 DEF IntactInv, SenderIntact
<1>5. ~SyncRefused /\ ~AckRefused /\ ~HashAckDamaged /\ ~HashRefused
  BY <1>4 DEF SyncRefused, AckRefused, HashAckDamaged, HashRefused, TakeAck, Confirms, CONFIRM_CODE,
     NEGATIVE_CODE
<1> QED
  BY <1>1, <1>2, <1>3, <1>5

LEMMA LastNumberStep ==
  ASSUME TypeInv, LastNumber, [Next]_vars
  PROVE  LastNumber'
<1>0. first_unsent_packet_n \in Nat /\ LastPacket \in Nat
  BY ConstantTypes DEF TypeInv, TypeOK, SenderTypeOK
<1>1. CASE UNCHANGED windowVars
  BY <1>1 DEF windowVars, LastNumber
<1>2. CASE EnterData \/ NextTransfer
  BY <1>0, <1>2 DEF EnterData, NextTransfer, LastNumber
<1>3. CASE SendNewPacket
  <2> DEFINE n == first_unsent_packet_n
  <2>1. /\ last_packet_n = 0
        /\ last_packet_n' = IF n >= LastPacket THEN n ELSE last_packet_n
        /\ first_unsent_packet_n' \in {n, n + 1}
    BY <1>3 DEF SendNewPacket, AtEof
  <2> QED
    BY <1>0, <2>1 DEF LastNumber
<1>4. CASE AckConfirmed
  BY <1>4 DEF AckConfirmed, LastNumber
<1> QED
  BY <1>1, <1>2, <1>3, <1>4, WindowChanges

\* What moves along the line stays in line.
LEMMA LineTaken ==
  ASSUME NEW A, NEW L, NEW acks \in Seq(A), NEW packets \in Seq(L), InLine(acks, packets),
         acks # <<>>
  PROVE  /\ InLine(Tail(acks), packets)
         /\ \A k \in DOMAIN Tail(acks) : Head(acks).n < Tail(acks)[k].n
         /\ \A k \in DOMAIN packets : Head(acks).n < packets[k].n
<1>1. /\ 1 \in DOMAIN acks /\ Head(acks) = acks[1]
      /\ \A j \in DOMAIN Tail(acks) :
           j \in Nat \ {0} /\ j + 1 \in DOMAIN acks /\ Tail(acks)[j] = acks[j + 1]
  <2>1. Tail(acks) \in Seq(A)
    BY TailFacts
  <2>2. DOMAIN Tail(acks) = 1 .. Len(Tail(acks)) /\ Len(Tail(acks)) \in Nat
    BY <2>1, LenProperties
  <2> QED
    BY <2>2, TailFacts
<1> QED
  BY <1>1 DEF InLine, Increasing, Ahead

LEMMA LineAnswered ==
  ASSUME NEW A, NEW L, NEW acks \in Seq(A), NEW packets \in Seq(L), InLine(acks, packets),
         packets # <<>>
  PROVE  /\ InLine(acks, Tail(packets))
         /\ \A a \in A : a.n = Head(packets).n => InLine(Append(acks, a), Tail(packets))
<1>1. /\ 1 \in DOMAIN packets /\ Head(packets) = packets[1]
      /\ \A j \in DOMAIN Tail(packets) :
           j \in Nat \ {0} /\ j + 1 \in DOMAIN packets /\ Tail(packets)[j] = packets[j + 1]
  <2>1. Tail(packets) \in Seq(L)
    BY TailFacts
  <2>2. DOMAIN Tail(packets) = 1 .. Len(Tail(packets)) /\ Len(Tail(packets)) \in Nat
    BY <2>1, LenProperties
  <2> QED
    BY <2>2, TailFacts
<1>2. InLine(acks, Tail(packets))
  BY <1>1 DEF InLine, Increasing, Ahead
<1>3. ASSUME NEW a \in A, a.n = Head(packets).n
      PROVE  InLine(Append(acks, a), Tail(packets))
  <2>1. /\ DOMAIN Append(acks, a) = DOMAIN acks \cup {Len(acks) + 1}
        /\ \A j \in DOMAIN acks : Append(acks, a)[j] = acks[j]
        /\ Append(acks, a)[Len(acks) + 1] = a
    BY AppendFacts
  <2>2. DOMAIN acks = 1 .. Len(acks) /\ Len(acks) \in Nat
    BY LenProperties
  <2>3. \A j \in DOMAIN acks : acks[j].n < a.n
    BY <1>1, <1>3 DEF InLine, Ahead
  <2>4. \A k \in DOMAIN Tail(packets) : a.n < Tail(packets)[k].n
    BY <1>1, <1>3 DEF InLine, Increasing
  <2>5. Increasing(Append(acks, a))
    BY <2>1, <2>2, <2>3 DEF InLine, Increasing
  <2>6. Ahead(Append(acks, a), Tail(packets))
    BY <1>2, <2>1, <2>4 DEF InLine, Ahead
  <2> QED
    BY <1>2, <2>5, <2>6 DEF InLine
<1> QED
  BY <1>2, <1>3

LEMMA LineSent ==
  ASSUME NEW A, NEW L, NEW acks \in Seq(A), NEW packets \in Seq(L), InLine(acks, packets),
         NEW p \in L,
         \A j \in DOMAIN acks : acks[j].n < p.n,
         \A k \in DOMAIN packets : packets[k].n < p.n
  PROVE  InLine(acks, Append(packets, p))
<1>1. /\ DOMAIN Append(packets, p) = DOMAIN packets \cup {Len(packets) + 1}
      /\ \A j \in DOMAIN packets : Append(packets, p)[j] = packets[j]
      /\ Append(packets, p)[Len(packets) + 1] = p
  BY AppendFacts
<1>2. DOMAIN packets = 1 .. Len(packets) /\ Len(packets) \in Nat
  BY LenProperties
<1>3. Increasing(Append(packets, p))
  BY <1>1, <1>2 DEF InLine, Increasing
<1>4. Ahead(acks, Append(packets, p))
  BY <1>1 DEF InLine, Ahead
<1> QED
  BY <1>3, <1>4 DEF InLine

LEMMA QueueNumbers ==
  ASSUME TypeInv, IntactInv, Queue
  PROVE  /\ toListener \in Seq(ListenerPackets) /\ toSender \in Seq(SenderPackets)
         /\ \A k \in DOMAIN toListener : toListener[k].n \in Nat
         /\ \A k \in DOMAIN toSender : toSender[k].n \in Nat
<1>1. toListener \in Seq(ListenerPackets) /\ toSender \in Seq(SenderPackets)
  BY DEF TypeInv, TypeOK, NetTypeOK
<1>2. /\ \A k \in DOMAIN toListener : toListener[k] \in ListenerPackets
      /\ \A k \in DOMAIN toSender : toSender[k] \in SenderPackets
  BY <1>1, LenProperties, ElementOfSeq
<1>3. PacketNs \subseteq Nat
  BY DEF PacketNs
<1>4. /\ \A k \in DOMAIN toListener : toListener[k].n \in PacketNs
      /\ \A k \in DOMAIN toSender : toSender[k].n \in PacketNs
  BY <1>2, PacketFields DEF IntactInv, ListenerIntact, SenderIntact, Confirms, Queue
<1> QED
  BY <1>1, <1>3, <1>4

\* The ACK of the last packet leaves nothing behind it.
LEMMA LastAckIsLast ==
  ASSUME Prompt, CleanLine, TypeInv, TypeInv', IntactInv, CleanInv, AckConfirmed, Ack.last
  PROVE  Out' = 0
<1>0. /\ toSender # <<>> /\ toSender' = Tail(toSender) /\ toListener' = toListener
      /\ pc \in DataPhase
  BY DEF AckConfirmed, TakeAck, DataPhase
<1>1. Queue
  BY <1>0 DEF CleanInv, Deaf
<1>2. /\ toListener \in Seq(ListenerPackets) /\ toSender \in Seq(SenderPackets)
      /\ \A k \in DOMAIN toListener : toListener[k].n \in Nat
      /\ \A k \in DOMAIN toSender : toSender[k].n \in Nat
  BY <1>1, QueueNumbers
<1>3. /\ \A k \in DOMAIN Tail(toSender) : Ack.n < Tail(toSender)[k].n
      /\ \A k \in DOMAIN toListener : Ack.n < toListener[k].n
  BY <1>0, <1>1, <1>2, LineTaken DEF Queue, Ack
<1>4. Ack.n \in Nat /\ Ack.n >= LastPacket
  BY <1>0, <1>1, <1>2, TailFacts DEF Queue, Ack
<1>5. /\ first_unsent_packet_n \in Nat /\ LastPacket \in Nat
      /\ first_unsent_packet_n <= LastPacket + 1
  BY ConstantTypes DEF TypeInv, TypeOK, SenderTypeOK, CleanInv, LastNumber, CleanLine
<1>6. DOMAIN toListener = {}
  BY <1>1, <1>2, <1>3, <1>4, <1>5 DEF Queue
<1>7. DOMAIN Tail(toSender) = {}
  <2>1. \A k \in DOMAIN Tail(toSender) :
          Tail(toSender)[k].n < first_unsent_packet_n /\ Tail(toSender)[k].n \in Nat
    BY <1>0, <1>1, <1>2, TailFacts DEF Queue
  <2> QED
    BY <1>3, <1>4, <1>5, <2>1
<1>8. Len(Tail(toSender)) = 0 /\ Len(toListener) = 0
  <2>1. Tail(toSender) \in Seq(SenderPackets)
    BY <1>0, <1>2, TailFacts
  <2>2. /\ Len(Tail(toSender)) \in Nat /\ DOMAIN Tail(toSender) = 1 .. Len(Tail(toSender))
        /\ Len(toListener) \in Nat /\ DOMAIN toListener = 1 .. Len(toListener)
    BY <1>2, <2>1, LenProperties
  <2>3. \A n \in Nat : n # 0 => 1 \in 1 .. n
    OBVIOUS
  <2> QED
    BY <1>6, <1>7, <2>2, <2>3
<1> QED
  BY <1>0, <1>8 DEF Out

\* The sender's steps: how much is out.
LEMMA CleanCounts ==
  ASSUME Prompt, CleanLine, TypeInv, TypeInv', PatientInv, IntactInv, CleanInv, SenderStep
  PROVE  HashOut' /\ RoundsOut'
<1>o. PICK o \in Nat : Out = o
  BY OutChanges, PromptStays
<1>0. /\ pc = "check" => o = 0
      /\ pc = "send" => o <= i - 1
      /\ pc = "recv" => o <= WindowSize - i + 1
      /\ pc = "hash_send" => o = 0
      /\ pc = "hash_wait" => o <= 1
      /\ pc = "sync_wait" => o <= 1
  BY <1>o, PromptFacts DEF CleanInv, HashOut, RoundsOut, PatientInv, Out
<1>i. i \in 1 .. WindowSize + 1 /\ WindowSize \in Nat
  BY ConstantTypes DEF TypeInv, TypeOK, SenderTypeOK
<1>1. /\ \A p : SendTo(p) /\ UNCHANGED toSender => Out' = o + 1
      /\ TakeAck => Out' = o - 1 /\ o > 0
      /\ UNCHANGED <<toListener, toSender>> => Out' = o
      /\ SelectTimesOut /\ UNCHANGED <<toListener, toSender>> => Out' = 0
  <2>1. TakeAck => Out' = o - 1
    BY <1>o, OutChanges, PromptStays
  <2>2. Out' \in Nat
    BY OutIsNumber
  <2>3. TakeAck => o > 0
    BY <1>o, <2>1, <2>2
  <2> QED
    BY <1>o, <2>1, <2>3, OutChanges, PromptStays
<1>gone. ASSUME pc' \notin DataPhase \cup HashPhase PROVE HashOut' /\ RoundsOut'
  BY <1>gone DEF HashOut, RoundsOut, DataPhase, HashPhase
<1>none. Out' = 0 /\ pc' \in {"check", "hash_send", "hash_wait"} => HashOut' /\ RoundsOut'
  BY DEF HashOut, RoundsOut
<1>2. CASE SendSync \/ SyncTimeout \/ ReceiveFails \/ OpenFails
  BY <1>2, <1>gone DEF SendSync, SyncTimeout, ReceiveFails, OpenFails, DataPhase, HashPhase
<1>3. CASE SyncConfirmed \/ HashConfirmed
  <2>1. TakeAck /\ o <= 1 /\ pc' \in {"check", "hash_send", "done"}
    BY <1>0, <1>3 DEF SyncConfirmed, HashConfirmed, EnterData
  <2>2. Out' = 0
    BY <1>1, <2>1
  <2> QED
    BY <1>gone, <1>none, <2>1, <2>2 DEF DataPhase, HashPhase
<1>4. CASE StartRound
  <2>1. pc = "check" /\ pc' = "send" /\ i' = 1 /\ UNCHANGED <<toListener, toSender>>
    BY <1>4 DEF StartRound, netVars
  <2> QED
    BY <1>0, <1>1, <2>1 DEF HashOut, RoundsOut
<1>5. CASE FinishData
  <2>1. pc = "check" /\ pc' = "hash_send" /\ UNCHANGED <<toListener, toSender>>
    BY <1>5 DEF FinishData, netVars
  <2> QED
    BY <1>0, <1>1, <1>none, <2>1
<1>6. CASE SendNewPacket \/ ResendPacket \/ SkipSlot
  <2>1. /\ pc = "send" /\ pc' = "send" /\ i' = i + 1 /\ UNCHANGED toSender
        /\ (\E p : SendTo(p)) \/ UNCHANGED toListener
    BY <1>6 DEF SendNewPacket, ResendPacket, SkipSlot, SendToFails, netVars
  <2>2. Out' = o + 1 \/ Out' = o
    BY <1>1, <2>1
  <2> QED
    BY <1>0, <1>i, <2>1, <2>2 DEF HashOut, RoundsOut
<1>7. CASE StartReceiving
  <2>1. pc = "send" /\ pc' = "recv" /\ i > WindowSize /\ i' = 1 /\ UNCHANGED <<toListener, toSender>>
    BY <1>7 DEF StartReceiving, netVars
  <2>2. Out' = o /\ o <= WindowSize
    BY <1>0, <1>1, <1>i, <2>1
  <2> QED
    BY <1>i, <2>1, <2>2 DEF HashOut, RoundsOut
<1>8. CASE AckConfirmed
  <2>1. CASE Ack.last
    BY <1>8, <1>none, <2>1, LastAckIsLast DEF AckConfirmed
  <2>2. CASE ~Ack.last
    <3>1. pc = "recv" /\ pc' = "recv" /\ i' = i + 1 /\ TakeAck
      BY <1>8, <2>2 DEF AckConfirmed
    <3>2. Out' = o - 1 /\ o > 0
      BY <1>1, <3>1
    <3> QED
      BY <1>0, <1>i, <3>1, <3>2 DEF HashOut, RoundsOut
  <2> QED
    BY <2>1, <2>2
<1>9. CASE EndRound
  <2>1. pc = "recv" /\ pc' = "check" /\ UNCHANGED <<toListener, toSender>>
    BY <1>9 DEF EndRound
  <2>2. CASE SelectTimesOut
    BY <1>1, <1>none, <2>1, <2>2
  <2>3. CASE i > WindowSize
    <3>1. o = 0
      BY <1>0, <1>i, <2>1, <2>3
    <3> QED
      BY <1>1, <1>none, <2>1, <3>1
  <2> QED
    BY <1>9, <2>2, <2>3 DEF EndRound
<1>10. CASE SendHash
  <2>1. /\ pc = "hash_send" /\ pc' = "hash_wait" /\ UNCHANGED toSender
        /\ (\E p : SendTo(p)) \/ UNCHANGED toListener
    BY <1>10 DEF SendHash, SendToFails
  <2>2. Out' = 1 \/ Out' = 0
    BY <1>0, <1>1, <2>1
  <2> QED
    BY <2>1, <2>2 DEF HashOut, RoundsOut
<1>11. CASE HashTimeout
  BY <1>1, <1>11, <1>none DEF HashTimeout
<1>12. CASE SenderGone
  BY <1>12, <1>gone DEF SenderGone, senderVars, Ended, DataPhase, HashPhase
<1> QED
  BY <1>2, <1>3, <1>4, <1>5, <1>6, <1>7, <1>8, <1>9, <1>10, <1>11, <1>12, CleanFacts
  DEF SenderStep, SenderRuns, SenderReceives

\* A round begins with an empty line.
LEMMA QueueEmpty ==
  ASSUME TypeInv', Out' = 0, listening' => \A s \in Slots : unconfirmed_packets'[s] = None
  PROVE  (Deaf \/ Queue)'
<1>1. /\ toListener' \in Seq(ListenerPackets) /\ toSender' \in Seq(SenderPackets)
      /\ Len(toListener') \in Nat /\ Len(toSender') \in Nat
  BY LenProperties DEF TypeInv, TypeOK, NetTypeOK
<1>2. Len(toListener') = 0 /\ Len(toSender') = 0
  BY <1>1 DEF Out
<1>3. toListener' = <<>> /\ toSender' = <<>> /\ DOMAIN toListener' = {} /\ DOMAIN toSender' = {}
  BY <1>1, <1>2, EmptySeq, LenProperties
<1>4. CASE ~listening' \/ LocalPort # client_port
  BY <1>3, <1>4 DEF Deaf
<1>5. ASSUME listening', LocalPort = client_port PROVE Queue'
  <2>1. InLine(toSender', toListener')
    BY <1>3 DEF InLine, Increasing, Ahead
  <2> QED
    BY <1>3, <1>5, <2>1 DEF Queue
<1> QED
  BY <1>3, <1>5 DEF Deaf

\* The sender's steps: the line.
LEMMA QueueSent ==
  ASSUME Prompt, CleanLine, TypeInv, TypeInv', WindowInv, IntactInv, Queue, SendNewPacket,
         UNCHANGED listenerVars
  PROVE  Queue'
<1> DEFINE n == first_unsent_packet_n
           p == DataPacket(session, n)
<1>0. /\ toListener \in Seq(ListenerPackets) /\ toSender \in Seq(SenderPackets)
      /\ \A k \in DOMAIN toListener : toListener[k].n \in Nat
      /\ \A k \in DOMAIN toSender : toSender[k].n \in Nat
      /\ unconfirmed_packets \in [Slots -> PacketNs \cup {None}]
      /\ i \in Slots /\ Slots \subseteq Nat /\ n \in Nat
  BY QueueNumbers, ConstantTypes DEF TypeInv, TypeOK, SenderTypeOK, SendNewPacket, Slots
<1>1. /\ pc' = "send" /\ i' = i + 1 /\ toSender' = toSender /\ listening' = listening
      /\ last_packet_n = 0
      /\ unconfirmed_packets[i] = None
      /\ \A s \in Slots : s >= i => unconfirmed_packets[s] = None
      /\ LocalPort = client_port
  BY DEF SendNewPacket, Queue, listenerVars
<1>2. CASE SendToFails /\ UNCHANGED <<unconfirmed_packets, first_unsent_packet_n>>
  <2>1. toListener' = toListener
    BY <1>2 DEF SendToFails
  <2>2. \A m : InTransit(m)' <=> InTransit(m)
    BY <1>1, <2>1 DEF InTransit
  <2>3. InLine(toSender', toListener')
    BY <1>1, <2>1 DEF Queue
  <2>4. \A s \in Slots : s >= i + 1 => unconfirmed_packets[s] = None
    BY <1>0, <1>1
  <2> QED
    BY <1>1, <1>2, <2>1, <2>2, <2>3, <2>4 DEF Queue
<1>3. CASE /\ SendTo(p)
           /\ unconfirmed_packets' = [unconfirmed_packets EXCEPT ![i] = n]
           /\ first_unsent_packet_n' = n + 1
  <2>1. p \in ListenerPackets /\ p.n = n /\ p.type = "DATA"
    <3>1. n \in PacketNs
      BY <1>0, <1>1, ConstantTypes DEF TypeInv, NumberInv, PacketNs
    <3> QED
      BY <3>1, PacketTypes DEF DataPacket, TypeInv, TypeOK, SenderTypeOK
  <2> HIDE DEF p
  <2>2. toListener' = Append(toListener, p)
    BY <1>3 DEF SendTo
  <2>3. /\ DOMAIN toListener' = DOMAIN toListener \cup {Len(toListener) + 1}
        /\ \A k \in DOMAIN toListener : toListener'[k] = toListener[k]
        /\ toListener'[Len(toListener) + 1] = p
    BY <1>0, <2>1, <2>2, AppendFacts
  <2>4. InLine(toSender', toListener')
    BY <1>0, <1>1, <2>1, <2>2, LineSent DEF Queue
  <2>5. \A s \in Slots : unconfirmed_packets'[s] = IF s = i THEN n ELSE unconfirmed_packets[s]
    BY <1>0, <1>3
  <2>6. \A k \in DOMAIN toListener' :
          toListener'[k].type = "DATA" /\ toListener'[k].n < n + 1
    BY <1>0, <2>1, <2>3 DEF Queue
  <2>7. \A k \in DOMAIN toSender' :
          /\ toSender'[k].n < n + 1
          /\ toSender'[k].last => toSender'[k].n >= LastPacket
    BY <1>0, <1>1 DEF Queue
  <2>8. \A s \in Slots : s >= i + 1 => unconfirmed_packets'[s] = None
    BY <1>0, <1>1, <2>5
  <2>9. ASSUME listening', NEW s \in Slots, unconfirmed_packets'[s] # None
         PROVE  \/ \E k \in DOMAIN toListener' : toListener'[k].n = unconfirmed_packets'[s]
                \/ \E k \in DOMAIN toSender' : toSender'[k].n = unconfirmed_packets'[s]
    <3>1. CASE s = i
      BY <2>1, <2>3, <2>5, <3>1
    <3>2. CASE s # i
      <4>1. unconfirmed_packets'[s] = unconfirmed_packets[s]
        BY <2>5, <3>2
      <4>2. \/ \E k \in DOMAIN toListener : toListener[k].n = unconfirmed_packets[s]
            \/ \E k \in DOMAIN toSender : toSender[k].n = unconfirmed_packets[s]
        BY <1>1, <2>9, <4>1 DEF Queue, InTransit
      <4> QED
        BY <1>1, <2>3, <4>1, <4>2
    <3> QED
      BY <3>1, <3>2
  <2> QED
    BY <1>1, <1>3, <2>4, <2>6, <2>7, <2>8, <2>9 DEF Queue, InTransit
<1> QED
  BY <1>2, <1>3 DEF SendNewPacket

LEMMA QueueTakes ==
  ASSUME TypeInv, IntactInv, Queue, AckConfirmed, UNCHANGED listenerVars
  PROVE  Queue'
<1>0. /\ toListener \in Seq(ListenerPackets) /\ toSender \in Seq(SenderPackets)
      /\ toListener' = toListener /\ toSender # <<>> /\ toSender' = Tail(toSender)
      /\ listening' = listening /\ pc' \in {"check", "recv"}
      /\ first_unsent_packet_n' = first_unsent_packet_n
      /\ \A s \in Slots : unconfirmed_packets'[s] =
           IF unconfirmed_packets[s] = Ack.n THEN None ELSE unconfirmed_packets[s]
  BY QueueNumbers DEF AckConfirmed, TakeAck, listenerVars
<1>1. InLine(toSender', toListener')
  BY <1>0, LineTaken DEF Queue
<1>2. \A k \in DOMAIN toSender' : k + 1 \in DOMAIN toSender /\ toSender'[k] = toSender[k + 1]
  BY <1>0, TailFacts
<1>3. \A k \in DOMAIN toSender : k = 1 \/ (k - 1 \in DOMAIN toSender' /\ toSender'[k - 1] = toSender[k])
  <2>1. /\ DOMAIN toSender = 1 .. Len(toSender) /\ Len(toSender) \in Nat
        /\ DOMAIN Tail(toSender) = 1 .. Len(Tail(toSender)) /\ Len(Tail(toSender)) = Len(toSender) - 1
    BY <1>0, LenProperties, HeadTailProperties, TailFacts
  <2>2. \A k \in DOMAIN toSender : k = 1 \/ (k - 1 \in DOMAIN Tail(toSender) /\ (k - 1) + 1 = k)
    BY <2>1
  <2> QED
    BY <1>0, <1>2, <2>2
<1>4. Ack = toSender[1]
  BY <1>0, TailFacts DEF Ack
<1>5. \A s \in Slots : \/ unconfirmed_packets'[s] = None
                       \/ /\ unconfirmed_packets'[s] = unconfirmed_packets[s]
                          /\ unconfirmed_packets[s] # Ack.n
  BY <1>0
<1>6. ASSUME listening', NEW s \in Slots, unconfirmed_packets'[s] # None
      PROVE  \/ \E k \in DOMAIN toListener' : toListener'[k].n = unconfirmed_packets'[s]
             \/ \E k \in DOMAIN toSender' : toSender'[k].n = unconfirmed_packets'[s]
  <2>1. unconfirmed_packets'[s] = unconfirmed_packets[s] /\ unconfirmed_packets[s] # Ack.n
    BY <1>5, <1>6
  <2>2. \/ \E k \in DOMAIN toListener : toListener[k].n = unconfirmed_packets[s]
        \/ \E k \in DOMAIN toSender : toSender[k].n = unconfirmed_packets[s]
    BY <1>0, <1>6, <2>1 DEF Queue, InTransit
  <2> QED
    BY <1>0, <1>3, <1>4, <2>1, <2>2
<1> QED
  BY <1>0, <1>1, <1>2, <1>6 DEF Queue, InTransit

LEMMA QueueSender ==
  ASSUME Prompt, CleanLine, TypeInv, TypeInv', WindowInv, PatientInv, IntactInv, CleanInv,
         SenderStep, UNCHANGED listenerVars, pc' \in DataPhase
  PROVE  (Deaf \/ Queue)'
<1>1. /\ pc \in DataPhase \/ SyncConfirmed
      /\ listening' = listening
      /\ toSender' = toSender \/ toSender # <<>>
  BY CleanFacts
     DEF SenderStep, SenderRuns, SenderReceives, SendSync, SyncTimeout, StartRound, FinishData,
         SendNewPacket, ResendPacket, SkipSlot, StartReceiving, EndRound, SendHash, HashTimeout,
         SyncConfirmed, AckConfirmed, HashConfirmed, TakeAck, ReceiveFails, OpenFails, SenderGone,
         senderVars, netVars, listenerVars, DataPhase
<1>2. CASE SyncConfirmed
  <2>1. pc = "sync_wait" /\ TakeAck /\ EnterData
    BY <1>2 DEF SyncConfirmed
  <2>2. Out' = 0
    <3>1. PICK o \in Nat : Out = o /\ o <= 1 /\ Out' = o - 1
      BY <2>1, OutChanges, PromptStays, PromptFacts DEF PatientInv, Out
    <3>2. Out' \in Nat
      BY OutIsNumber
    <3> QED
      BY <3>1, <3>2
  <2>3. \A s \in Slots : unconfirmed_packets'[s] = None
    BY <2>1 DEF EnterData, EmptyWindow
  <2> QED
    BY <2>2, <2>3, QueueEmpty
<1>3. CASE Deaf /\ pc \in DataPhase
  BY <1>1, <1>3 DEF Deaf, SyncConfirmed, DataPhase
<1>4. ASSUME Queue, pc \in DataPhase, ~SyncConfirmed PROVE (Deaf \/ Queue)'
  <2>1. CASE StartRound
    <3>1. pc = "check" /\ UNCHANGED <<toListener, toSender, unconfirmed_packets>>
      BY <2>1 DEF StartRound, netVars, windowVars
    <3>2. Out = 0
      BY <3>1 DEF CleanInv, RoundsOut
    <3>3. Out' = 0
      BY <3>1, <3>2, OutChanges, PromptStays
    <3>4. DOMAIN toListener = {} /\ DOMAIN toSender = {}
      BY <3>2, NothingOut
    <3>5. listening' => \A s \in Slots : unconfirmed_packets'[s] = None
      BY <1>1, <1>4, <3>1, <3>4 DEF Queue, InTransit
    <3> QED
      BY <3>3, <3>5, QueueEmpty
  <2>2. CASE SendNewPacket
    BY <1>4, <2>2, QueueSent
  <2>3. ~ResendPacket
    <3>1. i \in 1 .. WindowSize + 1 /\ WindowSize \in Nat
      BY ConstantTypes DEF TypeInv, TypeOK, SenderTypeOK
    <3> QED
      BY <1>4, <3>1 DEF ResendPacket, Queue, Slots
  <2>4. CASE AckConfirmed
    BY <1>4, <2>4, QueueTakes
  <2>5. CASE SkipSlot \/ StartReceiving \/ EndRound
    <3>1. /\ UNCHANGED <<toListener, toSender, unconfirmed_packets, first_unsent_packet_n>>
          /\ pc' = "send" => pc = "send" /\ i' = i + 1
      BY <2>5 DEF SkipSlot, StartReceiving, EndRound, netVars, windowVars
    <3>2. i \in Nat /\ Slots \subseteq Nat
      BY DEF TypeInv, TypeOK, SenderTypeOK, Slots
    <3>3. pc' = "send" => \A s \in Slots : s >= i' => unconfirmed_packets'[s] = None
      BY <1>4, <3>1, <3>2 DEF Queue
    <3>4. InLine(toSender', toListener')
      BY <1>4, <3>1 DEF Queue
    <3> QED
      BY <1>1, <1>4, <3>1, <3>3, <3>4 DEF Queue, InTransit
  <2> QED
    BY <1>4, <2>1, <2>2, <2>3, <2>4, <2>5, CleanFacts
       DEF SenderStep, SenderRuns, SenderReceives, SendSync, SyncTimeout, FinishData, SendHash,
           HashTimeout, HashConfirmed, ReceiveFails, OpenFails, SenderGone, senderVars, DataPhase,
           Ended
<1> QED
  BY <1>1, <1>2, <1>3, <1>4 DEF CleanInv

\* An answer has the number and the flag of its packet.
LEMMA DataAnswered ==
  ASSUME TypeInv, LastInv, IntactInv, Queue, ListenerReceives
  PROVE  /\ toListener # <<>> /\ toListener' = Tail(toListener)
         /\ UNCHANGED senderVars => \/ ~listening' /\ toSender' = toSender
                                    \/ \E a \in SenderPackets :
                                         /\ toSender' = Append(toSender, a)
                                         /\ a.n = Head(toListener).n
                                         /\ a.last => a.n >= LastPacket
<1>1. Receive /\ toListener # <<>> /\ toListener' = Tail(toListener)
  BY ListenerAnswers DEF Receive
<1>2. /\ 1 \in DOMAIN toListener /\ Packet = toListener[1] /\ Packet \in ListenerPackets
      /\ Packet = Head(toListener)
  BY <1>1, ReceiveFacts DEF Packet
<1>3. Packet.ok /\ Packet.type = "DATA"
  BY <1>2 DEF Queue, IntactInv, ListenerIntact
<1>4. ReceiveData \/ ReceiveDataNoFile
  BY <1>3 DEF ListenerReceives, ReceiveSync, ReceiveSyncOpenFails, ReceiveHash, ReceiveHashAgain,
     ReceiveHashNoFile, ReceiveDamaged, ReceiveUnknown
<1> DEFINE a == AckPacket(Packet.n, Packet.last, CONFIRM_CODE)
<1>5. \/ ~listening' /\ toSender' = toSender
      \/ toSender' = Append(toSender, a)
  BY <1>4 DEF ReceiveData, ReceiveDataNoFile, Reply, Queue
<1>6. a \in SenderPackets /\ a.n = Packet.n /\ a.last = Packet.last
  BY <1>2, <1>3, PacketFields, PacketTypes DEF AckPacket
<1>7. Packet.last => Packet.n >= LastPacket
  BY <1>2, <1>3 DEF LastInv, DataFlag, AtEof
<1> HIDE DEF a
<1> QED
  BY <1>1, <1>2, <1>5, <1>6, <1>7

LEMMA QueueListener ==
  ASSUME Prompt, TypeInv, LastInv, IntactInv, CleanInv, ~Restart, ListenerStep,
         UNCHANGED senderVars, pc \in DataPhase
  PROVE  (Deaf \/ Queue)'
<1>0. /\ UNCHANGED <<pc, i, unconfirmed_packets, first_unsent_packet_n>>
      /\ listening' => listening
  <2>1. ListenerReceives => listening
    BY ListenerAnswers DEF Receive
  <2>2. ListenerReceiveFails \/ ListenerGone => (listening' => listening)
    BY DEF ListenerReceiveFails, ListenerGone, listenerVars
  <2> QED
    BY <2>1, <2>2 DEF ListenerStep, senderVars
<1>1. CASE Deaf
  <2>1. toSender' = toSender
    <3>1. CASE ListenerReceives
      <4>1. listening
        BY <3>1, ListenerAnswers DEF Receive
      <4> QED
        BY <1>1, <3>1, <4>1
           DEF Deaf, ListenerReceives, ReceiveSync, ReceiveSyncOpenFails, ReceiveData,
               ReceiveDataNoFile, ReceiveHash, ReceiveHashAgain, ReceiveHashNoFile, ReceiveDamaged,
               ReceiveUnknown, Reply
    <3> QED
      BY <3>1 DEF ListenerStep, ListenerReceiveFails, ListenerGone
  <2> QED
    BY <1>0, <1>1, <2>1 DEF Deaf
<1>2. ASSUME Queue PROVE Queue'
  <2>0. toListener \in Seq(ListenerPackets) /\ toSender \in Seq(SenderPackets)
    BY DEF TypeInv, TypeOK, NetTypeOK
  <2>1. CASE ListenerReceiveFails
    <3>1. UNCHANGED <<toListener, toSender>> /\ ~listening'
      BY <2>1 DEF ListenerReceiveFails
    <3>2. InLine(toSender', toListener')
      BY <1>2, <3>1 DEF Queue
    <3> QED
      BY <1>0, <1>2, <3>1, <3>2 DEF Queue
  <2>2. ASSUME toListener # <<>>, toListener' = Tail(toListener), toSender' = toSender, ~listening'
        PROVE  Queue'
    <3>1. \A k \in DOMAIN toListener' : \E j \in DOMAIN toListener : toListener'[k] = toListener[j]
      BY <2>0, <2>2, TailFacts
    <3>2. InLine(toSender', toListener')
      BY <1>2, <2>0, <2>2, LineAnswered DEF Queue
    <3> QED
      BY <1>0, <1>2, <2>2, <3>1, <3>2 DEF Queue
  <2>3. ASSUME toListener # <<>>, toListener' = Tail(toListener),
               NEW a \in SenderPackets, toSender' = Append(toSender, a),
               a.n = Head(toListener).n, a.last => a.n >= LastPacket
        PROVE  Queue'
    <3>1. /\ \A k \in DOMAIN toListener' : k + 1 \in DOMAIN toListener /\ toListener'[k] = toListener[k + 1]
          /\ 1 \in DOMAIN toListener /\ Head(toListener) = toListener[1]
      BY <2>0, <2>3, TailFacts
    <3>2. \A k \in DOMAIN toListener :
            k = 1 \/ (k - 1 \in DOMAIN toListener' /\ toListener'[k - 1] = toListener[k])
      <4>1. /\ DOMAIN toListener = 1 .. Len(toListener) /\ Len(toListener) \in Nat
            /\ DOMAIN Tail(toListener) = 1 .. Len(Tail(toListener))
            /\ Len(Tail(toListener)) = Len(toListener) - 1
        BY <2>0, <2>3, LenProperties, HeadTailProperties, TailFacts
      <4>2. \A k \in DOMAIN toListener : k = 1 \/ (k - 1 \in DOMAIN Tail(toListener) /\ (k - 1) + 1 = k)
        BY <4>1
      <4> QED
        BY <2>3, <3>1, <4>2
    <3>3. /\ DOMAIN toSender' = DOMAIN toSender \cup {Len(toSender) + 1}
          /\ \A k \in DOMAIN toSender : toSender'[k] = toSender[k]
          /\ toSender'[Len(toSender) + 1] = a
      BY <2>0, <2>3, AppendFacts
    <3>4. InLine(toSender', toListener')
      BY <1>2, <2>0, <2>3, LineAnswered DEF Queue
    <3>5. /\ \A k \in DOMAIN toListener' :
               toListener'[k].type = "DATA" /\ toListener'[k].n < first_unsent_packet_n'
          /\ \A k \in DOMAIN toSender' :
               /\ toSender'[k].n < first_unsent_packet_n'
               /\ toSender'[k].last => toSender'[k].n >= LastPacket
      BY <1>0, <1>2, <2>3, <3>1, <3>3 DEF Queue
    <3>6. ASSUME listening', NEW s \in Slots, unconfirmed_packets'[s] # None
          PROVE  \/ \E k \in DOMAIN toListener' : toListener'[k].n = unconfirmed_packets'[s]
                 \/ \E k \in DOMAIN toSender' : toSender'[k].n = unconfirmed_packets'[s]
      <4>1. \/ \E k \in DOMAIN toListener : toListener[k].n = unconfirmed_packets[s]
            \/ \E k \in DOMAIN toSender : toSender[k].n = unconfirmed_packets[s]
        BY <1>0, <1>2, <3>6 DEF Queue, InTransit
      <4>2. ASSUME NEW k \in DOMAIN toListener, toListener[k].n = unconfirmed_packets[s]
            PROVE  \/ \E j \in DOMAIN toListener' : toListener'[j].n = unconfirmed_packets[s]
                   \/ \E j \in DOMAIN toSender' : toSender'[j].n = unconfirmed_packets[s]
        <5>1. CASE k = 1
          BY <2>3, <3>1, <3>3, <4>2, <5>1
        <5>2. CASE k # 1
          BY <3>2, <4>2, <5>2
        <5> QED
          BY <5>1, <5>2
      <4>3. ASSUME NEW k \in DOMAIN toSender, toSender[k].n = unconfirmed_packets[s]
            PROVE  \E j \in DOMAIN toSender' : toSender'[j].n = unconfirmed_packets[s]
        BY <3>3, <4>3
      <4> QED
        BY <1>0, <4>1, <4>2, <4>3
    <3> QED
      BY <1>0, <1>2, <3>4, <3>5, <3>6 DEF Queue, InTransit
  <2>4. CASE ListenerReceives
    BY <1>2, <2>2, <2>3, <2>4, DataAnswered
  <2>5. CASE ListenerGone
    BY <2>2, <2>5 DEF ListenerGone, listenerVars
  <2> QED
    BY <2>1, <2>4, <2>5 DEF ListenerStep
<1> QED
  BY <1>1, <1>2 DEF CleanInv

LEMMA CleanStep ==
  ASSUME Prompt, CleanLine, TypeInv, WindowInv, PatientInv, LastInv, IntactInv, CleanInv, [Next]_vars
  PROVE  CleanInv'
<1>0. TypeInv' /\ LastNumber'
  BY TypeStep, LastNumberStep DEF CleanInv
<1>1. CASE SenderStep /\ UNCHANGED listenerVars
  BY <1>0, <1>1, CleanCounts, QueueSender DEF CleanInv
<1>2. CASE ListenerStep /\ UNCHANGED senderVars
  <2>1. UNCHANGED <<pc, i>>
    BY <1>2 DEF senderVars
  <2>2. PICK o \in Nat, q \in Nat : Out = o /\ Out' = q /\ q <= o
    BY <1>0, <1>2, NothingMore
  <2>3. i \in Nat /\ WindowSize \in Nat
    BY ConstantTypes DEF TypeInv, TypeOK, SenderTypeOK
  <2>4. HashOut' /\ RoundsOut'
    BY <2>1, <2>2, <2>3 DEF CleanInv, HashOut, RoundsOut
  <2> QED
    BY <1>0, <1>2, <2>1, <2>4, CleanFacts, QueueListener DEF CleanInv
<1>3. CASE UNCHANGED vars
  <2>1. /\ UNCHANGED <<pc, i, toListener, toSender, unconfirmed_packets, first_unsent_packet_n>>
        /\ UNCHANGED listening
    BY <1>3 DEF vars, netVars, senderVars, listenerVars
  <2>2. InLine(toSender', toListener') <=> InLine(toSender, toListener)
    BY <2>1
  <2> QED
    BY <1>0, <2>1, <2>2 DEF CleanInv, HashOut, RoundsOut, Out, Deaf, Queue, InTransit
<1> QED
  BY <1>1, <1>2, <1>3, CleanFacts DEF Next, Idle

LEMMA CleanInvariant ==
  ASSUME Prompt, CleanLine
  PROVE  Spec => [](CleanInv /\ SavedInv)
<1>1. Init => CleanInv
  BY ConstantTypes DEF Init, SenderInit, CleanInv, HashOut, RoundsOut, LastNumber, DataPhase
<1>2. Init => IntactInv
  <2> SUFFICES ASSUME Init PROVE IntactInv
    OBVIOUS
  <2>1. toListener = <<>> /\ toSender = <<>> /\ depth = 0
    BY DEF Init, NetInit, SenderInit
  <2>2. DOMAIN toListener = {} /\ DOMAIN toSender = {}
    BY <2>1
  <2> QED
    BY <2>1, <2>2 DEF IntactInv, ListenerIntact, SenderIntact
<1>3. TypeInv /\ IntactInv /\ [Next]_vars => IntactInv'
  <2>1. Undamaged
    BY DEF CleanLine, Undamaged
  <2> QED
    BY <2>1, IntactStep
<1>4. TypeInv /\ WindowInv /\ PatientInv /\ LastInv /\ IntactInv /\ CleanInv /\ [Next]_vars => CleanInv'
  BY CleanStep
<1>5. TypeInv /\ PatientInv /\ TransferInv /\ CleanInv' /\ SavedInv /\ [Next]_vars => SavedInv'
  <2>1. CleanInv' => HashOut'
    BY DEF CleanInv
  <2> QED
    BY <2>1, SavedStep
<1> QED
  BY <1>1, <1>2, <1>3, <1>4, <1>5, SavedInitially, TypeInvariant, WindowCorrect, PatientInvariant,
     LastInvariant, TransferCorrect, PTL DEF Spec

\* With timers that outlast the network a sender that reports success has its
\* file closed and on disk (sender.c 441-443, listener.c 186-195): each round of
\* the window takes all its answers in, so that none is left to be taken for the
\* answer to the HASH.  Whatever the line loses, damages and reorders when the
\* window is one packet or two; for every window when only system calls fail.
THEOREM SuccessIsSaved ==
  ASSUME Prompt, SmallWindow \/ CleanLine
  PROVE  Spec => []DoneIsSaved
<1>1. SavedInv => DoneIsSaved
  BY DEF SavedInv, DoneIsSaved
<1>2. CASE SmallWindow
  BY <1>1, <1>2, RoundsInvariant, PTL
<1>3. CASE CleanLine
  BY <1>1, <1>3, CleanInvariant, PTL
<1> QED
  BY <1>2, <1>3

----------------------------------------------------------------------------
(* The refinement.                                                         *)

\* The file is empty until the sender has its confirmation.
StartInv == pc \in SyncPhase => content = EmptyFile /\ first_unsent_packet_n = 0

\* The ACK of the last packet comes when every packet was sent.
EndInv == pc \in DataPhase /\ ~sending => first_unsent_packet_n > LastPacket

CopyInv == TypeInv /\ WindowInv /\ PatientInv /\ TransferInv /\ StartInv /\ EndInv

\* What the transfer makes of the variables of FileCopy.
stored == {n \in Blocks : content[n] = session}
known == Confirmed \cap Blocks
phase == IF pc \in HashPhase THEN "comparing"
         ELSE IF pc = "done" THEN "accepted"
         ELSE IF pc = "exited" THEN "aborted" ELSE "copying"

\* Every step of the only run of the sender is one of these.
LEMMA SenderSteps ==
  ASSUME Prompt, CopyInv, SenderStep
  PROVE  \/ /\ UNCHANGED <<session, windowVars>> /\ phase' = phase
            /\ pc' \in SyncPhase => pc \in SyncPhase
         \/ SyncConfirmed \/ SendNewPacket \/ AckConfirmed \/ FinishData
         \/ HashRefused \/ HashConfirmed \/ ReceiveFails \/ OpenFails
<1>phases. /\ (SyncPhase \cup DataPhase) \cap (HashPhase \cup Ended) = {}
           /\ SyncPhase \cap DataPhase = {} /\ "done" \notin HashPhase /\ "exited" \notin HashPhase
  BY DEF SyncPhase, DataPhase, HashPhase, Ended
<1>1. ~NextTransfer
  BY PromptFacts DEF NextTransfer, Prompt, CopyInv
<1>2. CASE \/ SendSync \/ SyncTimeout \/ SyncRefused \/ StartRound \/ ResendPacket \/ SkipSlot
           \/ StartReceiving \/ EndRound \/ AckRefused
  <2>1. /\ UNCHANGED <<session, windowVars>>
        /\ \/ pc \in SyncPhase /\ pc' \in SyncPhase
           \/ pc \in DataPhase /\ pc' \in DataPhase
    BY <1>2 DEF SendSync, SyncTimeout, SyncRefused, StartRound, ResendPacket, SkipSlot, StartReceiving,
       EndRound, AckRefused, SyncPhase, DataPhase
  <2>2. phase' = phase /\ (pc' \in SyncPhase => pc \in SyncPhase)
    BY <1>phases, <2>1 DEF phase, Ended
  <2> QED
    BY <2>1, <2>2
<1>3. CASE SendHash \/ HashTimeout \/ HashAckDamaged
  <2>1. UNCHANGED <<session, windowVars>> /\ pc \in HashPhase /\ pc' \in HashPhase
    BY <1>3 DEF SendHash, HashTimeout, HashAckDamaged, HashPhase
  <2> QED
    BY <1>phases, <2>1 DEF phase
<1>4. CASE SenderGone
  <2>1. UNCHANGED <<pc, session, windowVars>>
    BY <1>4 DEF SenderGone, senderVars, windowVars
  <2> QED
    BY <2>1 DEF phase
<1> QED
  BY <1>1, <1>2, <1>3, <1>4 DEF SenderStep, SenderRuns, SenderReceives

\* What the listener does to the file.
LEMMA ListenerSteps ==
  ASSUME Prompt, CopyInv, ListenerStep
  PROVE  \/ content' = content
         \/ pc \in SyncPhase /\ content = EmptyFile /\ content' = EmptyFile
         \/ /\ pc \notin SyncPhase
            /\ \E n \in PacketNs : content' = [k \in Blocks |-> IF k = n THEN 1 ELSE content[k]]
<1>types. TypeInv /\ session = 1 /\ Files = {1} /\ SafeOpening /\ NoCopies /\ Patient
  BY PromptFacts DEF CopyInv
<1>1. CASE ReceiveSync
  <2>1. Receive /\ Packet.ok /\ Packet.type = "SYNC" /\ content' = EmptyFile
    BY <1>1 DEF ReceiveSync
  <2>2. pc \in SyncPhase
    BY <1>types, <2>1, ReceiveFacts DEF CopyInv, PatientInv
  <2> QED
    BY <2>1, <2>2 DEF CopyInv, StartInv
<1>2. CASE ReceiveData
  <2>1. /\ Receive /\ Packet.ok /\ Packet.type = "DATA"
        /\ content' = [k \in Blocks |-> IF k = Packet.n THEN Packet.file ELSE content[k]]
    BY <1>2 DEF ReceiveData, WriteBlock
  <2>2. Packet.n \in PacketNs /\ Packet.file = 1
    BY <1>types, <2>1, ReceiveFacts, PacketFields
  <2>3. pc \notin SyncPhase
    BY <1>types, <2>1, ReceiveFacts DEF CopyInv, TransferInv, SyncInv
  <2> QED
    BY <2>1, <2>2, <2>3
<1>3. CASE \/ ReceiveSyncOpenFails \/ ReceiveDataNoFile \/ ReceiveHash \/ ReceiveHashAgain
           \/ ReceiveHashNoFile \/ ReceiveDamaged \/ ReceiveUnknown
           \/ ListenerReceiveFails \/ ListenerGone
  BY <1>3 DEF ReceiveSyncOpenFails, ReceiveDataNoFile, ReceiveHash, ReceiveHashAgain,
     ReceiveHashNoFile, ReceiveDamaged, ReceiveUnknown, ListenerReceiveFails, ListenerGone,
     listenerVars, fileVars
<1>4. ~Restart
  BY <1>types, PromptFacts DEF Restart
<1> QED
  BY <1>1, <1>2, <1>3, <1>4 DEF ListenerStep, ListenerReceives

LEMMA StartStep ==
  ASSUME Prompt, CopyInv, [Next]_vars
  PROVE  StartInv'
<1>1. pc \in SyncPhase => content = EmptyFile /\ first_unsent_packet_n = 0
  BY DEF CopyInv, StartInv
<1>2. CASE SenderStep /\ UNCHANGED listenerVars
  <2>1. content' = content
    BY <1>2 DEF listenerVars, fileVars
  <2>2. CASE UNCHANGED windowVars /\ (pc' \in SyncPhase => pc \in SyncPhase)
    BY <1>1, <2>1, <2>2 DEF windowVars, StartInv
  <2>3. CASE SyncConfirmed \/ SendNewPacket \/ AckConfirmed \/ FinishData \/ HashRefused
             \/ HashConfirmed \/ ReceiveFails \/ OpenFails
    <3>1. pc' \notin SyncPhase
      BY <2>3 DEF SyncConfirmed, SendNewPacket, AckConfirmed, FinishData, HashRefused, HashConfirmed,
         ReceiveFails, OpenFails, EnterData, SyncPhase
    <3> QED
      BY <3>1 DEF StartInv
  <2> QED
    BY <1>2, <2>2, <2>3, SenderSteps
<1>3. CASE ListenerStep /\ UNCHANGED senderVars
  <2>1. UNCHANGED <<pc, first_unsent_packet_n>>
    BY <1>3 DEF senderVars
  <2>2. pc \in SyncPhase => content' = EmptyFile
    BY <1>1, <1>3, ListenerSteps
  <2> QED
    BY <1>1, <2>1, <2>2 DEF StartInv
<1>4. CASE UNCHANGED <<senderVars, listenerVars>>
  BY <1>1, <1>4 DEF senderVars, listenerVars, fileVars, StartInv
<1> QED
  BY <1>2, <1>3, <1>4 DEF Next, Idle, vars

\* The steps of FileCopy, with what the transfer makes of its variables.
Store == (\E n \in Blocks : stored' = stored \cup {n}) /\ UNCHANGED <<known, phase>>
Learn == phase = "copying" /\ (\E n \in stored : known' = known \cup {n}) /\ UNCHANGED <<stored, phase>>
Compare == phase = "copying" /\ known = Blocks /\ phase' = "comparing" /\ UNCHANGED <<stored, known>>
CopyAgain == phase = "comparing" /\ phase' = "copying" /\ known' = {} /\ UNCHANGED stored
Accept == phase = "comparing" /\ phase' = "accepted" /\ UNCHANGED <<stored, known>>
Abort ==
  phase \in {"copying", "comparing"} /\ phase' = "aborted" /\ UNCHANGED <<stored, known>>
Stutter == UNCHANGED <<stored, known, phase>>

CopyNext == Store \/ Learn \/ Compare \/ CopyAgain \/ Accept \/ Abort \/ Stutter

LEMMA SenderCopies ==
  ASSUME Prompt, CopyInv, SenderStep, UNCHANGED listenerVars
  PROVE  CopyNext
<1>phases. /\ (SyncPhase \cup DataPhase) \cap (HashPhase \cup Ended) = {}
           /\ "done" \notin HashPhase /\ "exited" \notin HashPhase
           /\ "done" \in Ended /\ "exited" \in Ended
  BY DEF SyncPhase, DataPhase, HashPhase, Ended
<1>types. /\ unconfirmed_packets \in [Slots -> PacketNs \cup {None}]
          /\ first_unsent_packet_n \in Nat /\ LastPacket \in Nat
          /\ TypeInv /\ session = 1 /\ SafeOpening
  BY ConstantTypes, PromptFacts DEF CopyInv, TypeInv, TypeOK, SenderTypeOK
<1>content. content' = content
  BY DEF listenerVars, fileVars
<1>stored. session' = session => stored' = stored
  BY <1>content DEF stored
<1>known. UNCHANGED windowVars => known' = known
  BY DEF windowVars, known, Confirmed
<1>1. CASE UNCHANGED <<session, windowVars>> /\ phase' = phase
  BY <1>1, <1>stored, <1>known DEF CopyNext, Stutter
<1>2. CASE SyncConfirmed
  <2>1. /\ pc \in SyncPhase /\ pc' \in DataPhase /\ session' = session
        /\ first_unsent_packet_n' = 0
    BY <1>2 DEF SyncConfirmed, EnterData, SyncPhase, DataPhase
  <2>2. first_unsent_packet_n = 0
    BY <2>1 DEF CopyInv, StartInv
  <2>3. known = {} /\ known' = {}
    BY <2>1, <2>2 DEF known, Confirmed
  <2>4. phase' = phase
    BY <1>phases, <2>1 DEF phase
  <2> QED
    BY <1>stored, <2>1, <2>3, <2>4 DEF CopyNext, Stutter
<1>3. CASE SendNewPacket
  <2> DEFINE n == first_unsent_packet_n
  <2>1. /\ pc \in DataPhase /\ pc' = pc /\ session' = session
        /\ i \in Slots /\ unconfirmed_packets[i] = None
        /\ \/ UNCHANGED <<unconfirmed_packets, first_unsent_packet_n>>
           \/ /\ unconfirmed_packets' = [unconfirmed_packets EXCEPT ![i] = n]
              /\ first_unsent_packet_n' = n + 1
    BY <1>3 DEF SendNewPacket, DataPhase, Slots, CopyInv, TypeInv, TypeOK, SenderTypeOK
  <2>2. Confirmed' = Confirmed
    <3>1. CASE UNCHANGED <<unconfirmed_packets, first_unsent_packet_n>>
      BY <3>1 DEF Confirmed
    <3>2. CASE /\ unconfirmed_packets' = [unconfirmed_packets EXCEPT ![i] = n]
               /\ first_unsent_packet_n' = n + 1
      <4>1. \A s \in Slots : unconfirmed_packets'[s] = IF s = i THEN n ELSE unconfirmed_packets[s]
        BY <1>types, <3>2
      <4>2. ASSUME NEW m \in 0 .. n
            PROVE  (\A s \in Slots : unconfirmed_packets'[s] # m) <=>
                     m # n /\ \A s \in Slots : unconfirmed_packets[s] # m
        BY <1>types, <2>1, <4>1, <4>2 DEF None
      <4>3. \A m \in 0 .. n - 1 : m \in 0 .. n /\ m # n
        BY <1>types
      <4>4. \A m \in 0 .. n : m # n => m \in 0 .. n - 1
        BY <1>types
      <4>5. first_unsent_packet_n' - 1 = n
        BY <1>types, <3>2
      <4>6. Confirmed' = {m \in 0 .. n : \A s \in Slots : unconfirmed_packets'[s] # m}
        BY <4>5 DEF Confirmed
      <4> QED
        BY <4>2, <4>3, <4>4, <4>6 DEF Confirmed
    <3> QED
      BY <2>1, <3>1, <3>2
  <2>3. phase' = phase /\ known' = known
    BY <2>1, <2>2 DEF phase, known
  <2> QED
    BY <1>stored, <2>1, <2>3 DEF CopyNext, Stutter
<1>4. CASE AckConfirmed
  <2>1. /\ pc \in DataPhase /\ pc' \in DataPhase /\ session' = session
        /\ TakeAck /\ Confirms(Ack)
        /\ first_unsent_packet_n' = first_unsent_packet_n
        /\ \A s \in Slots : unconfirmed_packets'[s] =
             IF unconfirmed_packets[s] = Ack.n THEN None ELSE unconfirmed_packets[s]
    BY <1>4 DEF AckConfirmed, DataPhase
  <2>2. 1 \in DOMAIN toSender /\ Ack = toSender[1] /\ Ack \in SenderPackets
    BY <1>types, <2>1, TailFacts DEF TakeAck, Ack, TypeInv, TypeOK, NetTypeOK
  <2>3. Ack.n \in PacketNs
    BY <2>1, <2>2, PacketFields DEF Confirms
  <2>4. Ack.n \in Blocks => Ack.n \in stored
    BY <1>types, <2>1, <2>2 DEF CopyInv, TransferInv, TransitInv, Transferring, Written, stored
  <2> DEFINE a == Ack.n
  <2> HIDE DEF a
  <2>5. ASSUME NEW m \in 0 .. first_unsent_packet_n - 1
        PROVE  (\A s \in Slots : unconfirmed_packets'[s] # m) <=>
                 m = a \/ \A s \in Slots : unconfirmed_packets[s] # m
    <3>1. m # None
      BY <1>types, <2>5 DEF None
    <3> QED
      BY <2>1, <3>1 DEF a
  <2>6. Confirmed' = {m \in 0 .. first_unsent_packet_n - 1 :
                        m = a \/ \A s \in Slots : unconfirmed_packets[s] # m}
    BY <2>1, <2>5 DEF Confirmed
  <2>7. phase = "copying" /\ phase' = "copying"
    BY <1>phases, <2>1 DEF phase
  <2>8. CASE a \in Blocks /\ a \in 0 .. first_unsent_packet_n - 1
    <3>1. known' = known \cup {a}
      BY <2>6, <2>8 DEF known, Confirmed
    <3>2. a \in stored
      BY <2>4, <2>8 DEF a
    <3> QED
      BY <1>stored, <2>1, <2>7, <3>1, <3>2 DEF CopyNext, Learn
  <2>9. CASE ~(a \in Blocks /\ a \in 0 .. first_unsent_packet_n - 1)
    <3>1. known' = known
      BY <2>6, <2>9 DEF known, Confirmed
    <3> QED
      BY <1>stored, <2>1, <2>7, <3>1 DEF CopyNext, Stutter
  <2> QED
    BY <2>8, <2>9
<1>5. CASE FinishData
  <2>1. /\ pc \in DataPhase /\ pc' \in HashPhase /\ UNCHANGED <<session, windowVars>>
        /\ ~sending /\ \A s \in Slots : unconfirmed_packets[s] = None
    BY <1>5 DEF FinishData, DataPhase, HashPhase, AllConfirmed
  <2>2. first_unsent_packet_n > LastPacket
    BY <2>1 DEF CopyInv, EndInv
  <2>3. known = Blocks
    BY <1>types, <2>1, <2>2 DEF known, Confirmed, Blocks, None
  <2>4. phase = "copying" /\ phase' = "comparing"
    BY <1>phases, <2>1 DEF phase
  <2> QED
    BY <1>stored, <1>known, <2>1, <2>3, <2>4 DEF CopyNext, Compare
<1>6. CASE HashConfirmed
  <2>1. pc \in HashPhase /\ pc' \in HashPhase \cup {"done"} /\ UNCHANGED <<session, windowVars>>
    BY <1>6 DEF HashConfirmed, HashPhase
  <2>2. phase = "comparing" /\ phase' \in {"comparing", "accepted"}
    BY <1>phases, <2>1 DEF phase
  <2> QED
    BY <1>stored, <1>known, <2>1, <2>2 DEF CopyNext, Accept, Stutter
<1>7. CASE ReceiveFails \/ OpenFails
  <2>1. /\ pc \in SyncPhase \cup DataPhase \cup HashPhase /\ pc' = "exited"
        /\ UNCHANGED <<session, windowVars>>
    BY <1>7 DEF ReceiveFails, OpenFails, SyncPhase, DataPhase, HashPhase
  <2>2. phase \in {"copying", "comparing"} /\ phase' = "aborted"
    BY <1>phases, <2>1 DEF phase
  <2> QED
    BY <1>stored, <1>known, <2>1, <2>2 DEF CopyNext, Abort
<1>8. CASE HashRefused
  <2>1. /\ pc \in HashPhase /\ pc' \in DataPhase /\ session' = session
        /\ first_unsent_packet_n' = 0
    BY <1>8 DEF HashRefused, EnterData, HashPhase, DataPhase
  <2>2. known' = {}
    BY <2>1 DEF known, Confirmed
  <2>3. phase = "comparing" /\ phase' = "copying"
    BY <1>phases, <2>1 DEF phase
  <2> QED
    BY <1>stored, <2>1, <2>2, <2>3 DEF CopyNext, CopyAgain
<1> QED
  BY <1>1, <1>2, <1>3, <1>4, <1>5, <1>6, <1>7, <1>8, SenderSteps

LEMMA ListenerCopies ==
  ASSUME Prompt, CopyInv, ListenerStep, UNCHANGED senderVars
  PROVE  CopyNext
<1>1. /\ session' = session /\ session = 1 /\ content \in [Blocks -> Files \cup {Hole}]
      /\ known' = known /\ phase' = phase
  BY PromptFacts DEF senderVars, known, Confirmed, phase, CopyInv, TypeInv, TypeOK, ListenerTypeOK
<1>2. CASE content' = content
  BY <1>1, <1>2 DEF CopyNext, Stutter, stored
<1>3. CASE content = EmptyFile /\ content' = EmptyFile
  BY <1>1, <1>3 DEF CopyNext, Stutter, stored
<1>4. ASSUME NEW n \in PacketNs,
             content' = [k \in Blocks |-> IF k = n THEN 1 ELSE content[k]]
      PROVE  CopyNext
  <2>1. \A k \in Blocks : content'[k] = 1 <=> k = n \/ content[k] = 1
    BY <1>4
  <2>2. CASE n \in Blocks
    <3>1. stored' = stored \cup {n}
      BY <1>1, <2>1, <2>2 DEF stored
    <3> QED
      BY <1>1, <2>2, <3>1 DEF CopyNext, Store
  <2>3. CASE n \notin Blocks
    <3>1. stored' = stored
      BY <1>1, <2>1, <2>3 DEF stored
    <3> QED
      BY <1>1, <3>1 DEF CopyNext, Stutter
  <2> QED
    BY <2>2, <2>3
<1> QED
  BY <1>2, <1>3, <1>4, ListenerSteps

LEMMA CopyStep ==
  ASSUME Prompt, CopyInv, [Next]_vars
  PROVE  CopyNext
<1>1. CASE SenderStep /\ UNCHANGED listenerVars
  BY <1>1, SenderCopies
<1>2. CASE ListenerStep /\ UNCHANGED senderVars
  BY <1>2, ListenerCopies
<1>3. CASE UNCHANGED <<senderVars, listenerVars>>
  <2>1. UNCHANGED <<session, pc, unconfirmed_packets, first_unsent_packet_n, content>>
    BY <1>3 DEF senderVars, listenerVars, fileVars
  <2> QED
    BY <2>1 DEF CopyNext, Stutter, stored, known, Confirmed, phase
<1> QED
  BY <1>1, <1>2, <1>3 DEF Next, Idle, vars

LEMMA CopyInitially ==
  ASSUME Init
  PROVE  Copy!Init /\ StartInv /\ EndInv /\ IntactInv
<1>1. /\ session = 1 /\ content = EmptyFile /\ first_unsent_packet_n = 0 /\ pc = "sync_send"
      /\ sending /\ toListener = <<>> /\ toSender = <<>> /\ depth = 0
  BY DEF Init, NetInit, SenderInit, ListenerInit
<1>2. stored = {} /\ known = {} /\ phase = "copying"
  BY <1>1 DEF stored, known, phase, Confirmed, EmptyFile, Hole, HashPhase
<1>3. DOMAIN toListener = {} /\ DOMAIN toSender = {}
  BY <1>1
<1> QED
  BY <1>1, <1>2, <1>3 DEF Copy!Init, stored, known, phase, StartInv, EndInv,
     IntactInv, ListenerIntact, SenderIntact

\* Every packet was sent when its last ACK is in: either because the flag goes
\* round once, or because nothing is damaged and there is one pass.
LEMMA EveryPacketSent ==
  ASSUME Prompt, SmallWindow \/ Undamaged
  PROVE  Spec => []EndInv
<1>1. CASE SmallWindow
  <2>1. RoundInv => EndInv
    BY DEF RoundInv, ClosingInv, EndInv
  <2> QED
    BY <1>1, <2>1, RoundsInvariant, PTL
<1>2. CASE Undamaged
  <2>1. Init => IntactInv
    BY CopyInitially
  <2>2. TypeInv /\ IntactInv /\ [Next]_vars => IntactInv'
    BY <1>2, IntactStep
  <2>3. TypeInv /\ TransferInv /\ IntactInv => EndInv
    <3> SUFFICES ASSUME TypeInv, PassInv, IntactInv PROVE EndInv
      BY DEF TransferInv
    <3>1. first_unsent_packet_n \in Nat /\ LastPacket \in Nat
      BY ConstantTypes DEF TypeInv, TypeOK, SenderTypeOK
    <3>2. pc \in DataPhase /\ first_unsent_packet_n <= LastPacket => sending
      BY PromptFacts DEF PassInv, IntactInv, Transferring
    <3> QED
      BY <3>1, <3>2 DEF EndInv
  <2> QED
    BY <2>1, <2>2, <2>3, TypeInvariant, TransferCorrect, PTL DEF Spec
<1> QED
  BY <1>1, <1>2

\* With timers that outlast the network, no copies and one listener the system
\* copies a file block by block, the sender learns only of blocks that are
\* there, compares when it knows of all of them, sends everything again when
\* the comparison fails and succeeds when it does not, whatever is lost or
\* reordered and whichever calls fail; and whatever is damaged when the window
\* is one packet or two (sender.c 246-316, 396-460, listener.c 101-196).
THEOREM TransferIsCopy ==
  ASSUME Prompt, SmallWindow \/ Undamaged
  PROVE  Spec => CopySpec
<1>1. Init => Copy!Init /\ StartInv
  BY CopyInitially
<1>2. CopyInv /\ [Next]_vars => StartInv'
  BY StartStep
<1>3. CopyInv /\ [Next]_vars => [Copy!Next]_(Copy!copyVars)
  <2> SUFFICES ASSUME CopyInv, [Next]_vars PROVE [Copy!Next]_(Copy!copyVars)
    OBVIOUS
  <2>1. CopyNext
    BY CopyStep
  <2> QED
    BY <2>1 DEF CopyNext, Store, Learn, Compare, CopyAgain, Accept, Abort, Stutter, Copy!Next,
       Copy!Store, Copy!Learn, Copy!Compare, Copy!CopyAgain, Copy!Accept, Copy!Abort, Copy!copyVars,
       stored, known, phase
<1> QED
  BY <1>1, <1>2, <1>3, TypeInvariant, WindowCorrect, PatientInvariant, TransferCorrect,
     EveryPacketSent, PTL DEF Spec, CopySpec, Copy!Spec, CopyInv

=============================================================================

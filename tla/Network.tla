------------------------------ MODULE Network ------------------------------
(***************************************************************************)
(* The two UDP sockets and the network between them: the system calls      *)
(* sendto, select and recvfrom, as sender.c and listener.c use them.       *)
(*                                                                         *)
(* toListener and toSender hold the datagrams on their way to each side,   *)
(* the oldest first; a datagram counts as sent when it is appended and as  *)
(* received when it is taken from the front.  What can go wrong is an      *)
(* action of its own, allowed when its name is in Faults and at most       *)
(* MaxFaults times in a behaviour; faults counts them and remembers which  *)
(* kinds there were, so that a property can say what it puts up with.      *)
(***************************************************************************)
EXTENDS Packets, SequencesExt

CONSTANTS Faults,      \* the kinds of fault this environment has
          MaxFaults    \* bound: faults in one behaviour

FaultKinds == {"loss", "duplicate", "reorder", "corrupt", "delay",
               "sendfail", "recvfail", "openfail", "restart"}

ASSUME NetworkAssumption ==
  /\ Faults \subseteq FaultKinds
  /\ MaxFaults \in Nat

VARIABLES toListener, toSender, faults

netVars == <<toListener, toSender, faults>>

FaultCounts == [n : 0 .. MaxFaults, kinds : SUBSET Faults]

NetTypeOK ==
  /\ toListener \in Seq(ListenerPackets)
  /\ toSender \in Seq(SenderPackets)
  /\ faults \in FaultCounts

NetInit ==
  /\ toListener = <<>>
  /\ toSender = <<>>
  /\ faults = [n |-> 0, kinds |-> {}]

Fault(kind) ==
  /\ kind \in Faults
  /\ faults.n < MaxFaults
  /\ faults' = [n |-> faults.n + 1, kinds |-> faults.kinds \cup {kind}]

\* select reports a timeout.  When nothing is in transit the answer will never
\* come; when something is, the timer beat it, and that is the fault "delay".
SelectTimesOut ==
  \/ /\ toListener = <<>>
     /\ toSender = <<>>
     /\ UNCHANGED faults
  \/ /\ toListener # <<>> \/ toSender # <<>>
     /\ Fault("delay")

----------------------------------------------------------------------------
\* What the network does to a channel: new is what becomes of old.

Without(chan, k) == RemoveAt(chan, k)

Lose(old, new) ==
  /\ Fault("loss")
  /\ \E k \in DOMAIN old : new = Without(old, k)

Duplicate(old, new) ==
  /\ Fault("duplicate")
  /\ \E k \in DOMAIN old : new = Append(old, old[k])

\* Datagram k is overtaken by everything sent so far.
Overtake(old, new) ==
  /\ Fault("reorder")
  /\ \E k \in DOMAIN old : new = Append(Without(old, k), old[k])

\* Some bytes of datagram k change, the type byte (types) maybe among them.
\* Its remainder does not match any more, see Packets.
Corrupt(old, new, types) ==
  /\ Fault("corrupt")
  /\ \E k \in DOMAIN old, t \in types : new = [old EXCEPT ![k] = Damaged(t)]

Misbehave(old, new, types) ==
  \/ Lose(old, new)
  \/ Duplicate(old, new)
  \/ Overtake(old, new)
  \/ Corrupt(old, new, types)

NetworkStep ==
  \/ Misbehave(toListener, toListener', ListenerTypes) /\ UNCHANGED toSender
  \/ Misbehave(toSender, toSender', {"ACK"}) /\ UNCHANGED toListener

=============================================================================

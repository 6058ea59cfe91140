------------------------------ MODULE FileCopy ------------------------------
(***************************************************************************)
(* What the transfer of one file promises when nothing in the network is   *)
(* slower than the sender's timers: blocks are stored one by one, the      *)
(* sender learns only of blocks that are stored, compares when it has      *)
(* learned of all, and finishes after that.                                *)
(***************************************************************************)
EXTENDS Integers

CONSTANT Blocks

VARIABLES stored,  \* blocks the receiving side has
          known,   \* blocks the sending side knows to be stored
          phase

copyVars == <<stored, known, phase>>

Init ==
  /\ stored = {}
  /\ known = {}
  /\ phase = "copying"

Store ==
  /\ \E n \in Blocks : stored' = stored \cup {n}
  /\ UNCHANGED <<known, phase>>

Learn ==
  /\ phase = "copying"
  /\ \E n \in stored : known' = known \cup {n}
  /\ UNCHANGED <<stored, phase>>

Compare ==
  /\ phase = "copying" /\ known = Blocks
  /\ phase' = "comparing"
  /\ UNCHANGED <<stored, known>>

\* The comparison failed: everything is sent again.
CopyAgain ==
  /\ phase = "comparing"
  /\ phase' = "copying"
  /\ known' = {}
  /\ UNCHANGED stored

Accept ==
  /\ phase = "comparing"
  /\ phase' = "accepted"
  /\ UNCHANGED <<stored, known>>

\* The sending side gives up; what is under way may still be stored.
Abort ==
  /\ phase \in {"copying", "comparing"}
  /\ phase' = "aborted"
  /\ UNCHANGED <<stored, known>>

Next == Store \/ Learn \/ Compare \/ CopyAgain \/ Accept \/ Abort

Spec == Init /\ [][Next]_copyVars

=============================================================================

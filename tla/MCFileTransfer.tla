--------------------------- MODULE MCFileTransfer ---------------------------
(***************************************************************************)
(* The environments in which TLC checks FileTransfer: which faults the     *)
(* network, the timers and the system calls have in a run.                 *)
(***************************************************************************)
EXTENDS FileTransfer

\* Nothing goes wrong.
NoFaults == {}

\* One route: datagrams get lost and late, and keep their order.
LossyLine == {"loss", "delay"}

\* All a network does to datagrams short of copying them, and failing calls;
\* timers never beat an answer that is on its way.
PatientTimers == {"loss", "corrupt", "reorder", "sendfail", "recvfail", "openfail"}

\* Impatient timers, failing calls, copies made by the network and listeners
\* that are started again as well.
EveryFault == FaultKinds

=============================================================================

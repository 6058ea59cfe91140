------------------------------- MODULE Logger -------------------------------
(***************************************************************************)
(* The logger of a process (logger.c): the program puts its messages in a  *)
(* buffer (info, warning and error do the same), a thread copies them to   *)
(* the log file once a second, stop_logging copies what is left and gets   *)
(* rid of the thread.  Nothing is locked: a step is one access to what the *)
(* two share.                                                              *)
(*                                                                         *)
(* A process has one log file.  A message is its number; its text and the  *)
(* time in front of it are left out, and a slot that sprintf is writing    *)
(* reads as before or after it.                                            *)
(***************************************************************************)
EXTENDS Integers, SequencesExt

CONSTANTS BufferSize,    \* LOGGER_BUFFER_SIZE
          MaxMessages    \* bound: messages the program logs

ASSUME LoggerAssumption ==
  /\ BufferSize \in Nat \ {0}
  /\ MaxMessages \in Nat

VARIABLES
  mpc,            \* where the program is
  msg,            \* messages it has logged
  at,             \* its copy of logger_buffer_size, and its index when it stops
  mainOut,        \* the buffer of its stream on the log file
  lpc,            \* where the thread is
  i,              \* its index in copy_from_buffer_to_file
  loopOut,        \* the buffer of its stream
  cancelled,      \* pthread_cancel was called
  logger_status, logger_buffer_size, logger_buffer,
  freed,          \* the list was freed, its buffer pointer set to NULL
  file,           \* the log file: the messages in it
  met             \* history: how program and thread have met, see Meeting

mainVars == <<msg, at, mainOut>>
loopVars == <<i, loopOut>>
sharedVars == <<logger_status, logger_buffer_size, logger_buffer>>
vars == <<mpc, mainVars, lpc, loopVars, cancelled, sharedVars, freed, file, met>>

Garbage == 0              \* what a slot holds before its first message
Slots == 0 .. BufferSize - 1
Lines == 0 .. MaxMessages

Informing == {"loaded", "stored"}
Stopping == {"copy", "flush", "cancel", "free", "stopped"}
Over == {"exited", "failed", "crashed"}
Copying == {"check", "print", "reset"}

TypeOK ==
  /\ mpc \in {"start", "created", "running"} \cup Informing \cup Stopping \cup Over
  /\ msg \in 0 .. MaxMessages
  /\ at \in 0 .. MaxMessages
  /\ mainOut \in Seq(Lines)
  /\ lpc \in {"none", "open", "test", "flush", "sleep", "gone"} \cup Copying
  /\ i \in 0 .. MaxMessages
  /\ loopOut \in Seq(Lines)
  /\ cancelled \in BOOLEAN
  /\ logger_status \in {0, 1}
  /\ logger_buffer_size \in 0 .. MaxMessages
  /\ logger_buffer \in [Slots -> Lines]
  /\ freed \in BOOLEAN
  /\ file \in Seq(Lines)
  /\ met \subseteq {"start", "info", "stop", "full"}

\* logger_status and logger_buffer_size come from malloc and are not
\* initialised.  The size is taken to be 0, as it is in fresh memory.
Init ==
  /\ mpc = "start" /\ msg = 0 /\ at = 0 /\ mainOut = <<>>
  /\ lpc = "none" /\ i = 0 /\ loopOut = <<>>
  /\ cancelled = FALSE
  /\ logger_status \in {0, 1}
  /\ logger_buffer_size = 0
  /\ logger_buffer = [s \in Slots |-> Garbage]
  /\ freed = FALSE
  /\ file = <<>>
  /\ met = {}

\* A pointer behind the end of logger_buffer is wild: to follow it ends the
\* process, or reads and writes memory of no concern here.
Crash == mpc' = "crashed" /\ UNCHANGED <<lpc, mainVars, loopVars, cancelled, sharedVars, freed, file>>
Text(s) == IF s \in Slots THEN logger_buffer[s] ELSE Garbage

----------------------------------------------------------------------------
\* The program: start_logging, with the thread's creation in add_logger.

StartLogging ==
  /\ mpc = "start"
  /\ mpc' = "created" /\ lpc' = "open"
  /\ UNCHANGED <<mainVars, loopVars, cancelled, sharedVars, freed, file>>

SetStatus ==
  /\ mpc = "created"
  /\ logger_status' = 1
  /\ mpc' = "running"
  /\ UNCHANGED <<mainVars, lpc, loopVars, cancelled, logger_buffer_size, logger_buffer, freed, file>>

\* info: logger_buffer_size++ reads and writes the size, then sprintf fills
\* the slot.
LoadSize ==
  /\ mpc = "running" /\ msg < MaxMessages
  /\ msg' = msg + 1
  /\ at' = logger_buffer_size
  /\ mpc' = "loaded"
  /\ UNCHANGED <<mainOut, lpc, loopVars, cancelled, sharedVars, freed, file>>

\* Mutant: the size is counted up once more when the slot is chosen.
StoreSizeByTwo ==
  /\ mpc = "loaded"
  /\ logger_buffer_size' = at + 2
  /\ mpc' = "stored"
  /\ UNCHANGED <<mainVars, lpc, loopVars, cancelled, logger_status, logger_buffer, freed, file>>

StoreSize ==
  /\ mpc = "loaded"
  /\ logger_buffer_size' = at + 1
  /\ mpc' = "stored"
  /\ UNCHANGED <<mainVars, lpc, loopVars, cancelled, logger_status, logger_buffer, freed, file>>

WriteSlot ==
  /\ mpc = "stored"
  /\ logger_buffer' = [s \in Slots |-> IF s = at THEN msg ELSE logger_buffer[s]]
  /\ mpc' = "running"
  /\ UNCHANGED <<mainVars, lpc, loopVars, cancelled, logger_status, logger_buffer_size, freed, file>>

WriteSlotCrashes ==
  /\ mpc = "stored" /\ at \notin Slots
  /\ Crash

----------------------------------------------------------------------------
\* The program: stop_logging, which copies, cancels and frees.

\* Mutant: the thread is cancelled and the list freed before the copying.
StopLoggingWithoutCopy ==
  /\ mpc = "running"
  /\ mpc' = "cancel"
  /\ UNCHANGED <<mainVars, lpc, loopVars, cancelled, sharedVars, freed, file>>

StopLogging ==
  /\ mpc = "running"
  /\ mpc' = "copy" /\ at' = 0
  /\ UNCHANGED <<msg, mainOut, lpc, loopVars, cancelled, sharedVars, freed, file>>

StopCopies ==
  /\ mpc = "copy" /\ at < logger_buffer_size
  /\ mainOut' = Append(mainOut, Text(at))
  /\ at' = at + 1
  /\ UNCHANGED <<mpc, msg, lpc, loopVars, cancelled, sharedVars, freed, file>>

StopCopied ==
  /\ mpc = "copy" /\ at >= logger_buffer_size
  /\ logger_buffer_size' = 0
  /\ mpc' = "flush"
  /\ UNCHANGED <<mainVars, lpc, loopVars, cancelled, logger_status, logger_buffer, freed, file>>

StopCloses ==
  /\ mpc = "flush"
  /\ file' = file \o mainOut /\ mainOut' = <<>>
  /\ mpc' = "cancel"
  /\ UNCHANGED <<msg, at, lpc, loopVars, cancelled, sharedVars, freed>>

CancelThread ==
  /\ mpc = "cancel"
  /\ cancelled' = TRUE
  /\ logger_status' = 0
  /\ mpc' = "free"
  /\ UNCHANGED <<mainVars, lpc, loopVars, logger_buffer_size, logger_buffer, freed, file>>

FreeList ==
  /\ mpc = "free"
  /\ freed' = TRUE
  /\ mpc' = "stopped"
  /\ UNCHANGED <<mainVars, lpc, loopVars, cancelled, sharedVars, file>>

\* exit flushes every stream that is open.  After an error the program calls
\* it at once and stop_logging never.
Exit(how) ==
  /\ file' = file \o loopOut /\ loopOut' = <<>>
  /\ lpc' = "gone"
  /\ mpc' = how
  /\ UNCHANGED <<mainVars, i, cancelled, sharedVars, freed>>

ExitStopped == mpc = "stopped" /\ Exit("exited")
ExitAtOnce == mpc = "running" /\ msg > 0 /\ Exit("failed")

----------------------------------------------------------------------------
\* The thread: logger_loop.

Runs == mpc \notin Over

Open ==
  /\ Runs /\ lpc = "open"
  /\ lpc' = "test"
  /\ UNCHANGED <<mpc, mainVars, loopVars, cancelled, sharedVars, freed, file>>

\* logger_status says whether to go on.
TestStatus ==
  /\ Runs /\ lpc = "test" /\ ~freed
  /\ IF logger_status = 1 THEN lpc' = "check" /\ i' = 0
                          ELSE lpc' = "gone" /\ UNCHANGED i
  /\ UNCHANGED <<mpc, mainVars, loopOut, cancelled, sharedVars, freed, file>>

CheckSize ==
  /\ Runs /\ lpc = "check" /\ ~freed
  /\ lpc' = IF i < logger_buffer_size THEN "print" ELSE "reset"
  /\ UNCHANGED <<mpc, mainVars, loopVars, cancelled, sharedVars, freed, file>>

PrintLine ==
  /\ Runs /\ lpc = "print" /\ ~freed
  /\ loopOut' = Append(loopOut, Text(i))
  /\ i' = i + 1
  /\ lpc' = "check"
  /\ UNCHANGED <<mpc, mainVars, cancelled, sharedVars, freed, file>>

\* Mutant: the lines that were copied stay in the buffer.
ResetSizeForgotten ==
  /\ Runs /\ lpc = "reset" /\ ~freed
  /\ lpc' = "flush"
  /\ UNCHANGED <<mpc, mainVars, loopVars, cancelled, sharedVars, freed, file>>

ResetSize ==
  /\ Runs /\ lpc = "reset" /\ ~freed
  /\ logger_buffer_size' = 0
  /\ lpc' = "flush"
  /\ UNCHANGED <<mpc, mainVars, loopVars, cancelled, logger_status, logger_buffer, freed, file>>

\* Mutant: the stream stays open and keeps its lines.
CloseFileForgotten ==
  /\ Runs /\ lpc = "flush"
  /\ lpc' = "sleep"
  /\ UNCHANGED <<mpc, mainVars, loopVars, cancelled, sharedVars, freed, file>>

CloseFile ==
  /\ Runs /\ lpc = "flush"
  /\ file' = file \o loopOut /\ loopOut' = <<>>
  /\ lpc' = "sleep"
  /\ UNCHANGED <<mpc, mainVars, i, cancelled, sharedVars, freed>>

WakeUp ==
  /\ Runs /\ lpc = "sleep" /\ ~cancelled
  /\ lpc' = "test"
  /\ UNCHANGED <<mpc, mainVars, loopVars, cancelled, sharedVars, freed, file>>

\* A cancelled thread ends in the next of its calls that is a cancellation
\* point; sleep is one, the stdio calls may be.
EndCancelled ==
  /\ Runs /\ cancelled /\ lpc \in {"open", "print", "flush", "sleep"}
  /\ lpc' = "gone"
  /\ UNCHANGED <<mpc, mainVars, loopVars, cancelled, sharedVars, freed, file>>

\* The thread goes on with a list that is freed: the NULL pointer ends the
\* process, unless what the thread reads tells it to stop.
UseFreed ==
  /\ Runs /\ freed /\ lpc \in Copying \cup {"test"}
  /\ \/ Crash
     \/ /\ lpc' = "gone"
        /\ UNCHANGED <<mpc, mainVars, loopVars, cancelled, sharedVars, freed, file>>

----------------------------------------------------------------------------
\* The program begins a call, and goes on with it.
Begin == StartLogging \/ LoadSize \/ StopLogging \/ ExitAtOnce
GoOn ==
  \/ SetStatus
  \/ StoreSize \/ WriteSlot
  \/ StopCopies \/ StopCopied \/ StopCloses \/ CancelThread \/ FreeList \/ ExitStopped
Main == Begin \/ GoOn \/ WriteSlotCrashes

LoggerLoop ==
  \/ Open \/ TestStatus \/ CheckSize \/ PrintLine \/ ResetSize \/ CloseFile \/ WakeUp
  \/ EndCancelled \/ UseFreed

Idle == mpc \in Over /\ UNCHANGED <<mpc, mainVars, lpc, loopVars, cancelled, sharedVars, freed, file>>

\* What the two are in the middle of at the same time: the thread looks at
\* logger_status before it is set, copies while a message is put into the
\* buffer, works while the program stops; and a buffer with more messages
\* than it holds.
Meeting ==
  {m \in {"start", "info", "stop", "full"} :
     \/ m = "start" /\ mpc = "created" /\ lpc \notin {"none", "open", "test"}
     \/ m = "info" /\ mpc \in Informing /\ lpc \in Copying
     \/ m = "stop" /\ mpc \in Stopping /\ lpc \notin {"sleep", "gone"}
     \/ m = "full" /\ logger_buffer_size > BufferSize}
Watch == met' = met \cup Meeting'

Next == (Main \/ LoggerLoop \/ Idle) /\ Watch

Spec == Init /\ [][Next]_vars

\* The thread is scheduled, the program finishes the calls it has begun.  It
\* need not log or stop ever again.
Fairness ==
  /\ WF_vars(LoggerLoop /\ Watch)
  /\ WF_vars(GoOn /\ Watch)

FairSpec == Spec /\ Fairness

----------------------------------------------------------------------------
\* While the program is silent whenever the thread copies, and logs no more
\* than the buffer holds, the log file has the messages in the order they were
\* logged, none missing between two others and none there twice (logger.c
\* 97-99, 166-173).
InOrderOnce == met \subseteq {"start"} => \E k \in 0 .. msg : file = [m \in 1 .. k |-> m]

\* Under the same conditions, and with a thread that got its status in time,
\* every message is in the file in the end, without any help of stop_logging
\* (logger.c 150-158); unless the process ends first.
EverySaved ==
  \A m \in 1 .. MaxMessages : msg = m ~> m \in Range(file) \/ met # {} \/ mpc \in Over

\* A program that stops its logger leaves a complete log, even when the thread
\* is copying at that moment or has ended long before, if it did not log while
\* the thread copied (logger.c 69-82).
StopSavesAll ==
  mpc = "exited" /\ met \subseteq {"start", "stop"} => 1 .. msg \subseteq Range(file)

\* A program that stops its logger has logged every message (logger.h 19, 24).
NothingLost == mpc = "exited" => 1 .. msg \subseteq Range(file)

=============================================================================

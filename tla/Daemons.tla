------------------------------ MODULE Daemons ------------------------------
(***************************************************************************)
(* The file daemons.data (listener.c, 249-318): start_daemon forks and     *)
(* appends the number of the child, stop_listeners ends every process      *)
(* whose number it finds and removes the file.  Nothing in the repository  *)
(* calls start_daemon; the module says what the two do together.           *)
(*                                                                         *)
(* A program that calls start_daemon is one of Callers, its child a number *)
(* in the system's process table.  What the two read and write goes        *)
(* through stdio: fclose appends the four bytes at once, and a read takes  *)
(* all that is left in the file (it is shorter than a stdio buffer).  The  *)
(* calls of fgetc in one expression are made from left to right, as the    *)
(* usual compilers do.                                                     *)
(***************************************************************************)
EXTENDS Integers, SequencesExt

CONSTANTS Pids,      \* process numbers
          Callers    \* bound: the calls of start_daemon, each by a program of its own

ASSUME DaemonsAssumption == Pids \subseteq 1 .. 2^22

VARIABLES
  proc,       \* the process table: what runs under a number
  call,       \* how far each call of start_daemon is
  child,      \* the number its fork returned
  exists, bytes,   \* daemons.data
  opened,     \* the calls that have the file open under its name
  stop,       \* where stop_listeners is
  unread,     \* bytes it has in its stdio buffer
  position,   \* bytes it has taken from the file
  process_id, tries,
  met         \* history: what came together, see Meeting

fileVars == <<exists, bytes, opened>>
stopVars == <<stop, unread, position, process_id, tries>>
vars == <<proc, call, child, fileVars, stopVars, met>>

\* Mutant: the last fputc is missing.
WrittenShort(n) == [k \in 1 .. 3 |-> (n \div 256^(k - 1)) % 256]

\* The bytes of a number, low byte first, and back.
Written(n) == [k \in 1 .. 4 |-> (n \div 256^(k - 1)) % 256]

\* Mutant: every byte is read as the lowest.
ReadNumberUnshifted(b) == b[1] + b[2] + b[3] + b[4]

ReadNumber(b) == b[1] + b[2] * 256 + b[3] * 256^2 + b[4] * 256^3

\* The processes whose numbers are in the file.
Numbers ==
  {p \in Pids : \E k \in 1 .. Len(bytes) \div 4 : SubSeq(bytes, 4 * k - 3, 4 * k) = Written(p)}

Pending == {"forked", "opened"}   \* between fork and fclose

TypeOK ==
  /\ proc \in [Pids -> {"free", "daemon", "other"}]
  /\ call \in [Callers -> {"idle", "written", "left", "crashed", "runs"} \cup Pending]
  /\ child \in [Callers -> Pids \cup {0}]
  /\ exists \in BOOLEAN
  /\ bytes \in Seq(0 .. 255) /\ Len(bytes) % 4 = 0
  /\ opened \subseteq Callers
  /\ stop \in {"idle", "read", "kill", "remove"}
  /\ unread \in Seq(0 .. 255)
  /\ position \in 0 .. Len(bytes)
  /\ process_id \in Pids \cup {0}
  /\ tries \in 0 .. 2
  /\ met \subseteq {"race", "unopened", "reused"}

Init ==
  /\ proc \in [Pids -> {"free", "other"}]
  /\ call = [c \in Callers |-> "idle"] /\ child = [c \in Callers |-> 0]
  /\ exists = FALSE /\ bytes = <<>> /\ opened = {}
  /\ stop = "idle" /\ unread = <<>> /\ position = 0 /\ process_id = 0 /\ tries = 0
  /\ met = {}

----------------------------------------------------------------------------
\* start_daemon.

Goes(c, to) == call' = [call EXCEPT ![c] = to]

Fork(c) ==
  /\ call[c] = "idle"
  /\ \E p \in Pids :
       /\ proc[p] = "free"
       /\ proc' = [proc EXCEPT ![p] = "daemon"]
       /\ child' = [child EXCEPT ![c] = p]
  /\ Goes(c, "forked")
  /\ UNCHANGED <<fileVars, stopVars>>

ForkFails(c) ==
  /\ call[c] = "idle" /\ Goes(c, "left")
  /\ UNCHANGED <<proc, child, fileVars, stopVars>>

OpenDatabase(c) ==
  /\ call[c] = "forked" /\ Goes(c, "opened")
  /\ exists' = TRUE /\ opened' = opened \cup {c}
  /\ UNCHANGED <<proc, child, bytes, stopVars>>

\* The error is logged and fputc is called with the null pointer.
OpenDatabaseFails(c) ==
  /\ call[c] = "forked" /\ Goes(c, "crashed")
  /\ UNCHANGED <<proc, child, fileVars, stopVars>>

\* The four fputc and fclose.  A file that was removed takes the bytes along.
WriteNumber(c) ==
  /\ call[c] = "opened" /\ Goes(c, "written")
  /\ bytes' = IF c \in opened THEN bytes \o Written(child[c]) ELSE bytes
  /\ opened' = opened \ {c}
  /\ UNCHANGED <<proc, child, exists, stopVars>>

\* setsid fails in the parent if it leads its group; otherwise it goes on as
\* the child does.
SetSid(c) ==
  /\ call[c] = "written"
  /\ Goes(c, "left") \/ Goes(c, "runs")
  /\ UNCHANGED <<proc, child, fileVars, stopVars>>

----------------------------------------------------------------------------
\* stop_listeners.

\* Without the file there is nothing to stop, and the program exits.
StopOpens ==
  /\ stop = "idle" /\ exists
  /\ stop' = "read" /\ position' = 0 /\ unread' = <<>>
  /\ UNCHANGED <<proc, call, child, fileVars, process_id, tries>>

StopReads ==
  /\ stop = "read"
  /\ LET buffer == IF unread = <<>> THEN SubSeq(bytes, position + 1, Len(bytes)) ELSE unread
     IN  /\ position' = IF unread = <<>> THEN Len(bytes) ELSE position
         /\ IF buffer = <<>>
            THEN stop' = "remove" /\ UNCHANGED <<unread, process_id>>
            ELSE /\ stop' = "kill"
                 /\ process_id' = ReadNumber(SubSeq(buffer, 1, 4))
                 /\ unread' = SubSeq(buffer, 5, Len(buffer))
  /\ tries' = 0
  /\ UNCHANGED <<proc, call, child, fileVars>>

Running(n) == n \in Pids /\ proc[n] # "free"

Kill ==
  /\ stop = "kill" /\ Running(process_id)
  /\ proc' = [proc EXCEPT ![process_id] = "free"]
  /\ stop' = "read"
  /\ UNCHANGED <<call, child, fileVars, unread, position, process_id, tries>>

\* Mutant: the tries are not counted.
KillFailsUncounted ==
  /\ stop = "kill"
  /\ ~ Running(process_id) \/ proc[process_id] = "other"
  /\ UNCHANGED <<stop, tries, proc, call, child, fileVars, unread, position, process_id>>

\* Mutant: the loop is left at the first process that cannot be ended.
KillFailsStops ==
  /\ stop = "kill"
  /\ ~ Running(process_id) \/ proc[process_id] = "other"
  /\ IF tries < 2 THEN stop' = stop /\ tries' = tries + 1
                  ELSE stop' = "remove" /\ UNCHANGED tries
  /\ UNCHANGED <<proc, call, child, fileVars, unread, position, process_id>>

\* There is no such process, or it is one of another user.
KillFails ==
  /\ stop = "kill"
  /\ ~ Running(process_id) \/ proc[process_id] = "other"
  /\ IF tries < 2 THEN stop' = stop /\ tries' = tries + 1
                  ELSE stop' = "read" /\ UNCHANGED tries
  /\ UNCHANGED <<proc, call, child, fileVars, unread, position, process_id>>

StopRemoves ==
  /\ stop = "remove"
  /\ stop' = "idle" /\ position' = 0
  /\ exists' = FALSE /\ bytes' = <<>> /\ opened' = {}
  /\ UNCHANGED <<proc, call, child, unread, process_id, tries>>

StopListeners == StopReads \/ Kill \/ KillFails \/ StopRemoves

----------------------------------------------------------------------------
\* The system: a process ends by itself, a free number is given to another.
Ends(p) ==
  /\ proc[p] # "free"
  /\ proc' = [proc EXCEPT ![p] = "free"]
  /\ UNCHANGED <<call, child, fileVars, stopVars>>

Starts(p) ==
  /\ proc[p] = "free"
  /\ proc' = [proc EXCEPT ![p] = "other"]
  /\ UNCHANGED <<call, child, fileVars, stopVars>>

\* A daemon is started while others are stopped; the file could not be
\* opened; a number in the file has passed to a process that is no daemon.
Meeting ==
  {m \in {"race", "unopened", "reused"} :
     \/ m = "race" /\ stop # "idle" /\ \E c \in Callers : call[c] \in Pending
     \/ m = "unopened" /\ \E c \in Callers : call[c] = "crashed"
     \/ m = "reused" /\ \E p \in Pids :
          /\ proc[p] = "other"
          /\ p \in Numbers \/ \E c \in Callers : call[c] \in Pending /\ child[c] = p}

Next ==
  /\ \/ \E c \in Callers :
          \/ Fork(c) \/ ForkFails(c) \/ OpenDatabase(c) \/ OpenDatabaseFails(c)
          \/ WriteNumber(c) \/ SetSid(c)
     \/ StopOpens \/ StopListeners
     \/ \E p \in Pids : Ends(p) \/ Starts(p)
  /\ met' = met \cup Meeting'

Spec == Init /\ [][Next]_vars

\* stop_listeners is not blocked for good.
FairSpec == Spec /\ WF_vars(StopListeners /\ met' = met \cup Meeting')

----------------------------------------------------------------------------
\* Every daemon can be stopped: its number is in the file or about to be put
\* there.  So a stop that is over has ended them all, although it drops the
\* file (listener.c 261-269, 296-317); unless one was started meanwhile.
DaemonsStayKnown ==
  met \subseteq {"reused"} =>
    \A p \in Pids : proc[p] = "daemon" =>
      p \in Numbers \/ \E c \in Callers : call[c] \in Pending /\ child[c] = p

\* stop ends no process that is no daemon, whatever numbers the system gives
\* out, until one of a daemon that is gone is given out again (listener.c
\* 265-268, 297-299).
OthersAreSpared ==
  [][Kill /\ "reused" \notin met => proc[process_id] = "daemon"]_vars

\* stop ends, whatever it finds (listener.c 296-315).
StopEnds == stop # "idle" ~> stop = "idle"

=============================================================================

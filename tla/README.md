# FileTransferOverUDP in TLA+

Formal models of `data_sender`, a program that sends a file over UDP with its own
acknowledgements, window and retransmissions, and that logs through a thread. TLC checks
the models on small instances. TLAPS proves the safety properties for every value of the constants that
the table of section 4 allows: any file, any number of faults, any window but for two theorems, and that the CRC over
the bytes that were sent notices short bursts in packets of any length. Line numbers are those of the repository's C files.

## 1. The system

| Part | Code | State | Operations |
|---|---|---|---|
| Sender | `sender.c` 57-113, 131-199, 201-449 | window `unconfirmed_packets`, `first_unsent_packet_n`, `last_packet_n`, `sending`, the position in the code, the C stack of `send_DATA_packet` | SYNC handshake, rounds of the DATA window, HASH handshake, second pass after a negative answer |
| Listener | `listener.c` 43-247, 373-381 | `data_owner->file`, `is_accepted`, `client_port`, the file and its stdio buffer | one receive loop: SYNC, DATA, HASH, damaged and unknown packets |
| Packets | `packets.h` | none | layout, CRC, the "last packet" bit of `packet_n` |
| UDP and the system calls | `sendto`, `select`, `recvfrom` as the two files use them | datagrams on their way | loss, copies, reordering, damage, timeouts, failing calls |
| Received file names | `listener.c` 320-381 | files of the working directory | number a name that is taken, open the base name |
| Logger | `logger.c` | `logger_buffer`, `logger_buffer_size`, `logger_status`, shared by program and thread without a lock | `start_logging`, `info`/`warning`/`error`, `logger_loop`, `stop_logging` |
| Arguments | `tools.c` 35-105, `data_sender.c` 42-70 | option values, operation | `parse_args`, dispatch |
| Daemon and stop | `listener.c` 249-318 | `daemons.data`, the processes in it | `start_daemon` (never called), `stop_listeners` |
| File queue | `data_queue.c` | list of files | never called |
| Earlier sender | `sender2.c` | | commented out as a whole |
| CRC library | `libcrc-2.0/src/crc32.c` 40-131 | table `crc_tab32` of each process | `crc_32`; the other checksums of the library are not called |

How they interact: `main` parses the arguments and runs one of `send_data`,
`start_listener`, `stop_listeners`. Sender and listener are two processes that share
nothing but datagrams. Each has one logger thread, which shares the message buffer with
it. The user may run the sending program many times against one listener, usually from
the same port, so a datagram for one run can reach the next.

What is hard in it:

- Retransmission with timers of half a second against a network of unknown delay: an
  answer may be late, come twice, or arrive in a later phase or a later run of the sender,
  and no ACK says which kind of packet, or which run, it answers.
- The window is refilled, repeated and freed slot by slot over rounds that end early on
  the last packet's ACK; `last_packet_n = 0` means both "none yet" and "packet 0".
- A negative answer to the HASH makes `send_DATA_packet` call itself; the outer call goes
  on afterwards.
- The listener keeps one stream and one `is_accepted` for all transfers; some datagrams
  reach it when its stream is not open, which C leaves undefined.
- Two threads read and write the log buffer unlocked; stopping frees what the thread uses.
- A process number outlives its process: `stop_listeners` kills by numbers from a file which
  another program may be appending to, and which it removes whatever it achieved.
- Every statement about damage rests on a CRC whose table is built at the first call, and on a listener that goes by the
  type byte it received: it says which bytes are checked, where their remainder lies, and whether anything is checked.

What makes each part correct:

- Sender: numbers stay inside the file, no packet waits twice, none is left behind, the
  program ends.
- Listener: blocks go to an open file, a file holds one transfer, and is closed in the end.
- Transfer: a packet the sender has dropped from its window is in the file; success means
  a complete, accepted file; the transfer implements the abstract copy.
- Names: no file is overwritten, numbers are used in order.
- Logger: each message reaches the file once and in order; stopping saves what is left.
- Arguments: the last argument of a kind counts; an operation runs only with what the program asks for.
- CRC: both sides agree on a packet nothing happened to; damage within 32 bits is noticed where the bytes that were sent are checked.
- Daemons: every daemon can be found again, nothing else is killed, `stop` ends.

`PROJECT.json` lists the hazards with their lines and the properties that watch them.

## 2. Modules

```
Packets      packets, numbers, the cutting of a file into DATA packets
  Network    two channels, faults, select's timeout
    Sender   sender.c            Listener   listener.c
       \_______ FileTransfer _______/        composition, properties, INSTANCE FileCopy
                   |         \
        MCFileTransfer     FileTransfer_proofs     OneRoute_proofs
FileCopy     what copying one file promises (abstract)   FileCopy_proofs
Logger       logger.c                          Logger_proofs
FileNames    parse_SYNC_packet, setup_data_file    FileNames_proofs
Arguments    parse_args, main         MCArguments  Arguments_proofs
Daemons      start_daemon, stop_listeners      Daemons_proofs
Crc          crc_32 at both ends      MCCrc      Crc_proofs
```

**Packets.** A packet is a record. `ok` says whether its CRC matches; a damaged packet keeps a type byte only, which may itself
have changed. That a damaged packet has `ok = FALSE` is proved for damage within 32 bits in a row, in an ACK or in a packet whose
type byte stays what it was (`Crc`). It is taken for granted for any other damage: a DATA packet whose type becomes that of a SYNC or a HASH
is checked over other bytes, which a file may hold with a matching remainder. A damaged HASH, or what was made one, is confirmed unseen
when one was accepted before; that is in the model (`ReceiveHashAgain`).
The content of a file is the index of its transfer; block `k` is the 1011 bytes of DATA packet
`k`. `AtEof` is `feof` after `fseek` and `fread` (a file whose size is a multiple of 1011
ends in an empty packet).

**Network.** `toListener` and `toSender` hold what is on its way. Loss, duplication,
reordering and damage are actions. `SelectTimesOut` is a timeout of `select`: it is free when
nothing is on its way (the answer will not come) and otherwise the fault "delay": the timer
fires first. `faults` holds how many faults there were, at most `MaxFaults`, and of which kinds;
`Faults` names the kinds that an environment has. A property that puts up with some kinds only
(`NoCopies`, `InOrder`) asks for the kinds seen so far, so that one run with every fault checks
each under its own condition.

**Sender.** A step is the code between two calls on the socket. `pc` is the place:
`sync_send/sync_wait` (the loop of `send_SYNC_packet`), `check/send/recv` (top, sending `for`
and receiving `for` of the window loop), `hash_send/hash_wait`, `done` (`send_data` is at its
end), `exited` (an error exit). `i` is the loop index. The recursion is `depth`, the number of
callers that wait: a caller whose callee returns still holds its own negative ACK and sends the
HASH again, so `HashConfirmed` goes to `hash_send` unless `depth = 0`. Failing `sendto` differs
by place, as in the code: in SYNC it is tried again at once, in DATA the slot stays empty after
`last_packet_n` was written, for a HASH the sender waits as if it were sent.
`NextTransfer` is the next run of the program.

**Listener.** One action per kind of datagram, each the whole body of the loop including the
answer. `handle` is the state of the stream: never set, open, closed. `content` is the
file as its stream sees it and `unflushed` the block whose bytes are in the stdio buffer only
(stdio may write them earlier; the model keeps them as long as the code allows). Use of a stream
that is not open is undefined: the process dies, or the call does nothing. A negative answer's
`packet_n` is stale memory that the sender only logs; it is not modelled. An answer the
listener cannot send is a lost datagram. `client_port` is 5010 whatever the sender is bound to
(`sender.c` 134); `LocalPort` is the sender's. `opens` counts the files opened ("2" is
"several") and is a history variable.

**FileTransfer** composes the three, states the properties and instantiates **FileCopy**:
`stored` are the blocks of the listener's file, `known` the packets of the current pass that the
sender no longer waits for, `phase` comes from `pc` (`exited` is "aborted").

**Logger.** One access to shared memory per step: `LoadSize`, `StoreSize`, `WriteSlot` for
`logger_buffer_size++` and `sprintf`; `CheckSize`, `PrintLine`, `ResetSize` for the thread's
copying; the five stages of `stop_logging`. `mainOut` and `loopOut` are the stdio buffers
of the two streams on the log file. A slot that is written while it is read reads as before or
after. `pthread_cancel` takes effect at a later cancellation point; what follows
`FreeList` may crash. `logger_status` starts with either value (it is malloc'ed); the size
is taken to start with 0, as it does in fresh memory, nothing can be said otherwise. The history variable
`met` collects the ways in which program and thread have overlapped; a property says with it
which overlap it excludes.

**FileNames.** A path is a directory part and a name. The number goes in front of the path's
first dot, which for `./x` is the dot of `./`; `access` looks at the path, `fopen` at the base
name. A name that contains its own digits and dots beyond the first is abstracted.

**Arguments.** One action per kind of argument in `parse_args`' loop, then its checks and `main`'s choice (`Finish`). `argv` is the history
of what was read. Numbers are computed digit by digit as in the code (`ReadInt`, and `ReadByte` for `--n`, in 8 bits), as recursive functions
of the number of digits read; `Value` is what the digits stand for. Characters that are not digits, and ports beyond 32 bits,
are left out, so is `--CRC`, whose value nobody reads. The first byte of the file name's buffer is whatever `malloc` left.

**Daemons.** `proc` is the system's process table; numbers are given out again when their process
has ended. A call of `start_daemon` goes through `Fork`, `OpenDatabase`, `WriteNumber` (the four
`fputc` reach the file at `fclose`) and `SetSid`; `stop_listeners` through `StopOpens`, `StopReads`
(the first read takes the rest of the file into the stdio buffer), `Kill` or up to three
`KillFails`, and `StopRemoves`. The file is its bytes, so a number that is written or put together
in a different order is another number. The calls of `fgetc` in one expression are taken from left
to right. `met` collects what happened in the meantime: a start during a stop, a
file that could not be opened, a number that was given out again.

**Crc.** A word is the set of its bits, exclusive or the symmetric difference. `Send`, `NextByte`,
`Sent` are `crc_32` where the packet is built, `Arrives`, `NextByte`, `Compare` where it is received, with a table for each process;
`NewSender` is a new sending process, whose table is empty again. The line flips a set of bits, numbered as they lie in
the packet: its bytes, then the remainder, low byte first. The two receivers differ. The sender takes whatever comes for an
ACK (`ReceiveAck`: `sender.c` 182, 333, 433). The listener (`ReceivePacket`) copies what came into `client_message`, which keeps what
lies behind a shorter packet from the one before, and looks at the first byte, which may have been flipped: for a SYNC, DATA or HASH it checks as many
bytes as that type has and takes the four behind them for the remainder (`listener.c` 101, 135, 179); a HASH after an accepted one
it confirms without a check (186); an ACK and anything else it drops (219). `Lengths` are the bytes of a type in front of the remainder, `BufferSize` those
of `client_message`. `registers` keeps the values of `crc` where the packet was built, for the proof.

## 3. Checks

`tlc -config <run>.cfg <module>.tla` in this directory. `crc` takes one to two minutes, every other run less than one.

| Run | Instance | Shows |
|---|---|---|
| `any_fault` | window 2, 3 packets, 2 runs of the sender, 3 faults of every kind | types; `NumberInv`, `WindowInv`, the inductive `TransferInv`, `ConfirmedIsWritten` and `FinishedIsComplete` until there is a copy or a restart, or a second file opened in a run with an early timer; `NoStaleBlocks` until there is a copy or one packet overtakes another; `NothingLeftBehind` until a call to send fails; `LaterConfirmedIsWritten` and `WritesGoToOpenFile` in the first transfer until a datagram is copied or overtaken or the listener restarts, the half of the second that is about `fclose` until one is damaged |
| `lossy_line` | window 2, 5 packets, 3 losses or late timers, order kept | the sender `Completes` |
| `patient_timers` | window 2, 4 packets, 4 faults (loss, damage, reordering, failing calls), timers never early | `DoneIsComplete`, `DoneIsSaved`, refinement `CopySpec` |
| `logger` | buffer for 2, 3 messages | types, `InOrderOnce`, `StopSavesAll`, `EverySaved`, in every interleaving |
| `plain_names` | 2 stems, 5 numbers, any older files with numbers below 2, 3 SYNCs | `NumbersInOrder`, `KeepsFiles` without directories |
| `arguments` | every command line of 4 arguments | `LastOneCounts`, `RunsComplete` |
| `crc` | one packet of each type, 1 to 7 bytes and the remainder, the DATA packet made so that it is a HASH when two bits of its type flip; no damage, or to one packet: bursts of 1, 2 and 32 bits, two shapes each, at every bit, and 33 bits | `IntactIsAccepted`, `RemainderIsBitwise` (the table against the division it stands for), `BurstIsNoticed`, `KnownAnswers` (`test/testcrc.c` 61-64) |
| `daemons` | 2 calls of `start_daemon`, numbers of 1, 2 and 3 bytes | `DaemonsStayKnown`, `OthersAreSpared`, `StopEnds` |
| `stale_sync_ack` | window 2, 3 packets, 2 faults (a late ACK, a lost packet) | **violated:** `DoneIsComplete` |
| `second_file` | two transfers, no fault at all | **violated:** `FinishedIsSaved` |
| `mixed_files` | two transfers, 4 packets, 3 faults | **violated:** `OneTransferPerFile` |
| `lost_message` | buffer for 3, 3 messages | **violated:** `NothingLost` |

Why these bounds. Two slots are the least for which a round can end with one slot filled, and
the packets of a file outnumber them, so that slots are used again. Two to four faults are
enough for a lost packet, a lost ACK and a late one in the same transfer; the counterexamples
below need one to three. A file of one packet is not in the runs' bounds: `NumbersBounded`, `WindowCorrect`
and `FinishedFileIsComplete` are proved of it too, and TLC finds nothing against the three with `LastPacket = 0` in `any_fault`. A damage of 33 bits, the polynomial itself, is among those of `crc` and passes, so 32 is as far as
`BurstIsNoticed` can go; other damage longer than 32 bits is not tried. In `crc` two flipped bits of the DATA packet's type pass as well, in a check over
other bytes, which the property excludes in as many words. Two transfers show what the listener carries over. The proofs of section 4 do not
depend on any of these bounds. The logger's buffer is one message too small so that the overflow
happens; two log records in flight are enough for every race between one writer and one reader.

Bounds: `LastPacket`, `MaxSessions`, `MaxFaults`, `MaxMessages`, `MaxSyncs`, `OldNumbers`, `MaxArguments`, `Messages`, `Flips` and `MaxDamaged`, `Callers` and `Pids`. `depth` is bounded by
the number of damaged HASHes, that is by `MaxFaults`.

### Fairness

`FileTransfer!Fairness` asks for weak fairness of the sender's own steps and of the listener, that is
both processes are scheduled. Receiving an ACK has strong fairness: between two receptions
the sender passes through states in which it does not listen, while the datagram stays in
the socket's buffer, so one that is there each time the sender polls is read in the
end. Nothing is assumed of the network but that it makes at most `MaxFaults` faults, without which no
protocol delivers anything. `Logger!Fairness`: the thread runs, and the program finishes the
calls it has begun; it need not log or stop again. Under `EverySaved` the program may stop or
exit at any moment, which is allowed for in the property. `Daemons!FairSpec`: `stop_listeners` goes on once it has begun; no
process has to end or to be started. `Crc`, `FileNames` and `Arguments` are checked for safety only.

### Findings

1. **A late answer to a SYNC costs the first block** (`stale_sync_ack`). SYNC's ACK is late, the SYNC
   is repeated and has the listener open the file anew, DATA packet 0 is lost, and the second SYNC's answer
   arrives in the DATA phase with packet number 0 and confirms packet 0 (`sender.c` 352). The sender
   reports success; `compare_hash` (`listener.c` 246) returns 1 without comparing. The same lack of a
   comparison shows with the invariant "`is_accepted` implies a complete file".
2. **The second file is never closed** (`second_file`): `is_accepted` stays set.
3. **A file is written into the one before** (`mixed_files`): an ACK for the program's earlier run confirms
   a SYNC that was lost.
4. **A message logged while the thread copies is lost** (`lost_message`).

Further disagreements that the models show with other constants, not kept as runs:

- `Faults = {"sendfail"}`, `MaxFaults = 1` (in `lossy_line`): `Completes` fails, and so does `NothingLeftBehind` without its condition. `last_packet_n` is written
  before `sendto` fails for the last packet (`sender.c` 266-279), which is never sent again in spite of "Trying
  to send again"; the sender spins.
- `WindowSize = 3`, `LastPacket = 3`, `Faults = {"loss"}`, `MaxFaults = 2`: `DoneIsSaved` fails. An ACK of a DATA packet that was sent again and is
  left in the socket is taken for the answer to the HASH (`sender.c` 441).
- `WindowSize = 2`, `LastPacket = 0`, no faults: `DoneIsSaved` fails. A file that fits one packet is sent as packets 0 and 1, both flagged as the last,
  because a `last_packet_n` of 0 means "none yet" (`sender.c` 254). The ACK of packet 0 ends the round and that of packet 1 the next one; the second ACK of packet 1
  is left for the HASH, and the sender is done before the listener has seen it.
- `WindowSize = 2`, `LastPacket = 0`, `Faults = {"corrupt", "reorder", "sendfail"}`, `MaxFaults = 5`: the refinement `CopySpec` fails. An ACK of packet 1 is left over
  when the first pass ends, a damaged HASH starts a second one, both its calls of `sendto` fail, and the ACK that was left, flagged as the last, ends a pass in which
  nothing was sent. With larger windows and files of several packets the same takes about ten faults, beyond what TLC can search; it finds no violation with
  windows of two (two packets at least) and three and up to four faults.
- `LocalPort = 6000`, no faults: `Completes` fails, answers go to port 5010, against `README.md` 9.
- `WindowSize = 0` (`--n=256` in 8 bits, `tools.c` 70): `Completes` fails, nothing is ever sent.
- `Faults = {"loss", "corrupt"}` in `lossy_line`: `Completes` fails, and so does `WritesGoToOpenFile` when its `OneRoute` is dropped. A HASH whose type byte is damaged to DATA
  is answered negatively after the file was closed; the second pass writes to a closed stream.
- Arguments: the invariant `SendHasAll` of `Arguments`, which states the usage of `send` (`README.md` 18), fails. A sender runs without `--filename=` when the
  memory the name was to be in does not start with a zero byte (`tools.c` 82, `data_sender.c` 45), with an empty one that follows `send`, and in any case without
  `--ip=` and `--port=`, which only a listener is asked for (`tools.c` 97). `--file=`, the option of the usage line (`README.md` 3), is skipped.
- `stop` stops nothing: `start_daemon` is never called, so `daemons.data` is never written (`README.md` 17 "Stop listening.").
- Logger: `mpc # "crashed"` fails, when the program stops while the thread copies (`logger.c` 226) and
  when more messages come in a second than the buffer holds (`logger.c` 98). Dropping `met # {}` from
  `EverySaved` shows the thread that ends at once because its status is set after it is created
  (`logger.c` 206); messages before an error exit are not in the log (`ExitAtOnce`).
- The invariant `ConfirmedIsCorrect` of `Crc` fails, against `packets.h` 25 ("11111111 if packet is correct 00000000 otherwise."): a HASH is accepted, the
  next packet with the type byte of a HASH is damaged and confirmed without a look at it (`listener.c` 186).
- The invariant "no packet damaged within 32 bits is accepted" of `Crc` fails, `BurstIsNoticed` says where: two flipped bits make a HASH of a DATA packet
  whose first bytes are those of a HASH with its remainder.
- `Directories = {"sub", "here"}` in `plain_names`: `KeepsFiles` fails. A name is looked up by its path and opened by its base
  name (`listener.c` 374), so an existing file is emptied.
- `DaemonsStayKnown` without its condition on `met`: a number that is written while `stop` runs goes with the file
  (`listener.c` 317).
- `NumberLimit = 2`, `OldNumbers = 2` in `plain_names`: `KeepsFiles` fails, after the last number the file with the name that was asked for is emptied
  (`listener.c` 331, against 356 "Could not create file").

## 4. Proofs

`tlapm` on `FileTransfer_proofs.tla`, `OneRoute_proofs.tla`, `FileCopy_proofs.tla`, `Logger_proofs.tla`, `Crc_proofs.tla`, `FileNames_proofs.tla`, `Arguments_proofs.tla`
and `Daemons_proofs.tla` checks them. They hold for every
value of the constants that the named assumptions of the modules allow, and under the assumptions of its own that the table names for a theorem.

| Theorem | States | Condition inside the property, or assumption |
|---|---|---|
| `TypeCorrect` | `[]TypeOK` | |
| `NumbersBounded` | `[]NumberInv` | |
| `WindowCorrect` | `[]WindowInv` | |
| `TransferCorrect` | `[]TransferInv` | `SafeOpening`: first transfer; no copy, no restart so far; one file opened or no timer too early so far |
| `ConfirmedBlocksAreWritten` | `[]ConfirmedIsWritten` | `SafeOpening` |
| `FinishedFileIsComplete` | `[]FinishedIsComplete` | `SafeOpening` |
| `SuccessIsComplete` | `[]DoneIsComplete` | assumes one transfer and no "duplicate", "restart", "delay" among `Faults` |
| `NothingIsLeftBehind` | `[]NothingLeftBehind` | first transfer; no call to send has failed |
| `SuccessIsSaved` | `[]DoneIsSaved` | assumes `Prompt` (the same), and `SmallWindow` (a window of at most one, or of two and a file of two packets at least) or `CleanLine` (any window, a file of two packets at least, only calls fail) |
| `TransferIsCopy` | `CopySpec`, the refinement of `FileCopy` | assumes `Prompt`, and `SmallWindow` or no "corrupt" among `Faults` |
| `NoStaleBlocksCorrect` | `[]NoStaleBlocks` | `InOrder`: no copy, no reordering so far; any number of transfers and restarts |
| `LaterConfirmedBlocksAreWritten` | `[]LaterConfirmedIsWritten` | first transfer; so far no copy, no reordering, no restart; damage, further passes, late timers and failing calls allowed |
| `WritesAreToOpenFile` | `[]WritesGoToOpenFile` | the same; for "not after `fclose`" no damage so far either (`OneRoute`) |
| `CrcTypes` | `[]TypeOK` of `Crc` | |
| `IntactPacketsAreAccepted` | `[]IntactIsAccepted` | of a HASH after an accepted one it says that it is confirmed |
| `RemaindersAreBitwise` | `[]RemainderIsBitwise` | |
| `BurstsAreNoticed` | `[]BurstIsNoticed` | the flipped bits lie within 32; the packet is an ACK, or the listener took its type for what it was |
| `LoggerTypes` | `[]TypeOK` of `Logger` | |
| `LinesInOrder` | `[]InOrderOnce` | `met \subseteq {"start"}`: no message while the thread copies, no overflow, no stop while it works |
| `StopSaves` | `[]StopSavesAll` | `met \subseteq {"start", "stop"}` |
| `NumbersAreInOrder` | `[]NumbersInOrder` | assumes `Directories \subseteq {"none"}` |
| `PlainFilesAreKept` | `KeepsFiles` | assumes the same and `MaxSyncs + OldNumbers <= NumberLimit` |
| `TheLastOneCounts` | `[]LastOneCounts` | |
| `RunsAreComplete` | `[]RunsComplete` | what `parse_args` looks for; it does not look for a file name that was given (section 3) |
| `DaemonTypes` | `[]TypeOK` of `Daemons` | |
| `DaemonsAreKnown` | `[]DaemonsStayKnown` | `met \subseteq {"reused"}`: no start during a stop, every file could be opened |
| `NobodyElseIsEnded` | `OthersAreSpared` | `"reused" \notin met`: no number in the file was given out again |

The conditions are needed: a late SYNC opens an empty file in the middle of a transfer (finding 1), a second copy of a SYNC's ACK confirms packet 0, a restarted listener has lost its file, and a DATA packet
that is overtaken by the SYNC of the next transfer is written into that one's file.

*Types.* `TypeOK` is not inductive: that a new packet's number is on the wire's range needs `NumberInv` (no new
number after the end of the file). `TypeInv == TypeOK /\ NumberInv` is.

*Window.* `WindowInv` is inductive relative to `TypeInv`: a new packet gets the next number, every other step keeps or empties slots.

*Transfer.* `ConfirmedIsWritten` says nothing of what is on its way, and a confirmation on its way is what empties a slot. The
inductive invariant therefore describes both channels per phase:
`SyncInv` (only SYNCs out, one confirmation at most, so none is left over when the DATA phase begins),
`TransitInv` (the file is open or complete; every DATA packet on its way is of this file and has its proper flag; every
confirmation on its way is of a block the file has), and `PassInv` (the "last packet" flag is nowhere before the last packet was sent;
whoever is past the window, or in a later pass, has a complete file). The network's steps keep it because each datagram they
leave is an old one or a damaged one (`MisbehaveKept`, `KeptIsNothingNew`); the sender's and the listener's steps are one
lemma each, with a step per action. That a second file does no harm as long as no timer was early is `PatientInv`: a SYNC is repeated
only when nothing is on its way, so one datagram at most is out in the handshake and no SYNC is left when it ends.

*Last packet.* `NothingLeftBehind` follows from `LastInv`: a packet or an ACK on its way is flagged as the last exactly when its number
is the end of the file, and while the sender has read the end and has not seen such an ACK, the last packet waits in a slot, where only that ACK
can take it from. A failing `sendto` is what breaks this, the slot stays empty.

*Rounds.* `SuccessIsSaved` needs that no ACK is left over for the HASH: `compare_hash` compares nothing, and whoever confirms is believed. When no timer is early, `select` gives up
only when nothing is on its way, so a round that ends by a timeout leaves nothing behind, and one that takes `WindowSize` answers has taken all it could have caused. `OutInv` counts the
datagrams that are out against the slots that were sent and the receptions left. The one exception is the ACK of the last packet, which ends its round at once. By `FlagInv` it
exists once and its packet is still in its slot, so with two slots what it leaves is one answer at most (`ClosingInv`), to the packet in the other slot; that packet is sent
once more, and the last round is not over before both answers are in or nothing is out. `LastNumber` is where the file must need two packets. `SavedInv` follows the HASH from there: only
HASHs are on their way, and a positive answer to one means that the file was closed. With three slots the leftovers outnumber the receptions and the property fails (section 3).

*Rounds on a clean line.* When only calls fail, no window is too large (`CleanInv`). Then a packet is never sent twice, and the ACKs on their way, followed by the packets on
theirs, are in the order of their numbers (`Queue`); so the ACK of the last packet, which ends its round at once, is the last datagram there is, and every other round
takes in all its answers (`RoundsOut`). Or the listener has died or answers to another port, and nobody answers any more (`Deaf`). Either way nothing is left for the HASH. Before it was proved
TLC checked this invariant with windows of one to four and files of two to seven packets.

*Refinement.* `CopyInv` puts the invariants above together with `StartInv` (the file is empty until the handshake ends) and `EndInv` (every packet was sent when the ACK of the last
one comes). `Learn` is the step where an ACK empties a slot, and its block is stored by `TransitInv`; `Compare` needs every packet confirmed, from `PassInv`. Without damage nothing is
refused and there is one pass, for every window (`IntactInv`). With damage a HASH may arrive as DATA and be answered negatively, and a second pass begins (`CopyAgain`), from an empty
window: `OutInv` says that nothing of the first pass is left. For larger windows and damage the refinement is left to TLC.

*Order.* `NoStaleBlocks` follows from `OrderInv`: as long as the line keeps the order, the datagrams on their way to the listener are
in the order of their transfers, none is newer than the sender's transfer or older than the listener's file, and no block in that file is older than the file itself.
A SYNC that opens a file therefore has nothing older behind it.

*One route.* Without damage (`LineInv`) SYNCs, DATA packets and HASHes wait for the listener in this order (`Phases`). A DATA packet is sent only after an answer to a SYNC, so it finds the
file open, and a HASH, which closes it, comes behind the last of them (`FileOpen`). Damage may turn a HASH into DATA, which is answered negatively, and a second pass sends DATA
behind HASHes; `LaterInv` keeps what is left of the order: no SYNC comes behind another packet (`Sequel`), and nobody sends more than SYNCs before a file was opened
(`Opened`). An ACK with a number above 0 answers a DATA packet, so every SYNC was received before that one: its block is in the file and nothing is left that could empty
the file (`LaterBlocks`). When the first pass ends this is so of every block but 0 (`PassEnded`, `FirstPass`), and later passes only write again. Packet 0 is
the exception because the ACK of a SYNC has its number. TLC finds both properties violated when a copy, reordering or a restart is allowed, and the half
about `fclose` when damage is.

*CRC.* `CrcInv` follows the difference of two registers, the receiver's and the one the sender of the packet had at the same byte (`registers`), whenever the receiver
checks the bytes that were sent (`Aligned`): always for an ACK, and for the others when the type byte is what it was, for then length and place of the remainder are too
(`Delivered`, `RemainderDelivered`). One step turns the difference, together with the bits flipped in the byte, by `Shift8`: a turn of the inner loop is linear, so the
packet's own bytes fall out. Before the first flipped bit the difference is empty. While that bit is still inside the register it is the lowest
bit of the difference and moves down one place with each turn; the turn that shifts it out puts the polynomial in, which has bit 31. From then on (`Shows`)
some bit of the difference lies beyond everything a burst of 32 bits can still flip, whatever the later turns do, so no later flip cancels it: not in the bytes and not in the
remainder. Of a packet whose type byte was changed nothing is proved but that the model keeps its types: what the check makes of it depends on the bytes. `IntactIsAccepted` is the case in which nothing is flipped. `RemainderIsBitwise` uses the same linearity: a byte of the packet is
taken in at once by `Shift8` of its difference with the register, which is what eight single turns make of its bits one after the other (`BitTaken`, `ByteTaken`).

*Logger.* `SizesInv` keeps the size and both readers' indices below the number of messages. `OrderInv` cuts the messages into those in the
file, those in the stream of whoever copies, those in the slots and the one `info` is about to put there, each part beginning where the one before it ends. `SaveInv` does
without order, which two copying at once do not keep: every message past `info` is in the file, in a stream's buffer or in a slot below the size, and who is about to
set the size to 0 has copied every slot below it. Both hold for as long as `met` lacks what breaks them; `SeenInv`, that `met` misses no meeting, is what lets a proof use that.

*Names.* Both theorems need to know which number a SYNC gets: the library's `Min` of the free numbers is free and the least, because a
set of natural numbers has a least element (well-foundedness of `<`). `NumbersInOrder` is then inductive, older files among those that are there. `KeepsFiles` needs
`NumbersUsed`: after `k` SYNCs every number in use is below `k + OldNumbers`, so that number is free when the next one comes.

*Arguments.* `GivenInv` says of every option that it was given or is as it was at first, that the file name is the last one given, and of every `send` read so far that
the last file name in front of it was not empty (`NamesGiven`). `LastInv` says of every kind that the last argument of it is the option's value; that this value is the number the digits stand for is an
induction over the digits. The library's induction theorem takes an operator, which no prover here can give it, so the module has induction over a set of numbers
(`Induction`, from the least number outside the set, which exists since `<` is well-founded) and from it the existence and uniqueness of a function that is defined by recursion
(`Recursion`, `Solution`). `IntIsValue` is then that what was read, times the weight of the digits that are left, plus what these stand for, is the number at every digit;
`ByteIsInt` that 8 bits at every digit are 8 bits of the whole.

*Daemons.* `Holds` relates bytes to numbers: reading four bytes gives the number that was written (`ReadIsInverse`), appending a number to the file and taking one from its
front act on the sequence of numbers. `DaemonsInv` says that file and stdio buffer hold such sequences, and where the number of every daemon is (`Known`): in the file or in a call that has yet
to write it, and, while a stop is at work, in its hand, in its buffer or in what it has not read. `OthersAreSpared` needs of this that a number in hand was in the file.

*Checked by TLC only.* Liveness (`Completes`, `EverySaved`, `StopEnds`), which TLAPS does not reach; `DoneIsSaved` with neither `SmallWindow` nor `CleanLine`, where it may
fail when the line loses or reorders (section 3); the refinement with damage and without `SmallWindow`, which fails in the end (section 3); `KnownAnswers`, values of particular strings.

## 5. Not modelled

- Printing, the wording of messages, sleeps, sockets' setup and its exits, `malloc` failures.
- `data_owner->packet_n`: it is written and never read.
- A negative answer of the listener to a wrong hash: `compare_hash` never finds one. `ReceiveHash` has the branch.
- File names of 76 characters and more, for which the number in front of the dot makes the name longer than its buffers (`listener.c` 329-359).
- Two senders at the same time; two listeners; addresses.
- Packet numbers beyond 31 bits (files above two terabytes), excluded by `PacketsAssumption`.
- `stop_logging_file`, never called; several loggers in one process.
- `data_queue.c`: not called but for its record type; its first operation writes through a pointer never set.
- `sender2.c`, commented out.
- The checksums of `libcrc-2.0` other than `crc_32`, its test program and its examples: not called. Damage beyond 32 bits in a row, of which
  a share of about one in 2^32 passes, and, in the model of the transfer, a packet that passes as one of another type.
- What the processes in `Daemons` do besides: a daemon's own protocol is the listener's.

## 6. Plan

Done, in this order: Packets, Network, Sender, Listener, FileTransfer with its runs; its proofs; Logger; FileNames; Arguments;
conditions on the faults seen so far, and the order of transfers (`NoStaleBlocks`) with its proof; Crc with its proof; Daemons;
the theorems on names and arguments, on the last packet, on the refinement, on the logger and on one route; those on rounds (`SuccessIsSaved`), daemons, the last
argument and its number; on rounds of any window without faults on the line, on lines that damage (`LaterConfirmedIsWritten`, `WritesGoToOpenFile`) and on the table of the CRC (`RemainderIsBitwise`); the check of
a packet by the type byte that arrived, older numbered files, and what `send` is really asked for.

Left:

1. `stop_logging_file` and several loggers in `Logger`.
2. In `Network` and `Listener`, packets whose damaged type byte passes for another one.
3. The refinement with damage for windows above two: the weakest condition under which a leftover ACK cannot end a pass.

----------------------------- MODULE Arguments -----------------------------
(***************************************************************************)
(* The command line (parse_args in tools.c, main in data_sender.c): the    *)
(* arguments are read one after another, the last one of a kind counts,    *)
(* and then main runs the operation or the program ends with an error.     *)
(*                                                                         *)
(* An argument is an option with its text or its digits, a command, or     *)
(* anything else, which is skipped; --file=, the option of the usage       *)
(* message, is one of these.  The CRC code is left out: it is passed on    *)
(* and nobody reads it.                                                    *)
(***************************************************************************)
EXTENDS Integers, Sequences

CONSTANTS Texts,         \* texts after --ip=, --dest_ip= and --filename=
          Numerals,      \* digit sequences after --port=, --dest_port= and --n=
          MaxArguments   \* bound: arguments after the program's name

TextOptions == {"ip", "dest_ip", "filename"}
NumberOptions == {"port", "dest_port", "n"}
Options == TextOptions \cup NumberOptions
Commands == {"listen", "stop", "send", "help"}

ASSUME ArgumentsAssumption ==
  /\ Numerals \subseteq Seq(0 .. 9)
  /\ MaxArguments \in Nat

ArgumentSet ==
       [is : TextOptions, text : Texts]
  \cup [is : NumberOptions, digits : Numerals]
  \cup [is : Commands \cup {"unknown"}]

VARIABLES argv,       \* the arguments read so far
          options,    \* what they have set, by name
          operation,
          outcome     \* "parsing", the operation that runs, or the error

vars == <<argv, options, operation, outcome>>

Empty == ""
NoPort == -1
NoOperation == "none"

\* The buffers of the two addresses are emptied, that of the file name is not:
\* its first byte is what malloc left there.
Garbage == "garbage"

Init ==
  /\ argv = <<>>
  /\ \E name \in {Empty, Garbage} :
       options = [[o \in Options |-> IF o \in TextOptions THEN Empty ELSE NoPort]
                    EXCEPT !["filename"] = name, !["n"] = 1]
  /\ operation = NoOperation
  /\ outcome = "parsing"

----------------------------------------------------------------------------
\* --n is computed digit by digit in an unsigned char, a port in an int.
InByte(x) == x % 2^8

ReadByte(digits) ==
  LET x[j \in 0 .. Len(digits)] ==
        IF j = 0 THEN 0 ELSE InByte(InByte(x[j - 1] * 10) + digits[j])
  IN  x[Len(digits)]

ReadInt(digits) ==
  LET x[j \in 0 .. Len(digits)] == IF j = 0 THEN 0 ELSE x[j - 1] * 10 + digits[j]
  IN  x[Len(digits)]

More(arg) ==
  /\ outcome = "parsing" /\ Len(argv) < MaxArguments
  /\ arg \in ArgumentSet
  /\ argv' = Append(argv, arg)

ReadText(arg) ==
  /\ arg.is \in TextOptions
  /\ options' = [options EXCEPT ![arg.is] = arg.text]
  /\ UNCHANGED <<operation, outcome>>

ReadPort(arg) ==
  /\ arg.is \in {"port", "dest_port"}
  /\ options' = [options EXCEPT ![arg.is] = ReadInt(arg.digits)]
  /\ UNCHANGED <<operation, outcome>>

\* Mutant: the digits are added to what an earlier --n has left.
ReadWindowTwice(arg) ==
  /\ arg.is = "n"
  /\ options' = [options EXCEPT !["n"] = InByte(@ + ReadByte(arg.digits))]
  /\ UNCHANGED <<operation, outcome>>

ReadWindow(arg) ==
  /\ arg.is = "n"
  /\ options' = [options EXCEPT !["n"] = ReadByte(arg.digits)]
  /\ UNCHANGED <<operation, outcome>>

\* Mutant: send does not look for a file name.
ReadCommandWithoutFile(arg) ==
  /\ arg.is \in Commands
  /\ operation' = arg.is
  /\ UNCHANGED <<options, outcome>>

\* send wants a file name in front of it, and ends the program without one.
ReadCommand(arg) ==
  /\ arg.is \in Commands
  /\ IF arg.is = "send" /\ options["filename"] = Empty
     THEN outcome' = "ERROR_NO_FILE" /\ UNCHANGED operation
     ELSE operation' = arg.is /\ UNCHANGED outcome
  /\ UNCHANGED options

ReadUnknown(arg) == arg.is = "unknown" /\ UNCHANGED <<options, operation, outcome>>

Read ==
  \E arg \in ArgumentSet :
    /\ More(arg)
    /\ ReadText(arg) \/ ReadPort(arg) \/ ReadWindow(arg) \/ ReadCommand(arg) \/ ReadUnknown(arg)

\* The checks after the last argument, then main runs the operation.
Checked ==
  IF operation = NoOperation THEN "ERROR_NO_OPERATION"
  ELSE IF \/ operation = "listen" /\ (options["ip"] = Empty \/ options["port"] = NoPort)
          \/ operation = "send" /\ (options["dest_ip"] = Empty \/ options["dest_port"] = NoPort)
       THEN "ERROR_ARGUMENTS"
  ELSE operation

Finish ==
  /\ outcome = "parsing"
  /\ outcome' = Checked
  /\ UNCHANGED <<argv, options, operation>>

Idle == outcome # "parsing" /\ UNCHANGED vars

Next == Read \/ Finish \/ Idle

Spec == Init /\ [][Next]_vars

----------------------------------------------------------------------------
IsGiven(kind) == \E k \in DOMAIN argv : argv[k].is = kind

\* Argument k is the last one of these kinds.
IsLast(k, kinds) ==
  /\ argv[k].is \in kinds
  /\ \A j \in k + 1 .. Len(argv) : argv[j].is \notin kinds

\* The number that digits stand for in decimal notation: from the right, a
\* digit has ten times the weight of the one before.
Value(digits) ==
  LET n == Len(digits)
      weight[k \in 0 .. n] == IF k = 0 THEN 1 ELSE 10 * weight[k - 1]
      value[k \in 0 .. n] ==
        IF k = 0 THEN 0 ELSE value[k - 1] + digits[n + 1 - k] * weight[k - 1]
  IN  value[n]

\* Whatever the order, an option has the value it was given last and the
\* program does what it was told last (tools.c 38-91); the window has the last
\* eight bits of its number.
LastOneCounts ==
  /\ \A k \in DOMAIN argv :
       /\ \A kind \in TextOptions : IsLast(k, {kind}) => options[kind] = argv[k].text
       /\ \A kind \in {"port", "dest_port"} :
            IsLast(k, {kind}) => options[kind] = Value(argv[k].digits)
       /\ IsLast(k, {"n"}) => options["n"] = Value(argv[k].digits) % 256
       /\ outcome # "ERROR_NO_FILE" /\ IsLast(k, Commands) => operation = argv[k].is
  /\ \A kind \in {"port", "dest_port"} : ~ IsGiven(kind) => options[kind] = NoPort
  /\ ~ IsGiven("n") => options["n"] = 1
  /\ (\A kind \in Commands : ~ IsGiven(kind)) => operation = NoOperation

\* Argument j is the last file name in front of argument k.
NameBefore(j, k) ==
  /\ j < k /\ argv[j].is = "filename"
  /\ \A i \in j + 1 .. k - 1 : argv[i].is # "filename"

\* What the program does ask for, in whatever order it was given: a listener
\* that runs has an address to bind, a sender one to send to, and in front of
\* each send the last file name was not an empty one (tools.c 81-104).  Whether
\* there was a file name at all is not among it, see SendHasAll.
RunsComplete ==
  /\ outcome = "listen" => IsGiven("port") /\ IsGiven("ip") /\ options["ip"] # Empty
  /\ outcome = "send" =>
       /\ IsGiven("dest_port") /\ IsGiven("dest_ip") /\ options["dest_ip"] # Empty
       /\ \A j, k \in DOMAIN argv :
            argv[k].is = "send" /\ NameBefore(j, k) => argv[j].text # Empty

\* README.md:18 of send: "data_sender --ip=LOCAL_IP --port=LOCAL_PORT
\* --dest_ip=TARGET_IP --dest_port=TARGET_PORT --filename=FILENAME send".  The
\* program does not see to it: TLC finds it violated, see the README.
SendHasAll ==
  outcome = "send" =>
    \A kind \in {"ip", "port", "dest_ip", "dest_port", "filename"} : IsGiven(kind)

=============================================================================

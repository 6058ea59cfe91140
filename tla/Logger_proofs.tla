---------------------------- MODULE Logger_proofs ----------------------------
(***************************************************************************)
(* Theorems about Logger, for a buffer of any size and any number of       *)
(* messages, in every interleaving of the program and its thread.          *)
(***************************************************************************)
EXTENDS Logger, SequenceTheorems, TLAPS

\* The size and the indices stay below the number of messages; the thread is
\* created by start_logging, cancelled and its list freed by stop_logging.
SizesInv ==
  /\ logger_buffer_size <= msg /\ at <= msg /\ i <= msg
  /\ mpc = "loaded" => at < msg
  /\ lpc = "print" => i < msg
  /\ cancelled \/ freed => mpc \in Stopping \cup Over
  /\ mpc = "start" => lpc = "none"

TypeInv == TypeOK /\ SizesInv

\* A meeting that takes place is on record.
SeenInv == Meeting \subseteq met

\* The lines of s are the messages behind number n.
Counts(s, n) == \A m \in 1 .. Len(s) : s[m] = n + m

\* The slots below Top are written; SlotInv: the slot behind them is the one
\* the program is about to write.
Top == IF mpc = "stored" THEN at ELSE logger_buffer_size

SlotInv ==
  /\ mpc = "loaded" => at = logger_buffer_size
  /\ mpc = "stored" => at + 1 = logger_buffer_size

\* First messages are in front of those in logger_buffer, InHand behind them.
First == Len(file) + (IF lpc \in Copying THEN 0 ELSE Len(loopOut))
InHand == IF mpc = "flush" THEN Len(mainOut) ELSE IF mpc = "loaded" THEN 1 ELSE 0

\* As long as program and thread have not met the messages are, in the order
\* in which they were logged, in the file, in a stream's buffer, in the slots.
LinedUp ==
  /\ SlotInv
  /\ Counts(loopOut, Len(file))
  /\ lpc \notin Copying \cup {"flush"} => loopOut = <<>>
  /\ lpc \in Copying => Len(loopOut) = i /\ i <= logger_buffer_size
  /\ lpc = "print" => i < logger_buffer_size
  /\ lpc = "reset" => i = logger_buffer_size
  /\ Counts(mainOut, Len(file))
  /\ mpc \notin {"copy", "flush"} => mainOut = <<>>
  /\ mpc = "copy" => Len(mainOut) = at /\ at <= logger_buffer_size
  /\ mpc \in {"start", "created"} \cup (Stopping \ {"copy"}) => logger_buffer_size = 0
  /\ \A s \in Slots : s < Top => logger_buffer[s] = First + s + 1
  /\ msg = First + logger_buffer_size + InHand

Alone == met \subseteq {"start"}

OrderInv ==
  Alone => /\ Counts(file, 0) /\ Len(file) <= msg
           /\ Runs => LinedUp

\* What is in the file or on the way to it.
Held == Range(file) \cup Range(loopOut) \cup Range(mainOut)

\* Messages that are past info.
Entered == IF mpc \in Informing THEN msg - 1 ELSE msg

\* Whoever sets the size to 0 has seen to what is in the slots below it.
Savable ==
  /\ SlotInv
  /\ \A m \in 1 .. Entered : m \in Held \/ \E s \in Slots : s < Top /\ logger_buffer[s] = m
  /\ lpc \in {"check", "print"} =>
       \A s \in Slots : s < i /\ s < logger_buffer_size => logger_buffer[s] \in Held
  /\ lpc = "reset" => \A s \in Slots : s < logger_buffer_size => logger_buffer[s] \in Held
  /\ mpc = "copy" => \A s \in Slots : s < at /\ s < logger_buffer_size => logger_buffer[s] \in Held
  /\ mpc \in Stopping \ {"copy"} => logger_buffer_size = 0
  /\ mpc \in {"cancel", "free", "stopped"} => mainOut = <<>>

Apart == met \subseteq {"start", "stop"}

SaveInv ==
  Apart => /\ mpc = "exited" => 1 .. msg \subseteq Range(file)
           /\ Runs => Savable

----------------------------------------------------------------------------
(* Lines.                                                                  *)

LEMMA EmptyLines ==
  /\ <<>> \in Seq(Lines) /\ Len(<<>>) = 0 /\ Range(<<>>) = {}
  /\ \A n : Counts(<<>>, n)
BY EmptySeq DEF Range, Counts

LEMMA AppendLine ==
  ASSUME NEW s \in Seq(Lines), NEW e \in Lines
  PROVE  /\ Append(s, e) \in Seq(Lines) /\ Len(Append(s, e)) = Len(s) + 1
         /\ Range(Append(s, e)) = Range(s) \cup {e}
         /\ \A n \in Nat : Counts(s, n) /\ e = n + Len(s) + 1 => Counts(Append(s, e), n)
<1>1. /\ Append(s, e) \in Seq(Lines) /\ Len(Append(s, e)) = Len(s) + 1 /\ Len(s) \in Nat
      /\ \A m \in 1 .. Len(s) : Append(s, e)[m] = s[m]
      /\ Append(s, e)[Len(s) + 1] = e
  OBVIOUS
<1>2. DOMAIN Append(s, e) = 1 .. Len(s) + 1 /\ DOMAIN s = 1 .. Len(s)
  BY <1>1, LenProperties
<1>3. Range(Append(s, e)) = Range(s) \cup {e}
  BY <1>1, <1>2 DEF Range
<1> QED
  BY <1>1, <1>3 DEF Counts

LEMMA JoinLines ==
  ASSUME NEW s \in Seq(Lines), NEW t \in Seq(Lines)
  PROVE  /\ s \o t \in Seq(Lines) /\ Len(s \o t) = Len(s) + Len(t)
         /\ Range(s \o t) = Range(s) \cup Range(t)
         /\ \A n \in Nat : Counts(s, n) /\ Counts(t, n + Len(s)) => Counts(s \o t, n)
<1>1. /\ s \o t \in Seq(Lines) /\ Len(s \o t) = Len(s) + Len(t)
      /\ Len(s) \in Nat /\ Len(t) \in Nat
      /\ \A m \in 1 .. Len(s) + Len(t) :
           (s \o t)[m] = IF m <= Len(s) THEN s[m] ELSE t[m - Len(s)]
  BY ConcatProperties
<1>2. /\ DOMAIN (s \o t) = 1 .. Len(s) + Len(t)
      /\ DOMAIN s = 1 .. Len(s) /\ DOMAIN t = 1 .. Len(t)
  BY <1>1, LenProperties
<1>3. Range(s \o t) = Range(s) \cup Range(t)
  <2>1. Range(s \o t) \subseteq Range(s) \cup Range(t)
    <3> SUFFICES ASSUME NEW m \in 1 .. Len(s) + Len(t)
                 PROVE  (s \o t)[m] \in Range(s) \cup Range(t)
      BY <1>2 DEF Range
    <3>1. CASE m <= Len(s)
      BY <1>1, <1>2, <3>1 DEF Range
    <3>2. CASE ~(m <= Len(s))
      <4>1. m - Len(s) \in 1 .. Len(t) /\ (s \o t)[m] = t[m - Len(s)]
        BY <1>1, <3>2
      <4> QED
        BY <1>2, <4>1 DEF Range
    <3> QED
      BY <3>1, <3>2
  <2>2. ASSUME NEW m \in 1 .. Len(s) PROVE s[m] \in Range(s \o t)
    <3>1. m \in 1 .. Len(s) + Len(t) /\ m <= Len(s)
      BY <1>1
    <3> QED
      BY <1>1, <1>2, <3>1 DEF Range
  <2>3. ASSUME NEW m \in 1 .. Len(t) PROVE t[m] \in Range(s \o t)
    <3>1. m + Len(s) \in 1 .. Len(s) + Len(t) /\ ~(m + Len(s) <= Len(s)) /\ m + Len(s) - Len(s) = m
      BY <1>1
    <3> QED
      BY <1>1, <1>2, <3>1 DEF Range
  <2> QED
    BY <1>2, <2>1, <2>2, <2>3 DEF Range
<1>4. ASSUME NEW n \in Nat, Counts(s, n), Counts(t, n + Len(s)) PROVE Counts(s \o t, n)
  <2> SUFFICES ASSUME NEW m \in 1 .. Len(s) + Len(t) PROVE (s \o t)[m] = n + m
    BY <1>1 DEF Counts
  <2>1. CASE m <= Len(s)
    BY <1>1, <1>4, <2>1 DEF Counts
  <2>2. CASE ~(m <= Len(s))
    <3>1. m - Len(s) \in 1 .. Len(t) /\ (s \o t)[m] = t[m - Len(s)]
      BY <1>1, <2>2
    <3>2. t[m - Len(s)] = (n + Len(s)) + (m - Len(s))
      BY <1>4, <3>1 DEF Counts
    <3> QED
      BY <1>1, <3>1, <3>2
  <2> QED
    BY <2>1, <2>2
<1> QED
  BY <1>1, <1>3, <1>4

----------------------------------------------------------------------------
(* Types.                                                                  *)

LEMMA ConstantTypes ==
  /\ BufferSize \in Nat \ {0} /\ MaxMessages \in Nat
  /\ Lines = 0 .. MaxMessages /\ Garbage \in Lines
  /\ Slots = 0 .. BufferSize - 1
BY LoggerAssumption DEF Lines, Garbage, Slots

LEMMA TextIsALine ==
  ASSUME TypeInv, NEW s
  PROVE  Text(s) \in Lines
BY ConstantTypes DEF TypeInv, TypeOK, Text

\* Crash and exit are in these sets, so is where a call ends.
LEMMA Places ==
  /\ {"copy", "flush", "cancel", "free", "stopped"} = Stopping
  /\ {"exited", "failed", "crashed"} = Over
  /\ {"loaded", "stored"} = Informing
  /\ {"check", "print", "reset"} = Copying
BY DEF Stopping, Over, Informing, Copying

LEMMA TypeStep ==
  ASSUME TypeInv, [Next]_vars
  PROVE  TypeInv'
<1> USE ConstantTypes
<1>0. /\ mainOut \in Seq(Lines) /\ loopOut \in Seq(Lines) /\ file \in Seq(Lines)
      /\ \A s : Text(s) \in Lines
  BY TextIsALine DEF TypeInv, TypeOK
<1>met. met' \subseteq {"start", "info", "stop", "full"}
  BY DEF TypeInv, TypeOK, Next, Watch, Meeting, vars
<1> USE <1>met
<1>1. CASE StartLogging
  BY <1>0, <1>1 DEF StartLogging, TypeInv, TypeOK, SizesInv, mainVars, loopVars, sharedVars,
     Informing, Stopping, Over, Copying, Runs
<1>2. CASE SetStatus
  BY <1>0, <1>2 DEF SetStatus, TypeInv, TypeOK, SizesInv, mainVars, loopVars, sharedVars,
     Informing, Stopping, Over, Copying, Runs
<1>3. CASE LoadSize
  BY <1>0, <1>3 DEF LoadSize, TypeInv, TypeOK, SizesInv, mainVars, loopVars, sharedVars,
     Informing, Stopping, Over, Copying, Runs
<1>4. CASE StoreSize
  BY <1>0, <1>4 DEF StoreSize, TypeInv, TypeOK, SizesInv, mainVars, loopVars, sharedVars,
     Informing, Stopping, Over, Copying, Runs
<1>5. CASE WriteSlot
  BY <1>0, <1>5 DEF WriteSlot, TypeInv, TypeOK, SizesInv, mainVars, loopVars, sharedVars,
     Informing, Stopping, Over, Copying, Runs
<1>6. CASE WriteSlotCrashes
  BY <1>0, <1>6 DEF WriteSlotCrashes, Crash, TypeInv, TypeOK, SizesInv, mainVars, loopVars, sharedVars,
     Informing, Stopping, Over, Copying, Runs
<1>7. CASE StopLogging
  BY <1>0, <1>7 DEF StopLogging, TypeInv, TypeOK, SizesInv, mainVars, loopVars, sharedVars,
     Informing, Stopping, Over, Copying, Runs
<1>8. CASE StopCopies
  BY <1>0, <1>8, AppendLine DEF StopCopies, TypeInv, TypeOK, SizesInv, mainVars, loopVars, sharedVars,
     Informing, Stopping, Over, Copying, Runs
<1>9. CASE StopCopied
  BY <1>0, <1>9 DEF StopCopied, TypeInv, TypeOK, SizesInv, mainVars, loopVars, sharedVars,
     Informing, Stopping, Over, Copying, Runs
<1>10. CASE StopCloses
  BY <1>0, <1>10, JoinLines, EmptyLines DEF StopCloses, TypeInv, TypeOK, SizesInv, mainVars, loopVars, sharedVars,
     Informing, Stopping, Over, Copying, Runs
<1>11. CASE CancelThread
  BY <1>0, <1>11 DEF CancelThread, TypeInv, TypeOK, SizesInv, mainVars, loopVars, sharedVars,
     Informing, Stopping, Over, Copying, Runs
<1>12. CASE FreeList
  BY <1>0, <1>12 DEF FreeList, TypeInv, TypeOK, SizesInv, mainVars, loopVars, sharedVars,
     Informing, Stopping, Over, Copying, Runs
<1>13. CASE ExitStopped
  BY <1>0, <1>13, JoinLines, EmptyLines DEF ExitStopped, Exit, TypeInv, TypeOK, SizesInv, mainVars, loopVars, sharedVars,
     Informing, Stopping, Over, Copying, Runs
<1>14. CASE ExitAtOnce
  BY <1>0, <1>14, JoinLines, EmptyLines DEF ExitAtOnce, Exit, TypeInv, TypeOK, SizesInv, mainVars, loopVars, sharedVars,
     Informing, Stopping, Over, Copying, Runs
<1>15. CASE Open
  BY <1>0, <1>15 DEF Open, TypeInv, TypeOK, SizesInv, mainVars, loopVars, sharedVars,
     Informing, Stopping, Over, Copying, Runs
<1>16. CASE TestStatus
  BY <1>0, <1>16 DEF TestStatus, TypeInv, TypeOK, SizesInv, mainVars, loopVars, sharedVars,
     Informing, Stopping, Over, Copying, Runs
<1>17. CASE CheckSize
  BY <1>0, <1>17 DEF CheckSize, TypeInv, TypeOK, SizesInv, mainVars, loopVars, sharedVars,
     Informing, Stopping, Over, Copying, Runs
<1>18. CASE PrintLine
  BY <1>0, <1>18, AppendLine DEF PrintLine, TypeInv, TypeOK, SizesInv, mainVars, loopVars, sharedVars,
     Informing, Stopping, Over, Copying, Runs
<1>19. CASE ResetSize
  BY <1>0, <1>19 DEF ResetSize, TypeInv, TypeOK, SizesInv, mainVars, loopVars, sharedVars,
     Informing, Stopping, Over, Copying, Runs
<1>20. CASE CloseFile
  BY <1>0, <1>20, JoinLines, EmptyLines DEF CloseFile, TypeInv, TypeOK, SizesInv, mainVars, loopVars, sharedVars,
     Informing, Stopping, Over, Copying, Runs
<1>21. CASE WakeUp
  BY <1>0, <1>21 DEF WakeUp, TypeInv, TypeOK, SizesInv, mainVars, loopVars, sharedVars,
     Informing, Stopping, Over, Copying, Runs
<1>22. CASE EndCancelled
  BY <1>0, <1>22 DEF EndCancelled, TypeInv, TypeOK, SizesInv, mainVars, loopVars, sharedVars,
     Informing, Stopping, Over, Copying, Runs
<1>23. CASE UseFreed
  BY <1>0, <1>23 DEF UseFreed, Crash, TypeInv, TypeOK, SizesInv, mainVars, loopVars, sharedVars,
     Informing, Stopping, Over, Copying, Runs
<1>24. CASE Idle
  BY <1>24 DEF Idle, TypeInv, TypeOK, SizesInv, mainVars, loopVars, sharedVars
<1>25. CASE UNCHANGED vars
  BY <1>25 DEF vars, TypeInv, TypeOK, SizesInv, mainVars, loopVars, sharedVars
<1> QED
  BY <1>1, <1>2, <1>3, <1>4, <1>5, <1>6, <1>7, <1>8, <1>9, <1>10, <1>11, <1>12, <1>13, <1>14, <1>15, <1>16, <1>17, <1>18, <1>19, <1>20, <1>21, <1>22, <1>23, <1>24, <1>25 DEF Next, Main, Begin, GoOn, LoggerLoop

LEMMA TypeInit == Init => TypeInv
<1>0. <<>> \in Seq(Lines)
  BY EmptyLines
<1> SUFFICES ASSUME Init PROVE TypeInv
  OBVIOUS
<1>1. mainOut \in Seq(Lines) /\ loopOut \in Seq(Lines) /\ file \in Seq(Lines)
  BY <1>0 DEF Init
<1>2. logger_buffer \in [Slots -> Lines]
  BY ConstantTypes DEF Init
<1>3. TypeOK
  BY <1>1, <1>2, ConstantTypes DEF Init, TypeOK
<1>4. SizesInv
  BY ConstantTypes DEF Init, SizesInv
<1> QED
  BY <1>3, <1>4 DEF TypeInv

\* Every variable keeps its type; the size of the buffer and the indices of both
\* who read it never exceed the number of messages (logger.c 84-136, 166-173).
THEOREM LoggerTypes == Spec => []TypeOK
<1>1. TypeInv /\ [Next]_vars => TypeInv'
  BY TypeStep
<1> QED
  BY <1>1, TypeInit, PTL DEF Spec, TypeInv

----------------------------------------------------------------------------
(* Meetings.                                                               *)

LEMMA MeetStep ==
  ASSUME SeenInv, [Next]_vars
  PROVE  SeenInv' /\ met \subseteq met'
<1>1. CASE Next
  BY <1>1 DEF Next, Watch, SeenInv
<1>2. CASE UNCHANGED vars
  BY <1>2 DEF vars, mainVars, sharedVars, SeenInv, Meeting
<1> QED
  BY <1>1, <1>2

LEMMA SeenFacts ==
  ASSUME SeenInv
  PROVE  /\ "info" \notin met => ~(mpc \in Informing /\ lpc \in Copying)
         /\ "stop" \notin met /\ mpc \in Stopping => lpc \in {"sleep", "gone"}
         /\ "full" \notin met => ~(logger_buffer_size > BufferSize)
BY DEF SeenInv, Meeting

----------------------------------------------------------------------------
(* The order of the lines.                                                 *)

\* What a step of the program or its thread does to messages that are lined up.
LEMMA OrderStep ==
  ASSUME TypeInv, SeenInv, OrderInv, [Next]_vars
  PROVE  OrderInv'
<1> SUFFICES ASSUME Alone'
             PROVE  Counts(file', 0) /\ Len(file') <= msg' /\ (Runs' => LinedUp')
  BY DEF OrderInv
<1>0. TypeInv' /\ SeenInv' /\ Alone
  BY TypeStep, MeetStep DEF Alone
<1>1. /\ ~(mpc \in Informing /\ lpc \in Copying)
      /\ mpc \in Stopping => lpc \in {"sleep", "gone"}
      /\ logger_buffer_size <= BufferSize
  BY <1>0, ConstantTypes, SeenFacts DEF Alone, TypeInv, TypeOK
<1>2. /\ ~(mpc' \in Informing /\ lpc' \in Copying)
      /\ mpc' \in Stopping => lpc' \in {"sleep", "gone"}
      /\ logger_buffer_size' <= BufferSize
  <2>1. {"info", "stop", "full"} \cap met' = {}
    BY DEF Alone
  <2>2. "info" \in Meeting' <=> mpc' \in Informing /\ lpc' \in Copying
    BY DEF Meeting
  <2>3. "stop" \in Meeting' <=> mpc' \in Stopping /\ lpc' \notin {"sleep", "gone"}
    BY DEF Meeting
  <2>4. "full" \in Meeting' <=> logger_buffer_size' > BufferSize
    BY DEF Meeting
  <2>5. logger_buffer_size' \in Nat /\ BufferSize \in Nat
    BY <1>0, ConstantTypes DEF TypeInv, TypeOK
  <2> QED
    BY <1>0, <2>1, <2>2, <2>3, <2>4, <2>5 DEF SeenInv
<1>3. /\ Len(file) \in Nat /\ Len(loopOut) \in Nat /\ Len(mainOut) \in Nat
      /\ mainOut \in Seq(Lines) /\ loopOut \in Seq(Lines) /\ file \in Seq(Lines)
      /\ msg \in Nat /\ at \in Nat /\ i \in Nat /\ logger_buffer_size \in Nat
  BY LenProperties, ConstantTypes DEF TypeInv, TypeOK
<1>4. Counts(file, 0) /\ Len(file) <= msg /\ (Runs => LinedUp)
  BY <1>0 DEF OrderInv
<1>5. /\ cancelled \/ freed => mpc \in Stopping \cup Over
      /\ mpc = "start" => lpc = "none"
  BY DEF TypeInv, SizesInv
<1>6. Len(<<>>) = 0 /\ \A n : Counts(<<>>, n)
  BY EmptyLines
<1>7. Runs => /\ SlotInv /\ Counts(loopOut, Len(file)) /\ Counts(mainOut, Len(file))
              /\ msg = First + logger_buffer_size + InHand
              /\ \A s \in Slots : s < Top => logger_buffer[s] = First + s + 1
              /\ First \in Nat /\ InHand \in Nat /\ Top \in Nat
  BY <1>3, <1>4 DEF LinedUp, First, InHand, Top
<1>same. UNCHANGED <<file, loopOut, mainOut>> =>
           /\ Counts(file, 0) => Counts(file', 0)
           /\ Counts(loopOut, Len(file)) => Counts(loopOut', Len(file'))
           /\ Counts(mainOut, Len(file)) => Counts(mainOut', Len(file'))
  BY DEF Counts
<1>11. CASE StartLogging
  <2>1. /\ Runs /\ UNCHANGED <<file, loopOut, mainOut>>
        /\ First' = First /\ loopOut = <<>>
    BY <1>3, <1>4, <1>5, <1>11 DEF StartLogging, LinedUp, First, Over, Copying, Runs, mainVars, loopVars, sharedVars
  <2> QED
    BY <1>4, <1>7, <1>same, <1>11, <2>1
    DEF StartLogging, LinedUp, SlotInv, InHand, Top, Stopping, Over, Copying, Runs, mainVars, loopVars, sharedVars
<1>12. CASE SetStatus
  <2>1. /\ Runs /\ UNCHANGED <<file, loopOut, mainOut>>
        /\ First' = First
    BY <1>1, <1>2, <1>3, <1>4, <1>12 DEF SetStatus, LinedUp, First, Informing, Stopping, Over, Copying, Runs, mainVars, loopVars, sharedVars
  <2> QED
    BY <1>1, <1>2, <1>3, <1>4, <1>5, <1>6, <1>7, <1>same, <1>12, <2>1
    DEF SetStatus, LinedUp, SlotInv, InHand, Top, Informing, Stopping, Over, Copying, Runs, mainVars, loopVars, sharedVars
<1>13. CASE LoadSize
  <2>1. /\ Runs /\ UNCHANGED <<file, loopOut, mainOut>>
        /\ First' = First
    BY <1>1, <1>2, <1>3, <1>4, <1>13 DEF LoadSize, LinedUp, First, Informing, Stopping, Over, Copying, Runs, mainVars, loopVars, sharedVars
  <2> QED
    BY <1>1, <1>2, <1>3, <1>4, <1>5, <1>6, <1>7, <1>same, <1>13, <2>1
    DEF LoadSize, LinedUp, SlotInv, InHand, Top, Informing, Stopping, Over, Copying, Runs, mainVars, loopVars, sharedVars
<1>14. CASE StoreSize
  <2>1. /\ Runs /\ UNCHANGED <<file, loopOut, mainOut>>
        /\ First' = First
    BY <1>1, <1>2, <1>3, <1>4, <1>14 DEF StoreSize, LinedUp, First, Informing, Stopping, Over, Copying, Runs, mainVars, loopVars, sharedVars
  <2> QED
    BY <1>1, <1>2, <1>3, <1>4, <1>5, <1>6, <1>7, <1>same, <1>14, <2>1
    DEF StoreSize, LinedUp, SlotInv, InHand, Top, Informing, Stopping, Over, Copying, Runs, mainVars, loopVars, sharedVars
<1>15. CASE WriteSlot
  <2>1. /\ Runs /\ UNCHANGED <<file, loopOut, mainOut, msg, at, i, logger_buffer_size, lpc>>
        /\ First' = First /\ mpc = "stored" /\ mpc' = "running"
        /\ \A s \in Slots : logger_buffer'[s] = IF s = at THEN msg ELSE logger_buffer[s]
    BY <1>15 DEF WriteSlot, First, Over, Runs, mainVars, loopVars, sharedVars
  <2>2. at + 1 = logger_buffer_size /\ Top = at /\ InHand = 0 /\ msg = First + logger_buffer_size
    BY <1>3, <1>7, <2>1 DEF SlotInv, InHand, Top
  <2>3. \A s \in Slots : s < logger_buffer_size => logger_buffer'[s] = First + s + 1
    BY <1>3, <1>7, <2>1, <2>2, ConstantTypes
  <2>4. SlotInv' /\ Top' = logger_buffer_size /\ InHand' = 0
    BY <2>1 DEF SlotInv, Top, InHand
  <2> QED
    BY <1>1, <1>3, <1>4, <1>7, <1>same, <2>1, <2>2, <2>3, <2>4 DEF LinedUp, Informing, Stopping
<1>16. CASE StopLogging
  <2>1. /\ Runs /\ UNCHANGED <<file, loopOut, mainOut>>
        /\ First' = First
    BY <1>1, <1>2, <1>3, <1>4, <1>16 DEF StopLogging, LinedUp, First, Informing, Stopping, Over, Copying, Runs, mainVars, loopVars, sharedVars
  <2> QED
    BY <1>1, <1>2, <1>3, <1>4, <1>5, <1>6, <1>7, <1>same, <1>16, <2>1
    DEF StopLogging, LinedUp, SlotInv, InHand, Top, Informing, Stopping, Over, Copying, Runs, mainVars, loopVars, sharedVars
<1>17. CASE CancelThread
  <2>1. /\ Runs /\ UNCHANGED <<file, loopOut, mainOut>>
        /\ First' = First
    BY <1>1, <1>2, <1>3, <1>4, <1>17 DEF CancelThread, LinedUp, First, Informing, Stopping, Over, Copying, Runs, mainVars, loopVars, sharedVars
  <2> QED
    BY <1>1, <1>2, <1>3, <1>4, <1>5, <1>6, <1>7, <1>same, <1>17, <2>1
    DEF CancelThread, LinedUp, SlotInv, InHand, Top, Informing, Stopping, Over, Copying, Runs, mainVars, loopVars, sharedVars
<1>18. CASE FreeList
  <2>1. /\ Runs /\ UNCHANGED <<file, loopOut, mainOut>>
        /\ First' = First
    BY <1>1, <1>2, <1>3, <1>4, <1>18 DEF FreeList, LinedUp, First, Informing, Stopping, Over, Copying, Runs, mainVars, loopVars, sharedVars
  <2> QED
    BY <1>1, <1>2, <1>3, <1>4, <1>5, <1>6, <1>7, <1>same, <1>18, <2>1
    DEF FreeList, LinedUp, SlotInv, InHand, Top, Informing, Stopping, Over, Copying, Runs, mainVars, loopVars, sharedVars
<1>19. CASE Open
  <2>1. /\ Runs /\ UNCHANGED <<file, loopOut, mainOut>>
        /\ First' = First
    BY <1>1, <1>2, <1>3, <1>4, <1>19 DEF Open, LinedUp, First, Informing, Stopping, Over, Copying, Runs, mainVars, loopVars, sharedVars
  <2> QED
    BY <1>1, <1>2, <1>3, <1>4, <1>5, <1>6, <1>7, <1>same, <1>19, <2>1
    DEF Open, LinedUp, SlotInv, InHand, Top, Informing, Stopping, Over, Copying, Runs, mainVars, loopVars, sharedVars
<1>20. CASE TestStatus
  <2>1. /\ Runs /\ UNCHANGED <<file, loopOut, mainOut>>
        /\ First' = First
    BY <1>1, <1>2, <1>3, <1>4, <1>20 DEF TestStatus, LinedUp, First, Informing, Stopping, Over, Copying, Runs, mainVars, loopVars, sharedVars
  <2> QED
    BY <1>1, <1>2, <1>3, <1>4, <1>5, <1>6, <1>7, <1>same, <1>20, <2>1
    DEF TestStatus, LinedUp, SlotInv, InHand, Top, Informing, Stopping, Over, Copying, Runs, mainVars, loopVars, sharedVars
<1>21. CASE CheckSize
  <2>1. /\ Runs /\ UNCHANGED <<file, loopOut, mainOut>>
        /\ First' = First
    BY <1>1, <1>2, <1>3, <1>4, <1>21 DEF CheckSize, LinedUp, First, Informing, Stopping, Over, Copying, Runs, mainVars, loopVars, sharedVars
  <2> QED
    BY <1>1, <1>2, <1>3, <1>4, <1>5, <1>6, <1>7, <1>same, <1>21, <2>1
    DEF CheckSize, LinedUp, SlotInv, InHand, Top, Informing, Stopping, Over, Copying, Runs, mainVars, loopVars, sharedVars
<1>22. CASE WakeUp
  <2>1. /\ Runs /\ UNCHANGED <<file, loopOut, mainOut>>
        /\ First' = First
    BY <1>1, <1>2, <1>3, <1>4, <1>22 DEF WakeUp, LinedUp, First, Informing, Stopping, Over, Copying, Runs, mainVars, loopVars, sharedVars
  <2> QED
    BY <1>1, <1>2, <1>3, <1>4, <1>5, <1>6, <1>7, <1>same, <1>22, <2>1
    DEF WakeUp, LinedUp, SlotInv, InHand, Top, Informing, Stopping, Over, Copying, Runs, mainVars, loopVars, sharedVars
<1>23. CASE EndCancelled
  <2>1. /\ Runs /\ lpc = "sleep" /\ lpc' = "gone"
        /\ UNCHANGED <<file, loopOut, mainOut, mpc, msg, at, i, logger_buffer_size, logger_buffer>>
    BY <1>1, <1>5, <1>23 DEF EndCancelled, Runs, mainVars, loopVars, sharedVars
  <2>2. First' = First
    BY <2>1 DEF First, Copying
  <2> QED
    BY <1>4, <1>7, <1>same, <2>1, <2>2 DEF LinedUp, SlotInv, InHand, Top, Copying, Runs
<1>24. CASE StopCopies
  <2>1. /\ Runs /\ mpc = "copy" /\ at < logger_buffer_size /\ at' = at + 1
        /\ mainOut' = Append(mainOut, Text(at))
        /\ UNCHANGED <<mpc, lpc, file, loopOut, msg, i, logger_buffer_size, logger_buffer>>
    BY <1>24 DEF StopCopies, Over, Runs, mainVars, loopVars, sharedVars
  <2>2. /\ First' = First /\ First = Len(file) /\ Len(mainOut) = at
        /\ Top = logger_buffer_size /\ Top' = Top /\ InHand' = InHand
    BY <1>1, <1>3, <1>4, <1>6, <2>1 DEF LinedUp, First, Top, InHand, Stopping, Copying
  <2>3. at \in Slots /\ Text(at) = Len(file) + at + 1
    BY <1>1, <1>3, <1>7, <2>1, <2>2, ConstantTypes DEF Text
  <2>4. Counts(mainOut', Len(file)) /\ Len(mainOut') = at + 1
    <3>1. Text(at) \in Lines
      BY TextIsALine
    <3> QED
      BY <1>3, <1>7, <2>1, <2>2, <2>3, <3>1, AppendLine
  <2> QED
    BY <1>1, <1>3, <1>4, <1>7, <2>1, <2>2, <2>4 DEF LinedUp, SlotInv, Stopping, Copying
<1>25. CASE StopCopied
  <2>1. /\ Runs /\ mpc = "copy" /\ mpc' = "flush" /\ at >= logger_buffer_size
        /\ logger_buffer_size' = 0
        /\ UNCHANGED <<lpc, file, loopOut, mainOut, msg, at, i, logger_buffer>>
    BY <1>25 DEF StopCopied, Over, Runs, mainVars, loopVars, sharedVars
  <2>2. First' = First /\ Top' = 0 /\ InHand = 0 /\ InHand' = Len(mainOut) /\ lpc \in {"sleep", "gone"}
    BY <1>1, <2>1 DEF First, Top, InHand, Stopping
  <2>3. Len(mainOut) = logger_buffer_size
    BY <1>3, <1>4, <2>1 DEF LinedUp
  <2>4. Runs => LinedUp
    BY <1>4
  <2> QED
    BY <1>3, <1>4, <1>7, <1>same, <2>1, <2>2, <2>3, <2>4, ConstantTypes
    DEF LinedUp, SlotInv, Stopping, Copying
<1>26. CASE StopCloses
  <2>1. /\ Runs /\ mpc = "flush" /\ mpc' = "cancel"
        /\ file' = file \o mainOut /\ mainOut' = <<>>
        /\ UNCHANGED <<lpc, loopOut, msg, at, i, logger_buffer_size, logger_buffer>>
    BY <1>26 DEF StopCloses, Over, Runs, mainVars, loopVars, sharedVars
  <2>2. lpc \in {"sleep", "gone"} /\ loopOut = <<>> /\ logger_buffer_size = 0
    BY <1>1, <1>4, <2>1 DEF LinedUp, Stopping, Copying
  <2>3. /\ First = Len(file) /\ First' = Len(file') /\ Top' = 0
        /\ InHand = Len(mainOut) /\ InHand' = 0
    BY <1>3, <1>6, <2>1, <2>2 DEF First, Top, InHand, Copying
  <2>4. /\ Len(file') = Len(file) + Len(mainOut)
        /\ 0 + Len(file) = Len(file)
        /\ Counts(mainOut, Len(file)) /\ Counts(file, 0)
    BY <1>3, <1>4, <1>7, <2>1, JoinLines
  <2>5. Counts(file', 0)
    BY <1>3, <2>1, <2>4, JoinLines
  <2>6. Counts(loopOut', Len(file')) /\ Counts(mainOut', Len(file'))
    BY <1>6, <2>1, <2>2
  <2> QED
    BY <1>3, <1>7, <2>1, <2>2, <2>3, <2>4, <2>5, <2>6, ConstantTypes
    DEF LinedUp, SlotInv, Stopping, Copying
<1>27. CASE PrintLine
  <2>1. /\ Runs /\ lpc = "print" /\ lpc' = "check" /\ i' = i + 1
        /\ loopOut' = Append(loopOut, Text(i))
        /\ UNCHANGED <<mpc, file, mainOut, msg, at, logger_buffer_size, logger_buffer>>
    BY <1>27 DEF PrintLine, mainVars, loopVars, sharedVars
  <2>2. /\ First' = First /\ First = Len(file) /\ Len(loopOut) = i /\ i < logger_buffer_size
        /\ Top = logger_buffer_size /\ Top' = Top /\ InHand' = InHand /\ mainOut = <<>>
    BY <1>1, <1>3, <1>4, <2>1 DEF LinedUp, First, Top, InHand, Informing, Stopping, Copying
  <2>3. i \in Slots /\ Text(i) = Len(file) + i + 1
    BY <1>1, <1>3, <1>7, <2>1, <2>2, ConstantTypes DEF Text
  <2>4. Counts(loopOut', Len(file)) /\ Len(loopOut') = i + 1
    <3>1. Text(i) \in Lines
      BY TextIsALine
    <3> QED
      BY <1>3, <1>7, <2>1, <2>2, <2>3, <3>1, AppendLine
  <2> QED
    BY <1>1, <1>3, <1>4, <1>7, <2>1, <2>2, <2>4 DEF LinedUp, SlotInv, Informing, Stopping, Copying
<1>28. CASE ResetSize
  <2>1. /\ Runs /\ lpc = "reset" /\ lpc' = "flush" /\ logger_buffer_size' = 0
        /\ UNCHANGED <<mpc, file, loopOut, mainOut, msg, at, i, logger_buffer>>
    BY <1>28 DEF ResetSize, mainVars, loopVars, sharedVars
  <2>2. mpc \notin Informing \cup Stopping
    BY <1>1, <2>1 DEF Copying
  <2>3. Len(loopOut) = i /\ i = logger_buffer_size
    BY <1>4, <2>1 DEF LinedUp, Copying
  <2>4. /\ First = Len(file) /\ First' = Len(file) + Len(loopOut)
        /\ Top' = 0 /\ InHand = 0 /\ InHand' = 0
    BY <2>1, <2>2 DEF First, Top, InHand, Copying, Informing, Stopping
  <2> QED
    BY <1>3, <1>4, <1>7, <1>same, <2>1, <2>2, <2>3, <2>4, ConstantTypes
    DEF LinedUp, SlotInv, Informing, Stopping, Copying
<1>29. CASE CloseFile
  <2>1. /\ Runs /\ lpc = "flush" /\ lpc' = "sleep"
        /\ file' = file \o loopOut /\ loopOut' = <<>>
        /\ UNCHANGED <<mpc, mainOut, msg, at, i, logger_buffer_size, logger_buffer>>
    BY <1>29 DEF CloseFile, mainVars, loopVars, sharedVars
  <2>2. mpc \notin Stopping /\ mainOut = <<>>
    BY <1>1, <1>4, <2>1 DEF LinedUp, Stopping
  <2>3. /\ Len(file') = Len(file) + Len(loopOut)
        /\ 0 + Len(file) = Len(file)
        /\ Counts(loopOut, Len(file)) /\ Counts(file, 0)
    BY <1>3, <1>4, <1>7, <2>1, JoinLines
  <2>4. Counts(file', 0)
    BY <1>3, <2>1, <2>3, JoinLines
  <2>5. First' = First /\ First = Len(file') /\ Top' = Top /\ InHand' = InHand
    BY <1>3, <1>6, <2>1, <2>3 DEF First, Top, InHand, Copying
  <2>6. Counts(loopOut', Len(file')) /\ Counts(mainOut', Len(file'))
    BY <1>6, <2>1, <2>2
  <2>7. Len(file') <= msg'
    BY <1>3, <1>7, <2>1, <2>5
  <2> QED
    BY <1>3, <1>4, <1>7, <2>1, <2>2, <2>4, <2>5, <2>6, <2>7
    DEF LinedUp, SlotInv, Stopping, Copying
<1>30. CASE UseFreed
  BY <1>1, <1>2, <1>3, <1>4, <1>5, <1>6, <1>30 DEF UseFreed, Crash, LinedUp, SlotInv, Counts, First, InHand, Top,
     Informing, Stopping, Over, Copying, Runs, mainVars, loopVars, sharedVars
<1>31. CASE WriteSlotCrashes
  BY <1>1, <1>2, <1>3, <1>4, <1>5, <1>6, <1>31 DEF WriteSlotCrashes, Crash, LinedUp, SlotInv, Counts, First, InHand, Top,
     Informing, Stopping, Over, Copying, Runs, mainVars, loopVars, sharedVars
<1>32. CASE ExitStopped
  BY <1>1, <1>2, <1>3, <1>4, <1>5, <1>6, <1>32 DEF ExitStopped, Exit, LinedUp, SlotInv, Counts, First, InHand, Top,
     Informing, Stopping, Over, Copying, Runs, mainVars, loopVars, sharedVars
<1>33. CASE ExitAtOnce
  BY <1>1, <1>2, <1>3, <1>4, <1>5, <1>6, <1>33 DEF ExitAtOnce, Exit, LinedUp, SlotInv, Counts, First, InHand, Top,
     Informing, Stopping, Over, Copying, Runs, mainVars, loopVars, sharedVars
<1>34. CASE Idle
  BY <1>4, <1>same, <1>34 DEF Idle, Runs, mainVars, loopVars, sharedVars
<1>35. CASE UNCHANGED vars
  BY <1>4, <1>same, <1>35 DEF vars, LinedUp, SlotInv, First, InHand, Top, Runs, mainVars, loopVars, sharedVars
<1> QED
  BY <1>11, <1>12, <1>13, <1>14, <1>15, <1>16, <1>17, <1>18, <1>19, <1>20, <1>21, <1>22, <1>23, <1>24, <1>25, <1>26, <1>27, <1>28, <1>29, <1>30, <1>31, <1>32, <1>33, <1>34, <1>35 DEF Next, Main, Begin, GoOn, LoggerLoop

LEMMA SeenInvariant == Spec => [](TypeInv /\ SeenInv)
<1>1. Init => TypeInv /\ SeenInv
  <2> SUFFICES ASSUME Init PROVE SeenInv
    BY TypeInit
  <2>1. ~(logger_buffer_size > BufferSize)
    BY ConstantTypes DEF Init
  <2> QED
    BY <2>1 DEF Init, SeenInv, Meeting, Informing, Stopping
<1>2. TypeInv /\ SeenInv /\ [Next]_vars => (TypeInv /\ SeenInv)'
  BY TypeStep, MeetStep
<1> QED
  BY <1>1, <1>2, PTL DEF Spec

\* While the program is silent when the thread copies and logs no more than the
\* buffer holds, the file has the messages in order, none missing in between and
\* none twice (logger.c 97-99, 166-173).
THEOREM LinesInOrder == Spec => []InOrderOnce
<1>1. Init => OrderInv
  <2> SUFFICES ASSUME Init PROVE OrderInv
    OBVIOUS
  <2>1. /\ file = <<>> /\ loopOut = <<>> /\ mainOut = <<>>
        /\ msg = 0 /\ logger_buffer_size = 0 /\ lpc = "none" /\ mpc = "start"
    BY DEF Init
  <2>2. /\ Len(file) = 0 /\ Len(loopOut) = 0 /\ Len(mainOut) = 0
        /\ Counts(file, 0) /\ Counts(loopOut, 0) /\ Counts(mainOut, 0)
    BY <2>1, EmptyLines
  <2>3. First = 0 /\ InHand = 0 /\ Top = 0 /\ SlotInv
    BY <2>1, <2>2 DEF First, InHand, Top, SlotInv, Copying
  <2> QED
    BY <2>1, <2>2, <2>3, ConstantTypes DEF OrderInv, LinedUp, Copying, Stopping
<1>2. TypeInv /\ SeenInv /\ OrderInv /\ [Next]_vars => OrderInv'
  BY OrderStep
<1>3. TypeInv /\ OrderInv => InOrderOnce
  <2> SUFFICES ASSUME TypeInv, OrderInv, Alone
               PROVE  \E k \in 0 .. msg : file = [m \in 1 .. k |-> m]
    BY DEF InOrderOnce, Alone
  <2>1. file \in Seq(Lines) /\ msg \in Nat
    BY ConstantTypes DEF TypeInv, TypeOK
  <2>2. Len(file) \in 0 .. msg /\ \A m \in 1 .. Len(file) : file[m] = 0 + m
    BY <2>1, LenProperties DEF OrderInv, Counts
  <2>3. \A m \in 1 .. Len(file) : file[m] = m
    BY <2>2
  <2>4. file = [m \in 1 .. Len(file) |-> m]
    BY <2>1, <2>3, LenProperties
  <2> QED
    BY <2>2, <2>4
<1> QED
  BY <1>1, <1>2, <1>3, SeenInvariant, PTL DEF Spec

----------------------------------------------------------------------------
(* What is saved.                                                          *)

\* No line that is in the file or in a stream's buffer gets lost.
LEMMA HeldStays ==
  ASSUME TypeInv, [Next]_vars
  PROVE  Held \subseteq Held'
<1>0. /\ mainOut \in Seq(Lines) /\ loopOut \in Seq(Lines) /\ file \in Seq(Lines)
      /\ \A s : Text(s) \in Lines
  BY TextIsALine DEF TypeInv, TypeOK
<1>1. UNCHANGED <<file, loopOut, mainOut>> => Held' = Held
  BY DEF Held
<1>2. CASE StopCopies
  <2>1. mainOut' = Append(mainOut, Text(at)) /\ UNCHANGED <<file, loopOut>>
    BY <1>2 DEF StopCopies, loopVars
  <2> QED
    BY <1>0, <2>1, AppendLine DEF Held
<1>3. CASE PrintLine
  <2>1. loopOut' = Append(loopOut, Text(i)) /\ UNCHANGED <<file, mainOut>>
    BY <1>3 DEF PrintLine, mainVars
  <2> QED
    BY <1>0, <2>1, AppendLine DEF Held
<1>4. CASE StopCloses
  <2>1. file' = file \o mainOut /\ loopOut' = loopOut
    BY <1>4 DEF StopCloses, loopVars
  <2> QED
    BY <1>0, <2>1, JoinLines DEF Held
<1>5. CASE CloseFile \/ ExitStopped \/ ExitAtOnce
  <2>1. file' = file \o loopOut /\ mainOut' = mainOut
    BY <1>5 DEF CloseFile, ExitStopped, ExitAtOnce, Exit, mainVars
  <2> QED
    BY <1>0, <2>1, JoinLines DEF Held
<1>6. CASE \/ StartLogging \/ SetStatus \/ LoadSize \/ StoreSize \/ WriteSlot \/ WriteSlotCrashes
           \/ StopLogging \/ StopCopied \/ CancelThread \/ FreeList
           \/ Open \/ TestStatus \/ CheckSize \/ ResetSize \/ WakeUp \/ EndCancelled \/ UseFreed
           \/ Idle \/ UNCHANGED vars
  <2>1. UNCHANGED <<file, loopOut, mainOut>>
    BY <1>6 DEF StartLogging, SetStatus, LoadSize, StoreSize, WriteSlot, WriteSlotCrashes,
       StopLogging, StopCopied, CancelThread, FreeList, Open, TestStatus, CheckSize, ResetSize,
       WakeUp, EndCancelled, UseFreed, Crash, Idle, vars, mainVars, loopVars, sharedVars
  <2> QED
    BY <1>1, <2>1
<1> QED
  BY <1>2, <1>3, <1>4, <1>5, <1>6 DEF Next, Main, Begin, GoOn, LoggerLoop

\* What a step does to the messages that are in nobody's hands but the buffer's.
LEMMA SaveStep ==
  ASSUME TypeInv, SeenInv, SaveInv, [Next]_vars
  PROVE  SaveInv'
<1> SUFFICES ASSUME Apart'
             PROVE  /\ mpc' = "exited" => 1 .. msg' \subseteq Range(file')
                    /\ Runs' => Savable'
  BY DEF SaveInv
<1>0. TypeInv' /\ SeenInv' /\ Apart /\ Held \subseteq Held'
  BY TypeStep, MeetStep, HeldStays DEF Apart
<1>1. /\ ~(mpc \in Informing /\ lpc \in Copying)
      /\ logger_buffer_size <= BufferSize
  BY <1>0, ConstantTypes, SeenFacts DEF Apart, TypeInv, TypeOK
<1>2. ~(mpc' \in Informing /\ lpc' \in Copying)
  <2>1. "info" \notin met'
    BY DEF Apart
  <2>2. "info" \in Meeting' <=> mpc' \in Informing /\ lpc' \in Copying
    BY DEF Meeting
  <2> QED
    BY <1>0, <2>1, <2>2 DEF SeenInv
<1>3. /\ msg \in Nat /\ at \in Nat /\ i \in Nat /\ logger_buffer_size \in Nat
      /\ mainOut \in Seq(Lines) /\ loopOut \in Seq(Lines) /\ file \in Seq(Lines)
      /\ \A s \in Slots : s \in Nat /\ Text(s) = logger_buffer[s]
  BY ConstantTypes DEF TypeInv, TypeOK, Text
<1>4. /\ mpc = "exited" => 1 .. msg \subseteq Range(file)
      /\ Runs => Savable
  BY <1>0 DEF SaveInv
<1>5. mpc = "start" => lpc = "none"
  BY DEF TypeInv, SizesInv
<1>11. CASE StartLogging
  BY <1>0, <1>1, <1>2, <1>3, <1>4, <1>5, <1>11 DEF StartLogging, Savable, SlotInv, Entered, Top,
     Informing, Stopping, Over, Copying, Runs, mainVars, loopVars, sharedVars
<1>12. CASE SetStatus
  BY <1>0, <1>1, <1>2, <1>3, <1>4, <1>5, <1>12 DEF SetStatus, Savable, SlotInv, Entered, Top,
     Informing, Stopping, Over, Copying, Runs, mainVars, loopVars, sharedVars
<1>13. CASE LoadSize
  BY <1>0, <1>1, <1>2, <1>3, <1>4, <1>5, <1>13 DEF LoadSize, Savable, SlotInv, Entered, Top,
     Informing, Stopping, Over, Copying, Runs, mainVars, loopVars, sharedVars
<1>14. CASE StoreSize
  BY <1>0, <1>1, <1>2, <1>3, <1>4, <1>5, <1>14 DEF StoreSize, Savable, SlotInv, Entered, Top,
     Informing, Stopping, Over, Copying, Runs, mainVars, loopVars, sharedVars
<1>15. CASE WriteSlot
  <2>1. /\ Runs /\ mpc = "stored" /\ mpc' = "running" /\ lpc \notin Copying
        /\ \A s \in Slots : logger_buffer'[s] = IF s = at THEN msg ELSE logger_buffer[s]
        /\ UNCHANGED <<lpc, msg, at, i, logger_buffer_size>>
    BY <1>1, <1>15 DEF WriteSlot, Informing, Over, Runs, mainVars, loopVars, sharedVars
  <2>2. at + 1 = logger_buffer_size /\ at \in Slots
    BY <1>1, <1>3, <1>4, <2>1, ConstantTypes DEF Savable, SlotInv
  <2>3. \A m \in 1 .. msg - 1 : m \in Held \/ \E s \in Slots : s < at /\ logger_buffer[s] = m
    BY <1>4, <2>1 DEF Savable, Entered, Top, Informing
  <2>4. ASSUME NEW m \in 1 .. msg
        PROVE  m \in Held' \/ \E s \in Slots : s < logger_buffer_size /\ logger_buffer'[s] = m
    <3>1. CASE m = msg
      <4>1. at < logger_buffer_size /\ logger_buffer'[at] = m
        BY <1>3, <2>1, <2>2, <3>1
      <4> QED
        BY <2>2, <4>1
    <3>2. CASE m # msg
      <4>1. m \in 1 .. msg - 1
        BY <1>3, <3>2
      <4>2. CASE m \in Held
        BY <1>0, <4>2
      <4>3. ASSUME NEW s \in Slots, s < at, logger_buffer[s] = m
            PROVE  s < logger_buffer_size /\ logger_buffer'[s] = m
        BY <1>3, <2>1, <2>2, <4>3
      <4> QED
        BY <2>3, <4>1, <4>2, <4>3
    <3> QED
      BY <3>1, <3>2
  <2>5. Entered' = msg /\ Top' = logger_buffer_size /\ SlotInv'
    BY <2>1 DEF Entered, Top, SlotInv, Informing
  <2> QED
    BY <2>1, <2>4, <2>5 DEF Savable, Copying, Stopping
<1>16. CASE WriteSlotCrashes
  BY <1>0, <1>1, <1>2, <1>3, <1>4, <1>5, <1>16 DEF WriteSlotCrashes, Crash, Savable, SlotInv, Entered, Top,
     Informing, Stopping, Over, Copying, Runs, mainVars, loopVars, sharedVars
<1>17. CASE StopLogging
  BY <1>0, <1>1, <1>2, <1>3, <1>4, <1>5, <1>17 DEF StopLogging, Savable, SlotInv, Entered, Top,
     Informing, Stopping, Over, Copying, Runs, mainVars, loopVars, sharedVars
<1>18. CASE StopCopies
  <2>1. /\ Runs /\ mpc = "copy" /\ mpc' = mpc
        /\ mainOut' = Append(mainOut, Text(at)) /\ at' = at + 1
        /\ UNCHANGED <<lpc, i, loopOut, msg, logger_buffer_size, logger_buffer>>
    BY <1>18 DEF StopCopies, Over, Runs, mainVars, loopVars, sharedVars
  <2>2. Text(at) \in Held'
    <3>1. Text(at) \in Lines
      BY TextIsALine
    <3> QED
      BY <1>3, <2>1, <3>1, AppendLine DEF Held
  <2>3. ASSUME NEW s \in Slots, s < at + 1, s < at => logger_buffer[s] \in Held
        PROVE  logger_buffer[s] \in Held'
    <3>1. CASE s = at
      BY <1>3, <2>2, <3>1
    <3>2. CASE s < at
      BY <1>0, <2>3, <3>2
    <3> QED
      BY <1>3, <2>3, <3>1, <3>2
  <2>4. Entered' = Entered /\ Top' = Top /\ SlotInv'
    BY <1>1, <1>4, <2>1 DEF Entered, Top, SlotInv, Savable, Informing, Copying
  <2> QED
    BY <1>0, <1>3, <1>4, <2>1, <2>3, <2>4 DEF Savable, Stopping
<1>19. CASE StopCopied
  BY <1>0, <1>1, <1>2, <1>3, <1>4, <1>5, <1>19 DEF StopCopied, Savable, SlotInv, Entered, Top,
     Informing, Stopping, Over, Copying, Runs, mainVars, loopVars, sharedVars
<1>20. CASE StopCloses
  BY <1>0, <1>1, <1>2, <1>3, <1>4, <1>5, <1>20 DEF StopCloses, Savable, SlotInv, Entered, Top,
     Informing, Stopping, Over, Copying, Runs, mainVars, loopVars, sharedVars
<1>21. CASE CancelThread
  BY <1>0, <1>1, <1>2, <1>3, <1>4, <1>5, <1>21 DEF CancelThread, Savable, SlotInv, Entered, Top,
     Informing, Stopping, Over, Copying, Runs, mainVars, loopVars, sharedVars
<1>22. CASE FreeList
  BY <1>0, <1>1, <1>2, <1>3, <1>4, <1>5, <1>22 DEF FreeList, Savable, SlotInv, Entered, Top,
     Informing, Stopping, Over, Copying, Runs, mainVars, loopVars, sharedVars
<1>23. CASE ExitStopped
  <2>1. /\ Runs /\ mpc = "stopped" /\ mpc' = "exited" /\ msg' = msg
        /\ file' = file \o loopOut
    BY <1>23 DEF ExitStopped, Exit, Over, Runs, mainVars
  <2>2. mainOut = <<>> /\ logger_buffer_size = 0
    BY <1>4, <2>1 DEF Savable, Stopping
  <2>3. 1 .. msg \subseteq Held
    BY <1>3, <1>4, <2>1, <2>2 DEF Savable, Entered, Top, Informing
  <2>4. Held = Range(file')
    BY <1>3, <2>1, <2>2, EmptyLines, JoinLines DEF Held
  <2> QED
    BY <2>1, <2>3, <2>4 DEF Over, Runs
<1>24. CASE ExitAtOnce
  BY <1>0, <1>1, <1>2, <1>3, <1>4, <1>5, <1>24 DEF ExitAtOnce, Exit, Savable, SlotInv, Entered, Top,
     Informing, Stopping, Over, Copying, Runs, mainVars, loopVars, sharedVars
<1>25. CASE Open
  BY <1>0, <1>1, <1>2, <1>3, <1>4, <1>5, <1>25 DEF Open, Savable, SlotInv, Entered, Top,
     Informing, Stopping, Over, Copying, Runs, mainVars, loopVars, sharedVars
<1>26. CASE TestStatus
  BY <1>0, <1>1, <1>2, <1>3, <1>4, <1>5, <1>26 DEF TestStatus, Savable, SlotInv, Entered, Top,
     Informing, Stopping, Over, Copying, Runs, mainVars, loopVars, sharedVars
<1>27. CASE CheckSize
  BY <1>0, <1>1, <1>2, <1>3, <1>4, <1>5, <1>27 DEF CheckSize, Savable, SlotInv, Entered, Top,
     Informing, Stopping, Over, Copying, Runs, mainVars, loopVars, sharedVars
<1>28. CASE PrintLine
  <2>1. /\ Runs /\ lpc = "print" /\ lpc' = "check"
        /\ loopOut' = Append(loopOut, Text(i)) /\ i' = i + 1
        /\ UNCHANGED <<mpc, at, mainOut, msg, logger_buffer_size, logger_buffer>>
    BY <1>28 DEF PrintLine, Over, Runs, mainVars, loopVars, sharedVars
  <2>2. Text(i) \in Held'
    <3>1. Text(i) \in Lines
      BY TextIsALine
    <3> QED
      BY <1>3, <2>1, <3>1, AppendLine DEF Held
  <2>3. ASSUME NEW s \in Slots, s < i + 1, s < i => logger_buffer[s] \in Held
        PROVE  logger_buffer[s] \in Held'
    <3>1. CASE s = i
      BY <1>3, <2>2, <3>1
    <3>2. CASE s < i
      BY <1>0, <2>3, <3>2
    <3> QED
      BY <1>3, <2>3, <3>1, <3>2
  <2>copied. \A s \in Slots : s < i' /\ s < logger_buffer_size' => logger_buffer'[s] \in Held'
    BY <1>4, <2>1, <2>3 DEF Savable
  <2>4. Entered' = Entered /\ Top' = Top /\ SlotInv'
    BY <1>1, <1>4, <2>1 DEF Entered, Top, SlotInv, Savable, Informing, Copying
  <2>5. \A m \in 1 .. Entered' : m \in Held' \/ \E s \in Slots : s < Top' /\ logger_buffer'[s] = m
    BY <1>0, <1>4, <2>1, <2>4 DEF Savable
  <2>6. mpc' = "copy" => \A s \in Slots : s < at' /\ s < logger_buffer_size' => logger_buffer'[s] \in Held'
    BY <1>0, <1>4, <2>1 DEF Savable
  <2>7. /\ mpc' \in Stopping \ {"copy"} => logger_buffer_size' = 0
        /\ mpc' \in {"cancel", "free", "stopped"} => mainOut' = <<>>
    BY <1>4, <2>1 DEF Savable
  <2> QED
    BY <1>0, <2>1, <2>copied, <2>4, <2>5, <2>6, <2>7 DEF Savable, Over, Runs
<1>29. CASE ResetSize
  BY <1>0, <1>1, <1>2, <1>3, <1>4, <1>5, <1>29 DEF ResetSize, Savable, SlotInv, Entered, Top,
     Informing, Stopping, Over, Copying, Runs, mainVars, loopVars, sharedVars
<1>30. CASE CloseFile
  BY <1>0, <1>1, <1>2, <1>3, <1>4, <1>5, <1>30 DEF CloseFile, Savable, SlotInv, Entered, Top,
     Informing, Stopping, Over, Copying, Runs, mainVars, loopVars, sharedVars
<1>31. CASE WakeUp
  BY <1>0, <1>1, <1>2, <1>3, <1>4, <1>5, <1>31 DEF WakeUp, Savable, SlotInv, Entered, Top,
     Informing, Stopping, Over, Copying, Runs, mainVars, loopVars, sharedVars
<1>32. CASE EndCancelled
  BY <1>0, <1>1, <1>2, <1>3, <1>4, <1>5, <1>32 DEF EndCancelled, Savable, SlotInv, Entered, Top,
     Informing, Stopping, Over, Copying, Runs, mainVars, loopVars, sharedVars
<1>33. CASE UseFreed
  BY <1>0, <1>1, <1>2, <1>3, <1>4, <1>5, <1>33 DEF UseFreed, Crash, Savable, SlotInv, Entered, Top,
     Informing, Stopping, Over, Copying, Runs, mainVars, loopVars, sharedVars
<1>34. CASE Idle
  BY <1>4, <1>34 DEF Idle, Runs, mainVars, loopVars, sharedVars
<1>35. CASE UNCHANGED vars
  BY <1>4, <1>35 DEF vars, Savable, SlotInv, Held, Entered, Top, Runs, mainVars, loopVars, sharedVars
<1> QED
  BY <1>11, <1>12, <1>13, <1>14, <1>15, <1>16, <1>17, <1>18, <1>19, <1>20, <1>21, <1>22, <1>23, <1>24, <1>25, <1>26, <1>27, <1>28, <1>29, <1>30, <1>31, <1>32, <1>33, <1>34, <1>35 DEF Next, Main, Begin, GoOn, LoggerLoop

\* A program that stops its logger leaves a complete log, unless it logged while
\* the thread copied, or more than the buffer holds; the thread may be copying
\* while it stops, or have ended long before (logger.c 69-82, 210-231).
THEOREM StopSaves == Spec => []StopSavesAll
<1>1. Init => SaveInv
  <2> SUFFICES ASSUME Init PROVE SaveInv
    OBVIOUS
  <2>1. msg = 0 /\ mpc = "start" /\ lpc = "none" /\ logger_buffer_size = 0
    BY DEF Init
  <2>2. Entered = 0 /\ SlotInv
    BY <2>1 DEF Entered, SlotInv, Informing
  <2> QED
    BY <2>1, <2>2 DEF SaveInv, Savable, Stopping
<1>2. TypeInv /\ SeenInv /\ SaveInv /\ [Next]_vars => SaveInv'
  BY SaveStep
<1>3. SaveInv => StopSavesAll
  BY DEF SaveInv, StopSavesAll, Apart
<1> QED
  BY <1>1, <1>2, <1>3, SeenInvariant, PTL DEF Spec

=============================================================================

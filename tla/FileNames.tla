----------------------------- MODULE FileNames -----------------------------
(***************************************************************************)
(* The name the listener gives to a received file (parse_SYNC_packet and   *)
(* setup_data_file in listener.c): a path that is taken gets a number in   *)
(* front of its first dot, and the base name of the result is opened for   *)
(* writing in the working directory.                                       *)
(*                                                                         *)
(* A path is a directory part and a name, a name a stem and a number.  The *)
(* directory part is "none", "sub" (a directory without a dot in its       *)
(* name), "here" (./, the working directory) or "missing": ./ with the     *)
(* number in front of its dot, which is no directory.                      *)
(***************************************************************************)
EXTENDS Integers, FiniteSetsExt

CONSTANTS Stems,
          Directories,   \* directory parts of the paths that senders use
          NumberLimit,   \* numbers that are tried, 100 in the code
          OldNumbers,    \* bound: files from before have numbers below it
          MaxSyncs       \* bound: SYNC packets

ASSUME FileNamesAssumption ==
  /\ Directories \subseteq {"none", "sub", "here"}
  /\ NumberLimit \in Nat /\ OldNumbers \in 0 .. NumberLimit
  /\ MaxSyncs \in Nat

VARIABLES syncs,   \* SYNC packets received
          owner,   \* for each name in the working directory, whose file it is
          sub      \* the names in the directory sub of the listener's machine

vars == <<syncs, owner, sub>>

Unnumbered == -1
Name(s, f) == [stem |-> s, number |-> f]
Names == [stem : Stems, number : {Unnumbered} \cup 0 .. NumberLimit - 1]
Paths == [dir : Directories, name : [stem : Stems, number : {Unnumbered}]]

Nobody == 0    \* there is no such file
Older == -1    \* a file from before the listener was started

\* Some stems have older files, here, with numbers or without, or one in the
\* directory sub.
Init ==
  /\ syncs = 0
  /\ \E old \in SUBSET {n \in Names : n.number < OldNumbers} :
       owner = [n \in Names |-> IF n \in old THEN Older ELSE Nobody]
  /\ sub \in {{}, {n \in Names : n.number = Unnumbered}}

----------------------------------------------------------------------------
\* access(path, F_OK)
Exists(path) ==
  \/ path.dir \in {"none", "here"} /\ owner[path.name] # Nobody
  \/ path.dir = "sub" /\ path.name \in sub

\* The number goes in front of the first dot of the path.
Numbered(path, f_index) ==
  IF path.dir = "here" THEN [dir |-> "missing", name |-> path.name]
                       ELSE [dir |-> path.dir, name |-> Name(path.name.stem, f_index)]

\* Mutant: number 0 is taken without a look at it.
ParsedUnchecked(path) == IF Exists(path) THEN Numbered(path, 0) ELSE path

\* Mutant: the numbers are tried from 1 on.
ParsedFromOne(path) ==
  LET free == {f \in 1 .. NumberLimit - 1 : ~Exists(Numbered(path, f))} IN
  IF Exists(path) /\ free # {} THEN Numbered(path, Min(free)) ELSE path

\* The path after parse_SYNC_packet: the first that is free, the one that was
\* asked for when no number helps.
Parsed(path) ==
  LET free == {f \in 0 .. NumberLimit - 1 : ~Exists(Numbered(path, f))} IN
  IF Exists(path) /\ free # {} THEN Numbered(path, Min(free)) ELSE path

\* setup_data_file opens, and empties, the file with its base name.
ReceiveSync(path) ==
  /\ syncs < MaxSyncs
  /\ syncs' = syncs + 1
  /\ owner' = [owner EXCEPT ![Parsed(path).name] = syncs + 1]
  /\ UNCHANGED sub

\* The bound is reached.
Idle == syncs = MaxSyncs /\ UNCHANGED vars

Next == (\E path \in Paths : ReceiveSync(path)) \/ Idle

Spec == Init /\ [][Next]_vars

----------------------------------------------------------------------------
\* A file that is there is never opened for writing again: a received file
\* gets a name of its own (listener.c 327-362, 374).
KeepsFiles ==
  [][\A n \in Names : owner[n] # Nobody => owner'[n] = owner[n]]_vars

\* A received file has the lowest number that was free: its own name and all
\* numbers below were in use, by older files or by received ones, and no file
\* goes away (listener.c 331-361).
NumbersInOrder ==
  \A n \in Names : n.number # Unnumbered /\ owner[n] > 0 =>
    \A f \in {Unnumbered} \cup 0 .. n.number - 1 :
      owner[Name(n.stem, f)] # Nobody

=============================================================================

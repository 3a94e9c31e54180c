------------------------- MODULE FileOutput_proofs --------------------------
(***************************************************************************)
(* Proofs about FileOutput, for any number of runs over any paths, shared  *)
(* or not, with and without --force: paths name complete files only, and   *)
(* no run that ends by itself leaves a temporary file that could be        *)
(* removed.  Neither is inductive: both rest on what the program counter   *)
(* says of the temporary file (TempFollowsPc).  For a run with an output   *)
(* path of its own, the program counter also says what is at that path     *)
(* (OwnOutput): the outcome is true, and nothing is replaced without       *)
(* --force.                                                                *)
(***************************************************************************)
EXTENDS FileOutput, TLAPS

\* Which temporary file a run has at each of its system calls.
TempFollowsPc ==
  \A r \in Runs :
    /\ pc[r] \in {"cli", "keys", "lib", "open", "create"} => temp[r] = None
    /\ pc[r] = "write" => temp[r] = [from |-> r, whole |-> FALSE, kept |-> FALSE]
    /\ pc[r] \in {"close", "rename"} => temp[r] = [from |-> r, whole |-> TRUE, kept |-> FALSE]
    /\ pc[r] = "undo" => temp[r] \in Content
    /\ pc[r] = "cleanup" => temp[r] = None \/ temp[r].kept

FileInv == TypeOK /\ OutputsAreWhole /\ NoTempLeft /\ TempFollowsPc

\* In the beginning there are the user's files and no temporary one.
LEMMA InitFileInv == Init => FileInv
<1> SUFFICES ASSUME Init PROVE FileInv
  OBVIOUS
<1>1. TypeOK
  <2>1. [from |-> User, whole |-> TRUE, kept |-> FALSE] \in Content
    BY DEF Content
  <2>2. disk \in [Paths -> Content \cup {None}]
    BY <2>1 DEF Init
  <2>3. QED
    BY <2>2 DEF Init, TypeOK, Labels, Outcomes
<1>2. OutputsAreWhole
  BY DEF Init, OutputsAreWhole, Exists
<1>3. NoTempLeft /\ TempFollowsPc
  BY DEF Init, NoTempLeft, TempFollowsPc
<1>4. QED
  BY <1>1, <1>2, <1>3 DEF FileInv

\* The files a run makes are files.
LEMMA RunContent ==
  \A r \in Runs : \A w, k \in BOOLEAN : [from |-> r, whole |-> w, kept |-> k] \in Content
BY DEF Content

\* A removal that fails leaves the same file, marked.
LEMMA Marked ==
  ASSUME NEW file \in Content
  PROVE  LET marked == [file EXCEPT !.kept = TRUE]
         IN marked \in Content /\ marked.from = file.from /\ marked.whole = file.whole /\ marked.kept
BY DEF Content

\* So a path that is to be removed names nothing afterwards, or that file.
LEMMA Removed ==
  ASSUME TypeOK, NEW p \in Paths, Remove(p)
  PROVE  /\ disk' \in [Paths -> Content \cup {None}]
         /\ \A q \in Paths \ {p} : disk'[q] = disk[q]
         /\ \/ disk'[p] = None
            \/ /\ disk[p] # None /\ disk'[p].kept
               /\ disk'[p].from = disk[p].from /\ disk'[p].whole = disk[p].whole
<1>1. disk[p] \in Content \cup {None}
  BY DEF TypeOK
<1>2. CASE Put(p, None)
  BY <1>2 DEF Put, TypeOK
<1>3. CASE Exists(p) /\ Put(p, [disk[p] EXCEPT !.kept = TRUE])
  <2> DEFINE marked == [disk[p] EXCEPT !.kept = TRUE]
  <2>1. /\ marked \in Content /\ marked.from = disk[p].from
        /\ marked.whole = disk[p].whole /\ marked.kept
    BY <1>1, <1>3, Marked DEF Exists
  <2>2. disk' = [disk EXCEPT ![p] = marked]
    BY <1>3 DEF Put
  <2> HIDE DEF marked
  <2>3. QED
    BY <1>3, <2>1, <2>2 DEF Exists, TypeOK
<1>4. QED
  BY <1>2, <1>3 DEF Remove

\* A step that puts no new file at a path keeps every path whole.
LEMMA DiskShrinks ==
  ASSUME TypeOK, OutputsAreWhole, NEW p \in Paths,
         disk' = disk \/ Remove(p)
  PROVE  OutputsAreWhole'
<1>1. CASE disk' = disk
  BY <1>1 DEF OutputsAreWhole, Exists
<1>2. CASE Remove(p)
  BY <1>2, Removed DEF OutputsAreWhole, Exists
<1>3. QED
  BY <1>1, <1>2

\* Every system call of every run keeps the invariant.
LEMMA StepFileInv == FileInv /\ [Next]_vars => FileInv'
<1> SUFFICES ASSUME FileInv, [Next]_vars PROVE FileInv'
  OBVIOUS
<1> USE DEF FileInv
<1>1. CASE UNCHANGED vars
  BY <1>1 DEF vars, TypeOK, OutputsAreWhole, Exists, NoTempLeft, TempFollowsPc
<1>2. ASSUME NEW r \in Runs, Step(r) \/ Crash(r)
      PROVE  FileInv'
  <2> USE DEF Goto, End, TypeOK, Labels, Outcomes
  <2>a. Output[r] \in Paths /\ Input[r] \in Paths /\ Kind[r] \in Kinds
    BY KindAssumption, InputAssumption, OutputAssumption
  <2>1. CASE BadInput(r)
    <3>1. TypeOK'
      BY <2>1 DEF BadInput
    <3>2. OutputsAreWhole'
      BY <2>1, <2>a, DiskShrinks DEF BadInput
    <3>3. NoTempLeft' /\ TempFollowsPc'
      BY <2>1 DEF BadInput, NoTempLeft, TempFollowsPc
    <3>4. QED
      BY <3>1, <3>2, <3>3
  <2>2. CASE ForceRemove(r)
    <3>1. TypeOK'
      BY <2>2, <2>a, Removed DEF ForceRemove, AfterCheck
    <3>2. OutputsAreWhole'
      BY <2>2, <2>a, DiskShrinks DEF ForceRemove
    <3>3. NoTempLeft' /\ TempFollowsPc'
      BY <2>2 DEF ForceRemove, NoTempLeft, TempFollowsPc, AfterCheck
    <3>4. QED
      BY <3>1, <3>2, <3>3
  <2>3. CASE CliStat(r)
    <3>1. TypeOK'
      BY <2>3 DEF CliStat, AfterCheck
    <3>2. OutputsAreWhole'
      BY <2>3, <2>a, DiskShrinks DEF CliStat
    <3>3. NoTempLeft' /\ TempFollowsPc'
      BY <2>3 DEF CliStat, NoTempLeft, TempFollowsPc, AfterCheck
    <3>4. QED
      BY <3>1, <3>2, <3>3
  <2>4. CASE ResolveKey(r)
    <3>1. TypeOK'
      BY <2>4 DEF ResolveKey
    <3>2. OutputsAreWhole'
      BY <2>4, <2>a, DiskShrinks DEF ResolveKey
    <3>3. NoTempLeft' /\ TempFollowsPc'
      BY <2>4 DEF ResolveKey, NoTempLeft, TempFollowsPc
    <3>4. QED
      BY <3>1, <3>2, <3>3
  <2>5. CASE LibStat(r)
    <3>1. TypeOK'
      BY <2>5 DEF LibStat
    <3>2. OutputsAreWhole'
      BY <2>5, <2>a, DiskShrinks DEF LibStat
    <3>3. NoTempLeft' /\ TempFollowsPc'
      BY <2>5 DEF LibStat, NoTempLeft, TempFollowsPc
    <3>4. QED
      BY <3>1, <3>2, <3>3
  <2>6. CASE OpenInput(r)
    <3>1. TypeOK'
      BY <2>6 DEF OpenInput
    <3>2. OutputsAreWhole'
      BY <2>6, <2>a, DiskShrinks DEF OpenInput
    <3>3. NoTempLeft' /\ TempFollowsPc'
      BY <2>6 DEF OpenInput, NoTempLeft, TempFollowsPc
    <3>4. QED
      BY <3>1, <3>2, <3>3
  <2>7. CASE CreateTemp(r)
    <3>1. TypeOK'
      BY <2>7, RunContent DEF CreateTemp
    <3>2. OutputsAreWhole'
      BY <2>7, <2>a, DiskShrinks DEF CreateTemp
    <3>3. outcome[r] = "running" /\ outcome' = outcome
      BY <2>7 DEF CreateTemp
    <3>4. NoTempLeft'
      BY <2>7, <3>3 DEF CreateTemp, NoTempLeft
    <3>5. CASE /\ temp' = [temp EXCEPT ![r] = [from |-> r, whole |-> FALSE, kept |-> FALSE]]
               /\ Goto(r, "write")
      BY <3>1, <3>2, <3>4, <3>5 DEF TempFollowsPc
    <3>6. CASE UNCHANGED temp /\ Goto(r, "cleanup")
      BY <2>7, <3>1, <3>2, <3>4, <3>6 DEF TempFollowsPc, CreateTemp
    <3>7. QED
      BY <2>7, <3>5, <3>6 DEF CreateTemp
  <2>8. CASE WriteTemp(r)
    <3>1. temp[r] = [from |-> r, whole |-> FALSE, kept |-> FALSE]
      BY <2>8 DEF WriteTemp, TempFollowsPc
    <3>2. \/ /\ temp' = [temp EXCEPT ![r] = [from |-> r, whole |-> TRUE, kept |-> FALSE]]
             /\ Goto(r, "close")
          \/ temp' = temp /\ Goto(r, "undo")
      BY <2>8, <3>1 DEF WriteTemp
    <3>3. TypeOK'
      BY <2>8, <3>2, RunContent DEF WriteTemp
    <3>4. OutputsAreWhole'
      BY <2>8, <2>a, DiskShrinks DEF WriteTemp
    <3>5. outcome[r] = "running" /\ outcome' = outcome
      BY <2>8 DEF WriteTemp
    <3>6. NoTempLeft'
      BY <3>2, <3>5 DEF NoTempLeft
    <3>7. TempFollowsPc'
      <4>1. CASE /\ temp' = [temp EXCEPT ![r] = [from |-> r, whole |-> TRUE, kept |-> FALSE]]
                 /\ Goto(r, "close")
        BY <4>1 DEF TempFollowsPc
      <4>2. CASE temp' = temp /\ Goto(r, "undo")
        BY <3>1, <4>2, RunContent DEF TempFollowsPc
      <4>3. QED
        BY <3>2, <4>1, <4>2
    <3>8. QED
      BY <3>3, <3>4, <3>6, <3>7
  <2>9. CASE CloseTemp(r)
    <3>1. TypeOK'
      BY <2>9 DEF CloseTemp
    <3>2. OutputsAreWhole'
      BY <2>9, <2>a, DiskShrinks DEF CloseTemp
    <3>3. temp[r] \in Content
      BY <2>9, RunContent DEF CloseTemp, TempFollowsPc
    <3>4. NoTempLeft' /\ TempFollowsPc'
      BY <2>9, <3>3 DEF CloseTemp, NoTempLeft, TempFollowsPc
    <3>5. QED
      BY <3>1, <3>2, <3>4
  <2>10. CASE Rename(r)
    <3>1. temp[r] = [from |-> r, whole |-> TRUE, kept |-> FALSE] /\ temp[r] \in Content
      BY <2>10, RunContent DEF Rename, TempFollowsPc
    <3>2. TypeOK'
      BY <2>10, <2>a DEF Rename, Put
    <3>3. OutputsAreWhole'
      BY <2>10, <2>a, <3>1 DEF Rename, Put, OutputsAreWhole, Exists
    <3>4. CASE /\ temp' = [temp EXCEPT ![r] = None]
               /\ End(r, "ok")
      BY <3>2, <3>3, <3>4 DEF NoTempLeft, TempFollowsPc
    <3>5. CASE Goto(r, "undo") /\ UNCHANGED <<disk, temp, outcome>>
      <4>1. NoTempLeft'
        BY <2>10, <3>5 DEF Rename, NoTempLeft
      <4>2. TempFollowsPc'
        BY <3>1, <3>5 DEF TempFollowsPc
      <4>3. QED
        BY <3>2, <3>3, <4>1, <4>2
    <3>6. QED
      BY <2>10, <3>4, <3>5 DEF Rename
  <2>11. CASE RemoveTemp(r)
    <3>1. temp[r] \in Content
      BY <2>11 DEF RemoveTemp, TempFollowsPc
    <3>2. PICK left \in Content \cup {None} :
            temp' = [temp EXCEPT ![r] = left] /\ (left = None \/ left.kept)
      BY <2>11, <3>1, Marked DEF RemoveTemp
    <3>3. TypeOK'
      BY <2>11, <3>2 DEF RemoveTemp
    <3>4. OutputsAreWhole'
      BY <2>11, <2>a, DiskShrinks DEF RemoveTemp
    <3>5. NoTempLeft' /\ TempFollowsPc'
      BY <2>11, <3>2 DEF RemoveTemp, NoTempLeft, TempFollowsPc
    <3>6. QED
      BY <3>3, <3>4, <3>5
  <2>12. CASE RemoveOutput(r)
    <3>1. TypeOK'
      BY <2>12, <2>a, Removed DEF RemoveOutput
    <3>2. OutputsAreWhole'
      BY <2>12, <2>a, DiskShrinks DEF RemoveOutput
    <3>3. NoTempLeft' /\ TempFollowsPc'
      BY <2>12 DEF RemoveOutput, NoTempLeft, TempFollowsPc
    <3>4. QED
      BY <3>1, <3>2, <3>3
  <2>13. CASE Crash(r)
    <3>1. TypeOK'
      BY <2>13 DEF Crash
    <3>2. OutputsAreWhole'
      BY <2>13, <2>a, DiskShrinks DEF Crash
    <3>3. NoTempLeft' /\ TempFollowsPc'
      BY <2>13 DEF Crash, NoTempLeft, TempFollowsPc
    <3>4. QED
      BY <3>1, <3>2, <3>3
  <2>14. QED
    BY <1>2, <2>1, <2>2, <2>3, <2>4, <2>5, <2>6, <2>7, <2>8, <2>9, <2>10,
       <2>11, <2>12, <2>13 DEF Step
<1>3. QED
  BY <1>1, <1>2 DEF Next

\* The state of the commands stays well formed, and the temporary file of a
\* run is what its place in the library says (main.go:329-530 over
\* encrypt.go:373-388, decrypt.go:132-161, rotate.go:483-507).
THEOREM FileInvariant == Spec => []FileInv
<1>1. FileInv /\ [Next]_vars => FileInv'
  BY StepFileInv
<1>2. QED
  BY <1>1, InitFileInv, PTL DEF Spec

\* No path ever names a file that is not complete: the temporary file takes
\* its name only when it has been written and closed.
THEOREM PathsNameWholeFiles == Spec => []OutputsAreWhole
<1>1. FileInv => OutputsAreWhole
  BY DEF FileInv
<1>2. QED
  BY <1>1, FileInvariant, PTL

\* A run that was not killed tries to remove its temporary file on every error
\* path: one that is left was refused by the system.
THEOREM NoTempIsLeft == Spec => []NoTempLeft
<1>1. FileInv => NoTempLeft
  BY DEF FileInv
<1>2. QED
  BY <1>1, FileInvariant, PTL

-----------------------------------------------------------------------------
(* An output path of one's own.                                            *)

\* The output path of a run names nothing, or the old file that the system
\* did not let the run remove.
Gone(r) ==
  \/ disk[Output[r]] = None
  \/ Forced[r] /\ disk[Output[r]].from = User /\ disk[Output[r]].kept

\* The file of the run itself.
Own(r) == [from |-> r, whole |-> TRUE, kept |-> FALSE]

\* At an output path that is nobody else's there is at most the user's file,
\* nothing but one that cannot be removed from the check until the run has
\* ended, and then what the outcome says.
OwnOutput ==
  \A r \in Runs : Alone(r) =>
    /\ pc[r] = "cli" => disk[Output[r]] = None \/ disk[Output[r]].from = User
    /\ pc[r] \notin {"cli", "ended"} => Gone(r)
    /\ outcome[r] = "ok" => disk[Output[r]] = Own(r)
    /\ outcome[r] = "error" => Gone(r)

\* A run leaves every path but its output alone.
LEMMA OtherPaths ==
  ASSUME TypeOK, NEW q \in Runs, Step(q) \/ Crash(q), NEW p \in Paths, p # Output[q]
  PROVE  disk'[p] = disk[p]
<1>1. Output[q] \in Paths
  BY OutputAssumption
<1>2. CASE disk' = disk
  BY <1>2
<1>3. CASE \E file : Put(Output[q], file)
  BY <1>1, <1>3 DEF Put, TypeOK
<1>4. disk' = disk \/ \E file : Put(Output[q], file)
  BY Zenon DEF Remove, Step, BadInput, ForceRemove, CliStat, ResolveKey, LibStat, OpenInput, CreateTemp,
         WriteTemp, CloseTemp, Rename, RemoveTemp, RemoveOutput, Crash
<1>5. QED
  BY <1>2, <1>3, <1>4

\* Nor does it touch the program counter or the outcome of another run.
LEMMA OtherRuns ==
  ASSUME TypeOK, NEW q \in Runs, Step(q) \/ Crash(q), NEW r \in Runs, r # q
  PROVE  pc'[r] = pc[r] /\ outcome'[r] = outcome[r]
BY DEF Step, BadInput, ForceRemove, CliStat, ResolveKey, LibStat, OpenInput, CreateTemp,
       WriteTemp, CloseTemp, Rename, RemoveTemp, RemoveOutput, Crash, Goto, End, TypeOK

\* What a run does to its output path, its program counter and its outcome.
LEMMA OwnPath ==
  ASSUME TypeOK, TempFollowsPc, NEW r \in Runs, Step(r) \/ Crash(r)
  PROVE  \/ /\ pc[r] \in {"keys", "lib", "open", "create", "write", "close", "rename", "undo"}
            /\ pc'[r] \notin {"cli", "ended"} /\ outcome'[r] = outcome[r] /\ disk' = disk
         \/ /\ pc[r] = "cli" /\ pc'[r] \notin {"cli", "ended"} /\ outcome'[r] = outcome[r]
            /\ Forced[r] /\ Remove(Output[r])
         \/ /\ pc[r] = "cli" /\ pc'[r] \notin {"cli", "ended"} /\ outcome'[r] = outcome[r]
            /\ disk' = disk /\ disk'[Output[r]] = None
         \/ pc[r] # "ended" /\ outcome'[r] \in {"refused", "crashed"} /\ disk' = disk
         \/ pc[r] = "keys" /\ outcome'[r] = "error" /\ disk' = disk
         \/ pc[r] = "rename" /\ outcome'[r] = "ok" /\ disk'[Output[r]] = Own(r)
         \/ pc[r] = "cleanup" /\ outcome'[r] = "error" /\ Remove(Output[r])
<1>1. Output[r] \in Paths
  BY OutputAssumption
<1> USE DEF TypeOK, Goto, End
<1>2. CASE BadInput(r) \/ Crash(r)
  BY <1>2 DEF BadInput, Crash
<1>3. CASE ForceRemove(r)
  BY <1>1, <1>3 DEF ForceRemove, AfterCheck
<1>4. CASE CliStat(r)
  BY <1>4 DEF CliStat, AfterCheck, Exists
<1>5. CASE ResolveKey(r)
  BY <1>5 DEF ResolveKey
<1>6. CASE LibStat(r) \/ OpenInput(r) \/ CreateTemp(r) \/ WriteTemp(r) \/ CloseTemp(r) \/ RemoveTemp(r)
  BY <1>6 DEF LibStat, OpenInput, CreateTemp, WriteTemp, CloseTemp, RemoveTemp
<1>7. CASE Rename(r)
  <2>1. temp[r] = Own(r)
    BY <1>7 DEF Rename, TempFollowsPc, Own
  <2>2. QED
    BY <1>1, <1>7, <2>1 DEF Rename, Put
<1>8. CASE RemoveOutput(r)
  BY <1>1, <1>8 DEF RemoveOutput
<1>9. QED
  BY <1>2, <1>3, <1>4, <1>5, <1>6, <1>7, <1>8 DEF Step

\* Every step keeps that, the steps of others because the path is not theirs.
LEMMA StepOwnOutput ==
  ASSUME FileInv, OwnOutput, [Next]_vars
  PROVE  OwnOutput'
<1>1. TypeOK /\ TempFollowsPc /\ FileInv'
  BY StepFileInv DEF FileInv
<1>2. CASE UNCHANGED vars
  BY <1>2 DEF OwnOutput, Gone, vars
<1>3. ASSUME NEW q \in Runs, Step(q) \/ Crash(q) PROVE OwnOutput'
  <2> SUFFICES ASSUME NEW r \in Runs, Alone(r)
               PROVE  /\ pc'[r] = "cli" => disk'[Output[r]] = None \/ disk'[Output[r]].from = User
                      /\ pc'[r] \notin {"cli", "ended"} => Gone(r)'
                      /\ outcome'[r] = "ok" => disk'[Output[r]] = Own(r)
                      /\ outcome'[r] = "error" => Gone(r)'
    BY DEF OwnOutput, Alone, Own
  <2>1. /\ pc[r] = "cli" => disk[Output[r]] = None \/ disk[Output[r]].from = User
        /\ pc[r] \notin {"cli", "ended"} => Gone(r)
        /\ outcome[r] = "ok" => disk[Output[r]] = Own(r)
        /\ outcome[r] = "error" => Gone(r)
    BY DEF OwnOutput
  <2>2. disk'[Output[r]] = disk[Output[r]] => (Gone(r) => Gone(r)')
    BY DEF Gone
  <2>3. CASE r # q
    <3>1. Output[r] \in Paths /\ Output[r] # Output[q]
      BY <2>3, OutputAssumption DEF Alone
    <3>2. disk'[Output[r]] = disk[Output[r]] /\ pc'[r] = pc[r] /\ outcome'[r] = outcome[r]
      BY <1>1, <1>3, <2>3, <3>1, OtherPaths, OtherRuns
    <3>3. QED
      BY <2>1, <2>2, <3>2
  <2>4. CASE r = q
    <3>1. /\ pc[r] = "ended" <=> outcome[r] # "running"
          /\ pc'[r] = "ended" <=> outcome'[r] # "running"
      BY <1>1 DEF FileInv, TypeOK
    <3>2. /\ Step(r) \/ Crash(r)
          /\ Output[r] \in Paths
      BY <1>3, <2>4, OutputAssumption
    <3>3. Remove(Output[r]) /\ Gone(r) => Gone(r)'
      BY <1>1, <3>2, Removed DEF Gone
    <3>4. Remove(Output[r]) /\ pc[r] = "cli" /\ Forced[r] => Gone(r)'
      BY <1>1, <2>1, <3>2, Removed DEF Gone
    <3>5. disk'[Output[r]] = None => Gone(r)'
      BY DEF Gone
    <3>6. \/ /\ pc[r] \in {"keys", "lib", "open", "create", "write", "close", "rename", "undo"}
             /\ pc'[r] \notin {"cli", "ended"} /\ outcome'[r] = outcome[r] /\ disk' = disk
          \/ /\ pc[r] = "cli" /\ pc'[r] \notin {"cli", "ended"} /\ outcome'[r] = outcome[r]
             /\ Forced[r] /\ Remove(Output[r])
          \/ /\ pc[r] = "cli" /\ pc'[r] \notin {"cli", "ended"} /\ outcome'[r] = outcome[r]
             /\ disk' = disk /\ disk'[Output[r]] = None
          \/ pc[r] # "ended" /\ outcome'[r] \in {"refused", "crashed"} /\ disk' = disk
          \/ pc[r] = "keys" /\ outcome'[r] = "error" /\ disk' = disk
          \/ pc[r] = "rename" /\ outcome'[r] = "ok" /\ disk'[Output[r]] = Own(r)
          \/ pc[r] = "cleanup" /\ outcome'[r] = "error" /\ Remove(Output[r])
      BY <1>1, <3>2, OwnPath
    <3>7. QED
      BY <2>1, <2>2, <3>1, <3>3, <3>4, <3>5, <3>6
  <2>5. QED
    BY <2>3, <2>4
<1>4. QED
  BY <1>2, <1>3 DEF Next

\* To begin with, no run has looked.
LEMMA InitOwnOutput == Init => OwnOutput
<1> SUFFICES ASSUME Init, NEW r \in Runs
             PROVE  disk[Output[r]] = None \/ disk[Output[r]].from = User
  BY DEF Init, OwnOutput
<1>1. disk[Output[r]] \in {None, [from |-> User, whole |-> TRUE, kept |-> FALSE]}
  BY OutputAssumption DEF Init
<1>2. QED
  BY <1>1

\* Whoever has an output path to himself finds there what he was told: his
\* file after a success, nothing after an error, but after --force the old
\* file if the system refused to remove it.
THEOREM OutcomesAreTrue == Spec => []OutcomeIsTrue
<1>1. FileInv /\ OwnOutput /\ [Next]_vars => (FileInv /\ OwnOutput)'
  BY StepFileInv, StepOwnOutput
<1>2. Init => FileInv /\ OwnOutput
  BY InitFileInv, InitOwnOutput
<1>3. ASSUME OwnOutput PROVE OutcomeIsTrue
  <2> SUFFICES ASSUME NEW r \in Runs, Alone(r)
               PROVE  /\ outcome[r] = "ok" => Exists(Output[r]) /\ disk[Output[r]].from = r
                      /\ outcome[r] = "error" => ~ Exists(Output[r]) \/ Gone(r)
    BY DEF OutcomeIsTrue, Gone, Exists
  <2>1. Own(r) # None /\ Own(r).from = r
    BY NoneAssumption, RunContent DEF Own
  <2>2. /\ outcome[r] = "ok" => disk[Output[r]] = Own(r)
        /\ outcome[r] = "error" => Gone(r)
    BY <1>3 DEF OwnOutput
  <2>3. QED
    BY <2>1, <2>2 DEF Exists
<1>4. OwnOutput => OutcomeIsTrue
  BY <1>3
<1>5. QED
  BY <1>1, <1>2, <1>4, PTL DEF Spec

\* A file is replaced or removed only by a run that was given --force, or
\* where several runs were given its path.
THEOREM UnforcedRunsKeepFiles == Spec => UnforcedKeepsFiles
<1> DEFINE Kept == \A p \in Paths : Exists(p) /\ disk'[p] # disk[p] =>
                     \E r \in Runs : Output[r] = p /\ (Forced[r] \/ ~ Alone(r))
<1>1. ASSUME FileInv, OwnOutput, [Next]_vars PROVE Kept
  <2> SUFFICES ASSUME NEW p \in Paths, Exists(p), disk'[p] # disk[p]
               PROVE  \E r \in Runs : Output[r] = p /\ (Forced[r] \/ ~ Alone(r))
    OBVIOUS
  <2>1. TypeOK /\ TempFollowsPc
    BY <1>1 DEF FileInv
  <2>2. PICK r \in Runs : Step(r) \/ Crash(r)
    BY <1>1 DEF Next, vars
  <2>3. Output[r] = p
    BY <2>1, <2>2, OtherPaths
  <2> SUFFICES ASSUME ~ Forced[r], Alone(r) PROVE FALSE
    BY <2>3
  <2>4. pc[r] \in {"cli", "ended"}
    BY <1>1, <2>3 DEF OwnOutput, Gone, Exists
  <2>5. disk' = disk
    BY <2>2, <2>4 DEF Step, BadInput, ForceRemove, CliStat, ResolveKey, LibStat, OpenInput,
         CreateTemp, WriteTemp, CloseTemp, Rename, RemoveTemp, RemoveOutput, Crash
  <2>6. QED
    BY <2>5
<1>2. FileInv /\ OwnOutput /\ [Next]_vars => (FileInv /\ OwnOutput)'
  BY StepFileInv, StepOwnOutput
<1>3. Init => FileInv /\ OwnOutput
  BY InitFileInv, InitOwnOutput
<1>4. FileInv /\ OwnOutput /\ [Next]_vars => [Kept]_vars
  BY <1>1
<1>5. QED
  BY <1>2, <1>3, <1>4, PTL DEF Spec, UnforcedKeepsFiles

\* The state of the commands stays well formed.
THEOREM FilesStayWellFormed == Spec => []TypeOK
<1>1. FileInv => TypeOK
  BY DEF FileInv
<1>2. QED
  BY <1>1, FileInvariant, PTL

=============================================================================

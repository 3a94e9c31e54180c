----------------------------- MODULE FileOutput -----------------------------
(***************************************************************************)
(* What happens to files when commands of the CLI run side by side         *)
(* (cmd/mcap-encrypt/main.go over the file wrappers of pkg/mcapencrypt).   *)
(* Every command checks its output path, may remove what is there, writes  *)
(* a temporary file next to it and renames that file into place; on an     *)
(* error the library removes the temporary file and the command removes    *)
(* the output path.  Nothing is locked.                                    *)
(*                                                                         *)
(* One action is one system call on a path that others can see.  A call    *)
(* that opens, creates, writes, closes, renames or removes may fail; the   *)
(* error of a removal is ignored by the code, so the command goes on       *)
(* beside the file.  os.Stat tells the truth.                              *)
(***************************************************************************)
EXTENDS Naturals

CONSTANTS
  Runs,     \* processes, each running one command
  Paths,    \* names of files
  Kind,     \* Kind[r] in Kinds; "kms": decrypt or rotate with a KMS key
  Input,    \* Input[r], the first path argument
  Output,   \* Output[r], the second one
  Forced,   \* Forced[r]: was --force given?
  User,     \* who wrote the files there are in the beginning
  None      \* no file

Kinds == {"encrypt", "decrypt", "rotate", "kms"}

ASSUME KindAssumption == Kind \in [Runs -> Kinds]
ASSUME InputAssumption == Input \in [Runs -> Paths]
ASSUME OutputAssumption == Output \in [Runs -> Paths]
ASSUME ForceAssumption == Forced \in [Runs -> BOOLEAN]
ASSUME UserAssumption == User \notin Runs

\* A file; "kept" records, for the properties only, that it was to be removed
\* and the system refused.
Content == [from : Runs \cup {User}, whole : BOOLEAN, kept : BOOLEAN]

ASSUME NoneAssumption == None \notin Content

VARIABLES
  pc,      \* the next system call of each run
  disk,    \* disk[p]: the file at path p, or None
  temp,    \* temp[r]: the temporary file of run r, or None
  outcome  \* how each run ended

vars == <<pc, disk, temp, outcome>>

Exists(p) == disk[p] # None

Goto(r, label) == pc' = [pc EXCEPT ![r] = label]

End(r, how) ==
  /\ Goto(r, "ended")
  /\ outcome' = [outcome EXCEPT ![r] = how]

Put(p, file) == disk' = [disk EXCEPT ![p] = file]

\* os.Remove, whose error nobody looks at.
Remove(p) ==
  \/ Put(p, None)
  \/ Exists(p) /\ Put(p, [disk[p] EXCEPT !.kept = TRUE])

Init ==
  /\ pc = [r \in Runs |-> "cli"]
  /\ disk \in [Paths -> {None, [from |-> User, whole |-> TRUE, kept |-> FALSE]}]
  /\ temp = [r \in Runs |-> None]
  /\ outcome = [r \in Runs |-> "running"]

-----------------------------------------------------------------------------
(* The command.                                                            *)

\* encrypt looks at the magic of its input first of all.
BadInput(r) ==
  /\ pc[r] = "cli"
  /\ Kind[r] = "encrypt"
  /\ ~ Exists(Input[r])
  /\ End(r, "refused")
  /\ UNCHANGED <<disk, temp>>

Usable(r) == Kind[r] = "encrypt" => Exists(Input[r])

\* Decryption with a key file loads it in the library, encryption has no
\* private key; the others resolve theirs between the check and the library.
AfterCheck(r) == IF Kind[r] \in {"rotate", "kms"} THEN "keys" ELSE "lib"

\* --force: the old output goes at once, if it can.
ForceRemove(r) ==
  /\ pc[r] = "cli"
  /\ Usable(r)
  /\ Forced[r]
  /\ Remove(Output[r])
  /\ Goto(r, AfterCheck(r))
  /\ UNCHANGED <<temp, outcome>>

\* A mutant: the command leaves the question to the library, whose error it
\* answers by removing the output.
CliStatSkipped(r) ==
  /\ pc[r] = "cli"
  /\ Usable(r)
  /\ ~ Forced[r]
  /\ Goto(r, AfterCheck(r)) /\ UNCHANGED outcome
  /\ UNCHANGED <<disk, temp>>

\* Without it an existing output is refused, and left alone.
CliStat(r) ==
  /\ pc[r] = "cli"
  /\ Usable(r)
  /\ ~ Forced[r]
  /\ IF Exists(Output[r]) THEN End(r, "refused")
     ELSE Goto(r, AfterCheck(r)) /\ UNCHANGED outcome
  /\ UNCHANGED <<disk, temp>>

\* The old key file or the KMS: an error here ends the command directly.
ResolveKey(r) ==
  /\ pc[r] = "keys"
  /\ \/ Goto(r, "lib") /\ UNCHANGED outcome
     \/ End(r, "error")
  /\ UNCHANGED <<disk, temp>>

-----------------------------------------------------------------------------
(* The library.                                                            *)

\* Paths that are the same, or an output that exists: an error.
LibStat(r) ==
  /\ pc[r] = "lib"
  /\ Goto(r, IF Input[r] = Output[r] \/ Exists(Output[r]) THEN "cleanup" ELSE "open")
  /\ UNCHANGED <<disk, temp, outcome>>

\* Keys are loaded and the input is opened (by encryption three times, and
\* refused if it is encrypted already).
OpenInput(r) ==
  /\ pc[r] = "open"
  /\ \/ Exists(Input[r]) /\ Goto(r, "create")
     \/ Goto(r, "cleanup")
  /\ UNCHANGED <<disk, temp, outcome>>

\* os.CreateTemp makes a name nobody else has.
CreateTemp(r) ==
  /\ pc[r] = "create"
  /\ \/ /\ temp' = [temp EXCEPT ![r] = [from |-> r, whole |-> FALSE, kept |-> FALSE]]
        /\ Goto(r, "write")
     \/ UNCHANGED temp /\ Goto(r, "cleanup")
  /\ UNCHANGED <<disk, outcome>>

\* A mutant: an error of the codec is dropped.
WriteTempUnchecked(r) ==
  /\ pc[r] = "write"
  /\ \/ temp' = [temp EXCEPT ![r].whole = TRUE] /\ Goto(r, "close")
     \/ UNCHANGED temp /\ Goto(r, "close")
  /\ UNCHANGED <<disk, outcome>>

\* The codec: everything is written, or it stops at an error.
WriteTemp(r) ==
  /\ pc[r] = "write"
  /\ \/ temp' = [temp EXCEPT ![r].whole = TRUE] /\ Goto(r, "close")
     \/ UNCHANGED temp /\ Goto(r, "undo")
  /\ UNCHANGED <<disk, outcome>>

CloseTemp(r) ==
  /\ pc[r] = "close"
  /\ \E next \in {"rename", "undo"} : Goto(r, next)
  /\ UNCHANGED <<disk, temp, outcome>>

\* A mutant: the deferred function is not told that the rename failed.
RenameUnchecked(r) ==
  /\ pc[r] = "rename"
  /\ \/ /\ Put(Output[r], temp[r])
        /\ temp' = [temp EXCEPT ![r] = None]
        /\ End(r, "ok")
     \/ Goto(r, "cleanup") /\ UNCHANGED <<disk, temp, outcome>>

\* Two more: the command does not look at the error of the rename; it ends
\* without a report.
RenameUnreported(r) ==
  /\ pc[r] = "rename"
  /\ \/ Put(Output[r], temp[r]) \/ UNCHANGED disk
  /\ temp' = [temp EXCEPT ![r] = None]
  /\ End(r, "ok")

RenameSilent(r) ==
  /\ pc[r] = "rename"
  /\ \/ /\ Put(Output[r], temp[r])
        /\ temp' = [temp EXCEPT ![r] = None]
        /\ Goto(r, "ended") /\ UNCHANGED outcome
     \/ Goto(r, "undo") /\ UNCHANGED <<disk, temp, outcome>>

\* The rename replaces whatever has the name by now.
Rename(r) ==
  /\ pc[r] = "rename"
  /\ \/ /\ Put(Output[r], temp[r])
        /\ temp' = [temp EXCEPT ![r] = None]
        /\ End(r, "ok")
     \/ Goto(r, "undo") /\ UNCHANGED <<disk, temp, outcome>>

\* The deferred function of the library, which ignores an error as well.
RemoveTemp(r) ==
  /\ pc[r] = "undo"
  /\ \/ temp' = [temp EXCEPT ![r] = None]
     \/ temp' = [temp EXCEPT ![r].kept = TRUE]
  /\ Goto(r, "cleanup")
  /\ UNCHANGED <<disk, outcome>>

\* The command answers any error of the library by removing the output.
RemoveOutput(r) ==
  /\ pc[r] = "cleanup"
  /\ Remove(Output[r])
  /\ End(r, "error")
  /\ UNCHANGED temp

\* The process is killed: no deferred function runs.
Crash(r) ==
  /\ pc[r] # "ended"
  /\ End(r, "crashed")
  /\ UNCHANGED <<disk, temp>>

Step(r) ==
  \/ BadInput(r) \/ ForceRemove(r) \/ CliStat(r) \/ ResolveKey(r)
  \/ LibStat(r) \/ OpenInput(r) \/ CreateTemp(r) \/ WriteTemp(r)
  \/ CloseTemp(r) \/ Rename(r) \/ RemoveTemp(r) \/ RemoveOutput(r)

Next == \E r \in Runs : Step(r) \/ Crash(r)

Spec == Init /\ [][Next]_vars

-----------------------------------------------------------------------------
(* Properties.                                                             *)

Labels == {"cli", "keys", "lib", "open", "create", "write", "close", "rename",
           "undo", "cleanup", "ended"}
Outcomes == {"running", "ok", "error", "refused", "crashed"}

\* The state is well formed, and a run without an outcome is a run that has
\* not ended (runEncrypt, runDecrypt, runRotate).
TypeOK ==
  /\ pc \in [Runs -> Labels]
  /\ disk \in [Paths -> Content \cup {None}]
  /\ temp \in [Runs -> Content \cup {None}]
  /\ outcome \in [Runs -> Outcomes]
  /\ \A r \in Runs : pc[r] = "ended" <=> outcome[r] # "running"

\* No path ever names a file that is not complete, whichever system calls of
\* whichever runs fail, race or are cut short (CHANGELOG.md:94).
OutputsAreWhole == \A p \in Paths : Exists(p) => disk[p].whole

\* A run that was not killed leaves no temporary file behind, on any of its
\* error paths, that it did not try to remove; one that reported success leaves
\* none at all (.github/SECURITY.md:189, rotate_test.go:173).
NoTempLeft ==
  \A r \in Runs :
    /\ outcome[r] \in {"ok", "refused"} => temp[r] = None
    /\ outcome[r] = "error" => temp[r] = None \/ temp[r].kept

\* No two runs were given this output path.
Alone(r) == \A q \in Runs \ {r} : Output[q] # Output[r]

\* With an output path to itself, a run that reported success has its file
\* there, and one that reported an error has left nothing there but, after
\* --force, the old file, which the system did not let it remove
\* (main.go:358-386).
OutcomeIsTrue ==
  \A r \in Runs : Alone(r) =>
    /\ outcome[r] = "ok" => Exists(Output[r]) /\ disk[Output[r]].from = r
    /\ outcome[r] = "error" =>
         \/ ~ Exists(Output[r])
         \/ Forced[r] /\ disk[Output[r]].from = User /\ disk[Output[r]].kept

\* A file that exists is replaced or removed only by a run that was given
\* --force for its path (README.md:107), unless several runs were given it:
\* then the second may replace what the first wrote since it looked.
UnforcedKeepsFiles ==
  [][\A p \in Paths : Exists(p) /\ disk'[p] # disk[p] =>
       \E r \in Runs : Output[r] = p /\ (Forced[r] \/ ~ Alone(r))]_vars

\* Input and output must differ (rotate.go:459, feature_test.go:252): a run
\* that is given one path for both is rejected, and the recording is kept.
SamePathRejected ==
  [][\A r \in Runs : Input[r] = Output[r] /\ Alone(r) =>
       /\ outcome'[r] # "ok"
       /\ Exists(Input[r]) => disk'[Input[r]] = disk[Input[r]]]_vars

=============================================================================

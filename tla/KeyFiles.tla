------------------------------ MODULE KeyFiles ------------------------------
(***************************************************************************)
(* Key generation (GenerateKeyPair and GenerateX25519KeyPair,              *)
(* pkg/mcapencrypt/key.go): a run looks whether one of the two files of a  *)
(* basename exists, draws a pair, and writes the private and then the      *)
(* public key.  A write creates or truncates the file first, so a file     *)
(* that is cut short by an error or by the death of the process stays as   *)
(* it is.  Both generators do the same; only the kind of key differs.      *)
(* Nothing is locked: runs may overlap, and then replace each other's      *)
(* files.                                                                  *)
(*                                                                         *)
(* One action is one system call; os.Stat tells the truth, any other call  *)
(* may fail.                                                               *)
(***************************************************************************)
EXTENDS Naturals

CONSTANTS
  Runs,     \* runs of keygen with the same basename; each draws its own pair
  User,     \* whose key files there may be in the beginning, one or both
  None      \* no file

Key == [from : Runs \cup {User}, whole : BOOLEAN]

ASSUME UserAssumption == User \notin Runs
ASSUME NoneAssumption == None \notin Key

VARIABLES
  pc,    \* the next system call of each run
  priv,  \* basename.priv.pem, or None
  pub,   \* basename.pub.pem, or None
  told,  \* what each run reported
  rivals \* history, for the properties only: the runs that were under way at
         \* a time when run r was

vars == <<pc, priv, pub, told, rivals>>

Goto(r, label) == pc' = [pc EXCEPT ![r] = label] /\ UNCHANGED told

End(r, how) ==
  /\ pc' = [pc EXCEPT ![r] = "ended"]
  /\ told' = [told EXCEPT ![r] = how]

Part(r) == [from |-> r, whole |-> FALSE]
Whole(r) == [from |-> r, whole |-> TRUE]

Init ==
  /\ pc = [r \in Runs |-> "statPriv"]
  /\ priv \in {None, Whole(User)}
  /\ pub \in {None, Whole(User)}
  /\ told = [r \in Runs |-> "nothing"]
  /\ rivals = [r \in Runs |-> {}]

Active(r) == pc[r] \notin {"statPriv", "ended"}

\* Run r gets under way beside those that are.
Meet(r) ==
  rivals' = [q \in Runs |-> IF q = r THEN {p \in Runs : Active(p)}
                            ELSE IF Active(q) THEN rivals[q] \cup {r} ELSE rivals[q]]

\* A mutant: only the public key is looked for.
StatPrivSkipped(r) ==
  /\ pc[r] = "statPriv"
  /\ Goto(r, "statPub") /\ Meet(r)
  /\ UNCHANGED <<priv, pub>>

StatPriv(r) ==
  /\ pc[r] = "statPriv"
  /\ IF priv # None THEN End(r, "refused") /\ UNCHANGED rivals
     ELSE Goto(r, "statPub") /\ Meet(r)
  /\ UNCHANGED <<priv, pub>>

\* Behind it, the pair is drawn and encoded.
StatPub(r) ==
  /\ pc[r] = "statPub"
  /\ IF pub # None THEN End(r, "refused") ELSE Goto(r, "openPriv")
  /\ UNCHANGED <<priv, pub, rivals>>

\* os.WriteFile: the file is created or truncated, or cannot be opened.
OpenPriv(r) ==
  /\ pc[r] = "openPriv"
  /\ \/ priv' = Part(r) /\ Goto(r, "writePriv")
     \/ UNCHANGED priv /\ End(r, "error")
  /\ UNCHANGED <<pub, rivals>>

\* A mutant: an error of the write is dropped.
WritePrivUnchecked(r) ==
  /\ pc[r] = "writePriv"
  /\ \/ priv' = Whole(r) /\ Goto(r, "openPub")
     \/ UNCHANGED priv /\ Goto(r, "openPub")
  /\ UNCHANGED <<pub, rivals>>

\* The bytes go to the file this run opened; when another run has truncated
\* it in between, the one that writes last prevails.  A write that fails may
\* have begun.
WritePriv(r) ==
  /\ pc[r] = "writePriv"
  /\ \/ priv' = Whole(r) /\ Goto(r, "openPub")
     \/ priv' \in {priv, Part(r)} /\ End(r, "error")
  /\ UNCHANGED <<pub, rivals>>

OpenPub(r) ==
  /\ pc[r] = "openPub"
  /\ \/ pub' = Part(r) /\ Goto(r, "writePub")
     \/ UNCHANGED pub /\ End(r, "error")
  /\ UNCHANGED <<priv, rivals>>

\* A mutant: the run ends without a report.
WritePubSilent(r) ==
  /\ pc[r] = "writePub"
  /\ \/ pub' = Whole(r) /\ Goto(r, "ended")
     \/ UNCHANGED pub /\ End(r, "error")
  /\ UNCHANGED <<priv, rivals>>

WritePub(r) ==
  /\ pc[r] = "writePub"
  /\ \/ pub' = Whole(r) /\ End(r, "ok")
     \/ pub' \in {pub, Part(r)} /\ End(r, "error")
  /\ UNCHANGED <<priv, rivals>>

Crash(r) ==
  /\ pc[r] \notin {"statPriv", "ended"}
  /\ End(r, "crashed")
  /\ UNCHANGED <<priv, pub, rivals>>

Next ==
  \E r \in Runs :
    \/ StatPriv(r) \/ StatPub(r) \/ OpenPriv(r) \/ WritePriv(r)
    \/ OpenPub(r) \/ WritePub(r) \/ Crash(r)

Spec == Init /\ [][Next]_vars

-----------------------------------------------------------------------------
(* Properties.                                                             *)

Labels == {"statPriv", "statPub", "openPriv", "writePriv", "openPub",
           "writePub", "ended"}

\* The state is well formed, and a run that has ended has reported how
\* (key.go:150-182).
KeyTypeOK ==
  /\ pc \in [Runs -> Labels]
  /\ priv \in Key \cup {None}
  /\ pub \in Key \cup {None}
  /\ told \in [Runs -> {"nothing", "ok", "refused", "error", "crashed"}]
  /\ rivals \in [Runs -> SUBSET Runs]
  /\ \A r \in Runs : pc[r] = "ended" <=> told[r] # "nothing"

\* Nobody can be handed a public key that cannot be decrypted for: a public
\* key file that a run made without a rival, whole or not, has the complete
\* private key of the same pair beside it, whatever writes failed and whichever
\* runs died in between, before or after; and such a run, if it reported
\* success, has both files of its own pair there (key.go:169-182).
PublicHasPrivate ==
  /\ pub # None /\ pub.from \in Runs /\ rivals[pub.from] = {} => priv = Whole(pub.from)
  /\ \A r \in Runs : told[r] = "ok" /\ rivals[r] = {} => priv = Whole(r) /\ pub = Whole(r)

\* A file that is there stays, and is not replaced by that of another pair but
\* in a race of two runs.
Keeps(file, new) ==
  file # None => /\ new # None
                 /\ \/ new.from = file.from
                    \/ file.from \in Runs /\ file.from \in rivals[new.from]

\* No run replaces a key file that was there when it began, be it that of an
\* earlier run, of the user, or a public key without its private key.  Only one
\* that a rival made after the run had looked for it is replaced, without a
\* word: CHANGELOG.md:30 promises that silent clobber is prevented
\* (key.go:153-158).
NoClobber == [][Keeps(priv, priv') /\ Keeps(pub, pub')]_vars

=============================================================================

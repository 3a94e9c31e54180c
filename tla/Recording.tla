----------------------------- MODULE Recording -----------------------------
(***************************************************************************)
(* What encrypting, storing and decrypting a recording promises, with no   *)
(* keys and no files: the chunks of the original come out one by one in    *)
(* their order, and the result is called complete only when all of them    *)
(* have.  The recipient may be told at any time that it cannot be had.     *)
(***************************************************************************)
EXTENDS Naturals, Sequences

CONSTANT ChunkBodies

VARIABLES
  original, \* the chunks that are to be played, in recording order
  played,   \* those that have come out
  verdict   \* "open", "complete" or "failed"

recording == <<original, played, verdict>>

Init ==
  /\ original \in Seq(ChunkBodies)
  /\ played = <<>>
  /\ verdict = "open"

\* The recording is not over before it is encrypted.
Record ==
  /\ verdict = "open"
  /\ played = <<>>
  /\ original' \in Seq(ChunkBodies)
  /\ UNCHANGED <<played, verdict>>

Play ==
  /\ verdict = "open"
  /\ Len(played) < Len(original)
  /\ played' = Append(played, original[Len(played) + 1])
  /\ UNCHANGED <<original, verdict>>

Complete ==
  /\ verdict = "open"
  /\ played = original
  /\ verdict' = "complete"
  /\ UNCHANGED <<original, played>>

GiveUp ==
  /\ verdict = "open"
  /\ verdict' = "failed"
  /\ UNCHANGED <<original, played>>

Next == Record \/ Play \/ Complete \/ GiveUp

Spec == Init /\ [][Next]_recording

=============================================================================

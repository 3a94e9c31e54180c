--------------------------- MODULE MCFileOutput ----------------------------
(***************************************************************************)
(* Small instances of FileOutput: who reads and writes which path.         *)
(***************************************************************************)
EXTENDS FileOutput, TLC

CONSTANTS r1, r2, r3, r4

FourRuns == {r1, r2, r3, r4}
OneRun == {r1}

\* r1 encrypts a to b, which no other run writes; r2 rotates b over c, with
\* --force; r3 and r4 have the output d in common, for r3 its input as well.
ManyKind == r1 :> "encrypt" @@ r2 :> "rotate" @@ r3 :> "encrypt" @@ r4 :> "kms"
ManyInput == r1 :> "a" @@ r2 :> "b" @@ r3 :> "d" @@ r4 :> "b"
ManyOutput == r1 :> "b" @@ r2 :> "c" @@ r3 :> "d" @@ r4 :> "d"
ManyForce == r1 :> FALSE @@ r2 :> TRUE @@ r3 :> TRUE @@ r4 :> FALSE

\* One run whose output is its input, with --force.
SameKind == r1 :> "encrypt"
SameInput == r1 :> "a"
SameOutput == r1 :> "a"
SameForce == r1 :> TRUE

=============================================================================

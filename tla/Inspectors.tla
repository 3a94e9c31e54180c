----------------------------- MODULE Inspectors -----------------------------
(***************************************************************************)
(* What the inspect programs of the three packages (pkg/mcapencrypt/       *)
(* inspect.go, py/src/mcap_encrypt/inspect.py, ts/src/inspect.ts) say of a *)
(* file.  They open nothing: each walks over the records, counts some and  *)
(* lists the slots.  What they make of a record is the same; how far they  *)
(* walk is not.                                                            *)
(***************************************************************************)
EXTENDS McapRecords

\* The listing made from the records that were walked over.  The recipients
\* are those of the slots that decode, the version is that of the first of
\* them, and the number of chunks is given twice: as the last manifest
\* declares it, and as it was counted.
Listing(records) ==
  LET slots == Selected(records, {i \in DOMAIN records :
                                   records[i].op = "slot" /\ Decodes(records[i])})
      manifests == OfKind(records, {"manifest"})
      sealed == OfKind(records, {"encChunk", "encAttachment"})
  IN [encrypted |-> slots # <<>> \/ sealed # <<>>,
      version |-> IF slots = <<>> THEN 0 ELSE slots[1].version,
      recipients |-> [i \in DOMAIN slots |-> slots[i].to],
      declared |-> IF manifests = <<>> THEN 0 ELSE manifests[Len(manifests)].count,
      chunks |-> Len(OfKind(records, {"encChunk"})),
      attachments |-> Len(OfKind(records, {"encAttachment"}))]

LOCAL Behind(file) == SubSeq(file, 2, Len(file))

LOCAL HasMagic(file) == Len(file) > 0 /\ file[1].op = "magic"

-----------------------------------------------------------------------------
(* Go.  The walk goes on behind the footer and ends at the trailing magic, *)
(* which is shorter than the header of a record.  A record cut short is an *)
(* error if the cut is behind its header.                                  *)

GoInspects(file) ==
  /\ HasMagic(file)
  /\ OfKind(UpTo(Behind(file), {"magic"}), {"torn"}) = <<>>

\* A mutant: the walk ends where the data section does.
GoInspectedShort(file) == Listing(UpTo(Behind(file), {"dataEnd", "magic"}))

GoInspected(file) == Listing(UpTo(Behind(file), {"magic"}))

-----------------------------------------------------------------------------
(* Python.  The walk ends at the footer, or without a word at a record cut *)
(* short.                                                                  *)

PyInspects(file) == HasMagic(file)

PyInspected(file) == Listing(UpTo(Behind(file), {"footer", "torn", "magic"}))

-----------------------------------------------------------------------------
(* TypeScript.  The walk ends at the footer; a record cut short, or a      *)
(* trailing magic without a footer, is thrown at.                          *)

TsInspects(file) ==
  /\ HasMagic(file)
  /\ OfKind(UpTo(Behind(file), {"footer"}), {"torn", "magic"}) = <<>>

TsInspected(file) == Listing(UpTo(Behind(file), {"footer"}))

=============================================================================

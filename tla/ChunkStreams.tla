---------------------------- MODULE ChunkStreams ----------------------------
(***************************************************************************)
(* What the bridge promises the clients of an encrypted file, with no      *)
(* cache, no locks and no decryption in sight: each stream hands over the  *)
(* non-empty chunks of its own time range in file order, none twice and    *)
(* none left out, and calls itself complete only when it has handed over   *)
(* all of them.  A stream may be abandoned at any time.                    *)
(***************************************************************************)
EXTENDS Naturals, Sequences

CONSTANTS Clients, NumChunks

VARIABLES
  wants,     \* wants[g]: the chunks stream g has to hand over
  delivered, \* delivered[g]: the chunks it has handed over, in order
  status     \* "running", "complete" or "abandoned"

streams == <<wants, delivered, status>>

Handed(g) == {delivered[g][k] : k \in DOMAIN delivered[g]}

Init ==
  /\ wants \in [Clients -> SUBSET (0..(NumChunks - 1))]
  /\ delivered = [g \in Clients |-> <<>>]
  /\ status = [g \in Clients |-> "running"]

\* The next chunk is the first one not handed over yet.
Deliver(g) ==
  /\ status[g] = "running"
  /\ \E c \in wants[g] \ Handed(g) :
       /\ \A d \in wants[g] \ Handed(g) : c <= d
       /\ delivered' = [delivered EXCEPT ![g] = Append(@, c)]
  /\ UNCHANGED <<wants, status>>

Complete(g) ==
  /\ status[g] = "running"
  /\ wants[g] = Handed(g)
  /\ status' = [status EXCEPT ![g] = "complete"]
  /\ UNCHANGED <<wants, delivered>>

Abandon(g) ==
  /\ status[g] = "running"
  /\ status' = [status EXCEPT ![g] = "abandoned"]
  /\ UNCHANGED <<wants, delivered>>

Next == \E g \in Clients : Deliver(g) \/ Complete(g) \/ Abandon(g)

Spec == Init /\ [][Next]_streams

=============================================================================

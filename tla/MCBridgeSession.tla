-------------------------- MODULE MCBridgeSession --------------------------
(***************************************************************************)
(* Small instances of BridgeCommand: two channels and two subscriptions.   *)
(***************************************************************************)
EXTENDS BridgeCommand, TLC

\* Two messages of channel 1 and one of channel 2; no message at all.
Mixed == <<1, 2, 1>>
NoMessages == <<>>

BothBridges == {"batch", "streaming"}
MCRecordings == {Mixed, NoMessages}

\* Subscriptions 11 and 12: to one channel each, both to the same channel,
\* both channels at once, and nothing.
MCRequests == {<<>>, 11 :> 1, 11 :> 2, (11 :> 1) @@ (12 :> 1),
               (11 :> 1) @@ (12 :> 2)}

=============================================================================

--------------------------- MODULE BridgeSession ---------------------------
(***************************************************************************)
(* One WebSocket connection of a bridge: the batch bridge, which has       *)
(* decrypted the whole recording into memory (bridge.go), or the streaming *)
(* bridge, which decrypts as it goes (bridge_stream.go).  The two handlers *)
(* are the same code twice.  A connection has two goroutines, a control    *)
(* loop that reads requests and a stream that the first subscription       *)
(* starts, and a client that asks and leaves when it likes.                *)
(*                                                                         *)
(* Connections share nothing but the chunk cache (BridgeCache); what it    *)
(* can do to a stream is Cut.  BridgeCommand composes a connection with    *)
(* the process that serves it, and states the specification.               *)
(***************************************************************************)
EXTENDS Naturals, Sequences, FiniteSets

CONSTANTS
  Bridges,      \* subset of {"batch", "streaming"}
  Recordings,   \* sequences of messages in file order, each known by the
                \* id of its channel
  Requests,     \* what a client may send: functions from subscription to
                \* channel; the empty one stands for all that the loop ignores
  MaxRequests   \* bound: requests of one client

ASSUME BridgesAssumption == Bridges \subseteq {"batch", "streaming"}

\* Channel ids have 16 bits.
ChannelIds == {c \in Nat : c < 65536}

ASSUME RecordingsAssumption == Recordings \subseteq Seq(ChannelIds)

\* Clients ask for channels that exist, whose ids have 16 bits.
ASSUME RequestsAssumption ==
  \A request \in Requests : \A s \in DOMAIN request : request[s] \in ChannelIds

VARIABLES
  bridge,         \* which of the two it is
  playlist,       \* the messages it serves, in the order it serves them
  connected,      \* is the connection open?
  control,        \* control loop: "info", "advertise", "loop" or "gone"
  asked,          \* the requests the client has sent
  inbox,          \* those the loop has not read
  subscriptions,  \* subscription -> channel, all of them so far
  streaming,      \* has a stream been started?
  chanToSub,      \* channel -> subscription, as the stream took it along
  stream,         \* "none", "running", "complete" or "cut"
  next,           \* the next message of the stream
  frames          \* the frames the client got: <<subscription, message>>

server == <<bridge, playlist>>
client == <<connected, asked>>
loop == <<control, inbox, subscriptions, streaming>>
sender == <<chanToSub, stream, next, frames>>
vars == <<bridge, playlist, connected, asked, control, inbox, subscriptions,
          streaming, chanToSub, stream, next, frames>>

Empty == <<>>

\* The messages of either bridge, each known by its place in the file.  The
\* streaming bridge scans the file; the batch bridge asks the reader of the
\* library for messages without naming an order, gets them in that of the
\* file, the library's default, and does not sort them.
Messages(recording) ==
  [i \in DOMAIN recording |-> [place |-> i, channel |-> recording[i]]]

Channels(request) == {request[s] : s \in DOMAIN request}

\* subscriptions[s.ID] = uint16(s.ChannelID), for all of a request.
Merged(old, request) ==
  [s \in DOMAIN old \cup DOMAIN request |->
     IF s \in DOMAIN request THEN request[s] % 65536 ELSE old[s]]

\* The reverse map.  Of several subscriptions to a channel one gets it, the
\* last in the order of Go's map iteration, which is any.
Reversals(subs) ==
  {f \in [Channels(subs) -> DOMAIN subs] : \A c \in Channels(subs) : subs[f[c]] = c}

Init ==
  /\ bridge \in Bridges
  /\ \E recording \in Recordings : playlist = Messages(recording)
  /\ connected = TRUE
  /\ control = "info"
  /\ asked = <<>>
  /\ inbox = <<>>
  /\ subscriptions = Empty
  /\ streaming = FALSE
  /\ chanToSub = Empty
  /\ stream = "none"
  /\ next = 1
  /\ frames = <<>>

-----------------------------------------------------------------------------
(* The client.                                                             *)

Ask(request) ==
  /\ connected
  /\ Len(asked) < MaxRequests
  /\ asked' = Append(asked, request)
  /\ inbox' = Append(inbox, request)
  /\ UNCHANGED <<server, connected, control, subscriptions, streaming, sender>>

Leave ==
  /\ connected
  /\ connected' = FALSE
  /\ UNCHANGED <<server, asked, loop, sender>>

-----------------------------------------------------------------------------
(* The control loop.                                                       *)

\* serverInfo and advertise; a failed write ends the handler.
Greet ==
  /\ control \in {"info", "advertise"}
  /\ \/ control' = IF control = "info" THEN "advertise" ELSE "loop"
     \/ ~ connected /\ control' = "gone"
  /\ UNCHANGED <<server, client, inbox, subscriptions, streaming, sender>>

\* Three mutants: the flag is not set; every request starts a stream; the
\* stream takes the subscriptions along as they were before the request.
ReadRequestUnmarked ==
  /\ control = "loop"
  /\ inbox # <<>>
  /\ inbox' = Tail(inbox)
  /\ subscriptions' = Merged(subscriptions, Head(inbox))
  /\ IF ~ streaming /\ DOMAIN subscriptions' # {}
     THEN /\ stream' = "running"
          /\ chanToSub' \in Reversals(subscriptions')
     ELSE UNCHANGED <<stream, chanToSub>>
  /\ UNCHANGED <<server, client, control, streaming, next, frames>>

ReadRequestRestarts ==
  /\ control = "loop"
  /\ inbox # <<>>
  /\ inbox' = Tail(inbox)
  /\ subscriptions' = Merged(subscriptions, Head(inbox))
  /\ IF DOMAIN subscriptions' # {}
     THEN /\ streaming' = TRUE
          /\ stream' = "running"
          /\ chanToSub' \in Reversals(subscriptions')
          /\ next' = 1
     ELSE UNCHANGED <<streaming, stream, chanToSub, next>>
  /\ UNCHANGED <<server, client, control, frames>>

ReadRequestStale ==
  /\ control = "loop"
  /\ inbox # <<>>
  /\ inbox' = Tail(inbox)
  /\ subscriptions' = Merged(subscriptions, Head(inbox))
  /\ IF ~ streaming /\ DOMAIN subscriptions' # {}
     THEN /\ streaming' = TRUE
          /\ stream' = "running"
          /\ chanToSub' \in Reversals(subscriptions)
     ELSE UNCHANGED <<streaming, stream, chanToSub>>
  /\ UNCHANGED <<server, client, control, next, frames>>

\* The subscriptions of a request are added; the first to leave any starts
\* the stream with a copy of them.
ReadRequest ==
  /\ control = "loop"
  /\ inbox # <<>>
  /\ inbox' = Tail(inbox)
  /\ subscriptions' = Merged(subscriptions, Head(inbox))
  /\ IF ~ streaming /\ DOMAIN subscriptions' # {}
     THEN /\ streaming' = TRUE
          /\ stream' = "running"
          /\ chanToSub' \in Reversals(subscriptions')
     ELSE UNCHANGED <<streaming, stream, chanToSub>>
  /\ UNCHANGED <<server, client, control, next, frames>>

\* The connection is lost: the handler returns.  Requests sent before that
\* may have been read or not.
ReadFails ==
  /\ control = "loop"
  /\ ~ connected
  /\ control' = "gone"
  /\ UNCHANGED <<server, client, inbox, subscriptions, streaming, sender>>

-----------------------------------------------------------------------------
(* The stream.                                                             *)

Message == playlist[next]

PassOver ==
  /\ stream = "running"
  /\ next <= Len(playlist)
  /\ Message.channel \notin DOMAIN chanToSub
  /\ next' = next + 1
  /\ UNCHANGED <<server, client, loop, chanToSub, stream, frames>>

\* A mutant: the frame carries the channel in place of the subscription.
SendFrameOfChannel ==
  /\ stream = "running"
  /\ next <= Len(playlist)
  /\ Message.channel \in DOMAIN chanToSub
  /\ \/ /\ next' = next + 1
        /\ frames' = IF connected
                     THEN Append(frames, <<Message.channel, Message>>)
                     ELSE frames
        /\ UNCHANGED stream
     \/ /\ ~ connected
        /\ stream' = "cut"
        /\ UNCHANGED <<next, frames>>
  /\ UNCHANGED <<server, client, loop, chanToSub>>

\* A frame to a client that has left may still be accepted; otherwise the
\* failed write ends the stream.
SendFrame ==
  /\ stream = "running"
  /\ next <= Len(playlist)
  /\ Message.channel \in DOMAIN chanToSub
  /\ \/ /\ next' = next + 1
        /\ frames' = IF connected
                     THEN Append(frames, <<chanToSub[Message.channel], Message>>)
                     ELSE frames
        /\ UNCHANGED stream
     \/ /\ ~ connected
        /\ stream' = "cut"
        /\ UNCHANGED <<next, frames>>
  /\ UNCHANGED <<server, client, loop, chanToSub>>

\* A chunk that the streaming bridge cannot have ends its stream; the error
\* is dropped and the client is not told.
Cut ==
  /\ bridge = "streaming"
  /\ stream = "running"
  /\ next <= Len(playlist)
  /\ stream' = "cut"
  /\ UNCHANGED <<server, client, loop, chanToSub, next, frames>>

Complete ==
  /\ stream = "running"
  /\ next > Len(playlist)
  /\ stream' = "complete"
  /\ UNCHANGED <<server, client, loop, chanToSub, next, frames>>

ClientStep == (\E request \in Requests : Ask(request)) \/ Leave
LoopStep == Greet \/ ReadRequest \/ ReadFails
StreamStep == PassOver \/ SendFrame \/ Complete

\* The end of the process: the socket is closed, both goroutines are gone.
Disconnect ==
  /\ connected' = FALSE
  /\ control' = "gone"
  /\ stream' = IF stream = "running" THEN "cut" ELSE stream
  /\ UNCHANGED <<server, asked, inbox, subscriptions, streaming, chanToSub,
                 next, frames>>

-----------------------------------------------------------------------------
(* Properties.                                                             *)

\* The state is well formed: a stream exists once one was started, and what
\* it took along is the reverse of subscriptions the loop has made
\* (bridge.go:310-316).
SessionTypeOK ==
  /\ control \in {"info", "advertise", "loop", "gone"}
  /\ stream \in {"none", "running", "complete", "cut"}
  /\ streaming <=> stream # "none"
  /\ next \in 1..(Len(playlist) + 1)
  /\ Len(frames) < next
  /\ \A c \in DOMAIN chanToSub : chanToSub[c] \in DOMAIN subscriptions

\* A frame carries a subscription that the client asked for, and a message of
\* the channel it asked for under it, however its requests and the stream
\* overtake each other (bridge.go:354-371).
FramesAsAsked ==
  \A i \in DOMAIN frames : \E k \in DOMAIN asked :
    /\ frames[i][1] \in DOMAIN asked[k]
    /\ asked[k][frames[i][1]] = frames[i][2].channel

\* However often a client subscribes, no message reaches it twice, and with
\* either bridge the messages come in the order of the file (bridge.go:309).
\* That is the order of log times, which docs/foxglove.md:68 promises of the
\* batch bridge, only when the recording is in that order.
OnceInOrder ==
  \A i, j \in DOMAIN frames : i < j => frames[i][2].place < frames[j][2].place

=============================================================================

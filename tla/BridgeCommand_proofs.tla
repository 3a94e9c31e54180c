----------------------- MODULE BridgeCommand_proofs ------------------------
(***************************************************************************)
(* Proofs about BridgeCommand, for any recordings, any requests for        *)
(* channels of 16 bits and any number of them.                             *)
(*                                                                         *)
(* That frames carry what was asked for is not inductive: a frame is       *)
(* labelled from the copy that the stream took along, the copy comes from  *)
(* subscriptions, which later requests overwrite, and these from an inbox  *)
(* the client fills.  RouteInv follows a subscription all that way.        *)
(***************************************************************************)
EXTENDS BridgeCommand, TLAPS

\* A pair of subscription and channel that the client has asked for.
AskedFor(s, c) == \E k \in DOMAIN asked : s \in DOMAIN asked[k] /\ asked[k][s] = c

\* A function is a sequence, over its own elements.
IsSequence(s) == s \in Seq({s[i] : i \in DOMAIN s})

RouteInv ==
  /\ asked \in Seq(Requests)
  /\ inbox \in Seq(Requests)
  /\ \A i \in DOMAIN inbox : \E k \in DOMAIN asked : asked[k] = inbox[i]
  /\ \A s \in DOMAIN subscriptions : AskedFor(s, subscriptions[s])
  /\ \A c \in DOMAIN chanToSub : AskedFor(chanToSub[c], c)
  /\ IsSequence(frames)
  /\ \A i \in DOMAIN frames : AskedFor(frames[i][1], frames[i][2].channel)

-----------------------------------------------------------------------------
(* Sequences.                                                              *)

\* What Append does to a sequence over any set of elements.
LEMMA Appended ==
  ASSUME NEW S, NEW s \in Seq(S), NEW e
  PROVE  /\ DOMAIN Append(s, e) = DOMAIN s \cup {Len(s) + 1}
         /\ \A i \in DOMAIN s : Append(s, e)[i] = s[i]
         /\ Append(s, e)[Len(s) + 1] = e
         /\ \A T : S \subseteq T /\ e \in T => Append(s, e) \in Seq(T)
<1>1. s \in Seq(S \cup {e})
  OBVIOUS
<1>2. Append(s, e) \in Seq(S \cup {e})
  BY <1>1
<1>3. DOMAIN Append(s, e) = DOMAIN s \cup {Len(s) + 1}
  BY <1>1
<1>4. \A i \in DOMAIN s : Append(s, e)[i] = s[i]
  BY <1>1
<1>5. Append(s, e)[Len(s) + 1] = e
  BY <1>1
<1>6. \A T : S \subseteq T /\ e \in T => Append(s, e) \in Seq(T)
  BY <1>1
<1>7. QED
  BY <1>3, <1>4, <1>5, <1>6

\* A sequence that is one over its own elements stays so.
LEMMA AppendedOwn ==
  ASSUME NEW s, NEW e, IsSequence(s)
  PROVE  IsSequence(Append(s, e))
<1> DEFINE t == Append(s, e)
           S == {s[i] : i \in DOMAIN s}
<1> USE DEF IsSequence
<1>1. DOMAIN t = DOMAIN s \cup {Len(s) + 1}
  BY Appended
<1>2. \A i \in DOMAIN s : t[i] = s[i]
  BY Appended
<1>3. t[Len(s) + 1] = e
  BY Appended
<1>4. S \subseteq {t[i] : i \in DOMAIN t} /\ e \in {t[i] : i \in DOMAIN t}
  BY <1>1, <1>2, <1>3
<1>5. QED
  BY <1>4, Appended

\* What is left of a sequence when its first element is taken.
LEMMA Tailed ==
  ASSUME NEW S, NEW s \in Seq(S), s # <<>>
  PROVE  /\ 1 \in DOMAIN s /\ Head(s) = s[1]
         /\ Tail(s) \in Seq(S)
         /\ \A i \in DOMAIN Tail(s) : i + 1 \in DOMAIN s /\ Tail(s)[i] = s[i + 1]
OBVIOUS

\* Cutting a number to 16 bits leaves one that has no more as it is.
LEMMA SixteenBits == ASSUME NEW c \in Nat, c < 65536 PROVE c % 65536 = c
BY SMT

\* So a request for existing channels is stored as it is.
LEMMA SmallRequests ==
  \A request \in Requests : \A s \in DOMAIN request : request[s] % 65536 = request[s]
<1> SUFFICES ASSUME NEW request \in Requests, NEW s \in DOMAIN request
             PROVE  request[s] % 65536 = request[s]
  OBVIOUS
<1>1. request[s] \in Nat /\ request[s] < 65536
  BY RequestsAssumption DEF ChannelIds
<1>2. QED
  BY <1>1, SixteenBits

-----------------------------------------------------------------------------
(* Frames.                                                                 *)

\* Before anything is asked nothing is routed.
LEMMA InitRoute == CommandInit => RouteInv
<1> SUFFICES ASSUME CommandInit PROVE RouteInv
  OBVIOUS
<1>1. asked = <<>> /\ inbox = <<>> /\ subscriptions = <<>> /\ chanToSub = <<>> /\ frames = <<>>
  BY DEF CommandInit, Init, Empty
<1>2. (\A S : <<>> \in Seq(S)) /\ IsSequence(<<>>)
  BY DEF IsSequence
<1>3. QED
  BY <1>1, <1>2 DEF RouteInv

\* A step that touches nothing on the way of a subscription.
LEMMA RouteUntouched ==
  ASSUME RouteInv, UNCHANGED <<asked, inbox, subscriptions, chanToSub, frames>>
  PROVE  RouteInv'
BY DEF RouteInv, AskedFor

\* A new request is at the end of both what was asked and the inbox.
LEMMA AskRoute ==
  ASSUME RouteInv, NEW request \in Requests, Ask(request)
  PROVE  RouteInv'
<1> USE DEF RouteInv
<1>1. /\ asked' = Append(asked, request) /\ inbox' = Append(inbox, request)
      /\ UNCHANGED <<subscriptions, chanToSub, frames>>
  BY DEF Ask, sender
<1>2. asked' \in Seq(Requests) /\ inbox' \in Seq(Requests)
  BY <1>1
<1>3. /\ DOMAIN asked' = DOMAIN asked \cup {Len(asked) + 1}
      /\ \A k \in DOMAIN asked : asked'[k] = asked[k]
      /\ asked'[Len(asked) + 1] = request
  BY <1>1, Appended
<1>4. /\ DOMAIN inbox' = DOMAIN inbox \cup {Len(inbox) + 1}
      /\ \A i \in DOMAIN inbox : inbox'[i] = inbox[i]
      /\ inbox'[Len(inbox) + 1] = request
  BY <1>1, Appended
<1>5. \A s, c : AskedFor(s, c) => AskedFor(s, c)'
  BY <1>3 DEF AskedFor
<1>6. \A i \in DOMAIN inbox' : \E k \in DOMAIN asked' : asked'[k] = inbox'[i]
  BY <1>3, <1>4
<1>7. QED
  BY <1>1, <1>2, <1>5, <1>6

\* Subscriptions, and the copy of the stream, come from the request read.
LEMMA ReadRoute ==
  ASSUME RouteInv, ReadRequest
  PROVE  RouteInv'
<1> USE DEF RouteInv
<1> DEFINE request == Head(inbox)
<1>1. /\ inbox # <<>> /\ inbox' = Tail(inbox)
      /\ subscriptions' = Merged(subscriptions, request)
      /\ chanToSub' \in Reversals(subscriptions') \/ chanToSub' = chanToSub
      /\ UNCHANGED <<asked, frames>>
  BY DEF ReadRequest, client
<1>2. \A s, c : AskedFor(s, c)' <=> AskedFor(s, c)
  BY <1>1 DEF AskedFor
<1>3. /\ 1 \in DOMAIN inbox /\ request = inbox[1]
      /\ inbox' \in Seq(Requests)
      /\ \A i \in DOMAIN inbox' : i + 1 \in DOMAIN inbox /\ inbox'[i] = inbox[i + 1]
  BY <1>1, Tailed
<1>4. \A i \in DOMAIN inbox' : \E k \in DOMAIN asked' : asked'[k] = inbox'[i]
  BY <1>1, <1>3
<1>5. PICK k \in DOMAIN asked : asked[k] = request
  BY <1>3
<1>6. request \in Requests
  BY <1>5
<1>7. \A s \in DOMAIN request : request[s] % 65536 = request[s]
  BY <1>6, SmallRequests
<1>8. \A s \in DOMAIN subscriptions' : AskedFor(s, subscriptions'[s])
  <2> SUFFICES ASSUME NEW s \in DOMAIN subscriptions'
               PROVE  AskedFor(s, subscriptions'[s])
    OBVIOUS
  <2>1. CASE s \in DOMAIN request
    <3>1. subscriptions'[s] = request[s]
      BY <1>1, <1>7, <2>1 DEF Merged
    <3>2. QED
      BY <1>5, <2>1, <3>1 DEF AskedFor
  <2>2. CASE s \notin DOMAIN request
    <3>1. s \in DOMAIN subscriptions /\ subscriptions'[s] = subscriptions[s]
      BY <1>1, <2>2 DEF Merged
    <3>2. QED
      BY <3>1
  <2>3. QED
    BY <2>1, <2>2
<1>9. \A c \in DOMAIN chanToSub' : AskedFor(chanToSub'[c], c)
  <2>1. CASE chanToSub' \in Reversals(subscriptions')
    <3> SUFFICES ASSUME NEW c \in DOMAIN chanToSub'
                 PROVE  AskedFor(chanToSub'[c], c)
      OBVIOUS
    <3>1. chanToSub'[c] \in DOMAIN subscriptions' /\ subscriptions'[chanToSub'[c]] = c
      BY <2>1 DEF Reversals
    <3>2. QED
      BY <1>8, <3>1
  <2>2. CASE chanToSub' = chanToSub
    BY <2>2
  <2>3. QED
    BY <1>1, <2>1, <2>2
<1>10. QED
  BY <1>1, <1>2, <1>3, <1>4, <1>8, <1>9

\* A frame is labelled from the copy.
LEMMA SendRoute ==
  ASSUME RouteInv, SendFrame
  PROVE  RouteInv'
<1> USE DEF RouteInv
<1> DEFINE frame == <<chanToSub[Message.channel], Message>>
<1>1. UNCHANGED <<asked, inbox, subscriptions, chanToSub>>
  BY DEF SendFrame, client, loop
<1>2. frames' = frames \/ frames' = Append(frames, frame)
  BY DEF SendFrame
<1>3. CASE frames' = frames
  BY <1>1, <1>3, RouteUntouched
<1>4. CASE frames' = Append(frames, frame)
  <2>1. IsSequence(frames')
    BY <1>4, AppendedOwn
  <2>2. /\ DOMAIN frames' = DOMAIN frames \cup {Len(frames) + 1}
        /\ \A i \in DOMAIN frames : frames'[i] = frames[i]
        /\ frames'[Len(frames) + 1] = frame
    BY <1>4, Appended DEF IsSequence
  <2>3. AskedFor(frame[1], frame[2].channel)
    BY DEF SendFrame
  <2>4. \A i \in DOMAIN frames' : AskedFor(frames'[i][1], frames'[i][2].channel)
    BY <2>2, <2>3
  <2>5. \A s, c : AskedFor(s, c)' <=> AskedFor(s, c)
    BY <1>1 DEF AskedFor
  <2>6. QED
    BY <1>1, <2>1, <2>4, <2>5
<1>5. QED
  BY <1>2, <1>3, <1>4

\* Every step keeps it.
LEMMA StepRoute ==
  ASSUME RouteInv, [CommandNext]_commandVars
  PROVE  RouteInv'
<1> DEFINE Same == UNCHANGED <<asked, inbox, subscriptions, chanToSub, frames>>
<1>1. Same => RouteInv'
  BY RouteUntouched
<1>2. CASE UNCHANGED commandVars
  BY <1>1, <1>2 DEF commandVars, vars
<1>3. CASE Main
  <2>1. UNCHANGED vars \/ Disconnect
    BY <1>3 DEF Main, Begin, Stat, CreateTemp, Unlink, DecryptWrites, DecryptEnds,
       ReadBack, Scan, LoadFails, Listen, ListenFails, BeginShutdown,
       ShutdownReturns, Return, MainStep
  <2>2. QED
    BY <1>1, <2>1 DEF vars, Disconnect
<1>4. CASE Cancel \/ Bar \/ CtrlZ \/ Continue \/ Join \/ HoldRequest \/ LetGo
  <2>1. UNCHANGED vars
    BY <1>4 DEF Cancel, Bar, BarStarts, TakePause, StopCatching, SuspendSelf,
       CatchAgain, BarQuits, Barring, CtrlZ, Continue, Join, HoldRequest, LetGo
  <2>2. QED
    BY <1>1, <2>1 DEF vars
<1>5. CASE Signal \/ Kill
  <2>1. UNCHANGED vars \/ Disconnect
    BY <1>5 DEF Signal, Kill
  <2>2. QED
    BY <1>1, <2>1 DEF vars, Disconnect
<1>6. CASE ClientActs
  <2>1. CASE \E request \in Requests : Ask(request)
    BY <2>1, AskRoute
  <2>2. CASE Leave
    BY <1>1, <2>2 DEF Leave, loop, sender
  <2>3. QED
    BY <1>6, <2>1, <2>2 DEF ClientActs, ClientStep
<1>7. CASE LoopRuns
  <2>1. CASE ReadRequest
    BY <2>1, ReadRoute
  <2>2. CASE Greet
    BY <1>1, <2>2 DEF Greet, client, sender
  <2>3. CASE ReadFails
    BY <1>1, <2>3 DEF ReadFails, client, sender
  <2>4. QED
    BY <1>7, <2>1, <2>2, <2>3 DEF LoopRuns, LoopStep
<1>8. CASE StreamRuns
  <2>1. CASE SendFrame
    BY <2>1, SendRoute
  <2>2. CASE PassOver
    BY <1>1, <2>2 DEF PassOver, client, loop
  <2>3. CASE Complete
    BY <1>1, <2>3 DEF Complete, client, loop
  <2>4. QED
    BY <1>8, <2>1, <2>2, <2>3 DEF StreamRuns, StreamStep
<1>9. CASE StreamCut
  BY <1>1, <1>9 DEF StreamCut, Cut, client, loop
<1>10. QED
  BY <1>2, <1>3, <1>4, <1>5, <1>6, <1>7, <1>8, <1>9 DEF CommandNext

\* Whatever the client asks for, and whenever, each frame it gets carries a
\* subscription of its own and a message of the channel it asked for under it
\* (bridge.go:354-371).
THEOREM FramesStayAsAsked == CommandSpec => []FramesAsAsked
<1>1. RouteInv /\ [CommandNext]_commandVars => RouteInv'
  BY StepRoute
<1>2. RouteInv => FramesAsAsked
  BY DEF RouteInv, FramesAsAsked, AskedFor
<1>3. QED
  BY <1>1, <1>2, InitRoute, PTL DEF CommandSpec

-----------------------------------------------------------------------------
(* The temporary file.                                                     *)

\* Where main is tells whether the file can be there.
TempInv == temp \in {"none", "left"} \/ phase \in {"unlink", "decrypt", "readback", "killed"}

\* Every step keeps that.
LEMMA StepTemp ==
  ASSUME TempInv, [CommandNext]_commandVars
  PROVE  TempInv'
<1> USE DEF TempInv
<1>1. CASE UNCHANGED commandVars
  BY <1>1 DEF commandVars, command
<1>2. CASE Main
  <2>1. CASE Begin
    BY <2>1 DEF Begin
  <2>2. CASE Stat \/ CreateTemp \/ Unlink \/ DecryptWrites \/ DecryptEnds \/ ReadBack \/ Scan
    BY <2>2 DEF Stat, CreateTemp, Unlink, DecryptWrites, DecryptEnds, ReadBack,
       Scan, MainStep, RemovedOrLeft
  <2>3. CASE LoadFails
    BY <2>3 DEF LoadFails, RemovedOrLeft
  <2>4. CASE Listen \/ ListenFails \/ BeginShutdown \/ ShutdownReturns \/ Return
    BY <2>4 DEF Listen, ListenFails, BeginShutdown, ShutdownReturns, Return, MainStep
  <2>5. QED
    BY <1>2, <2>1, <2>2, <2>3, <2>4 DEF Main
<1>3. CASE Signal \/ Kill
  BY <1>3 DEF Signal, Kill
<1>4. CASE Cancel \/ Bar \/ CtrlZ \/ Continue \/ Join \/ HoldRequest \/ LetGo
  <2>1. UNCHANGED temporary
    BY <1>4 DEF Cancel, Bar, BarStarts, TakePause, StopCatching, SuspendSelf,
       CatchAgain, BarQuits, Barring, CtrlZ, Continue, Join, HoldRequest, LetGo
  <2>2. QED
    BY <2>1 DEF temporary
<1>5. CASE ClientActs \/ LoopRuns \/ StreamRuns \/ StreamCut
  BY <1>5 DEF ClientActs, LoopRuns, StreamRuns, StreamCut, command
<1>6. QED
  BY <1>1, <1>2, <1>3, <1>4, <1>5 DEF CommandNext

\* However loading ends, no decrypted copy is left behind by a command that
\* serves or that ends by itself, but one whose removal the system refused
\* (bridge.go:119-124).
THEOREM NoPlaintextIsLeft == CommandSpec => []NoPlaintextLeft
<1>1. CommandInit => TempInv
  BY DEF CommandInit, TempInv
<1>2. TempInv /\ [CommandNext]_commandVars => TempInv'
  BY StepTemp
<1>3. TempInv => NoPlaintextLeft
  BY DEF TempInv, NoPlaintextLeft
<1>4. QED
  BY <1>1, <1>2, <1>3, PTL DEF CommandSpec

-----------------------------------------------------------------------------
(* The order of frames.  Frames are messages of the playlist, and their    *)
(* places in it grow; a message of the playlist knows its place.           *)

PlaylistInv ==
  /\ IsSequence(playlist)
  /\ \A i \in DOMAIN playlist : playlist[i].place = i

OrderInv ==
  /\ PlaylistInv
  /\ IsSequence(frames)
  /\ next \in 1..(Len(playlist) + 1)
  /\ Len(frames) < next
  /\ \A i \in DOMAIN frames : \E p \in DOMAIN playlist :
       p < next /\ frames[i][2] = playlist[p]
  /\ \A i, j \in DOMAIN frames : i < j =>
       \E p, q \in DOMAIN playlist :
         p < q /\ frames[i][2] = playlist[p] /\ frames[j][2] = playlist[q]

\* A function on the numbers up to n is a sequence over its own elements.
LEMMA OwnSequence ==
  ASSUME NEW n \in Nat, NEW f, f = [i \in 1..n |-> f[i]]
  PROVE  IsSequence(f) /\ DOMAIN f = 1..n /\ Len(f) = n
<1>1. f \in [1..n -> {f[i] : i \in 1..n}] /\ DOMAIN f = 1..n
  OBVIOUS
<1>2. f \in Seq({f[i] : i \in 1..n})
  BY <1>1
<1>3. QED
  BY <1>1, <1>2 DEF IsSequence

\* The playlist holds the message of each place there.
LEMMA MessagesInOrder ==
  ASSUME NEW recording \in Recordings
  PROVE  /\ IsSequence(Messages(recording))
         /\ \A i \in DOMAIN Messages(recording) : Messages(recording)[i].place = i
<1> DEFINE n == Len(recording)
           all == Messages(recording)
<1>1. recording \in Seq(ChannelIds)
  BY RecordingsAssumption
<1>2. n \in Nat /\ DOMAIN recording = 1..n
  BY <1>1
<1>3. /\ DOMAIN all = 1..n
      /\ \A i \in 1..n : all[i].place = i
      /\ all = [i \in 1..n |-> all[i]]
  BY <1>2 DEF Messages
<1> HIDE DEF n, all
<1>4. QED
  BY <1>2, <1>3, OwnSequence DEF all

\* Appending makes a sequence one longer.
LEMMA AppendedLen ==
  ASSUME NEW S, NEW s \in Seq(S), NEW e
  PROVE  Len(Append(s, e)) = Len(s) + 1
<1>1. s \in Seq(S \cup {e}) /\ e \in S \cup {e}
  OBVIOUS
<1>2. QED
  BY <1>1

\* Nothing is sent in the beginning.
LEMMA InitOrder == CommandInit => OrderInv
<1> SUFFICES ASSUME CommandInit PROVE OrderInv
  OBVIOUS
<1>1. /\ frames = <<>> /\ next = 1
      /\ \E recording \in Recordings : playlist = Messages(recording)
  BY DEF CommandInit, Init
<1>2. PlaylistInv
  BY <1>1, MessagesInOrder DEF PlaylistInv
<1>3. Len(playlist) \in Nat
  BY <1>2 DEF PlaylistInv, IsSequence
<1>4. IsSequence(<<>>) /\ Len(<<>>) = 0 /\ DOMAIN <<>> = {}
  BY DEF IsSequence
<1>5. QED
  BY <1>1, <1>2, <1>3, <1>4 DEF OrderInv

\* A step that neither serves nor passes over a message.
LEMMA OrderUntouched ==
  ASSUME OrderInv, UNCHANGED <<playlist, next, frames>>
  PROVE  OrderInv'
BY DEF OrderInv, PlaylistInv

\* The stream goes on to the next message, with or without a frame.
LEMMA OrderAdvance ==
  ASSUME OrderInv, UNCHANGED playlist, next <= Len(playlist), next' = next + 1,
         frames' = frames \/ \E s : frames' = Append(frames, <<s, Message>>)
  PROVE  OrderInv'
<1>1. /\ PlaylistInv /\ IsSequence(frames)
      /\ next \in 1..(Len(playlist) + 1)
      /\ Len(frames) < next
  BY DEF OrderInv
<1>2. Len(playlist) \in Nat /\ DOMAIN playlist = 1..Len(playlist)
  BY <1>1 DEF PlaylistInv, IsSequence
<1>3. Len(frames) \in Nat /\ DOMAIN frames = 1..Len(frames)
  BY <1>1 DEF IsSequence
<1>4. PlaylistInv' /\ next' \in 1..(Len(playlist') + 1) /\ next \in DOMAIN playlist
  BY <1>1, <1>2 DEF PlaylistInv
<1>5. \A p \in DOMAIN playlist : p < next => p < next'
  BY <1>2, <1>4
<1>6. CASE frames' = frames
  <2>1. Len(frames') < next'
    BY <1>1, <1>3, <1>6
  <2>2. \A i \in DOMAIN frames' : \E p \in DOMAIN playlist' :
          p < next' /\ frames'[i][2] = playlist'[p]
    BY <1>5, <1>6 DEF OrderInv
  <2>3. QED
    BY <1>1, <1>4, <1>6, <2>1, <2>2 DEF OrderInv
<1>7. ASSUME NEW s, frames' = Append(frames, <<s, Message>>) PROVE OrderInv'
  <2> DEFINE n == Len(frames)
  <2>1. IsSequence(frames')
    BY <1>1, <1>7, AppendedOwn
  <2>2. /\ DOMAIN frames' = DOMAIN frames \cup {n + 1}
        /\ \A i \in DOMAIN frames : frames'[i] = frames[i]
        /\ frames'[n + 1] = <<s, Message>>
    BY <1>1, <1>7, Appended DEF IsSequence
  <2>3. DOMAIN frames' = 1..Len(frames') /\ Len(frames') \in Nat
    BY <2>1 DEF IsSequence
  <2>4. Len(frames') = n + 1
    BY <1>1, <1>7, AppendedLen DEF IsSequence
  <2>5. Len(frames') < next'
    BY <1>1, <1>3, <2>4
  <2> HIDE DEF n
  <2>6. frames'[n + 1][2] = playlist[next]
    BY <2>2 DEF Message
  <2>7. ASSUME NEW i \in DOMAIN frames'
        PROVE  \E p \in DOMAIN playlist : p < next' /\ frames'[i][2] = playlist[p]
    <3>1. CASE i \in DOMAIN frames
      BY <1>5, <2>2, <3>1 DEF OrderInv
    <3>2. CASE i = n + 1
      <4>1. next < next'
        BY <1>2, <1>4
      <4>2. QED
        BY <1>4, <2>6, <3>2, <4>1
    <3>3. QED
      BY <2>2, <3>1, <3>2
  <2>8. ASSUME NEW i \in DOMAIN frames', NEW j \in DOMAIN frames', i < j
        PROVE  \E p, q \in DOMAIN playlist :
                 p < q /\ frames'[i][2] = playlist[p] /\ frames'[j][2] = playlist[q]
    <3>1. CASE j \in DOMAIN frames
      <4>1. i \in DOMAIN frames
        BY <1>3, <2>2, <2>8, <3>1 DEF n
      <4>2. frames'[i] = frames[i] /\ frames'[j] = frames[j]
        BY <2>2, <3>1, <4>1
      <4>3. QED
        BY <2>8, <3>1, <4>1, <4>2 DEF OrderInv
    <3>2. CASE j = n + 1
      <4>1. i \in DOMAIN frames /\ frames'[i] = frames[i]
        BY <1>3, <2>2, <2>8, <3>2 DEF n
      <4>2. PICK p \in DOMAIN playlist : p < next /\ frames[i][2] = playlist[p]
        BY <4>1 DEF OrderInv
      <4>3. QED
        BY <1>4, <2>6, <3>2, <4>1, <4>2
    <3>3. QED
      BY <2>2, <3>1, <3>2
  <2>9. QED
    BY <1>4, <2>1, <2>5, <2>7, <2>8 DEF OrderInv
<1>8. QED
  BY <1>6, <1>7

\* Every step keeps it.
LEMMA StepOrder ==
  ASSUME OrderInv, [CommandNext]_commandVars
  PROVE  OrderInv'
<1>1. UNCHANGED <<playlist, next, frames>> => OrderInv'
  BY OrderUntouched
<1>2. CASE UNCHANGED commandVars
  BY <1>1, <1>2 DEF commandVars, vars
<1>3. CASE Main
  <2>1. UNCHANGED vars \/ Disconnect
    BY <1>3 DEF Main, Begin, Stat, CreateTemp, Unlink, DecryptWrites, DecryptEnds,
       ReadBack, Scan, LoadFails, Listen, ListenFails, BeginShutdown,
       ShutdownReturns, Return, MainStep
  <2>2. QED
    BY <1>1, <2>1 DEF vars, Disconnect, server
<1>4. CASE Cancel \/ Bar \/ CtrlZ \/ Continue \/ Join \/ HoldRequest \/ LetGo
  <2>1. UNCHANGED vars
    BY <1>4 DEF Cancel, Bar, BarStarts, TakePause, StopCatching, SuspendSelf,
       CatchAgain, BarQuits, Barring, CtrlZ, Continue, Join, HoldRequest, LetGo
  <2>2. QED
    BY <1>1, <2>1 DEF vars
<1>5. CASE Signal \/ Kill
  <2>1. UNCHANGED vars \/ Disconnect
    BY <1>5 DEF Signal, Kill
  <2>2. QED
    BY <1>1, <2>1 DEF vars, Disconnect, server
<1>6. CASE ClientActs \/ LoopRuns \/ StreamCut
  BY <1>1, <1>6 DEF ClientActs, LoopRuns, StreamCut, ClientStep, LoopStep, Ask, Leave,
     Greet, ReadRequest, ReadFails, Cut, server, sender
<1>7. CASE StreamRuns
  <2>1. CASE SendFrame
    <3>1. /\ UNCHANGED playlist /\ next <= Len(playlist)
          /\ \/ UNCHANGED <<next, frames>>
             \/ /\ next' = next + 1
                /\ frames' = frames \/ frames' = Append(frames, <<chanToSub[Message.channel], Message>>)
      BY <2>1 DEF SendFrame, server
    <3>2. CASE UNCHANGED <<next, frames>>
      BY <1>1, <3>1, <3>2
    <3>3. CASE ~ UNCHANGED <<next, frames>>
      BY <3>1, <3>3, OrderAdvance
    <3>4. QED
      BY <3>2, <3>3
  <2>2. CASE PassOver
    BY <2>2, OrderAdvance DEF PassOver, server
  <2>3. CASE Complete
    BY <1>1, <2>3 DEF Complete, server
  <2>4. QED
    BY <1>7, <2>1, <2>2, <2>3 DEF StreamRuns, StreamStep
<1>8. QED
  BY <1>2, <1>3, <1>4, <1>5, <1>6, <1>7 DEF CommandNext

\* What the stream has sent are messages of the playlist in their order.
THEOREM OrderInvariant == CommandSpec => []OrderInv
<1>1. OrderInv /\ [CommandNext]_commandVars => OrderInv'
  BY StepOrder
<1>2. QED
  BY <1>1, InitOrder, PTL DEF CommandSpec

\* However often a client subscribes and however its requests, the stream and
\* a shutdown interleave, no message reaches it twice, and with either bridge
\* they come in the order of the file (bridge.go:309, bridge.go:360).
THEOREM FramesStayInOrder == CommandSpec => []OnceInOrder
<1>1. OrderInv => OnceInOrder
  <2> SUFFICES ASSUME OrderInv, NEW i \in DOMAIN frames, NEW j \in DOMAIN frames, i < j
               PROVE  frames[i][2].place < frames[j][2].place
    BY DEF OnceInOrder
  <2>1. PICK p \in DOMAIN playlist, q \in DOMAIN playlist :
          p < q /\ frames[i][2] = playlist[p] /\ frames[j][2] = playlist[q]
    BY DEF OrderInv
  <2>2. QED
    BY <2>1 DEF OrderInv, PlaylistInv
<1>2. QED
  BY <1>1, OrderInvariant, PTL

-----------------------------------------------------------------------------
(* Types.                                                                  *)

\* What CommandTypeOK says of the session beyond OrderInv, of the switches of
\* the process, and of its phase: the server listens only once the recording
\* is loaded.
StateInv ==
  /\ control \in {"info", "advertise", "loop", "gone"}
  /\ stream \in {"none", "running", "complete", "cut"}
  /\ streaming <=> stream # "none"
  /\ \A c \in DOMAIN chanToSub : chanToSub[c] \in DOMAIN subscriptions
  /\ asked # <<>> \/ streaming => joined

SwitchInv ==
  /\ listening \in BOOLEAN /\ joined \in BOOLEAN /\ held \in BOOLEAN
  /\ interrupt \in BOOLEAN /\ cancelled \in BOOLEAN
  /\ pause \in BOOLEAN /\ suspended \in BOOLEAN

PlaceInv ==
  /\ phase \in {"begin", "serve", "shutdown", "close"} \cup Loading \cup Over
  /\ temp \in {"none", "empty", "partial", "plain", "left"}
  /\ bar \in {"starting", "drawing", "pausing", "uncaught", "resuming", "off"}
  /\ listening \/ joined \/ held => phase \notin {"begin"} \cup Loading

\* The switches of the process stay on or off.
LEMMA StepSwitches ==
  ASSUME SwitchInv, [CommandNext]_commandVars
  PROVE  SwitchInv'
<1> USE DEF SwitchInv, serving, signals, progress
<1>1. CASE UNCHANGED commandVars
  BY <1>1, Zenon DEF commandVars, command
<1>2. CASE Main
  <2>1. CASE Begin
    BY <2>1, Zenon DEF Begin
  <2>2. CASE Stat
    BY <2>2, Zenon DEF Stat, MainStep
  <2>3. CASE CreateTemp
    BY <2>3, Zenon DEF CreateTemp, MainStep
  <2>4. CASE Unlink
    BY <2>4, Zenon DEF Unlink, MainStep
  <2>5. CASE DecryptWrites
    BY <2>5, Zenon DEF DecryptWrites, MainStep
  <2>6. CASE DecryptEnds
    BY <2>6, Zenon DEF DecryptEnds, MainStep
  <2>7. CASE ReadBack
    BY <2>7, Zenon DEF ReadBack, MainStep
  <2>8. CASE Scan
    BY <2>8, Zenon DEF Scan, MainStep
  <2>9. CASE LoadFails
    BY <2>9, Zenon DEF LoadFails
  <2>10. CASE Listen
    BY <2>10, Zenon DEF Listen, MainStep
  <2>11. CASE ListenFails
    BY <2>11, Zenon DEF ListenFails
  <2>12. CASE BeginShutdown
    BY <2>12, Zenon DEF BeginShutdown, MainStep
  <2>13. CASE ShutdownReturns
    BY <2>13, Zenon DEF ShutdownReturns, MainStep
  <2>14. CASE Return
    BY <2>14, Zenon DEF Return
  <2>15. QED
    BY <1>2, <2>1, <2>2, <2>3, <2>4, <2>5, <2>6, <2>7, <2>8, <2>9, <2>10, <2>11, <2>12, <2>13, <2>14 DEF Main
<1>3. CASE Signal
  BY <1>3, Zenon DEF Signal
<1>4. CASE Kill
  BY <1>4, Zenon DEF Kill
<1>5. CASE Cancel
  BY <1>5, Zenon DEF Cancel
<1>6. CASE Bar
  <2>1. CASE BarStarts
    BY <2>1, Zenon DEF BarStarts, Barring
  <2>2. CASE TakePause
    BY <2>2, Zenon DEF TakePause, Barring
  <2>3. CASE StopCatching
    BY <2>3, Zenon DEF StopCatching, Barring
  <2>4. CASE SuspendSelf
    BY <2>4, Zenon DEF SuspendSelf, Barring
  <2>5. CASE CatchAgain
    BY <2>5, Zenon DEF CatchAgain, Barring
  <2>6. CASE BarQuits
    BY <2>6, Zenon DEF BarQuits, Barring
  <2>7. QED
    BY <1>6, <2>1, <2>2, <2>3, <2>4, <2>5, <2>6 DEF Bar
<1>7. CASE CtrlZ
  BY <1>7, Zenon DEF CtrlZ
<1>8. CASE Continue
  BY <1>8, Zenon DEF Continue
<1>9. CASE Join
  BY <1>9, Zenon DEF Join
<1>10. CASE HoldRequest
  BY <1>10, Zenon DEF HoldRequest
<1>11. CASE LetGo
  BY <1>11, Zenon DEF LetGo
<1>12. CASE ClientActs \/ LoopRuns \/ StreamRuns \/ StreamCut
  BY <1>12, Zenon DEF ClientActs, LoopRuns, StreamRuns, StreamCut, command
<1>13. QED
  BY <1>1, <1>2, <1>3, <1>4, <1>5, <1>6, <1>7, <1>8, <1>9, <1>10, <1>11, <1>12
  DEF CommandNext

\* Those that lead from phase to phase keep the rest.
LEMMA StepPlaces ==
  ASSUME PlaceInv, [CommandNext]_commandVars
  PROVE  PlaceInv'
<1> USE DEF PlaceInv, Loading, Over, serving, signals, progress
<1>1. CASE UNCHANGED commandVars
  BY <1>1, Zenon DEF commandVars, command
<1>2. CASE Main
  <2>1. CASE Begin
    BY <2>1 DEF Begin, Runs
  <2>2. CASE Stat
    BY <2>2 DEF Stat, MainStep, Runs
  <2>3. CASE CreateTemp
    BY <2>3 DEF CreateTemp, MainStep, Runs
  <2>4. CASE Unlink
    BY <2>4 DEF Unlink, MainStep, Runs
  <2>5. CASE DecryptWrites
    BY <2>5 DEF DecryptWrites, MainStep, Runs
  <2>6. CASE DecryptEnds
    BY <2>6 DEF DecryptEnds, MainStep, Runs
  <2>7. CASE ReadBack
    BY <2>7 DEF ReadBack, MainStep, Runs, RemovedOrLeft
  <2>8. CASE Scan
    BY <2>8 DEF Scan, MainStep, Runs
  <2>9. CASE LoadFails
    BY <2>9 DEF LoadFails, Runs, RemovedOrLeft
  <2>10. CASE Listen
    BY <2>10 DEF Listen, MainStep, Runs
  <2>11. CASE ListenFails
    BY <2>11 DEF ListenFails, Runs
  <2>12. CASE BeginShutdown
    BY <2>12 DEF BeginShutdown, MainStep, Runs
  <2>13. CASE ShutdownReturns
    BY <2>13 DEF ShutdownReturns, MainStep, Runs
  <2>14. CASE Return
    BY <2>14 DEF Return, Runs
  <2>15. QED
    BY <1>2, <2>1, <2>2, <2>3, <2>4, <2>5, <2>6, <2>7, <2>8, <2>9, <2>10, <2>11, <2>12, <2>13, <2>14 DEF Main
<1>3. CASE Signal
  BY <1>3 DEF Signal
<1>4. CASE Kill
  BY <1>4 DEF Kill
<1>5. CASE Cancel
  BY <1>5 DEF Cancel, Runs, temporary
<1>6. CASE Bar
  <2>1. CASE BarStarts
    BY <2>1 DEF BarStarts, Barring, Runs, temporary
  <2>2. CASE TakePause
    BY <2>2 DEF TakePause, Barring, Runs, temporary
  <2>3. CASE StopCatching
    BY <2>3 DEF StopCatching, Barring, Runs, temporary
  <2>4. CASE SuspendSelf
    BY <2>4 DEF SuspendSelf, Barring, Runs, temporary
  <2>5. CASE CatchAgain
    BY <2>5 DEF CatchAgain, Barring, Runs, temporary
  <2>6. CASE BarQuits
    BY <2>6 DEF BarQuits, Barring, Runs, temporary
  <2>7. QED
    BY <1>6, <2>1, <2>2, <2>3, <2>4, <2>5, <2>6 DEF Bar
<1>7. CASE CtrlZ
  BY <1>7 DEF CtrlZ, Runs, temporary
<1>8. CASE Continue
  BY <1>8 DEF Continue, Runs, temporary
<1>9. CASE Join
  BY <1>9 DEF Join, Runs, temporary
<1>10. CASE HoldRequest
  BY <1>10 DEF HoldRequest, Runs, temporary
<1>11. CASE LetGo
  BY <1>11 DEF LetGo, Runs, temporary
<1>12. CASE ClientActs \/ LoopRuns \/ StreamRuns \/ StreamCut
  BY <1>12 DEF ClientActs, LoopRuns, StreamRuns, StreamCut, command
<1>13. QED
  BY <1>1, <1>2, <1>3, <1>4, <1>5, <1>6, <1>7, <1>8, <1>9, <1>10, <1>11, <1>12
  DEF CommandNext

\* The steps of the session keep its state well formed.
LEMMA StepState ==
  ASSUME StateInv, [CommandNext]_commandVars
  PROVE  StateInv'
<1> USE DEF StateInv
<1>1. ASSUME UNCHANGED <<vars, joined>> PROVE StateInv'
  BY <1>1 DEF vars
<1>2. ASSUME Disconnect, UNCHANGED joined PROVE StateInv'
  BY <1>2 DEF Disconnect
<1>3. CASE UNCHANGED commandVars
  BY <1>1, <1>3 DEF commandVars, command
<1>4. CASE Main
  <2>1. (UNCHANGED vars \/ Disconnect) /\ UNCHANGED joined
    BY <1>4 DEF Main, Begin, Stat, CreateTemp, Unlink, DecryptWrites, DecryptEnds,
       ReadBack, Scan, LoadFails, Listen, ListenFails, BeginShutdown,
       ShutdownReturns, Return, MainStep, serving
  <2>2. QED
    BY <1>1, <1>2, <2>1
<1>5. CASE Cancel \/ Bar \/ CtrlZ \/ Continue \/ HoldRequest \/ LetGo
  <2>1. UNCHANGED <<vars, joined>>
    BY <1>5 DEF Cancel, Bar, BarStarts, TakePause, StopCatching, SuspendSelf,
       CatchAgain, BarQuits, Barring, CtrlZ, Continue, HoldRequest, LetGo, serving
  <2>2. QED
    BY <1>1, <2>1
<1>6. CASE Signal \/ Kill
  <2>1. (UNCHANGED vars \/ Disconnect) /\ UNCHANGED joined
    BY <1>6 DEF Signal, Kill, serving
  <2>2. QED
    BY <1>1, <1>2, <2>1
<1>7. CASE Join
  BY <1>7 DEF Join, vars
<1>8. CASE ClientActs
  <2>1. joined /\ joined' = joined
    BY <1>8 DEF ClientActs, command
  <2>2. QED
    BY <1>8, <2>1 DEF ClientActs, ClientStep, Ask, Leave, server, loop, sender
<1>9. CASE LoopRuns
  <2>1. joined /\ joined' = joined
    BY <1>9 DEF LoopRuns, command
  <2>2. CASE Greet \/ ReadFails
    BY <2>1, <2>2 DEF Greet, ReadFails, client, sender
  <2>3. CASE ReadRequest
    <3>1. /\ subscriptions' = Merged(subscriptions, Head(inbox))
          /\ UNCHANGED <<control, asked>>
          /\ \/ /\ streaming' = TRUE /\ stream' = "running"
                /\ chanToSub' \in Reversals(subscriptions')
             \/ UNCHANGED <<streaming, stream, chanToSub>>
      BY <2>3 DEF ReadRequest, client
    <3>2. DOMAIN subscriptions \subseteq DOMAIN subscriptions'
      BY <3>1 DEF Merged
    <3>3. \A c \in DOMAIN chanToSub' : chanToSub'[c] \in DOMAIN subscriptions'
      <4>1. CASE chanToSub' = chanToSub
        BY <3>2, <4>1
      <4>2. CASE chanToSub' \in Reversals(subscriptions')
        BY <4>2 DEF Reversals
      <4>3. QED
        BY <3>1, <4>1, <4>2
    <3>4. QED
      BY <2>1, <3>1, <3>3
  <2>4. QED
    BY <1>9, <2>2, <2>3 DEF LoopRuns, LoopStep
<1>10. CASE StreamRuns \/ StreamCut
  <2>1. joined' = joined
    BY <1>10 DEF StreamRuns, StreamCut, command
  <2>2. UNCHANGED <<control, subscriptions, chanToSub, streaming, asked>>
    BY <1>10 DEF StreamRuns, StreamCut, StreamStep, PassOver, SendFrame, Complete, Cut, client, loop
  <2>3. stream' # stream => stream = "running" /\ stream' \in {"cut", "complete"}
    BY <1>10 DEF StreamRuns, StreamCut, StreamStep, PassOver, SendFrame, Complete, Cut
  <2>4. QED
    BY <2>1, <2>2, <2>3
<1>11. QED
  BY <1>3, <1>4, <1>5, <1>6, <1>7, <1>8, <1>9, <1>10 DEF CommandNext

\* The state of the process and of its session stays well formed for any
\* recordings and requests, and nobody is served before the recording is
\* loaded (bridge.go:209-229).
THEOREM CommandStaysWellFormed == CommandSpec => []CommandTypeOK
<1>1. CommandInit => StateInv /\ SwitchInv /\ PlaceInv
  <2> SUFFICES ASSUME CommandInit PROVE StateInv /\ SwitchInv /\ PlaceInv
    OBVIOUS
  <2>1. SwitchInv
    BY Zenon DEF CommandInit, SwitchInv
  <2>2. PlaceInv
    BY DEF CommandInit, PlaceInv, Loading, Over
  <2>3. DOMAIN chanToSub = {}
    BY DEF CommandInit, Init, Empty
  <2>4. StateInv
    BY <2>3 DEF CommandInit, Init, StateInv
  <2>5. QED
    BY <2>1, <2>2, <2>4
<1>2. StateInv /\ [CommandNext]_commandVars => StateInv'
  BY StepState
<1>3. SwitchInv /\ [CommandNext]_commandVars => SwitchInv'
  BY StepSwitches
<1>4. PlaceInv /\ [CommandNext]_commandVars => PlaceInv'
  BY StepPlaces
<1>5. OrderInv /\ StateInv /\ SwitchInv /\ PlaceInv => CommandTypeOK
  <2> SUFFICES ASSUME OrderInv, StateInv, SwitchInv, PlaceInv PROVE CommandTypeOK
    OBVIOUS
  <2>1. SessionTypeOK
    BY Zenon DEF OrderInv, StateInv, SessionTypeOK
  <2>2. {listening, joined, held, interrupt, cancelled, pause, suspended} \subseteq BOOLEAN
    BY Zenon DEF SwitchInv
  <2>3. joined \/ held => phase \notin {"begin"} \cup Loading
    BY Zenon DEF PlaceInv
  <2>4. QED
    BY <2>1, <2>2, <2>3, Zenon DEF StateInv, PlaceInv, CommandTypeOK
<1>6. QED
  BY <1>1, <1>2, <1>3, <1>4, <1>5, OrderInvariant, PTL DEF CommandSpec

=============================================================================

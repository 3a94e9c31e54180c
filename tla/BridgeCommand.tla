--------------------------- MODULE BridgeCommand ---------------------------
(***************************************************************************)
(* The bridge command as a process (main.go, runBridge): it loads the      *)
(* recording, serves it and ends on Ctrl-C.  The batch bridge decrypts     *)
(* into a temporary file, reads that back and removes it (bridge.go,       *)
(* loadBridgeStateFn); the streaming bridge scans the file.  While it      *)
(* loads, a progress bar runs that also handles Ctrl-Z (startProgress).    *)
(*                                                                         *)
(* Actors: the main goroutine, one that waits for SIGINT or SIGTERM, the   *)
(* bar, the user at the terminal, the system, and one client with the      *)
(* goroutines of its connection (BridgeSession).                           *)
(***************************************************************************)
EXTENDS BridgeSession

VARIABLES
  phase,       \* "begin"; batch: "stat", "create", "unlink", "decrypt",
               \* "readback"; streaming: "scan"; then "serve", "shutdown",
               \* "close"; and "ended", "failed" (exit code 1) or "killed"
  temp,        \* the temporary file: "none", "empty", "partial", "plain", or
               \* "left": it was to be removed for good, which failed
  listening,   \* is the server listening?
  joined,      \* has the client's connection become a WebSocket?
  held,        \* is a plain HTTP request open whose body has not arrived?
  interrupt,   \* a signal waits in the channel of main.go:602
  cancelled,   \* is the context done?
  bar,         \* "starting", "drawing", "pausing", "uncaught", "resuming", "off"
  pause,       \* a Ctrl-Z waits in the bar's channel
  suspended    \* is the process stopped?

temporary == <<phase, temp>>
serving == <<listening, joined, held>>
signals == <<interrupt, cancelled>>
progress == <<bar, pause, suspended>>
command == <<phase, temp, listening, joined, held, interrupt, cancelled, bar,
             pause, suspended>>
commandVars == <<vars, command>>

Loading == {"stat", "create", "unlink", "decrypt", "readback", "scan"}
Over == {"ended", "failed", "killed"}

CommandInit ==
  /\ Init
  /\ phase = "begin"
  /\ temp = "none"
  /\ listening = FALSE
  /\ joined = FALSE
  /\ held = FALSE
  /\ interrupt = FALSE
  /\ cancelled = FALSE
  /\ bar = "off"
  /\ pause = FALSE
  /\ suspended = FALSE

\* A stopped process takes no step.
Runs == ~ suspended /\ phase \notin Over

-----------------------------------------------------------------------------
(* The main goroutine: loading.                                            *)

\* The signals are caught and the bar is started before anything is loaded.
Begin ==
  /\ Runs
  /\ phase = "begin"
  /\ phase' = IF bridge = "batch" THEN "stat" ELSE "scan"
  /\ bar' = "starting"
  /\ UNCHANGED <<vars, temp, serving, signals, pause, suspended>>

MainStep(from, to) ==
  /\ Runs
  /\ phase = from
  /\ phase' = to
  /\ UNCHANGED <<vars, signals, progress>>

Stat == MainStep("stat", "create") /\ UNCHANGED <<temp, serving>>

\* os.Remove may fail, and its error is ignored.
RemovedOrLeft == temp' \in {"none", IF temp = "none" THEN "none" ELSE "left"}

\* The decryption is to find no file under its output path, so the empty one
\* that gave the name is removed; if that fails, decryption does.
CreateTemp ==
  /\ MainStep("create", "unlink")
  /\ temp' = "empty"
  /\ UNCHANGED serving

Unlink ==
  /\ MainStep("unlink", "decrypt")
  /\ temp' \in {"none", temp}
  /\ UNCHANGED serving

\* Decryption writes a file beside it and renames that (FileOutput).
DecryptWrites ==
  /\ MainStep("decrypt", "decrypt")
  /\ temp = "none"
  /\ temp' = "partial"
  /\ UNCHANGED serving

DecryptEnds ==
  /\ MainStep("decrypt", "readback")
  /\ temp = "partial"
  /\ temp' = "plain"
  /\ UNCHANGED serving

\* All messages are in memory; the deferred os.Remove runs.
ReadBack ==
  /\ MainStep("readback", "serve")
  /\ RemovedOrLeft
  /\ UNCHANGED serving

Scan == MainStep("scan", "serve") /\ UNCHANGED <<temp, serving>>

\* A mutant: the file is removed on success only.
LoadFailsLeavesFile ==
  /\ Runs
  /\ phase \in Loading \ {"unlink"}
  /\ phase' = "failed"
  /\ Disconnect
  /\ UNCHANGED <<temp, serving, signals, progress>>

\* Any of it may fail (of "unlink" the error is ignored); what was deferred
\* removes the file if it can, and the command ends with the error.  Nothing asks the
\* context while loading.
LoadFails ==
  /\ Runs
  /\ phase \in Loading \ {"unlink"}
  /\ phase' = "failed"
  /\ RemovedOrLeft
  /\ Disconnect
  /\ UNCHANGED <<serving, signals, progress>>

-----------------------------------------------------------------------------
(* The main goroutine: serving.                                            *)

Listen ==
  /\ MainStep("serve", "serve")
  /\ ~ listening
  /\ listening' = TRUE
  /\ UNCHANGED <<temp, joined, held>>

\* The address is taken: an error, unless the context is done by then.
ListenFails ==
  /\ Runs
  /\ phase = "serve"
  /\ ~ listening
  /\ phase' = IF cancelled THEN "ended" ELSE "failed"
  /\ Disconnect
  /\ UNCHANGED <<temp, serving, signals, progress>>

BeginShutdown ==
  /\ cancelled
  /\ MainStep("serve", "shutdown")
  /\ listening' = FALSE
  /\ UNCHANGED <<temp, joined, held>>

\* A mutant: Shutdown waits for WebSockets too.
ShutdownReturnsLast ==
  /\ ~ held
  /\ ~ (joined /\ connected)
  /\ MainStep("shutdown", "close")
  /\ UNCHANGED <<temp, serving>>

\* Shutdown(context.Background()) waits for open requests, without a limit;
\* a connection that has become a WebSocket is none of its own any more.
ShutdownReturns ==
  /\ ~ held
  /\ MainStep("shutdown", "close")
  /\ UNCHANGED <<temp, serving>>

\* main returns: the deferred Close of a streaming bridge (BridgeCache), and
\* the process is gone.
Return ==
  /\ Runs
  /\ phase = "close"
  /\ phase' = "ended"
  /\ Disconnect
  /\ UNCHANGED <<temp, serving, signals, progress>>

-----------------------------------------------------------------------------
(* Signals.                                                                *)

\* SIGINT or SIGTERM.  The channel has room for one; the default action
\* before the channel is there ends the process.
Signal ==
  /\ phase \notin Over
  /\ IF phase = "begin"
     THEN /\ phase' = "killed"
          /\ Disconnect
          /\ UNCHANGED interrupt
     ELSE /\ interrupt' = TRUE
          /\ UNCHANGED <<vars, phase>>
  /\ UNCHANGED <<temp, serving, cancelled, progress>>

\* The goroutine reads one signal and returns: later ones stay unread.
Cancel ==
  /\ Runs
  /\ interrupt
  /\ ~ cancelled
  /\ interrupt' = FALSE
  /\ cancelled' = TRUE
  /\ UNCHANGED <<vars, temporary, serving, progress>>

\* SIGKILL, SIGHUP, SIGQUIT or a crash: nothing deferred runs.
Kill ==
  /\ phase \notin Over
  /\ phase' = "killed"
  /\ Disconnect
  /\ UNCHANGED <<temp, serving, signals, progress>>

-----------------------------------------------------------------------------
(* The progress bar and Ctrl-Z.                                            *)

Barring(from, to) ==
  /\ Runs
  /\ bar = from
  /\ bar' = to
  /\ UNCHANGED <<vars, temporary, serving, signals>>

BarStarts == Barring("starting", "drawing") /\ UNCHANGED <<pause, suspended>>

\* SIGTSTP: into the bar's channel, which has room for one, while the bar
\* catches it; otherwise the default action stops the process.  Bound: not
\* once the bar is gone, when stop and fg are the system's alone.
CtrlZ ==
  /\ Runs
  /\ bar # "off"
  /\ IF bar \in {"drawing", "pausing"}
     THEN pause' = TRUE /\ UNCHANGED suspended
     ELSE suspended' = TRUE /\ UNCHANGED pause
  /\ UNCHANGED <<vars, temporary, serving, signals, bar>>

TakePause ==
  /\ pause
  /\ Barring("drawing", "pausing")
  /\ pause' = FALSE
  /\ UNCHANGED suspended

\* resetPause: signal.Stop leaves what the channel already holds.
StopCatching == Barring("pausing", "uncaught") /\ UNCHANGED <<pause, suspended>>

\* A mutant: the process sends itself the SIGTSTP that it still catches.
SuspendSelfCaught ==
  /\ Barring("uncaught", "resuming")
  /\ pause' = TRUE
  /\ UNCHANGED suspended

SuspendSelf ==
  /\ Barring("uncaught", "resuming")
  /\ suspended' = TRUE
  /\ UNCHANGED pause

CatchAgain == Barring("resuming", "drawing") /\ UNCHANGED <<pause, suspended>>

\* Loaded: the bar leaves its loop, though a Ctrl-Z may be waiting, as select
\* picks any case that is ready.
BarQuits ==
  /\ phase \notin Loading
  /\ Barring("drawing", "off")
  /\ UNCHANGED <<pause, suspended>>

\* The user types fg.
Continue ==
  /\ suspended
  /\ phase \notin Over
  /\ suspended' = FALSE
  /\ UNCHANGED <<vars, temporary, serving, signals, bar, pause>>

-----------------------------------------------------------------------------
(* Clients.                                                                *)

\* The upgrade of a connection that was accepted before the shutdown may
\* still take place.  Bound: not before the bar has gone, with which a session
\* shares nothing.
Join ==
  /\ Runs
  /\ bar = "off"
  /\ listening \/ phase = "shutdown"
  /\ ~ joined
  /\ joined' = TRUE
  /\ UNCHANGED <<vars, temporary, listening, held, signals, progress>>

HoldRequest ==
  /\ Runs
  /\ listening
  /\ ~ held
  /\ held' = TRUE
  /\ UNCHANGED <<vars, temporary, listening, joined, signals, progress>>

LetGo ==
  /\ held
  /\ phase \notin Over
  /\ held' = FALSE
  /\ UNCHANGED <<vars, temporary, listening, joined, signals, progress>>

ClientActs == joined /\ ClientStep /\ UNCHANGED command
LoopRuns == joined /\ Runs /\ LoopStep /\ UNCHANGED command
StreamRuns == Runs /\ StreamStep /\ UNCHANGED command
StreamCut == Runs /\ Cut /\ UNCHANGED command

-----------------------------------------------------------------------------

Main ==
  \/ Begin \/ Stat \/ CreateTemp \/ Unlink \/ DecryptWrites \/ DecryptEnds
  \/ ReadBack \/ Scan \/ LoadFails
  \/ Listen \/ ListenFails \/ BeginShutdown \/ ShutdownReturns \/ Return

Bar ==
  \/ BarStarts \/ TakePause \/ StopCatching \/ SuspendSelf \/ CatchAgain
  \/ BarQuits

CommandNext ==
  \/ Main \/ Cancel \/ Bar
  \/ Signal \/ Kill \/ CtrlZ \/ Continue
  \/ Join \/ HoldRequest \/ LetGo
  \/ ClientActs \/ LoopRuns \/ StreamRuns \/ StreamCut

CommandSpec == CommandInit /\ [][CommandNext]_commandVars

\* The runtime runs every goroutine that can go on, and a select that is
\* entered again and again takes every case that stays ready.  Loading may
\* take for ever, no chunk has to fail, and nothing is asked of the user, the
\* client or the system.
FairSpec ==
  /\ CommandSpec
  /\ WF_commandVars(Listen \/ ListenFails)
  /\ WF_commandVars(BeginShutdown \/ ShutdownReturns \/ Return)
  /\ WF_commandVars(Cancel)
  /\ WF_commandVars(BarStarts \/ StopCatching \/ SuspendSelf \/ CatchAgain)
  /\ WF_commandVars(TakePause)
  /\ WF_commandVars(LoopRuns)
  /\ WF_commandVars(StreamRuns)

-----------------------------------------------------------------------------
(* Properties.                                                             *)

\* The state of process and session is well formed; the session begins when
\* the client has joined, and nobody joins before the server listens
\* (bridge.go:209-229).
CommandTypeOK ==
  /\ SessionTypeOK
  /\ phase \in {"begin", "serve", "shutdown", "close"} \cup Loading \cup Over
  /\ temp \in {"none", "empty", "partial", "plain", "left"}
  /\ {listening, joined, held, interrupt, cancelled, pause, suspended} \subseteq BOOLEAN
  /\ bar \in {"starting", "drawing", "pausing", "uncaught", "resuming", "off"}
  /\ asked # <<>> \/ streaming => joined
  /\ joined \/ held => phase \notin {"begin"} \cup Loading

\* Once a client can join, and when the command has ended by itself, whether
\* loading succeeded, failed or was interrupted, no decrypted copy of the
\* recording is left in the directory for temporary files (bridge.go:119-124),
\* unless the system refused to remove it, of which the command says nothing.
\* Only a process that is killed leaves one that it did not try to remove.
NoPlaintextLeft ==
  phase \in {"serve", "shutdown", "close", "ended", "failed"} => temp \in {"none", "left"}

\* "Press Ctrl-C to stop" (docs/foxglove.md:68): once the recording is loaded
\* a signal, even one sent before that, ends the process, whatever clients
\* with a WebSocket do; only a plain request that stays open, or Ctrl-Z, can
\* hold it up (bridge.go:223-228, main.go:602-609).
SignalStopsBridge ==
  phase = "serve" /\ (interrupt \/ cancelled)
    ~> phase \in Over \/ []held \/ []<>suspended

\* "Press Ctrl-Z to pause mid-operation" (README.md:190): a Ctrl-Z while the
\* bridge loads stops the process, also the next one after fg, and also one
\* that arrives while an earlier one is handled (main.go:265-280).
CtrlZSuspends ==
  pause /\ phase \in Loading ~> suspended \/ phase \notin Loading

FirstRequest == IF asked = <<>> THEN Empty ELSE asked[1]

\* Every message of a channel has been sent.
Served(channel) ==
  \A i \in DOMAIN playlist : playlist[i].channel = channel =>
    \E k \in DOMAIN frames : frames[k][2] = playlist[i]

\* A client that subscribes and stays gets every message of every channel of
\* its first subscription, unless a chunk fails it or the process ends
\* (bridge.go:309-372).
SubscriberIsServed ==
  FirstRequest # Empty
    ~> \/ \A c \in Channels(FirstRequest) : Served(c)
       \/ ~ connected
       \/ stream = "cut"

=============================================================================

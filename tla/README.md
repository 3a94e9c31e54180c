# TLA+ models of mcap-encrypt

`mcap-encrypt` encrypts MCAP recordings chunk by chunk, re-wraps their key for
other recipients, decrypts them, and serves them to Foxglove Studio over a
WebSocket without a decrypted file. This directory holds TLA+ modules for the
parts of it whose correctness depends on order: of goroutines, of records in a
file, of system calls, of failures. TLC checks them on small instances; TLAPS
proves what matters most for every value of the constants.

Paths are relative to the repository root; Go files without a directory are in
`pkg/mcapencrypt/`.

## The system

| Component | State | Operations | Who it talks to |
|---|---|---|---|
| Encryption (`encrypt.go`) | position in the input, definitions collected by pass 1, "flushed" flag, chunk counter and offsets, output | `encryptCore` (files), `streamEncryptSinglePass` (pipes), attachment callback of the lexer | reads an MCAP, writes an encrypted one |
| Decryption (`decrypt.go`, `decrypt_kms.go`) | key of the first slot that opened, buffers for definitions, attachments and metadata, chunk counter, manifest, writer | `streamDecrypt`, one pass | reads an encrypted file, writes an MCAP |
| Rotation (`rotate.go`, `rotate_kms.go`) | header and data buffer, chunk offsets, key | `RotateKeys` | reads and writes encrypted files |
| Record codec (`record.go`, `chunk.go`, `attachment.go`, `metadata.go`) | none | read, write, seal, open | used by the three above |
| Keys (`key.go`, `ed25519_x25519.go`, `kms/`) | key files on disk | generate, load, wrap, unwrap | slots of encrypted files |
| Streaming bridge (`bridge_stream.go`) | chunk index, LRU cache under `cacheMu`, `sync.Map` of `sync.Once`, decrypt counter, one goroutine per subscribed client | lookup, decrypt, put and evict, stream, `Close` | file on disk, WebSocket clients |
| Batch bridge (`bridge.go`) | all messages in memory, per connection a control loop and a stream | load, advertise, subscribe, stream | the same clients |
| CLI (`cmd/mcap-encrypt/main.go`) | output path, temporary file, `--force` | `encrypt`, `decrypt`, `rotate`, `keygen`, `inspect`, `bridge` | files on disk, other commands running at the same time |
| Bridge command (`main.go:577`, `bridge.go:105`) | phase of the main goroutine, decrypted temporary file, signal channel and context, progress bar | load, listen, shut down, Ctrl-C, Ctrl-Z | one of the bridges, its clients, the terminal |
| Inspection (`inspect.go` and its likes) | none | one pass over the records | reads an encrypted file |
| Python and TypeScript packages (`py/src`, `ts/src`) | none outside a call | encrypt, rotate, decrypt, iterate over messages, each on a whole byte string | files of each other and of the Go programs |

What makes each one correct, and what is hard about it:

* **Streaming bridge.** Goroutines share a cache through three critical
  sections and a `sync.Once` per chunk. The map and the list of the LRU must
  agree, stay within capacity and hold the right bytes; nobody may wait for a
  decryption nobody is doing; a client must get the chunks of its range, in
  order, once each, whatever other clients and `Close` do. At its start the
  bridge accepts a file it has not decrypted; what it streams later must still
  be the recording.
* **Sessions.** A control loop goes on reading requests while the stream it has
  started runs with a copy of the subscriptions; the client may leave whenever
  it likes. A client must get what it subscribed to and nothing twice.
* **Bridge command.** The batch bridge has the recording decrypted in a
  temporary file while it loads, and anything may fail or interrupt it there;
  signals arrive in any phase, in channels that hold one; the progress bar
  gives its Ctrl-Z handler up and takes it back. Ctrl-C must end the command,
  Ctrl-Z must stop it and fg must take it further, and no decrypted file may
  stay behind.
* **Encryption.** The output must be readable by a program that reads once
  from the front: definitions and key slots ahead of everything encrypted,
  although what comes first in the input differs from file to file and
  attachments arrive through a callback. Offsets noted on the way end up in an
  index; the manifest is written as a placeholder and patched. The input is
  opened by its path three times and may be another file each time.
* **Rotation.** Records travel in two buffers and change places with each
  other; nothing encrypted may be lost, the old slots must go, and positions
  must be recomputed.
* **Decryption.** Output is written long before anything is known about the
  rest of the file. A file that lost, repeated or exchanged records must be
  refused, and nothing but a beginning of the recording may have been written
  by then.
* **CLI.** Any system call may fail, any process may die, and two commands may
  be given the same path. No path may name half a file and no temporary file
  may stay behind.
* **Key generation.** Two files, written one after the other.
* **Python and TypeScript packages.** Nothing runs side by side there; what is
  hard is that three implementations have to agree on files that each of them
  lays out in its own way, after any chain of encryption and rotations.

`PROJECT.json` lists the hazards at their lines with the properties that cover
them.

## Modules

| Module | Stands for | EXTENDS / INSTANCEs |
|---|---|---|
| `BridgeCache` | cache and streams of the streaming bridge | `ChunkStreams` (as its abstract specification) |
| `ChunkStreams` | what a bridge promises each client about chunks | |
| `BridgeSession` | one WebSocket connection of either bridge | |
| `BridgeCommand` | `runBridge`: loading, serving, signals, progress bar, and one connection | `BridgeSession` |
| `McapRecords` | records, files as sequences of records, definitions, summary | |
| `Encryptor` | `encryptCore` and `streamEncryptSinglePass` | `McapRecords` |
| `Rotator` | `RotateKeys` (and `rotateKeysCore`, the same code) | `McapRecords` |
| `Decryptor` | `streamDecrypt` | `McapRecords` |
| `BridgeScan` | `scanEncryptedFile` and what the bridge streams of a file | `McapRecords` |
| `PythonTools` | `encrypt_mcap`, `rotate_mcap_keys`, `decrypt_mcap`, `iterate_messages` | `McapRecords` |
| `TypeScriptTools` | `encryptMcap`, `rotateMcapKeys`, `decryptMcap`, `iterateMessages` | `McapRecords` |
| `Inspectors` | `InspectFile`, `inspect_mcap`, `inspectMcap` | `McapRecords` |
| `Pipeline` | the life of one file through all of these, with faults in between | the seven above, `Recording` |
| `Recording` | what the whole promises its user | |
| `FileOutput` | CLI commands side by side, system call by system call | |
| `KeyFiles` | `GenerateKeyPair`, `GenerateX25519KeyPair` | |
| `BridgeCache_proofs`, `BridgeCommand_proofs`, `FileOutput_proofs`, `KeyFiles_proofs` | theorems | the module they are about |
| `McapRecords_proofs` | lemmas about sequences of records, of which all that follow make use | `McapRecords` |
| `Encryptor_proofs` | theorems about encryption | `Encryptor`, `McapRecords_proofs` |
| `Pipeline_proofs` | theorems about the life of a file | `Pipeline`, `McapRecords_proofs` |
| `Readers_proofs` | theorems about what the readers of a file make of it | `Pipeline_proofs` |
| `MCBridgeCache`, `MCPipeline`, `MCFileOutput` | instances for TLC | the module they instantiate |
| `MCBridgeSession` | instances for TLC | `BridgeCommand` |

Some definitions are followed or preceded by another marked "A mutant": the
same definition with a plausible mistake. They are not used by any
specification. Substituting one for the definition it varies must make TLC
report the property `PROJECT.json` names for it, which shows that the property
can fail.

### BridgeCache

State: per goroutine a program counter, the chunk it works on, the `Once` it
holds and the captured `result` and `decErr`; the cache's key set and recency
list; the `decryptOnce` map; the state of every `Once`; the progress of
`Close`. One action is one critical section (`LookupHit`, `CachePut`,
`RecheckHit`, ...), one operation on the `sync.Map` (`LoadOnce`, `StoreOnce`,
`ForgetOnce`), the entry to or exit from `once.Do` (`DoRun`, `DoWait`,
`LeaveOnce`), or one step of the decryption outside any lock (`ReadChunk`,
`OpenChunk`), so that every interleaving of them is a behaviour. A stream also
ends when its client hangs up (`SendFails`), and `Close` runs in its three
steps at any time. Identities of `Once` objects are reused when nothing refers
to them, as Go's allocator may.

### BridgeSession

The two handlers (`serveWSClient`, `serveWSStreamingClient`) are the same code
twice; `bridge` says which one a behaviour is about. Both serve messages in the
order of the file (`Messages`): the streaming bridge scans it, and the batch bridge
calls `reader.Messages` without an order (`bridge.go:174`), whose default in the
MCAP library is that of the file, and never sorts. A message is known by its place
in the file. `Greet` sends the server information and the channels. `ReadRequest` is one turn of the control loop: it merges new
subscriptions into the map and starts the stream, once, with a copy.
`PassOver` and `SendFrame` are one turn of the stream, for a message nobody or
somebody subscribed to; `Cut` is what an error of the chunk cache or of the
connection does to it. `Ask` and `Leave` are the client's. The module has the
steps of a connection and what is to be true of it; the specification is that
of `BridgeCommand`, in which the process may end at any of them
(`Disconnect`).

### BridgeCommand

`phase` is where the main goroutine is. For the batch bridge that is
`loadBridgeStateFn` call by call: `Stat`, `CreateTemp`, `Unlink` (the
decryption wants no file under its output path), `DecryptWrites`,
`DecryptEnds`, `ReadBack` with the deferred removal; for the streaming bridge it
is `Scan`. Either removal may fail, and the code does not look: the file is then
`left`, or, at `Unlink`, in the way of the decryption. `LoadFails` is the error path of each of them. Then `Listen`, the
wait for the context, `Shutdown` (`ShutdownReturns`, held up by a plain request
whose body never comes: `held`) and `Return`. `Signal` is SIGINT or SIGTERM
going into a channel with room for one; `Cancel` is the goroutine that reads one
signal and returns. `Kill` runs nothing that was deferred.

The bar of `startProgress` runs while the recording is loaded. It catches
SIGTSTP into a channel with room for one (`TakePause`), stops catching it
(`StopCatching`), sends it to the process (`SuspendSelf`), and catches it again
after fg (`CatchAgain`). `suspended` stops every goroutine. When
loading is over the bar ends although a Ctrl-Z may be waiting in its channel
(`BarQuits`).

Two bounds keep independent actors apart: Ctrl-Z is pressed only while a bar
exists (afterwards stop and fg are the system's alone), and the client joins
when the bar is gone (it touches nothing of it).

### McapRecords, Encryptor, Rotator, Decryptor, Pipeline

A file is a sequence of records and the offset of a record is its position.
One action is one record of a scan together with everything the loop body does
with it, or the work behind the loop. `Pipeline` runs the three programs on one
file: `Store` is the rename of a finished file, `Interrupt` a stream that stops
anywhere, `Damage` one fault of the stored file (a record lost, repeated,
exchanged with its neighbour, replaced by that of another recording, an
attachment inserted, a slot garbled, the tail cut off between records or inside
one), `InputChanges` another recording under the name of the input between two
passes of an encryption, or an input that grows while it is read,
`BeginRotate`..`EndRotate` a rotation that replaces the file or leaves it alone.

Parts of a file are selected by position: `Sorted(at)` lists a set of positions
in ascending order and `Records` what is at each of them, so that "the chunks of
a file", "what has messages" and "what a rotation keeps" are sets to reason
about, not folds. `Recorded` is the recording of a file, its chunks in order;
`Yielding` those of them the Go programs get messages from (`Yields`): chunks that
hold some and do not declare size zero.

What the programs are given is stated as assumptions, which TLC checks for its
instances and the proofs use:

* a file is a sequence of records that begins with its header and has its data,
  messages included, ahead of DataEnd, footer and cut (`SourcesAssumption`): a file that can be read
  at all is read from the front by the lexer, and both encryptors stop at the
  footer (`encrypt.go:499`, 954), so nothing behind it is data;
* whoever has written encrypted records has written a slot ahead of them and the
  footer behind (`EncryptedSourcesAssumption`): the three encryptors and the three
  rotations lay their files out so, which `KeysComeFirst` is about;
* metadata are either left as they are or encrypted (`MetadataModesAssumption`), as
  the flag of the CLI and the options of the packages have it;
* a chunk has a sequence of definitions inside (`InnerAssumption`). Nothing is
  assumed of a chunk whose header declares size zero, which `FORMAT.md:79` lets
  mean that the size is unknown: it may hold messages, as one of the instances'
  does.

Abstractions, all of them on data:

* schemas and channels are treated alike by the code and are one kind, `def`;
* the symmetric key and the file ID are drawn together and every seal and HMAC
  depends on both: one `key` stands for the pair;
* a seal opens exactly when key and chunk index are the ones it was made with;
  a slot opens with its recipient's key only;
* `encrypt` and `encrypt-all` metadata modes differ in what the record's name
  reveals, which no property is about: one value;
* chunk bodies are opaque, with the definitions inside (`Inner`), those their
  messages need (`Uses`), and whether their declared size is zero
  (`ZeroSize`); a chunk is decrypted as a whole or not at all;
* a slot has a version: the present one, which demands a manifest, that of
  earlier releases, which does not (`LegacyEncrypted` is a file of theirs), or
  one that no program decodes (`Malformed`), which every reader passes over.
  That a slot of the present version becomes one of the earlier is not among
  the faults;
* the private keys of the recipients in `KmsHeld` are behind a remote service,
  and any call of it may fail; to the code that is a slot that does not open;
* other records that do not decode, and errors of single reads and writes
  inside a codec, are left out: the first end in error paths that are modelled,
  the last are in `FileOutput`.

### BridgeScan, PythonTools, TypeScriptTools

These programs keep no state that another actor could see while they work: the
scan of the bridge runs before the first client, and each Python or TypeScript
program is a function of a byte string. They are operators on the file: a
condition under which nothing is raised (`ScanAccepts`, `PyDecrypts`,
`TsRotates`, ...) and the file or content that comes out (`Streamed`,
`PyEncrypted`, `TsDecrypted`, ...). In `Pipeline`, `EncryptElsewhere` and
`RotateElsewhere` put the file of another package in the place of that of a Go
program, so that every chain of encryption and rotations by the three packages
is a behaviour; the readers are compared with the Go decryption on every file
that reaches it.

Where the packages differ, the modules do: Python collects definitions from
anywhere but from inside of chunks, writes the manifest ahead of the data, takes
a torn record for the end of the file and has no default branch in its rotation;
TypeScript writes the definitions it has met by the first record it encrypts,
writes the manifest ahead of DataEnd and no summary, decrypts metadata only
behind the key, and forgets what precedes a header.

### Inspectors

The three inspect programs count records and list slots without opening
anything, in one walk each that ends in another place: Go goes on to the trailing
magic, the others stop at the footer, and they differ in what they make of a
record cut short. `Listing` is what all of them make of the records walked over.

The MCAP lexer is external. What the code relies on is modelled: a clean end of
input between records is an end of file, a record cut short is an error, and
unknown opcodes are skipped.

### FileOutput

State: what each path names (`disk`), the temporary file of each run, its
program counter and how it ended. Actions are the calls other processes can
observe: `CliStat`, `ForceRemove`, `LibStat`, `OpenInput`, `CreateTemp`,
`WriteTemp`, `CloseTemp`, `Rename`, the deferred `RemoveTemp` and the command's
`RemoveOutput`; `Crash` may happen at any of them. Each but `os.Stat` may fail, the
removals too, whose error the code ignores (`decrypt.go:145`, `encrypt.go:386`,
`rotate.go:495`, `main.go:361`, 384, ...): the command goes on beside the file, and
`kept` notes for the properties that its removal was tried. The five
file wrappers of the library (`encryptCore`, `Decrypt`, `DecryptFileWithKMS`,
`RotateKeyFile`, `RotateKeyFileWithKMS`) have one and the same sequence of
calls, which the model has once. Durability across a power loss (nothing calls
fsync) is not modelled.

### KeyFiles

Two stat calls, then create-or-truncate and write of the private and of the
public key, any of which but the stat calls may fail, a write also half-way. Any
number of runs interleave, over whichever key files the user had: both, one of
them (a lone `.pub.pem` is refused by `StatPub`), or none. Since nothing is locked,
runs that are under way together race; the history variable `rivals`, which no
action reads, notes who met whom, so that the properties can say exactly what
only a race can do.

## Runs

Runs that must pass:

| Run | Instance | What it shows |
|---|---|---|
| `bridge_safety` | 3 streams, 2 chunks (one empty), room for 1 | type, coherence, bound and contents of the cache; no `Once` left behind; every running `Once` has one runner. Room for one chunk makes every put evict; three streams are a runner, a waiter and a third that comes when the `Once` has been deleted |
| `bridge_streams` | 2 streams that ask for everything or for the instant at which two chunks meet, 3 chunks (the first empty, the last does not open), room for the two that open | each stream implements `ChunkStreams` and ends (liveness); none is cut off for want of cache |
| `bridge_session` | the bridge command of either kind from its start to its end, two recordings (three messages of two channels, none), up to 2 of 5 requests | frames are those asked for, once each, in the order of the file; no decrypted copy stays behind; liveness: the first subscription of a client that stays is served to its end, a signal ends the command, Ctrl-Z stops it while it loads |
| `pipeline_clean` | every order of up to 3 of 5 records, complete, and of up to 2, cut between or inside records; larger, encrypted and unchunked inputs, one with chunks of declared size zero, empty and not; both modes and metadata modes; no and two recipients, one of the new recipients with the key in a KMS; up to 2 rotations; all three packages and files of an earlier release; no fault | layout, index and contents of every output; no double encryption; round trip; all and only the last recipients read; rotation gets positions right; the bridge serves the whole recording; all three packages read every file alike, and their inspect programs say the same and the truth of it |
| `pipeline_faults` | 4 inputs (two chunks, one of two that declares size zero, two chunks cut off, an attachment and metadata without a chunk), both modes, 2 holders of keys, of whom a rotation puts one in the place of the other, up to 2 faults or changes of the input, before or after 1 rotation, files of an earlier release | `Pipeline` implements `Recording`; what any decryption has written is a beginning of the recording; the bridge shows nothing else; the other packages accept what Go accepts, and nothing that lacks a chunk |
| `files_many` | 4 commands: a chain of two, one with `--force`, and two over one output, one of them over its own input; any call may fail | reports are true; no file is touched without `--force`; no half file; a temporary file or, after an error, an old output stays only where its removal was refused |
| `keys_many` | 4 runs of keygen, side by side or in turn, over the user's two key files, one of them or none | a run replaces only what a rival made after it looked; without a rival, public keys have their private keys, and success means both files |

Two faults are the bound for a file because single faults already reach every
error path and two of them the repairs of one by another (a chunk dropped here
and repeated there). More splices from one other recording would eventually
turn a file of one or two chunks into that other recording as a whole, which is
no longer a damaged file. A rotation of a damaged file makes a new manifest for
whatever it finds; from then on (`vouched`) the promise about success is void,
that about order is not.

Four runs of keygen are the most that differ: two that race, one behind them and one
that meets only one of the two.

Two requests are enough for a session: the one that starts the stream and one
that changes the subscriptions under it; a third would come in the place of the
second.

Three records in every order are enough for the layout: what the encryptor
does with a record depends on whether the flush has happened, and the rotator's
on whether an encrypted record was seen. Each kind of record is first, and
follows and precedes every other kind.

The behaviours are finite by nature (inputs and streams end), so deadlock
checking is off where the system stops; that streams do end is `StreamsEnd`
and `SubscriberIsServed`.

Runs that must find a violation: the property is what a document or a comment of
the repository says, and TLC shows the code doing something else.

| Run | Says | Does |
|---|---|---|
| `bridge_evicted` | `README.md:214`: Studio sees no difference | the chunk is evicted before a waiter looks again, and its stream ends |
| `bridge_close` | `bridge_stream.go:82`: Close clears cached plaintext | a decryption in flight caches its plaintext afterwards |
| `pipeline_cuttail` | `FORMAT.md:257`: truncation is detected by the manifest | rotation writes a new manifest over a truncated file |
| `interop_compat` | `docs/api.md:149`: files of any implementation are compatible with all others | TypeScript leaves out definitions that come late or lie in chunks, and Go refuses the file |
| `files_samepath` | `rotate.go:459`: input and output must differ | `--force` removes the input first |

`README.md` and `FORMAT.md` are those of the repository. The first two need
interleavings that tests do not schedule. The round-trip tests between the
packages miss `interop_compat` because the helper that makes their recordings
(`ts/test/helpers.ts`) puts every definition in front.

### Known differences

Seen while modelling and part of the modules; they are stated as carve-outs
of properties or as notes in `PROJECT.json`, not as runs:

* a waiter can delete a newer `Once`, after which a chunk is decrypted again
  (`bridge_stream.go:343`, against the comment at 315); it costs time only;
* an input without DataEnd is encrypted with success, and nobody can read the
  output (`encrypt.go:472`, `encrypt.ts:242`);
* the messages of a chunk that declares size zero, which by `FORMAT.md:79` may
  mean that the size is unknown, are dropped without a word by the Go decryption
  and the streaming bridge (`decrypt.go:414`, `bridge_stream.go:399`) and read by
  Python and TypeScript (`decrypt.py:425`, `decrypt.ts:426`): `Yields` is in
  `RoundTrip`, and `AnyToolReads` demands those chunks of the others;
* an encrypted attachment ahead of the first usable slot is skipped without an
  error by all three packages;
* two commands over one output can replace each other's file between check and
  write (`main.go:362`);
* two runs of keygen that race replace each other's keys, and may leave the public
  key of one beside the private key of the other (`key.go:153`), although
  `CHANGELOG.md:30` says that silent clobber is prevented: the condition on rivals
  in `NoClobber` and `PublicHasPrivate`, without which TLC finds both violated;
* the error of a removal is ignored everywhere: a temporary file that the system
  does not let go stays, in plain text after a decryption (`decrypt.go:145`,
  `bridge.go:126`), and with `--force` the old output stays beside a reported error
  (`main.go:361`): the exceptions of `NoTempLeft`, `NoPlaintextLeft` and
  `OutcomeIsTrue`;
* the batch bridge does not serve messages in log-time order, as
  `docs/foxglove.md:68` and the comment at `bridge.go:345` say, unless the recording
  is in that order: it asks for no order (`bridge.go:174`), and the library's
  default is that of the file. `OnceInOrder` is about the order of the file; the
  library is not in the repository, so that no run states the difference as a
  violation;
* the streaming bridge advertises each channel of a complete recording twice, and,
  like the batch bridge, serves the first subscriptions of a client only and cuts
  channel ids to 16 bits;
* the Python rotation drops encrypted metadata (`rotate.py:85`); `decryptMcap`
  leaves it out where a Go or TypeScript rotation put it ahead of the slots
  (`decrypt.ts:655`);
* `iterateMessages` of TypeScript does not look at the manifest
  (`decrypt.ts:463`), and a header in the middle of a file makes `decryptMcap`
  forget what was in front of it (`decrypt.ts:582`);
* `encrypt_mcap` drops messages outside of chunks if there are chunks as well
  (the carve-out of `RoundTrip`);
* an input replaced between the passes of `encryptCore` is encrypted as the
  recording of pass 2 under the definitions of pass 1, with success
  (`encrypt.go:310`, 321, 365), and one that has become an encrypted file since
  the check as an empty recording;
* a failed KMS call is reported as a key that matches no slot;
* a plain HTTP request that stays open keeps Ctrl-C from ending the bridge, and
  a second Ctrl-C is swallowed (`bridge.go:227`, `main.go:604`): the exception
  `[]held` of `SignalStopsBridge`;
* a signal while the bridge loads is acted upon when it has loaded;
* a Ctrl-Z that waits when the bar ends is lost (the exception of
  `CtrlZSuspends`);
* `docs/foxglove.md:80` gives the streaming bridge a limit of 5 GiB, which only
  the batch bridge checks (`bridge.go:107`).

### Fairness

Two runs check liveness. In `bridge_streams`, `FairSpec` has weak fairness of
`Step(g)` for every goroutine that has been started: the Go scheduler is
preemptive and runs every runnable goroutine, and a goroutine waiting in
`once.Do` is runnable as soon as the closure returns. Nothing is assumed of
clients (they need not subscribe, and may hang up) nor of `Close`. In
`bridge_session`, `FairSpec` has weak fairness of the steps of the main goroutine
once it serves, of the goroutine that waits for a signal, of the bar and of the
two goroutines of the connection. Loading has none: a decryption may take
arbitrarily long, so the promise about Ctrl-C begins when the recording is
loaded. The bar takes a Ctrl-Z from a `select` that is entered ten times a
second as long as it loads, and among ready cases Go chooses at random: weak
fairness of `TakePause`. Nothing is assumed of the user, of the client, of
plain requests (hence `[]held`) or of fg (hence `[]<>suspended`). That a write to
a connected client returns is what TCP keepalive and the client's reading give,
and a client that stops reading without leaving is not modelled.

## Proofs

All theorems hold for every value of the constants that satisfies the named
assumptions of the modules. TLC checks the same properties on the instances
above; a theorem is listed in `PROJECT.json` beside the property it is about.

**`BridgeCache_proofs`**, for any number of clients and chunks and any capacity.

* `CacheInvariant`: `CacheInv` conjoins types, the list invariant (coherent,
  bounded, elements hold their chunk's plaintext), where a goroutine's chunk
  index is at each program counter (`Located`) and what its captured result
  then is (`Results`). `RightRecords` alone is not inductive: what `CachePut`
  files under a chunk is what `OpenChunk` left in the closure's `result`, two
  steps earlier. `TypeCorrect`, `CacheStaysCoherent`, `CacheStaysBounded` and
  `RecordsStayRight` follow. Three lemmas about the list operations (move to
  front, replace, push and evict) carry the arithmetic.
* `OnceInvariant` strengthens the two properties of `sync.Once` objects by
  what a goroutine in flight holds; the case that matters is `ForgetOnce`
  removing an entry somebody else stored: the chunk's entry is then empty, so
  the invariant survives where `DecryptedOnce` does not. `OnceStaysHeld` and
  `RunnersStayUnique` follow.
* `StreamsKeepTheirPromise`: the bridge implements `ChunkStreams`. What a stream
  has handed over is what it wants of the chunks behind it (`HandedInv`); every
  step of one goroutine is a step of its stream or a stutter, and those of the
  cache, of the others and of `Close` are stutters. That the time test of
  `iterateMessages` admits a chunk just when the ranges share an instant needs
  that both are intervals (`SpanAssumption`, `WindowsAssumption`: an MCAP writer
  puts the first and last log time of a chunk in its header, and the one caller
  asks for everything).
* `NoStreamIsCutOff`: if the cache has room for every chunk that opens (`Room`, a
  hypothesis of the theorem; the run `bridge_evicted` shows that it is needed),
  no stream of a serving bridge ends at such a chunk. `RoomInv` says that only
  such chunks are cached and that a chunk is cached from the end of its
  decryption on; nothing is evicted because the list is shorter than the cache
  while one of them is missing (`RoomForOneMore`, by the pigeonhole principle).

**`FileOutput_proofs`**, for any number of commands over any paths.
`FileInvariant` adds `TempFollowsPc`: which temporary file a run has at each of its
calls, and that one behind `RemoveTemp` was at least to be removed. `PathsNameWholeFiles`,
`NoTempIsLeft` and `FilesStayWellFormed` follow.
`OwnOutput` is about a path only one run was given: between the run's look at it
and its end there is nothing under it, or after `--force` a file of the user's that
could not be removed; afterwards there is what the outcome says. The only call
assumed to be right is `os.Stat`.
`OutcomesAreTrue` follows, and so does the action property
`UnforcedRunsKeepFiles`: whoever renames over a file or removes one was given
`--force` or shares the path.

**`BridgeCommand_proofs`**, for any recordings, any requests for channels of 16
bits and any number of them.

* A frame is labelled from the copy of the subscriptions the stream took along,
  which come from requests the client put into an inbox and which later requests
  overwrite; `RouteInv` follows a subscription all that way, and the step that
  matters is `ReadRequest`, where inbox, subscriptions and copy change at once.
  `FramesStayAsAsked` follows.
* `OrderInv` relates every frame to a place in the playlist, in ascending order
  and all behind `next`; since a playlist is the messages of the file by their
  places (`MessagesInOrder`), `FramesStayInOrder` follows.
* `TempInv` says in which phases the temporary file can exist;
  `NoPlaintextIsLeft` follows, but for a file whose removal was refused.
  `CommandStaysWellFormed` is about the state.

**`McapRecords_proofs`** has what the next three rest on: that a set of positions has
exactly one ascending list (no induction: the ranks of its members are the numbers
below its cardinality), what selecting records of some kinds does to
concatenation, to one more record and to an unchanged part, that a chunk's
index is the number of chunks ahead of it, which key a prefix of a file gives its
reader and which chunks open under it, and what is left of a file's content when it
is laid out anew.

**`Encryptor_proofs`**, for every source, both shapes of the encryptor, and any list
of recipients, for an encryption whose input stays the same.

* Neither `KeysComeFirst` nor `IndexPointsAtChunks` is inductive. `EncInv` adds
  that keys and definitions are in the output once `flushed` is set and nothing
  encrypted is before; that a stream, which sets the flag at the header, is at its
  first record as long as it is not set; and that what is patched is a manifest,
  so that the patch takes no key away and moves no chunk. `KeysAreFirst` and
  `IndexStaysRight` follow.
* `SealInv` says of the output at record `encPos` that the bodies sealed in it, kind
  by kind, are those of the records ahead of `encPos`, and that nothing of them is
  in the clear; `AllIsSealed` follows. `TwiceInv` says what has been seen of a
  source that was not refused; `EncryptedOnce` follows.
* `LayInv` says in which order the output has been laid out (`Settled`): every
  definition of the source ahead of the first slot, every slot ahead of the first
  chunk or attachment, and none of these behind a DataEnd or footer. It is what a
  file *must* contain, and `RecordingComesBack` below starts from it.

**`Pipeline_proofs`**, for every recording, any recipients, any number of rotations
by any of the packages and any number of faults. A file is *part* of a recording
(`Part`) if each of its encrypted chunks, under whatever key, holds the body of the
chunk that its index says, and each of its slots is for a recipient; it *vouches*
for n chunks (`Vouches`) if each manifest that was filled in counts n and no slot
lets a reader do without one. `PipeInv` (`PipelineInvariant`) has a part per stage:

* `EncPart`: what an encryption has written covers the records it has taken, so
  that no manifest is filled in before all chunks are taken (`Covers`,
  `Unclosed`); `PyEncryptedIs`, `TsEncryptedIs` and `LegacyEncryptedIs` show the
  same of the other packages' files, the second of a loop over the records;
* `StoredPart`: what is stored is part of the recording for its readers, vouches
  for all of it unless a damaged file was rotated, and is whole if nothing befell
  it. Every fault keeps this (`DamageKeeps`), since it only moves or alters single
  records, takes them away or puts their likes under another key;
* `RotPart`: the two buffers of a rotation are part of the recording, the positions
  noted are those of its chunks, and the file that is laid out of them is as good
  as the one read, but for new recipients;
* `DecPart`: what has been written are the first n chunks, n being the counter
  as long as nothing has failed.

From it follow `WrittenInOrder` (what any decryption has written is a beginning of
the recording, at every moment), `OthersReadNothing` (`OnlyRecipientsRead`),
`IndexesPointToChunks` (`RotatedIndexPoints`) and `PipelineKeepsPromise`: the life
of a file implements `Recording`, step by step. The last is the most that is proved
about the whole: however a file was encrypted, rotated, damaged and cut, a
recipient sees chunks of the recording one by one in order, and success only
where all of them have come out, as long as no damaged file was rotated.
`PipelineTypeCorrect` is about the state of the three programs and the file; its
invariant `Form` says of each scan that it stays in the file it reads, and ties the
decryptor's count of chunks to its position. It needs that a key can only be given
to those who hold one (`HoldersAssumption`).

**`Readers_proofs`**, for the same pipeline. The decryptor reads a file record by
record; the bridge's scan and the other packages are operators on the whole file.
What relates them is a trace invariant (`ReadPart`, theorem `DecryptionFollowsFile`):
as long as it has not failed, all a decryption holds is a function of the prefix
that it has read (`Followed`). Its key is the one the prefix's slots give its holder,
its chunk counter is the number of encrypted chunks of the prefix, each of which
opened under that key and its index, its attachments and metadata are those of the
prefix, and a decryption that is done has read up to a footer or the end and has
checked the last manifest. From that, from `PipeInv` and from the
lemmas that `ChunksOpen`, `Opened` and the other operators of the readers distribute
over a prefix, follow

* `OthersAreStrict` (`EveryToolIsStrict`): Python and TypeScript make the same of any
  file Go decrypts; they accept a file the manifest vouches for only if it has every
  chunk, since the number they have opened, one by one from 0, is the number in
  the manifest; and both iterators show chunks that open, which are in the
  order of their index where nothing else was opened before;
* `BridgeStreamsInOrder` (`BridgePlaysRecording`): an entry of the scan's table opens
  only under its own position, so that those which open are chunks of the recording
  in its order, up to the first one that does not; if all of them open and the
  manifest vouches for their number, they are all there are.

Both need no hypothesis about what befell the file: they hold of any sequence of
faults and rotations. The third theorem is about files that nothing befell:

* `RecordingComesBack` (`RoundTrip`): whoever encrypted a file and however often and
  by whom it was rotated, a decryption that is done has given back the chunks,
  attachments and metadata of the source, in their order, and the definitions that
  came into the file. `PipeInv` says what a file cannot contain; here it is joined
  by what a file must contain. A file is *intact* (`Intact`) if it is settled in the
  sense of `LayInv` and the bodies of its attachments and metadata, kind by kind,
  are those of the source (encrypted metadata none, once Python has rotated it).
  `ContentInv` carries that from the three encryptors (`StoreIsIntact`,
  `PyEncryptedIntact`, `TsEncryptedIntact`, `LegacyEncryptedIntact`) through every
  rotation: the Go one record by record, its two buffers being a sorting of what has
  been scanned (`SortedInto`, `Moving`), the others as operators (`PyRotatedIntact`,
  `TsRotatedIntact`). `HoldPart` says what a decryption holds of the records it has
  passed (`Gathered`), whoever decrypts, so that the KMS need not be excepted: an
  attachment can be missed only ahead of the key, where a settled file has none,
  and the writer is made only behind a slot, where all definitions have been seen.
  What is behind the record at which a scan stops is nothing (`StopsBehindAll`).

The attempt to prove it corrected the property: `WrittenDefs` had counted definitions
behind the footer of a source without DataEnd, which TypeScript does not reach
(`ts/src/encrypt.ts` stops at the footer), and no instance had such a source.

**`KeyFiles_proofs`**, for any number of runs in any interleaving, over any key files of
the user's. `PairInv` has four parts: runs under way are each other's rivals, and so is
whoever made a file that another run, which looked and did not find it, comes upon
(`RivalInv`); a run that has not begun has made nothing and met nobody (`FreshInv`);
which files there are at each call of a run without rivals (`PairFollowsPc`); and
beside a file of the user no run gets beyond looking (`UserInv`). Runs
that race may do to each other's files what they like; the invariant says that they
do it to no one else's, a crashed rival included. `PublicKeysAreUsable` (which
includes that success means a whole pair) and `KeysAreKept` follow, and
`KeysStayWellFormed` about the state.

Only model-checked, of what the pipeline promises of files that nothing befell, are
`RecipientsCanRead`, `AnyToolReads`, `BridgeServesRecording` and `InspectTellsTruth`:
that a reader does *not* fail needs, beyond `Intact`, that all slots of a file carry
the key of its chunks and that a chunk's messages use definitions of their source,
which for every source is not true (a source may be cut between DataEnd and footer, or
have two headers) and holds of the instances. Out of the prover's reach: liveness (`StreamsEnd`,
`SubscriberIsServed`, `SignalStopsBridge`, `CtrlZSuspends`).

## Not modelled

* The cryptography, PEM and SSH key parsing, byte layout of records, limits on
  sizes: pure functions, tested with vectors and fuzzing.
* What the progress bar draws, rates and ETA, flag parsing: wording, which no
  other part reads. `pause_windows.go` does nothing.
* Credentials and the client of the KMS: external. A call is a slot that opens or
  does not.
* Several WebSocket clients in one `BridgeCommand`: connections share nothing
  but the chunk cache, and that is `BridgeCache`, for any number of them.
* A client that stops reading its socket without leaving.
* The generator of test vectors, examples and workflows: no state.

## Plan

Done, in this order: the bridge cache; the three programs of the Go package and
their pipeline; output files; key files; proofs about the first and the last
two; the bridge's scan and sessions; the Python and TypeScript programs, composed
with the Go ones; slots of every version, KMS failures, files of earlier
releases, inputs that change, inspection; the bridge command with its signals and
its temporary file; proofs about that and about the encryptor; lemmas about
sequences of records, the invariant of the pipeline and its refinement of
`Recording`; the refinement of `ChunkStreams`; the order of frames; the types of
the pipeline; the trace invariant of the decryptor and, from it, what bridge and other
packages make of any file; what a file that nothing befell must contain, and that a
decryption gives it back. Left: that such a file is never refused. `Intact` would have
to be joined by an invariant on the keys of a file (one for all slots of a writer, the
same for everything sealed, one filled-in manifest), and the sources by assumptions
on headers and on the definitions their messages use.

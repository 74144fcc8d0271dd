# crane-wyoming in TLA+

crane-wyoming is a speech server that speaks the Wyoming protocol: text to speech (TTS) and
speech to text (ASR) over TCP or a Unix socket, one OS thread per loaded model, tokio tasks
for the connections. The repository also holds the protocol library with a client, a
speech-dispatcher output module and the command line tool `cw-say`. This directory models
all of them, checks them with TLC, and proves the theorems that matter most with TLAPS.

Paths below are relative to `src/crates/`. Line numbers refer to the commit modelled.

## 1. Inventory

| component | source | state it keeps | operations | talks to |
|---|---|---|---|---|
| ModelRuntime and model threads | `server/src/engine/runtime.rs` | per model: unbounded queue, `pending_count`, a thread; per answer: oneshot or bounded channel | `generate_speech(_stream)`, `transcribe(_stream)`, thread loop, cache tee | called by handlers, calls the cache and the models |
| connection handler | `server/src/handler.rs` | the exchange in progress, collected text or audio | `handle_connection` and the `handle_*` it dispatches to | client socket, ModelRuntime, voice maps |
| TTS cache | `server/src/engine/cache.rs` | pairs of files `.pcm` / `.meta`, temporary files | `get`, `put`, `evict_if_needed` | called from connection tasks and tee tasks, no lock |
| VAD filter | `runtime.rs` 780-870 | one recurrent model behind a mutex | `vad_filter_audio` | called by the transcribe handler, runs on blocking threads |
| voice and model resolution | `handler.rs` 35-317 | tables, fixed once the models are loaded | `resolve_voice`, `resolve_asr_model`, `build_info` | handlers |
| server | `server/src/lib.rs`, `main.rs` | listener and its socket file, connection semaphore | `run`, `serve`, Ctrl-C, exit | spawns handlers |
| model discovery | `server/src/engine/model_factory.rs` | none; the directories may change | detection by file contents, selection, construction | `run` |
| wire framing | `wyoming-protocol/src/wire.rs` | none between calls | `read_event`, `write_event` | handlers, client |
| event types | `wyoming-protocol/src/event.rs` | none | (de)serialisation by serde | wire |
| client | `wyoming-protocol/src/client.rs` | one connection, its read buffer | `connect`, `describe`, `synthesize`, `synthesize_streaming`, `ping` | the server |
| speech-dispatcher module | `sd-crane-wyoming/src/lib.rs` | one client for its whole life, settings, voice list | command loop, `speak` with reconnection, interrupt polling | speech-dispatcher on stdin/stdout, the client |
| cw-say | `cw-say/src/lib.rs` | the output file, what was written to a pipe | one request, output to a file or standard output, `--timeout` | the client |

How they interact: a connection task resolves a voice, puts a request on the model's queue
and awaits the answer's channel; the model's thread serves the queue in order and blocks on
a full channel; the handler writes events to the client, and a client that does not read
blocks the handler and, through the channel, the model. A complete synthesis passes a "tee"
task that stores the waveform before it forwards it. On the other side of the socket the
client takes the next events for the answer to its last request, because the protocol has
no request identifiers.

What is hard here, and which property is meant to catch it (all of it, line by line, is in
the `hazards` of `PROJECT.json`):

* counting and ordering across threads: `PendingCountExact`, `ChannelInOrder`, `ImplementsService`;
* a model that fails or panics in the middle of an answer: `EndedIsWhole`, `OnlySuccessCached`, `RepliesAreComplete`;
* callers that leave, clients that stop reading: `LittleLateWork`, `QueueMoves`, `CallerIsAnswered`, `ModelIsReleased`;
* timeouts that cut an event in two: `NothingAfterTornWrite`, `NoReadAfterCutRead`;
* exchanges given up half way, and a client that waits for the event that ends them: `StoppedFollowsError`;
* bytes cut into reads of any size, peers that exceed limits or leave half way: `ImplementsChannel`, `WholeIsRead`;
* file operations of several calls and a crash between any two: `HitIsWhole`, `SizeBounded`, `EntriesArePairs`, `ColdestGoFirst`;
* one recurrent detector for all transcriptions: `VadOwnAudio`;
* tables built in one order and lists in another: `AdvertisedIsServed`, `RequestsAreRouted`;
* permits, Ctrl-C, the end of the process, the socket's file: `WaitingIsServed`, `StoppedIsGone`, `CtrlCIsHeeded`, `SocketIsOwned`, `LiveSocketIsKept`;
* a stream of replies without identifiers: `OwnWholeReply`, `SpeaksItsOwnText`;
* reconnection and interrupts in the output module: `MessageIsAnswered`, `InterruptsAreAnswered`, `CallReturns`;
* blocks and texts in a line protocol: `InStep`, `SpeechIsCarried`;
* half-written output: `SaysTheReply`, `FileIsWhole`, `SayEnds`.

## 2. Modules

```
SpeechService   refined by ModelThread (INSTANCE)
ModelThread     <- ModelThreadProofs
                <- MCModelThread
WyomingReplies  <- Connection <- ConnectionProofs
                              <- MCConnection
                <- WyomingClient <- SpeechdModule ---.
                                 <- CwSay -----------+- <- ClientPrograms <- ClientProofs
SpeechdDialogue -------------------------------------'                    <- MCClientPrograms
                <- MCSpeechdDialogue
                <- DialogueProofs
TtsCache        <- TtsCacheProofs
                <- MCTtsCache
WireChannel     refined by Wire (INSTANCE)
WyomingEvents   <- Wire <- WireProofs
                        <- MCWire
ModelFactory    <- VoiceMap -.
VadFilter       -------------+- <- Server <- ServerProofs
Listener        -------------'            <- MCServer
Listener        twice in TwoServers (INSTANCE)
Lists           <- ModelFactory, SpeechdDialogue
                <- ListLemmas <- ServerProofs, DialogueProofs      (<- : is extended by)
```

**SpeechService** is the abstract promise of one loaded model: requests are begun one at a
time in the order accepted, a caller hears pieces of its own answer only, and is told once
how it ended, `ended` only for a whole and unspoiled one.

**ModelThread** is one model of ModelRuntime with its callers. `queue`, `pending_count` are
the handle's; `pc`, `cur`, `held` say where the thread is and what it holds; `chan`,
`txLive` are the answer's channel and its sending half; `tee`, `inner`, `cached` the task
`generate_speech` spawns on a cache miss; `caller`, `got`, `outcome` the handler that
waits. One action per step another task could observe: `AskModel` (channels made, count
raised) and `Enqueue` (the `tx.send`) are two, as in the code; the thread goes
`BlockingRecv`, `CheckCaller` (`is_closed`), `GenerateWhole`/`NextChunk`/`StreamEnds`/
`ModelErrs`/`ModelPanics`, `BlockingSend` or `SendToTee`, `DropRequest`, `Settle`. TTS and
ASR threads are the same machine; `FinalMarked` tells ASR, whose last transcript says so. A
oneshot is a channel that carries one item. `Abandon` is a handler's future dropped while
it awaits, which the documentation of `handle_connection` ("Cancellation") allows for; in
this server only the end of the runtime does it. `late` counts the pieces that the thread begins
for a request after that (`GoOn`), as against those it was making already. `Forget` lets a finished exchange make room for a
new one, so runs are unbounded with few names. The thread's death (`alive`) is kept
although `catch_unwind` makes it unreachable, because the send-error branch depends on it;
that nothing reaches it is part of what is proved (`ThreadInv`).

**Connection** is one `handle_connection` task as a coroutine: it stops at every read,
every write and every answer of a model. `server` is what the server was started with
(models, VAD, streaming), chosen in `Init` and never changed. The events it is about to
write are in `todo`; each write is a step that may fail or, when the client does not read,
stall. The model's answers are those ModelThread allows. A voice or model that does not
resolve is a choice here (`Refuse`); which one it is, is in `VoiceMap`.

**WyomingReplies** says which sequence of events is a complete reply to which request. It
is shared by `Connection`, which is checked to produce such replies, and by
`WyomingClient`, whose server produces them; `WyomingClientAssumption` makes TLC check that
the replies the client's server gives are of that form.

**TtsCache** is `cache.rs` file operation by file operation: `fs::write` truncates, then
fills; `fs::rename` is one step; metadata is read, updated and written back in three;
eviction lists the directory one file at a time and then deletes by what it read. A write to
a file that was deleted after it was opened goes nowhere (`RemoveMeta`, `FillMeta`). `use`,
chosen in `Init`, says how the cache is used: by how many calls at a time, on which digests
and sizes, with or without faults. With faults any operation may fail, be it the listing of a
directory, the reading of an entry or the removal of either of its files, and the process may
die between two.

**WyomingEvents** has a schema for every event type (required fields, optional ones,
lists), `ToWire` and `FromWire` as serde and the hand-written conversions do them, custom
events and sensitivities included. A JSON object is a function from keys to values.

**Wire** is `write_event` at one end of a connection and a loop around `read_event` at the
other. A byte is known by its message, its segment and its place there; the pipe between
them holds few bytes and gives them in chunks of any size. The peer may be another program:
data inside the header, segments that are no objects, lengths over the limits. The
writer can go away after any byte, the read can be dropped. **WireChannel** is what both
promise together: a channel of events that ends without an error only between two of them.
`begun` says that a byte of the next event has come, into the connection or to the reader; in
`Wire` it is an expression (`Begun`), not a variable.

**ModelFactory** is discovery: which entries of which directories are taken for models of
which type, which of those found are selected, and how one is constructed, with its own
probe of the files and the fallback to the words of its path. **VoiceMap** is the
resolution of voices and languages to models and the content of `info`, built from the
models' own lists; both are operators, without state. **Lists** has the two operators on
lists that these and the dialogue share: the members of a set in their order, and the
elements at some places of a list.

**VadFilter** is the shared detector: its configuration and the recordings its state is
made of, the mutex, and the blocking jobs that take it in any order, fail, and panic (a
poisoned lock is taken over, as `unwrap_or_else(into_inner)` does).

**Listener** is the socket of one process, one action per system call on its path: bind,
`AddrInUse`, remove, bind again, `stat`; on the way out, the comparison of inodes and the
unlink. **TwoServers** puts two of them on one path.

**Server** composes these four: `run` step by step (`at`: discover, bind, load, the accept
loop, the return, the cut of what is in flight, the exit), with the directories changing
between discovery and loading, the semaphore, `armed` and `signalled` for what tokio does
with SIGINT, and crashes. When the runtime is dropped a filter job that no thread has begun is
dropped too; one that works or waits for the mutex holds up the exit. A connection asks the filter, ends, or is stuck in a
write. A `Scene` is a situation to start in; `Init` chooses one.

**WyomingClient** is `client.rs` and its connection. Events carry the number of the call
they belong to, which the code cannot see; `check_trailing_error` is the phase `trailing`,
ended by an event, by the 50 ms timeout or by the end of the stream. The connection can be
closed between events or torn inside one, at any moment.

**SpeechdModule** extends it with `INIT`, `speak` and its one reconnection, the
chunk callback, and `poll_fd_interrupt` before every piece. Variables of `speak` keep their
names (`preamble_sent`, `bad_format`, `interrupt`; an `io_error` is the interrupt
`broken`). The replies to the current command are in `out`.

**SpeechdDialogue** is the same program seen from its other side: the lines of the command
loop, `SET`/`AUDIO`/`LOGLEVEL` blocks with their scratch copy, the text of a message
through dot-stuffing, SSML, entities and index marks, voice lists and the escaped bytes of an
audio event. What speech-dispatcher does to a text is modelled from the code that undoes it.
Lines are made of `Words`, any set that contains the signs with a meaning and the commands;
`IsExchange` says what speech-dispatcher may send, and `Unmistakable` that no line of that is
a dot between blanks.

**CwSay** is `cw-say`: one call, the header that is written with the first chunk, the pipe
that closes, the file that is created at the end, `--timeout`. **ClientPrograms** has one
variable more, `program`, chosen in `Init`: any use of the library, the output module, the
dialogue, or `cw-say`.

## 3. Runs

| run | configuration | about | states |
|---|---|---|---|
| `model_thread` | `MCModelThread` | a TTS model with a cache, one streamed and one complete request on one queue; or an ASR model, two streamed requests, final piece marked: the proofs' invariant, the refinement, the cache, late work, liveness; finding 7 | 219 000 |
| `any_server` | `MCAnyServer` | one connection on any server: replies, torn writes, release of the model | 7 000 |
| `cache` | `MCTtsCache` | one call at a time: size limit, pairs, order of eviction; two calls, faults (of evictions too) and crashes: no reader gets a partial or foreign waveform | 2 781 000 |
| `wire` | `MCWire` | two messages of any kind cut, broken off and abandoned anywhere: a channel of events, and no wait for bytes that are not coming | 75 000 |
| `server` | `MCServer` | loading, routing, the shared filter, permits, the socket's file, the end of the process; finding 8 | 12 300 |
| `client_programs` | `MCClientPrograms` | everything that holds a client, connection lost or torn anywhere: own whole reply, one answer to each message, own text, output and files; the dialogue line by line | 278 000 |
| `no_read_after_cut_read` | `MCNoReadAfterCutRead` | violated: finding 1 | |
| `stopped_follows_error` | `MCStoppedFollowsError` | violated: finding 6 | |
| `speaks_late_text` | `MCSpeaksLateText` | violated: finding 2 | |
| `text_in_step` | `MCTextInStep` | violated: finding 3 | |
| `ctrl_c_is_heeded` | `MCCtrlCIsHeeded` | violated: finding 4 | |
| `live_socket_is_kept` | `TwoServers` | violated: finding 5 | |

`client_programs` takes about one minute, `model_thread` and `cache` about two, the others
seconds.
Each property of a passing run has a mutant of the code's model (the definitions commented
"Mutant of ...") under which TLC finds it violated; they are listed in `PROJECT.json`.

### Bounds

* ModelThread: two exchanges at a time (each name is reused without limit), of which
  `MCModelThread` takes one of two models (`model`): its own instance of the module is the TTS
  one, `AsrThread` the other, with the same variables. `ChunkCap` 2 as in the code, up to 4 pieces, so that the channel is full, the thread blocks holding a
  piece, and there is still one more to make. The inductive invariant is proved for any
  number of requests, any capacity and any length.
* Connection: 3 pieces (first, middle, last), 3 units of audio against chunks of 1 and 2, so
  that the limit is met exactly, passed by one, and not reached. The loop is unbounded.
* TtsCache: `OneByOne` has three digests and sizes 0 to 2 under a maximum of 3, so that one
  put may evict one or two entries; `AtOnce` two digests and two calls, which is enough
  for every pair of operations to meet. Hits saturate at `MaxHits`. Digests k1 and k2 and
  calls a and b are symmetric in both uses, and no temporal property with liveness is
  checked under that symmetry.
* Wire: two messages, limits of 3 bytes for the header with its newline and of 2 for data
  and payload, reads of at most 2 bytes from a pipe that holds 2: a read can end before, at
  and after the end of a segment, and every limit is met exactly and passed by one. The
  first message is any of 45 written by this program (every event type with the fewest and
  the most fields) or of 162 foreign ones; the second is one of three `Followers`, enough to
  see that the first took neither too much nor too little.
* Server: a scene has no more clients, starts and signals than the side it shows takes:
  loading over every choice of models with unchanged and changed directories (two models
  with one voice name, one language in two spellings, missing and unreadable directories);
  two starts and one client for the socket's path; three clients, two permits and one stuck
  client for the loop; two clients in the filter.
* SpeechdDialogue: messages of at most two signs out of seven and at most three out of dot,
  blank and newline, an index mark anywhere, each between two settings; blocks of at most
  two of six lines (good, unknown, malformed); audio of at most 3 bytes of the five that
  escaping tells apart; any three commands in a row.
* Client programs: a program of its own makes 2 calls, the module 3 commands (`INIT` and two
  messages, or a message and an interrupt) and 5 calls, which two messages need. The safety
  properties are proved for any number of each; of more commands TLC would only add what
  `CallReturns` says of them. A message starts only when the three calls it may need
  (`CallsLeft`) are left, so that the bound never stops one half way. Replies have up to 2
  chunks; one piece per chunk is enough for an interrupt before a piece, between two chunks
  and after the last.

### Fairness

* The thread and the handlers' tasks are scheduled and the model's calls return: weak
  fairness of `Worker`, `Enqueue`, `Receive`, the tee.
* `Write` on a streaming path ends because `write_event_timeout` gives up after
  `WRITE_TIMEOUT` (`handler.rs` 323-335). The events of an answer in one piece are written
  without a timeout: `Close` of such a request has no fairness, nor has an untimed write in
  `Connection`.
* Nothing obliges a client to ask, to read, to go away, or to stay; in `Server` a
  connection that is not `stuck` ends some time (the client leaves or goes idle), a stuck
  one need not. Nothing obliges anybody to press Ctrl-C.
* The server's own steps (starting up, polling the select, accepting, waiting for a permit,
  the return and the exit) and the filter's jobs are scheduled.
* In `Wire` a writer that stays writes on and the reader reads; that is all `WholeIsRead`
  needs.
* In `WyomingClient` the server's handler is polled and its models answer (`Server`); a
  server that hangs for ever is outside: neither `synthesize_streaming` nor `INIT` has a
  timeout, and with such a server no property of termination could hold. Only
  `RECONNECT_TIMEOUT` bounds a wait of the output module (`ReconnectFails`). For `cw-say`
  the server may be silent for ever: `SayEnds` is about `--timeout` alone.

### Assumptions worth knowing

* `Prompt`: a server's error follows its `audio-stop` within `TRAILING_ERROR_TIMEOUT`.
  `OwnWholeReply` and `SpeaksItsOwnText` rest on it; `speaks_late_text` shows what happens
  without it.
* `Unmistakable`: no line that speech-dispatcher sends is a dot between blanks. `InStep` and
  `SpeechIsCarried` rest on it; the texts of `MCTalks` have no such line, and `text_in_step`
  shows what one does.
* speech-dispatcher trims the lines of its blocks, so that a line is the pair it means
  (`IsExchange`); the lines of a text are what they are.
* `SocketIsOwned` is about a server that is alone on its path; `live_socket_is_kept` is about two.
* `SizeBounded`, `EntriesArePairs` and `ColdestGoFirst` are claimed of calls that come one
  after the other. Of calls that overlap only `HitIsWhole` is.
* speech-dispatcher does not pipeline: it sends the next command when the last is answered,
  and one STOP or PAUSE at a time during a message (`poll_fd_interrupt`'s documentation
  says as much). A STOP read ahead into the loop's `BufReader` is therefore not modelled.
* Of the module's replies only those of the audio callback are allowed to fail (`io_error`);
  any other failed write ends the program at once.
* Streamed and complete requests on one model (the TTS one of `model_thread`) go beyond what
  one server configuration does (streaming is on or off for all); ModelRuntime's public
  interface allows it and both share the queue.

## 4. Findings

1. **An exchange that goes idle is not disconnected** (`NoReadAfterCutRead`).
   `read_event_or_idle` returns `Ok(None)`, the handler returns `Ok(())`, and the loop reads
   on, perhaps inside an event: `wire.rs` 199-204 and `handler.rs` 835-838 say otherwise.
2. **An error later than 50 ms after `audio-stop` puts the connection one reply behind**
   (`SpeaksItsOwnText` without `Prompt`): it answers the next request, whose audio is then
   spoken for the one after it. `client.rs` 192-193 takes the timeout for success.
3. **A line of a message that is a dot after a blank ends the message** (`InStep`):
   `sd-crane-wyoming/src/lib.rs` 244 compares the trimmed line with the terminator, and the
   rest of the text is read as commands; 226-231 promise that text is never mistaken for it.
4. **A Ctrl-C at the connection limit is lost** (`CtrlCIsHeeded`): `ctrl_c()` is listened to
   only inside the select (`server/src/lib.rs` 810), not while the loop waits for a permit
   (816).
5. **A second server takes over the socket path of a running one** (`LiveSocketIsKept`):
   `AddrInUse` does not tell a live socket from a stale file, and `server/src/lib.rs` 325
   removes either, although 312-316 say that this avoids unlinking a live one.

6. **An unexpected event during streamed text is answered by a lone error**
   (`StoppedFollowsError`): `handler.rs` 660 returns after it, and the `synthesize-stopped`
   that 621-628 promise "including after an `error` response" never comes. The client that
   this comment speaks of waits for it until the idle timeout. `RepliesAreComplete` says what
   is true: in this one case (`textRefused`) the reply is exactly one error.
7. **A request behind the cache is generated although its caller has left**
   (`LittleLateWork`, which passes with the exception it states): `is_closed()` at
   `runtime.rs` 909 asks the tee's receiver, which lives on until the answer, while
   `handler.rs` 367-372 promises the check before generation. Storing the waveform for a later
   caller may be wanted; the comment does not say so.
8. **In-flight connections do not complete** (`StoppedIsGone`, which passes): `serve` logs
   "Accept loop stopped; in-flight connections will complete" (`server/src/lib.rs` 831) and
   returns, and `main` drops the runtime with every task in it. That the process ends although
   a client is stuck is a property of the code, and holds because the log line is wrong: the
   property's mutant, `MayShutDownWhenIdle`, is a server that does what the line says.

Noted while modelling, without a run of their own:

* `speak` (`sd-crane-wyoming/src/lib.rs` 758-762) speaks of a retry "before `audio-start`",
  and the code retries until the first chunk was heard (788), which is what
  `SpeaksItsOwnText` needs.
* The cache can stay above its maximum size for good when calls overlap: the metadata of an
  entry is torn or deleted by a concurrent call while its waveform stays, and eviction
  counts only what it can parse (`cache.rs` 260, 295).
* `cw-say`: a WAV header's `n + 36` overflows 32 bits for audio of almost 4 GiB
  (`lib.rs` 140); an output path that exists and could not be opened is removed all the
  same; a `--timeout` of more seconds than a `Duration` holds panics (338).

## 5. Proofs

Eight modules hold theorems: the seven of the table, and `ListLemmas`, whose lemmas on sorted
and flattened lists the others use. Each theorem is for every value of the constants that the
modules' named ASSUMEs allow. Every safety invariant and every action property of a passing
run is among them, and both refinements.

| module | theorem | states |
|---|---|---|
| `ModelThreadProofs` | `TypeCorrect` | `Spec => []TypeOK` (`pending_count` never goes below zero) |
| | `CountIsExact` | `Spec => []PendingCountExact` |
| | `Invariant` | `Spec => []Inv`, the inductive invariant |
| | `PiecesInOrder` | `Spec => []ChannelInOrder` |
| | `EndedAnswersAreWhole` | `Spec => []EndedIsWhole` |
| | `CacheHoldsSuccesses` | `Spec => OnlySuccessCached` (an action property) |
| | `LateWorkIsLittle` | `Spec => []LittleLateWork` |
| | `ThreadIsService` | `Spec => ImplementsService`, the refinement of `SpeechService` |
| `ConnectionProofs` | `RepliesAreWhole` | `Spec => []RepliesAreComplete` |
| | `NothingFollowsTornWrite` | `Spec => NothingAfterTornWrite` (an action property) |
| | `ConnectionIsTyped` | `Spec => []TypeOK` (the collected audio stays within its limit) |
| `TtsCacheProofs` | `HitsAreWhole` | `Spec => []HitIsWhole` |
| | `FilesAreTyped` | `Spec => []TypeOK` |
| | `TheCacheFits` | `Spec => []SizeBounded` |
| | `EntriesStayPairs` | `Spec => []EntriesArePairs` |
| | `TheColdestGoFirst` | `Spec => ColdestGoFirst` (an action property) |
| `WireProofs` | `FramingIsKept` | `Spec => []IInv`, the inductive invariant |
| | `BuffersAreBounded` | `Spec => []TypeOK` |
| | `TheConnectionIsAChannel` | `Spec => ImplementsChannel`, the refinement of `WireChannel` |
| `ServerProofs` | `FilterIsFair` | `ServerSpec => []VadOwnAudio` |
| | `SocketStaysOwned` | `ServerSpec => []SocketIsOwned` |
| | `ServerIsTyped` | `ServerSpec => []ServerTypeOK` (the permits, the backlog, the types of models) |
| | `EveryRequestIsRouted` | `ServerSpec => []RequestsAreRouted` |
| | `WhatIsListedIsServed` | `ServerSpec => []AdvertisedIsServed` |
| `ClientProofs` | `ProgramsType` | `ProgramsSpec => []ProgramsTypeOK` |
| | `CallsReadTheirOwnReply` | `ProgramsSpec => []OwnWholeReply`, if `Prompt` |
| | `MessagesAreAnswered` | `ProgramsSpec => []MessageIsAnswered` |
| | `InterruptsAnswered` | `ProgramsSpec => []InterruptsAreAnswered` |
| | `OnlyItsOwnTextIsHeard` | `ProgramsSpec => []SpeaksItsOwnText`, if `Prompt` |
| | `OutputIsTheReply` | `ProgramsSpec => []SaysTheReply` |
| | `FileWhole` | `ProgramsSpec => []FileIsWhole` |
| | `ProgramsKeepTheDialogue` | `ProgramsSpec => DialogueSpec`, so that what follows holds of the programs too |
| `DialogueProofs` | `BothAreInStep` | `DialogueSpec => []InStep`, if `Unmistakable` |
| | `SpeechArrives` | `DialogueSpec => []SpeechIsCarried`, if `Unmistakable` |

### The arguments

**The thread.** `PendingCountExact` is inductive together with the types
and with what the thread's state says of `cur` (`Core`): the count is lowered only while
the thread holds a request. `EndedIsWhole` is not inductive at all: that a closed, empty
channel means a whole answer needs the accounting of every piece on its way. `StreamInv`
is that account (pieces made = received + waiting in the channel + held by the thread),
`BlobInv` the same for a oneshot and the tee, `LastPieceInv` and `NoMore` say that nothing
is made after a piece the caller takes for the last, `QueuedInv` and `QueuedOnce` that a
queued request is untouched and queued once. `RequestInv(r)` speaks of one request only, so
each action's proof has two cases: the request the action works on, and every other one,
for which lemma `Frame` says that what `RequestInv` mentions did not change; lemma `Local`
puts the two together. `LittleLateWork` needs one more part, `LateRequest`: only a
request whose caller has left has a late piece, and one that goes through the cache has at
most one, after which it is not queued and the thread is past the check; `GoOn`, which each
place where the thread goes on to the next piece shares, adds no other (`Late_CheckCaller`,
`Late_BlockingSend`). The same `Inv` supplies what the guards of
`SpeechService` ask: one lemma per kind of step says which step of the service it is
(asking, making a piece, failing, delivering, ending, forgetting) or that it leaves the
service's variables alone, and `ServiceStep` joins them.

**The connection.** What a handler is about to write is part of the reply it produces, so
the invariant speaks of `Said` (what is written and what is in `todo`) at the place `Where`
the handler will be once it is written; `SaidAt` gives for each place of the coroutine the
shape the reply has there: nothing yet, an open frame, a whole reply. Each action moves from
one place to the next by the lemmas about frames that get one more event. The types rest on
the same invariant, because `WriteEvent` keeps them only while something is in `todo`.

**The cache.** `CacheInv` says that what is on disk under a digest's name is whole and of
that digest, and that a call that is going to rename has written its own waveform to a
temporary path no other call uses. `OnlyOf(t)` is the frame: a step of one call leaves the
others' variables and temporary files alone. A crash empties the calls and leaves the files.
`TypeInv` adds to the types what a call in the middle of a write has in hand; metadata it may
have lost again, to an eviction that deleted the file. What calls
that come one after the other leave is `AloneInv`: every entry is a pair except the one in
hand (`InHand`), of which `HalfInv` knows one file; what eviction has listed is what there
is, and its running total is the size of those listed entries that still exist (`ListInv`).
When eviction stops, every entry there is has been listed, so the total is the size of the
directory. Bytes are counted as a set of pairs (`BytesIn`), so that the library's theorems
about cardinality add and subtract them.

**The wire.** `Framing`: what has been read of the current message, what is in the stream
and what the writer still has to write are, put together, the bytes of the messages from the
place the reader has come to up to the end of the last one, or up to where the writer left.
It says so locally (`Follows`: behind each byte comes the next one of its message, or the
first of the next message), so that taking a byte from the front, moving bytes from one
queue to the next and appending a message each keep it by looking at one place. `LineInv`
and `SegmentInv` say what the reader may rely on in each of its stages: never past a
newline while it reads a header, never past the announced length of a segment, and the
limits were checked before the buffer grows. Then every `got` is the meaning of the message
of the same number, which is the step of `WireChannel` that receives it (`TakingRefines`, and
`ByteRefines` for a byte that completes nothing); a clean end needs `SomeBytes` and
`BegunIsSent`: where no byte is left on the way, what was received is all but at most a last
message that was never begun. For the events of
this program lemma `OwnMeaning` says that the reader makes the meaning of what
`write_event` makes of the event.

**The server.** *The filter:* `VadInv` says that whoever works in the filter has the mutex
and a detector that was reset for its own parameters, which is what makes the result its
own. *The listener:* `OwnerInv` ties how far `run` is to how far its listener is, and both
to whose file is at the path, through kills at any point. *The loop:* `QueueInv` (the
backlog is those who are queued, each once, and one connection at most waits for a permit)
and `PermitInv` (permits had, plus connections served, are `max_connections`, and nobody is
served before the loop or after the cut) are inductive together; the count changes by one
with one element of a finite set (`ServingCounted`). `MutexInv` says that a connection with
a job in the filter has not ended before the runtime is dropped. `TypesInv` follows the types from discovery, by way of
the second probe of files that may have changed, to what is registered (`CreatedSpeaks`).
*Routing:* `LoadInv` says that what is to be loaded is what was asked for or the sorted
listing, that what is loaded is a prefix of it and the default its first, and that while the
program serves its tables are those of what is loaded. What the tables hold needs the sorted
lists (`Ranks`, `Ordered`: every element has one rank, and ranks are in order) and the fold
that fills them: `ClaimsAll` gives its closed form, that a key has the value of the first
table that has the key. It is an induction over the tables, put as an argument about the
least number in a finite set for which the closed form fails (`OneByOne` in `ListLemmas` has
that argument once for all). On this rest `Names` (what a
voice's name resolves to), `Spoken` (the first model and voice of a language), `Routes`
(both together, for any request) and `Listing` (what Describe tells is each voice once, and
each resolves to where it is listed).

**The programs.** `ConnInv` is about a connection that is in step: what the current call has
taken, what can be read and what the server still has to write are, in this order, the reply
to that call (`InFlight`), and between calls nothing is left on the way (`Returns`). That
last part is false when an error may come later than the client waits for it, so the
invariant holds under `Prompt`, and without it for a first call: this is all `cw-say` makes.
`ModuleInv` puts the output module on top: how far the answer to the message is
(`Answering`), that an interrupt that was asked for is answered, on the input or held until
the message ends (`Counted`), and that what was heard is of the last call alone, through the
retry (`Speaks`). `SayInv` does the same for `cw-say`: as many chunks were put out as the
call has heard, behind a header that was written with the first (`SayOutput`).

**The dialogue.** `DialogueInv` says where both sides are. Between two commands everything is
`Answered`: the reply is one of those expected and the settings are the agreed ones. A command
that was sent is `Unread`, and what is in the pipe is its lines, or the beginning of them if
speech-dispatcher has gone (`Left`). In a block or a text (`InTheMiddle`) there is a number k
such that k lines of it have been read, the rest and the terminator are what is left, and what
the module has in hand is what it should make of the first k lines (`Made`): for a block
whether one of them was malformed or refused, and the agreed settings after them; for a text
the lines without the dots put before them. `InStep` itself is far from inductive: it says
nothing of the pipe while a block is read. That the block ends with its terminator and not
before is where `Unmistakable` is needed.

When a text has been read, `SpeechIsCarried` needs that reading undoes writing, for a text of
any words and any length. Four lemmas say so, one for each layer. `StripConcat` is the
one for SSML: markup is stripped from two texts one after the other, provided the first is
`Complete` (no open tag, no ampersand at its end that could make an entity with what follows).
With `EscapeIsUndone` (one word), induction over the words (`TextIsUndone`) and `TagGoes` (a
tag is nothing), `MarksAreUndone` has it for the whole of what speech-dispatcher makes of a
text. `LinesAreJoined`: the lines between the line ends, joined, are the text. `StuffingIsUndone`:
so are lines with a dot put before a dot. `MessageArrives` puts the three together. For the
audio, `AudioIsUndone` follows the decoder's state through the bytes that stand for the first
n of the audio, and `AudioArrives` adds that the newline at the end is the only one. What a
block does to the settings line by line is what `Told` says of all its lines by `ToldStep`.

### What is assumed

The ASSUMEs are evaluated by TLC in every run of a module that has them. Beyond types and
finiteness they say that values the models use as markers differ from data
(`TtsCacheAssumption`, `WireAssumption`, `ModelFactoryAssumption`, `VadAssumption`: no such
file is not a waveform, `Nothing` is no model type and no length); that the replies of the
client's server are those proved of `Connection` (`WyomingClientAssumption`); that a header
and a JSON text have at least one byte and a value that parses is a function
(`MessagesAssumption`); that models asked for are lists of names, that a directory has
finitely many entries, that names and tags are not `Nothing`, and that no model has two
voices of one name (`SceneAssumption`; the last is a contract of the crane crate's
`voices()`, for `build_info` lists what a model says and removes no repetition within one
model); that the program's own events fit their structs, as Rust's types see to, and that
another program's messages are not taken for them (`EventsAssumption`). `WordsAssumption`
says that the words of the dialogue include the signs and commands that mean something, and
`TalksAssumption` that speech-dispatcher sends commands, blocks and messages (`IsExchange`:
a message is whatever its escaping makes of some text and an index mark), that audio is
bytes and that a described voice has words for its name and languages. `Prompt` is no ASSUME
but a constant, and the two theorems that need it say so. `Unmistakable` is no ASSUME either
but a hypothesis of the two theorems on the dialogue: finding 3 is that the code does not
see to it.

### What the proofs changed

Attempts that failed for a good reason corrected the models:

* A header of exactly `MAX_HEADER_LINE` bytes whose connection breaks off before the
  newline is a whole line to `read_line_bounded`; the model's idea of what the reader
  accepts had no room for it. `Short` has.
* `write_event` checks no limit, so an event larger than the reader's limits is sent and
  then refused; `Sound` now asks for the limits of the program's own messages too.
* `evict_if_needed` subtracts with `saturating_sub` (`cache.rs` 316), where the model
  subtracted in the integers (`Less`).
* `SaysTheReply` was a CASE with overlapping branches, of which TLC took the first and the
  definition allows any.
* Nothing said what `Talks` consists of, and an exchange that is none (a command with lines it
  does not have, a block with a line between blanks) breaks `InStep`. `IsExchange` and
  `TalksAssumption` say it, and TLC evaluates them on the talks of its runs.

And some definitions were put in a form that can be reasoned about, with the same values:
`FirstOf` as the first position instead of a fold, `Registered` and `Said` as functions
instead of with `@@`, `BytesIn` as a set instead of a sum, sorted lists by rank instead of
`SetToSortSeq` (models, and the line ends of a text), `Picked` instead of `SelectSeq`, the
decoder of audio events (`Decode`) as a recursive function instead of a fold, lines over
`Words` instead of any strings, and the voice tables as a fold of one table for each model
and voice instead of a fold of all offers in one sequence.

### What stays with TLC

* Liveness (`QueueMoves`, `CallerIsAnswered`, `ModelIsReleased`, `CallReturns`, `SayEnds`,
  `WholeIsRead`, `WaitingIsServed`, `StoppedIsGone`): fairness and ENABLED are beyond the
  prover.
* That the examples are not empty: TLC finds every action of every module taken, and a mutant
  of the code for every property. A theorem shows neither.

## 6. Not modelled

* What the models compute, sample conversion, HDLC beyond its escapes, JSON and UTF-8 beyond
  whether a segment parses, logging, the texts of messages: no property is about them.
* Command line parsing, `parse_size`, device selection, the printing of model and voice
  lists, the module's configuration file and default address: either they fail, which is a
  step, or they give a value that is a constant or a choice here.
* A STOP that is read ahead by the module's `BufReader`, and a server that accepts a request
  and never answers: see the assumptions above and the hazards without a property.
* systemd's side of a passed socket, and other programs at a Unix socket's path than this
  server.

## 7. Plan

The components of the inventory are modelled, and every safety property is proved. What
would add most from here:

1. Proofs: liveness without fairness, as variants that the steps lower (how many pieces an
   answer still has, how many attempts a message).
2. `TtsCache`: what eviction still promises when calls overlap (it never deletes what it did
   not list; what the directory holds beyond the maximum is bounded by the calls that
   overlapped).
3. `Connection` composed with `ModelThread` instead of with the answers it allows, and with
   `VadFilter` instead of a choice.

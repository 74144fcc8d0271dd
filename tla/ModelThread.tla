---------------------------- MODULE ModelThread ----------------------------
(***************************************************************************)
(* One loaded model of ModelRuntime: the FIFO queue behind its TtsHandle / *)
(* AsrHandle, the dedicated worker thread that serves it, the channel each *)
(* answer comes back on, the cache tee of generate_speech, and the         *)
(* connection handlers that wait for the answers                           *)
(* (src/crates/server/src/engine/runtime.rs, handler.rs).                  *)
(*                                                                         *)
(* The TTS and the ASR thread are the same machine; FinalMarked is TRUE    *)
(* for ASR, whose last transcript carries is_final.  A request in Streamed *)
(* is answered on a bounded channel of pieces, every other one on a        *)
(* oneshot, which is here a channel that carries a single item.            *)
(***************************************************************************)
EXTENDS Integers, Sequences, FiniteSets

CONSTANTS
  Requests,     \* exchanges that may be open at the same time
  Streamed,     \* those made through generate_speech_stream/transcribe_stream
  NoRequest,    \* the worker holds no request
  ChunkCap,     \* capacity of the chunk channel: 2 in the code
  MaxChunks,    \* bound: pieces one streamed answer has at most
  FinalMarked,  \* ASR: the last piece says that it is the last
  CacheOn,      \* a TtsCache is configured (TTS only)
  Texts,        \* what a request asks to be spoken: stands for the CacheKey
  TextOf        \* Requests -> Texts

ASSUME ModelThreadAssumption ==
  /\ IsFiniteSet(Requests)
  /\ Streamed \subseteq Requests
  /\ NoRequest \notin Requests
  /\ ChunkCap \in Nat \ {0}
  /\ MaxChunks \in Nat \ {0}
  /\ FinalMarked \in BOOLEAN
  /\ CacheOn \in BOOLEAN
  /\ TextOf \in [Requests -> Texts]

VARIABLES
  queue,          \* the unbounded mpsc channel tx -> rx of the handle
  pending_count,  \* TtsHandle::pending_count
  alive,          \* the thread still runs its loop: its receiver exists
  pc,             \* where the thread is
  cur,            \* the request it holds
  held,           \* the item it is about to send
  made,           \* pieces the model has yielded for a request
  faulted,        \* the model failed before the answer was complete
  late,           \* pieces begun although the caller had left (history)
  caller,         \* where the handler of a request is
  outcome,        \* how the exchange ended for the handler
  got,            \* pieces the handler has received
  chan,           \* the channel the handler receives from
  txLive,         \* the sending half of chan still exists
  tee,            \* the task spawned by generate_speech on a cache miss
  inner,          \* the oneshot between the thread and that task
  cached          \* texts whose waveform the cache holds

workerVars == <<queue, pending_count, alive, pc, cur, held>>
answerVars == <<made, faulted, late>>
callerVars == <<caller, outcome, got>>
chanVars   == <<chan, txLive>>
teeVars    == <<tee, inner, cached>>
vars == <<queue, pending_count, alive, pc, cur, held, made, faulted, late,
          caller, outcome, got, chan, txLive, tee, inner, cached>>

-----------------------------------------------------------------------------
Item == [kind : {"chunk", "final", "error"}, n : Nat]
Piece(k, i) == [kind |-> k, n |-> i]
Error == [kind |-> "error", n |-> 0]

CallerStates ==
  {"idle", "sending", "waiting", "writing", "stalled", "closing", "left"}
WorkerStates == {"recv", "check", "generate", "send", "drop", "settle", "dead"}

TypeOK ==
  /\ queue \in Seq(Requests)
  /\ pending_count \in Nat
  /\ alive \in BOOLEAN
  /\ pc \in WorkerStates
  /\ cur \in Requests \cup {NoRequest}
  /\ held \in Item
  /\ made \in [Requests -> Nat]
  /\ faulted \in [Requests -> BOOLEAN]
  /\ late \in [Requests -> Nat]
  /\ caller \in [Requests -> CallerStates]
  /\ outcome \in [Requests -> {"none", "ended", "failed", "dropped"}]
  /\ got \in [Requests -> Nat]
  /\ chan \in [Requests -> Seq(Item)]
  /\ txLive \in [Requests -> BOOLEAN]
  /\ tee \in [Requests -> {"none", "armed", "stored"}]
  /\ inner \in [Requests -> Seq(Item)]
  /\ cached \subseteq Texts

Init ==
  /\ queue = <<>> /\ pending_count = 0 /\ alive = TRUE
  /\ pc = "recv" /\ cur = NoRequest /\ held = Error
  /\ made = [r \in Requests |-> 0]
  /\ faulted = [r \in Requests |-> FALSE]
  /\ late = [r \in Requests |-> 0]
  /\ caller = [r \in Requests |-> "idle"]
  /\ outcome = [r \in Requests |-> "none"]
  /\ got = [r \in Requests |-> 0]
  /\ chan = [r \in Requests |-> <<>>]
  /\ txLive = [r \in Requests |-> FALSE]
  /\ tee = [r \in Requests |-> "none"]
  /\ inner = [r \in Requests |-> <<>>]
  /\ cached = {}

-----------------------------------------------------------------------------
InQueue(r) == \E i \in 1..Len(queue) : queue[i] = r

\* is_closed() of the sender the thread holds.  On a cache miss that is the
\* tee task's oneshot, whose receiver lives until the thread has answered.
ResponseClosed(r) == tee[r] # "armed" /\ caller[r] = "left"

(***************************************************************************)
(* The handle: generate_speech(_stream), transcribe(_stream), send.        *)
(***************************************************************************)
\* Only generate_speech has a tee.  The reference audio that would bypass the
\* cache is never there: handle_synthesize_blob passes none.
Cacheable(r) == CacheOn /\ r \notin Streamed

\* A cache hit answers at once and never reaches the thread.
AskHit(r) ==
  /\ caller[r] = "idle" /\ Cacheable(r) /\ TextOf[r] \in cached
  /\ caller' = [caller EXCEPT ![r] = "waiting"]
  /\ made' = [made EXCEPT ![r] = 1]
  /\ chan' = [chan EXCEPT ![r] = <<Piece("chunk", 1)>>]
  /\ UNCHANGED <<workerVars, faulted, late, outcome, got, txLive, teeVars>>

\* Mutant of AskModel: the request is queued without fetch_add.
AskUncounted(r) ==
  /\ caller[r] = "idle" /\ ~(Cacheable(r) /\ TextOf[r] \in cached)
  /\ caller' = [caller EXCEPT ![r] = "sending"]
  /\ txLive' = [txLive EXCEPT ![r] = TRUE]
  /\ tee' = [tee EXCEPT ![r] = IF Cacheable(r) THEN "armed" ELSE "none"]
  /\ UNCHANGED <<workerVars, answerVars, outcome, got, chan, inner, cached>>

\* Otherwise the channels are made, the tee is spawned, and pending_count is
\* raised before the request is put on the queue.
AskModel(r) ==
  /\ caller[r] = "idle" /\ ~(Cacheable(r) /\ TextOf[r] \in cached)
  /\ caller' = [caller EXCEPT ![r] = "sending"]
  /\ txLive' = [txLive EXCEPT ![r] = TRUE]
  /\ tee' = [tee EXCEPT ![r] = IF Cacheable(r) THEN "armed" ELSE "none"]
  /\ pending_count' = pending_count + 1
  /\ UNCHANGED <<queue, alive, pc, cur, held, answerVars, outcome, got, chan,
                 inner, cached>>

\* tx.send fails only when the thread's receiver is gone.
Enqueue(r) ==
  /\ caller[r] = "sending"
  /\ IF alive
       THEN /\ queue' = Append(queue, r)
            /\ caller' = [caller EXCEPT ![r] = "waiting"]
            /\ UNCHANGED <<pending_count, outcome, txLive, tee>>
       ELSE /\ pending_count' = pending_count - 1
            /\ caller' = [caller EXCEPT ![r] = "closing"]
            /\ outcome' = [outcome EXCEPT ![r] = "failed"]
            /\ txLive' = [txLive EXCEPT ![r] = FALSE]
            /\ tee' = [tee EXCEPT ![r] = "none"]
            /\ UNCHANGED queue
  /\ UNCHANGED <<alive, pc, cur, held, answerVars, got, chan, inner, cached>>

(***************************************************************************)
(* The dedicated thread: run_tts_thread / run_asr_thread and the four      *)
(* request handlers.                                                       *)
(***************************************************************************)
\* Mutant of BlockingRecv: the newest request is taken first.
TakeNewest ==
  /\ pc = "recv" /\ queue # <<>>
  /\ cur' = queue[Len(queue)] /\ queue' = SubSeq(queue, 1, Len(queue) - 1)
  /\ held' = Error /\ pc' = "check"
  /\ UNCHANGED <<pending_count, alive, answerVars, callerVars, chanVars, teeVars>>

BlockingRecv ==
  /\ pc = "recv" /\ queue # <<>>
  /\ cur' = Head(queue) /\ queue' = Tail(queue)
  /\ held' = Error /\ pc' = "check"
  /\ UNCHANGED <<pending_count, alive, answerVars, callerVars, chanVars, teeVars>>

\* The thread goes on to `next'; when that is the model, it begins a piece.
GoOn(next) ==
  /\ pc' = next
  /\ late' = [late EXCEPT ![cur] =
                IF next = "generate" /\ caller[cur] = "left" THEN @ + 1 ELSE @]

\* Mutant of CheckCaller: no is_closed.
CheckNothing ==
  /\ pc = "check"
  /\ GoOn("generate")
  /\ UNCHANGED <<queue, pending_count, alive, cur, held, made, faulted,
                 callerVars, chanVars, teeVars>>

\* A request whose caller has gone is skipped.
CheckCaller ==
  /\ pc = "check"
  /\ GoOn(IF ResponseClosed(cur) THEN "drop" ELSE "generate")
  /\ UNCHANGED <<queue, pending_count, alive, cur, held, made, faulted,
                 callerVars, chanVars, teeVars>>

Yield(k) ==
  /\ made' = [made EXCEPT ![cur] = @ + 1]
  /\ held' = Piece(k, made[cur] + 1)
  /\ pc' = "send"
  /\ UNCHANGED <<queue, pending_count, alive, cur, faulted, late, callerVars,
                 chanVars, teeVars>>

\* The complete waveform or transcript of a blob request.
GenerateWhole ==
  /\ pc = "generate" /\ cur \notin Streamed
  /\ Yield("chunk")

\* stream.next_chunk() yields Some: only ASR marks the last piece, and a model
\* that conforms to the Asr trait yields nothing after it.
NextChunk ==
  /\ pc = "generate" /\ cur \in Streamed
  /\ made[cur] < MaxChunks /\ held.kind # "final"
  /\ \E k \in IF FinalMarked THEN {"chunk", "final"} ELSE {"chunk"} : Yield(k)

\* stream.next_chunk() yields None.
StreamEnds ==
  /\ pc = "generate" /\ cur \in Streamed
  /\ pc' = "drop"
  /\ UNCHANGED <<queue, pending_count, alive, cur, held, answerVars, callerVars,
                 chanVars, teeVars>>

\* The model returns Err: the error is the last item sent.
ModelErrs ==
  /\ pc = "generate"
  /\ faulted' = [faulted EXCEPT ![cur] = held.kind # "final"]
  /\ held' = Error
  /\ pc' = "send"
  /\ UNCHANGED <<queue, pending_count, alive, cur, made, late, callerVars,
                 chanVars, teeVars>>

\* Mutant of ModelPanics: no catch_unwind, the thread dies with its queue.
PanicKillsThread ==
  /\ pc = "generate"
  /\ alive' = FALSE /\ pc' = "dead" /\ cur' = NoRequest /\ queue' = <<>>
  /\ faulted' = [faulted EXCEPT ![cur] = TRUE]
  /\ txLive' = [r \in Requests |-> txLive[r] /\ caller[r] = "sending"]
  /\ tee' = [r \in Requests |-> IF tee[r] = "armed" THEN "none" ELSE tee[r]]
  /\ UNCHANGED <<pending_count, held, made, late, callerVars, chan, inner, cached>>

\* The model panics: catch_unwind turns that into an error of this request.
ModelPanics ==
  /\ pc = "generate"
  /\ faulted' = [faulted EXCEPT ![cur] = held.kind # "final"]
  /\ held' = Error
  /\ pc' = "send"
  /\ UNCHANGED <<queue, pending_count, alive, cur, made, late, callerVars,
                 chanVars, teeVars>>

\* After an item: a oneshot and an error end the request, a piece does not.
AfterSend ==
  IF cur \in Streamed /\ held.kind # "error" THEN "generate" ELSE "drop"

\* Mutant of BlockingSend: the channel is unbounded.
SendWithoutBackpressure ==
  /\ pc = "send" /\ tee[cur] # "armed"
  /\ IF caller[cur] = "left"
       THEN chan' = chan /\ GoOn("drop")
       ELSE chan' = [chan EXCEPT ![cur] = Append(@, held)] /\ GoOn(AfterSend)
  /\ UNCHANGED <<queue, pending_count, alive, cur, held, made, faulted,
                 callerVars, txLive, teeVars>>

\* Mutant of BlockingSend: an error ends a stream without a word.
SendDropsError ==
  /\ pc = "send" /\ tee[cur] # "armed"
  /\ IF caller[cur] = "left" \/ (held.kind = "error" /\ cur \in Streamed)
       THEN chan' = chan /\ GoOn("drop")
       ELSE /\ Len(chan[cur]) < ChunkCap
            /\ chan' = [chan EXCEPT ![cur] = Append(@, held)]
            /\ GoOn(AfterSend)
  /\ UNCHANGED <<queue, pending_count, alive, cur, held, made, faulted,
                 callerVars, txLive, teeVars>>

\* blocking_send waits for room, and fails at once when the receiver is gone:
\* then the request is given up, which is not an error.
BlockingSend ==
  /\ pc = "send" /\ tee[cur] # "armed"
  /\ IF caller[cur] = "left"
       THEN chan' = chan /\ GoOn("drop")
       ELSE /\ Len(chan[cur]) < ChunkCap
            /\ chan' = [chan EXCEPT ![cur] = Append(@, held)]
            /\ GoOn(AfterSend)
  /\ UNCHANGED <<queue, pending_count, alive, cur, held, made, faulted,
                 callerVars, txLive, teeVars>>

\* The response of a teed request goes to the tee task.
SendToTee ==
  /\ pc = "send" /\ tee[cur] = "armed"
  /\ inner' = [inner EXCEPT ![cur] = Append(@, held)]
  /\ pc' = "drop"
  /\ UNCHANGED <<queue, pending_count, alive, cur, held, answerVars, callerVars,
                 chanVars, tee, cached>>

\* The handler returns: the request and the sender it owns are dropped.  The
\* outer sender of a teed request belongs to the tee task.
DropRequest ==
  /\ pc = "drop"
  /\ txLive' = [txLive EXCEPT ![cur] = @ /\ tee[cur] # "none"]
  /\ pc' = "settle"
  /\ UNCHANGED <<queue, pending_count, alive, cur, held, answerVars, callerVars,
                 chan, teeVars>>

\* Mutant of Settle: a request whose caller left stays counted.
SettleOnlyAnswered ==
  /\ pc = "settle"
  /\ pending_count' = IF caller[cur] = "left" THEN pending_count ELSE pending_count - 1
  /\ cur' = NoRequest /\ pc' = "recv"
  /\ UNCHANGED <<queue, alive, held, answerVars, callerVars, chanVars, teeVars>>

\* pending_count.fetch_sub, whatever became of the request.
Settle ==
  /\ pc = "settle"
  /\ pending_count' = pending_count - 1
  /\ cur' = NoRequest /\ pc' = "recv"
  /\ UNCHANGED <<queue, alive, held, answerVars, callerVars, chanVars, teeVars>>

(***************************************************************************)
(* The handlers: handle_synthesize_streaming / _blob and                   *)
(* handle_transcribe_streaming / _batch, as far as the channel goes.       *)
(***************************************************************************)
\* The exchange is decided; the handler still has closing events to write,
\* and keeps the receiver while it does.
Decide(r, verdict) ==
  /\ caller' = [caller EXCEPT ![r] = "closing"]
  /\ outcome' = [outcome EXCEPT ![r] = verdict]

RecvError(r) ==
  /\ caller[r] = "waiting" /\ chan[r] # <<>> /\ Head(chan[r]).kind = "error"
  /\ chan' = [chan EXCEPT ![r] = Tail(@)]
  /\ Decide(r, "failed")
  /\ UNCHANGED <<workerVars, answerVars, got, txLive, teeVars>>

\* A piece is taken and its event is about to be written; the only piece of a
\* blob, and a piece marked final, complete the answer; a waveform may fail to
\* encode (tensor_to_audio_chunk).
RecvPiece(r) ==
  /\ caller[r] = "waiting" /\ chan[r] # <<>> /\ Head(chan[r]).kind # "error"
  /\ chan' = [chan EXCEPT ![r] = Tail(@)]
  /\ got' = [got EXCEPT ![r] = @ + 1]
  /\ \/ /\ r \in Streamed /\ Head(chan[r]).kind = "chunk"
        /\ caller' = [caller EXCEPT ![r] = "writing"] /\ UNCHANGED outcome
     \/ /\ r \notin Streamed \/ Head(chan[r]).kind = "final"
        /\ Decide(r, "ended")
     \/ ~FinalMarked /\ Decide(r, "failed")
  /\ UNCHANGED <<workerVars, answerVars, txLive, teeVars>>

\* recv() yields None: a stream is over; a oneshot that was dropped unanswered
\* is the error `did not respond'.
RecvClosed(r) ==
  /\ caller[r] = "waiting" /\ chan[r] = <<>> /\ ~txLive[r]
  /\ Decide(r, IF r \in Streamed THEN "ended" ELSE "failed")
  /\ UNCHANGED <<workerVars, answerVars, got, chanVars, teeVars>>

WriteOk(r) ==
  /\ caller[r] = "writing"
  /\ caller' = [caller EXCEPT ![r] = "waiting"]
  /\ UNCHANGED <<workerVars, answerVars, outcome, got, chanVars, teeVars>>

\* The client stops reading: the write makes no progress.
Stall(r) ==
  /\ caller[r] = "writing"
  /\ caller' = [caller EXCEPT ![r] = "stalled"]
  /\ UNCHANGED <<workerVars, answerVars, outcome, got, chanVars, teeVars>>

\* The handler's future ends and its receiver is dropped with what it holds.
Leave(r) ==
  /\ caller' = [caller EXCEPT ![r] = "left"]
  /\ outcome' = [outcome EXCEPT ![r] = IF @ = "none" THEN "dropped" ELSE @]
  /\ chan' = [chan EXCEPT ![r] = <<>>]
  /\ UNCHANGED <<workerVars, answerVars, got, txLive, teeVars>>

\* Mutant of WriteFails: a stalled write waits for ever.
WriteFailsNoTimeout(r) == caller[r] = "writing" /\ Leave(r)

\* The write fails, or WRITE_TIMEOUT ends a stalled one.
WriteFails(r) == caller[r] \in {"writing", "stalled"} /\ Leave(r)

\* The closing events have been written, or could not be.
Close(r) == caller[r] = "closing" /\ Leave(r)

\* The handler's future is dropped while it awaits (handle_connection,
\* `Cancellation').
Abandon(r) == caller[r] \in {"waiting", "writing", "stalled"} /\ Leave(r)

\* Every trace of the exchange is gone; the next request may take its place.
Forget(r) ==
  /\ caller[r] = "left" /\ ~InQueue(r) /\ cur # r /\ tee[r] = "none"
  /\ caller' = [caller EXCEPT ![r] = "idle"]
  /\ outcome' = [outcome EXCEPT ![r] = "none"]
  /\ got' = [got EXCEPT ![r] = 0]
  /\ made' = [made EXCEPT ![r] = 0]
  /\ faulted' = [faulted EXCEPT ![r] = FALSE]
  /\ late' = [late EXCEPT ![r] = 0]
  /\ UNCHANGED <<workerVars, chanVars, teeVars>>

(***************************************************************************)
(* The tee task of generate_speech.                                        *)
(***************************************************************************)
\* Mutant of TeeStore: an error is stored like a waveform.
TeeStoresAnything(r) ==
  /\ tee[r] = "armed" /\ inner[r] # <<>>
  /\ tee' = [tee EXCEPT ![r] = "stored"]
  /\ \E kept \in SUBSET (cached \cup {TextOf[r]}) : cached' = kept
  /\ UNCHANGED <<workerVars, answerVars, callerVars, chanVars, inner>>

\* A waveform is written to the cache before it is forwarded.  The write may
\* fail, and the eviction after it may remove any entry, this one included.
TeeStore(r) ==
  /\ tee[r] = "armed" /\ inner[r] # <<>>
  /\ tee' = [tee EXCEPT ![r] = "stored"]
  /\ IF Head(inner[r]).kind = "error"
       THEN UNCHANGED cached
       ELSE \E kept \in SUBSET (cached \cup {TextOf[r]}) : cached' = kept
  /\ UNCHANGED <<workerVars, answerVars, callerVars, chanVars, inner>>

\* The result goes to the caller, if it still waits; both oneshots are spent.
TeeForward(r) ==
  /\ tee[r] = "stored"
  /\ tee' = [tee EXCEPT ![r] = "none"]
  /\ inner' = [inner EXCEPT ![r] = <<>>]
  /\ txLive' = [txLive EXCEPT ![r] = FALSE]
  /\ chan' = IF caller[r] = "left" THEN chan
             ELSE [chan EXCEPT ![r] = Append(@, Head(inner[r]))]
  /\ UNCHANGED <<workerVars, answerVars, callerVars, cached>>

-----------------------------------------------------------------------------
Worker ==
  \/ BlockingRecv \/ CheckCaller
  \/ GenerateWhole \/ NextChunk \/ StreamEnds \/ ModelErrs \/ ModelPanics
  \/ BlockingSend \/ SendToTee \/ DropRequest \/ Settle

Receive(r) == RecvError(r) \/ RecvPiece(r) \/ RecvClosed(r)
Write(r) == WriteOk(r) \/ WriteFails(r)

Next ==
  \/ Worker
  \/ \E r \in Requests :
       \/ AskHit(r) \/ AskModel(r) \/ Enqueue(r)
       \/ Receive(r) \/ Write(r) \/ Stall(r) \/ Close(r) \/ Abandon(r) \/ Forget(r)
       \/ TeeStore(r) \/ TeeForward(r)

(***************************************************************************)
(* The worker is a thread of its own and the model's calls return; a       *)
(* handler is polled when it can go on.  A streamed write is over after    *)
(* WRITE_TIMEOUT at the latest; a blob's closing writes have no timeout,   *)
(* so nothing is assumed of Close for a blob.  Nothing obliges a client to *)
(* ask, to stop reading or to go away.                                     *)
(***************************************************************************)
Fairness ==
  /\ WF_vars(Worker)
  /\ \A r \in Requests :
       /\ WF_vars(Enqueue(r)) /\ WF_vars(Receive(r)) /\ WF_vars(Write(r))
       /\ WF_vars(TeeStore(r)) /\ WF_vars(TeeForward(r))
       /\ (r \in Streamed => WF_vars(Close(r)))

Safety == Init /\ [][Next]_vars
Spec == Safety /\ Fairness

-----------------------------------------------------------------------------
(***************************************************************************)
(* Properties                                                              *)
(***************************************************************************)
\* Requests between fetch_add and tx.send.
Sending == {r \in Requests : caller[r] = "sending"}

\* pending_count is exactly the number of requests that are queued, being
\* processed, or between fetch_add and tx.send: it never leaks, whether a
\* request is answered, skipped, given up mid-stream, or panics
\* (TtsHandle::pending_count, runtime.rs 147).
PendingCountExact ==
  pending_count = Cardinality(Sending) + Len(queue)
                  + (IF pc = "recv" THEN 0 ELSE 1)

\* What waits in a channel is what the caller has not received, in the order
\* the model made it, with an error only as the last item; and the model is
\* never further ahead than the channel's capacity and the piece it holds.
\* (The capacity-2 channel of generate_speech_stream, `lets the worker produce
\* one chunk ahead'.)
ChannelInOrder ==
  \A r \in Requests :
    /\ \A i \in 1..Len(chan[r]) :
         IF chan[r][i].kind = "error" THEN i = Len(chan[r])
                                      ELSE chan[r][i].n = got[r] + i
    /\ caller[r] # "left" => made[r] <= got[r] + ChunkCap + 1

\* A caller that is told its answer is complete has received every piece of
\* it, and the model did not fail on the way: an answer cut short by an error,
\* a panic or a lost sender is never taken for a whole one (the None arms of
\* handle_synthesize_streaming and handle_transcribe_streaming).
EndedIsWhole ==
  \A r \in Requests : outcome[r] = "ended" => got[r] = made[r] /\ ~faulted[r]

\* Once its caller has gone, the thread begins no piece for a request: it
\* finishes the one it is making and stops (handle_connection `Cancellation':
\* it `checks for this before generation (and, for streaming, after each
\* chunk)').  The exception is what handle_connection does not mention: with a
\* cache, the channel the thread looks at is the tee's, and the waveform of a
\* caller who has gone is generated all the same, once, for the cache.
LittleLateWork ==
  \A r \in Requests : late[r] <= IF Cacheable(r) THEN 1 ELSE 0

\* The cache only ever answers with the waveform of a generation that
\* succeeded: at the moment a text enters the cache, the request that brings
\* it there was generated without an error (the Ok(ref audio) of the tee).
OnlySuccessCached ==
  [][\A r \in Requests :
       (tee[r] = "armed" /\ tee'[r] = "stored" /\ cached' \ cached # {})
         => ~faulted[r] /\ made[r] = 1]_vars

\* A request that was queued is taken up by the thread, whatever its
\* predecessors' clients do: a client that stops reading cannot hold the
\* model's queue for ever (the purpose of WRITE_TIMEOUT, handler.rs 323-335).
QueueMoves == \A r \in Requests : InQueue(r) ~> ~InQueue(r)

\* A caller that waits is told an outcome or has gone (handle_connection's
\* handlers await rx without a timeout of their own).
CallerIsAnswered ==
  \A r \in Requests : caller[r] = "waiting" ~> outcome[r] # "none"

\* The thread, its queue and its channels are an implementation of the
\* service ModelRuntime documents.
Service == INSTANCE SpeechService WITH
  line <- queue,
  active <- IF pc \in {"recv", "settle"} THEN NoRequest ELSE cur,
  spoiled <- faulted,
  heard <- got,
  verdict <- outcome

ImplementsService == Service!Spec

-----------------------------------------------------------------------------
(***************************************************************************)
(* The inductive invariant behind TypeOK, PendingCountExact, ChannelInOrder*)
(* and EndedIsWhole (proved in ModelThreadProofs).  Its core speaks of the *)
(* thread and its counter; the rest of one request at a time.              *)
(***************************************************************************)
\* Nothing kills the thread, and it holds a request exactly while it is busy
\* with one.
ThreadInv ==
  /\ alive /\ pc # "dead"
  /\ pc = "recv" <=> cur = NoRequest
  /\ \A r \in Requests : tee[r] = "stored" => inner[r] # <<>>

Core == TypeOK /\ PendingCountExact /\ ThreadInv

\* No request is queued twice.
QueuedOnce == \A i, j \in 1..Len(queue) : queue[i] = queue[j] => i = j

\* A request on which nothing has been done yet.
Untouched(r) ==
  /\ made[r] = 0 /\ got[r] = 0 /\ ~faulted[r]
  /\ chan[r] = <<>> /\ inner[r] = <<>> /\ tee[r] # "stored"

\* A queued request is untouched, and not the one the thread holds.
QueuedInv(r) ==
  InQueue(r) =>
    /\ cur # r /\ caller[r] \in {"waiting", "left"}
    /\ outcome[r] # "ended" /\ txLive[r] /\ Untouched(r)

CallerInv(r) ==
  /\ caller[r] \in {"idle", "sending"} => cur # r /\ ~InQueue(r) /\ Untouched(r)
  /\ caller[r] = "idle" => tee[r] = "none"
  /\ caller[r] = "sending" \/ tee[r] # "none" => txLive[r]
  /\ inner[r] # <<>> => tee[r] # "none"
  /\ outcome[r] = "none" <=>
       caller[r] \in {"idle", "sending", "waiting", "writing", "stalled"}
  /\ caller[r] = "left" => chan[r] = <<>>
  /\ r \in Streamed => tee[r] = "none"
  /\ r \notin Streamed => caller[r] \notin {"writing", "stalled"}

\* What the thread is about to send is the newest piece, or an error.
HeldInv(r) ==
  cur = r =>
    /\ pc = "send" /\ held.kind # "error" =>
         held.n = made[r] /\ made[r] > 0 /\ ~faulted[r]
    /\ pc \in {"check", "generate"} => ~faulted[r]
    /\ pc \in {"check", "generate"} /\ r \notin Streamed => made[r] = 0
    /\ pc = "check" => made[r] = 0 /\ held.kind = "error"
    /\ pc \in {"check", "generate", "send", "drop"} /\ r \in Streamed => txLive[r]

LastIsError(s) == s # <<>> /\ s[Len(s)].kind = "error"

\* The order of what waits in a channel.
OrderInv(r) ==
  /\ Len(chan[r]) <= ChunkCap
  /\ \A i \in 1..Len(chan[r]) :
       IF chan[r][i].kind = "error" THEN i = Len(chan[r])
                                    ELSE chan[r][i].n = got[r] + i
  /\ LastIsError(chan[r]) /\ cur = r => pc \in {"drop", "settle"}

\* The thread will make no further piece of r.
NoMore(r) ==
  cur = r => \/ pc \in {"drop", "settle"}
             \/ r \in Streamed /\ pc = "generate" /\ held.kind = "final"
             \/ r \in Streamed /\ pc = "send" /\ held.kind = "error"

\* After the piece marked final there is none, nor after a blob's only piece.
LastPieceInv(r) ==
  \A i \in 1..Len(chan[r]) :
    chan[r][i].kind = "final" \/ (chan[r][i].kind = "chunk" /\ r \notin Streamed)
      => made[r] = got[r] + i /\ ~faulted[r] /\ NoMore(r)

\* An ended answer is whole, and grows no more.
EndedInv(r) ==
  outcome[r] = "ended" => got[r] = made[r] /\ ~faulted[r] /\ NoMore(r)

Errors(r) == IF LastIsError(chan[r]) THEN 1 ELSE 0
Owed(r) == IF cur = r /\ pc = "send" /\ held.kind # "error" THEN 1 ELSE 0

\* Every piece of a stream is received, in the channel, or about to be sent;
\* and so is the error of one that failed.
StreamInv(r) ==
  r \in Streamed =>
    /\ caller[r] # "left" =>
         made[r] + Errors(r) = got[r] + Len(chan[r]) + Owed(r)
    /\ caller[r] \in {"waiting", "writing", "stalled"} /\ faulted[r] =>
         LastIsError(chan[r]) \/ (cur = r /\ pc = "send" /\ held.kind = "error")

\* A blob is made once and travels through its oneshot, or through the tee's.
BlobInv(r) ==
  r \notin Streamed =>
    /\ made[r] <= 1
    /\ tee[r] # "none" => chan[r] = <<>> /\ got[r] = 0
                          /\ caller[r] \in {"sending", "waiting", "left"}
    /\ cur = r /\ pc \in {"check", "generate", "send"} =>
         /\ chan[r] = <<>> /\ inner[r] = <<>> /\ got[r] = 0
         /\ tee[r] # "stored" /\ outcome[r] # "ended"
    /\ cur = r /\ pc = "send" => held.kind # "final"
    /\ inner[r] # <<>> => /\ Len(inner[r]) = 1
                          /\ cur = r => pc \in {"drop", "settle"}
                          /\ inner[r][1].kind = "chunk" =>
                               inner[r][1].n = 1 /\ made[r] = 1 /\ ~faulted[r]
                          /\ inner[r][1].kind # "final"

RequestInv(r) ==
  /\ QueuedInv(r) /\ CallerInv(r) /\ HeldInv(r) /\ OrderInv(r)
  /\ LastPieceInv(r) /\ EndedInv(r) /\ StreamInv(r) /\ BlobInv(r)

Inv == Core /\ QueuedOnce /\ \A r \in Requests : RequestInv(r)
=============================================================================

------------------------- MODULE ModelThreadProofs -------------------------
(***************************************************************************)
(* The model thread, for every set of requests, capacity and setting of    *)
(* the cache.  First the core of ModelThread's invariant (types, the       *)
(* exactness of pending_count, a thread that nothing kills), one lemma per *)
(* action and one step per conjunct; then the rest of it, one request at a *)
(* time; and last what the thread, its queue, its channels, the cache tee  *)
(* and the handlers are to their callers: a service (SpeechService) that   *)
(* answers or refuses each request once, and that works at most one piece  *)
(* longer for a caller that has gone.                                      *)
(***************************************************************************)
EXTENDS ModelThread, TLAPS, FiniteSetTheorems, SequenceTheorems

-----------------------------------------------------------------------------
(***************************************************************************)
(* Types, pending_count and the thread                                     *)
(***************************************************************************)
USE DEF workerVars, answerVars, callerVars, chanVars, teeVars

\* Only finitely many requests can be between fetch_add and tx.send.
LEMMA SendingFinite == IsFiniteSet(Sending)
  BY ModelThreadAssumption, FS_Subset DEF Sending

\* The empty server is in order.
LEMMA Init_Core ==
  ASSUME Init
  PROVE  Core
<1>1. TypeOK
  BY DEF Init, TypeOK, CallerStates, WorkerStates, Item, Error
<1>2. PendingCountExact
  <2>1. Sending = {}
    BY DEF Init, Sending
  <2>2. Cardinality(Sending) = 0
    BY <2>1, FS_EmptySet
  <2> QED BY <2>2 DEF Init, PendingCountExact
<1>3. ThreadInv
  BY DEF Init, ThreadInv
<1> QED BY <1>1, <1>2, <1>3 DEF Core

(***************************************************************************)
(* The handle and the callers.                                             *)
(***************************************************************************)
\* A cache hit answers r and touches neither the queue nor the counter.
LEMMA AskHit_Core ==
  ASSUME Core, NEW r \in Requests, AskHit(r)
  PROVE  Core'
<1>1. TypeOK'
  BY ModelThreadAssumption DEF Core, TypeOK, ThreadInv, CallerStates,
      WorkerStates, Item, AskHit, Cacheable, Piece
<1>2. PendingCountExact'
  <2>1. Sending' = Sending
    BY DEF Core, TypeOK, Sending, AskHit, Cacheable, Piece
  <2> QED BY <2>1 DEF Core, ThreadInv, PendingCountExact, AskHit, Cacheable,
      Piece
<1>3. ThreadInv'
  BY DEF Core, TypeOK, ThreadInv, AskHit, Cacheable, Piece
<1> QED BY <1>1, <1>2, <1>3 DEF Core

\* r is counted before it is sent: the counter and Sending grow together.
LEMMA AskModel_Core ==
  ASSUME Core, NEW r \in Requests, AskModel(r)
  PROVE  Core'
<1>1. TypeOK'
  BY ModelThreadAssumption DEF Core, TypeOK, CallerStates, AskModel
<1>2. PendingCountExact'
  <2>1. Sending' = Sending \cup {r} /\ r \notin Sending
    BY DEF Core, TypeOK, Sending, AskModel
  <2>2. /\ Cardinality(Sending') = Cardinality(Sending) + 1
        /\ Cardinality(Sending) \in Nat
    BY <2>1, SendingFinite, FS_AddElement, FS_CardinalityType
  <2>3. UNCHANGED <<queue, pc>> /\ pending_count' = pending_count + 1
    BY DEF AskModel
  <2>4. Len(queue) \in Nat
    BY DEF Core, TypeOK
  <2> QED BY SMTT(30), <2>2, <2>3, <2>4 DEF Core, TypeOK, PendingCountExact
<1>3. ThreadInv'
  BY DEF Core, TypeOK, ThreadInv, AskModel
<1> QED BY <1>1, <1>2, <1>3 DEF Core

\* r moves from Sending to the end of the queue; the count stays.
LEMMA Enqueue_Core ==
  ASSUME Core, NEW r \in Requests, Enqueue(r)
  PROVE  Core'
<1>0. /\ queue' = Append(queue, r) /\ caller[r] = "sending"
      /\ caller' = [caller EXCEPT ![r] = "waiting"]
      /\ UNCHANGED <<pending_count, outcome, txLive, tee, alive, pc, cur, held,
                     answerVars, got, chan, inner, cached>>
  BY DEF Enqueue, Core, ThreadInv
<1>1. TypeOK'
  <2>1. queue' \in Seq(Requests)
    BY <1>0 DEF Core, TypeOK
  <2>2. caller' \in [Requests -> CallerStates]
    BY <1>0 DEF Core, TypeOK, CallerStates
  <2> QED BY <1>0, <2>1, <2>2 DEF Core, TypeOK
<1>2. PendingCountExact'
  <2>1. Sending' = Sending \ {r} /\ r \in Sending
    BY <1>0 DEF Core, TypeOK, Sending
  <2>2. /\ Cardinality(Sending') = Cardinality(Sending) - 1
        /\ Cardinality(Sending) \in Nat
    BY <2>1, SendingFinite, FS_RemoveElement, FS_CardinalityType
  <2>4. Len(queue) \in Nat /\ Len(queue') = Len(queue) + 1
    BY <1>0 DEF Core, TypeOK
  <2> QED BY <1>0, <2>2, <2>4 DEF Core, TypeOK, PendingCountExact
<1>3. ThreadInv'
  BY <1>0 DEF Core, TypeOK, ThreadInv
<1> QED BY <1>1, <1>2, <1>3 DEF Core

\* The caller takes the error that ends its answer.
LEMMA RecvError_Core ==
  ASSUME Core, NEW r \in Requests, RecvError(r)
  PROVE  Core'
<1>1. TypeOK'
  BY SMTT(30), ModelThreadAssumption DEF Core, TypeOK, ThreadInv, CallerStates,
      WorkerStates, Item, RecvError, Decide
<1>2. PendingCountExact'
  <2>1. Sending' = Sending
    BY DEF Core, TypeOK, Sending, RecvError, Decide
  <2> QED BY <2>1 DEF Core, ThreadInv, PendingCountExact, RecvError, Decide
<1>3. ThreadInv'
  BY DEF Core, TypeOK, ThreadInv, RecvError, Decide
<1> QED BY <1>1, <1>2, <1>3 DEF Core

\* RecvPiece keeps every variable in its type.
LEMMA RecvPiece_Type ==
  ASSUME Core, NEW r \in Requests, RecvPiece(r)
  PROVE  TypeOK'
<1>1. /\ chan[r] \in Seq(Item) /\ chan[r] # <<>>
      /\ chan' = [chan EXCEPT ![r] = Tail(@)]
  BY DEF Core, TypeOK, RecvPiece
<1>2. chan' \in [Requests -> Seq(Item)]
  BY <1>1 DEF Core, TypeOK
<1>3. /\ caller' \in [Requests -> CallerStates]
      /\ outcome' \in [Requests -> {"none", "ended", "failed", "dropped"}]
  BY DEF Core, TypeOK, RecvPiece, Decide, CallerStates
<1>4. got' \in [Requests -> Nat]
  BY SMTT(30) DEF Core, TypeOK, RecvPiece
<1> QED BY <1>2, <1>3, <1>4 DEF Core, TypeOK, RecvPiece

\* The caller takes the next piece.
LEMMA RecvPiece_Core ==
  ASSUME Core, NEW r \in Requests, RecvPiece(r)
  PROVE  Core'
<1>1. TypeOK'
  BY RecvPiece_Type
<1>2. PendingCountExact'
  <2>1. Sending' = Sending
    BY DEF Core, TypeOK, Sending, RecvPiece, Decide
  <2> QED BY <2>1 DEF Core, ThreadInv, PendingCountExact, RecvPiece, Decide
<1>3. ThreadInv'
  BY DEF Core, TypeOK, ThreadInv, RecvPiece, Decide
<1> QED BY <1>1, <1>2, <1>3 DEF Core

\* The caller finds its channel empty and closed.
LEMMA RecvClosed_Core ==
  ASSUME Core, NEW r \in Requests, RecvClosed(r)
  PROVE  Core'
<1>1. TypeOK'
  BY ModelThreadAssumption DEF Core, TypeOK, ThreadInv, CallerStates,
      WorkerStates, Item, RecvClosed, Decide
<1>2. PendingCountExact'
  <2>1. Sending' = Sending
    BY DEF Core, TypeOK, Sending, RecvClosed, Decide
  <2> QED BY <2>1 DEF Core, ThreadInv, PendingCountExact, RecvClosed, Decide
<1>3. ThreadInv'
  BY DEF Core, TypeOK, ThreadInv, RecvClosed, Decide
<1> QED BY <1>1, <1>2, <1>3 DEF Core

\* A written piece: the caller waits again.
LEMMA WriteOk_Core ==
  ASSUME Core, NEW r \in Requests, WriteOk(r)
  PROVE  Core'
<1>1. TypeOK'
  BY ModelThreadAssumption DEF Core, TypeOK, ThreadInv, CallerStates,
      WorkerStates, Item, WriteOk
<1>2. PendingCountExact'
  <2>1. Sending' = Sending
    BY DEF Core, TypeOK, Sending, WriteOk
  <2> QED BY <2>1 DEF Core, ThreadInv, PendingCountExact, WriteOk
<1>3. ThreadInv'
  BY DEF Core, TypeOK, ThreadInv, WriteOk
<1> QED BY <1>1, <1>2, <1>3 DEF Core

\* A failed or timed-out write: the caller leaves.
LEMMA WriteFails_Core ==
  ASSUME Core, NEW r \in Requests, WriteFails(r)
  PROVE  Core'
<1>1. TypeOK'
  BY ModelThreadAssumption DEF Core, TypeOK, ThreadInv, CallerStates,
      WorkerStates, Item, WriteFails, Leave
<1>2. PendingCountExact'
  <2>1. Sending' = Sending
    BY DEF Core, TypeOK, Sending, WriteFails, Leave
  <2> QED BY <2>1 DEF Core, ThreadInv, PendingCountExact, WriteFails, Leave
<1>3. ThreadInv'
  BY DEF Core, TypeOK, ThreadInv, WriteFails, Leave
<1> QED BY <1>1, <1>2, <1>3 DEF Core

\* The client stops reading.
LEMMA Stall_Core ==
  ASSUME Core, NEW r \in Requests, Stall(r)
  PROVE  Core'
<1>1. TypeOK'
  BY ModelThreadAssumption DEF Core, TypeOK, ThreadInv, CallerStates,
      WorkerStates, Item, Stall
<1>2. PendingCountExact'
  <2>1. Sending' = Sending
    BY DEF Core, TypeOK, Sending, Stall
  <2> QED BY <2>1 DEF Core, ThreadInv, PendingCountExact, Stall
<1>3. ThreadInv'
  BY DEF Core, TypeOK, ThreadInv, Stall
<1> QED BY <1>1, <1>2, <1>3 DEF Core

\* The closing events are written, or not: the caller leaves.
LEMMA Close_Core ==
  ASSUME Core, NEW r \in Requests, Close(r)
  PROVE  Core'
<1>1. TypeOK'
  BY SMTT(30), ModelThreadAssumption DEF Core, TypeOK, ThreadInv, CallerStates,
      WorkerStates, Item, Close, Leave
<1>2. PendingCountExact'
  <2>1. Sending' = Sending
    BY DEF Core, TypeOK, Sending, Close, Leave
  <2> QED BY <2>1 DEF Core, ThreadInv, PendingCountExact, Close, Leave
<1>3. ThreadInv'
  BY DEF Core, TypeOK, ThreadInv, Close, Leave
<1> QED BY <1>1, <1>2, <1>3 DEF Core

\* The handler's future is dropped: the caller leaves.
LEMMA Abandon_Core ==
  ASSUME Core, NEW r \in Requests, Abandon(r)
  PROVE  Core'
<1>1. TypeOK'
  BY ModelThreadAssumption DEF Core, TypeOK, ThreadInv, CallerStates,
      WorkerStates, Item, Abandon, Leave
<1>2. PendingCountExact'
  <2>1. Sending' = Sending
    BY DEF Core, TypeOK, Sending, Abandon, Leave
  <2> QED BY <2>1 DEF Core, ThreadInv, PendingCountExact, Abandon, Leave
<1>3. ThreadInv'
  BY DEF Core, TypeOK, ThreadInv, Abandon, Leave
<1> QED BY <1>1, <1>2, <1>3 DEF Core

\* The slot of a finished exchange is free again.
LEMMA Forget_Core ==
  ASSUME Core, NEW r \in Requests, Forget(r)
  PROVE  Core'
<1>1. TypeOK'
  BY ModelThreadAssumption DEF Core, TypeOK, ThreadInv, CallerStates,
      WorkerStates, Item, Forget
<1>2. PendingCountExact'
  <2>1. Sending' = Sending
    BY DEF Core, TypeOK, Sending, Forget
  <2> QED BY <2>1 DEF Core, ThreadInv, PendingCountExact, Forget
<1>3. ThreadInv'
  BY DEF Core, TypeOK, ThreadInv, Forget
<1> QED BY <1>1, <1>2, <1>3 DEF Core

(***************************************************************************)
(* The tee task.                                                           *)
(***************************************************************************)
\* TeeStore keeps every variable in its type.
LEMMA TeeStore_Type ==
  ASSUME Core, NEW r \in Requests, TeeStore(r)
  PROVE  TypeOK'
<1>1. TextOf[r] \in Texts
  BY ModelThreadAssumption
<1>2. cached' \subseteq Texts
  BY <1>1 DEF Core, TypeOK, TeeStore
<1>3. tee' \in [Requests -> {"none", "armed", "stored"}]
  BY DEF Core, TypeOK, TeeStore
<1> QED BY <1>2, <1>3 DEF Core, TypeOK, TeeStore

\* The tee offers a result to the cache.
LEMMA TeeStore_Core ==
  ASSUME Core, NEW r \in Requests, TeeStore(r)
  PROVE  Core'
<1>1. TypeOK'
  BY TeeStore_Type
<1>2. PendingCountExact'
  <2>1. Sending' = Sending
    BY DEF Sending, TeeStore
  <2> QED BY <2>1 DEF Core, ThreadInv, PendingCountExact, TeeStore
<1>3. ThreadInv'
  BY DEF Core, TypeOK, ThreadInv, TeeStore
<1> QED BY <1>1, <1>2, <1>3 DEF Core

\* TeeForward keeps every variable in its type.
LEMMA TeeForward_Type ==
  ASSUME Core, NEW r \in Requests, TeeForward(r)
  PROVE  TypeOK'
<1>1. Head(inner[r]) \in Item /\ inner[r] \in Seq(Item)
  BY DEF Core, TypeOK, ThreadInv, TeeForward
<1>2. chan' \in [Requests -> Seq(Item)]
  <2>1. Append(chan[r], Head(inner[r])) \in Seq(Item)
    BY <1>1 DEF Core, TypeOK
  <2> QED BY <2>1 DEF Core, TypeOK, TeeForward
<1>3. /\ tee' \in [Requests -> {"none", "armed", "stored"}]
      /\ inner' \in [Requests -> Seq(Item)]
      /\ txLive' \in [Requests -> BOOLEAN]
  BY DEF Core, TypeOK, TeeForward
<1> QED BY <1>2, <1>3 DEF Core, TypeOK, TeeForward

\* The tee passes the result on.
LEMMA TeeForward_Core ==
  ASSUME Core, NEW r \in Requests, TeeForward(r)
  PROVE  Core'
<1>1. TypeOK'
  BY TeeForward_Type
<1>2. PendingCountExact'
  <2>1. Sending' = Sending
    BY DEF Sending, TeeForward
  <2> QED BY <2>1 DEF Core, ThreadInv, PendingCountExact, TeeForward
<1>3. ThreadInv'
  BY DEF Core, TypeOK, ThreadInv, TeeForward
<1> QED BY <1>1, <1>2, <1>3 DEF Core

(***************************************************************************)
(* The thread.                                                             *)
(***************************************************************************)
\* The thread takes the oldest request; the count is the same.
LEMMA BlockingRecv_Core ==
  ASSUME Core, BlockingRecv
  PROVE  Core'
<1>0. /\ queue \in Seq(Requests) /\ queue # <<>>
      /\ queue' = Tail(queue) /\ cur' = Head(queue)
      /\ pc = "recv" /\ pc' = "check" /\ alive' = alive
      /\ UNCHANGED <<teeVars, callerVars, pending_count>>
  BY DEF Core, TypeOK, BlockingRecv
<1>1. TypeOK'
  BY SMTT(30) DEF Core, TypeOK, ThreadInv, WorkerStates, Item, BlockingRecv,
      Error
<1>2. /\ Len(queue') = Len(queue) - 1 /\ Len(queue) \in Nat
      /\ Head(queue) \in Requests
  BY <1>0
<1>3. PendingCountExact'
  <2>1. Sending' = Sending
    BY <1>0 DEF Sending
  <2>2. Cardinality(Sending) \in Nat
    BY SendingFinite, FS_CardinalityType
  <2> QED BY <1>0, <1>2, <2>1, <2>2 DEF Core, TypeOK, PendingCountExact
<1>4. ThreadInv'
  <2>1. cur' # NoRequest
    BY <1>0, <1>2, ModelThreadAssumption
  <2> QED BY <1>0, <2>1 DEF Core, ThreadInv
<1> QED BY <1>1, <1>3, <1>4 DEF Core

\* The thread skips a request, or begins it.
LEMMA CheckCaller_Core ==
  ASSUME Core, CheckCaller
  PROVE  Core'
<1>1. TypeOK'
  BY ModelThreadAssumption DEF Core, TypeOK, ThreadInv, CallerStates,
      WorkerStates, Item, CheckCaller, GoOn, ResponseClosed
<1>2. PendingCountExact'
  <2>1. Sending' = Sending
    BY DEF Sending, CheckCaller, GoOn, ResponseClosed
  <2> QED BY <2>1 DEF Core, ThreadInv, PendingCountExact, CheckCaller, GoOn,
      ResponseClosed
<1>3. ThreadInv'
  BY DEF Core, TypeOK, ThreadInv, CheckCaller, GoOn, ResponseClosed
<1> QED BY <1>1, <1>2, <1>3 DEF Core

\* The model makes a whole waveform or transcript.
LEMMA GenerateWhole_Core ==
  ASSUME Core, GenerateWhole
  PROVE  Core'
<1>1. TypeOK'
  BY SMTT(30), ModelThreadAssumption DEF Core, TypeOK, ThreadInv, CallerStates,
      WorkerStates, Item, GenerateWhole, Yield, Piece
<1>2. PendingCountExact'
  <2>1. Sending' = Sending
    BY DEF Sending, GenerateWhole, Yield, Piece
  <2> QED BY <2>1 DEF Core, ThreadInv, PendingCountExact, GenerateWhole,
      Yield, Piece
<1>3. ThreadInv'
  BY DEF Core, TypeOK, ThreadInv, GenerateWhole, Yield, Piece
<1> QED BY <1>1, <1>2, <1>3 DEF Core

\* The model makes the next piece of a stream.
LEMMA NextChunk_Core ==
  ASSUME Core, NextChunk
  PROVE  Core'
<1>1. TypeOK'
  BY SMTT(30), ModelThreadAssumption DEF Core, TypeOK, ThreadInv, CallerStates,
      WorkerStates, Item, NextChunk, Yield, Piece
<1>2. PendingCountExact'
  <2>1. Sending' = Sending
    BY DEF Sending, NextChunk, Yield, Piece
  <2> QED BY <2>1 DEF Core, ThreadInv, PendingCountExact, NextChunk, Yield,
      Piece
<1>3. ThreadInv'
  BY DEF Core, TypeOK, ThreadInv, NextChunk, Yield, Piece
<1> QED BY <1>1, <1>2, <1>3 DEF Core

\* The model has no further piece.
LEMMA StreamEnds_Core ==
  ASSUME Core, StreamEnds
  PROVE  Core'
<1>1. TypeOK'
  BY ModelThreadAssumption DEF Core, TypeOK, ThreadInv, CallerStates,
      WorkerStates, Item, StreamEnds
<1>2. PendingCountExact'
  <2>1. Sending' = Sending
    BY DEF Sending, StreamEnds
  <2> QED BY <2>1 DEF Core, ThreadInv, PendingCountExact, StreamEnds
<1>3. ThreadInv'
  BY DEF Core, TypeOK, ThreadInv, StreamEnds
<1> QED BY <1>1, <1>2, <1>3 DEF Core

\* The model returns an error.
LEMMA ModelErrs_Core ==
  ASSUME Core, ModelErrs
  PROVE  Core'
<1>1. TypeOK'
  BY ModelThreadAssumption DEF Core, TypeOK, ThreadInv, CallerStates,
      WorkerStates, Item, ModelErrs, Error
<1>2. PendingCountExact'
  <2>1. Sending' = Sending
    BY DEF Sending, ModelErrs, Error
  <2> QED BY <2>1 DEF Core, ThreadInv, PendingCountExact, ModelErrs, Error
<1>3. ThreadInv'
  BY DEF Core, TypeOK, ThreadInv, ModelErrs, Error
<1> QED BY <1>1, <1>2, <1>3 DEF Core

\* The model panics, and the panic is caught.
LEMMA ModelPanics_Core ==
  ASSUME Core, ModelPanics
  PROVE  Core'
<1>1. TypeOK'
  BY ModelThreadAssumption DEF Core, TypeOK, ThreadInv, CallerStates,
      WorkerStates, Item, ModelPanics, Error
<1>2. PendingCountExact'
  <2>1. Sending' = Sending
    BY DEF Sending, ModelPanics, Error
  <2> QED BY <2>1 DEF Core, ThreadInv, PendingCountExact, ModelPanics, Error
<1>3. ThreadInv'
  BY DEF Core, TypeOK, ThreadInv, ModelPanics, Error
<1> QED BY <1>1, <1>2, <1>3 DEF Core

\* BlockingSend keeps every variable in its type.
LEMMA BlockingSend_Type ==
  ASSUME Core, BlockingSend
  PROVE  TypeOK'
<1>0. cur \in Requests
  BY DEF Core, TypeOK, ThreadInv, BlockingSend, GoOn
<1>1. chan' \in [Requests -> Seq(Item)]
  <2>1. Append(chan[cur], held) \in Seq(Item)
    BY <1>0 DEF Core, TypeOK
  <2>2. chan' \in {chan, [chan EXCEPT ![cur] = Append(@, held)]}
    BY DEF BlockingSend
  <2> QED BY <1>0, <2>1, <2>2 DEF Core, TypeOK
<1>2. pc' \in WorkerStates
  BY DEF BlockingSend, GoOn, WorkerStates, AfterSend
<1>3. late' \in [Requests -> Nat]
  <2>1. \/ late' = [late EXCEPT ![cur] = @ + 1]
        \/ late' = [late EXCEPT ![cur] = @]
    BY DEF BlockingSend, GoOn
  <2>2. late \in [Requests -> Nat]
    BY DEF Core, TypeOK
  <2> QED BY <1>0, <2>1, <2>2
<1>4. UNCHANGED <<queue, pending_count, alive, cur, held, made, faulted,
                  callerVars, txLive, teeVars>>
  BY DEF BlockingSend
<1> QED BY <1>1, <1>2, <1>3, <1>4 DEF Core, TypeOK, callerVars, teeVars

\* The thread hands an item to the caller, or finds it gone.
LEMMA BlockingSend_Core ==
  ASSUME Core, BlockingSend
  PROVE  Core'
<1>1. TypeOK'
  BY BlockingSend_Type
<1>2. PendingCountExact'
  <2>1. Sending' = Sending
    BY DEF Sending, BlockingSend, GoOn, AfterSend
  <2> QED BY <2>1 DEF Core, ThreadInv, PendingCountExact, BlockingSend, GoOn,
      AfterSend
<1>3. ThreadInv'
  BY DEF Core, TypeOK, ThreadInv, BlockingSend, GoOn, AfterSend
<1> QED BY <1>1, <1>2, <1>3 DEF Core

\* The thread hands its result to the tee.
LEMMA SendToTee_Core ==
  ASSUME Core, SendToTee
  PROVE  Core'
<1>1. TypeOK'
  BY SMTT(30), ModelThreadAssumption DEF Core, TypeOK, ThreadInv, CallerStates,
      WorkerStates, Item, SendToTee
<1>2. PendingCountExact'
  <2>1. Sending' = Sending
    BY DEF Sending, SendToTee
  <2> QED BY <2>1 DEF Core, ThreadInv, PendingCountExact, SendToTee
<1>3. ThreadInv'
  BY DEF Core, TypeOK, ThreadInv, SendToTee
<1> QED BY <1>1, <1>2, <1>3 DEF Core

\* The handler of a request returns and drops its sender.
LEMMA DropRequest_Core ==
  ASSUME Core, DropRequest
  PROVE  Core'
<1>1. TypeOK'
  BY ModelThreadAssumption DEF Core, TypeOK, ThreadInv, CallerStates,
      WorkerStates, Item, DropRequest
<1>2. PendingCountExact'
  <2>1. Sending' = Sending
    BY DEF Sending, DropRequest
  <2> QED BY <2>1 DEF Core, ThreadInv, PendingCountExact, DropRequest
<1>3. ThreadInv'
  BY DEF Core, TypeOK, ThreadInv, DropRequest
<1> QED BY <1>1, <1>2, <1>3 DEF Core

\* The request is counted out, whatever became of it.
LEMMA Settle_Core ==
  ASSUME Core, Settle
  PROVE  Core'
<1>1. UNCHANGED Sending
  BY DEF Settle, Sending
<1>2. Cardinality(Sending) \in Nat /\ Len(queue) \in Nat
  BY SendingFinite, FS_CardinalityType DEF Core, TypeOK
<1>3. /\ pending_count' = Cardinality(Sending) + Len(queue)
      /\ UNCHANGED queue /\ pc' = "recv"
  BY <1>2 DEF Core, TypeOK, PendingCountExact, Settle
<1>4. TypeOK'
  <2>1. pending_count' \in Nat
    BY <1>2, <1>3
  <2> QED BY <2>1 DEF Core, TypeOK, Settle, WorkerStates
<1>5. PendingCountExact'
  BY <1>1, <1>2, <1>3 DEF PendingCountExact
<1>6. ThreadInv'
  BY DEF Core, ThreadInv, Settle
<1> QED BY <1>4, <1>5, <1>6 DEF Core

-----------------------------------------------------------------------------
\* Every step preserves the core.
LEMMA Next_Core ==
  ASSUME Core, [Next]_vars
  PROVE  Core'
<1>1. ASSUME NEW r \in Requests, AskHit(r) PROVE Core'
  BY <1>1, AskHit_Core
<1>2. ASSUME NEW r \in Requests, AskModel(r) PROVE Core'
  BY <1>2, AskModel_Core
<1>3. ASSUME NEW r \in Requests, Enqueue(r) PROVE Core'
  BY <1>3, Enqueue_Core
<1>4. ASSUME NEW r \in Requests, RecvError(r) PROVE Core'
  BY <1>4, RecvError_Core
<1>5. ASSUME NEW r \in Requests, RecvPiece(r) PROVE Core'
  BY <1>5, RecvPiece_Core
<1>6. ASSUME NEW r \in Requests, RecvClosed(r) PROVE Core'
  BY <1>6, RecvClosed_Core
<1>7. ASSUME NEW r \in Requests, WriteOk(r) PROVE Core'
  BY <1>7, WriteOk_Core
<1>8. ASSUME NEW r \in Requests, WriteFails(r) PROVE Core'
  BY <1>8, WriteFails_Core
<1>9. ASSUME NEW r \in Requests, Stall(r) PROVE Core'
  BY <1>9, Stall_Core
<1>10. ASSUME NEW r \in Requests, Close(r) PROVE Core'
  BY <1>10, Close_Core
<1>11. ASSUME NEW r \in Requests, Abandon(r) PROVE Core'
  BY <1>11, Abandon_Core
<1>12. ASSUME NEW r \in Requests, Forget(r) PROVE Core'
  BY <1>12, Forget_Core
<1>13. ASSUME NEW r \in Requests, TeeStore(r) PROVE Core'
  BY <1>13, TeeStore_Core
<1>14. ASSUME NEW r \in Requests, TeeForward(r) PROVE Core'
  BY <1>14, TeeForward_Core
<1>15. CASE BlockingRecv
  BY <1>15, BlockingRecv_Core
<1>16. CASE CheckCaller
  BY <1>16, CheckCaller_Core
<1>17. CASE GenerateWhole
  BY <1>17, GenerateWhole_Core
<1>18. CASE NextChunk
  BY <1>18, NextChunk_Core
<1>19. CASE StreamEnds
  BY <1>19, StreamEnds_Core
<1>20. CASE ModelErrs
  BY <1>20, ModelErrs_Core
<1>21. CASE ModelPanics
  BY <1>21, ModelPanics_Core
<1>22. CASE BlockingSend
  BY <1>22, BlockingSend_Core
<1>23. CASE SendToTee
  BY <1>23, SendToTee_Core
<1>24. CASE DropRequest
  BY <1>24, DropRequest_Core
<1>25. CASE Settle
  BY <1>25, Settle_Core
<1>26. CASE UNCHANGED vars
  BY <1>26 DEF vars, Core, TypeOK, ThreadInv, PendingCountExact, Sending
<1> QED BY <1>1, <1>2, <1>3, <1>4, <1>5, <1>6, <1>7, <1>8, <1>9, <1>10,
           <1>11, <1>12, <1>13, <1>14, <1>15, <1>16, <1>17, <1>18, <1>19,
           <1>20, <1>21, <1>22, <1>23, <1>24, <1>25, <1>26
        DEF Next, Worker, Receive, Write

\* The core holds in every reachable state.
THEOREM CoreInvariant == Spec => []Core
<1>1. Init => Core
  BY Init_Core
<1>2. Core /\ [Next]_vars => Core'
  BY Next_Core
<1> QED BY <1>1, <1>2, PTL DEF Spec, Safety

\* Every variable keeps its type, for any number of requests, any channel
\* capacity and any length of answer.
THEOREM TypeCorrect == Spec => []TypeOK
<1>1. Core => TypeOK
  BY DEF Core
<1> QED BY <1>1, CoreInvariant, PTL

\* pending_count never leaks and never underflows, whatever becomes of the
\* requests (TtsHandle::pending_count, AsrHandle::pending_count).
THEOREM CountIsExact == Spec => []PendingCountExact
<1>1. Core => PendingCountExact
  BY DEF Core
<1> QED BY <1>1, CoreInvariant, PTL

-----------------------------------------------------------------------------
(***************************************************************************)
(* Answers.  An action concerns one request r.  Every other request s      *)
(* keeps its part of the state (Same(s)), and so its invariant (Frame);    *)
(* for r there is one lemma per action, with a step per group of conjuncts *)
(* of RequestInv.                                                          *)
(***************************************************************************)
\* The step leaves everything about s alone.
Same(s) ==
  /\ caller'[s] = caller[s] /\ outcome'[s] = outcome[s] /\ got'[s] = got[s]
  /\ made'[s] = made[s] /\ faulted'[s] = faulted[s]
  /\ chan'[s] = chan[s] /\ txLive'[s] = txLive[s]
  /\ tee'[s] = tee[s] /\ inner'[s] = inner[s]
  /\ (cur' = s) <=> (cur = s)
  /\ cur = s => pc' = pc /\ held' = held
  /\ InQueue(s)' <=> InQueue(s)

\* A request the step leaves alone keeps its invariant.
LEMMA Frame ==
  ASSUME NEW s \in Requests, RequestInv(s), Same(s)
  PROVE  RequestInv(s)'
<1>1. QueuedInv(s)' /\ CallerInv(s)'
  BY DEF RequestInv, Same, QueuedInv, CallerInv, Untouched
<1>2. HeldInv(s)' /\ OrderInv(s)' /\ LastPieceInv(s)' /\ EndedInv(s)'
  BY DEF RequestInv, Same, HeldInv, OrderInv, LastIsError, LastPieceInv,
      EndedInv, NoMore
<1>3. StreamInv(s)' /\ BlobInv(s)'
  BY DEF RequestInv, Same, StreamInv, BlobInv, Errors, Owed, LastIsError
<1> QED BY <1>1, <1>2, <1>3 DEF RequestInv

\* A step that concerns r alone preserves the invariant of all if it
\* preserves that of r.
LEMMA Local ==
  ASSUME NEW r \in Requests, \A s \in Requests : RequestInv(s),
         RequestInv(r)', \A s \in Requests \ {r} : Same(s)
  PROVE  \A s \in Requests : RequestInv(s)'
<1>1. ASSUME NEW s \in Requests \ {r} PROVE RequestInv(s)'
  BY <1>1, Frame
<1> QED BY <1>1

\* What Append does.
LEMMA AppendFacts ==
  ASSUME NEW S, NEW s \in Seq(S), NEW x \in S
  PROVE  /\ Append(s, x) \in Seq(S) /\ Append(s, x) # <<>>
         /\ Len(s) \in Nat /\ Len(Append(s, x)) = Len(s) + 1
         /\ \A i \in 1..Len(s) : Append(s, x)[i] = s[i]
         /\ Append(s, x)[Len(s) + 1] = x
  OBVIOUS

\* What Tail does.
LEMMA TailFacts ==
  ASSUME NEW S, NEW s \in Seq(S), s # <<>>
  PROVE  /\ Tail(s) \in Seq(S) /\ Head(s) = s[1] /\ Head(s) \in S
         /\ Len(s) \in Nat \ {0} /\ Len(Tail(s)) = Len(s) - 1
         /\ \A i \in 1..Len(Tail(s)) :
              i + 1 \in 1..Len(s) /\ Tail(s)[i] = s[i + 1]
  OBVIOUS

\* Taking a piece from a channel does not move the error behind it.
LEMMA TailErrors ==
  ASSUME NEW s \in Seq(Item), s # <<>>
  PROVE  /\ Head(s).kind # "error" => (LastIsError(Tail(s)) <=> LastIsError(s))
         /\ LastIsError(Tail(s)) => LastIsError(s)
<1>1. CASE Len(s) = 1
  <2>1. Len(Tail(s)) = 0 /\ Tail(s) \in Seq(Item)
    BY <1>1, TailFacts
  <2>2. Tail(s) = <<>>
    BY <2>1, EmptySeq
  <2>3. Head(s) = s[Len(s)]
    BY <1>1, TailFacts
  <2> QED BY <2>2, <2>3 DEF LastIsError
<1>2. CASE Len(s) # 1
  <2>1. Len(Tail(s)) \in Nat \ {0} /\ Len(Tail(s)) + 1 = Len(s)
    BY <1>2, TailFacts
  <2>2. Tail(s) # <<>> /\ Tail(s)[Len(Tail(s))] = s[Len(s)]
    BY <2>1, TailFacts
  <2> QED BY <2>2 DEF LastIsError
<1> QED BY <1>1, <1>2, TailFacts

(***************************************************************************)
(* The handle and the callers.                                             *)
(***************************************************************************)
\* A cache hit answers r and touches neither the queue nor the counter.
LEMMA AskHit_Request ==
  ASSUME Core, QueuedOnce, NEW r \in Requests, RequestInv(r), AskHit(r)
  PROVE  RequestInv(r)' /\ QueuedOnce' /\ \A s \in Requests \ {r} : Same(s)
<1>1. \A s \in Requests \ {r} : Same(s)
  BY DEF Core, TypeOK, Same, InQueue, AskHit, Cacheable, Piece
<1>2. QueuedOnce'
  BY DEF QueuedOnce, AskHit
<1>3. QueuedInv(r)' /\ CallerInv(r)'
  BY DEF Core, TypeOK, RequestInv, QueuedInv, Untouched, CallerInv, InQueue,
      AskHit, Cacheable, Piece
<1>4. HeldInv(r)' /\ OrderInv(r)' /\ LastPieceInv(r)' /\ EndedInv(r)'
  BY ModelThreadAssumption DEF Core, TypeOK, RequestInv, HeldInv, CallerInv,
      Untouched, OrderInv, LastIsError, LastPieceInv, NoMore, EndedInv,
      InQueue, AskHit, Cacheable, Piece
<1>5. StreamInv(r)' /\ BlobInv(r)'
  BY DEF Core, TypeOK, RequestInv, StreamInv, Errors, Owed, LastIsError,
      BlobInv, CallerInv, Untouched, InQueue, AskHit, Cacheable, Piece
<1> QED BY <1>1, <1>2, <1>3, <1>4, <1>5 DEF RequestInv

\* r is counted before it is sent: the counter and Sending grow together.
LEMMA AskModel_Request ==
  ASSUME Core, QueuedOnce, NEW r \in Requests, RequestInv(r), AskModel(r)
  PROVE  RequestInv(r)' /\ QueuedOnce' /\ \A s \in Requests \ {r} : Same(s)
<1>1. \A s \in Requests \ {r} : Same(s)
  BY DEF Core, TypeOK, Same, InQueue, AskModel, Cacheable
<1>2. QueuedOnce'
  BY DEF QueuedOnce, AskModel
<1>3. QueuedInv(r)' /\ CallerInv(r)'
  BY DEF Core, TypeOK, RequestInv, QueuedInv, Untouched, CallerInv, InQueue,
      AskModel, Cacheable
<1>4. HeldInv(r)' /\ OrderInv(r)' /\ LastPieceInv(r)' /\ EndedInv(r)'
  BY DEF Core, TypeOK, RequestInv, HeldInv, OrderInv, LastIsError,
      LastPieceInv, NoMore, EndedInv, AskModel, Cacheable
<1>5. StreamInv(r)' /\ BlobInv(r)'
  BY DEF Core, TypeOK, RequestInv, StreamInv, Errors, Owed, LastIsError,
      BlobInv, CallerInv, Untouched, InQueue, AskModel, Cacheable
<1> QED BY <1>1, <1>2, <1>3, <1>4, <1>5 DEF RequestInv

\* A request joins the queue's end; the others keep their places.
LEMMA Enqueue_Others ==
  ASSUME Core, QueuedOnce, NEW r \in Requests, RequestInv(r), Enqueue(r)
  PROVE  QueuedOnce' /\ \A s \in Requests \ {r} : Same(s)
<1>1. /\ queue \in Seq(Requests) /\ queue' = Append(queue, r) /\ ~InQueue(r)
      /\ caller' = [caller EXCEPT ![r] = "waiting"]
      /\ UNCHANGED <<pending_count, outcome, txLive, tee, alive, pc, cur, held,
                     answerVars, got, chan, inner, cached>>
  BY DEF Core, TypeOK, ThreadInv, Enqueue, RequestInv, CallerInv
<1>2. /\ Len(queue) \in Nat /\ Len(queue') = Len(queue) + 1
      /\ \A i \in 1..Len(queue) : queue'[i] = queue[i]
      /\ queue'[Len(queue) + 1] = r
  BY <1>1, AppendFacts
<1>3. ASSUME NEW s \in Requests \ {r} PROVE InQueue(s)' <=> InQueue(s)
  BY <1>2 DEF InQueue
<1>4. \A s \in Requests \ {r} : Same(s)
  BY <1>1, <1>3 DEF Same, Core, TypeOK
<1>5. QueuedOnce'
  <2>1. ASSUME NEW i \in 1..Len(queue'), NEW j \in 1..Len(queue'),
               queue'[i] = queue'[j]
        PROVE  i = j
    <3>1. CASE i \in 1..Len(queue) /\ j \in 1..Len(queue)
      BY <1>2, <2>1, <3>1 DEF QueuedOnce
    <3>2. CASE i = Len(queue) + 1 \/ j = Len(queue) + 1
      BY <1>1, <1>2, <2>1, <3>2 DEF InQueue
    <3> QED BY <1>2, <3>1, <3>2
  <2> QED BY <2>1 DEF QueuedOnce
<1> QED BY <1>4, <1>5

\* r moves from Sending to the end of the queue; the count stays.
LEMMA Enqueue_Request ==
  ASSUME Core, QueuedOnce, NEW r \in Requests, RequestInv(r), Enqueue(r)
  PROVE  RequestInv(r)' /\ QueuedOnce' /\ \A s \in Requests \ {r} : Same(s)
<1>1. QueuedOnce' /\ \A s \in Requests \ {r} : Same(s)
  BY Enqueue_Others
<1>2. QueuedInv(r)'
  BY ModelThreadAssumption DEF Core, TypeOK, RequestInv, QueuedInv, InQueue,
      Untouched, CallerInv, Enqueue
<1>3. CallerInv(r)'
  BY SMTT(30), ModelThreadAssumption DEF Core, TypeOK, RequestInv, CallerInv,
      InQueue, Untouched, Enqueue
<1>4. HeldInv(r)' /\ OrderInv(r)' /\ LastPieceInv(r)' /\ EndedInv(r)'
  BY DEF Core, TypeOK, ThreadInv, RequestInv, HeldInv, OrderInv, LastIsError,
      LastPieceInv, NoMore, EndedInv, Enqueue
<1>5. StreamInv(r)' /\ BlobInv(r)'
  BY DEF Core, TypeOK, RequestInv, StreamInv, Errors, Owed, LastIsError,
      CallerInv, InQueue, Untouched, BlobInv, Enqueue
<1> QED BY <1>1, <1>2, <1>3, <1>4, <1>5 DEF RequestInv

\* An error is the last item of a channel, so it leaves it empty.
LEMMA RecvError_Answer ==
  ASSUME Core, NEW r \in Requests, RequestInv(r), RecvError(r)
  PROVE OrderInv(r)' /\ LastPieceInv(r)' /\ StreamInv(r)'
<1>1. /\ chan[r] \in Seq(Item) /\ chan[r] # <<>>
      /\ Head(chan[r]).kind = "error"
      /\ chan'[r] = Tail(chan[r])
      /\ caller'[r] = "closing" /\ outcome'[r] = "failed"
      /\ UNCHANGED <<made, got, cur, pc, held, faulted>>
      /\ made[r] \in Nat /\ got[r] \in Nat
      /\ caller[r] = "waiting"
  BY DEF Core, TypeOK, RecvError, Decide
<1>2. chan[r] = <<chan[r][1]>> /\ LastIsError(chan[r]) /\ chan'[r] = <<>>
  BY <1>1, TailFacts DEF RequestInv, OrderInv, LastIsError
<1>3. OrderInv(r)'
  BY <1>1, <1>2, ModelThreadAssumption DEF OrderInv, LastIsError
<1>4. LastPieceInv(r)'
  BY <1>2 DEF LastPieceInv
<1>5. StreamInv(r)'
  <2>1. Errors(r) = 1 /\ Errors(r)' = 0 /\ Owed(r)' = Owed(r)
    BY <1>1, <1>2 DEF Errors, Owed, LastIsError
  <2>2. Len(chan[r]) = 1 /\ Len(chan'[r]) = 0
    BY <1>2
  <2>3. Owed(r) \in Nat
    BY DEF Owed
  <2>4. r \in Streamed => made[r] = got[r] + Owed(r)
    <3>1. r \in Streamed =>
            made[r] + Errors(r) = got[r] + Len(chan[r]) + Owed(r)
      BY <1>1 DEF RequestInv, StreamInv
    <3>2. made[r] \in Nat /\ got[r] \in Nat
      BY <1>1
    <3> QED BY <2>1, <2>2, <2>3, <3>1, <3>2
  <2>5. r \in Streamed =>
          made'[r] + Errors(r)' = got'[r] + Len(chan'[r]) + Owed(r)'
    <3>1. made'[r] = made[r] /\ got'[r] = got[r]
      BY <1>1
    <3>2. made[r] + 0 = made[r] /\ got[r] + 0 = got[r]
      BY <1>1
    <3> QED BY <2>1, <2>2, <2>4, <3>1, <3>2
  <2> QED BY <1>1, <2>5 DEF StreamInv
<1> QED BY <1>3, <1>4, <1>5

\* The caller takes the error that ends its answer.
LEMMA RecvError_Request ==
  ASSUME Core, QueuedOnce, NEW r \in Requests, RequestInv(r), RecvError(r)
  PROVE  RequestInv(r)' /\ QueuedOnce' /\ \A s \in Requests \ {r} : Same(s)
<1>1. \A s \in Requests \ {r} : Same(s)
  BY DEF Core, TypeOK, Same, InQueue, RecvError, Decide
<1>2. QueuedOnce'
  BY DEF QueuedOnce, RecvError, Decide
<1>3. QueuedInv(r)' /\ CallerInv(r)'
  BY DEF Core, TypeOK, RequestInv, QueuedInv, Untouched, CallerInv, InQueue,
      RecvError, Decide
<1>4. HeldInv(r)' /\ EndedInv(r)'
  BY DEF Core, TypeOK, RequestInv, HeldInv, EndedInv, NoMore, RecvError,
      Decide
<1>5. BlobInv(r)'
  BY DEF Core, TypeOK, RequestInv, BlobInv, RecvError, Decide
<1>6. OrderInv(r)' /\ LastPieceInv(r)' /\ StreamInv(r)'
  BY RecvError_Answer
<1> QED BY <1>1, <1>2, <1>3, <1>4, <1>5, <1>6 DEF RequestInv

\* The channel without its oldest piece is still in order.
LEMMA RecvPiece_Answer ==
  ASSUME Core, NEW r \in Requests, RequestInv(r), RecvPiece(r)
  PROVE OrderInv(r)' /\ LastPieceInv(r)' /\ StreamInv(r)' /\ EndedInv(r)'
<1>1. /\ chan[r] \in Seq(Item) /\ chan[r] # <<>>
      /\ Head(chan[r]).kind # "error"
      /\ chan'[r] = Tail(chan[r]) /\ got'[r] = got[r] + 1
      /\ UNCHANGED <<made, cur, pc, held, faulted>>
      /\ made[r] \in Nat /\ got[r] \in Nat
      /\ caller[r] = "waiting" /\ caller'[r] # "left"
  BY DEF Core, TypeOK, RecvPiece, Decide
<1>2. /\ Len(chan[r]) \in Nat \ {0} /\ Len(chan'[r]) = Len(chan[r]) - 1
      /\ \A i \in 1..Len(chan'[r]) :
           i + 1 \in 1..Len(chan[r]) /\ chan'[r][i] = chan[r][i + 1]
      /\ Head(chan[r]) = chan[r][1] /\ Head(chan[r]) \in Item
  BY <1>1, TailFacts
<1>3. LastIsError(chan'[r]) <=> LastIsError(chan[r])
  BY <1>1, TailErrors
<1>4. OrderInv(r)'
  <2>1. ASSUME NEW i \in 1..Len(chan'[r])
        PROVE  IF chan'[r][i].kind = "error" THEN i = Len(chan'[r])
                                             ELSE chan'[r][i].n = got'[r] + i
    <3>1. /\ i + 1 \in 1..Len(chan[r]) /\ i \in Int
          /\ chan'[r][i] = chan[r][i + 1]
      BY <1>2
    <3>2. IF chan[r][i + 1].kind = "error" THEN i + 1 = Len(chan[r])
                                           ELSE chan[r][i + 1].n = got[r] + (i + 1)
      BY <3>1 DEF RequestInv, OrderInv
    <3>3. CASE chan'[r][i].kind = "error"
      BY <1>2, <3>1, <3>2, <3>3
    <3>4. CASE chan'[r][i].kind # "error"
      <4>1. chan'[r][i].n = got[r] + (i + 1)
        BY <3>1, <3>2, <3>4
      <4>2. got[r] + (i + 1) = got'[r] + i
        BY SMTT(30), <1>1, <3>1
      <4> QED BY <3>4, <4>1, <4>2
    <3> QED BY <3>3, <3>4
  <2>2. Len(chan'[r]) <= ChunkCap
    BY <1>2, ModelThreadAssumption DEF RequestInv, OrderInv
  <2>3. LastIsError(chan'[r]) /\ cur' = r => pc' \in {"drop", "settle"}
    BY <1>1, <1>3 DEF RequestInv, OrderInv
  <2> QED BY <2>1, <2>2, <2>3 DEF OrderInv
<1>5. LastPieceInv(r)'
  <2>1. SUFFICES ASSUME NEW i \in 1..Len(chan'[r]),
                        \/ chan'[r][i].kind = "final"
                        \/ chan'[r][i].kind = "chunk" /\ r \notin Streamed
                 PROVE  made'[r] = got'[r] + i /\ ~faulted'[r] /\ NoMore(r)'
    BY DEF LastPieceInv
  <2>2. i + 1 \in 1..Len(chan[r]) /\ chan'[r][i] = chan[r][i + 1] /\ i \in Int
    BY <1>2
  <2>3. made[r] = got[r] + (i + 1) /\ ~faulted[r] /\ NoMore(r)
    BY <2>1, <2>2 DEF RequestInv, LastPieceInv
  <2> QED BY SMTT(30), <1>1, <2>2, <2>3 DEF NoMore
<1>6. StreamInv(r)'
  <2>1. /\ Errors(r)' = Errors(r) /\ Owed(r)' = Owed(r)
        /\ Errors(r) \in Nat /\ Owed(r) \in Nat
    BY <1>1, <1>3 DEF Errors, Owed
  <2>2. r \in Streamed => made[r] + Errors(r) = got[r] + Len(chan[r]) + Owed(r)
    BY <1>1 DEF RequestInv, StreamInv
  <2>3. r \in Streamed =>
          made'[r] + Errors(r)' = got'[r] + Len(chan'[r]) + Owed(r)'
    BY <1>1, <1>2, <2>1, <2>2
  <2>4. r \in Streamed /\ faulted'[r] =>
          \/ LastIsError(chan'[r])
          \/ cur' = r /\ pc' = "send" /\ held'.kind = "error"
    BY <1>1, <1>3 DEF RequestInv, StreamInv
  <2> QED BY <2>3, <2>4 DEF StreamInv
<1>7. EndedInv(r)'
  <2>1. SUFFICES ASSUME outcome'[r] = "ended" PROVE EndedInv(r)'
    BY DEF EndedInv
  <2>2. r \notin Streamed \/ Head(chan[r]).kind = "final"
    BY <2>1 DEF RecvPiece, Core, TypeOK, Decide, RequestInv, CallerInv
  <2>3. made[r] = got[r] + 1 /\ ~faulted[r] /\ NoMore(r)
    BY <1>1, <1>2, <2>2 DEF RequestInv, LastPieceInv, Item
  <2> QED BY <1>1, <2>3 DEF EndedInv, NoMore
<1> QED BY <1>4, <1>5, <1>6, <1>7

\* The caller takes the next piece.
LEMMA RecvPiece_Request ==
  ASSUME Core, QueuedOnce, NEW r \in Requests, RequestInv(r), RecvPiece(r)
  PROVE  RequestInv(r)' /\ QueuedOnce' /\ \A s \in Requests \ {r} : Same(s)
<1>1. \A s \in Requests \ {r} : Same(s)
  BY DEF Core, TypeOK, Same, InQueue, RecvPiece, Decide
<1>2. QueuedOnce'
  BY DEF QueuedOnce, RecvPiece, Decide
<1>3. QueuedInv(r)' /\ CallerInv(r)'
  BY DEF Core, TypeOK, RequestInv, QueuedInv, Untouched, CallerInv, InQueue,
      RecvPiece, Decide
<1>4. HeldInv(r)'
  BY DEF Core, TypeOK, RequestInv, HeldInv, RecvPiece, Decide
<1>5. BlobInv(r)'
  BY DEF Core, TypeOK, RequestInv, BlobInv, RecvPiece, Decide
<1>6. OrderInv(r)' /\ LastPieceInv(r)' /\ EndedInv(r)' /\ StreamInv(r)'
  BY RecvPiece_Answer
<1> QED BY <1>1, <1>2, <1>3, <1>4, <1>5, <1>6 DEF RequestInv

\* A stream whose sender is gone and whose channel is empty is whole.
LEMMA RecvClosed_Answer ==
  ASSUME Core, NEW r \in Requests, RequestInv(r), RecvClosed(r)
  PROVE EndedInv(r)'
<1>1. CASE r \in Streamed
  <2>1. ~(cur = r /\ pc \in {"check", "generate", "send", "drop"})
    BY <1>1 DEF RecvClosed, RequestInv, HeldInv
  <2>2. /\ ~LastIsError(chan[r]) /\ Len(chan[r]) = 0 /\ Owed(r) = 0
        /\ caller[r] = "waiting" /\ made[r] \in Nat /\ got[r] \in Nat
    BY <2>1 DEF RecvClosed, LastIsError, Owed, Core, TypeOK
  <2>3. got[r] = made[r] /\ ~faulted[r]
    BY <1>1, <2>1, <2>2 DEF RequestInv, StreamInv, Errors
  <2>4. NoMore(r)
    BY <2>1, ModelThreadAssumption
    DEF NoMore, Core, TypeOK, ThreadInv, WorkerStates
  <2> QED BY <2>3, <2>4 DEF RecvClosed, EndedInv, NoMore
<1>2. CASE r \notin Streamed
  BY <1>2 DEF RecvClosed, Decide, EndedInv, Core, TypeOK
<1> QED BY <1>1, <1>2

\* The caller finds its channel empty and closed.
LEMMA RecvClosed_Request ==
  ASSUME Core, QueuedOnce, NEW r \in Requests, RequestInv(r), RecvClosed(r)
  PROVE  RequestInv(r)' /\ QueuedOnce' /\ \A s \in Requests \ {r} : Same(s)
<1>1. \A s \in Requests \ {r} : Same(s)
  BY DEF Core, TypeOK, Same, InQueue, RecvClosed, Decide
<1>2. QueuedOnce'
  BY DEF QueuedOnce, RecvClosed, Decide
<1>3. QueuedInv(r)' /\ CallerInv(r)'
  BY DEF Core, TypeOK, RequestInv, QueuedInv, Untouched, CallerInv, InQueue,
      RecvClosed, Decide
<1>4. HeldInv(r)' /\ OrderInv(r)' /\ LastPieceInv(r)'
  BY DEF Core, TypeOK, RequestInv, HeldInv, OrderInv, LastIsError,
      LastPieceInv, NoMore, RecvClosed, Decide
<1>5. StreamInv(r)' /\ BlobInv(r)'
  BY DEF Core, TypeOK, RequestInv, StreamInv, Errors, Owed, LastIsError,
      BlobInv, CallerInv, Untouched, InQueue, RecvClosed, Decide
<1>6. EndedInv(r)'
  BY RecvClosed_Answer
<1> QED BY <1>1, <1>2, <1>3, <1>4, <1>5, <1>6 DEF RequestInv

\* A written piece: the caller waits again.
LEMMA WriteOk_Request ==
  ASSUME Core, QueuedOnce, NEW r \in Requests, RequestInv(r), WriteOk(r)
  PROVE  RequestInv(r)' /\ QueuedOnce' /\ \A s \in Requests \ {r} : Same(s)
<1>1. \A s \in Requests \ {r} : Same(s)
  BY DEF Core, TypeOK, Same, InQueue, WriteOk
<1>2. QueuedOnce'
  BY DEF QueuedOnce, WriteOk
<1>3. QueuedInv(r)' /\ CallerInv(r)'
  BY DEF Core, TypeOK, RequestInv, QueuedInv, Untouched, CallerInv, InQueue,
      WriteOk
<1>4. HeldInv(r)' /\ OrderInv(r)' /\ LastPieceInv(r)' /\ EndedInv(r)'
  BY DEF Core, TypeOK, RequestInv, HeldInv, OrderInv, LastIsError,
      LastPieceInv, NoMore, EndedInv, WriteOk
<1>5. StreamInv(r)' /\ BlobInv(r)'
  BY DEF Core, TypeOK, RequestInv, StreamInv, Errors, Owed, LastIsError,
      BlobInv, WriteOk
<1> QED BY <1>1, <1>2, <1>3, <1>4, <1>5 DEF RequestInv

\* A failed or timed-out write: the caller leaves.
LEMMA WriteFails_Request ==
  ASSUME Core, QueuedOnce, NEW r \in Requests, RequestInv(r), WriteFails(r)
  PROVE  RequestInv(r)' /\ QueuedOnce' /\ \A s \in Requests \ {r} : Same(s)
<1>1. \A s \in Requests \ {r} : Same(s)
  BY DEF Core, TypeOK, Same, InQueue, WriteFails, Leave
<1>2. QueuedOnce'
  BY DEF QueuedOnce, WriteFails, Leave
<1>3. QueuedInv(r)' /\ CallerInv(r)'
  BY DEF Core, TypeOK, RequestInv, QueuedInv, Untouched, CallerInv, InQueue,
      WriteFails, Leave
<1>4. HeldInv(r)' /\ OrderInv(r)' /\ LastPieceInv(r)' /\ EndedInv(r)'
  BY ModelThreadAssumption DEF Core, TypeOK, RequestInv, HeldInv, OrderInv,
      LastIsError, LastPieceInv, NoMore, EndedInv, WriteFails, Leave
<1>5. StreamInv(r)' /\ BlobInv(r)'
  BY DEF Core, TypeOK, RequestInv, StreamInv, Errors, Owed, LastIsError,
      BlobInv, WriteFails, Leave
<1> QED BY <1>1, <1>2, <1>3, <1>4, <1>5 DEF RequestInv

\* The client stops reading.
LEMMA Stall_Request ==
  ASSUME Core, QueuedOnce, NEW r \in Requests, RequestInv(r), Stall(r)
  PROVE  RequestInv(r)' /\ QueuedOnce' /\ \A s \in Requests \ {r} : Same(s)
<1>1. \A s \in Requests \ {r} : Same(s)
  BY DEF Core, TypeOK, Same, InQueue, Stall
<1>2. QueuedOnce'
  BY DEF QueuedOnce, Stall
<1>3. QueuedInv(r)' /\ CallerInv(r)'
  BY DEF Core, TypeOK, RequestInv, QueuedInv, Untouched, CallerInv, InQueue,
      Stall
<1>4. HeldInv(r)' /\ OrderInv(r)' /\ LastPieceInv(r)' /\ EndedInv(r)'
  BY DEF Core, TypeOK, RequestInv, HeldInv, OrderInv, LastIsError,
      LastPieceInv, NoMore, EndedInv, Stall
<1>5. StreamInv(r)' /\ BlobInv(r)'
  BY DEF Core, TypeOK, RequestInv, StreamInv, Errors, Owed, LastIsError,
      BlobInv, Stall
<1> QED BY <1>1, <1>2, <1>3, <1>4, <1>5 DEF RequestInv

\* The closing events are written, or not: the caller leaves.
LEMMA Close_Request ==
  ASSUME Core, QueuedOnce, NEW r \in Requests, RequestInv(r), Close(r)
  PROVE  RequestInv(r)' /\ QueuedOnce' /\ \A s \in Requests \ {r} : Same(s)
<1>1. \A s \in Requests \ {r} : Same(s)
  BY DEF Core, TypeOK, Same, InQueue, Close, Leave
<1>2. QueuedOnce'
  BY DEF QueuedOnce, Close, Leave
<1>3. QueuedInv(r)' /\ CallerInv(r)'
  BY DEF Core, TypeOK, RequestInv, QueuedInv, Untouched, CallerInv, InQueue,
      Close, Leave
<1>4. HeldInv(r)' /\ OrderInv(r)' /\ LastPieceInv(r)' /\ EndedInv(r)'
  BY ModelThreadAssumption DEF Core, TypeOK, RequestInv, HeldInv, OrderInv,
      LastIsError, LastPieceInv, NoMore, EndedInv, Close, Leave
<1>5. StreamInv(r)' /\ BlobInv(r)'
  BY DEF Core, TypeOK, RequestInv, StreamInv, Errors, Owed, LastIsError,
      BlobInv, Close, Leave
<1> QED BY <1>1, <1>2, <1>3, <1>4, <1>5 DEF RequestInv

\* The handler's future is dropped: the caller leaves.
LEMMA Abandon_Request ==
  ASSUME Core, QueuedOnce, NEW r \in Requests, RequestInv(r), Abandon(r)
  PROVE  RequestInv(r)' /\ QueuedOnce' /\ \A s \in Requests \ {r} : Same(s)
<1>1. \A s \in Requests \ {r} : Same(s)
  BY DEF Core, TypeOK, Same, InQueue, Abandon, Leave
<1>2. QueuedOnce'
  BY DEF QueuedOnce, Abandon, Leave
<1>3. QueuedInv(r)' /\ CallerInv(r)'
  BY DEF Core, TypeOK, RequestInv, QueuedInv, Untouched, CallerInv, InQueue,
      Abandon, Leave
<1>4. HeldInv(r)' /\ OrderInv(r)' /\ LastPieceInv(r)' /\ EndedInv(r)'
  BY ModelThreadAssumption DEF Core, TypeOK, RequestInv, HeldInv, OrderInv,
      LastIsError, LastPieceInv, NoMore, EndedInv, Abandon, Leave
<1>5. StreamInv(r)' /\ BlobInv(r)'
  BY DEF Core, TypeOK, RequestInv, StreamInv, Errors, Owed, LastIsError,
      BlobInv, Abandon, Leave
<1> QED BY <1>1, <1>2, <1>3, <1>4, <1>5 DEF RequestInv

\* The slot of a finished exchange is free again.
LEMMA Forget_Request ==
  ASSUME Core, QueuedOnce, NEW r \in Requests, RequestInv(r), Forget(r)
  PROVE  RequestInv(r)' /\ QueuedOnce' /\ \A s \in Requests \ {r} : Same(s)
<1>1. \A s \in Requests \ {r} : Same(s)
  BY DEF Core, TypeOK, Same, InQueue, Forget
<1>2. QueuedOnce'
  BY DEF QueuedOnce, Forget
<1>3. QueuedInv(r)' /\ CallerInv(r)'
  BY DEF Core, TypeOK, RequestInv, QueuedInv, Untouched, CallerInv, InQueue,
      Forget
<1>4. HeldInv(r)' /\ OrderInv(r)' /\ LastPieceInv(r)' /\ EndedInv(r)'
  BY DEF Core, TypeOK, RequestInv, HeldInv, OrderInv, LastIsError, CallerInv,
      Untouched, LastPieceInv, NoMore, EndedInv, InQueue, Forget
<1>5. StreamInv(r)' /\ BlobInv(r)'
  BY DEF Core, TypeOK, RequestInv, StreamInv, Errors, Owed, LastIsError,
      CallerInv, Untouched, BlobInv, InQueue, Forget
<1> QED BY <1>1, <1>2, <1>3, <1>4, <1>5 DEF RequestInv

(***************************************************************************)
(* The tee task.                                                           *)
(***************************************************************************)
\* The tee offers a result to the cache.
LEMMA TeeStore_Request ==
  ASSUME Core, QueuedOnce, NEW r \in Requests, RequestInv(r), TeeStore(r)
  PROVE  RequestInv(r)' /\ QueuedOnce' /\ \A s \in Requests \ {r} : Same(s)
<1>1. \A s \in Requests \ {r} : Same(s)
  BY DEF Core, TypeOK, Same, InQueue, TeeStore
<1>2. QueuedOnce'
  BY DEF QueuedOnce, TeeStore
<1>3. QueuedInv(r)' /\ CallerInv(r)'
  BY DEF Core, TypeOK, RequestInv, QueuedInv, Untouched, CallerInv, InQueue,
      TeeStore
<1>4. HeldInv(r)' /\ OrderInv(r)' /\ LastPieceInv(r)' /\ EndedInv(r)'
  BY DEF Core, TypeOK, RequestInv, HeldInv, OrderInv, LastIsError,
      LastPieceInv, NoMore, EndedInv, TeeStore
<1>5. StreamInv(r)' /\ BlobInv(r)'
  BY DEF Core, TypeOK, RequestInv, StreamInv, Errors, Owed, LastIsError,
      BlobInv, TeeStore
<1> QED BY <1>1, <1>2, <1>3, <1>4, <1>5 DEF RequestInv

\* The tee's result is the only item of the caller's oneshot.
LEMMA TeeForward_Answer ==
  ASSUME Core, NEW r \in Requests, RequestInv(r), TeeForward(r)
  PROVE OrderInv(r)' /\ LastPieceInv(r)'
<1>1. CASE caller[r] = "left"
  BY <1>1 DEF TeeForward, RequestInv, OrderInv, LastPieceInv, NoMore
<1>2. CASE caller[r] # "left"
  <2>1. /\ tee[r] = "stored" /\ inner[r] # <<>> /\ r \notin Streamed
    BY DEF TeeForward, Core, ThreadInv, RequestInv, CallerInv
  <2>2. /\ chan[r] = <<>> /\ got[r] = 0
        /\ Len(inner[r]) = 1 /\ inner[r] \in Seq(Item)
        /\ cur = r => pc \in {"drop", "settle"}
        /\ inner[r][1].kind = "chunk" =>
             inner[r][1].n = 1 /\ made[r] = 1 /\ ~faulted[r]
        /\ inner[r][1].kind # "final"
    BY <2>1 DEF RequestInv, BlobInv, Core, TypeOK
  <2>3. Head(inner[r]) = inner[r][1] /\ inner[r][1] \in Item
    BY <2>2
  <2>5. chan'[r] = <<inner[r][1]>>
    BY <1>2, <2>2, <2>3 DEF TeeForward, Core, TypeOK
  <2>4. UNCHANGED <<got, made, faulted, cur, pc, held>>
    BY DEF TeeForward
  <2>6. OrderInv(r)'
    BY <2>2, <2>3, <2>4, <2>5, ModelThreadAssumption
    DEF OrderInv, LastIsError, Item
  <2>7. LastPieceInv(r)'
    BY <2>2, <2>3, <2>4, <2>5 DEF LastPieceInv, NoMore, Item
  <2> QED BY <2>6, <2>7
<1> QED BY <1>1, <1>2

\* The tee passes the result on.
LEMMA TeeForward_Request ==
  ASSUME Core, QueuedOnce, NEW r \in Requests, RequestInv(r), TeeForward(r)
  PROVE  RequestInv(r)' /\ QueuedOnce' /\ \A s \in Requests \ {r} : Same(s)
<1>1. \A s \in Requests \ {r} : Same(s)
  BY DEF Core, TypeOK, Same, InQueue, TeeForward
<1>2. QueuedOnce'
  BY DEF QueuedOnce, TeeForward
<1>3. QueuedInv(r)' /\ CallerInv(r)'
  BY DEF Core, TypeOK, RequestInv, QueuedInv, Untouched, CallerInv, InQueue,
      TeeForward
<1>4. HeldInv(r)' /\ EndedInv(r)'
  BY DEF Core, TypeOK, RequestInv, HeldInv, CallerInv, Untouched, EndedInv,
      NoMore, InQueue, TeeForward
<1>5. StreamInv(r)' /\ BlobInv(r)'
  BY DEF Core, TypeOK, RequestInv, StreamInv, Errors, Owed, LastIsError,
      CallerInv, Untouched, BlobInv, InQueue, TeeForward
<1>6. OrderInv(r)' /\ LastPieceInv(r)'
  BY TeeForward_Answer
<1> QED BY <1>1, <1>2, <1>3, <1>4, <1>5, <1>6 DEF RequestInv

\* The thread holds a request unless it waits for one.
LEMMA Busy ==
  ASSUME Core, pc # "recv"
  PROVE  cur \in Requests
  BY DEF Core, TypeOK, ThreadInv

(***************************************************************************)
(* The thread.                                                             *)
(***************************************************************************)
\* The oldest request becomes the current one; it is still untouched.
LEMMA BlockingRecv_Request ==
  ASSUME Core, QueuedOnce, NEW r \in Requests, RequestInv(r),
         BlockingRecv, cur' = r
  PROVE RequestInv(r)' /\ QueuedOnce' /\ \A s \in Requests \ {r} : Same(s)
<1>1. /\ queue \in Seq(Requests) /\ queue # <<>> /\ r = Head(queue)
      /\ queue' = Tail(queue) /\ cur = NoRequest /\ held'.kind = "error"
      /\ pc = "recv" /\ pc' = "check"
      /\ UNCHANGED <<made, faulted, late, caller, outcome, got, chan, txLive,
                     tee, inner, cached>>
  BY DEF BlockingRecv, Core, TypeOK, ThreadInv, Error
<1>2. /\ Len(queue) \in Nat \ {0} /\ Len(queue') = Len(queue) - 1
      /\ r = queue[1]
      /\ \A i \in 1..Len(queue') :
           i + 1 \in 1..Len(queue) /\ queue'[i] = queue[i + 1]
  BY <1>1, TailFacts
<1>3. ASSUME NEW s \in Requests \ {r} PROVE InQueue(s)' <=> InQueue(s)
  <2>1. ASSUME NEW i \in 1..Len(queue), queue[i] = s PROVE InQueue(s)'
    <3>1. i # 1 /\ i - 1 \in 1..Len(queue') /\ (i - 1) + 1 = i
      BY <1>2, <2>1
    <3> QED BY <1>2, <2>1, <3>1 DEF InQueue
  <2>2. ASSUME NEW i \in 1..Len(queue'), queue'[i] = s PROVE InQueue(s)
    BY <1>2, <2>2 DEF InQueue
  <2> QED BY <2>1, <2>2 DEF InQueue
<1>4. \A s \in Requests \ {r} : Same(s)
  BY <1>1, <1>3, ModelThreadAssumption DEF Same
<1>5. QueuedOnce'
  <2>1. ASSUME NEW i \in 1..Len(queue'), NEW j \in 1..Len(queue'),
               queue'[i] = queue'[j]
        PROVE  i = j
    <3>1. i + 1 = j + 1
      BY <1>2, <2>1 DEF QueuedOnce
    <3> QED BY <3>1
  <2> QED BY <2>1 DEF QueuedOnce
<1>6. InQueue(r) /\ ~InQueue(r)'
  <2>1. InQueue(r)
    BY <1>2 DEF InQueue
  <2>2. ASSUME NEW i \in 1..Len(queue'), queue'[i] = r PROVE FALSE
    <3>1. i + 1 = 1
      BY <1>2, <2>2 DEF QueuedOnce
    <3> QED BY <3>1
  <2> QED BY <2>1, <2>2 DEF InQueue
<1>7. /\ caller[r] \in {"waiting", "left"} /\ outcome[r] # "ended"
      /\ txLive[r] /\ Untouched(r)
  BY <1>6 DEF RequestInv, QueuedInv
<1>8. QueuedInv(r)' /\ CallerInv(r)'
  BY <1>1, <1>6, <1>7 DEF QueuedInv, RequestInv, CallerInv
<1>9. HeldInv(r)' /\ OrderInv(r)' /\ LastPieceInv(r)' /\ EndedInv(r)'
  BY <1>1, <1>7, ModelThreadAssumption
  DEF Untouched, HeldInv, OrderInv, LastIsError, LastPieceInv, EndedInv
<1>10. StreamInv(r)' /\ BlobInv(r)'
  <2>1. cur # r
    BY <1>1, ModelThreadAssumption
  <2> QED BY <1>1, <1>7, <2>1
      DEF RequestInv, StreamInv, BlobInv, Untouched, Errors, Owed, LastIsError
<1> QED BY <1>4, <1>5, <1>8, <1>9, <1>10 DEF RequestInv

\* The thread skips a request, or begins it.
LEMMA CheckCaller_Request ==
  ASSUME Core, QueuedOnce, NEW r \in Requests, RequestInv(r), cur = r,
         CheckCaller
  PROVE  RequestInv(r)' /\ QueuedOnce' /\ \A s \in Requests \ {r} : Same(s)
<1>1. \A s \in Requests \ {r} : Same(s)
  BY DEF Core, TypeOK, Same, InQueue, CheckCaller, GoOn, ResponseClosed
<1>2. QueuedOnce'
  BY DEF QueuedOnce, CheckCaller, GoOn
<1>3. QueuedInv(r)' /\ CallerInv(r)'
  BY DEF Core, TypeOK, RequestInv, QueuedInv, Untouched, CallerInv, InQueue,
      CheckCaller, GoOn, ResponseClosed
<1>4. HeldInv(r)' /\ OrderInv(r)' /\ LastPieceInv(r)' /\ EndedInv(r)'
  BY DEF Core, TypeOK, RequestInv, HeldInv, OrderInv, LastIsError,
      LastPieceInv, NoMore, EndedInv, CheckCaller, GoOn, ResponseClosed
<1>5. StreamInv(r)' /\ BlobInv(r)'
  BY DEF Core, TypeOK, RequestInv, StreamInv, Errors, Owed, LastIsError,
      BlobInv, CheckCaller, GoOn, ResponseClosed
<1> QED BY <1>1, <1>2, <1>3, <1>4, <1>5 DEF RequestInv

\* The model makes a whole waveform or transcript.
LEMMA GenerateWhole_Request ==
  ASSUME Core, QueuedOnce, NEW r \in Requests, RequestInv(r), cur = r,
         GenerateWhole
  PROVE  RequestInv(r)' /\ QueuedOnce' /\ \A s \in Requests \ {r} : Same(s)
<1>1. \A s \in Requests \ {r} : Same(s)
  BY DEF Core, TypeOK, Same, InQueue, GenerateWhole, Yield, Piece
<1>2. QueuedOnce'
  BY DEF QueuedOnce, GenerateWhole, Yield
<1>3. QueuedInv(r)' /\ CallerInv(r)'
  BY DEF Core, TypeOK, RequestInv, QueuedInv, Untouched, CallerInv, InQueue,
      GenerateWhole, Yield, Piece
<1>4. HeldInv(r)' /\ OrderInv(r)' /\ LastPieceInv(r)' /\ EndedInv(r)'
  BY DEF Core, TypeOK, RequestInv, HeldInv, OrderInv, LastIsError,
      LastPieceInv, NoMore, EndedInv, GenerateWhole, Yield, Piece
<1>5. StreamInv(r)' /\ BlobInv(r)'
  BY DEF Core, TypeOK, RequestInv, StreamInv, Errors, Owed, LastIsError,
      BlobInv, HeldInv, GenerateWhole, Yield, Piece
<1> QED BY <1>1, <1>2, <1>3, <1>4, <1>5 DEF RequestInv

\* The model makes the next piece of a stream.
LEMMA NextChunk_Request ==
  ASSUME Core, QueuedOnce, NEW r \in Requests, RequestInv(r), cur = r,
         NextChunk
  PROVE  RequestInv(r)' /\ QueuedOnce' /\ \A s \in Requests \ {r} : Same(s)
<1>1. \A s \in Requests \ {r} : Same(s)
  BY DEF Core, TypeOK, Same, InQueue, NextChunk, Yield, Piece
<1>2. QueuedOnce'
  BY DEF QueuedOnce, NextChunk, Yield
<1>3. QueuedInv(r)' /\ CallerInv(r)'
  BY DEF Core, TypeOK, RequestInv, QueuedInv, Untouched, CallerInv, InQueue,
      NextChunk, Yield, Piece
<1>4. HeldInv(r)' /\ OrderInv(r)' /\ LastPieceInv(r)' /\ EndedInv(r)'
  BY DEF Core, TypeOK, RequestInv, HeldInv, OrderInv, LastIsError,
      LastPieceInv, NoMore, EndedInv, NextChunk, Yield, Piece
<1>5. StreamInv(r)' /\ BlobInv(r)'
  BY DEF Core, TypeOK, RequestInv, StreamInv, Errors, Owed, LastIsError,
      BlobInv, NextChunk, Yield, Piece
<1> QED BY <1>1, <1>2, <1>3, <1>4, <1>5 DEF RequestInv

\* The model has no further piece.
LEMMA StreamEnds_Request ==
  ASSUME Core, QueuedOnce, NEW r \in Requests, RequestInv(r), cur = r,
         StreamEnds
  PROVE  RequestInv(r)' /\ QueuedOnce' /\ \A s \in Requests \ {r} : Same(s)
<1>1. \A s \in Requests \ {r} : Same(s)
  BY DEF Core, TypeOK, Same, InQueue, StreamEnds
<1>2. QueuedOnce'
  BY DEF QueuedOnce, StreamEnds
<1>3. QueuedInv(r)' /\ CallerInv(r)'
  BY DEF Core, TypeOK, RequestInv, QueuedInv, Untouched, CallerInv, InQueue,
      StreamEnds
<1>4. HeldInv(r)' /\ OrderInv(r)' /\ LastPieceInv(r)' /\ EndedInv(r)'
  BY DEF Core, TypeOK, RequestInv, HeldInv, OrderInv, LastIsError,
      LastPieceInv, NoMore, EndedInv, StreamEnds
<1>5. StreamInv(r)' /\ BlobInv(r)'
  BY DEF Core, TypeOK, RequestInv, StreamInv, Errors, Owed, LastIsError,
      BlobInv, StreamEnds
<1> QED BY <1>1, <1>2, <1>3, <1>4, <1>5 DEF RequestInv

\* The model returns an error.
LEMMA ModelErrs_Request ==
  ASSUME Core, QueuedOnce, NEW r \in Requests, RequestInv(r), cur = r,
         ModelErrs
  PROVE  RequestInv(r)' /\ QueuedOnce' /\ \A s \in Requests \ {r} : Same(s)
<1>1. \A s \in Requests \ {r} : Same(s)
  BY DEF Core, TypeOK, Same, InQueue, ModelErrs, Error
<1>2. QueuedOnce'
  BY DEF QueuedOnce, ModelErrs
<1>3. QueuedInv(r)' /\ CallerInv(r)'
  BY DEF Core, TypeOK, RequestInv, QueuedInv, Untouched, CallerInv, InQueue,
      ModelErrs, Error
<1>4. HeldInv(r)' /\ OrderInv(r)' /\ LastPieceInv(r)' /\ EndedInv(r)'
  BY DEF Core, TypeOK, RequestInv, HeldInv, OrderInv, LastIsError,
      LastPieceInv, NoMore, EndedInv, ModelErrs, Error
<1>5. StreamInv(r)' /\ BlobInv(r)'
  BY DEF Core, TypeOK, RequestInv, StreamInv, Errors, Owed, LastIsError,
      BlobInv, ModelErrs, Error
<1> QED BY <1>1, <1>2, <1>3, <1>4, <1>5 DEF RequestInv

\* The model panics, and the panic is caught.
LEMMA ModelPanics_Request ==
  ASSUME Core, QueuedOnce, NEW r \in Requests, RequestInv(r), cur = r,
         ModelPanics
  PROVE  RequestInv(r)' /\ QueuedOnce' /\ \A s \in Requests \ {r} : Same(s)
<1>1. \A s \in Requests \ {r} : Same(s)
  BY DEF Core, TypeOK, Same, InQueue, ModelPanics, Error
<1>2. QueuedOnce'
  BY DEF QueuedOnce, ModelPanics
<1>3. QueuedInv(r)' /\ CallerInv(r)'
  BY DEF Core, TypeOK, RequestInv, QueuedInv, Untouched, CallerInv, InQueue,
      ModelPanics, Error
<1>4. HeldInv(r)' /\ OrderInv(r)' /\ LastPieceInv(r)' /\ EndedInv(r)'
  BY DEF Core, TypeOK, RequestInv, HeldInv, OrderInv, LastIsError,
      LastPieceInv, NoMore, EndedInv, ModelPanics, Error
<1>5. StreamInv(r)' /\ BlobInv(r)'
  BY DEF Core, TypeOK, RequestInv, StreamInv, Errors, Owed, LastIsError,
      BlobInv, ModelPanics, Error
<1> QED BY <1>1, <1>2, <1>3, <1>4, <1>5 DEF RequestInv

\* The item sent is the one the caller's channel lacks.
LEMMA BlockingSend_Answer ==
  ASSUME Core, NEW r \in Requests, RequestInv(r), cur = r, BlockingSend
  PROVE OrderInv(r)' /\ LastPieceInv(r)' /\ StreamInv(r)'
<1>1. /\ pc = "send" /\ chan[r] \in Seq(Item) /\ held \in Item
      /\ made[r] \in Nat /\ got[r] \in Nat
      /\ UNCHANGED <<cur, held, made, faulted, got, caller, outcome>>
  BY DEF BlockingSend, GoOn, Core, TypeOK
<1>2. CASE caller[r] = "left"
  <2>1. chan' = chan /\ pc' = "drop" /\ chan[r] = <<>>
    BY <1>2 DEF BlockingSend, GoOn, RequestInv, CallerInv
  <2>2. OrderInv(r)' /\ LastPieceInv(r)'
    BY <1>1, <2>1, ModelThreadAssumption
    DEF OrderInv, LastPieceInv, LastIsError
  <2>3. StreamInv(r)'
    BY <1>1, <1>2, <2>1 DEF StreamInv
  <2> QED BY <2>2, <2>3
<1>3. CASE caller[r] # "left"
  <2>1. /\ Len(chan[r]) < ChunkCap /\ chan'[r] = Append(chan[r], held)
        /\ pc' = AfterSend
    BY <1>3 DEF BlockingSend, GoOn, Core, TypeOK
  <2>2. /\ Len(chan[r]) \in Nat /\ Len(chan'[r]) = Len(chan[r]) + 1
        /\ \A i \in 1..Len(chan[r]) : chan'[r][i] = chan[r][i]
        /\ chan'[r][Len(chan[r]) + 1] = held
    BY <1>1, <2>1, AppendFacts
  <2>3. LastIsError(chan'[r]) <=> held.kind = "error"
    BY <1>1, <2>1, <2>2, AppendFacts DEF LastIsError
  <2>4. ~LastIsError(chan[r])
    BY <1>1 DEF RequestInv, OrderInv
  <2>5. /\ r \in Streamed => made[r] = got[r] + Len(chan[r]) + Owed(r)
        /\ r \notin Streamed => /\ made[r] <= 1 /\ chan[r] = <<>> /\ got[r] = 0
                                /\ held.kind # "final"
    BY <1>1, <1>3, <2>4 DEF RequestInv, StreamInv, BlobInv, Errors
  <2>6. held.kind # "error" =>
          /\ held.n = made[r] /\ made[r] > 0 /\ ~faulted[r]
          /\ made[r] = got[r] + (Len(chan[r]) + 1)
    BY <1>1, <2>2, <2>5 DEF RequestInv, HeldInv, Owed
  <2>7. ~\E i \in 1..Len(chan[r]) : chan[r][i].kind = "error"
    BY <1>1, <2>2, <2>4 DEF RequestInv, OrderInv, LastIsError
  <2>8. /\ held.kind = "error" => pc' = "drop"
        /\ r \notin Streamed => pc' = "drop"
        /\ r \in Streamed /\ held.kind # "error" => pc' = "generate"
    BY <2>1 DEF AfterSend
  <2>9. OrderInv(r)'
    <3>1. ASSUME NEW i \in 1..Len(chan'[r])
          PROVE  IF chan'[r][i].kind = "error" THEN i = Len(chan'[r])
                                               ELSE chan'[r][i].n = got'[r] + i
      <4>1. CASE i \in 1..Len(chan[r])
        BY <1>1, <2>2, <2>7, <4>1 DEF RequestInv, OrderInv
      <4>2. CASE i = Len(chan[r]) + 1
        BY <1>1, <2>2, <2>6, <4>2
      <4> QED BY <2>2, <4>1, <4>2
    <3>2. Len(chan'[r]) <= ChunkCap
      BY <2>1, <2>2, ModelThreadAssumption
    <3>3. LastIsError(chan'[r]) => pc' \in {"drop", "settle"}
      BY <2>3, <2>8
    <3> QED BY <3>1, <3>2, <3>3 DEF OrderInv
  <2>10. LastPieceInv(r)'
    <3>1. SUFFICES ASSUME NEW i \in 1..Len(chan'[r]),
                          \/ chan'[r][i].kind = "final"
                          \/ chan'[r][i].kind = "chunk" /\ r \notin Streamed
                   PROVE  made'[r] = got'[r] + i /\ ~faulted'[r] /\ NoMore(r)'
      BY DEF LastPieceInv
    <3>2. CASE i \in 1..Len(chan[r])
      <4>1. r \in Streamed /\ chan[r][i].kind = "final"
        BY <2>2, <2>5, <3>1, <3>2
      <4>2. made[r] = got[r] + i /\ ~faulted[r] /\ NoMore(r)
        BY <3>2, <4>1 DEF RequestInv, LastPieceInv
      <4>3. held.kind = "error"
        BY <1>1, <4>2 DEF NoMore
      <4> QED BY <1>1, <2>8, <4>2, <4>3 DEF NoMore
    <3>3. CASE i = Len(chan[r]) + 1
      <4>1. held.kind # "error" /\ (held.kind = "final" \/ r \notin Streamed)
        BY <2>2, <3>1, <3>3
      <4> QED BY <1>1, <2>5, <2>6, <2>8, <3>3, <4>1 DEF NoMore
    <3> QED BY <2>2, <3>2, <3>3
  <2>11. StreamInv(r)'
    <3>1. /\ Owed(r)' = 0 /\ Errors(r)' = IF held.kind = "error" THEN 1 ELSE 0
          /\ Owed(r) = IF held.kind = "error" THEN 0 ELSE 1
      BY <1>1, <2>3, <2>8 DEF Owed, Errors, AfterSend
    <3>2. faulted[r] => held.kind = "error"
      BY <2>6
    <3>3. r \in Streamed =>
          made'[r] + Errors(r)' = got'[r] + Len(chan'[r]) + Owed(r)'
      BY <1>1, <2>2, <2>5, <3>1
    <3>4. faulted'[r] => LastIsError(chan'[r])
      BY <1>1, <2>3, <3>2
    <3> QED BY <3>3, <3>4 DEF StreamInv
  <2> QED BY <2>9, <2>10, <2>11
<1> QED BY <1>2, <1>3

\* The thread hands an item to the caller, or finds it gone.
LEMMA BlockingSend_Request ==
  ASSUME Core, QueuedOnce, NEW r \in Requests, RequestInv(r), cur = r,
         BlockingSend
  PROVE  RequestInv(r)' /\ QueuedOnce' /\ \A s \in Requests \ {r} : Same(s)
<1>1. \A s \in Requests \ {r} : Same(s)
  BY DEF Core, TypeOK, Same, InQueue, BlockingSend, GoOn, AfterSend
<1>2. QueuedOnce'
  BY DEF QueuedOnce, BlockingSend, GoOn
<1>3. QueuedInv(r)' /\ CallerInv(r)'
  BY DEF Core, TypeOK, RequestInv, QueuedInv, Untouched, CallerInv, InQueue,
      BlockingSend, GoOn, AfterSend
<1>4. HeldInv(r)' /\ EndedInv(r)'
  BY DEF Core, TypeOK, RequestInv, HeldInv, EndedInv, NoMore, BlockingSend, GoOn,
      AfterSend
<1>5. BlobInv(r)'
  BY DEF Core, TypeOK, RequestInv, BlobInv, BlockingSend, GoOn, AfterSend
<1>6. OrderInv(r)' /\ LastPieceInv(r)' /\ StreamInv(r)'
  BY BlockingSend_Answer
<1> QED BY <1>1, <1>2, <1>3, <1>4, <1>5, <1>6 DEF RequestInv

\* The tee receives a blob's only result.
LEMMA SendToTee_Answer ==
  ASSUME Core, NEW r \in Requests, RequestInv(r), cur = r, SendToTee
  PROVE BlobInv(r)'
<1>1. /\ pc = "send" /\ pc' = "drop" /\ tee[r] = "armed" /\ r \notin Streamed
      /\ inner' = [inner EXCEPT ![r] = Append(@, held)] /\ held \in Item
      /\ UNCHANGED <<cur, held, made, faulted, got, caller, outcome, chan,
                     tee>>
  BY DEF SendToTee, RequestInv, CallerInv, Core, TypeOK
<1>2. /\ inner[r] = <<>> /\ held.kind # "final"
      /\ held.kind # "error" => held.n = made[r] /\ made[r] > 0 /\ ~faulted[r]
  BY <1>1 DEF RequestInv, BlobInv, HeldInv
<1>3. inner'[r] = <<held>>
  BY <1>1, <1>2 DEF Core, TypeOK
<1>4. held.kind # "error" => made[r] = 1
  BY <1>1, <1>2 DEF RequestInv, BlobInv, Core, TypeOK
<1> QED BY <1>1, <1>2, <1>3, <1>4 DEF RequestInv, BlobInv

\* The thread hands its result to the tee.
LEMMA SendToTee_Request ==
  ASSUME Core, QueuedOnce, NEW r \in Requests, RequestInv(r), cur = r,
         SendToTee
  PROVE  RequestInv(r)' /\ QueuedOnce' /\ \A s \in Requests \ {r} : Same(s)
<1>1. \A s \in Requests \ {r} : Same(s)
  BY DEF Core, TypeOK, Same, InQueue, SendToTee
<1>2. QueuedOnce'
  BY DEF QueuedOnce, SendToTee
<1>3. QueuedInv(r)' /\ CallerInv(r)'
  BY DEF Core, TypeOK, RequestInv, QueuedInv, Untouched, CallerInv, InQueue,
      SendToTee
<1>4. HeldInv(r)' /\ OrderInv(r)' /\ LastPieceInv(r)' /\ EndedInv(r)'
  BY DEF Core, TypeOK, RequestInv, HeldInv, OrderInv, LastIsError,
      LastPieceInv, NoMore, EndedInv, SendToTee
<1>5. StreamInv(r)'
  BY DEF Core, TypeOK, RequestInv, StreamInv, Errors, Owed, LastIsError,
      CallerInv, Untouched, InQueue, SendToTee
<1>6. BlobInv(r)'
  BY SendToTee_Answer
<1> QED BY <1>1, <1>2, <1>3, <1>4, <1>5, <1>6 DEF RequestInv

\* The handler of a request returns and drops its sender.
LEMMA DropRequest_Request ==
  ASSUME Core, QueuedOnce, NEW r \in Requests, RequestInv(r), cur = r,
         DropRequest
  PROVE  RequestInv(r)' /\ QueuedOnce' /\ \A s \in Requests \ {r} : Same(s)
<1>1. \A s \in Requests \ {r} : Same(s)
  BY DEF Core, TypeOK, Same, InQueue, DropRequest
<1>2. QueuedOnce'
  BY DEF QueuedOnce, DropRequest
<1>3. QueuedInv(r)' /\ CallerInv(r)'
  BY DEF Core, TypeOK, RequestInv, QueuedInv, Untouched, CallerInv, InQueue,
      DropRequest
<1>4. HeldInv(r)' /\ OrderInv(r)' /\ LastPieceInv(r)' /\ EndedInv(r)'
  BY DEF Core, TypeOK, RequestInv, HeldInv, OrderInv, LastIsError,
      LastPieceInv, NoMore, EndedInv, DropRequest
<1>5. StreamInv(r)' /\ BlobInv(r)'
  BY DEF Core, TypeOK, RequestInv, StreamInv, Errors, Owed, LastIsError,
      BlobInv, DropRequest
<1> QED BY <1>1, <1>2, <1>3, <1>4, <1>5 DEF RequestInv

\* The request is counted out, whatever became of it.
LEMMA Settle_Request ==
  ASSUME Core, QueuedOnce, NEW r \in Requests, RequestInv(r), cur = r, Settle
  PROVE  RequestInv(r)' /\ QueuedOnce' /\ \A s \in Requests \ {r} : Same(s)
<1>1. \A s \in Requests \ {r} : Same(s)
  BY ModelThreadAssumption DEF Core, TypeOK, Same, InQueue, Settle
<1>2. QueuedOnce'
  BY DEF QueuedOnce, Settle
<1>3. QueuedInv(r)' /\ CallerInv(r)'
  BY DEF Core, TypeOK, RequestInv, QueuedInv, Untouched, CallerInv, InQueue,
      Settle
<1>4. HeldInv(r)' /\ OrderInv(r)' /\ LastPieceInv(r)' /\ EndedInv(r)'
  BY ModelThreadAssumption DEF Core, TypeOK, RequestInv, HeldInv, OrderInv,
      LastIsError, LastPieceInv, NoMore, EndedInv, Settle
<1>5. StreamInv(r)' /\ BlobInv(r)'
  BY ModelThreadAssumption DEF Core, TypeOK, RequestInv, StreamInv, Errors,
      Owed, LastIsError, BlobInv, Settle
<1> QED BY <1>1, <1>2, <1>3, <1>4, <1>5 DEF RequestInv

-----------------------------------------------------------------------------
\* The empty server satisfies the invariant of every request.
LEMMA Init_Inv ==
  ASSUME Init
  PROVE  Inv
<1>1. Core
  BY Init_Core
<1>2. QueuedOnce
  BY DEF Init, QueuedOnce
<1>3. ASSUME NEW r \in Requests PROVE RequestInv(r)
  <2>1. cur # r /\ ~InQueue(r)
    BY ModelThreadAssumption DEF Init, InQueue
  <2>2. /\ Untouched(r) /\ caller[r] = "idle"
        /\ outcome[r] = "none" /\ tee[r] = "none"
    BY DEF Init, Untouched
  <2>3. QueuedInv(r) /\ CallerInv(r)
    BY <2>1, <2>2 DEF QueuedInv, CallerInv, Untouched
  <2>4. HeldInv(r) /\ OrderInv(r) /\ LastPieceInv(r) /\ EndedInv(r)
    BY <2>1, <2>2, ModelThreadAssumption
    DEF HeldInv, OrderInv, LastIsError, LastPieceInv, EndedInv, Untouched
  <2>5. StreamInv(r) /\ BlobInv(r)
    BY <2>1, <2>2 DEF StreamInv, BlobInv, Errors, Owed, LastIsError, Untouched
  <2> QED BY <2>3, <2>4, <2>5 DEF RequestInv
<1> QED BY <1>1, <1>2, <1>3 DEF Inv

\* Every step preserves the invariant.
LEMMA Next_Inv ==
  ASSUME Inv, [Next]_vars
  PROVE  Inv'
<1>1. Core'
  BY Next_Core DEF Inv
<1>2. ASSUME NEW r \in Requests, AskHit(r) PROVE Inv'
  BY <1>1, <1>2, AskHit_Request, Local DEF Inv
<1>3. ASSUME NEW r \in Requests, AskModel(r) PROVE Inv'
  BY <1>1, <1>3, AskModel_Request, Local DEF Inv
<1>4. ASSUME NEW r \in Requests, Enqueue(r) PROVE Inv'
  BY <1>1, <1>4, Enqueue_Request, Local DEF Inv
<1>5. ASSUME NEW r \in Requests, RecvError(r) PROVE Inv'
  BY <1>1, <1>5, RecvError_Request, Local DEF Inv
<1>6. ASSUME NEW r \in Requests, RecvPiece(r) PROVE Inv'
  BY <1>1, <1>6, RecvPiece_Request, Local DEF Inv
<1>7. ASSUME NEW r \in Requests, RecvClosed(r) PROVE Inv'
  BY <1>1, <1>7, RecvClosed_Request, Local DEF Inv
<1>8. ASSUME NEW r \in Requests, WriteOk(r) PROVE Inv'
  BY <1>1, <1>8, WriteOk_Request, Local DEF Inv
<1>9. ASSUME NEW r \in Requests, WriteFails(r) PROVE Inv'
  BY <1>1, <1>9, WriteFails_Request, Local DEF Inv
<1>10. ASSUME NEW r \in Requests, Stall(r) PROVE Inv'
  BY <1>1, <1>10, Stall_Request, Local DEF Inv
<1>11. ASSUME NEW r \in Requests, Close(r) PROVE Inv'
  BY <1>1, <1>11, Close_Request, Local DEF Inv
<1>12. ASSUME NEW r \in Requests, Abandon(r) PROVE Inv'
  BY <1>1, <1>12, Abandon_Request, Local DEF Inv
<1>13. ASSUME NEW r \in Requests, Forget(r) PROVE Inv'
  BY <1>1, <1>13, Forget_Request, Local DEF Inv
<1>14. ASSUME NEW r \in Requests, TeeStore(r) PROVE Inv'
  BY <1>1, <1>14, TeeStore_Request, Local DEF Inv
<1>15. ASSUME NEW r \in Requests, TeeForward(r) PROVE Inv'
  BY <1>1, <1>15, TeeForward_Request, Local DEF Inv
<1>16. CASE BlockingRecv
  <2>1. PICK r \in Requests : cur' = r
    BY <1>16 DEF BlockingRecv, Inv, Core, TypeOK
  <2>2. /\ RequestInv(r)' /\ QueuedOnce'
        /\ \A s \in Requests \ {r} : Same(s)
    BY <1>16, <2>1, BlockingRecv_Request DEF Inv
  <2> QED BY <1>1, <2>1, <2>2, Local DEF Inv
<1>17. CASE CheckCaller
  BY <1>1, <1>17, CheckCaller_Request, Local, Busy DEF Inv, CheckCaller, GoOn
<1>18. CASE GenerateWhole
  BY <1>1, <1>18, GenerateWhole_Request, Local, Busy DEF Inv, GenerateWhole
<1>19. CASE NextChunk
  BY <1>1, <1>19, NextChunk_Request, Local, Busy DEF Inv, NextChunk
<1>20. CASE StreamEnds
  BY <1>1, <1>20, StreamEnds_Request, Local, Busy DEF Inv, StreamEnds
<1>21. CASE ModelErrs
  BY <1>1, <1>21, ModelErrs_Request, Local, Busy DEF Inv, ModelErrs
<1>22. CASE ModelPanics
  BY <1>1, <1>22, ModelPanics_Request, Local, Busy DEF Inv, ModelPanics
<1>23. CASE BlockingSend
  BY <1>1, <1>23, BlockingSend_Request, Local, Busy DEF Inv, BlockingSend, GoOn
<1>24. CASE SendToTee
  BY <1>1, <1>24, SendToTee_Request, Local, Busy DEF Inv, SendToTee
<1>25. CASE DropRequest
  BY <1>1, <1>25, DropRequest_Request, Local, Busy DEF Inv, DropRequest
<1>26. CASE Settle
  BY <1>1, <1>26, Settle_Request, Local, Busy DEF Inv, Settle
<1>27. CASE UNCHANGED vars
  <2>1. \A s \in Requests : Same(s)
    BY <1>27 DEF vars, Same, InQueue
  <2>2. QueuedOnce'
    BY <1>27 DEF vars, QueuedOnce, Inv
  <2> QED BY <1>1, <2>1, <2>2, Frame DEF Inv
<1> QED BY <1>2, <1>3, <1>4, <1>5, <1>6, <1>7, <1>8, <1>9, <1>10, <1>11,
           <1>12, <1>13, <1>14, <1>15, <1>16, <1>17, <1>18, <1>19, <1>20,
           <1>21, <1>22, <1>23, <1>24, <1>25, <1>26, <1>27
        DEF Next, Worker, Receive, Write

\* The invariant holds in every reachable state.
THEOREM Invariant == Spec => []Inv
<1>1. Init => Inv
  BY Init_Inv
<1>2. Inv /\ [Next]_vars => Inv'
  BY Next_Inv
<1> QED BY <1>1, <1>2, PTL DEF Spec, Safety

\* What waits in a caller's channel is what it lacks, in order, and the model
\* is at most ChunkCap + 1 pieces ahead of it.
THEOREM PiecesInOrder == Spec => []ChannelInOrder
<1>1. ASSUME Inv PROVE ChannelInOrder
  <2>1. SUFFICES ASSUME NEW r \in Requests, caller[r] # "left"
                 PROVE  made[r] <= got[r] + ChunkCap + 1
    BY <1>1 DEF Inv, RequestInv, OrderInv, ChannelInOrder
  <2>2. /\ made[r] \in Nat /\ got[r] \in Nat /\ Len(chan[r]) \in Nat
        /\ Len(chan[r]) <= ChunkCap /\ ChunkCap \in Nat
    BY <1>1, ModelThreadAssumption DEF Inv, Core, TypeOK, RequestInv, OrderInv
  <2>3. CASE r \in Streamed
    <3>1. made[r] + Errors(r) = got[r] + Len(chan[r]) + Owed(r)
      BY <1>1, <2>1, <2>3 DEF Inv, RequestInv, StreamInv
    <3>2. Errors(r) \in Nat /\ Owed(r) \in {0, 1}
      BY DEF Errors, Owed
    <3> QED BY SMTT(30), <2>2, <3>1, <3>2
  <2>4. CASE r \notin Streamed
    <3>1. made[r] <= 1
      BY <1>1, <2>4 DEF Inv, RequestInv, BlobInv
    <3> QED BY <2>2, <3>1
  <2> QED BY <2>3, <2>4
<1> QED BY <1>1, Invariant, PTL

\* A caller told that its answer is complete has all of it, and the model did
\* not fail on the way.
THEOREM EndedAnswersAreWhole == Spec => []EndedIsWhole
<1>1. ASSUME Inv PROVE EndedIsWhole
  BY <1>1 DEF Inv, RequestInv, EndedInv, EndedIsWhole
<1> QED BY <1>1, Invariant, PTL

\* Nothing but TeeStore changes the cache.
LEMMA StoreOnly ==
  ASSUME [Next]_vars, cached' \ cached # {}
  PROVE  \E s \in Requests : TeeStore(s)
<1>1. ~Worker
  BY DEF Worker, BlockingRecv, CheckCaller, GoOn, GenerateWhole, NextChunk,
      StreamEnds, ModelErrs, ModelPanics, BlockingSend, GoOn, SendToTee,
      DropRequest, Settle, Yield
<1>2. \A r \in Requests : ~AskHit(r) /\ ~AskModel(r) /\ ~Enqueue(r)
  BY DEF AskHit, AskModel, Enqueue
<1>3. \A r \in Requests : ~Receive(r) /\ ~Write(r) /\ ~Stall(r)
  BY DEF Receive, RecvError, RecvPiece, RecvClosed, Write, WriteOk,
      WriteFails, Stall, Leave
<1>4. \A r \in Requests : ~Close(r) /\ ~Abandon(r) /\ ~Forget(r)
                          /\ ~TeeForward(r)
  BY DEF Close, Abandon, Forget, TeeForward, Leave
<1>5. vars' # vars
  BY DEF vars
<1> QED BY <1>1, <1>2, <1>3, <1>4, <1>5 DEF Next

\* Only the waveform of a generation that succeeded enters the cache.
THEOREM CacheHoldsSuccesses == Spec => OnlySuccessCached
<1>1. ASSUME Inv, [Next]_vars, NEW r \in Requests,
             tee[r] = "armed", tee'[r] = "stored", cached' \ cached # {}
      PROVE  ~faulted[r] /\ made[r] = 1
  <2>1. TeeStore(r)
    <3>1. PICK s \in Requests : TeeStore(s)
      BY <1>1, StoreOnly
    <3>2. CASE s # r
      BY <1>1, <3>1, <3>2 DEF TeeStore, Inv, Core, TypeOK
    <3> QED BY <3>1, <3>2
  <2>2. inner[r] # <<>> /\ Head(inner[r]).kind # "error"
    BY <1>1, <2>1 DEF TeeStore
  <2>3. inner[r] \in Seq(Item) /\ r \notin Streamed
    BY <1>1 DEF Inv, Core, TypeOK, RequestInv, CallerInv
  <2>4. Head(inner[r]) = inner[r][1] /\ inner[r][1] \in Item
    BY <2>2, <2>3, TailFacts
  <2> QED BY <1>1, <2>2, <2>3, <2>4 DEF Inv, RequestInv, BlobInv, Item
<1>2. Inv /\ [Next]_vars =>
        [\A r \in Requests :
           (tee[r] = "armed" /\ tee'[r] = "stored" /\ cached' \ cached # {})
             => ~faulted[r] /\ made[r] = 1]_vars
  BY <1>1
<1> QED BY <1>2, Invariant, PTL DEF Spec, Safety, OnlySuccessCached

-----------------------------------------------------------------------------
(***************************************************************************)
(* Nothing is begun for a caller that has gone, but the one waveform of a  *)
(* request that the cache waits for (LittleLateWork).                      *)
(***************************************************************************)
\* A late waveform is the cache's and the only one: its request is not queued,
\* and the thread does not come back to where it begins.
LateRequest(r) ==
  /\ tee[r] # "none" => Cacheable(r)
  /\ late[r] <= IF Cacheable(r) THEN 1 ELSE 0
  /\ caller[r] # "left" => late[r] = 0
  /\ late[r] = 1 => ~InQueue(r) /\ (cur = r => pc # "check")

LateInv == \A r \in Requests : LateRequest(r)

\* What a request's own step leaves of the others, and of the thread.
LEMMA Late_Caller ==
  ASSUME TypeOK, LateInv, NEW r \in Requests,
         UNCHANGED <<queue, pc, cur>>,
         \A q \in Requests \ {r} :
           late'[q] = late[q] /\ caller'[q] = caller[q] /\ tee'[q] = tee[q],
         tee'[r] # "none" => tee[r] # "none" \/ Cacheable(r),
         caller'[r] = "left" => late'[r] = late[r],
         caller'[r] # "left" => late'[r] = 0
  PROVE  LateInv'
<1> SUFFICES ASSUME NEW q \in Requests PROVE LateRequest(q)'
  BY DEF LateInv
<1>1. LateRequest(q)
  BY DEF LateInv
<1>2. InQueue(q)' <=> InQueue(q)
  BY DEF InQueue
<1>5. Cacheable(q)' <=> Cacheable(q)
  BY DEF Cacheable
<1>6. late[q] \in Nat
  BY DEF TypeOK
<1>3. CASE q = r
  BY <1>1, <1>2, <1>3, <1>5, <1>6 DEF LateRequest
<1>4. CASE q # r
  BY <1>1, <1>2, <1>4, <1>5 DEF LateRequest
<1> QED BY <1>3, <1>4

\* A caller that does not leave and was not gone has no late piece.
LEMMA Late_Callers ==
  ASSUME TypeOK, LateInv, NEW r \in Requests,
         \/ AskHit(r) \/ AskModel(r) \/ RecvError(r) \/ RecvPiece(r)
         \/ RecvClosed(r) \/ WriteOk(r) \/ WriteFails(r) \/ Stall(r)
         \/ Close(r) \/ Abandon(r) \/ Forget(r)
  PROVE  LateInv'
<1> USE DEF TypeOK
<1>0. LateRequest(r)
  BY DEF LateInv
<1>1. CASE AskHit(r)
  BY <1>0, <1>1, Late_Caller DEF AskHit, LateRequest, workerVars, teeVars
<1>2. CASE AskModel(r)
  BY <1>0, <1>2, Late_Caller DEF AskModel, LateRequest, answerVars
<1>3. CASE RecvError(r)
  BY <1>0, <1>3, Late_Caller
  DEF RecvError, Decide, LateRequest, workerVars, answerVars, teeVars
<1>4. CASE RecvPiece(r)
  <2>1. /\ UNCHANGED <<queue, pc, cur, late, tee>>
        /\ caller[r] = "waiting"
        /\ \E s \in {"writing", "closing"} :
             caller' = [caller EXCEPT ![r] = s]
    BY <1>4 DEF RecvPiece, Decide, workerVars, answerVars, teeVars
  <2> QED BY <1>0, <2>1, Late_Caller DEF LateRequest
<1>5. CASE RecvClosed(r)
  BY <1>0, <1>5, Late_Caller
  DEF RecvClosed, Decide, LateRequest, workerVars, answerVars, teeVars
<1>6. CASE WriteOk(r) \/ Stall(r)
  BY <1>0, <1>6, Late_Caller
  DEF WriteOk, Stall, LateRequest, workerVars, answerVars, teeVars
<1>7. CASE WriteFails(r) \/ Close(r) \/ Abandon(r)
  BY <1>0, <1>7, Late_Caller
  DEF WriteFails, Close, Abandon, Leave, LateRequest, workerVars, answerVars,
      teeVars
<1>8. CASE Forget(r)
  BY <1>0, <1>8, Late_Caller DEF Forget, LateRequest, workerVars, teeVars
<1> QED BY <1>1, <1>2, <1>3, <1>4, <1>5, <1>6, <1>7, <1>8

\* The request that is queued was never late.
LEMMA Late_Enqueue ==
  ASSUME TypeOK, LateInv, NEW r \in Requests, Enqueue(r)
  PROVE  LateInv'
<1> USE DEF TypeOK
<1>1. /\ UNCHANGED <<pc, cur, late>> /\ caller[r] = "sending"
      /\ \E s \in {"waiting", "closing"} : caller' = [caller EXCEPT ![r] = s]
      /\ queue' \in {queue, Append(queue, r)}
      /\ tee' \in {tee, [tee EXCEPT ![r] = "none"]}
  BY DEF Enqueue, answerVars
<1> SUFFICES ASSUME NEW q \in Requests PROVE LateRequest(q)'
  BY DEF LateInv
<1>2. LateRequest(q)
  BY DEF LateInv
<1>5. Cacheable(q)' <=> Cacheable(q)
  BY DEF Cacheable
<1>6. tee'[q] # "none" => tee[q] # "none"
  BY <1>1
<1>3. CASE q = r
  BY <1>1, <1>2, <1>3, <1>5, <1>6 DEF LateRequest
<1>4. CASE q # r
  <2>1. ASSUME NEW i \in 1..Len(queue'), queue'[i] = q PROVE InQueue(q)
    <3>1. CASE queue' = queue
      BY <2>1, <3>1 DEF InQueue
    <3>2. CASE queue' = Append(queue, r)
      <4>1. i \in 1..Len(queue) /\ queue[i] = q
        BY SMTT(30), <1>4, <2>1, <3>2
      <4> QED BY <4>1 DEF InQueue
    <3> QED BY <1>1, <3>1, <3>2
  <2>2. InQueue(q)' => InQueue(q)
    BY <2>1 DEF InQueue
  <2> QED BY <1>1, <1>2, <1>4, <1>5, <1>6, <2>2 DEF LateRequest
<1> QED BY <1>3, <1>4

\* The tee touches nothing that is counted here.
LEMMA Late_Tee ==
  ASSUME TypeOK, LateInv, NEW r \in Requests, TeeStore(r) \/ TeeForward(r)
  PROVE  LateInv'
<1>1. UNCHANGED <<queue, pc, cur, late, caller>>
  BY DEF TeeStore, TeeForward, workerVars, answerVars, callerVars
<1>2. \A q \in Requests : tee'[q] # "none" => tee[q] # "none"
  BY DEF TeeStore, TeeForward, TypeOK
<1> QED BY <1>1, <1>2 DEF LateInv, LateRequest, InQueue, Cacheable

\* A request taken from the queue has no late piece.
LEMMA Late_BlockingRecv ==
  ASSUME TypeOK, LateInv, BlockingRecv
  PROVE  LateInv'
<1> SUFFICES ASSUME NEW q \in Requests PROVE LateRequest(q)'
  BY DEF LateInv
<1>1. LateRequest(q)
  BY DEF LateInv
<1>2. /\ queue # <<>> /\ cur' = Head(queue) /\ queue' = Tail(queue)
      /\ pc' = "check" /\ UNCHANGED <<late, caller, tee>>
  BY DEF BlockingRecv, answerVars, callerVars, teeVars
<1>3. queue \in Seq(Requests)
  BY DEF TypeOK
<1>4. InQueue(q)' => InQueue(q)
  BY <1>2, <1>3 DEF InQueue
<1>5. cur' = q => InQueue(q)
  BY <1>2, <1>3 DEF InQueue
<1>6. Cacheable(q)' <=> Cacheable(q)
  BY DEF Cacheable
<1> QED BY <1>1, <1>2, <1>4, <1>5, <1>6 DEF LateRequest

\* The thread looks at its channel: only a tee makes it go on for a caller that
\* has gone, and it does so for the first time.
LEMMA Late_CheckCaller ==
  ASSUME TypeOK, LateInv, cur \in Requests, ~InQueue(cur), CheckCaller
  PROVE  LateInv'
<1> SUFFICES ASSUME NEW q \in Requests PROVE LateRequest(q)'
  BY DEF LateInv
<1>1. LateRequest(q) /\ late \in [Requests -> Nat]
  BY DEF LateInv, TypeOK
<1>2. /\ UNCHANGED <<queue, cur, caller, tee>> /\ pc = "check"
      /\ pc' \in {"drop", "generate"}
      /\ late' = [late EXCEPT ![cur] = late'[cur]]
      /\ \/ late'[cur] = late[cur]
         \/ tee[cur] = "armed" /\ late'[cur] = late[cur] + 1
  BY <1>1 DEF CheckCaller, GoOn, ResponseClosed, callerVars, teeVars
<1>5. late'[cur] # late[cur] => caller[cur] = "left"
  BY <1>1 DEF CheckCaller, GoOn
<1>3. (InQueue(q)' <=> InQueue(q)) /\ (Cacheable(q)' <=> Cacheable(q))
  BY <1>2 DEF InQueue, Cacheable
<1>4. CASE q = cur
  <2>1. late[q] = 0
    BY <1>1, <1>2, <1>4 DEF LateRequest
  <2> QED BY <1>1, <1>2, <1>3, <1>4, <1>5, <2>1 DEF LateRequest
<1>6. CASE q # cur
  <2>1. late'[q] = late[q]
    BY <1>1, <1>2, <1>6
  <2> QED BY <1>1, <1>2, <1>3, <1>6, <2>1 DEF LateRequest
<1> QED BY <1>4, <1>6

\* The thread's other steps begin nothing.
LEMMA Late_Worker ==
  ASSUME TypeOK, LateInv, UNCHANGED <<queue, late, caller, tee>>,
         cur' \in {cur, NoRequest}, pc' # "check"
  PROVE  LateInv'
<1> SUFFICES ASSUME NEW q \in Requests PROVE LateRequest(q)'
  BY DEF LateInv
<1>1. LateRequest(q)
  BY DEF LateInv
<1>2. (InQueue(q)' <=> InQueue(q)) /\ (Cacheable(q)' <=> Cacheable(q))
  BY DEF InQueue, Cacheable
<1> QED BY <1>1, <1>2 DEF LateRequest

\* After a piece that was sent the next is begun, but then its caller is there.
LEMMA Late_BlockingSend ==
  ASSUME TypeOK, LateInv, BlockingSend
  PROVE  LateInv'
<1>1. late \in [Requests -> Nat]
  BY DEF TypeOK
<1>2. late' = late
  <2>1. CASE caller[cur] = "left"
    BY <1>1, <2>1 DEF BlockingSend, GoOn
  <2>2. CASE caller[cur] # "left"
    BY <1>1, <2>2 DEF BlockingSend, GoOn
  <2> QED BY <2>1, <2>2
<1>3. pc' # "check" /\ UNCHANGED <<queue, cur, caller, tee>>
  BY DEF BlockingSend, GoOn, AfterSend, callerVars, teeVars
<1> QED BY <1>2, <1>3, Late_Worker

\* Every step keeps late work in bounds.  That the request in hand is not also
\* queued, which Inv says, matters when a piece becomes late.
LEMMA Late_Next ==
  ASSUME Inv, LateInv, [Next]_vars
  PROVE  LateInv'
<1>12. TypeOK
  BY DEF Inv, Core
<1>0. pc # "recv" => cur \in Requests /\ ~InQueue(cur)
  <2>1. pc # "recv" => cur \in Requests
    BY <1>12 DEF Inv, Core, ThreadInv, TypeOK
  <2> QED BY <2>1 DEF Inv, RequestInv, QueuedInv
<1>1. ASSUME NEW r \in Requests,
             \/ AskHit(r) \/ AskModel(r) \/ RecvError(r) \/ RecvPiece(r)
             \/ RecvClosed(r) \/ WriteOk(r) \/ WriteFails(r) \/ Stall(r)
             \/ Close(r) \/ Abandon(r) \/ Forget(r)
      PROVE  LateInv'
  BY <1>1, <1>12, Late_Callers
<1>2. ASSUME NEW r \in Requests, Enqueue(r) PROVE LateInv'
  BY <1>2, <1>12, Late_Enqueue
<1>3. ASSUME NEW r \in Requests, TeeStore(r) \/ TeeForward(r) PROVE LateInv'
  BY <1>3, <1>12, Late_Tee
<1>4. CASE BlockingRecv
  BY <1>4, <1>12, Late_BlockingRecv
<1>5. CASE CheckCaller
  <2>1. pc # "recv"
    BY <1>5 DEF CheckCaller
  <2> QED BY <1>0, <1>5, <1>12, <2>1, Late_CheckCaller
<1>6. CASE GenerateWhole \/ NextChunk
  BY <1>6, <1>12, Late_Worker
  DEF GenerateWhole, NextChunk, Yield, callerVars, teeVars
<1>8. CASE StreamEnds \/ ModelErrs \/ ModelPanics
  BY <1>8, <1>12, Late_Worker
  DEF StreamEnds, ModelErrs, ModelPanics, answerVars, callerVars, teeVars
<1>9. CASE BlockingSend
  BY <1>9, <1>12, Late_BlockingSend
<1>10. CASE SendToTee \/ DropRequest \/ Settle
  BY <1>10, <1>12, Late_Worker
  DEF SendToTee, DropRequest, Settle, answerVars, callerVars, teeVars
<1>11. CASE UNCHANGED vars
  BY <1>11 DEF vars, LateInv, LateRequest, InQueue, Cacheable
<1> QED BY <1>1, <1>2, <1>3, <1>4, <1>5, <1>6, <1>8, <1>9, <1>10, <1>11
        DEF Next, Worker, Receive, Write

\* Once its caller has gone the thread begins no piece for a request, for any
\* number of requests and any length of answer, but the one waveform of a
\* request that goes through the cache (handle_connection, `Cancellation').
THEOREM LateWorkIsLittle == Spec => []LittleLateWork
<1>1. Init => LateInv
  BY DEF Init, LateInv, LateRequest, InQueue
<1>2. Inv /\ LateInv /\ [Next]_vars => LateInv'
  BY Late_Next
<1>3. LateInv => LittleLateWork
  BY DEF LateInv, LateRequest, LittleLateWork
<1> QED BY <1>1, <1>2, <1>3, Invariant, PTL DEF Spec, Safety
-----------------------------------------------------------------------------
(***************************************************************************)
(* The thread implements SpeechService.  One lemma per kind of step says   *)
(* which step of the service it is; Inv supplies what the service's guards *)
(* ask.                                                                    *)
(***************************************************************************)
\* What the service does in a step of the thread.
ServiceStep == Service!Next \/ UNCHANGED Service!vars

\* The server that has just started is the service at its start.
LEMMA Init_Service ==
  ASSUME Init
  PROVE  Service!Init
  BY DEF Init, Service!Init

\* A cache hit is an answer recalled, and a request that is queued is one the
\* service accepts: nothing of an earlier exchange is left of it.
LEMMA Asking_Service ==
  ASSUME Inv, NEW r \in Requests, AskHit(r) \/ AskModel(r) \/ Enqueue(r)
  PROVE  ServiceStep
<1>1. ASSUME caller[r] \in {"idle", "sending"}
      PROVE  Service!Fresh(r)
  <2>1. cur # r /\ ~InQueue(r) /\ made[r] = 0 /\ outcome[r] = "none"
    BY <1>1 DEF Inv, RequestInv, CallerInv, Untouched
  <2> QED
    BY <2>1, ModelThreadAssumption DEF Service!Fresh, Service!InLine, InQueue
<1>2. CASE AskHit(r)
  <2>1. Service!Recall(r)
    BY <1>1, <1>2 DEF AskHit, Service!Recall
  <2> QED BY <2>1 DEF ServiceStep, Service!Next
<1>3. CASE AskModel(r)
  BY <1>3 DEF AskModel, ServiceStep, Service!vars
<1>4. CASE Enqueue(r)
  <2>1. alive
    BY DEF Inv, Core, ThreadInv
  <2>2. Service!Accept(r)
    BY <1>1, <1>4, <2>1 DEF Enqueue, Service!Accept
  <2> QED BY <2>2 DEF ServiceStep, Service!Next
<1> QED BY <1>2, <1>3, <1>4

\* Who makes a piece, or fails to, works for a caller that was not told its
\* answer had ended.
LEMMA Making ==
  ASSUME Inv, pc = "generate", cur \in Streamed => held.kind # "final"
  PROVE  cur \in Requests /\ outcome[cur] # "ended" /\ ~faulted[cur]
<1>1. cur \in Requests
  BY DEF Inv, Core, TypeOK, ThreadInv
<1>2. RequestInv(cur)
  BY <1>1 DEF Inv
<1>3. ~faulted[cur]
  BY <1>2 DEF RequestInv, HeldInv
<1>4. outcome[cur] # "ended"
  BY <1>2 DEF RequestInv, EndedInv, NoMore, BlobInv
<1> QED BY <1>1, <1>3, <1>4

\* The model yields a piece.
LEMMA Yielding_Service ==
  ASSUME Inv, GenerateWhole \/ NextChunk
  PROVE  ServiceStep
<1>1. cur \in Requests /\ outcome[cur] # "ended" /\ ~faulted[cur]
  BY Making DEF GenerateWhole, NextChunk
<1>2. /\ pc = "generate" /\ pc' = "send"
      /\ made' = [made EXCEPT ![cur] = @ + 1]
      /\ UNCHANGED <<queue, cur, faulted, got, outcome>>
  BY DEF GenerateWhole, NextChunk, Yield
<1>3. Service!Make
  BY <1>1, <1>2, ModelThreadAssumption DEF Service!Make
<1> QED BY <1>3 DEF ServiceStep, Service!Next

\* The model fails, which after the final piece no longer counts.
LEMMA Failing_Service ==
  ASSUME Inv, ModelErrs \/ ModelPanics
  PROVE  ServiceStep
<1>1. /\ pc = "generate" /\ pc' = "send"
      /\ faulted' = [faulted EXCEPT ![cur] = held.kind # "final"]
      /\ UNCHANGED <<queue, cur, made, got, outcome>>
  BY DEF ModelErrs, ModelPanics
<1>2. cur \in Requests /\ RequestInv(cur) /\ faulted \in [Requests -> BOOLEAN]
  BY <1>1 DEF Inv, Core, TypeOK, ThreadInv
<1>3. ~faulted[cur]
  BY <1>1, <1>2 DEF RequestInv, HeldInv
<1>4. CASE held.kind # "final"
  <2>1. outcome[cur] # "ended"
    BY <1>1, <1>4, Making
  <2>2. faulted' = [faulted EXCEPT ![cur] = TRUE]
    BY <1>1, <1>4
  <2>3. Service!Spoil
    BY <1>1, <1>2, <1>3, <2>1, <2>2, ModelThreadAssumption DEF Service!Spoil
  <2> QED BY <2>3 DEF ServiceStep, Service!Next
<1>5. CASE held.kind = "final"
  <2>1. faulted' = [faulted EXCEPT ![cur] = FALSE]
    BY <1>1, <1>5
  <2>2. faulted' = faulted
    BY <1>2, <1>3, <2>1
  <2> QED BY <1>1, <2>2 DEF ServiceStep, Service!vars
<1> QED BY <1>4, <1>5

\* The rest of what the thread does: it begins, rests, or is not seen.
LEMMA Worker_Service ==
  ASSUME Inv, Worker
  PROVE  ServiceStep
<1>1. CASE BlockingRecv
  <2>1. Service!Begin
    BY <1>1 DEF BlockingRecv, Service!Begin
  <2> QED BY <2>1 DEF ServiceStep, Service!Next
<1>2. CASE CheckCaller
  BY <1>2 DEF CheckCaller, GoOn, ServiceStep, Service!vars
<1>3. CASE GenerateWhole \/ NextChunk
  BY <1>3, Yielding_Service
<1>4. CASE StreamEnds
  BY <1>4 DEF StreamEnds, ServiceStep, Service!vars
<1>5. CASE ModelErrs \/ ModelPanics
  BY <1>5, Failing_Service
<1>6. CASE BlockingSend \/ SendToTee
  <2>1. pc = "send" /\ pc' \in {"generate", "drop"}
        /\ UNCHANGED <<queue, cur, made, faulted, got, outcome>>
    BY <1>6 DEF BlockingSend, GoOn, SendToTee, AfterSend
  <2> QED BY <2>1 DEF ServiceStep, Service!vars
<1>7. CASE DropRequest
  <2>1. cur # NoRequest
    BY <1>7 DEF DropRequest, Inv, Core, ThreadInv
  <2>2. Service!Rest
    BY <1>7, <2>1 DEF DropRequest, Service!Rest
  <2> QED BY <2>2 DEF ServiceStep, Service!Next
<1>8. CASE Settle
  BY <1>8 DEF Settle, ServiceStep, Service!vars
<1> QED BY <1>1, <1>2, <1>3, <1>4, <1>5, <1>6, <1>7, <1>8 DEF Worker

\* A piece that waits in the channel was made and not heard before.
LEMMA WaitingPiece ==
  ASSUME Inv, NEW r \in Requests, RecvPiece(r)
  PROVE  /\ outcome[r] = "none" /\ got[r] < made[r]
         /\ r \notin Streamed \/ Head(chan[r]).kind = "final" =>
              got[r] + 1 = made[r] /\ ~faulted[r] /\ ~InQueue(r)
<1>1. /\ caller[r] = "waiting" /\ chan[r] # <<>>
      /\ Head(chan[r]).kind # "error"
  BY DEF RecvPiece
<1>2. /\ RequestInv(r) /\ chan[r] \in Seq(Item)
      /\ made[r] \in Nat /\ got[r] \in Nat
  BY DEF Inv, Core, TypeOK
<1>3. /\ Head(chan[r]) = chan[r][1] /\ Head(chan[r]) \in Item
      /\ Len(chan[r]) \in Nat \ {0}
  BY <1>1, <1>2, TailFacts
<1>4. outcome[r] = "none"
  BY <1>1, <1>2 DEF RequestInv, CallerInv
<1>5. ~InQueue(r)
  BY <1>1, <1>2 DEF RequestInv, QueuedInv, Untouched
<1>6. Head(chan[r]).kind \in {"chunk", "final"}
  BY <1>1, <1>3 DEF Item
<1>7. ASSUME r \notin Streamed \/ Head(chan[r]).kind = "final"
      PROVE  got[r] + 1 = made[r] /\ ~faulted[r]
  <2>1. 1 \in 1..Len(chan[r])
    BY <1>3
  <2> QED BY <1>2, <1>3, <1>6, <1>7, <2>1 DEF RequestInv, LastPieceInv
<1>8. ASSUME r \in Streamed
      PROVE  got[r] < made[r]
  <2>1. made[r] + Errors(r) = got[r] + Len(chan[r]) + Owed(r)
    BY <1>1, <1>2, <1>8 DEF RequestInv, StreamInv
  <2>2. Errors(r) \in {0, 1} /\ Owed(r) \in Nat
    BY DEF Errors, Owed
  <2>3. CASE Errors(r) = 0
    BY <1>2, <1>3, <2>1, <2>2, <2>3
  <2>4. CASE Errors(r) = 1
    <3>1. Len(chan[r]) # 1
      BY <1>1, <1>3, <2>4 DEF Errors, LastIsError
    <3>2. Len(chan[r]) \in Nat /\ Len(chan[r]) # 0
      BY <1>3
    <3>3. \A n \in Nat : n # 0 /\ n # 1 => n >= 2
      OBVIOUS
    <3>4. Len(chan[r]) >= 2
      BY <3>1, <3>2, <3>3
    <3> QED BY <1>2, <2>1, <2>2, <2>4, <3>2, <3>4
  <2> QED BY <2>2, <2>3, <2>4
<1>9. got[r] < made[r]
  BY <1>2, <1>7, <1>8
<1> QED BY <1>4, <1>5, <1>7, <1>9

\* The caller hears a piece, and may be done with it.
LEMMA RecvPiece_Service ==
  ASSUME Inv, NEW r \in Requests, RecvPiece(r)
  PROVE  ServiceStep
<1>1. got' = [got EXCEPT ![r] = @ + 1] /\ got'[r] = got[r] + 1
      /\ UNCHANGED <<queue, pc, cur, made, faulted>>
  BY DEF RecvPiece, Inv, Core, TypeOK
<1>2. \/ outcome' = outcome
      \/ outcome' = [outcome EXCEPT ![r] = "failed"]
      \/ /\ r \notin Streamed \/ Head(chan[r]).kind = "final"
         /\ outcome' = [outcome EXCEPT ![r] = "ended"]
  BY DEF RecvPiece, Decide
<1>3. Service!Hear(r)
  BY <1>1, <1>2, WaitingPiece DEF Service!Hear, Service!InLine, InQueue
<1> QED BY <1>3 DEF ServiceStep, Service!Next

\* A channel found closed ends a stream that is whole, or fails a blob.
LEMMA RecvClosed_Service ==
  ASSUME Inv, NEW r \in Requests, RecvClosed(r)
  PROVE  ServiceStep
<1>1. /\ caller[r] = "waiting" /\ chan[r] = <<>> /\ ~txLive[r]
      /\ UNCHANGED <<queue, pc, cur, made, faulted, got>>
      /\ outcome' = [outcome EXCEPT
                       ![r] = IF r \in Streamed THEN "ended" ELSE "failed"]
  BY DEF RecvClosed, Decide
<1>2. /\ RequestInv(r) /\ made[r] \in Nat /\ got[r] \in Nat
      /\ pc \in WorkerStates \ {"dead"}
  BY DEF Inv, Core, TypeOK, ThreadInv
<1>3. outcome[r] = "none"
  BY <1>1, <1>2 DEF RequestInv, CallerInv
<1>4. ASSUME r \in Streamed
      PROVE  /\ got[r] = made[r] /\ ~faulted[r] /\ ~InQueue(r)
             /\ cur = r => pc \in {"recv", "settle"}
  <2>1. cur = r => pc \in {"recv", "settle"}
    BY <1>1, <1>2, <1>4 DEF RequestInv, HeldInv, WorkerStates
  <2>2. ~InQueue(r)
    BY <1>1, <1>2 DEF RequestInv, QueuedInv
  <2>3. ~LastIsError(chan[r])
    BY <1>1 DEF LastIsError
  <2>4. ~faulted[r]
    BY <1>1, <1>2, <1>4, <2>1, <2>3 DEF RequestInv, StreamInv
  <2>5. Errors(r) = 0 /\ Owed(r) = 0 /\ Len(chan[r]) = 0
    BY <1>1, <2>1, <2>3 DEF Errors, Owed
  <2>6. made[r] + Errors(r) = got[r] + Len(chan[r]) + Owed(r)
    BY <1>1, <1>2, <1>4 DEF RequestInv, StreamInv
  <2> QED BY <1>2, <2>1, <2>2, <2>4, <2>5, <2>6
<1>5. Service!Conclude(r)
  BY <1>1, <1>3, <1>4, ModelThreadAssumption
  DEF Service!Conclude, Service!InLine, InQueue
<1> QED BY <1>5 DEF ServiceStep, Service!Next

\* A caller that leaves before it was told drops its answer.
LEMMA Leave_Service ==
  ASSUME Inv, NEW r \in Requests, Leave(r)
  PROVE  ServiceStep
<1>1. /\ UNCHANGED <<queue, pc, cur, made, faulted, got>>
      /\ outcome' = [outcome EXCEPT ![r] = IF @ = "none" THEN "dropped" ELSE @]
  BY DEF Leave
<1>2. CASE outcome[r] = "none"
  <2>1. Service!Conclude(r)
    BY <1>1, <1>2 DEF Service!Conclude
  <2> QED BY <2>1 DEF ServiceStep, Service!Next
<1>3. CASE outcome[r] # "none"
  <2>1. outcome' = outcome
    BY <1>1, <1>3 DEF Inv, Core, TypeOK
  <2> QED BY <1>1, <2>1 DEF ServiceStep, Service!vars
<1> QED BY <1>2, <1>3

\* The other steps of a caller and of its tee.
LEMMA Caller_Service ==
  ASSUME Inv, NEW r \in Requests,
         \/ RecvError(r) \/ WriteOk(r) \/ Stall(r) \/ Forget(r)
         \/ TeeStore(r) \/ TeeForward(r)
  PROVE  ServiceStep
<1>1. RequestInv(r)
  BY DEF Inv
<1>2. CASE RecvError(r)
  <2>1. outcome[r] = "none"
    BY <1>1, <1>2 DEF RecvError, RequestInv, CallerInv
  <2>2. Service!Conclude(r)
    BY <1>2, <2>1 DEF RecvError, Decide, Service!Conclude
  <2> QED BY <2>2 DEF ServiceStep, Service!Next
<1>3. CASE WriteOk(r) \/ Stall(r)
  BY <1>3 DEF WriteOk, Stall, ServiceStep, Service!vars
<1>4. CASE Forget(r)
  <2>1. outcome[r] # "none"
    BY <1>1, <1>4 DEF Forget, RequestInv, CallerInv
  <2>2. Service!Forget(r)
    BY <1>4, <2>1, ModelThreadAssumption
    DEF Forget, Service!Forget, Service!InLine, InQueue
  <2> QED BY <2>2 DEF ServiceStep, Service!Next
<1>5. CASE TeeStore(r) \/ TeeForward(r)
  BY <1>5 DEF TeeStore, TeeForward, ServiceStep, Service!vars
<1> QED BY <1>2, <1>3, <1>4, <1>5

\* Every step of the thread and its callers is a step of the service, or one
\* it does not see.
LEMMA Next_Service ==
  ASSUME Inv, [Next]_vars
  PROVE  ServiceStep
<1>1. CASE Worker
  BY <1>1, Worker_Service
<1>2. ASSUME NEW r \in Requests, AskHit(r) \/ AskModel(r) \/ Enqueue(r)
      PROVE  ServiceStep
  BY <1>2, Asking_Service
<1>3. ASSUME NEW r \in Requests, RecvPiece(r)
      PROVE  ServiceStep
  BY <1>3, RecvPiece_Service
<1>4. ASSUME NEW r \in Requests, RecvClosed(r)
      PROVE  ServiceStep
  BY <1>4, RecvClosed_Service
<1>5. ASSUME NEW r \in Requests, WriteFails(r) \/ Close(r) \/ Abandon(r)
      PROVE  ServiceStep
  BY <1>5, Leave_Service DEF WriteFails, Close, Abandon
<1>6. ASSUME NEW r \in Requests,
             \/ RecvError(r) \/ WriteOk(r) \/ Stall(r) \/ Forget(r)
             \/ TeeStore(r) \/ TeeForward(r)
      PROVE  ServiceStep
  BY <1>6, Caller_Service
<1>7. CASE UNCHANGED vars
  BY <1>7 DEF vars, ServiceStep, Service!vars
<1> QED BY <1>1, <1>2, <1>3, <1>4, <1>5, <1>6, <1>7 DEF Next, Receive, Write

\* One model's thread, queue and channels are the service its handles
\* document, for every set of requests and every capacity of the channel.
THEOREM ThreadIsService == Spec => ImplementsService
<1>1. Init => Service!Init
  BY Init_Service
<1>2. Inv /\ [Next]_vars => [Service!Next]_Service!vars
  BY Next_Service DEF ServiceStep
<1> QED
  BY <1>1, <1>2, Invariant, PTL
  DEF Spec, Safety, ImplementsService, Service!Spec
=============================================================================

--------------------------- MODULE MCModelThread ---------------------------
(***************************************************************************)
(* Two instances of ModelThread for TLC, of which a behaviour is one: a    *)
(* TTS model that streams to r1 and answers r2 in one piece, through the   *)
(* cache's tee, and an ASR model without a cache that streams to both and  *)
(* marks the last transcript.                                              *)
(***************************************************************************)
EXTENDS ModelThread

CONSTANTS r1, r2, t1

TwoRequests == {r1, r2}
OnlyFirst == {r1}
OneText == {t1}
\* Both ask for the same words.
TextOfRequest == [r \in TwoRequests |-> t1]

VARIABLE model  \* which of the two it is

AsrThread == INSTANCE ModelThread WITH
  Streamed <- TwoRequests, FinalMarked <- TRUE, CacheOn <- FALSE

MCInit == Init /\ model \in {"tts", "asr"}

Either(tts, asr) ==
  /\ UNCHANGED model
  /\ IF model = "tts" THEN tts ELSE asr

MCNext == Either(Next, AsrThread!Next)

mcVars == <<vars, model>>

\* Fairness of whichever of the two it is.
MCFairness ==
  /\ WF_mcVars(Either(Worker, AsrThread!Worker))
  /\ \A r \in Requests :
       /\ WF_mcVars(Either(Enqueue(r), AsrThread!Enqueue(r)))
       /\ WF_mcVars(Either(Receive(r), AsrThread!Receive(r)))
       /\ WF_mcVars(Either(Write(r), AsrThread!Write(r)))
       /\ WF_mcVars(Either(TeeStore(r), AsrThread!TeeStore(r)))
       /\ WF_mcVars(Either(TeeForward(r), AsrThread!TeeForward(r)))
       /\ WF_mcVars(Either(r \in Streamed /\ Close(r), AsrThread!Close(r)))

MCSpec == MCInit /\ [][MCNext]_mcVars /\ MCFairness

\* The inductive invariant of the proofs, and what late work there is, of the
\* instance it is: the asides of ModelThread that speak of Streamed.
InvOfEither ==
  IF model = "tts" THEN Inv ELSE AsrThread!Inv /\ AsrThread!LittleLateWork
=============================================================================

----------------------------- MODULE VadFilter -----------------------------
(***************************************************************************)
(* The voice activity filter that all transcriptions share                 *)
(* (ModelRuntime::vad_filter_audio and vad_filter_audio_impl of            *)
(* src/crates/server/src/engine/runtime.rs).  The detector is recurrent:   *)
(* what it makes of a recording depends on its configuration and on all    *)
(* that it has heard since it was last reset.  Its jobs run on tokio's     *)
(* blocking threads, in any order, behind a mutex.                         *)
(***************************************************************************)
EXTENDS Naturals, FiniteSets

CONSTANTS
  Clients,  \* whose connections ask for a transcript
  None      \* not one of them

ASSUME VadAssumption == None \notin Clients

VARIABLES
  vad,    \* None, or its config and the recordings its state is made of
  owner,  \* the job that has the mutex
  job     \* per client, its call of vad_filter_audio

vadVars == <<vad, owner, job>>

Sensitivities == {None, "aggressive", "default", "relaxed", "other"}

\* sensitivity_params: the threshold in percent and the silence in ms.
SensitivityParams(sensitivity) ==
  CASE sensitivity = "aggressive" -> <<60, 250>>
    [] sensitivity = "relaxed"    -> <<40, 600>>
    [] OTHER                      -> <<50, 400>>

NoJob == [phase |-> "none"]

\* Vad::new and load: the defaults of a library.
LoadedVad == [config |-> None, heard |-> {}]

VadInit == vad = None /\ owner = None /\ job = [c \in Clients |-> NoJob]

HasVad == vad # None

InFilter(c) == job[c].phase \in {"waiting", "locked"}

-----------------------------------------------------------------------------
\* The connection of c calls vad_filter_audio with its recording.
FilterAudio(c, sensitivity) ==
  /\ HasVad
  /\ job[c].phase = "none"
  /\ job' = [job EXCEPT ![c] = [phase |-> "waiting",
                                sensitivity |-> sensitivity]]
  /\ UNCHANGED <<vad, owner>>

Ends(c, outcome) ==
  /\ job' = [job EXCEPT ![c] = outcome]
  /\ owner' = None

\* Mutant of Reset: the state of the last call is left in the detector.
ResetNothing(detector) == detector

Reset(detector) == [detector EXCEPT !.heard = {}]

MayLock(c) == job[c].phase = "waiting" /\ owner = None

\* The job has the mutex: it sets the parameters and resets the detector.
LockVad(c) ==
  /\ MayLock(c)
  /\ owner' = c
  /\ vad' = Reset([vad EXCEPT
                     !.config = SensitivityParams(job[c].sensitivity)])
  /\ job' = [job EXCEPT ![c].phase = "locked"]

\* apply_config fails, or reset does.
ConfigFails(c) ==
  /\ MayLock(c)
  /\ vad' = [vad EXCEPT !.config = SensitivityParams(job[c].sensitivity)]
  /\ Ends(c, [phase |-> "failed"])

Listened(c) == [vad EXCEPT !.heard = @ \cup {c}]

\* The regions with speech; the whole recording when there is none.
Segment(c) ==
  /\ job[c].phase = "locked"
  /\ vad' = Listened(c)
  /\ Ends(c, [phase |-> "done", sensitivity |-> job[c].sensitivity,
              result |-> Listened(c)])

\* segment_audio or flush fails or panics half way.  The panic is caught, the
\* mutex let go.
SegmentFails(c) ==
  /\ job[c].phase = "locked"
  /\ vad' = Listened(c)
  /\ Ends(c, [phase |-> "failed"])

VadNext(c) == LockVad(c) \/ ConfigFails(c) \/ Segment(c) \/ SegmentFails(c)

-----------------------------------------------------------------------------
\* What a call returns was heard with the parameters its client asked for,
\* and by a detector that has heard nothing else (vad_filter_audio_impl:
\* "callers sharing one `Vad` must serialize calls"), whatever the calls
\* before it failed or panicked at, and whoever else is calling.
VadOwnAudio ==
  \A c \in Clients : job[c].phase = "done" =>
    job[c].result = [config |-> SensitivityParams(job[c].sensitivity),
                     heard  |-> {c}]
=============================================================================

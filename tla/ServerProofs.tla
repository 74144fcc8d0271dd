---------------------------- MODULE ServerProofs ----------------------------
(***************************************************************************)
(* The server program, for every scene, set of clients and socket, over    *)
(* starts, exits and kills: no permit is lost and what was registered to   *)
(* speak does (ServerTypeOK), the shared voice activity filter gives every *)
(* transcription its own audio back (VadOwnAudio), a server that runs      *)
(* alone owns the file of its socket while it serves and leaves none       *)
(* behind (SocketIsOwned), and a request goes to the model that it must,   *)
(* which is the one that a describe has listed (RequestsAreRouted,         *)
(* AdvertisedIsServed).                                                    *)
(***************************************************************************)
EXTENDS Server, ListLemmas

-----------------------------------------------------------------------------
(***************************************************************************)
(* The voice activity filter                                               *)
(***************************************************************************)
Params == {SensitivityParams(s) : s \in Sensitivities} \cup {None}

Detectors == [config : Params, heard : SUBSET Clients]

Calls ==
  {NoJob} \cup [phase : {"waiting", "locked"}, sensitivity : Sensitivities]
  \cup [phase : {"failed"}]
  \cup [phase : {"done"}, sensitivity : Sensitivities, result : Detectors]

Fresh(sensitivity) == [config |-> SensitivityParams(sensitivity), heard |-> {}]

\* Whoever works in the filter has the mutex, and a detector that was reset
\* for its own parameters; and nobody does while there is none.
VadInv ==
  /\ vad \in Detectors \cup {None}
  /\ job \in [Clients -> Calls]
  /\ \A c \in Clients :
       /\ InFilter(c) => at \in {"select", "accept", "acquire", "returned", "cut"}
                         /\ vad \in Detectors
       /\ job[c].phase = "locked" => owner = c /\ vad = Fresh(job[c].sensitivity)
  /\ VadOwnAudio

\* A call that waits or works is known by its phase and what it asked for.
LEMMA JobShapes ==
  ASSUME NEW j \in Calls
  PROVE  /\ j.phase \in {"waiting", "locked"} =>
              j = [phase |-> j.phase, sensitivity |-> j.sensitivity]
              /\ j.sensitivity \in Sensitivities
         /\ j.phase \in {"none", "waiting", "locked", "failed", "done"}
  BY DEF Calls, NoJob

\* A detector that was reset is a detector.
LEMMA FreshIsDetector ==
  ASSUME NEW s \in Sensitivities
  PROVE  Fresh(s) \in Detectors /\ SensitivityParams(s) \in Params
  BY DEF Fresh, Detectors, Params

\* A step that leaves the filter alone and does not make the server start over.
LEMMA Vad_Elsewhere ==
  ASSUME VadInv, UNCHANGED vadVars,
         at \in {"select", "accept", "acquire", "returned", "cut"} =>
           at' \in {"select", "accept", "acquire", "returned", "cut"}
  PROVE  VadInv'
  BY DEF VadInv, vadVars, InFilter, VadOwnAudio

\* The process ends: everything of the filter is gone with it.
LEMMA Vad_Forget ==
  ASSUME VadInv, Forget
  PROVE  VadInv'
<1>1. \A c \in Clients : job'[c] = NoJob
  BY DEF Forget
<1>2. job' \in [Clients -> Calls] /\ vad' = None
  BY DEF Forget, Calls
<1> QED BY <1>1, <1>2 DEF VadInv, InFilter, VadOwnAudio, NoJob

\* A transcription hands its audio over: nobody else's call moves.
LEMMA Vad_FilterAudio ==
  ASSUME VadInv, NEW c \in Clients, NEW s \in Sensitivities,
         Alive, FilterAudio(c, s), UNCHANGED at
  PROVE  VadInv'
<1>1. vad \in Detectors
  BY DEF VadInv, FilterAudio, HasVad
<1>2. [phase |-> "waiting", sensitivity |-> s] \in Calls
  BY DEF Calls
<1>3. job' \in [Clients -> Calls]
  BY <1>2 DEF FilterAudio, VadInv
<1>4. job'[c] = [phase |-> "waiting", sensitivity |-> s]
      /\ \A d \in Clients \ {c} : job'[d] = job[d]
  BY DEF FilterAudio, VadInv
<1>5. UNCHANGED <<vad, owner, at>>
  BY DEF FilterAudio
<1>6. ASSUME NEW d \in Clients
      PROVE  /\ InFilter(d)' =>
                  at' \in {"select", "accept", "acquire", "returned", "cut"}
                  /\ vad' \in Detectors
             /\ job'[d].phase = "locked" =>
                  owner' = d /\ vad' = Fresh(job'[d].sensitivity)
             /\ job'[d].phase = "done" =>
                  job'[d].result =
                    [config |-> SensitivityParams(job'[d].sensitivity), heard |-> {d}]
  <2>1. CASE d = c
    BY <1>1, <1>4, <1>5, <2>1 DEF InFilter, Alive
  <2>2. CASE d # c
    <3>1. job'[d] = job[d]
      BY <1>4, <2>2
    <3> QED BY <1>1, <1>5, <3>1 DEF VadInv, InFilter, VadOwnAudio
  <2> QED BY <2>1, <2>2
<1> QED BY <1>3, <1>5, <1>6 DEF VadInv, VadOwnAudio

\* A step of a call in the filter, seen from any client: it has the mutex
\* alone, so that it disturbs nobody who has it.
LEMMA Vad_Step ==
  ASSUME VadInv, NEW c \in Clients, UNCHANGED at, InFilter(c),
         job[c].phase = "waiting" => owner = None,
         vad' \in Detectors, NEW j \in Calls, job' = [job EXCEPT ![c] = j],
         j.phase \in {"locked", "failed", "done"},
         j.phase = "locked" => owner' = c /\ vad' = Fresh(j.sensitivity),
         j.phase = "done" =>
           j.result = [config |-> SensitivityParams(j.sensitivity), heard |-> {c}]
  PROVE  VadInv'
<1>1. job'[c] = j /\ \A d \in Clients \ {c} : job'[d] = job[d]
  BY DEF VadInv
<1>2. job' \in [Clients -> Calls]
  BY DEF VadInv
<1>3. at' \in {"select", "accept", "acquire", "returned", "cut"}
  BY DEF VadInv
<1>4. ASSUME NEW d \in Clients \ {c}
      PROVE  job[d].phase # "locked"
  <2>1. job[d].phase = "locked" => owner = d
    BY DEF VadInv
  <2>2. owner = None \/ owner = c
    BY DEF VadInv, InFilter
  <2> QED BY <2>1, <2>2, VadAssumption
<1>5. ASSUME NEW d \in Clients
      PROVE  /\ job'[d].phase = "locked" =>
                  owner' = d /\ vad' = Fresh(job'[d].sensitivity)
             /\ job'[d].phase = "done" =>
                  job'[d].result =
                    [config |-> SensitivityParams(job'[d].sensitivity), heard |-> {d}]
  <2>1. CASE d = c
    BY <1>1, <2>1
  <2>2. CASE d # c
    BY <1>1, <1>4, <2>2 DEF VadInv, VadOwnAudio
  <2> QED BY <2>1, <2>2
<1> QED BY <1>2, <1>3, <1>5 DEF VadInv, InFilter, VadOwnAudio

\* Whatever a call does in the filter, it does with the mutex.
LEMMA Vad_Filtering ==
  ASSUME VadInv, NEW c \in Clients, VadNext(c), UNCHANGED at
  PROVE  VadInv'
<1>1. job[c] \in Calls
  BY DEF VadInv
<1>2. job[c].phase \in {"waiting", "locked"}
  BY DEF VadNext, LockVad, ConfigFails, Segment, SegmentFails, MayLock
<1>3. /\ job[c] = [phase |-> job[c].phase, sensitivity |-> job[c].sensitivity]
      /\ job[c].sensitivity \in Sensitivities
  BY <1>1, <1>2, JobShapes
<1>4. InFilter(c) /\ vad \in Detectors
  BY <1>2 DEF VadInv, InFilter
<1>5. job[c].phase = "locked" => vad = Fresh(job[c].sensitivity) /\ owner = c
  BY DEF VadInv
<1>6. [phase |-> "failed"] \in Calls
  BY DEF Calls
<1>7. Listened(c) \in Detectors
  BY <1>4 DEF Listened, Detectors
<1> DEFINE s == job[c].sensitivity
           tuned == [vad EXCEPT !.config = SensitivityParams(s)]
<1>8. tuned = [config |-> SensitivityParams(s), heard |-> vad.heard]
  BY <1>4 DEF Detectors
<1>9. CASE LockVad(c)
  <2>1. vad' = Fresh(s)
    BY <1>8, <1>9 DEF LockVad, Reset, Fresh
  <2>2. job' = [job EXCEPT ![c] = [phase |-> "locked", sensitivity |-> s]]
    <3>1. job' = [job EXCEPT ![c] = [job[c] EXCEPT !.phase = "locked"]]
      BY <1>9 DEF LockVad
    <3>2. [job[c] EXCEPT !.phase = "locked"] = [phase |-> "locked", sensitivity |-> s]
      BY <1>3
    <3> QED BY <3>1, <3>2
  <2>3. [phase |-> "locked", sensitivity |-> s] \in Calls
    BY <1>3 DEF Calls
  <2> QED
    BY <1>3, <1>4, <1>9, <2>1, <2>2, <2>3, FreshIsDetector, Vad_Step
    DEF LockVad, MayLock
<1>10. CASE ConfigFails(c)
  <2>1. vad' \in Detectors
    BY <1>3, <1>4, <1>8, <1>10, FreshIsDetector DEF ConfigFails, Detectors
  <2> QED BY <1>4, <1>6, <1>10, <2>1, Vad_Step DEF ConfigFails, MayLock, Ends
<1>11. CASE Segment(c)
  <2> DEFINE j == [phase |-> "done", sensitivity |-> s, result |-> Listened(c)]
  <2>1. j \in Calls
    BY <1>3, <1>7 DEF Calls
  <2>2. Listened(c) = [config |-> SensitivityParams(s), heard |-> {c}]
    BY <1>5, <1>11 DEF Segment, Listened, Fresh
  <2>3. job' = [job EXCEPT ![c] = j] /\ vad' = Listened(c)
    BY <1>11 DEF Segment, Ends
  <2>4. job[c].phase # "waiting"
    BY <1>11 DEF Segment
  <2> QED BY <1>4, <1>7, <2>1, <2>2, <2>3, <2>4, Vad_Step
<1>12. CASE SegmentFails(c)
  BY <1>4, <1>6, <1>7, <1>12, Vad_Step DEF SegmentFails, Ends
<1> QED BY <1>9, <1>10, <1>11, <1>12 DEF VadNext

\* The runtime is dropped: calls that wait for the mutex go, the one that has
\* it goes on.
LEMMA Vad_ShutDown ==
  ASSUME VadInv, ShutDown
  PROVE  VadInv'
<1>1. \A c \in Clients : job'[c] = job[c] \/ job'[c] = NoJob
  BY DEF ShutDown
<1>2. job' \in [Clients -> Calls]
  BY DEF ShutDown, VadInv, Calls
<1>3. UNCHANGED <<vad, owner>> /\ at' = "cut"
  BY DEF ShutDown
<1> QED BY <1>1, <1>2, <1>3 DEF VadInv, InFilter, VadOwnAudio, NoJob

\* A detector is loaded before anybody can ask for it.
LEMMA Vad_Ready ==
  ASSUME VadInv, Ready
  PROVE  VadInv'
<1>1. at = "load" /\ UNCHANGED <<owner, job>>
  BY DEF Ready
<1>2. \A c \in Clients : ~InFilter(c)
  BY <1>1 DEF VadInv
<1>3. vad' \in Detectors \cup {None}
  BY DEF Ready, LoadVad, LoadedVad, Detectors, Params
<1> QED BY <1>1, <1>2, <1>3 DEF VadInv, InFilter, VadOwnAudio

\* No step of the server breaks it.
LEMMA Vad_Next ==
  ASSUME VadInv, [ServerNext]_vars
  PROVE  VadInv'
<1>1. CASE UNCHANGED vars
  BY <1>1, Vad_Elsewhere DEF vars
<1>2. CASE Start
  BY <1>2, Vad_Elsewhere DEF Start
<1>3. CASE PrintDiscoveredModels \/ FindModels \/ BindListener \/ StartupFails
  BY <1>3, Vad_Elsewhere
  DEF PrintDiscoveredModels, FindModels, BindListener, StartupFails, RunFails
<1>4. CASE LoadTts \/ LoadAsr \/ ModelsChange
  BY <1>4, Vad_Elsewhere DEF LoadTts, LoadAsr, ModelsChange
<1>5. CASE Ready
  BY <1>5, Vad_Ready
<1>6. CASE PollSelect \/ Accept \/ AcceptFails \/ Acquire \/ StopAccepting
  BY <1>6, Vad_Elsewhere
  DEF PollSelect, Accept, AcceptFails, Acquire, StopAccepting
<1>7. ASSUME NEW c \in Clients, Connect(c) \/ ConnectionEnds(c)
      PROVE  VadInv'
  BY <1>7, Vad_Elsewhere DEF Connect, ConnectionEnds
<1>8. ASSUME NEW c \in Clients, Filtering(c)
      PROVE  VadInv'
  BY <1>8, Vad_Filtering DEF Filtering
<1>9. ASSUME NEW c \in Clients, NEW s \in Sensitivities, Transcribe(c, s)
      PROVE  VadInv'
  BY <1>9, Vad_FilterAudio DEF Transcribe
<1>10. CASE Unlisten
  BY <1>10, Vad_Elsewhere DEF Unlisten
<1>11. CASE ShutDown
  BY <1>11, Vad_ShutDown
<1>12. CASE Exit \/ Crash
  BY <1>12, Vad_Forget DEF Exit, Crash, Killed
<1>13. CASE CtrlC
  <2>1. CASE Killed
    BY <2>1, Vad_Forget DEF Killed
  <2>2. CASE UNCHANGED <<at, vadVars>>
    BY <2>2, Vad_Elsewhere
  <2> QED BY <1>13, <2>1, <2>2 DEF CtrlC
<1> QED
  BY <1>1, <1>2, <1>3, <1>4, <1>5, <1>6, <1>7, <1>8, <1>9, <1>10, <1>11,
     <1>12, <1>13
  DEF ServerNext, StartingUp

\* Nobody has called before the first start.
LEMMA Vad_Init ==
  ASSUME ServerInit
  PROVE  VadInv
<1>1. \A c \in Clients : job[c] = NoJob
  BY DEF ServerInit, VadInit
<1>2. vad = None /\ job \in [Clients -> Calls]
  BY DEF ServerInit, VadInit, Calls
<1> QED BY <1>1, <1>2 DEF VadInv, InFilter, VadOwnAudio, NoJob

\* What a transcription gets from the filter was heard with the parameters its
\* client asked for, by a detector that has heard nothing else, for every set
\* of clients (ModelRuntime::vad_filter_audio).
THEOREM FilterIsFair == ServerSpec => []VadOwnAudio
<1>1. ASSUME ServerInit PROVE VadInv
  BY <1>1, Vad_Init
<1>2. VadInv => VadOwnAudio
  BY DEF VadInv
<1> QED BY <1>1, <1>2, Vad_Next, PTL DEF ServerSpec
-----------------------------------------------------------------------------
(***************************************************************************)
(* The socket                                                              *)
(***************************************************************************)
Before == {"exited", "discover", "bind", "load"}
Within == {"select", "accept", "acquire"}

\* How far the listener is where the server is; whose file it is; and that a
\* server that has served and dropped its listener has left no file.
OwnerInv ==
  /\ at \in Before \cup Within \cup {"returned", "cut"}
  /\ at \in {"exited", "discover", "cut"} => listen = "none"
  /\ at = "bind" => listen \in {"bind", "remove", "rebind", "stat"}
  /\ at \in Within \cup {"load"} => listen = "bound"
  /\ at = "returned" => listen \in {"none", "bound", "unlink"}
  /\ at \in Before => voice_map = Nothing
  /\ listen \in {"remove", "rebind", "stat", "unlink"} => target = "unix"
  /\ listen = "stat" => file = socket
  /\ listen = "bound" /\ target = "unix" => file = socket /\ inode = file
  /\ /\ at \in {"returned", "cut"} /\ voice_map # Nothing /\ target = "unix"
     /\ listen = "none"
     => file = 0
  /\ target = "systemd" => file = SystemdInode

\* The server goes on and leaves its listener alone.
LEMMA Owner_Quiet ==
  ASSUME OwnerInv, UNCHANGED listenerVars,
         \/ at' = at /\ voice_map' = voice_map
         \/ at \in Within /\ at' \in Within \cup {"returned"} /\ voice_map' = voice_map
         \/ at = "load" /\ at' \in Within
         \/ at = "load" /\ at' = "returned" /\ voice_map' = Nothing
         \/ at = "discover" /\ at' \in {"exited", "returned"} /\ voice_map' = Nothing
         \/ at = "exited" /\ at' = "discover" /\ voice_map' = Nothing
         \/ at = "returned" /\ at' = "cut" /\ listen = "none" /\ voice_map' = voice_map
         \/ at = "cut" /\ at' = "exited" /\ voice_map' = Nothing
  PROVE  OwnerInv'
  BY DEF OwnerInv, listenerVars, Before, Within

\* A call that binds, and the one that finds a listener ready.
LEMMA Owner_Binding ==
  ASSUME OwnerInv, BindListener
  PROVE  OwnerInv'
<1>1. /\ at = "bind" /\ Binding /\ voice_map' = voice_map
      /\ at' = IF listen' = "bound" THEN "load" ELSE "bind"
  BY DEF BindListener, loadVars
<1>2. CASE BindTcp \/ FromSystemdFd
  BY <1>1, <1>2 DEF OwnerInv, BindTcp, FromSystemdFd, Before, Within
<1>3. CASE Bind \/ Rebind
  <2>1. target' = "unix" /\ target = "unix" /\ file' = socket' /\ listen' = "stat"
    BY <1>3 DEF Bind, Rebind, BindUnix
  <2> QED BY <1>1, <2>1 DEF OwnerInv, Before, Within
<1>4. CASE AddrInUse \/ RemoveFile
  <2>1. /\ target' = target /\ listen' \in {"remove", "rebind"}
        /\ target = "unix"
    BY <1>4 DEF OwnerInv, AddrInUse, RemoveFile
  <2> QED BY <1>1, <2>1 DEF OwnerInv, Before, Within
<1>5. CASE SocketInode
  BY <1>1, <1>5 DEF OwnerInv, SocketInode, Before, Within
<1> QED BY <1>1, <1>2, <1>3, <1>4, <1>5 DEF Binding

\* A start that fails in binding, or later.
LEMMA Owner_Fails ==
  ASSUME OwnerInv, StartupFails
  PROVE  OwnerInv'
<1>1. RunFails /\ voice_map' = voice_map
  BY DEF StartupFails, loadVars
<1>2. CASE at \in {"discover", "load"} /\ at' = "returned" /\ UNCHANGED listenerVars
  BY <1>1, <1>2, Owner_Quiet DEF OwnerInv, Before
<1>3. CASE at = "bind" /\ ListenerFails /\ at' = "returned"
  BY <1>1, <1>3 DEF OwnerInv, ListenerFails, Before, Within
<1> QED BY <1>1, <1>2, <1>3 DEF RunFails

\* The listener is dropped: its file is its own, unless systemd's.
LEMMA Owner_Drop ==
  ASSUME OwnerInv, Unlisten
  PROVE  OwnerInv'
<1>1. at = "returned" /\ at' = at /\ voice_map' = voice_map
  BY DEF Unlisten, loadVars
<1>2. CASE DropListener
  BY <1>1, <1>2 DEF OwnerInv, DropListener, Owned, Before, Within
<1>3. CASE Unlink
  BY <1>1, <1>3 DEF OwnerInv, Unlink, Before, Within
<1> QED BY <1>2, <1>3 DEF Unlisten

\* A process that is killed leaves the file where it is.
LEMMA Owner_Killed ==
  ASSUME OwnerInv, Killed
  PROVE  OwnerInv'
<1>1. at' = "exited" /\ voice_map' = Nothing /\ listen' = "none"
      /\ UNCHANGED <<file, target>>
  BY DEF Killed, Forget, KillListener
<1> QED BY <1>1 DEF OwnerInv, Before, Within

\* No step of the server breaks it.
LEMMA Owner_Next ==
  ASSUME OwnerInv, [ServerNext]_vars
  PROVE  OwnerInv'
<1> USE DEF loadVars, loopVars, signalVars
<1>1. CASE UNCHANGED vars
  BY <1>1, Owner_Quiet DEF vars
<1>2. CASE Start \/ PrintDiscoveredModels
  BY <1>2, Owner_Quiet DEF Start, PrintDiscoveredModels, OwnerInv, Before
<1>3. CASE FindModels
  <2>1. /\ at = "discover" /\ at' = "bind" /\ listen' = "bind"
        /\ UNCHANGED <<file, target, voice_map>>
    BY <1>3 DEF FindModels, StartListening
  <2> QED BY <2>1 DEF OwnerInv, Before, Within
<1>4. CASE ModelsChange \/ LoadTts \/ LoadAsr
  BY <1>4, Owner_Quiet DEF ModelsChange, LoadTts, LoadAsr
<1>5. CASE BindListener
  BY <1>5, Owner_Binding
<1>6. CASE StartupFails
  BY <1>6, Owner_Fails
<1>7. CASE Ready
  BY <1>7, Owner_Quiet DEF Ready, Within
<1>8. CASE PollSelect \/ Accept \/ AcceptFails \/ Acquire \/ StopAccepting
  BY <1>8, Owner_Quiet
  DEF PollSelect, Accept, AcceptFails, Acquire, StopAccepting, Within
<1>9. ASSUME NEW c \in Clients,
             \/ Connect(c) \/ Filtering(c) \/ ConnectionEnds(c)
             \/ \E s \in Sensitivities : Transcribe(c, s)
      PROVE  OwnerInv'
  BY <1>9, Owner_Quiet DEF Connect, Filtering, ConnectionEnds, Transcribe
<1>10. CASE Unlisten
  BY <1>10, Owner_Drop
<1>11. CASE ShutDown
  BY <1>11, Owner_Quiet DEF ShutDown, MayShutDown
<1>12. CASE Exit
  BY <1>12, Owner_Quiet DEF Exit, Forget
<1>13. CASE Crash
  BY <1>13, Owner_Killed DEF Crash
<1>14. CASE CtrlC
  <2>1. CASE Killed
    BY <2>1, Owner_Killed
  <2>2. CASE UNCHANGED <<at, loadVars, listenerVars>>
    BY <2>2, Owner_Quiet
  <2> QED BY <1>14, <2>1, <2>2 DEF CtrlC
<1> QED
  BY <1>1, <1>2, <1>3, <1>4, <1>5, <1>6, <1>7, <1>8, <1>9, <1>10, <1>11,
     <1>12, <1>13, <1>14
  DEF ServerNext, StartingUp

\* A server that runs alone serves on the socket whose file it made, also after
\* one was killed and left its file; when it has served and ends it leaves no
\* file, and never removes systemd's (Listener::bind, Drop for Listener).
THEOREM SocketStaysOwned == ServerSpec => []SocketIsOwned
<1>1. ASSUME ServerInit PROVE OwnerInv
  BY <1>1 DEF ServerInit, NothingLoaded, ListenerInit, OwnerInv, Before, Within
<1>2. ASSUME OwnerInv PROVE SocketIsOwned
  BY <1>2 DEF OwnerInv, SocketIsOwned, Looping, Within
<1> QED BY <1>1, <1>2, Owner_Next, PTL DEF ServerSpec
-----------------------------------------------------------------------------
(***************************************************************************)
(* The accept loop and what was loaded                                     *)
(***************************************************************************)
ClientStates == {"away", "queued", "accepted", "serving", "gone"}

Stages == {"exited", "discover", "bind", "load", "select", "accept", "acquire",
           "returned", "cut"}

\* The backlog is those who are queued, in some order; one connection at most
\* waits for a permit; the other permits are with connections that are served.
QueueInv ==
  /\ client \in [Clients -> ClientStates]
  /\ backlog \in Seq(Clients) /\ IsInjective(backlog)
  /\ ToSet(backlog) = {c \in Clients : client[c] = "queued"}
  /\ accepted \in Clients \cup {None}
  /\ accepted # None => client[accepted] = "accepted"

\* Until a server serves, and when it has been shut down, nobody is served; the
\* permits that nobody has are those left.
PermitInv ==
  /\ at \in Stages
  /\ at = "acquire" <=> accepted # None
  /\ permits \in Int /\ scene \in Scenes
  /\ ~Alive => Serving = {}
  /\ Looping => permits + Cardinality(Serving) = scene.args.max_connections

\* A connection whose call is in the filter is not over until the runtime is
\* dropped, and the mutex is with a call that works.
MutexInv ==
  /\ owner # None => owner \in Clients /\ job[owner].phase = "locked"
  /\ \A c \in Clients : InFilter(c) =>
       client[c] = "serving" \/ at = "cut"

\* What was registered is of a type that does it.
TypesInv ==
  /\ \A n \in DOMAIN tts : IsTts(tts[n].type)
  /\ \A n \in DOMAIN asr : IsAsr(asr[n].type)

LoopInv == QueueInv /\ PermitInv

\* Who is appended to a backlog is in it once.
LEMMA AppendedTo ==
  ASSUME NEW S, NEW s \in Seq(S), NEW e \in S, e \notin ToSet(s), IsInjective(s)
  PROVE  /\ Append(s, e) \in Seq(S) /\ IsInjective(Append(s, e))
         /\ ToSet(Append(s, e)) = ToSet(s) \cup {e}
<1> DEFINE t == Append(s, e)
<1>1. /\ t \in Seq(S) /\ Len(t) = Len(s) + 1 /\ t[Len(s) + 1] = e
      /\ \A i \in 1..Len(s) : t[i] = s[i]
  OBVIOUS
<1>2. DOMAIN s = 1..Len(s) /\ DOMAIN t = 1..(Len(s) + 1) /\ Len(s) \in Nat
  BY <1>1
<1> HIDE DEF t
<1>3. \A i \in 1..Len(s) : s[i] # e
  BY <1>2 DEF ToSet
<1>4. IsInjective(t)
  <2>1. \A i, j \in 1..Len(s) : s[i] = s[j] => i = j
    BY <1>2 DEF IsInjective
  <2>2. \A i, j \in 1..(Len(s) + 1) : t[i] = t[j] => i = j
    <3> SUFFICES ASSUME NEW i \in 1..(Len(s) + 1), NEW j \in 1..(Len(s) + 1),
                        t[i] = t[j]
                 PROVE  i = j
      OBVIOUS
    <3>1. i \in 1..Len(s) \/ i = Len(s) + 1
      BY <1>2
    <3>2. j \in 1..Len(s) \/ j = Len(s) + 1
      BY <1>2
    <3>3. QED
      BY <1>1, <1>3, <2>1, <3>1, <3>2
  <2>3. QED
    BY <1>2, <2>2 DEF IsInjective
<1>5. ToSet(t) = ToSet(s) \cup {e}
  <2>1. \A i \in 1..(Len(s) + 1) : i \in 1..Len(s) \/ i = Len(s) + 1
    BY <1>2
  <2>2. 1..Len(s) \subseteq 1..(Len(s) + 1) /\ Len(s) + 1 \in 1..(Len(s) + 1)
    BY <1>2
  <2>3. QED
    BY <1>1, <1>2, <2>1, <2>2 DEF ToSet
<1>6. QED
  BY <1>1, <1>4, <1>5 DEF t

\* What is taken off the front of a backlog is in it no more.
LEMMA TakenOff ==
  ASSUME NEW S, NEW s \in Seq(S), s # <<>>, IsInjective(s)
  PROVE  /\ Head(s) \in ToSet(s) /\ Head(s) \in S
         /\ Tail(s) \in Seq(S) /\ IsInjective(Tail(s))
         /\ ToSet(Tail(s)) = ToSet(s) \ {Head(s)}
<1> DEFINE t == Tail(s)
           h == Head(s)
<1>1. /\ t \in Seq(S) /\ Len(t) = Len(s) - 1 /\ Len(s) \in Nat /\ Len(s) > 0
      /\ h = s[1] /\ h \in S
      /\ \A i \in 1..(Len(s) - 1) : t[i] = s[i + 1]
  OBVIOUS
<1>2. DOMAIN s = 1..Len(s) /\ DOMAIN t = 1..(Len(s) - 1)
  BY <1>1
<1> HIDE DEF t, h
<1>3. \A i, j \in 1..Len(s) : s[i] = s[j] => i = j
  BY <1>2 DEF IsInjective
<1>4. IsInjective(t)
  <2>1. \A i, j \in 1..(Len(s) - 1) : t[i] = t[j] => i = j
    BY <1>1, <1>3
  <2>2. QED
    BY <1>2, <2>1 DEF IsInjective
<1>5. h \in ToSet(s)
  BY <1>1, <1>2 DEF ToSet
<1>6. ToSet(t) = ToSet(s) \ {h}
  <2>1. ASSUME NEW x \in ToSet(t) PROVE x \in ToSet(s) \ {h}
    <3>1. PICK i \in 1..(Len(s) - 1) : x = t[i]
      BY <1>2 DEF ToSet
    <3>2. x = s[i + 1] /\ i + 1 \in 1..Len(s) /\ i + 1 # 1 /\ 1 \in 1..Len(s)
      BY <1>1, <3>1
    <3>3. QED
      BY <1>1, <1>2, <1>3, <3>2 DEF ToSet
  <2>2. ASSUME NEW x \in ToSet(s), x # h PROVE x \in ToSet(t)
    <3>1. PICK i \in 1..Len(s) : x = s[i]
      BY <1>2 DEF ToSet
    <3>2. i # 1 /\ i - 1 \in 1..(Len(s) - 1) /\ (i - 1) + 1 = i
      BY <1>1, <2>2, <3>1
    <3>3. t[i - 1] = x
      BY <1>1, <3>1, <3>2
    <3>4. QED
      BY <1>2, <3>2, <3>3 DEF ToSet
  <2>3. QED
    BY <2>1, <2>2
<1>7. QED
  BY <1>1, <1>4, <1>5, <1>6 DEF t, h

\* An empty backlog holds nobody.
LEMMA NoBacklog == /\ <<>> \in Seq(Clients) /\ IsInjective(<<>>)
                   /\ ToSet(<<>>) = {}
BY DEF IsInjective, ToSet

\* Connections that are closed by this side, and the backlog that went with
\* the socket or stayed.
LEMMA Queue_Gone ==
  ASSUME QueueInv, NEW cut, Gone(cut),
         \/ backlog' = backlog /\ cut \cap ToSet(backlog) = {}
         \/ backlog' = <<>> /\ ToSet(backlog) \subseteq cut,
         (accepted' = accepted /\ accepted \notin cut) \/ accepted' = None
  PROVE  QueueInv' /\ Serving' = Serving \ cut
<1>1. /\ client' \in [Clients -> ClientStates]
      /\ \A c \in Clients : client'[c] = IF c \in cut THEN "gone" ELSE client[c]
  BY DEF QueueInv, Gone, ClientStates
<1>2. Serving' = Serving \ cut
  BY <1>1 DEF Serving
<1>3. /\ backlog' \in Seq(Clients) /\ IsInjective(backlog')
      /\ ToSet(backlog') = {c \in Clients : client'[c] = "queued"}
  <2>1. CASE backlog' = backlog /\ cut \cap ToSet(backlog) = {}
    BY <1>1, <2>1 DEF QueueInv
  <2>2. CASE backlog' = <<>> /\ ToSet(backlog) \subseteq cut
    <3>1. \A c \in Clients : client'[c] # "queued"
      BY <1>1, <2>2 DEF QueueInv
    <3>2. QED
      BY <2>2, <3>1, NoBacklog
  <2>3. QED
    BY <2>1, <2>2
<1>4. /\ accepted' \in Clients \cup {None}
      /\ accepted' # None => client'[accepted'] = "accepted"
  BY <1>1 DEF QueueInv
<1>5. QED
  BY <1>1, <1>2, <1>3, <1>4 DEF QueueInv

\* Nobody moves in the queue.
LEMMA Queue_Still ==
  ASSUME QueueInv, UNCHANGED <<client, backlog, accepted>>
  PROVE  QueueInv' /\ Serving' = Serving
BY DEF QueueInv, Serving

\* A backlog that is cut off with its socket, or stays with one of systemd's.
LEMMA Queue_Closed ==
  ASSUME QueueInv, CloseBacklog, accepted' = accepted
  PROVE  QueueInv' /\ Serving' = Serving
<1>1. CASE Gone(ToSet(backlog)) /\ backlog' = <<>>
  <2>1. accepted \notin ToSet(backlog)
    BY VadAssumption DEF QueueInv
  <2>2. Serving \ ToSet(backlog) = Serving
    BY DEF QueueInv, Serving
  <2>3. QED
    BY <1>1, <2>1, <2>2, Queue_Gone
<1>2. CASE UNCHANGED <<client, backlog>>
  BY <1>2, Queue_Still
<1>3. QED
  BY <1>1, <1>2 DEF CloseBacklog

\* The kernel puts a connection at the end of the backlog.
LEMMA Queue_Connect ==
  ASSUME QueueInv, NEW c \in Clients, Connect(c)
  PROVE  QueueInv' /\ Serving' = Serving
<1>1. /\ client[c] = "away" /\ client' = [client EXCEPT ![c] = "queued"]
      /\ backlog' = Append(backlog, c) /\ accepted' = accepted
  BY DEF Connect
<1>2. /\ client' \in [Clients -> ClientStates] /\ client'[c] = "queued"
      /\ \A d \in Clients : d # c => client'[d] = client[d]
  BY <1>1 DEF QueueInv, ClientStates
<1>3. c \notin ToSet(backlog)
  BY <1>1 DEF QueueInv
<1>4. /\ backlog' \in Seq(Clients) /\ IsInjective(backlog')
      /\ ToSet(backlog') = ToSet(backlog) \cup {c}
  BY <1>1, <1>3, AppendedTo DEF QueueInv
<1>5. ToSet(backlog') = {d \in Clients : client'[d] = "queued"}
  BY <1>2, <1>4 DEF QueueInv
<1>6. accepted' # None => client'[accepted'] = "accepted"
  BY <1>1, <1>2 DEF QueueInv
<1>7. Serving' = Serving
  BY <1>1, <1>2 DEF Serving
<1>8. QED
  BY <1>1, <1>2, <1>4, <1>5, <1>6, <1>7 DEF QueueInv

\* The first of the backlog is accepted, and is not served yet.
LEMMA Queue_Accept ==
  ASSUME QueueInv, Accept, accepted = None
  PROVE  QueueInv' /\ Serving' = Serving /\ accepted' # None
<1> DEFINE h == Head(backlog)
<1>1. /\ backlog # <<>> /\ accepted' = h /\ backlog' = Tail(backlog)
      /\ client' = [client EXCEPT ![h] = "accepted"]
  BY DEF Accept
<1>2. /\ h \in ToSet(backlog) /\ h \in Clients
      /\ backlog' \in Seq(Clients) /\ IsInjective(backlog')
      /\ ToSet(backlog') = ToSet(backlog) \ {h}
  BY <1>1, TakenOff DEF QueueInv
<1> HIDE DEF h
<1>3. client[h] = "queued"
  BY <1>2 DEF QueueInv
<1>4. /\ client' \in [Clients -> ClientStates] /\ client'[h] = "accepted"
      /\ \A d \in Clients : d # h => client'[d] = client[d]
  BY <1>1, <1>2 DEF QueueInv, ClientStates
<1>5. ToSet(backlog') = {d \in Clients : client'[d] = "queued"}
  BY <1>2, <1>4 DEF QueueInv
<1>6. Serving' = Serving
  BY <1>3, <1>4 DEF Serving
<1>7. QED
  BY <1>1, <1>2, <1>4, <1>5, <1>6, VadAssumption DEF QueueInv

\* The connection that waited has its permit and is served.
LEMMA Queue_Acquire ==
  ASSUME QueueInv, Acquire, accepted # None
  PROVE  /\ QueueInv' /\ accepted \in Clients \ Serving
         /\ Serving' = Serving \cup {accepted}
<1>1. /\ client' = [client EXCEPT ![accepted] = "serving"]
      /\ accepted' = None /\ backlog' = backlog
  BY DEF Acquire
<1>2. accepted \in Clients /\ client[accepted] = "accepted"
  BY DEF QueueInv
<1>3. /\ client' \in [Clients -> ClientStates] /\ client'[accepted] = "serving"
      /\ \A d \in Clients : d # accepted => client'[d] = client[d]
  BY <1>1, <1>2 DEF QueueInv, ClientStates
<1>4. ToSet(backlog') = {d \in Clients : client'[d] = "queued"}
  BY <1>1, <1>2, <1>3 DEF QueueInv
<1>5. Serving' = Serving \cup {accepted} /\ accepted \in Clients \ Serving
  BY <1>2, <1>3 DEF Serving
<1>6. QED
  BY <1>1, <1>3, <1>4, <1>5 DEF QueueInv

\* A process that is killed takes its connections with it.
LEMMA Queue_Killed ==
  ASSUME QueueInv, Killed
  PROVE  QueueInv' /\ Serving' = {}
<1>1. accepted' = None
  BY DEF Killed, Forget
<1> DEFINE open == Serving \cup {accepted}
<1>2. CASE Gone(open) /\ UNCHANGED backlog
  <2>1. open \cap ToSet(backlog) = {}
    BY VadAssumption DEF QueueInv, Serving
  <2>2. Serving \ open = {}
    OBVIOUS
  <2> HIDE DEF open
  <2>3. QED
    BY <1>1, <1>2, <2>1, <2>2, Queue_Gone
<1>3. CASE Gone(open \cup ToSet(backlog)) /\ backlog' = <<>>
  <2> DEFINE cut == open \cup ToSet(backlog)
  <2>1. Serving \ cut = {} /\ ToSet(backlog) \subseteq cut
    OBVIOUS
  <2>2. Gone(cut)
    BY <1>3
  <2> HIDE DEF cut
  <2>3. QED
    BY <1>1, <1>3, <2>1, <2>2, Queue_Gone
<1>4. QED
  BY <1>2, <1>3 DEF Killed

\* How many are served is a number.
LEMMA ServingCounted ==
  /\ IsFiniteSet(Serving) /\ Cardinality(Serving) \in Nat
  /\ \A c \in Clients \ Serving :
       Cardinality(Serving \cup {c}) = Cardinality(Serving) + 1
  /\ \A c \in Serving : Cardinality(Serving \ {c}) = Cardinality(Serving) - 1
<1>1. IsFiniteSet(Serving)
  BY FS_Subset, ServerAssumption DEF Serving
<1>2. Cardinality(Serving) \in Nat
  BY <1>1, FS_CardinalityType
<1>3. \A c \in Clients \ Serving :
        Cardinality(Serving \cup {c}) = Cardinality(Serving) + 1
  BY <1>1, FS_AddElement
<1>4. \A c \in Serving : Cardinality(Serving \ {c}) = Cardinality(Serving) - 1
  BY <1>1, FS_RemoveElement
<1>5. QED
  BY <1>1, <1>2, <1>3, <1>4

\* The permits stay where they are.
LEMMA Permits_Stay ==
  ASSUME PermitInv, QueueInv, at' \in Stages, permits' = permits, scene' = scene,
         Serving' = Serving, at' = "acquire" <=> accepted' # None,
         Looping' => Looping, ~Alive' => ~Alive \/ Serving = {}
  PROVE  PermitInv'
BY DEF PermitInv

\* Until the accept loop runs nobody has been accepted.
LEMMA Loop_Starting ==
  ASSUME LoopInv, StartingUp \/ Start \/ ModelsChange
  PROVE  LoopInv'
<1> USE DEF LoopInv
<1>1. ASSUME UNCHANGED <<scene, client, backlog, accepted, permits>>,
             at' \in {"exited", "discover", "bind", "load"}, accepted = None,
             Serving = {}
      PROVE  LoopInv'
  <2>1. QueueInv' /\ Serving' = Serving
    BY <1>1, Queue_Still
  <2>2. at' \in Stages /\ at' # "acquire" /\ ~Looping' /\ ~Alive'
    BY <1>1 DEF Stages, Looping, Alive
  <2>3. QED
    BY <1>1, <2>1, <2>2, Permits_Stay
<1>2. ASSUME at \in {"exited", "discover", "bind", "load"}
      PROVE  accepted = None /\ Serving = {} /\ ~Looping
  BY <1>2 DEF PermitInv, Alive, Looping
<1>3. CASE Start \/ PrintDiscoveredModels \/ FindModels \/ LoadTts \/ LoadAsr
           \/ ModelsChange
  <2>1. /\ UNCHANGED <<scene, client, backlog, accepted, permits>>
        /\ at \in {"exited", "discover", "bind", "load"}
        /\ at' \in {"exited", "discover", "bind", "load"}
    BY <1>3 DEF Start, PrintDiscoveredModels, FindModels, LoadTts, LoadAsr,
       ModelsChange, loopVars
  <2>2. QED
    BY <1>1, <1>2, <2>1
<1>4. CASE BindListener
  <2>1. /\ UNCHANGED <<scene, client, backlog, accepted, permits>>
        /\ at = "bind" /\ at' \in {"bind", "load"}
    BY <1>4 DEF BindListener, loopVars
  <2>2. QED
    BY <1>1, <1>2, <2>1
<1>5. CASE StartupFails
  <2>1. /\ at \in {"discover", "bind", "load"} /\ at' = "returned" /\ CloseBacklog
        /\ UNCHANGED <<scene, accepted, permits>>
    BY <1>5 DEF StartupFails, RunFails
  <2>2. accepted = None /\ Serving = {} /\ ~Looping
    BY <1>2, <2>1
  <2>3. QueueInv' /\ Serving' = Serving
    BY <2>1, Queue_Closed
  <2>4. at' \in Stages /\ at' # "acquire" /\ ~Looping'
    BY <2>1 DEF Stages, Looping
  <2>5. QED
    BY <2>1, <2>2, <2>3, <2>4, Permits_Stay
<1>6. CASE Ready
  <2>1. /\ at = "load" /\ at' = "select" /\ scene' = scene
        /\ permits' = scene.args.max_connections
        /\ UNCHANGED <<client, backlog, accepted>>
    BY <1>6 DEF Ready
  <2>2. accepted = None /\ Serving = {}
    BY <1>2, <2>1
  <2>3. QueueInv' /\ Serving' = {}
    BY <2>1, <2>2, Queue_Still
  <2>4. permits' \in Nat /\ scene \in Scenes
    BY <2>1, ServerAssumption DEF PermitInv
  <2>5. permits' + Cardinality(Serving') = scene'.args.max_connections
    BY <2>1, <2>3, <2>4, FS_EmptySet
  <2>6. at' \in Stages /\ at' # "acquire" /\ Alive' /\ permits' \in Int
    BY <2>1, <2>4 DEF Stages, Alive
  <2>7. QED
    BY <2>1, <2>2, <2>3, <2>4, <2>5, <2>6 DEF PermitInv
<1>7. QED
  BY <1>3, <1>4, <1>5, <1>6 DEF StartingUp

\* The accept loop gives a permit to every connection it takes.
LEMMA Loop_Accepting ==
  ASSUME LoopInv,
         PollSelect \/ Accept \/ AcceptFails \/ Acquire \/ StopAccepting
  PROVE  LoopInv'
<1> USE DEF LoopInv
<1>1. CASE PollSelect \/ AcceptFails \/ StopAccepting
  <2>1. /\ UNCHANGED <<scene, client, backlog, accepted, permits>>
        /\ at \in {"select", "accept"} /\ at' \in {"accept", "select", "returned"}
    BY <1>1 DEF PollSelect, AcceptFails, StopAccepting, loopVars
  <2>2. QueueInv' /\ Serving' = Serving
    BY <2>1, Queue_Still
  <2>3. at' \in Stages /\ at' # "acquire" /\ Looping /\ Alive'
    BY <2>1 DEF Stages, Looping, Alive
  <2>4. accepted = None
    BY <2>1 DEF PermitInv
  <2>5. QED
    BY <2>1, <2>2, <2>3, <2>4, Permits_Stay
<1>2. CASE Accept
  <2>1. /\ UNCHANGED <<scene, permits>>
        /\ at \in {"select", "accept"} /\ at' = "acquire"
    BY <1>2 DEF Accept
  <2>2. accepted = None
    BY <2>1 DEF PermitInv
  <2>3. QueueInv' /\ Serving' = Serving /\ accepted' # None
    BY <1>2, <2>2, Queue_Accept
  <2>4. at' \in Stages /\ Looping /\ Alive'
    BY <2>1 DEF Stages, Looping, Alive
  <2>5. QED
    BY <2>1, <2>3, <2>4, Permits_Stay
<1>3. CASE Acquire
  <2>1. /\ at = "acquire" /\ at' = "select" /\ scene' = scene
        /\ permits' = permits - 1 /\ accepted' = None
    BY <1>3 DEF Acquire
  <2>2. accepted # None
    BY <2>1 DEF PermitInv
  <2>3. /\ QueueInv' /\ accepted \in Clients \ Serving
        /\ Serving' = Serving \cup {accepted}
    BY <1>3, <2>2, Queue_Acquire
  <2>4. permits + Cardinality(Serving) = scene.args.max_connections /\ permits \in Int
    BY <2>1 DEF PermitInv, Looping
  <2>5. /\ Cardinality(Serving') = Cardinality(Serving) + 1
        /\ Cardinality(Serving) \in Nat
    BY <2>3, ServingCounted
  <2>6. /\ permits' + Cardinality(Serving') = scene'.args.max_connections
        /\ permits' \in Int
    BY <2>1, <2>4, <2>5
  <2>7. at' \in Stages /\ Alive' /\ at' # "acquire" /\ scene' \in Scenes
    BY <2>1 DEF Stages, Alive, PermitInv
  <2>8. QED
    BY <2>1, <2>3, <2>6, <2>7 DEF PermitInv
<1>4. QED
  BY <1>1, <1>2, <1>3

\* A connection that ends, well or not, gives its permit back.
LEMMA Loop_Client ==
  ASSUME LoopInv, NEW c \in Clients,
         \/ Connect(c) \/ Filtering(c) \/ ConnectionEnds(c)
         \/ \E s \in Sensitivities : Transcribe(c, s)
  PROVE  LoopInv'
<1> USE DEF LoopInv
<1>1. CASE Filtering(c) \/ \E s \in Sensitivities : Transcribe(c, s)
  <2>1. UNCHANGED <<scene, at, client, backlog, accepted, permits>>
    BY <1>1 DEF Filtering, Transcribe, loopVars
  <2>2. QueueInv' /\ Serving' = Serving
    BY <2>1, Queue_Still
  <2>3. QED
    BY <2>1, <2>2 DEF PermitInv, Looping, Alive
<1>2. CASE Connect(c)
  <2>1. UNCHANGED <<scene, at, accepted, permits>>
    BY <1>2 DEF Connect
  <2>2. QueueInv' /\ Serving' = Serving
    BY <1>2, Queue_Connect
  <2>3. QED
    BY <2>1, <2>2 DEF PermitInv, Looping, Alive
<1>3. CASE ConnectionEnds(c)
  <2>1. /\ client[c] = "serving" /\ Gone({c}) /\ permits' = permits + 1 /\ Alive
        /\ UNCHANGED <<scene, at, backlog, accepted>>
    BY <1>3 DEF ConnectionEnds, Released
  <2>2. c \in Serving /\ c # accepted /\ c \notin ToSet(backlog)
    BY <2>1, VadAssumption DEF Serving, QueueInv
  <2>3. QueueInv' /\ Serving' = Serving \ {c}
    BY <2>1, <2>2, Queue_Gone
  <2>4. /\ Cardinality(Serving') = Cardinality(Serving) - 1
        /\ Cardinality(Serving) \in Nat
    BY <2>2, <2>3, ServingCounted
  <2>5. Looping' => permits' + Cardinality(Serving') = scene'.args.max_connections
    BY <2>1, <2>4 DEF PermitInv, Looping
  <2>6. permits' \in Int /\ Alive'
    BY <2>1 DEF PermitInv, Alive
  <2>7. QED
    BY <2>1, <2>3, <2>5, <2>6 DEF PermitInv
<1>4. QED
  BY <1>1, <1>2, <1>3

\* With the end of the process its connections end.
LEMMA Loop_Ending ==
  ASSUME LoopInv, Unlisten \/ ShutDown \/ Exit \/ (Killed /\ UNCHANGED scene)
  PROVE  LoopInv'
<1> USE DEF LoopInv
<1>1. CASE Unlisten
  <2>1. at = "returned" /\ CloseBacklog /\ UNCHANGED <<scene, at, accepted, permits>>
    BY <1>1 DEF Unlisten
  <2>2. QueueInv' /\ Serving' = Serving
    BY <2>1, Queue_Closed
  <2>3. QED
    BY <2>1, <2>2 DEF PermitInv, Looping, Alive
<1>2. CASE ShutDown
  <2>1. /\ at = "returned" /\ at' = "cut" /\ Gone(Serving)
        /\ UNCHANGED <<scene, backlog, accepted, permits>>
    BY <1>2 DEF ShutDown
  <2>2. Serving \cap ToSet(backlog) = {} /\ accepted = None /\ accepted' = None
    BY <2>1 DEF QueueInv, Serving, PermitInv
  <2>3. QueueInv' /\ Serving' = Serving \ Serving
    BY <2>1, <2>2, Queue_Gone
  <2>4. Serving' = {}
    BY <2>3
  <2>5. at' \in Stages /\ ~Looping'
    BY <2>1 DEF Stages, Looping
  <2>6. QED
    BY <2>1, <2>2, <2>3, <2>4, <2>5 DEF PermitInv
<1>3. CASE Exit \/ (Killed /\ UNCHANGED scene)
  <2>1. /\ at' = "exited" /\ accepted' = None /\ permits' = 0 /\ scene' = scene
    BY <1>3 DEF Exit, Killed, Forget
  <2>2. QueueInv' /\ Serving' = {}
    <3>1. CASE Killed
      BY <3>1, Queue_Killed
    <3>2. CASE Exit
      <4>1. at = "cut" /\ UNCHANGED <<client, backlog>>
        BY <3>2 DEF Exit
      <4>2. Serving = {} /\ accepted = None
        BY <4>1 DEF PermitInv, Alive
      <4>3. QED
        BY <2>1, <4>1, <4>2, Queue_Still
    <3>3. QED
      BY <1>3, <3>1, <3>2
  <2>3. at' \in Stages /\ ~Looping' /\ at' # "acquire"
    BY <2>1 DEF Stages, Looping
  <2>4. QED
    BY <2>1, <2>2, <2>3 DEF PermitInv
<1>4. QED
  BY <1>1, <1>2, <1>3

\* No step of the server breaks the count of the permits.
LEMMA Loop_Next ==
  ASSUME LoopInv, [ServerNext]_vars
  PROVE  LoopInv'
<1>1. CASE UNCHANGED <<scene, at, loopVars>>
  <2>1. QueueInv' /\ Serving' = Serving
    BY <1>1, Queue_Still DEF LoopInv, loopVars
  <2>2. QED
    BY <1>1, <2>1 DEF LoopInv, PermitInv, loopVars, Looping, Alive
<1>2. CASE CtrlC
  <2>1. CASE Killed
    BY <1>2, <2>1, Loop_Ending DEF CtrlC
  <2>2. CASE UNCHANGED <<at, loopVars>>
    BY <1>1, <1>2, <2>2 DEF CtrlC
  <2>3. QED
    BY <1>2, <2>1, <2>2 DEF CtrlC
<1>3. CASE Crash
  BY <1>3, Loop_Ending DEF Crash
<1>4. CASE UNCHANGED vars
  BY <1>1, <1>4 DEF vars
<1>5. CASE StartingUp \/ Start \/ ModelsChange
  BY <1>5, Loop_Starting
<1>6. CASE PollSelect \/ Accept \/ AcceptFails \/ Acquire \/ StopAccepting
  BY <1>6, Loop_Accepting
<1>7. ASSUME NEW c \in Clients,
             \/ Connect(c) \/ Filtering(c) \/ ConnectionEnds(c)
             \/ \E s \in Sensitivities : Transcribe(c, s)
      PROVE  LoopInv'
  BY <1>7, Loop_Client
<1>8. CASE Unlisten \/ ShutDown \/ Exit
  BY <1>8, Loop_Ending
<1>9. QED
  BY <1>2, <1>3, <1>4, <1>5, <1>6, <1>7, <1>8 DEF ServerNext

\* A connection is not over while its call is in the filter.
LEMMA Mutex_Next ==
  ASSUME MutexInv, LoopInv, VadInv, [ServerNext]_vars
  PROVE  MutexInv'
<1>0. /\ client \in [Clients -> ClientStates] /\ job \in [Clients -> Calls]
      /\ owner # None => owner \in Clients /\ job[owner].phase = "locked"
      /\ \A c \in Clients : InFilter(c) =>
           client[c] = "serving" \/ at = "cut"
      /\ ~Alive => \A c \in Clients : client[c] # "serving"
  BY DEF MutexInv, LoopInv, QueueInv, VadInv, PermitInv, Serving
<1>1. ASSUME UNCHANGED <<owner, job>>, at = "cut" => at' = "cut",
             \A c \in Clients :
               InFilter(c) /\ client[c] = "serving" => client'[c] = "serving"
      PROVE  MutexInv'
  BY <1>0, <1>1 DEF MutexInv, InFilter
<1>2. ASSUME UNCHANGED <<owner, job, client>>, at = "cut" => at' = "cut"
      PROVE  MutexInv'
  BY <1>1, <1>2
<1>3. ASSUME Forget
      PROVE  MutexInv'
  BY <1>3 DEF MutexInv, InFilter, Forget, NoJob
<1>4. ASSUME CloseBacklog, UNCHANGED <<owner, job>>, at # "cut"
      PROVE  MutexInv'
  <2>1. \A c \in Clients : client[c] = "serving" => client'[c] = "serving"
    <3>1. CASE Gone(ToSet(backlog))
      BY <3>1 DEF Gone, LoopInv, QueueInv
    <3>2. CASE client' = client
      BY <3>2
    <3>3. QED
      BY <1>4, <3>1, <3>2 DEF CloseBacklog
  <2>2. QED
    BY <1>1, <1>4, <2>1
<1>5. CASE UNCHANGED vars
  BY <1>2, <1>5 DEF vars, vadVars, loopVars
<1>6. CASE Start \/ PrintDiscoveredModels \/ FindModels \/ BindListener
           \/ LoadTts \/ LoadAsr \/ Ready \/ ModelsChange
  <2>1. UNCHANGED <<owner, job, client>> /\ (at = "cut" => at' = "cut")
    BY <1>6 DEF Start, PrintDiscoveredModels, FindModels, BindListener, LoadTts,
       LoadAsr, Ready, ModelsChange, vadVars, loopVars
  <2>2. QED
    BY <1>2, <2>1
<1>7. CASE StartupFails
  BY <1>4, <1>7 DEF StartupFails, RunFails, vadVars
<1>8. CASE PollSelect \/ AcceptFails \/ StopAccepting
  BY <1>2, <1>8 DEF PollSelect, AcceptFails, StopAccepting, vadVars, loopVars
<1>9. CASE Accept \/ Acquire \/ \E c \in Clients : Connect(c)
  <2>1. /\ UNCHANGED <<owner, job>> /\ (at = "cut" => at' = "cut")
        /\ \E d, s : /\ client' = [client EXCEPT ![d] = s]
                     /\ client[d] # "serving" \/ s = "serving"
    <3>1. CASE Accept
      <4>1. Head(backlog) \in ToSet(backlog)
        BY <3>1, TakenOff DEF Accept, LoopInv, QueueInv
      <4>2. client[Head(backlog)] # "serving"
        BY <4>1 DEF LoopInv, QueueInv
      <4>3. QED
        BY <3>1, <4>2 DEF Accept, vadVars
    <3>2. CASE Acquire
      BY <3>2 DEF Acquire, vadVars
    <3>3. CASE \E c \in Clients : Connect(c)
      BY <3>3 DEF Connect, vadVars
    <3>4. QED
      BY <1>9, <3>1, <3>2, <3>3
  <2>2. PICK d, s : /\ client' = [client EXCEPT ![d] = s]
                    /\ client[d] # "serving" \/ s = "serving"
    BY <2>1
  <2>3. \A c \in Clients : client[c] = "serving" => client'[c] = "serving"
    BY <1>0, <2>2
  <2>4. QED
    BY <1>1, <2>1, <2>3
<1>10. ASSUME NEW c \in Clients, ConnectionEnds(c)
       PROVE  MutexInv'
  <2>1. /\ ~InFilter(c) /\ Gone({c})
        /\ UNCHANGED <<at, owner, job>>
    BY <1>10 DEF ConnectionEnds, vadVars
  <2>2. \A d \in Clients \ {c} : client'[d] = client[d]
    BY <2>1 DEF Gone
  <2>3. QED
    BY <1>1, <2>1, <2>2
<1>11. ASSUME NEW c \in Clients, NEW s \in Sensitivities, Transcribe(c, s)
       PROVE  MutexInv'
  <2>1. /\ client[c] = "serving" /\ job[c].phase = "none"
        /\ job' = [job EXCEPT ![c] = [phase |-> "waiting", sensitivity |-> s]]
        /\ UNCHANGED <<at, client, owner>>
    BY <1>11 DEF Transcribe, FilterAudio, loopVars
  <2>2. \A d \in Clients \ {c} : job'[d] = job[d]
    BY <1>0, <2>1
  <2>3. owner # None => owner # c
    BY <1>0, <2>1
  <2>4. QED
    BY <1>0, <2>1, <2>2, <2>3 DEF MutexInv, InFilter
<1>12. ASSUME NEW c \in Clients, Filtering(c)
       PROVE  MutexInv'
  <2>1. VadNext(c) /\ UNCHANGED <<at, client>>
    BY <1>12 DEF Filtering, loopVars
  <2>2. CASE LockVad(c)
    <3>1. /\ job[c].phase = "waiting" /\ owner = None /\ owner' = c
          /\ job' = [job EXCEPT ![c] = [job[c] EXCEPT !.phase = "locked"]]
      BY <2>2 DEF LockVad, MayLock
    <3>2. /\ job'[c] = [job[c] EXCEPT !.phase = "locked"]
          /\ \A d \in Clients \ {c} : job'[d] = job[d]
      BY <1>0, <3>1
    <3>3. job[c] = [phase |-> job[c].phase, sensitivity |-> job[c].sensitivity]
      BY <1>0, <3>1, JobShapes
    <3>4. job'[c].phase = "locked"
      BY <3>2, <3>3
    <3>5. \A d \in Clients : InFilter(d)' => InFilter(d)
      BY <3>1, <3>2 DEF InFilter
    <3>6. QED
      BY <1>0, <2>1, <3>1, <3>4, <3>5 DEF MutexInv
  <2>3. ASSUME NEW j, j.phase \in {"failed", "done"}, Ends(c, j),
               owner = None \/ owner = c
        PROVE  MutexInv'
    <3>1. /\ owner' = None /\ job'[c] = j
          /\ \A d \in Clients \ {c} : job'[d] = job[d]
      BY <1>0, <2>3 DEF Ends
    <3>2. \A d \in Clients : InFilter(d)' => InFilter(d) /\ d # c
      BY <2>3, <3>1 DEF InFilter
    <3>3. QED
      BY <1>0, <2>1, <3>1, <3>2 DEF MutexInv
  <2>4. CASE ConfigFails(c)
    BY <2>3, <2>4 DEF ConfigFails, MayLock
  <2>5. CASE Segment(c) \/ SegmentFails(c)
    <3>1. owner = c
      BY <2>5 DEF VadInv, Segment, SegmentFails
    <3>2. QED
      BY <2>3, <2>5, <3>1 DEF Segment, SegmentFails
  <2>6. QED
    BY <2>1, <2>2, <2>4, <2>5 DEF VadNext
<1>13. CASE Unlisten
  BY <1>4, <1>13 DEF Unlisten, vadVars
<1>14. CASE ShutDown
  <2>1. /\ at' = "cut" /\ owner' = owner
    BY <1>14 DEF ShutDown
  <2>2. PICK begun \in SUBSET Clients :
          /\ owner # None => owner \in begun
          /\ job' = [c \in Clients |-> IF c \in begun THEN job[c] ELSE NoJob]
    BY <1>14 DEF ShutDown
  <2>3. QED
    BY <1>0, <2>1, <2>2 DEF MutexInv, InFilter, NoJob
<1>15. CASE Exit \/ Crash
  BY <1>3, <1>15 DEF Exit, Crash, Killed
<1>16. CASE CtrlC
  BY <1>2, <1>3, <1>16 DEF CtrlC, Killed, vadVars, loopVars
<1>17. QED
  BY <1>5, <1>6, <1>7, <1>8, <1>9, <1>10, <1>11, <1>12, <1>13, <1>14, <1>15, <1>16
     DEF ServerNext, StartingUp

\* The first of some options is one of them, or nothing.
LEMMA FirstIsAnOption ==
  ASSUME NEW options
  PROVE  FirstOf(options) \in {options[i] : i \in DOMAIN options} \cup {Nothing}
BY DEF FirstOf

\* Of two options it is the first, where that is known.
LEMMA FirstOfTwo ==
  ASSUME NEW x, NEW y, y # Nothing
  PROVE  FirstOf(<<x, y>>) = IF x = Nothing THEN y ELSE x
<1> DEFINE two == <<x, y>>
           first == {i \in DOMAIN two : two[i] # Nothing
                                        /\ \A j \in 1..(i - 1) : two[j] = Nothing}
<1>1. DOMAIN two = {1, 2} /\ two[1] = x /\ two[2] = y
  OBVIOUS
<1>2. FirstOf(two) = IF first = {} THEN Nothing ELSE two[CHOOSE i \in first : TRUE]
  BY DEF FirstOf
<1> HIDE DEF two
<1>3. CASE x = Nothing
  <2>1. first = {2}
    BY <1>1, <1>3
  <2>2. QED
    BY <1>1, <1>2, <1>3, <2>1 DEF two
<1>4. CASE x # Nothing
  <2>1. first = {1}
    BY <1>1, <1>4
  <2>2. QED
    BY <1>1, <1>2, <1>4, <2>1 DEF two
<1>5. QED
  BY <1>3, <1>4

\* What can be constructed to speak is of a type that speaks, whatever the
\* directory holds by now; and so for what listens.
LEMMA CreatedSpeaks ==
  ASSUME NEW entry
  PROVE  /\ Creates(ResolveTts(entry), entry) => IsTts(ResolveTts(entry))
         /\ Creates(ResolveAsr(entry), entry) => IsAsr(ResolveAsr(entry))
<1> DEFINE words == entry.config.architectures
           found == [i \in DOMAIN words |-> TypeOfArchitecture(words[i])]
           tries == <<TypeOfConfig(Lower(entry.config.model_type)), FirstOf(found),
                      TypeOfParams(entry.params)>>
<1>1. FirstOf(found) \in ModelTypes \cup {Nothing}
  <2>1. \A i \in DOMAIN found : found[i] \in ModelTypes \cup {Nothing}
    BY DEF TypeOfArchitecture, ModelTypes
  <2> HIDE DEF found
  <2>2. QED
    BY <2>1, FirstIsAnOption
<1>2. ProbeModelType(entry) \in ModelTypes \cup {Nothing}
  <2>1. DOMAIN tries = 1..3
    OBVIOUS
  <2>2. /\ tries[1] = TypeOfConfig(Lower(entry.config.model_type))
        /\ tries[2] = FirstOf(found) /\ tries[3] = TypeOfParams(entry.params)
    OBVIOUS
  <2>3. tries[1] \in ModelTypes \cup {Nothing}
    BY <2>2 DEF TypeOfConfig, ModelTypes
  <2>4. tries[3] \in ModelTypes \cup {Nothing}
    BY <2>2 DEF TypeOfParams, ModelTypes
  <2>5. ProbeModelType(entry) = FirstOf(tries)
    BY DEF ProbeModelType
  <2> HIDE DEF tries
  <2>6. \A i \in DOMAIN tries : tries[i] \in ModelTypes \cup {Nothing}
    BY <1>1, <2>1, <2>2, <2>3, <2>4
  <2>7. QED
    BY <2>5, <2>6, FirstIsAnOption
<1>3. DetectModelType(entry) \in ModelTypes
  <2> DEFINE probed == ProbeModelType(entry)
             path == TypeOfPath(entry.marks)
  <2>1. path \in ModelTypes /\ path # Nothing
    BY ModelFactoryAssumption DEF TypeOfPath, ModelTypes
  <2>2. DetectModelType(entry) = FirstOf(<<probed, path>>)
    BY DEF DetectModelType
  <2>3. probed \in ModelTypes \cup {Nothing}
    BY <1>2
  <2> HIDE DEF probed, path
  <2>4. QED
    BY <2>1, <2>2, <2>3, FirstOfTwo
<1>4. QED
  BY <1>3 DEF ResolveTts, ResolveAsr, Creates, IsTts, IsAsr, ModelTypes

\* What is registered stays, and what is added is of its kind.
LEMMA Types_Next ==
  ASSUME TypesInv, [ServerNext]_vars
  PROVE  TypesInv'
<1> USE DEF loadVars
<1>1. CASE UNCHANGED <<tts, asr>>
  BY <1>1 DEF TypesInv
<1>2. CASE LoadTts
  <2> DEFINE name == models.tts[Len(model_names) + 1]
             entry == disk.tts[name]
             new == [type |-> ResolveTts(entry), voices |-> entry.voices]
  <2>1. /\ Creates(ResolveTts(entry), entry) /\ asr' = asr
        /\ tts' = Registered(tts, name, new)
    BY <1>2 DEF LoadTts
  <2>2. IsTts(new.type)
    BY <2>1, CreatedSpeaks
  <2> HIDE DEF name, new
  <2>3. \A n \in DOMAIN tts' : tts'[n] = new \/ (n \in DOMAIN tts /\ tts'[n] = tts[n])
    BY <2>1 DEF Registered
  <2>4. QED
    BY <2>1, <2>2, <2>3 DEF TypesInv
<1>3. CASE LoadAsr
  <2> DEFINE name == models.asr[Len(asr_model_names) + 1]
             entry == disk.asr[name]
             new == [type |-> ResolveAsr(entry), languages |-> entry.languages]
  <2>1. /\ Creates(ResolveAsr(entry), entry) /\ tts' = tts
        /\ asr' = Registered(asr, name, new)
    BY <1>3 DEF LoadAsr
  <2>2. IsAsr(new.type)
    BY <2>1, CreatedSpeaks
  <2> HIDE DEF name, new
  <2>3. \A n \in DOMAIN asr' : asr'[n] = new \/ (n \in DOMAIN asr /\ asr'[n] = asr[n])
    BY <2>1 DEF Registered
  <2>4. QED
    BY <2>1, <2>2, <2>3 DEF TypesInv
<1>4. CASE Exit \/ Killed
  BY <1>4 DEF Exit, Killed, Forget, TypesInv
<1>5. CASE Start \/ PrintDiscoveredModels \/ FindModels \/ BindListener \/ Ready
           \/ StartupFails \/ ModelsChange
  BY <1>1, <1>5 DEF Start, PrintDiscoveredModels, FindModels, BindListener, Ready,
     StartupFails, ModelsChange
<1>6. CASE PollSelect \/ Accept \/ AcceptFails \/ Acquire \/ StopAccepting
  BY <1>1, <1>6 DEF PollSelect, Accept, AcceptFails, Acquire, StopAccepting
<1>7. ASSUME NEW c \in Clients,
             \/ Connect(c) \/ Filtering(c) \/ ConnectionEnds(c)
             \/ \E s \in Sensitivities : Transcribe(c, s)
      PROVE  TypesInv'
  BY <1>1, <1>7 DEF Connect, Filtering, ConnectionEnds, Transcribe
<1>8. CASE Unlisten \/ ShutDown
  BY <1>1, <1>8 DEF Unlisten, ShutDown
<1>9. CASE Crash \/ CtrlC
  BY <1>1, <1>4, <1>9 DEF Crash, CtrlC
<1>10. CASE UNCHANGED vars
  BY <1>1, <1>10 DEF vars
<1>11. QED
  BY <1>2, <1>3, <1>4, <1>5, <1>6, <1>7, <1>8, <1>9, <1>10 DEF ServerNext, StartingUp

\* No permit is lost or made, nobody waits twice, a call in the filter has its
\* connection, and what was registered to speak or to listen is of a type that
\* does (serve, load_tts, load_asr): for every scene.
THEOREM ServerIsTyped == ServerSpec => []ServerTypeOK
<1> DEFINE I == VadInv /\ LoopInv /\ MutexInv /\ TypesInv
<1>1. ASSUME ServerInit PROVE I
  <2>1. \A c \in Clients : job[c] = NoJob /\ client[c] = "away"
    BY <1>1 DEF ServerInit, VadInit
  <2>2. VadInv
    BY <1>1, Vad_Init
  <2>3. MutexInv
    BY <1>1, <2>1 DEF MutexInv, ServerInit, VadInit, InFilter, NoJob
  <2>4. TypesInv
    BY <1>1 DEF ServerInit, NothingLoaded, TypesInv
  <2>5. QueueInv
    <3>1. client \in [Clients -> ClientStates] /\ accepted = None /\ backlog = <<>>
      BY <1>1 DEF ServerInit, ClientStates
    <3>2. ToSet(backlog) = {c \in Clients : client[c] = "queued"}
      BY <2>1, <3>1, NoBacklog
    <3>3. QED
      BY <3>1, <3>2, NoBacklog DEF QueueInv
  <2>6. PermitInv
    BY <1>1, <2>1 DEF ServerInit, PermitInv, Stages, Alive, Looping, Serving
  <2>7. QED
    BY <2>2, <2>3, <2>4, <2>5, <2>6 DEF LoopInv
<1>2. I /\ [ServerNext]_vars => I'
  BY Vad_Next, Loop_Next, Mutex_Next, Types_Next
<1>3. I => ServerTypeOK
  <2> SUFFICES ASSUME I PROVE ServerTypeOK
    OBVIOUS
  <2>1. owner # None => client[owner] = "serving" \/ at = "cut"
    BY DEF MutexInv, InFilter
  <2>2. QED
    BY <2>1 DEF LoopInv, QueueInv, PermitInv, TypesInv, ServerTypeOK, Stages,
       ClientStates
<1>4. QED
  BY <1>1, <1>2, <1>3, PTL DEF ServerSpec

-----------------------------------------------------------------------------
(***************************************************************************)
(* Tables: entry(key).or_insert(value), one table after the other          *)
(***************************************************************************)
\* One table wins a key: the first that has it.
Winner(tables, s, key) ==
  CHOOSE i \in s : key \in DOMAIN tables[i]
                   /\ \A j \in s : key \in DOMAIN tables[j] => i <= j

Won(tables, s) ==
  [key \in UNION {DOMAIN tables[i] : i \in s} |-> tables[Winner(tables, s, key)][key]]

\* The last table gets what nobody before it had.
LEMMA OneMore ==
  ASSUME NEW tables, NEW s \in SUBSET Nat, NEW x \in s, \A i \in s : i <= x
  PROVE  Won(tables, s) = Claim(Won(tables, s \ {x}), tables[x])
<1> DEFINE r == s \ {x}
           keys(t) == UNION {DOMAIN tables[i] : i \in t}
<1>1. keys(s) = keys(r) \cup DOMAIN tables[x]
  OBVIOUS
<1>2. DOMAIN Won(tables, r) = keys(r)
  BY DEF Won
<1>3. ASSUME NEW key \in keys(s), key \in keys(r)
      PROVE  Winner(tables, s, key) = Winner(tables, r, key)
  <2>1. PICK j \in r : key \in DOMAIN tables[j]
    BY <1>3
  <2>2. \A i \in r : i < x
    <3>1. \A i \in s : i \in Nat
      OBVIOUS
    <3>2. \A i \in r : i \in Nat /\ i <= x /\ i # x
      BY <3>1
    <3> QED BY <3>1, <3>2
  <2>3. ASSUME NEW i
        PROVE  (i \in s /\ key \in DOMAIN tables[i]
                  /\ \A k \in s : key \in DOMAIN tables[k] => i <= k)
               <=> (i \in r /\ key \in DOMAIN tables[i]
                  /\ \A k \in r : key \in DOMAIN tables[k] => i <= k)
    <3>1. CASE i = x
      <4>1. j \in s /\ j < x /\ i \notin r /\ j \in Nat /\ x \in Nat
        BY <2>1, <2>2, <3>1
      <4>2. ~(x <= j)
        BY <4>1
      <4> QED BY <2>1, <3>1, <4>1, <4>2
    <3>2. CASE i # x
      BY <2>2, <3>2
    <3> QED BY <3>1, <3>2
  <2> QED BY <2>3, Zenon DEF Winner
<1>4. ASSUME NEW key \in keys(s), key \notin keys(r)
      PROVE  Winner(tables, s, key) = x
  <2>1. key \in DOMAIN tables[x] /\ \A i \in r : key \notin DOMAIN tables[i]
    BY <1>4
  <2>2. x <= x
    OBVIOUS
  <2> QED BY <2>1, <2>2 DEF Winner
<1>5. Won(tables, s) =
        [key \in keys(r) \cup DOMAIN tables[x] |->
           IF key \in keys(r) THEN Won(tables, r)[key] ELSE tables[x][key]]
  <2>1. ASSUME NEW key \in keys(s)
        PROVE  tables[Winner(tables, s, key)][key] =
                 IF key \in keys(r) THEN Won(tables, r)[key] ELSE tables[x][key]
    BY <1>3, <1>4 DEF Won
  <2> QED BY <1>1, <2>1 DEF Won
<1> QED BY <1>2, <1>5 DEF Claim

\* All claims at once.
LEMMA ClaimsAll ==
  ASSUME NEW N \in Nat, NEW tables, DOMAIN tables = 1..N
  PROVE  Claims(tables) = Won(tables, 1..N)
<1> DEFINE D == 1..N
           Step(g, s) == IF s = {} THEN <<>>
                         ELSE Claim(g[s \ {Max(s)}], tables[Max(s)])
           iter == CHOOSE g : g = [s \in SUBSET D |-> Step(g, s)]
           won == [s \in SUBSET D |-> Won(tables, s)]
<1>1. Claims(tables) = iter[D]
  BY DEF Claims, FoldLeft, MapThenFoldSet
<1>2. ASSUME NEW s \in SUBSET D
      PROVE  Won(tables, s) = Step(won, s)
  <2>1. CASE s = {}
    BY <2>1 DEF Won
  <2>2. CASE s # {}
    <3>1. s \in SUBSET Nat /\ IsFiniteSet(s)
      <4>1. \A n \in s : n \in 0..N
        OBVIOUS
      <4> QED BY <4>1, Parts
    <3>2. Max(s) \in s /\ \A n \in s : n <= Max(s)
      BY <2>2, <3>1, Greatest
    <3>3. Won(tables, s) = Claim(Won(tables, s \ {Max(s)}), tables[Max(s)])
      BY <3>1, <3>2, OneMore
    <3> QED BY <2>2, <3>3
  <2> QED BY <2>1, <2>2
<1>3. won = [s \in SUBSET D |-> Step(won, s)]
  BY <1>2
<1>4. iter = [s \in SUBSET D |-> Step(iter, s)]
  <2> HIDE DEF won, Step
  <2> QED BY <1>3
<1>5. ASSUME NEW n \in 0..N, iter[1..n] # Won(tables, 1..n)
      PROVE  FALSE
  <2> DEFINE bad == {m \in 0..N : iter[1..m] # Won(tables, 1..m)}
  <2>1. bad \in SUBSET Nat /\ IsFiniteSet(bad) /\ bad # {}
    BY <1>5, Parts
  <2> DEFINE m == Min(bad)
  <2>2. m \in bad /\ \A k \in bad : m <= k
    BY <2>1, Least
  <2> HIDE DEF m
  <2>3. m \in 0..N /\ iter[1..m] # Won(tables, 1..m)
    BY <2>2
  <2>4. iter[1..m] = Step(iter, 1..m) /\ Won(tables, 1..m) = Step(won, 1..m)
    <3>1. (1..m) \in SUBSET D
      BY <2>3
    <3> HIDE DEF Step, iter
    <3> QED BY <1>2, <1>4, <3>1
  <2>5. m # 0
    BY <2>3, <2>4
  <2>6. m - 1 \in 0..N /\ m - 1 \notin bad
    <3>1. m - 1 \in 0..N /\ ~(m <= m - 1)
      BY <2>3, <2>5
    <3> QED BY <2>2, <3>1
  <2>7. Max(1..m) = m /\ (1..m) \ {m} = 1..(m - 1)
    <3>1. (1..m) \in SUBSET Nat /\ IsFiniteSet(1..m) /\ m \in 1..m
      BY <2>3, <2>5, FS_Interval
    <3>2. Max(1..m) \in 1..m /\ m <= Max(1..m)
      BY <3>1, Greatest
    <3> QED BY <2>3, <3>2
  <2>8. iter[1..(m - 1)] = Won(tables, 1..(m - 1)) /\ (1..(m - 1)) \in SUBSET D
    BY <2>3, <2>6
  <2>9. 1..m # {}
    <3>1. 1 \in 1..m
      BY <2>3, <2>5
    <3> QED BY <3>1
  <2> HIDE DEF iter
  <2> QED BY <2>3, <2>4, <2>7, <2>8, <2>9
<1>6. N \in 0..N
  OBVIOUS
<1> HIDE DEF iter
<1> QED BY <1>1, <1>5, <1>6

IsFirst(tables, key, i) ==
  key \in DOMAIN tables[i] /\ \A j \in DOMAIN tables : key \in DOMAIN tables[j] => i <= j

\* A key is claimed by the first table that has it.
LEMMA Claimed ==
  ASSUME NEW N \in Nat, NEW tables, DOMAIN tables = 1..N, NEW key
  PROVE  /\ key \in DOMAIN Claims(tables) <=> \E i \in 1..N : key \in DOMAIN tables[i]
         /\ key \in DOMAIN Claims(tables) =>
              \E i \in 1..N : /\ IsFirst(tables, key, i)
                              /\ Claims(tables)[key] = tables[i][key]
<1>1. Claims(tables) = Won(tables, 1..N)
  BY ClaimsAll
<1>2. DOMAIN Claims(tables) = UNION {DOMAIN tables[i] : i \in 1..N}
  BY <1>1 DEF Won
<1>3. ASSUME key \in DOMAIN Claims(tables)
      PROVE  \E i \in 1..N : /\ IsFirst(tables, key, i)
                             /\ Claims(tables)[key] = tables[i][key]
  <2> DEFINE having == {i \in 1..N : key \in DOMAIN tables[i]}
  <2>1. having \in SUBSET Nat /\ IsFiniteSet(having)
    BY Parts
  <2>2. having # {}
    BY <1>2, <1>3
  <2>3. Min(having) \in having /\ \A i \in having : Min(having) <= i
    BY <2>1, <2>2, Least
  <2>4. \E i \in 1..N : key \in DOMAIN tables[i]
                        /\ \A j \in 1..N : key \in DOMAIN tables[j] => i <= j
    BY <2>3
  <2> DEFINE i == Winner(tables, 1..N, key)
  <2>5. i \in 1..N /\ key \in DOMAIN tables[i]
        /\ \A j \in 1..N : key \in DOMAIN tables[j] => i <= j
    BY <2>4 DEF Winner
  <2>6. Claims(tables)[key] = tables[i][key]
    BY <1>1, <1>2, <1>3 DEF Won
  <2> HIDE DEF i
  <2> QED BY <2>5, <2>6 DEF IsFirst
<1> QED BY <1>2, <1>3

-----------------------------------------------------------------------------
(***************************************************************************)
(* Loading                                                                 *)
(***************************************************************************)
\* What is to be loaded: what was asked for, or all, in their order.
IsChoice(list, requested) ==
  /\ list \in Seq(Nat) /\ IsInjective(list)
  /\ list = requested
     \/ /\ requested = <<>>
        /\ \E S \in SUBSET Nat : IsFiniteSet(S) /\ list = InOrder(S)

\* The first of the list are loaded; the very first is the default.
IsLoaded(list, names, handles, default) ==
  /\ names \in Seq(Nat) /\ Len(names) <= Len(list)
  /\ \A i \in 1..Len(names) : names[i] = list[i]
  /\ DOMAIN handles = ToSet(names)
  /\ default = IF names = <<>> THEN Nothing ELSE names[1]

LoadInv ==
  /\ scene \in Scenes /\ disk \in {scene.disk, scene.later}
  /\ at \in {"exited", "discover"} =>
       /\ model_names = <<>> /\ asr_model_names = <<>>
       /\ tts = <<>> /\ asr = <<>>
       /\ default_tts = Nothing /\ default_asr = Nothing
  /\ at \in {"bind", "load"} \/ Looping =>
       /\ IsChoice(models.tts, scene.args.model_tts)
       /\ IsChoice(models.asr, scene.args.model_asr)
       /\ IsLoaded(models.tts, model_names, tts, default_tts)
       /\ IsLoaded(models.asr, asr_model_names, asr, default_asr)
       /\ \A n \in DOMAIN tts : IsVoices(n, tts[n].voices)
  /\ Looping =>
       /\ Len(model_names) = Len(models.tts)
       /\ Len(asr_model_names) = Len(models.asr)
       /\ voice_map = NewVoiceMap(model_names, tts, default_tts)
       /\ asr_map = NewAsrModelMap(asr_model_names, asr, default_asr)

\* Before anything is loaded.
LEMMA NoneLoaded ==
  ASSUME NEW list \in Seq(Nat)
  PROVE  IsLoaded(list, <<>>, <<>>, Nothing)
  BY LenProperties DEF IsLoaded, ToSet

\* One more is loaded.
LEMMA OneLoaded ==
  ASSUME NEW list \in Seq(Nat), NEW names, NEW handles, NEW default, NEW model,
         IsLoaded(list, names, handles, default), Len(names) < Len(list)
  PROVE  LET name == list[Len(names) + 1]
         IN  /\ name \in Nat
             /\ IsLoaded(list, Append(names, name), Registered(handles, name, model),
                         FirstOf(<<default, name>>))
<1> DEFINE n == Len(names) + 1
           name == list[n]
           more == Append(names, name)
<1>1. names \in Seq(Nat) /\ Len(names) \in Nat /\ Len(list) \in Nat
  BY LenProperties DEF IsLoaded
<1>2. n \in 1..Len(list) /\ name \in Nat /\ name # Nothing
  <2>1. n \in 1..Len(list)
    BY <1>1
  <2> HIDE DEF n
  <2>2. list[n] \in Nat
    BY <2>1, ElementOfSeq
  <2> QED BY <2>1, <2>2, SceneAssumption
<1>3. more \in Seq(Nat) /\ Len(more) = n /\ more # <<>>
      /\ \A i \in 1..n : more[i] = IF i = n THEN name ELSE names[i]
  BY <1>1, <1>2, AppendProperties
<1>4. \A i \in 1..n : more[i] = list[i]
  <2>1. \A i \in 1..Len(names) : names[i] = list[i]
    BY DEF IsLoaded
  <2>2. \A i \in 1..n : i = n \/ i \in 1..Len(names)
    BY <1>1
  <2> HIDE DEF more
  <2> QED BY <1>3, <2>1, <2>2
<1>5. DOMAIN names = 1..Len(names) /\ DOMAIN more = 1..n
  BY <1>1, <1>3, LenProperties
<1>6. ToSet(more) = ToSet(names) \cup {name}
  BY <1>1, <1>3, <1>5 DEF ToSet
<1>7. DOMAIN Registered(handles, name, model) = ToSet(more)
  BY <1>6 DEF Registered, IsLoaded
<1>8. FirstOf(<<default, name>>) = more[1]
  <2>1. CASE names = <<>>
    <3>1. default = Nothing /\ more[1] = name
      BY <1>3, <2>1 DEF IsLoaded
    <3> QED BY <1>2, <3>1, FirstOfTwo
  <2>2. CASE names # <<>>
    <3>1. default = names[1] /\ names[1] \in Nat /\ 1 \in 1..Len(names)
      BY <1>1, <2>2, ElementOfSeq, EmptySeq DEF IsLoaded
    <3>2. default # Nothing /\ more[1] = default
      BY <1>1, <1>3, <3>1, SceneAssumption
    <3> HIDE DEF name, more
    <3>3. FirstOf(<<default, name>>) = default
      BY <1>2, <3>2, FirstOfTwo
    <3> QED BY <3>2, <3>3
  <2> QED BY <2>1, <2>2
<1>9. IsLoaded(list, more, Registered(handles, name, model), FirstOf(<<default, name>>))
  <2> HIDE DEF more, name
  <2>1. Len(more) <= Len(list) /\ \A i \in 1..Len(more) : more[i] = list[i]
    BY <1>2, <1>3, <1>4
  <2> QED BY <1>3, <1>7, <1>8, <2>1 DEF IsLoaded
<1> QED BY <1>2, <1>9

\* What is chosen to be loaded.
LEMMA Chosen ==
  ASSUME NEW dir, NEW found, NEW requested \in Seq(Nat), IsListing(dir),
         dir \notin {Missing, Unreadable} => found \subseteq DOMAIN dir,
         ResolveRequestedModels(Discover(dir, found), requested) # Failure,
         Discover(dir, found) # Failure
  PROVE  IsChoice(ResolveRequestedModels(Discover(dir, found), requested), requested)
<1> DEFINE all == Discover(dir, found)
<1>1. \E S \in SUBSET Nat : IsFiniteSet(S) /\ all = InOrder(S)
  <2>1. CASE dir \in {Missing, Unreadable}
    <3>1. all = <<>>
      BY <2>1 DEF Discover
    <3>2. IsFiniteSet({}) /\ Cardinality({}) = 0 /\ {} \in SUBSET Nat
      BY FS_EmptySet
    <3>3. InOrder({}) = <<>>
      BY <3>2 DEF InOrder
    <3> QED BY <3>1, <3>2, <3>3
  <2>2. CASE dir \notin {Missing, Unreadable}
    <3>1. all = InOrder(found)
      BY <2>2 DEF Discover, Alphabetically
    <3>2. found \in SUBSET Nat /\ IsFiniteSet(found)
      BY <2>2, FS_Subset DEF IsListing
    <3> QED BY <3>1, <3>2
  <2> QED BY <2>1, <2>2
<1>2. PICK S \in SUBSET Nat : IsFiniteSet(S) /\ all = InOrder(S)
  BY <1>1
<1>3. all \in Seq(Nat) /\ IsInjective(all)
  <2>1. all \in Seq(S) /\ Len(all) = Cardinality(S)
        /\ \A i, j \in 1..Cardinality(S) : i < j => all[i] < all[j]
    BY <1>2, Ordered
  <2>2. all \in Seq(Nat)
    BY <2>1, SeqMonotonic
  <2>3. DOMAIN all = 1..Cardinality(S) /\ Cardinality(S) \in Nat
    BY <2>1, LenProperties
  <2>4. ASSUME NEW i \in DOMAIN all, NEW j \in DOMAIN all, all[i] = all[j]
        PROVE  i = j
    <3>1. all[i] \in Nat /\ all[j] \in Nat
      BY <2>2, <2>1, <2>3, ElementOfSeq
    <3>2. ~(i < j) /\ ~(j < i)
      BY <2>1, <2>3, <2>4, <3>1
    <3> QED BY <2>3, <3>2
  <2> QED BY <2>2, <2>4 DEF IsInjective
<1> HIDE DEF all
<1>4. CASE requested = <<>>
  BY <1>2, <1>3, <1>4 DEF IsChoice, ResolveRequestedModels, all
<1>5. CASE requested # <<>>
  BY <1>5 DEF IsChoice, ResolveRequestedModels, all
<1> QED BY <1>4, <1>5

\* A step that loads nothing and comes no nearer to serving.
LEMMA Load_Elsewhere ==
  ASSUME LoadInv, UNCHANGED <<scene, loadVars>>, disk' \in {scene.disk, scene.later},
         at' \in {"exited", "discover"} => at \in {"exited", "discover"},
         at' \in {"bind", "load"} => at \in {"bind", "load"},
         Looping' => Looping
  PROVE  LoadInv'
<1>1. UNCHANGED <<scene, models, model_names, asr_model_names, tts, asr, default_tts,
                  default_asr, voice_map, asr_map>>
  BY DEF loadVars
<1>2. at' \in {"exited", "discover"} =>
        /\ model_names' = <<>> /\ asr_model_names' = <<>>
        /\ tts' = <<>> /\ asr' = <<>>
        /\ default_tts' = Nothing /\ default_asr' = Nothing
  BY <1>1 DEF LoadInv
<1>3. ASSUME at' \in {"bind", "load"} \/ Looping'
      PROVE  at \in {"bind", "load"} \/ Looping
  BY <1>3
<1> QED BY <1>1, <1>2, <1>3 DEF LoadInv

\* The runtime is gone.
LEMMA Load_Forget ==
  ASSUME LoadInv, Forget, UNCHANGED <<scene, disk>>
  PROVE  LoadInv'
  BY DEF LoadInv, Forget, Looping

\* Models are found and chosen.
LEMMA Load_FindModels ==
  ASSUME LoadInv, FindModels
  PROVE  LoadInv'
<1>1. /\ at = "discover" /\ at' = "bind" /\ UNCHANGED <<scene, disk>>
      /\ model_names' = <<>> /\ asr_model_names' = <<>> /\ tts' = <<>> /\ asr' = <<>>
      /\ default_tts' = Nothing /\ default_asr' = Nothing
  BY DEF FindModels, LoadInv
<1>2. /\ models' = [tts |-> ResolveRequestedModels(Discovered.tts, scene.args.model_tts),
                    asr |-> ResolveRequestedModels(Discovered.asr, scene.args.model_asr),
                    vad |-> Discovered.vad]
      /\ ~Fails(models') /\ ~Fails(Discovered)
  BY DEF FindModels, ModelsToLoad
<1>3. /\ Discovered.tts = DiscoverModels(disk.tts)
      /\ Discovered.asr = DiscoverAsrModels(disk.asr)
      /\ Discovered.tts # Failure /\ Discovered.asr # Failure
  BY <1>2 DEF Discovered, Fails
<1>4. models'.tts # Failure /\ models'.asr # Failure
  BY <1>2 DEF Fails
<1>5. /\ scene.args.model_tts \in Seq(Nat) /\ scene.args.model_asr \in Seq(Nat)
      /\ IsListing(disk.tts) /\ IsListing(disk.asr)
  BY SceneAssumption DEF LoadInv
<1>6. IsChoice(models'.tts, scene.args.model_tts)
  <2> DEFINE found == {n \in ScanSubdirs(disk.tts) : IsTts(ProbeModelType(disk.tts[n]))}
  <2>1. found \subseteq DOMAIN disk.tts
    BY DEF ScanSubdirs
  <2>2. Discovered.tts = Discover(disk.tts, found)
    BY <1>3 DEF DiscoverModels
  <2>3. models'.tts = ResolveRequestedModels(Discover(disk.tts, found),
                                             scene.args.model_tts)
    BY <1>2, <2>2
  <2> HIDE DEF found
  <2> QED BY <1>3, <1>4, <1>5, <2>1, <2>2, <2>3, Chosen
<1>7. IsChoice(models'.asr, scene.args.model_asr)
  <2> DEFINE found == {n \in ScanSubdirs(disk.asr) : IsAsr(ProbeModelType(disk.asr[n]))}
  <2>1. found \subseteq DOMAIN disk.asr
    BY DEF ScanSubdirs
  <2>2. Discovered.asr = Discover(disk.asr, found)
    BY <1>3 DEF DiscoverAsrModels
  <2>3. models'.asr = ResolveRequestedModels(Discover(disk.asr, found),
                                             scene.args.model_asr)
    BY <1>2, <2>2
  <2> HIDE DEF found
  <2> QED BY <1>3, <1>4, <1>5, <2>1, <2>2, <2>3, Chosen
<1>8. /\ IsLoaded(models'.tts, <<>>, <<>>, Nothing)
      /\ IsLoaded(models'.asr, <<>>, <<>>, Nothing)
  <2>1. models'.tts \in Seq(Nat) /\ models'.asr \in Seq(Nat)
    BY <1>6, <1>7 DEF IsChoice
  <2> QED BY <2>1, NoneLoaded
<1>9. DOMAIN tts' = {}
  BY <1>1
<1> QED BY <1>1, <1>6, <1>7, <1>8, <1>9 DEF LoadInv, Looping

\* A model to speak is loaded, from what its directory holds by now.
LEMMA Load_LoadTts ==
  ASSUME LoadInv, LoadTts
  PROVE  LoadInv'
<1> DEFINE name == models.tts[Len(model_names) + 1]
           model == [type |-> ResolveTts(disk.tts[name]), voices |-> disk.tts[name].voices]
<1>1. /\ at = "load" /\ Len(model_names) < Len(models.tts)
      /\ Loadable(disk.tts, name)
      /\ tts' = Registered(tts, name, model)
      /\ default_tts' = FirstOf(<<default_tts, name>>)
      /\ model_names' = Append(model_names, name)
      /\ UNCHANGED <<scene, disk, at, models, asr_model_names, asr, default_asr>>
  BY DEF LoadTts
<1>2. /\ IsChoice(models.tts, scene.args.model_tts)
      /\ IsChoice(models.asr, scene.args.model_asr)
      /\ IsLoaded(models.tts, model_names, tts, default_tts)
      /\ IsLoaded(models.asr, asr_model_names, asr, default_asr)
      /\ \A n \in DOMAIN tts : IsVoices(n, tts[n].voices)
  BY <1>1 DEF LoadInv
<1>3. IsLoaded(models.tts, model_names', tts', default_tts')
  BY <1>1, <1>2, OneLoaded DEF IsChoice
<1>4. ASSUME NEW n \in DOMAIN tts'
      PROVE  IsVoices(n, tts'[n].voices)
  <2>1. IsVoices(name, disk.tts[name].voices)
    BY <1>1, SceneAssumption DEF LoadInv, Loadable
  <2>2. tts'[n] = IF n = name THEN model ELSE tts[n]
    BY <1>1, <1>4 DEF Registered
  <2>3. n = name \/ n \in DOMAIN tts
    BY <1>1, <1>4 DEF Registered
  <2> QED BY <1>2, <2>1, <2>2, <2>3
<1>5. scene' = scene /\ disk' = disk /\ at' = "load" /\ models' = models
      /\ asr_model_names' = asr_model_names /\ asr' = asr /\ default_asr' = default_asr
  BY <1>1
<1>6. scene \in Scenes /\ disk \in {scene.disk, scene.later}
  BY DEF LoadInv
<1> HIDE DEF name, model
<1> QED BY <1>2, <1>3, <1>4, <1>5, <1>6 DEF LoadInv, Looping

\* A model to listen is loaded.
LEMMA Load_LoadAsr ==
  ASSUME LoadInv, LoadAsr
  PROVE  LoadInv'
<1> DEFINE name == models.asr[Len(asr_model_names) + 1]
           model == [type |-> ResolveAsr(disk.asr[name]),
                     languages |-> disk.asr[name].languages]
<1>1. /\ at = "load" /\ Len(asr_model_names) < Len(models.asr)
      /\ asr' = Registered(asr, name, model)
      /\ default_asr' = FirstOf(<<default_asr, name>>)
      /\ asr_model_names' = Append(asr_model_names, name)
      /\ UNCHANGED <<scene, disk, at, models, model_names, tts, default_tts>>
  BY DEF LoadAsr
<1>2. /\ IsChoice(models.tts, scene.args.model_tts)
      /\ IsChoice(models.asr, scene.args.model_asr)
      /\ IsLoaded(models.tts, model_names, tts, default_tts)
      /\ IsLoaded(models.asr, asr_model_names, asr, default_asr)
      /\ \A n \in DOMAIN tts : IsVoices(n, tts[n].voices)
  BY <1>1 DEF LoadInv
<1>3. IsLoaded(models.asr, asr_model_names', asr', default_asr')
  BY <1>1, <1>2, OneLoaded DEF IsChoice
<1> QED BY <1>1, <1>2, <1>3 DEF LoadInv, Looping

\* All are loaded, and the tables are made.
LEMMA Load_Ready ==
  ASSUME LoadInv, Ready
  PROVE  LoadInv'
  BY DEF LoadInv, Ready, Looping

\* No step loads another model than the next of those chosen, or makes other
\* tables than theirs.
LEMMA Load_Next ==
  ASSUME LoadInv, [ServerNext]_vars
  PROVE  LoadInv'
<1> USE DEF Looping
<1>0. disk \in {scene.disk, scene.later}
  BY DEF LoadInv
<1>1. CASE Start \/ PrintDiscoveredModels \/ BindListener \/ ModelsChange
  BY <1>0, <1>1, Load_Elsewhere DEF Start, PrintDiscoveredModels, BindListener,
     ModelsChange
<1>2. CASE StartupFails
  BY <1>0, <1>2, Load_Elsewhere DEF StartupFails, RunFails
<1>3. CASE FindModels \/ LoadTts \/ LoadAsr \/ Ready
  BY <1>3, Load_FindModels, Load_LoadTts, Load_LoadAsr, Load_Ready
<1>4. CASE PollSelect \/ Accept \/ AcceptFails \/ Acquire \/ StopAccepting
  BY <1>0, <1>4, Load_Elsewhere DEF PollSelect, Accept, AcceptFails, Acquire,
     StopAccepting
<1>5. ASSUME NEW c \in Clients,
             \/ Connect(c) \/ Filtering(c) \/ ConnectionEnds(c)
             \/ \E s \in Sensitivities : Transcribe(c, s)
      PROVE  LoadInv'
  BY <1>0, <1>5, Load_Elsewhere DEF Connect, Filtering, ConnectionEnds, Transcribe
<1>6. CASE Unlisten \/ ShutDown
  BY <1>0, <1>6, Load_Elsewhere DEF Unlisten, ShutDown
<1>7. CASE Exit \/ Crash
  BY <1>7, Load_Forget DEF Exit, Crash, Killed
<1>8. CASE CtrlC
  <2>1. CASE Killed
    BY <1>8, <2>1, Load_Forget DEF CtrlC, Killed
  <2>2. CASE ~Killed
    BY <1>0, <1>8, <2>2, Load_Elsewhere DEF CtrlC
  <2> QED BY <2>1, <2>2
<1>9. CASE UNCHANGED vars
  BY <1>0, <1>9, Load_Elsewhere DEF vars
<1> QED
  BY <1>1, <1>2, <1>3, <1>4, <1>5, <1>6, <1>7, <1>8, <1>9 DEF ServerNext, StartingUp

-----------------------------------------------------------------------------
(***************************************************************************)
(* The tables of a server                                                  *)
(***************************************************************************)
\* A runtime has all the models that were loaded into it.
LEMMA AllKnown ==
  ASSUME NEW names \in Seq(Nat), NEW handles, DOMAIN handles = ToSet(names)
  PROVE  Known(names, handles) = names
<1>1. {i \in DOMAIN names : names[i] \in DOMAIN handles} = DOMAIN names
  BY DEF ToSet
<1> QED BY <1>1, PickAll DEF Known

\* Of a model's voices with a language the first speaks it.
LEMMA Languages ==
  ASSUME NEW model, NEW voices, IsVoices(model, voices), NEW base
  PROVE  /\ base \in DOMAIN ByLanguage(model, voices) <=>
              \E v \in DOMAIN voices : base \in BaseSubtags(voices[v].languages)
         /\ base \in DOMAIN ByLanguage(model, voices) =>
              \E v \in DOMAIN voices :
                /\ base \in BaseSubtags(voices[v].languages)
                /\ ByLanguage(model, voices)[base] = <<model, voices[v].name>>
<1> DEFINE N == Len(voices)
           tables == [v \in DOMAIN voices |->
                        [b \in BaseSubtags(voices[v].languages) |->
                           <<model, voices[v].name>>]]
<1>1. DOMAIN voices = 1..N /\ N \in Nat
  BY LenProperties DEF IsVoices
<1>2. DOMAIN tables = 1..N /\ ByLanguage(model, voices) = Claims(tables)
  BY <1>1 DEF ByLanguage
<1>3. \A v \in 1..N :
        /\ DOMAIN tables[v] = BaseSubtags(voices[v].languages)
        /\ \A b \in DOMAIN tables[v] : tables[v][b] = <<model, voices[v].name>>
  BY <1>1
<1> HIDE DEF tables
<1>4. /\ base \in DOMAIN Claims(tables) <=> \E v \in 1..N : base \in DOMAIN tables[v]
      /\ base \in DOMAIN Claims(tables) =>
           \E v \in 1..N : /\ IsFirst(tables, base, v)
                           /\ Claims(tables)[base] = tables[v][base]
  <2> HIDE DEF N
  <2> QED BY <1>1, <1>2, Claimed
<1> QED BY <1>1, <1>2, <1>3, <1>4 DEF IsFirst

\* The names of all voices, and no others, are known, each as one of a model
\* that has a voice of that name.
NamesAreOfModels(table, handles) ==
  /\ \A key \in DOMAIN table :
       \E n \in DOMAIN handles : \E v \in DOMAIN handles[n].voices :
         handles[n].voices[v].name = key /\ table[key] = n
  /\ \A n \in DOMAIN handles : \A v \in DOMAIN handles[n].voices :
       handles[n].voices[v].name \in DOMAIN table

\* The names that NewVoiceMap knows.
LEMMA Names ==
  ASSUME NEW names \in Seq(Nat), NEW handles, NEW default,
         DOMAIN handles = ToSet(names),
         NEW m, m = NewVoiceMap(names, handles, default)
  PROVE  /\ m.model_names = ToSet(names) /\ m.default_model = default
         /\ NamesAreOfModels(m.map, handles)
<1> DEFINE N == Len(names)
           tables == [i \in DOMAIN names |-> ByName(names[i], handles[names[i]].voices)]
<1>1. DOMAIN names = 1..N /\ N \in Nat
  BY LenProperties
<1>2. m.map = Claims(tables) /\ m.model_names = ToSet(names) /\ m.default_model = default
  BY AllKnown DEF NewVoiceMap
<1>3. DOMAIN tables = 1..N
      /\ \A i \in 1..N : tables[i] = ByName(names[i], handles[names[i]].voices)
  BY <1>1
<1> HIDE DEF tables
<1>4. ASSUME NEW key
      PROVE  /\ key \in DOMAIN m.map <=> \E i \in 1..N : key \in DOMAIN tables[i]
             /\ key \in DOMAIN m.map =>
                  \E i \in 1..N : /\ IsFirst(tables, key, i)
                                  /\ m.map[key] = tables[i][key]
  <2> HIDE DEF N
  <2>1. /\ key \in DOMAIN Claims(tables) <=> \E i \in 1..N : key \in DOMAIN tables[i]
        /\ key \in DOMAIN Claims(tables) =>
             \E i \in 1..N : /\ IsFirst(tables, key, i)
                             /\ Claims(tables)[key] = tables[i][key]
    BY <1>1, <1>3, Claimed
  <2> QED BY <1>2, <2>1
<1>5. ASSUME NEW key \in DOMAIN m.map
      PROVE  \E n \in DOMAIN handles : \E v \in DOMAIN handles[n].voices :
               handles[n].voices[v].name = key /\ m.map[key] = n
  <2>1. PICK i \in 1..N : key \in DOMAIN tables[i] /\ m.map[key] = tables[i][key]
    BY <1>4, <1>5 DEF IsFirst
  <2>2. names[i] \in DOMAIN handles
    BY <1>1 DEF ToSet
  <2>3. tables[i] = ByName(names[i], handles[names[i]].voices)
    BY <1>3
  <2>4. /\ \E v \in DOMAIN handles[names[i]].voices : handles[names[i]].voices[v].name = key
        /\ tables[i][key] = names[i]
    BY <2>1, <2>3 DEF ByName
  <2> QED BY <2>1, <2>2, <2>4
<1>6. ASSUME NEW n \in DOMAIN handles, NEW v \in DOMAIN handles[n].voices
      PROVE  handles[n].voices[v].name \in DOMAIN m.map
  <2>1. PICK i \in 1..N : names[i] = n
    BY <1>1 DEF ToSet
  <2>2. tables[i] = ByName(n, handles[n].voices)
    BY <1>3, <2>1
  <2>3. handles[n].voices[v].name \in DOMAIN tables[i]
    BY <2>2 DEF ByName
  <2> QED BY <1>4, <2>3
<1> QED BY <1>2, <1>5, <1>6 DEF NamesAreOfModels

\* A model has a voice for a language.
Speaking(handles, n, base) ==
  \E v \in DOMAIN handles[n].voices : base \in BaseSubtags(handles[n].voices[v].languages)

\* A language goes to the first model that has a voice for it, and to such a voice.
GoesToFirst(table, names, handles, base) ==
  /\ base \in DOMAIN table <=> \E i \in DOMAIN names : Speaking(handles, names[i], base)
  /\ base \in DOMAIN table =>
       \E i \in DOMAIN names : \E v \in DOMAIN handles[names[i]].voices :
         /\ base \in BaseSubtags(handles[names[i]].voices[v].languages)
         /\ table[base] = <<names[i], handles[names[i]].voices[v].name>>
         /\ \A j \in DOMAIN names : Speaking(handles, names[j], base) => i <= j

\* The languages that NewVoiceMap knows.
LEMMA Spoken ==
  ASSUME NEW names \in Seq(Nat), NEW handles, NEW default, NEW base,
         DOMAIN handles = ToSet(names),
         \A n \in DOMAIN handles : IsVoices(n, handles[n].voices),
         NEW table, table = NewVoiceMap(names, handles, default).by_language
  PROVE  GoesToFirst(table, names, handles, base)
<1> DEFINE N == Len(names)
           tables == [i \in DOMAIN names |-> ByLanguage(names[i], handles[names[i]].voices)]
<1>1. DOMAIN names = 1..N /\ N \in Nat
  BY LenProperties
<1>2. table = Claims(tables)
  BY AllKnown DEF NewVoiceMap
<1>3. DOMAIN tables = 1..N
      /\ \A i \in 1..N : tables[i] = ByLanguage(names[i], handles[names[i]].voices)
  BY <1>1
<1> HIDE DEF tables
<1>4. ASSUME NEW i \in 1..N
      PROVE  /\ base \in DOMAIN tables[i] <=> Speaking(handles, names[i], base)
             /\ base \in DOMAIN tables[i] =>
                  \E v \in DOMAIN handles[names[i]].voices :
                    /\ base \in BaseSubtags(handles[names[i]].voices[v].languages)
                    /\ tables[i][base] = <<names[i], handles[names[i]].voices[v].name>>
  <2> DEFINE n == names[i]
             voices == handles[n].voices
  <2>1. IsVoices(n, voices)
    BY <1>1 DEF ToSet
  <2>2. tables[i] = ByLanguage(n, voices)
    BY <1>3
  <2> HIDE DEF n, voices
  <2>3. /\ base \in DOMAIN ByLanguage(n, voices) <=>
             \E v \in DOMAIN voices : base \in BaseSubtags(voices[v].languages)
        /\ base \in DOMAIN ByLanguage(n, voices) =>
             \E v \in DOMAIN voices :
               /\ base \in BaseSubtags(voices[v].languages)
               /\ ByLanguage(n, voices)[base] = <<n, voices[v].name>>
    BY <2>1, Languages
  <2> QED BY <2>2, <2>3 DEF Speaking, n, voices
<1>5. /\ base \in DOMAIN Claims(tables) <=> \E i \in 1..N : base \in DOMAIN tables[i]
      /\ base \in DOMAIN Claims(tables) =>
           \E i \in 1..N : /\ IsFirst(tables, base, i)
                           /\ Claims(tables)[base] = tables[i][base]
  <2> HIDE DEF N
  <2> QED BY <1>1, <1>3, Claimed
<1>6. base \in DOMAIN table <=> \E i \in 1..N : Speaking(handles, names[i], base)
  BY <1>2, <1>4, <1>5
<1>7. ASSUME base \in DOMAIN table
      PROVE  \E i \in 1..N : \E v \in DOMAIN handles[names[i]].voices :
               /\ base \in BaseSubtags(handles[names[i]].voices[v].languages)
               /\ table[base] = <<names[i], handles[names[i]].voices[v].name>>
               /\ \A j \in 1..N : Speaking(handles, names[j], base) => i <= j
  <2>1. PICK i \in 1..N : /\ base \in DOMAIN tables[i] /\ table[base] = tables[i][base]
                          /\ \A j \in 1..N : base \in DOMAIN tables[j] => i <= j
    BY <1>2, <1>3, <1>5, <1>7 DEF IsFirst
  <2>2. \A j \in 1..N : Speaking(handles, names[j], base) => i <= j
    BY <1>4, <2>1
  <2> QED BY <1>4, <2>1, <2>2
<1> QED BY <1>1, <1>6, <1>7 DEF GoesToFirst

-----------------------------------------------------------------------------
(***************************************************************************)
(* Which model a request goes to                                           *)
(***************************************************************************)
\* While it serves, everything that was chosen is loaded.
LEMMA AllLoaded ==
  ASSUME NEW list, NEW requested, NEW names, NEW handles, NEW default,
         IsChoice(list, requested), IsLoaded(list, names, handles, default),
         Len(names) = Len(list)
  PROVE  /\ names = list /\ names \in Seq(Nat)
         /\ DOMAIN handles = ToSet(list) /\ DOMAIN handles \subseteq Nat
         /\ default = FirstAsked(requested, DOMAIN handles)
         /\ default = IF names = <<>> THEN Nothing ELSE names[1]
<1>1. names \in Seq(Nat) /\ list \in Seq(Nat)
  BY DEF IsChoice, IsLoaded
<1>2. names = list
  BY <1>1, SeqEqual DEF IsLoaded
<1>3. DOMAIN handles = ToSet(list) /\ default = IF list = <<>> THEN Nothing ELSE list[1]
  BY <1>2 DEF IsLoaded
<1>4. DOMAIN list = 1..Len(list) /\ Len(list) \in Nat
  BY <1>1, LenProperties
<1>5. ToSet(list) \subseteq Nat
  BY <1>1, <1>4, ElementOfSeq DEF ToSet
<1>6. default = FirstAsked(requested, DOMAIN handles)
  <2>1. CASE requested # <<>>
    BY <1>3, <2>1 DEF IsChoice, FirstAsked
  <2>2. CASE requested = <<>> /\ list = <<>>
    <3>1. ToSet(list) = {}
      BY <2>2 DEF ToSet
    <3> QED BY <1>3, <2>2, <3>1 DEF FirstAsked
  <2>3. CASE requested = <<>> /\ list # <<>>
    <3>1. PICK S \in SUBSET Nat : IsFiniteSet(S) /\ list = InOrder(S)
      BY <2>3 DEF IsChoice
    <3>2. /\ Len(list) = Cardinality(S) /\ ToSet(list) = S
          /\ \A i, j \in 1..Cardinality(S) : i < j => list[i] < list[j]
      BY <3>1, Ordered
    <3>3. 1 \in 1..Len(list) /\ list[1] \in Nat
      BY <1>1, <2>3, EmptySeq, ElementOfSeq
    <3>4. list[1] \in S /\ S # {}
      BY <1>4, <3>2, <3>3 DEF ToSet
    <3>5. Min(S) \in S /\ \A n \in S : Min(S) <= n
      BY <3>1, <3>4, Least
    <3>6. PICK i \in 1..Len(list) : Min(S) = list[i]
      BY <1>4, <3>2, <3>5 DEF ToSet
    <3>7. ~(1 < i)
      <4>1. list[i] <= list[1] /\ list[i] \in Nat
        BY <1>1, <3>4, <3>5, <3>6, ElementOfSeq
      <4>2. ~(list[1] < list[i])
        BY <3>3, <4>1
      <4> QED BY <3>2, <3>3, <4>2
    <3>8. i = 1
      BY <1>4, <3>7
    <3> QED BY <1>3, <2>3, <3>2, <3>4, <3>6, <3>8 DEF FirstAsked
  <2> QED BY <2>1, <2>2, <2>3
<1> QED BY <1>1, <1>2, <1>3, <1>5, <1>6

\* A tag is not nothing.
LEMMA TagsAreTags ==
  ASSUME \A n \in DOMAIN tts : IsVoices(n, tts[n].voices)
  PROVE  Nothing \notin Tags
<1>1. ASSUME NEW n \in DOMAIN tts, NEW v \in ToSet(tts[n].voices)
      PROVE  Nothing \notin ToSet(v.languages)
  <2>1. PICK i \in DOMAIN tts[n].voices : v = tts[n].voices[i]
    BY DEF ToSet
  <2> QED BY <2>1 DEF IsVoices
<1> QED BY <1>1, SceneAssumption DEF Tags

\* To speak a language is to have its base subtag.
LEMMA SpeaksBase ==
  ASSUME NEW voice, NEW tag
  PROVE  Speaks(voice, tag) <=> BaseLanguageSubtag(tag) \in BaseSubtags(voice.languages)
  BY DEF Speaks, SameLanguage, BaseLanguageSubtag, BaseSubtags

\* While the server serves, a request that names no voice goes where it must.
LEMMA Routes ==
  ASSUME LoadInv
  PROVE  RequestsAreRouted
<1> SUFFICES ASSUME Looping PROVE RequestsAreRouted
  BY DEF RequestsAreRouted
<1>1. /\ IsChoice(models.tts, scene.args.model_tts)
      /\ IsChoice(models.asr, scene.args.model_asr)
      /\ IsLoaded(models.tts, model_names, tts, default_tts)
      /\ IsLoaded(models.asr, asr_model_names, asr, default_asr)
      /\ Len(model_names) = Len(models.tts)
      /\ Len(asr_model_names) = Len(models.asr)
      /\ voice_map = NewVoiceMap(model_names, tts, default_tts)
      /\ asr_map = NewAsrModelMap(asr_model_names, asr, default_asr)
      /\ \A n \in DOMAIN tts : IsVoices(n, tts[n].voices)
  BY DEF LoadInv
<1> DEFINE speaks  == FirstAsked(scene.args.model_tts, DOMAIN tts)
           listens == FirstAsked(scene.args.model_asr, DOMAIN asr)
           default == IF speaks = Nothing THEN NoModel ELSE Found(speaks, Nothing)
           able(tag) == {i \in DOMAIN model_names :
                           \E v \in ToSet(tts[model_names[i]].voices) : Speaks(v, tag)}
<1>2. /\ model_names \in Seq(Nat) /\ DOMAIN tts = ToSet(model_names)
      /\ default_tts = speaks /\ default_asr = listens
  BY <1>1, AllLoaded
<1>3. voice_map.default_model = speaks /\ asr_map.default_model = listens
  BY <1>1, <1>2 DEF NewVoiceMap, NewAsrModelMap
<1>4. DefaultOf(voice_map) = default
  BY <1>3 DEF DefaultOf
<1>5. ResolveVoice(voice_map, Nothing, Nothing) = default
  BY <1>4 DEF ResolveVoice
<1>6. ResolveAsrModel(asr_map, Nothing, Nothing) =
        (IF listens = Nothing THEN NoModel ELSE Found(listens, Nothing))
  BY <1>3 DEF ResolveAsrModel, DefaultOf
<1>7. ASSUME NEW tag \in Tags
      PROVE  LET answer == ResolveVoice(voice_map, Nothing, tag)
             IN  IF able(tag) = {} THEN answer = default
                 ELSE /\ answer.model = model_names[Min(able(tag))]
                      /\ \E v \in ToSet(tts[answer.model].voices) :
                           v.name = answer.voice /\ Speaks(v, tag)
  <2> DEFINE base == BaseLanguageSubtag(tag)
             table == voice_map.by_language
             answer == ResolveVoice(voice_map, Nothing, tag)
  <2>1. tag # Nothing
    BY <1>1, TagsAreTags
  <2>2. answer = IF Lookup(table, base) # Nothing
                 THEN Found(Lookup(table, base)[1], Lookup(table, base)[2])
                 ELSE default
    BY <1>4, <2>1 DEF ResolveVoice, ModelForLanguage
  <2>3. \A i \in DOMAIN model_names :
          i \in able(tag) <=> Speaking(tts, model_names[i], base)
    BY SpeaksBase DEF Speaking, ToSet
  <2>4. GoesToFirst(table, model_names, tts, base)
    <3>1. table = NewVoiceMap(model_names, tts, default_tts).by_language
      BY <1>1
    <3>2. \A n \in DOMAIN tts : IsVoices(n, tts[n].voices)
      BY <1>1
    <3> HIDE DEF base, table
    <3> QED BY <1>2, <3>1, <3>2, Spoken
  <2>5. base \in DOMAIN table <=>
           \E i \in DOMAIN model_names : Speaking(tts, model_names[i], base)
    <3> HIDE DEF base, table
    <3> QED BY <2>4 DEF GoesToFirst
  <2>6. base \in DOMAIN table <=> able(tag) # {}
    <3>1. able(tag) \subseteq DOMAIN model_names
      OBVIOUS
    <3> HIDE DEF able, base, table
    <3> QED BY <2>3, <2>5, <3>1
  <2>7. CASE able(tag) = {}
    <3>1. base \notin DOMAIN table
      BY <2>6, <2>7
    <3>2. Lookup(table, base) = Nothing
      <4> HIDE DEF base, table
      <4> QED BY <3>1 DEF Lookup
    <3> QED BY <2>2, <2>7, <3>2
  <2>8. CASE able(tag) # {}
    <3>1. base \in DOMAIN table
      BY <2>6, <2>8
    <3>2. PICK i \in DOMAIN model_names :
            \E v \in DOMAIN tts[model_names[i]].voices :
               /\ base \in BaseSubtags(tts[model_names[i]].voices[v].languages)
               /\ table[base] = <<model_names[i], tts[model_names[i]].voices[v].name>>
               /\ \A j \in DOMAIN model_names :
                    Speaking(tts, model_names[j], base) => i <= j
      BY <2>4, <3>1 DEF GoesToFirst
    <3>3. PICK v \in DOMAIN tts[model_names[i]].voices :
               /\ base \in BaseSubtags(tts[model_names[i]].voices[v].languages)
               /\ table[base] = <<model_names[i], tts[model_names[i]].voices[v].name>>
               /\ \A j \in DOMAIN model_names :
                    Speaking(tts, model_names[j], base) => i <= j
      BY <3>2
    <3> DEFINE n == model_names[i]
               voice == tts[n].voices[v]
    <3>4. n \in DOMAIN tts /\ IsVoices(n, tts[n].voices)
      BY <1>1, <1>2 DEF ToSet
    <3>5. <<n, voice.name>> # Nothing
      BY <3>3, <3>4 DEF IsVoices
    <3>6. Lookup(table, base) = <<n, voice.name>>
      <4> HIDE DEF base, table
      <4> QED BY <3>1, <3>3 DEF Lookup
    <3>7. answer = Found(n, voice.name)
      BY <2>2, <3>5, <3>6
    <3>8. answer.model = n /\ answer.voice = voice.name
      BY <3>7 DEF Found
    <3>9. voice \in ToSet(tts[n].voices) /\ Speaks(voice, tag)
      BY <3>3, SpeaksBase DEF ToSet
    <3>10. i = Min(able(tag))
      <4>1. Speaking(tts, n, base)
        BY <3>3 DEF Speaking
      <4>2. i \in able(tag) /\ \A j \in able(tag) : i <= j
        BY <2>3, <3>3, <4>1
      <4>3. DOMAIN model_names = 1..Len(model_names) /\ Len(model_names) \in Nat
        BY <1>2, LenProperties
      <4>4. able(tag) \in SUBSET Nat /\ IsFiniteSet(able(tag))
        <5>1. \A j \in able(tag) : j \in 0..Len(model_names)
          BY <4>3
        <5> HIDE DEF able
        <5> QED BY <4>3, <5>1, Parts
      <4> HIDE DEF able
      <4>5. Min(able(tag)) \in able(tag) /\ \A j \in able(tag) : Min(able(tag)) <= j
        BY <2>8, <4>4, Least
      <4>6. /\ i <= Min(able(tag)) /\ Min(able(tag)) <= i
            /\ i \in Nat /\ Min(able(tag)) \in Nat
        BY <4>2, <4>4, <4>5
      <4> DEFINE least == Min(able(tag))
      <4> HIDE DEF least
      <4>7. i <= least /\ least <= i /\ i \in Nat /\ least \in Nat
        BY <4>6 DEF least
      <4>8. i = least
        BY <4>7
      <4> QED BY <4>8, Zenon DEF least
    <3> QED BY <2>8, <3>8, <3>9, <3>10, Zenon
  <2> QED BY <2>7, <2>8
<1> HIDE DEF able, default, speaks, listens
<1> QED BY <1>5, <1>6, <1>7 DEF RequestsAreRouted, able, default, speaks, listens

-----------------------------------------------------------------------------
(***************************************************************************)
(* What a client is told of the models                                     *)
(***************************************************************************)
\* A sequence has finitely many elements.
LEMMA FiniteRange ==
  ASSUME NEW X, NEW s \in Seq(X)
  PROVE  IsFiniteSet(ToSet(s))
<1>1. DOMAIN s = 1..Len(s) /\ Len(s) \in Nat
  BY LenProperties
<1>2. IsFiniteSet(DOMAIN s)
  BY <1>1, FS_Interval
<1>3. ToSet(s) = {s[i] : i \in DOMAIN s}
  BY DEF ToSet
<1> DEFINE f == [i \in DOMAIN s |-> s[i]]
<1>4. f \in Surjection(DOMAIN s, ToSet(s))
  BY <1>3 DEF Surjection
<1> QED BY <1>2, <1>4, FS_Surjection

\* What of a model's voices is listed: those whose name goes to it, each once.
IsListed(some, n, all) ==
  /\ \A k \in DOMAIN some :
       \E v \in DOMAIN all : /\ some[k] = all[v]
                             /\ ModelForVoice(voice_map, some[k].name) = n
  /\ \A v \in DOMAIN all :
       ModelForVoice(voice_map, all[v].name) = n => \E k \in DOMAIN some : some[k] = all[v]
  /\ \A k, l \in DOMAIN some : some[k].name = some[l].name => k = l

\* That is what Advertised lists.
LEMMA ListedVoices ==
  ASSUME NEW n, NEW all, IsVoices(n, all), NEW some, some = Advertised(n, all, voice_map)
  PROVE  IsListed(some, n, all)
<1> DEFINE places == {v \in DOMAIN all : ModelForVoice(voice_map, all[v].name) = n}
           o == InOrder(places)
<1>1. DOMAIN all = 1..Len(all) /\ Len(all) \in Nat
  BY LenProperties DEF IsVoices
<1>2. places \in SUBSET Nat /\ IsFiniteSet(places)
  <2>1. \A v \in places : v \in 0..Len(all)
    BY <1>1
  <2> HIDE DEF places
  <2> QED BY <1>1, <2>1, Parts
<1>3. /\ \A k \in DOMAIN o : o[k] \in places
      /\ \A v \in places : \E k \in DOMAIN o : o[k] = v
      /\ \A k, l \in DOMAIN o : o[k] = o[l] => k = l
  <2> HIDE DEF places
  <2> QED BY <1>2, Numbered
<1>4. /\ DOMAIN some = DOMAIN o
      /\ \A k \in DOMAIN o : some[k] = all[o[k]]
  BY DEF Advertised, Picked, InOrder
<1> HIDE DEF o
<1>5. \A k \in DOMAIN o :
        o[k] \in DOMAIN all /\ ModelForVoice(voice_map, all[o[k]].name) = n
  BY <1>3
<1>6. \A v, w \in DOMAIN all : all[v].name = all[w].name => v = w
  BY DEF IsVoices
<1> QED BY <1>3, <1>4, <1>5, <1>6 DEF IsListed

\* While the server serves, what a describe lists is what it has.
LEMMA Listing ==
  ASSUME LoadInv
  PROVE  AdvertisedIsServed
<1> SUFFICES ASSUME Looping PROVE AdvertisedIsServed
  BY DEF AdvertisedIsServed
<1>1. /\ IsChoice(models.tts, scene.args.model_tts)
      /\ IsChoice(models.asr, scene.args.model_asr)
      /\ IsLoaded(models.tts, model_names, tts, default_tts)
      /\ IsLoaded(models.asr, asr_model_names, asr, default_asr)
      /\ Len(model_names) = Len(models.tts)
      /\ Len(asr_model_names) = Len(models.asr)
      /\ voice_map = NewVoiceMap(model_names, tts, default_tts)
      /\ asr_map = NewAsrModelMap(asr_model_names, asr, default_asr)
      /\ \A n \in DOMAIN tts : IsVoices(n, tts[n].voices)
  BY DEF LoadInv
<1>2. /\ model_names \in Seq(Nat) /\ DOMAIN tts = ToSet(model_names)
      /\ asr_model_names \in Seq(Nat) /\ DOMAIN asr = ToSet(asr_model_names)
      /\ DOMAIN tts = ToSet(models.tts) /\ DOMAIN asr = ToSet(models.asr)
      /\ DOMAIN tts \subseteq Nat
  BY <1>1, AllLoaded
<1>3. IsFiniteSet(DOMAIN tts)
  BY <1>2, FiniteRange
<1>4. /\ voice_map.model_names = DOMAIN tts /\ asr_map.model_names = DOMAIN asr
      /\ NamesAreOfModels(voice_map.map, tts)
  <2>1. asr_map.model_names = DOMAIN asr
    BY <1>1, <1>2, AllKnown DEF NewAsrModelMap
  <2>2. voice_map = NewVoiceMap(model_names, tts, default_tts)
    BY <1>1
  <2>3. model_names \in Seq(Nat) /\ DOMAIN tts = ToSet(model_names)
    BY <1>2
  <2>4. voice_map.model_names = ToSet(model_names) /\ NamesAreOfModels(voice_map.map, tts)
    BY <2>2, <2>3, Names
  <2> QED BY <2>1, <2>3, <2>4
<1> DEFINE speakers  == Alphabetically(DOMAIN tts)
           listeners == Alphabetically(DOMAIN asr)
           voices(i) == Advertised(speakers[i], tts[speakers[i]].voices, voice_map)
           listed == UNION {{i} \X DOMAIN Info.tts[i].voices : i \in DOMAIN Info.tts}
           name(l) == Info.tts[l[1]].voices[l[2]].name
<1>5. /\ DOMAIN tts \cap voice_map.model_names = DOMAIN tts
      /\ DOMAIN asr \cap asr_map.model_names = DOMAIN asr
  BY <1>4
<1>6. /\ Info.tts = [i \in DOMAIN speakers |->
                      [name |-> speakers[i], voices |-> voices(i),
                       supports_synthesize_streaming |-> scene.args.gpu]]
      /\ Info.asr = [i \in DOMAIN listeners |->
                      [name |-> listeners[i], languages |-> asr[listeners[i]].languages,
                       supports_transcript_streaming |-> scene.args.gpu,
                       requires_external_vad |-> ~HasVad]]
  BY <1>5 DEF Info, BuildInfo
<1>7. /\ DOMAIN Info.tts = DOMAIN speakers /\ DOMAIN Info.asr = DOMAIN listeners
      /\ \A i \in DOMAIN speakers : /\ Info.tts[i].name = speakers[i]
                                    /\ Info.tts[i].voices = voices(i)
      /\ \A i \in DOMAIN listeners : Info.asr[i].name = listeners[i]
  BY <1>6
<1>8. /\ [i \in DOMAIN Info.tts |-> Info.tts[i].name] = Alphabetically(ToSet(models.tts))
      /\ [i \in DOMAIN Info.asr |-> Info.asr[i].name] = Alphabetically(ToSet(models.asr))
  <2>1. /\ speakers = [i \in DOMAIN speakers |-> speakers[i]]
        /\ listeners = [i \in DOMAIN listeners |-> listeners[i]]
    BY DEF Alphabetically, InOrder
  <2> HIDE DEF speakers, listeners
  <2>2. /\ [i \in DOMAIN Info.tts |-> Info.tts[i].name] = speakers
        /\ [i \in DOMAIN Info.asr |-> Info.asr[i].name] = listeners
    BY <1>7, <2>1
  <2> QED BY <1>2, <2>2 DEF speakers, listeners
<1>9. ASSUME NEW i \in DOMAIN speakers
      PROVE  speakers[i] \in DOMAIN tts
             /\ IsListed(voices(i), speakers[i], tts[speakers[i]].voices)
  <2>1. speakers[i] \in DOMAIN tts
    BY <1>2, <1>3, Numbered DEF Alphabetically
  <2> HIDE DEF speakers
  <2> QED BY <1>1, <2>1, ListedVoices
<1>10. ASSUME NEW i \in DOMAIN speakers, NEW j \in DOMAIN speakers,
              speakers[i] = speakers[j]
       PROVE  i = j
  BY <1>2, <1>3, <1>10, Numbered DEF Alphabetically
<1>11. ASSUME NEW n \in DOMAIN tts
       PROVE  \E i \in DOMAIN speakers : speakers[i] = n
  BY <1>2, <1>3, Numbered DEF Alphabetically
<1>12. ASSUME NEW l \in listed
       PROVE  /\ l[1] \in DOMAIN speakers /\ l[2] \in DOMAIN voices(l[1])
              /\ l = <<l[1], l[2]>>
              /\ name(l) = voices(l[1])[l[2]].name
              /\ ModelForVoice(voice_map, name(l)) = speakers[l[1]]
              /\ \E v \in DOMAIN tts[speakers[l[1]]].voices :
                   name(l) = tts[speakers[l[1]]].voices[v].name
  <2> HIDE DEF voices, speakers, Info
  <2>1. PICK i \in DOMAIN Info.tts : l \in {i} \X DOMAIN Info.tts[i].voices
    OBVIOUS
  <2>2. l[1] = i /\ l[2] \in DOMAIN Info.tts[i].voices /\ l = <<l[1], l[2]>>
    BY <2>1
  <2>3. i \in DOMAIN speakers /\ Info.tts[i].voices = voices(i)
    BY <1>7
  <2>4. name(l) = voices(l[1])[l[2]].name
    BY <2>2, <2>3
  <2> QED BY <1>9, <2>2, <2>3, <2>4 DEF IsListed
<1>13. ASSUME NEW i \in DOMAIN speakers, NEW k \in DOMAIN voices(i)
       PROVE  <<i, k>> \in listed
  <2> HIDE DEF voices, speakers, Info
  <2> QED BY <1>7
<1> HIDE DEF voices, speakers, listeners, Info
\* No voice is listed twice, ...
<1>14. ASSUME NEW l \in listed, NEW m \in listed, name(l) = name(m)
       PROVE  l = m
  <2> HIDE DEF listed, name
  <2>1. l[1] = m[1]
    BY <1>10, <1>12, <1>14
  <2>2. l[2] = m[2]
    BY <1>9, <1>12, <1>14, <2>1 DEF IsListed
  <2> QED BY <1>12, <2>1, <2>2
\* ... and each is.
<1>15. {name(l) : l \in listed} =
         UNION {{v.name : v \in ToSet(tts[n].voices)} : n \in DOMAIN tts}
  <2>1. ASSUME NEW l \in listed
        PROVE  \E n \in DOMAIN tts : \E v \in ToSet(tts[n].voices) : name(l) = v.name
    <3> HIDE DEF listed, name
    <3> QED BY <1>9, <1>12 DEF ToSet
  <2>2. ASSUME NEW n \in DOMAIN tts, NEW v \in ToSet(tts[n].voices)
        PROVE  \E l \in listed : name(l) = v.name
    <3>1. PICK w \in DOMAIN tts[n].voices : v = tts[n].voices[w]
      BY DEF ToSet
    <3>2. v.name \in DOMAIN voice_map.map
      BY <1>4, <3>1 DEF NamesAreOfModels
    <3>3. PICK m \in DOMAIN tts : \E u \in DOMAIN tts[m].voices :
                 tts[m].voices[u].name = v.name /\ voice_map.map[v.name] = m
      BY <1>4, <3>2 DEF NamesAreOfModels
    <3>4. PICK u \in DOMAIN tts[m].voices :
                 tts[m].voices[u].name = v.name /\ voice_map.map[v.name] = m
      BY <3>3
    <3>5. PICK i \in DOMAIN speakers : speakers[i] = m
      BY <1>11
    <3>6. ModelForVoice(voice_map, tts[m].voices[u].name) = m
      BY <3>2, <3>4 DEF ModelForVoice, Lookup
    <3>7. PICK k \in DOMAIN voices(i) : voices(i)[k] = tts[m].voices[u]
      BY <1>9, <3>5, <3>6 DEF IsListed
    <3>8. <<i, k>> \in listed
      BY <1>13
    <3>9. name(<<i, k>>) = voices(i)[k].name
      <4> HIDE DEF listed, name
      <4> QED BY <1>12, <3>8
    <3> HIDE DEF listed, name
    <3> QED BY <3>4, <3>7, <3>8, <3>9
  <2> HIDE DEF listed, name
  <2> QED BY <2>1, <2>2
\* A synthesize that names it goes where it is listed.
<1>16. ASSUME NEW l \in listed, NEW tag
       PROVE  ResolveVoice(voice_map, name(l), tag) = Found(Info.tts[l[1]].name, name(l))
  <2> HIDE DEF listed, name
  <2>1. /\ l[1] \in DOMAIN speakers
        /\ ModelForVoice(voice_map, name(l)) = speakers[l[1]]
        /\ \E v \in DOMAIN tts[speakers[l[1]]].voices :
             name(l) = tts[speakers[l[1]]].voices[v].name
    BY <1>12
  <2>2. speakers[l[1]] \in DOMAIN tts /\ Info.tts[l[1]].name = speakers[l[1]]
    BY <1>7, <1>9, <2>1
  <2>3. name(l) # Nothing
    BY <1>1, <2>1, <2>2 DEF IsVoices
  <2>4. speakers[l[1]] # Nothing
    BY <1>2, <2>2, SceneAssumption
  <2> QED BY <2>1, <2>2, <2>3, <2>4 DEF ResolveVoice
<1> HIDE DEF listed, name
<1>17. /\ \A l, m \in listed : name(l) = name(m) => l = m
       /\ \A l \in listed, tag \in Tags \cup {Nothing} :
            ResolveVoice(voice_map, name(l), tag)
              = Found(Info.tts[l[1]].name, name(l))
  BY <1>14, <1>16
<1> QED BY <1>8, <1>15, <1>17 DEF AdvertisedIsServed, listed, name

-----------------------------------------------------------------------------
\* A server starts with nothing loaded.
LEMMA Load_Init ==
  ASSUME ServerInit
  PROVE  LoadInv
  BY DEF ServerInit, NothingLoaded, LoadInv, Looping

\* A request that names no voice goes to the first model that speaks its
\* language, or to the default, which is the first that was asked for or found
\* (lib.rs, VoiceMap::new, resolve_voice): for every scene, that is for all
\* models, voices and languages, also when their files change while they load.
THEOREM EveryRequestIsRouted == ServerSpec => []RequestsAreRouted
<1>1. ServerInit => LoadInv
  BY Load_Init
<1>2. LoadInv /\ [ServerNext]_vars => LoadInv'
  BY Load_Next
<1>3. LoadInv => RequestsAreRouted
  BY Routes
<1> QED BY <1>1, <1>2, <1>3, PTL DEF ServerSpec

\* Every voice is listed once, under the model that a synthesize which names it
\* goes to (build_info, VoiceMap::new, resolve_voice): for every scene.
THEOREM WhatIsListedIsServed == ServerSpec => []AdvertisedIsServed
<1>1. ServerInit => LoadInv
  BY Load_Init
<1>2. LoadInv /\ [ServerNext]_vars => LoadInv'
  BY Load_Next
<1>3. LoadInv => AdvertisedIsServed
  BY Listing
<1> QED BY <1>1, <1>2, <1>3, PTL DEF ServerSpec
=============================================================================

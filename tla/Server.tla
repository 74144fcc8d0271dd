------------------------------- MODULE Server -------------------------------
(***************************************************************************)
(* The server program from its start to its exit (run, serve and Listener  *)
(* of src/crates/server/src/lib.rs, load_tts, load_asr and register_* of   *)
(* engine/runtime.rs): which models it finds and loads, the socket it      *)
(* listens on meanwhile, the accept loop with its bound on connections,    *)
(* Ctrl-C, and how the process ends.  What a connection does with its      *)
(* requests is in Connection; here it asks the shared voice activity       *)
(* filter, ends, or is stuck in a write that has no timeout.               *)
(***************************************************************************)
EXTENDS VoiceMap, VadFilter, Listener

\* A situation to start the program in:
\*   args     list_models, model_tts, model_asr, no_vad_filter, gpu,
\*            max_connections
\*   target   where it is to listen
\*   disk     what --model-path holds: path, tts, asr, vad
\*   later    what it may hold when the models have been discovered
\*   clients, stuck   who connects, and who of them never reads or leaves
\*   starts, signals  how often it is started, and how often Ctrl-C is pressed
CONSTANT Scenes

ASSUME ServerAssumption ==
  /\ IsFiniteSet(Clients)
  /\ \A s \in Scenes : s.args.max_connections \in Nat

\* Names are not nothing, a directory has finitely many, and no model has two
\* voices of one name.
IsVoices(n, voices) ==
  /\ voices \in Seq(ToSet(voices))
  /\ \A v, w \in DOMAIN voices : voices[v].name = voices[w].name => v = w
  /\ \A v \in DOMAIN voices :
       /\ voices[v].name # Nothing /\ <<n, voices[v].name>> # Nothing
       /\ Nothing \notin ToSet(voices[v].languages)

IsListing(dir) ==
  dir \notin {Missing, Unreadable} => IsFiniteSet(DOMAIN dir) /\ DOMAIN dir \subseteq Nat

ASSUME SceneAssumption ==
  /\ Nothing \notin Nat \cup {<<"DE", "AT">>, <<"xx">>}
  /\ \A s \in Scenes :
       /\ s.args.model_tts \in Seq(Nat) /\ s.args.model_asr \in Seq(Nat)
       /\ \A d \in {s.disk, s.later} :
            /\ IsListing(d.tts) /\ IsListing(d.asr)
            /\ d.tts \notin {Missing, Unreadable} =>
                 \A n \in DOMAIN d.tts : IsVoices(n, d.tts[n].voices)

VARIABLES
  scene,
  disk,
  at,           \* where the program is in run, serve and main
  models,       \* what is to be loaded: tts, asr, vad
  model_names, asr_model_names,
  tts, asr,     \* the runtime's models
  default_tts, default_asr,
  voice_map, asr_map,
  backlog,      \* connections the kernel has made and nobody has accepted
  accepted,     \* the one that waits for a permit
  permits,
  client,
  armed,        \* tokio has replaced the default action of SIGINT
  signalled,    \* the ctrl_c that is being awaited has seen one
  interrupted,  \* Ctrl-C was pressed while the accept loop ran
  starts, signals

loadVars == <<models, model_names, asr_model_names, tts, asr, default_tts,
              default_asr, voice_map, asr_map>>
loopVars == <<backlog, accepted, permits, client>>
signalVars == <<armed, signalled, interrupted, signals>>
vars == <<scene, disk, at, starts, loadVars, loopVars, signalVars,
          listenerVars, vadVars>>

NothingLoaded ==
  /\ models = Nothing
  /\ model_names = <<>> /\ asr_model_names = <<>>
  /\ tts = <<>> /\ asr = <<>>
  /\ default_tts = Nothing /\ default_asr = Nothing
  /\ voice_map = Nothing /\ asr_map = Nothing

ServerInit ==
  /\ scene \in Scenes
  /\ disk = scene.disk
  /\ at = "exited"
  /\ NothingLoaded
  /\ backlog = <<>> /\ accepted = None /\ permits = 0
  /\ client = [c \in Clients |-> "away"]
  /\ armed = FALSE /\ signalled = FALSE /\ interrupted = FALSE
  /\ starts = 0 /\ signals = 0
  /\ ListenerInit({scene.target})
  /\ VadInit

Serving == {c \in Clients : client[c] = "serving"}

Looping == at \in {"select", "accept", "acquire"}

\* The connections of `cut' are closed by this side.
Gone(cut) == client' = [c \in Clients |-> IF c \in cut THEN "gone"
                                          ELSE client[c]]

\* Who still waits for a socket that has been closed is cut off; the queue of
\* systemd's socket stays.
CloseBacklog ==
  IF socket' = 0 /\ listen' = "none" /\ target # "systemd"
  THEN Gone(ToSet(backlog)) /\ backlog' = <<>>
  ELSE UNCHANGED <<client, backlog>>

-----------------------------------------------------------------------------
(***************************************************************************)
(* run: what to load, and where to listen                                  *)
(***************************************************************************)
Start ==
  /\ at = "exited" /\ starts < scene.starts
  /\ starts' = starts + 1
  /\ at' = "discover"
  /\ UNCHANGED <<scene, disk, loadVars, loopVars, signalVars, listenerVars,
                 vadVars>>

\* --list-models
PrintDiscoveredModels ==
  /\ at = "discover" /\ scene.args.list_models
  /\ at' = "exited"
  /\ UNCHANGED <<scene, disk, starts, loadVars, loopVars, signalVars,
                 listenerVars, vadVars>>

Discovered ==
  [tts |-> DiscoverModels(disk.tts), asr |-> DiscoverAsrModels(disk.asr),
   vad |-> DiscoverVadModel(disk.vad)]

ModelsToLoad(found) ==
  [tts |-> ResolveRequestedModels(found.tts, scene.args.model_tts),
   asr |-> ResolveRequestedModels(found.asr, scene.args.model_asr),
   vad |-> found.vad]

Fails(found) == \E kind \in DOMAIN found : found[kind] = Failure

FindModels ==
  /\ at = "discover" /\ ~scene.args.list_models
  /\ disk.path = "dir"
  /\ ~Fails(Discovered)
  /\ Discovered.tts # <<>> \/ Discovered.asr # <<>>
  /\ ~Fails(ModelsToLoad(Discovered))
  /\ models' = ModelsToLoad(Discovered)
  /\ at' = "bind"
  /\ StartListening
  /\ UNCHANGED <<scene, disk, starts, model_names, asr_model_names, tts, asr,
                 default_tts, default_asr, voice_map, asr_map, loopVars,
                 signalVars, vadVars>>

\* Somebody else's doing.
ModelsChange ==
  /\ at \in {"bind", "load"}
  /\ disk' = scene.later
  /\ UNCHANGED <<scene, at, starts, loadVars, loopVars, signalVars,
                 listenerVars, vadVars>>

BindListener ==
  /\ at = "bind"
  /\ Binding
  /\ at' = IF listen' = "bound" THEN "load" ELSE "bind"
  /\ UNCHANGED <<scene, disk, starts, loadVars, loopVars, signalVars, vadVars>>

-----------------------------------------------------------------------------
(***************************************************************************)
(* run: loading, with clients knocking already                             *)
(***************************************************************************)
Loadable(dir, name) == dir \notin {Missing, Unreadable} /\ name \in DOMAIN dir

\* The runtime's models with one more.
Registered(models_of, name, model) ==
  [n \in DOMAIN models_of \cup {name} |->
     IF n = name THEN model ELSE models_of[n]]

\* load_tts and register_tts
LoadTts ==
  /\ at = "load"
  /\ Len(model_names) < Len(models.tts)
  /\ LET name == models.tts[Len(model_names) + 1]
     IN  /\ Loadable(disk.tts, name)
         /\ Creates(ResolveTts(disk.tts[name]), disk.tts[name])
         /\ tts' = Registered(tts, name,
                      [type   |-> ResolveTts(disk.tts[name]),
                       voices |-> disk.tts[name].voices])
         /\ default_tts' = FirstOf(<<default_tts, name>>)
         /\ model_names' = Append(model_names, name)
  /\ UNCHANGED <<scene, disk, at, starts, models, asr_model_names, asr,
                 default_asr, voice_map, asr_map, loopVars, signalVars,
                 listenerVars, vadVars>>

\* load_asr and register_asr, when all of those are there
LoadAsr ==
  /\ at = "load"
  /\ Len(model_names) = Len(models.tts)
  /\ Len(asr_model_names) < Len(models.asr)
  /\ LET name == models.asr[Len(asr_model_names) + 1]
     IN  /\ Loadable(disk.asr, name)
         /\ Creates(ResolveAsr(disk.asr[name]), disk.asr[name])
         /\ asr' = Registered(asr, name,
                      [type      |-> ResolveAsr(disk.asr[name]),
                       languages |-> disk.asr[name].languages])
         /\ default_asr' = FirstOf(<<default_asr, name>>)
         /\ asr_model_names' = Append(asr_model_names, name)
  /\ UNCHANGED <<scene, disk, at, starts, models, model_names, tts,
                 default_tts, voice_map, asr_map, loopVars, signalVars,
                 listenerVars, vadVars>>

\* load_vad_model
LoadVad ==
  IF models.vad = Nothing \/ scene.args.no_vad_filter THEN vad' = None
  ELSE /\ disk.vad \notin {Missing, Unreadable}
       /\ models.vad \in DOMAIN disk.vad
       /\ disk.vad[models.vad].onnx /\ disk.vad[models.vad].sound
       /\ vad' = LoadedVad

Ready ==
  /\ at = "load"
  /\ Len(model_names) = Len(models.tts)
  /\ Len(asr_model_names) = Len(models.asr)
  /\ LoadVad
  /\ voice_map' = NewVoiceMap(model_names, tts, default_tts)
  /\ asr_map' = NewAsrModelMap(asr_model_names, asr, default_asr)
  /\ permits' = scene.args.max_connections
  /\ at' = "select"
  /\ UNCHANGED <<scene, disk, starts, models, model_names, asr_model_names,
                 tts, asr, default_tts, default_asr, backlog, accepted, client,
                 signalVars, listenerVars, owner, job>>

\* An error return of run: of what the steps above ask for something is not
\* so, or a device, a cache directory or a thread cannot be had.
RunFails ==
  \/ /\ at \in {"discover", "load"}
     /\ at' = "returned"
     /\ UNCHANGED listenerVars
  \/ /\ at = "bind"
     /\ ListenerFails
     /\ at' = "returned"

StartupFails ==
  /\ RunFails
  /\ CloseBacklog
  /\ UNCHANGED <<scene, disk, starts, loadVars, accepted, permits, signalVars,
                 vadVars>>

StartingUp ==
  \/ PrintDiscoveredModels \/ FindModels \/ BindListener \/ LoadTts \/ LoadAsr
  \/ Ready \/ StartupFails

-----------------------------------------------------------------------------
(***************************************************************************)
(* serve                                                                   *)
(***************************************************************************)
Reachable ==
  CASE target = "tcp"     -> IsOpen
    [] target = "systemd" -> TRUE
    [] OTHER              -> file # 0 /\ file = socket

Connect(c) ==
  /\ c \in scene.clients /\ client[c] = "away"
  /\ Reachable
  /\ client' = [client EXCEPT ![c] = "queued"]
  /\ backlog' = Append(backlog, c)
  /\ UNCHANGED <<scene, disk, at, starts, loadVars, accepted, permits,
                 signalVars, listenerVars, vadVars>>

\* The select polls both of its futures; ctrl_c, when it is polled first,
\* replaces the default action of the signal.
PollSelect ==
  /\ at = "select"
  /\ at' = "accept" /\ armed' = TRUE
  /\ UNCHANGED <<scene, disk, starts, loadVars, loopVars, signalled,
                 interrupted, signals, listenerVars, vadVars>>

\* accept is ready, and wins: before or after the other has been polled.
Accept ==
  /\ at \in {"select", "accept"}
  /\ backlog # <<>>
  /\ accepted' = Head(backlog) /\ backlog' = Tail(backlog)
  /\ client' = [client EXCEPT ![Head(backlog)] = "accepted"]
  /\ at' = "acquire" /\ signalled' = FALSE
  /\ UNCHANGED <<scene, disk, starts, loadVars, permits, armed, interrupted,
                 signals, listenerVars, vadVars>>

AcceptFails ==
  /\ at = "accept"
  /\ at' = "select" /\ signalled' = FALSE
  /\ UNCHANGED <<scene, disk, starts, loadVars, loopVars, armed, interrupted,
                 signals, listenerVars, vadVars>>

\* acquire_owned, then the connection gets a task of its own.
Acquire ==
  /\ at = "acquire"
  /\ permits > 0
  /\ permits' = permits - 1
  /\ client' = [client EXCEPT ![accepted] = "serving"]
  /\ accepted' = None
  /\ at' = "select"
  /\ UNCHANGED <<scene, disk, starts, loadVars, backlog, signalVars,
                 listenerVars, vadVars>>

StopAccepting ==
  /\ at = "accept" /\ signalled
  /\ at' = "returned" /\ signalled' = FALSE
  /\ UNCHANGED <<scene, disk, starts, loadVars, loopVars, armed, interrupted,
                 signals, listenerVars, vadVars>>

Alive == at \in {"select", "accept", "acquire", "returned"}

Transcribe(c, sensitivity) ==
  /\ Alive /\ client[c] = "serving"
  /\ FilterAudio(c, sensitivity)
  /\ UNCHANGED <<scene, disk, at, starts, loadVars, loopVars, signalVars,
                 listenerVars>>

Filtering(c) ==
  /\ VadNext(c)
  /\ UNCHANGED <<scene, disk, at, starts, loadVars, loopVars, signalVars,
                 listenerVars>>

\* Mutant of Released: the permit goes with a connection that ends well.
ReleasedIfWell(well) == IF well THEN permits + 1 ELSE permits

\* drop(permit), whether serve_connection has returned Ok or an error.
Released(well) == permits + 1

ConnectionEnds(c) ==
  /\ Alive /\ client[c] = "serving" /\ ~InFilter(c)
  /\ \E well \in BOOLEAN : permits' = Released(well)
  /\ Gone({c})
  /\ UNCHANGED <<scene, disk, at, starts, loadVars, backlog, accepted,
                 signalVars, listenerVars, vadVars>>

-----------------------------------------------------------------------------
(***************************************************************************)
(* The end: serve or run has returned                                      *)
(***************************************************************************)
Unlisten ==
  /\ at = "returned"
  /\ DropListener \/ Unlink
  /\ CloseBacklog
  /\ UNCHANGED <<scene, disk, at, starts, loadVars, accepted, permits,
                 signalVars, vadVars>>

\* Mutant of MayShutDown: the accept loop waits for the connections.
MayShutDownWhenIdle == listen = "none" /\ Serving = {}

MayShutDown == listen = "none"

\* The runtime of #[tokio::main] is dropped: tasks end at their next await,
\* jobs that no thread has begun are dropped with them.  Of those that do not
\* have the mutex any may have begun, and wait for it.
ShutDown ==
  /\ at = "returned"
  /\ MayShutDown
  /\ at' = "cut"
  /\ Gone(Serving)
  /\ \E begun \in SUBSET {c \in Clients : InFilter(c)} :
       /\ owner # None => owner \in begun
       /\ job' = [c \in Clients |-> IF c \in begun THEN job[c] ELSE NoJob]
  /\ UNCHANGED <<scene, disk, starts, loadVars, backlog, accepted, permits,
                 signalVars, listenerVars, vad, owner>>

Forget ==
  /\ at' = "exited"
  /\ models' = Nothing
  /\ model_names' = <<>> /\ asr_model_names' = <<>>
  /\ tts' = <<>> /\ asr' = <<>>
  /\ default_tts' = Nothing /\ default_asr' = Nothing
  /\ voice_map' = Nothing /\ asr_map' = Nothing
  /\ accepted' = None /\ permits' = 0
  /\ armed' = FALSE /\ signalled' = FALSE /\ interrupted' = FALSE
  /\ vad' = None /\ owner' = None /\ job' = [c \in Clients |-> NoJob]

\* It waits for the jobs that have begun.
Exit ==
  /\ at = "cut"
  /\ \A c \in Clients : ~InFilter(c)
  /\ Forget
  /\ UNCHANGED <<scene, disk, starts, backlog, client, signals, listenerVars>>

\* The process is killed, wherever it is.
Killed ==
  /\ at \notin {"exited", "cut"}
  /\ Forget
  /\ KillListener
  /\ IF target = "systemd"
     THEN Gone(Serving \cup {accepted}) /\ UNCHANGED backlog
     ELSE Gone(Serving \cup {accepted} \cup ToSet(backlog)) /\ backlog' = <<>>

Crash ==
  /\ starts < scene.starts
  /\ Killed
  /\ UNCHANGED <<scene, disk, starts, signals>>

\* Ctrl-C, when the runtime passes it on: only to a ctrl_c that has been polled
\* and is being awaited.
CtrlC ==
  /\ at # "exited" /\ signals < scene.signals
  /\ signals' = signals + 1
  /\ \/ /\ ~armed
        /\ Killed
     \/ /\ armed
        /\ signalled' = (at = "accept")
        /\ interrupted' = Looping
        /\ UNCHANGED <<at, loadVars, loopVars, armed, listenerVars, vadVars>>
  /\ UNCHANGED <<scene, disk, starts>>

-----------------------------------------------------------------------------
ServerNext ==
  \/ Start \/ StartingUp \/ ModelsChange
  \/ PollSelect \/ Accept \/ AcceptFails \/ Acquire \/ StopAccepting
  \/ \E c \in Clients :
       \/ Connect(c) \/ Filtering(c) \/ ConnectionEnds(c)
       \/ \E s \in Sensitivities : Transcribe(c, s)
  \/ Unlisten \/ ShutDown \/ Exit
  \/ Crash \/ CtrlC

\* Tasks and threads that can run do; calls of the kernel return; a client
\* that is not stuck leaves at last (or is left, IDLE_TIMEOUT).
ServerFairness ==
  /\ WF_vars(StartingUp) /\ WF_vars(PollSelect) /\ WF_vars(Accept)
  /\ WF_vars(Acquire) /\ WF_vars(StopAccepting)
  /\ WF_vars(Unlisten \/ ShutDown \/ Exit)
  /\ \A c \in Clients :
       /\ WF_vars(Filtering(c))
       /\ WF_vars(c \notin scene.stuck /\ ConnectionEnds(c))

ServerSpec == ServerInit /\ [][ServerNext]_vars /\ ServerFairness

-----------------------------------------------------------------------------
(***************************************************************************)
(* Properties                                                              *)
(***************************************************************************)
\* Ranges; every permit is with a connection that is served or can be had;
\* and a model that was registered to speak is of a type that does, even when
\* its files have changed since it was discovered.
ServerTypeOK ==
  /\ at \in {"exited", "discover", "bind", "load", "select", "accept",
            "acquire", "returned", "cut"}
  /\ client \in [Clients -> {"away", "queued", "accepted", "serving", "gone"}]
  /\ ToSet(backlog) = {c \in Clients : client[c] = "queued"}
  /\ IsInjective(backlog)
  /\ at = "acquire" <=> accepted # None
  /\ Looping => permits + Cardinality(Serving) = scene.args.max_connections
  /\ \A n \in DOMAIN tts : IsTts(tts[n].type)
  /\ \A n \in DOMAIN asr : IsAsr(asr[n].type)
  /\ owner # None => client[owner] = "serving" \/ at = "cut"

Info == BuildInfo(tts, asr, voice_map, asr_map, scene.args.gpu, HasVad)

\* The tags of a voice, one that is written otherwise, and one of no voice.
Tags ==
  {<<"DE", "AT">>, <<"xx">>} \cup
  UNION {UNION {ToSet(v.languages) : v \in ToSet(tts[n].voices)}
         : n \in DOMAIN tts}

\* A describe is answered with every model that was to be loaded, each once.
\* Every voice of every model is in it, under one program only, and a
\* synthesize that names a voice goes to the program that lists it, whatever
\* language it names besides: also when several models have voices of one name.
AdvertisedIsServed ==
  Looping =>
    LET listed == UNION {{i} \X DOMAIN Info.tts[i].voices : i \in DOMAIN Info.tts}
        name(l) == Info.tts[l[1]].voices[l[2]].name
    IN  /\ [i \in DOMAIN Info.tts |-> Info.tts[i].name]
             = Alphabetically(ToSet(models.tts))
        /\ [i \in DOMAIN Info.asr |-> Info.asr[i].name]
             = Alphabetically(ToSet(models.asr))
        /\ \A l, m \in listed : name(l) = name(m) => l = m
        /\ {name(l) : l \in listed} =
             UNION {{v.name : v \in ToSet(tts[n].voices)} : n \in DOMAIN tts}
        /\ \A l \in listed, tag \in Tags \cup {Nothing} :
             ResolveVoice(voice_map, name(l), tag)
               = Found(Info.tts[l[1]].name, name(l))

FirstAsked(requested, loaded) ==
  IF requested # <<>> THEN requested[1]
  ELSE IF loaded = {} THEN Nothing ELSE Min(loaded)

SameLanguage(tag, other) == Lower(tag[1]) = Lower(other[1])

Speaks(voice, tag) ==
  \E l \in DOMAIN voice.languages : SameLanguage(voice.languages[l], tag)

\* A request that says nothing of a voice or a model goes to the first that
\* was named on the command line, and else to the first of the alphabet (lib.rs:
\* "in the given order, so the first one named becomes the default").  One that
\* names only a language, however it is written, goes to the first model in
\* order of loading that has a voice for it, and to a voice of that model that
\* has it; when there is none, to the default model.
RequestsAreRouted ==
  Looping =>
    LET speaks  == FirstAsked(scene.args.model_tts, DOMAIN tts)
        listens == FirstAsked(scene.args.model_asr, DOMAIN asr)
        default == IF speaks = Nothing THEN NoModel ELSE Found(speaks, Nothing)
        able(tag) == {i \in DOMAIN model_names :
                        \E v \in ToSet(tts[model_names[i]].voices) : Speaks(v, tag)}
    IN  /\ ResolveVoice(voice_map, Nothing, Nothing) = default
        /\ ResolveAsrModel(asr_map, Nothing, Nothing) =
             (IF listens = Nothing THEN NoModel ELSE Found(listens, Nothing))
        /\ \A tag \in Tags :
             LET answer == ResolveVoice(voice_map, Nothing, tag)
             IN  IF able(tag) = {} THEN answer = default
                 ELSE /\ answer.model = model_names[Min(able(tag))]
                      /\ \E v \in ToSet(tts[answer.model].voices) :
                           v.name = answer.voice /\ Speaks(v, tag)

\* Whoever finds a socket at the path of a server that runs alone reaches it,
\* also when an earlier one was killed and left its file; one that has served
\* and ends leaves no file, and no server ever removes that of systemd.
SocketIsOwned ==
  /\ Looping /\ target = "unix" => file = socket
  /\ at = "cut" /\ voice_map # Nothing /\ target = "unix" => file = 0
  /\ target = "systemd" => file = SystemdInode

\* With fewer stuck clients than permits, whoever is in the queue is served at
\* last, or cut off by the end of the process.
WaitingIsServed ==
  \A c \in Clients :
    Cardinality(scene.stuck) < scene.args.max_connections =>
      (client[c] \in {"queued", "accepted"}
         ~> client[c] \in {"serving", "gone"} \/ at = "exited")

\* Once serve has returned the process ends, although clients are being served
\* or stuck and jobs may be running.  main returns when run does and drops the
\* runtime, and with it every connection: what serve logs at that moment,
\* lib.rs:831 `Accept loop stopped; in-flight connections will complete', is
\* not so.  A server that kept that promise (MayShutDownWhenIdle) would not end
\* while a client is stuck.
StoppedIsGone == at = "returned" ~> at = "exited"

\* lib.rs:782-783, of serve: "Accept and serve Wyoming connections on
\* `listener' until a shutdown signal (Ctrl-C) is received."
CtrlCIsHeeded == interrupted ~> at = "exited"
=============================================================================

--------------------------- MODULE SpeechdModule ---------------------------
(***************************************************************************)
(* The speech-dispatcher output module (src/crates/sd-crane-wyoming/src/   *)
(* lib.rs): a command loop on stdin that speaks through one WyomingClient  *)
(* for its whole life, reconnecting once when the connection turns out to  *)
(* be lost, and that polls stdin between two pieces of audio.              *)
(*                                                                         *)
(* speech-dispatcher does not pipeline: it sends the next command when the *)
(* last one is answered, and while a message is spoken at most one STOP or *)
(* PAUSE at a time.  An empty text and a SPEAK without a client get the    *)
(* same answer; SET, AUDIO, LOGLEVEL and LIST VOICES answer from their own *)
(* block or the list of INIT and are one command here.                     *)
(***************************************************************************)
EXTENDS WyomingClient

CONSTANTS
  MaxLines,         \* bound: commands speech-dispatcher sends
  PiecesPerChunk    \* bound: pieces of MAX_CHUNK one audio-chunk is cut into

ASSUME SpeechdModuleAssumption == MaxLines \in Nat /\ PiecesPerChunk \in Nat

VARIABLES
  mode,          \* where the module is
  stdin,         \* lines not yet read
  lines,         \* lines sent so far
  out,           \* replies to the current command
  first,         \* the first of the two attempts of speak
  preamble_sent, bad_format, interrupt,   \* Attempt; "broken": io_error
  pieces,        \* pieces of the current chunk still to be written
  spoken,        \* the calls whose audio was written for the message
  asked, told    \* STOPs and PAUSEs sent and answered (history)

attemptVars == <<preamble_sent, bad_format, interrupt>>
moduleVars == <<mode, stdin, lines, out, first, preamble_sent,
                bad_format, interrupt, pieces, spoken, asked, told>>
vars == <<clientVars, moduleVars>>

Interrupts == {"STOP", "PAUSE"}
Commands == {"INIT", "SPEAK", "OTHER", "QUIT"} \cup Interrupts

ModuleTypeOK ==
  /\ TypeOK
  /\ mode \in {"command", "init", "speak", "pieces", "reconnect", "describe",
               "ended"}
  /\ stdin \in Seq(Commands) /\ Len(stdin) <= 1
  /\ lines \in 0..MaxLines
  /\ out \in Seq({"200", "202", "210", "299", "301", "399", "701", "702",
                  "703", "704", "705"})
  /\ first \in BOOLEAN
  /\ preamble_sent \in BOOLEAN /\ bad_format \in BOOLEAN
  /\ interrupt \in Interrupts \cup {"none", "broken"}
  /\ pieces \in 0..PiecesPerChunk
  /\ spoken \subseteq 1..MaxCalls /\ {asked, told} \subseteq 0..MaxLines

Init ==
  /\ ClientInit
  /\ mode = "command" /\ stdin = <<>> /\ lines = 0 /\ out = <<>>
  /\ first = TRUE
  /\ preamble_sent = FALSE /\ bad_format = FALSE /\ interrupt = "none"
  /\ pieces = 0 /\ spoken = {} /\ asked = 0 /\ told = 0

-----------------------------------------------------------------------------
(***************************************************************************)
(* speech-dispatcher, as this module's documentation describes it.         *)
(***************************************************************************)
\* INIT is sent until it succeeds, and not again.
SpeechdSends(c) ==
  /\ stdin = <<>> /\ lines < MaxLines
  /\ \/ mode = "command" /\ (c = "INIT" <=> link = "none")
     \/ mode \in {"speak", "pieces", "reconnect", "describe"} /\ c \in Interrupts
  /\ stdin' = <<c>> /\ lines' = lines + 1
  /\ asked' = IF c \in Interrupts THEN asked + 1 ELSE asked
  /\ UNCHANGED <<clientVars, mode, out, first, attemptVars, pieces,
                 spoken, told>>

(***************************************************************************)
(* The command loop, run.                                                  *)
(***************************************************************************)
ReplyOf(c) == IF c = "STOP" THEN "703" ELSE "704"

\* A command that is answered at once.
Command(c) ==
  /\ mode = "command" /\ stdin = <<c>> /\ stdin' = <<>>
  /\ \/ c \in Interrupts /\ out' = <<ReplyOf(c)>> /\ told' = told + 1
          /\ UNCHANGED mode
     \/ c = "OTHER" /\ out' = <<"200">> /\ UNCHANGED <<mode, told>>
     \/ c = "QUIT" /\ out' = <<"210">> /\ mode' = "ended" /\ UNCHANGED told
     \/ c = "SPEAK" /\ out' = <<"202", "301">> /\ UNCHANGED <<mode, told>>
     \/ c = "INIT" /\ out' = <<"399">> /\ UNCHANGED <<mode, told>>
  /\ UNCHANGED <<clientVars, lines, first, attemptVars, pieces,
                 spoken, asked>>

\* The end of the input.
InputEnds ==
  /\ mode = "command" /\ stdin = <<>>
  /\ mode' = "ended"
  /\ UNCHANGED <<clientVars, stdin, lines, out, first, attemptVars,
                 pieces, spoken, asked, told>>

\* Bound: a message starts when the calls it may make fit into MaxCalls.
CallsLeft(n) == call + n <= MaxCalls

\* INIT: Client::connect succeeds, then describe.
CommandInit ==
  /\ CallsLeft(1)
  /\ mode = "command" /\ stdin = <<"INIT">> /\ stdin' = <<>>
  /\ Connect
  /\ mode' = "init" /\ out' = <<>>
  /\ UNCHANGED <<lines, first, attemptVars, pieces, spoken, asked,
                 told>>

FreshAttempt ==
  preamble_sent' = FALSE /\ bad_format' = FALSE /\ interrupt' = "none"

\* SPEAK with a text, and a client to speak it.
CommandSpeak ==
  /\ CallsLeft(3)
  /\ mode = "command" /\ stdin = <<"SPEAK">> /\ stdin' = <<>>
  /\ Send("synthesize")
  /\ mode' = "speak" /\ out' = <<"202">>
  /\ first' = TRUE /\ spoken' = {}
  /\ FreshAttempt
  /\ UNCHANGED <<lines, pieces, asked, told>>

(***************************************************************************)
(* init and its describe, on INIT and to reconnect.                        *)
(***************************************************************************)
Describe ==
  /\ mode \in {"init", "describe"} /\ link # "none" /\ kind # "describe"
  /\ Send("describe")
  /\ UNCHANGED moduleVars

\* A connection that did not answer is dropped; there is no client.
InitDone ==
  /\ mode = "init" /\ kind = "describe" /\ step = "idle"
  /\ mode' = "command"
  /\ IF result = "ok"
       THEN out' = <<"299">> /\ UNCHANGED clientVars
       ELSE /\ out' = <<"399">>
            /\ link' = "none" /\ requests' = <<>> /\ serving' = <<>>
            /\ events' = <<>> /\ kind' = "ping"
            /\ UNCHANGED <<call, step, taken, result, replies>>
  /\ UNCHANGED <<stdin, lines, first, attemptVars, pieces, spoken,
                 asked, told>>

(***************************************************************************)
(* synthesize_attempt                                                      *)
(***************************************************************************)
\* synthesize_streaming reads what is no audio-chunk.
Listen ==
  /\ mode \in {"init", "speak", "describe"}
  /\ ExpectResponse \/ Return
  /\ UNCHANGED moduleVars

\* Mutant of Cuts: the pieces come out too short.
CutsOneMore == 0..(PiecesPerChunk + 1)

\* The pieces a chunk is written in: MAX_CHUNK, in whole samples.
Cuts == 0..PiecesPerChunk

Deaf == bad_format \/ interrupt # "none"

\* A chunk after the callback broke off is drained and discarded.
DrainChunk ==
  /\ mode = "speak" /\ Deaf /\ ReadChunk
  /\ UNCHANGED moduleVars

\* The callback: the preamble before the first audio, and the pieces.  A
\* format without samples, or a reply that cannot be written, breaks off.
HearChunk ==
  /\ mode = "speak" /\ ~Deaf /\ ReadChunk
  /\ \/ /\ ~preamble_sent /\ bad_format' = TRUE
        /\ UNCHANGED <<mode, out, preamble_sent, interrupt, pieces>>
     \/ /\ ~preamble_sent /\ interrupt' = "broken"
        /\ UNCHANGED <<mode, out, preamble_sent, bad_format, pieces>>
     \/ /\ out' = IF preamble_sent THEN out ELSE out \o <<"200", "701">>
        /\ preamble_sent' = TRUE
        /\ mode' = "pieces" /\ pieces' \in Cuts
        /\ UNCHANGED <<bad_format, interrupt>>
  /\ UNCHANGED <<stdin, lines, first, spoken, asked, told>>

\* poll_fd_interrupt: a STOP or PAUSE is pending; nothing else is, here.
Pending == stdin # <<>> /\ Head(stdin) \in Interrupts

\* The poll, then write_audio_event.
NextPiece ==
  /\ mode = "pieces" /\ pieces > 0
  /\ \/ /\ Pending /\ stdin' = <<>>
        /\ interrupt' = Head(stdin) /\ pieces' = 0
        /\ UNCHANGED <<out, spoken>>
     \/ /\ stdin = <<>> /\ UNCHANGED <<stdin, interrupt>>
        /\ out' = Append(out, "705") /\ pieces' = pieces - 1
        /\ spoken' = spoken \cup {taken[Len(taken)].of}
     \/ /\ stdin = <<>> /\ UNCHANGED <<stdin, out, spoken>>
        /\ interrupt' = "broken" /\ pieces' = 0
  /\ UNCHANGED <<clientVars, mode, lines, first, preamble_sent,
                 bad_format, asked, told>>

ChunkDone ==
  /\ mode = "pieces" /\ pieces = 0
  /\ mode' = "speak"
  /\ UNCHANGED <<clientVars, stdin, lines, out, first, attemptVars,
                 pieces, spoken, asked, told>>

(***************************************************************************)
(* speak                                                                   *)
(***************************************************************************)
Attempted == mode = "speak" /\ step = "idle"

\* Mutant of MayRetry: the attempt is repeated whatever was heard of it.
MayRetryAlways == first /\ interrupt # "broken" /\ result = "transport"

MayRetry ==
  first /\ ~preamble_sent /\ interrupt # "broken" /\ result = "transport"

LoseConnection ==
  /\ Attempted /\ MayRetry
  /\ mode' = "reconnect"
  /\ UNCHANGED <<clientVars, stdin, lines, out, first, attemptVars,
                 pieces, spoken, asked, told>>

\* Mutant of Verdict: an error is reported before the interrupt is.
VerdictForgettingInterrupt ==
  IF result = "ok" /\ ~bad_format
    THEN (IF preamble_sent THEN <<>> ELSE <<"200", "701">>) \o <<"702">>
    ELSE IF preamble_sent THEN <<"702">> ELSE <<"301">>

\* Mutant of Verdict: an answer without audio is not bracketed.
VerdictUnbracketed ==
  IF interrupt \in Interrupts THEN <<ReplyOf(interrupt)>>
  ELSE IF result = "ok" /\ ~bad_format THEN <<"702">>
  ELSE IF preamble_sent THEN <<"702">> ELSE <<"301">>

\* The reply that ends the message.
Verdict ==
  IF interrupt \in Interrupts THEN <<ReplyOf(interrupt)>>
  ELSE IF result = "ok" /\ ~bad_format
    THEN (IF preamble_sent THEN <<>> ELSE <<"200", "701">>) \o <<"702">>
  ELSE IF preamble_sent THEN <<"702">> ELSE <<"301">>

Spoken ==
  /\ Attempted /\ ~MayRetry
  /\ IF interrupt = "broken"
       THEN mode' = "ended" /\ UNCHANGED <<out, told>>
       ELSE /\ mode' = "command" /\ out' = out \o Verdict
            /\ told' = IF Final(Verdict) \in {"703", "704"} THEN told + 1 ELSE told
  /\ UNCHANGED <<clientVars, stdin, lines, first, attemptVars,
                 pieces, spoken, asked>>

\* Client::connect succeeds; init goes on with describe.
Reconnect ==
  /\ mode = "reconnect" /\ Connect
  /\ mode' = "describe"
  /\ UNCHANGED <<stdin, lines, out, first, attemptVars, pieces,
                 spoken, asked, told>>

\* connect or describe fails, or RECONNECT_TIMEOUT ends the wait: the new
\* connection is dropped and the old client, whose connection is lost, kept.
ReconnectFails ==
  /\ \/ mode = "reconnect"
     \/ mode = "describe" /\ (kind # "describe" \/ step # "idle" \/ result # "ok")
  /\ mode' = "command" /\ out' = Append(out, "301")
  /\ link' = "closed" /\ requests' = <<>> /\ serving' = <<>> /\ events' = <<>>
  /\ step' = "idle"
  /\ UNCHANGED <<call, kind, taken, result, replies, stdin, lines, first,
                 attemptVars, pieces, spoken, asked, told>>

\* The second and last attempt.
Retry ==
  /\ mode = "describe" /\ kind = "describe" /\ step = "idle" /\ result = "ok"
  /\ Send("synthesize")
  /\ mode' = "speak" /\ first' = FALSE
  /\ FreshAttempt
  /\ UNCHANGED <<stdin, lines, out, pieces, spoken, asked, told>>

-----------------------------------------------------------------------------
Speaking ==
  \/ HearChunk \/ NextPiece \/ ChunkDone \/ DrainChunk \/ Listen
  \/ LoseConnection \/ Spoken
  \/ Reconnect \/ ReconnectFails \/ Describe \/ Retry

Module ==
  \/ \E c \in Commands : Command(c)
  \/ CommandInit \/ CommandSpeak \/ InitDone \/ InputEnds \/ Speaking

ModuleNext ==
  \/ Module
  \/ \E c \in Commands : SpeechdSends(c)
  \/ (Server \/ ServerCloses) /\ UNCHANGED moduleVars

\* The module runs, and its server answers (Connection!Fairness); nothing
\* obliges speech-dispatcher to send, or the input to end.
ModuleFairness == WF_vars(Speaking) /\ WF_vars(Server /\ UNCHANGED moduleVars)

ModuleSpec == Init /\ [][ModuleNext]_vars /\ ModuleFairness

-----------------------------------------------------------------------------
(***************************************************************************)
(* Properties                                                              *)
(***************************************************************************)
Ends == {"702", "703", "704"}

\* speech-dispatcher gets one complete answer to a message, whatever happens
\* to the connection on the way: it is refused, or it begins once, is heard,
\* and ends once (speak: `bracketed by 701 BEGIN/702 END').
MessageIsAnswered ==
  mode = "command" /\ out # <<>> /\ out[1] = "202" =>
    \/ out = <<"202", "301">>
    \/ /\ Len(out) >= 4
       /\ out[2] = "200" /\ out[3] = "701" /\ Final(out) \in Ends
       /\ \A i \in 4..(Len(out) - 1) : out[i] = "705"

\* What is heard for a message is the audio of a single call, the last one made
\* for this message: a message is not heard twice when the connection is lost,
\* and never another one's text (speak: `leaving the connection ready for the
\* next SPEAK').
SpeaksItsOwnText ==
  mode \in {"speak", "pieces", "command"} =>
    spoken \subseteq {IF kind = "synthesize" THEN call ELSE 0}

\* Every STOP and PAUSE is answered exactly once, whether it cuts a message
\* short, comes too late for it, or meets a failing server.
InterruptsAreAnswered ==
  mode # "ended" /\ interrupt # "broken" =>
    asked = told + (IF stdin # <<>> /\ stdin[1] \in Interrupts THEN 1 ELSE 0)
                 + (IF mode \in {"speak", "pieces"} /\ interrupt \in Interrupts
                      THEN 1 ELSE 0)

\* The module comes back from every message, whatever its server does short
\* of never answering.
MessageEnds == mode = "speak" ~> mode \in {"command", "ended"}
=============================================================================

--------------------------- MODULE SpeechdDialogue ---------------------------
(***************************************************************************)
(* What speech-dispatcher and its output module say to each other, line by *)
(* line (src/crates/sd-crane-wyoming/src/lib.rs): the command loop, the    *)
(* blocks of SET, AUDIO and LOGLEVEL, the text of SPEAK on its way through *)
(* dots and SSML, and the bytes of an audio event.  How a message is       *)
(* spoken through the client is in SpeechdModule; here it is spoken or is  *)
(* not.                                                                    *)
(*                                                                         *)
(* A line is a sequence of words and signs: a name with its value is three *)
(* of them, an entity two (`&lt;' is the sign & and the word lt, which     *)
(* stands for `lt;'), and LIST VOICES is one word.                         *)
(***************************************************************************)
EXTENDS Lists

\* What a dialogue can be about: the exchanges speech-dispatcher chooses from,
\* the audio and the programs (of a describe) the server answers with, and the
\* number of turns (bound); and what lines are made of.
CONSTANTS Talks, Words, Absent

VARIABLES
  talk,
  turn,
  pipe,       \* lines that speech-dispatcher has written and nobody has read
  closed,     \* and whether it writes no more
  reading,    \* the command whose lines are being read
  block,      \* what has been made of them so far
  settings, log_level, voices, connected,
  answer,     \* the replies to the command
  sent,       \* what speech-dispatcher has sent (history)
  agreed,     \* the settings before that, as it knows them (history)
  said        \* what was made of the message (history)

dialogueVars == <<talk, turn, pipe, closed, reading, block, settings,
                  log_level, voices, connected, answer, sent, agreed, said>>

Multiline == {"SET", "AUDIO", "LOGLEVEL", "SPEAK"}
KnownCommands ==
  Multiline \cup {"INIT", "LIST_VOICES", "STOP", "PAUSE", "QUIT"}

Terminator == <<".">>

\* The signs with a meaning, and the words of SSML.
Signs == {".", "blank", "=", "newline", "<", ">", "/", "&", "speak", "mark",
          "lt", "gt", "amp", "quot", "apos", "quote", "apostrophe"}

ASSUME WordsAssumption == Signs \cup KnownCommands \subseteq Words

-----------------------------------------------------------------------------
(***************************************************************************)
(* Lines                                                                   *)
(***************************************************************************)
Trim(line) ==
  LET ink == {i \in DOMAIN line : line[i] # "blank"}
  IN  IF ink = {} THEN <<>> ELSE SubSeq(line, Min(ink), Max(ink))

Equals(line) == {i \in DOMAIN line : line[i] = "="}
IsPair(line) == Equals(line) # {}
KeyOf(line) == SubSeq(line, 1, Min(Equals(line)) - 1)
ValueOf(line) == SubSeq(line, Min(Equals(line)) + 1, Len(line))

\* The values that parse as an i32.
Integer == <<"1">> :> 1 @@ <<"3">> :> 3 @@ <<"7">> :> 7
IsInteger(value) == value \in DOMAIN Integer

Parse(line) ==
  LET word == Trim(line)
  IN  IF \E c \in KnownCommands : word = <<c>> THEN word[1] ELSE "UNKNOWN"

-----------------------------------------------------------------------------
(***************************************************************************)
(* Settings, and what else a block sets                                    *)
(***************************************************************************)
Names == {"voice", "synthesis_voice", "language"}
Degrees == {"rate", "pitch", "volume"}
Ignored == {"pitch_range", "punctuation_mode", "spelling_mode",
            "cap_let_recogn"}

NoSettings == [field \in Names \cup Degrees |-> Absent]

Known(keys, key) == \E k \in keys : key = <<k>>

Applies(key, value) ==
  \/ Known(Names \cup Ignored, key)
  \/ Known(Degrees, key) /\ (value = <<"NULL">> \/ IsInteger(value))

\* Settings::apply of a pair it accepts.
Apply(old, key, value) ==
  IF Known(DOMAIN old, key)
    THEN [old EXCEPT ![key[1]] = IF value = <<"NULL">> THEN Absent ELSE value]
    ELSE old

\* Which pairs the block of a command takes.
Accepts(command, line) ==
  LET key == KeyOf(line)
      value == ValueOf(line)
  IN  CASE command = "SET"      -> Applies(key, value)
        [] command = "AUDIO"    -> key = <<"audio_output_method">>
                                     => value = <<"server">>
        [] command = "LOGLEVEL" -> key = <<"log_level">> /\ IsInteger(value)

LevelFilter(n) ==
  CASE n <= 1 -> "ERROR" [] n = 2 -> "WARN" [] n = 3 -> "INFO"
    [] n = 4 -> "DEBUG" [] OTHER -> "TRACE"

-----------------------------------------------------------------------------
(***************************************************************************)
(* A message                                                               *)
(***************************************************************************)
JoinLines(lines) ==
  FlattenSeq([i \in DOMAIN lines |->
                IF i = 1 THEN lines[i] ELSE <<"newline">> \o lines[i]])

\* Mutant of Unstuff: the dot that was put before a dot is kept.
UnstuffNothing(line) == line

Unstuff(line) == IF line # <<>> /\ line[1] = "." THEN Tail(line) ELSE line

Entities ==
  [entity \in {"lt", "gt", "amp", "quot", "apos"} |->
     CASE entity = "lt" -> "<" [] entity = "gt" -> ">" [] entity = "amp" -> "&"
       [] entity = "quot" -> "quote" [] entity = "apos" -> "apostrophe"]

\* In a tag: the last bracket before i has opened one.
Omitted(text, i) ==
  LET brackets == {j \in 1..(i - 1) : text[j] \in {"<", ">"}}
  IN  brackets # {} /\ text[Max(brackets)] = "<"

IsEntity(text, i) ==
  /\ i \in 1..(Len(text) - 1) /\ text[i] = "&"
  /\ text[i + 1] \in DOMAIN Entities

\* Tags and stray brackets go, entities become what they stand for.
Kept(text, i) ==
  IF text[i] \in {"<", ">"} \/ Omitted(text, i) \/ IsEntity(text, i - 1) THEN <<>>
  ELSE IF IsEntity(text, i) THEN <<Entities[text[i + 1]]>>
  ELSE <<text[i]>>

StripSsml(text) == FlattenSeq([i \in DOMAIN text |-> Kept(text, i)])

\* to_synthesize_data
ToSynthesizeData(text, some) ==
  [text |-> text,
   voice |-> IF some.synthesis_voice = Absent /\ some.language = Absent
             THEN Absent
             ELSE [name |-> some.synthesis_voice, language |-> some.language]]

\* byte ^ 0x20
Flip(byte) == IF (byte \div 32) % 2 = 1 THEN byte - 32 ELSE byte + 32

EscapeByte(byte) == IF byte \in {125, 10} THEN <<125, Flip(byte)>> ELSE <<byte>>

HdlcEscape(pcm) == FlattenSeq([i \in DOMAIN pcm |-> EscapeByte(pcm[i])])

\* The bytes after 705-AUDIO\0 that write_audio_event ends with a newline.
AudioEvent(pcm) == HdlcEscape(pcm) \o <<10>>

\* extract_voices
ExtractVoices(programs) ==
  LET all == FlattenSeq(programs)
      offers == Picked(all, {i \in DOMAIN all : all[i].name # Absent})
  IN  [i \in DOMAIN offers |->
        <<offers[i].name, IF offers[i].languages = <<>> THEN "none"
                          ELSE offers[i].languages[1]>>]

-----------------------------------------------------------------------------
(***************************************************************************)
(* speech-dispatcher, as this module's documentation describes it          *)
(***************************************************************************)
Escape(word) ==
  CASE word = "<" -> <<"&", "lt">> [] word = ">" -> <<"&", "gt">>
    [] word = "&" -> <<"&", "amp">> [] OTHER -> <<word>>

EscapeSsml(text) == FlattenSeq([i \in DOMAIN text |-> Escape(text[i])])

WithMarks(text, mark) ==
  <<"<", "speak", ">">> \o EscapeSsml(SubSeq(text, 1, mark))
  \o <<"<", "mark", "/", ">">>
  \o EscapeSsml(SubSeq(text, mark + 1, Len(text)))
  \o <<"<", "/", "speak", ">">>

\* The text between two of its line ends.
SplitLines(text) ==
  LET ends == InOrder({i \in DOMAIN text : text[i] = "newline"})
      edges == <<0>> \o ends \o <<Len(text) + 1>>
  IN  [i \in 1..(Len(ends) + 1) |-> SubSeq(text, edges[i] + 1, edges[i + 1] - 1)]

Stuffed(lines) ==
  [i \in DOMAIN lines |->
     IF lines[i] # <<>> /\ lines[i][1] = "." THEN <<".">> \o lines[i]
     ELSE lines[i]]

Block(command, lines) == [command |-> command, lines |-> lines, text |-> <<>>]

Plain(command) == Block(command, <<>>)

Message(text, mark) ==
  [command |-> "SPEAK", text |-> text,
   lines |-> Stuffed(SplitLines(WithMarks(text, mark)))]

\* What it may send: a command that has no lines, a block whose lines it has
\* trimmed, or a message.
IsExchange(e) ==
  \/ e = Plain(e.command) /\ e.command \in Words \ (Multiline \cup {"blank"})
  \/ /\ e = Block(e.command, e.lines) /\ e.command \in {"SET", "AUDIO", "LOGLEVEL"}
     /\ e.lines \in Seq(Seq(Words))
     /\ \A i \in DOMAIN e.lines : Trim(e.lines[i]) = e.lines[i]
  \/ /\ e.text \in Seq(Words)
     /\ \E mark \in 0..Len(e.text) : e = Message(e.text, mark)

Bytes == 0..255

Offers == [name : Words \cup {Absent}, languages : Seq(Words)]

ASSUME TalksAssumption ==
  \A t \in Talks : /\ \A e \in t.exchanges : IsExchange(e)
                   /\ \A pcm \in t.audio : pcm \in Seq(Bytes)
                   /\ \A programs \in t.infos : programs \in Seq(Seq(Offers))

\* No line of a block or of a message is a dot between blanks, which the module
\* would take for the terminator (not an assumption: see InStep).
Unmistakable ==
  \A t \in Talks : \A e \in t.exchanges :
    \A i \in DOMAIN e.lines : Trim(e.lines[i]) # Terminator

\* What a setting is after a block, by its last line for it.
Told(old, lines) ==
  [field \in DOMAIN old |->
    LET its == {i \in DOMAIN lines : KeyOf(lines[i]) = <<field>>}
    IN  IF its = {} THEN old[field]
        ELSE IF ValueOf(lines[Max(its)]) = <<"NULL">> THEN Absent
        ELSE ValueOf(lines[Max(its)])]

BlockVerdict(e) ==
  IF \E i \in DOMAIN e.lines : ~IsPair(e.lines[i]) THEN "302"
  ELSE IF \E i \in DOMAIN e.lines : ~Accepts(e.command, e.lines[i]) THEN "303"
  ELSE "203"

Agreed ==
  IF sent.command = "SET" /\ BlockVerdict(sent) = "203"
    THEN Told(agreed, sent.lines) ELSE agreed

\* The next command, when the last one is answered.
SpeechdTells(e) ==
  /\ reading = "command" /\ pipe = <<>> /\ ~closed
  /\ turn < talk.turns /\ turn' = turn + 1
  /\ pipe' = <<<<e.command>>>> \o e.lines
             \o (IF e.command \in Multiline THEN <<Terminator>> ELSE <<>>)
  /\ sent' = e /\ agreed' = Agreed
  /\ answer' = <<>> /\ said' = Absent
  /\ UNCHANGED <<talk, closed, reading, block, settings, log_level, voices,
                 connected>>

\* It goes away, in the middle of what it writes.
SpeechdCloses ==
  /\ ~closed /\ closed' = TRUE
  /\ \E n \in 0..Len(pipe) : pipe' = SubSeq(pipe, 1, n)
  /\ UNCHANGED <<talk, turn, reading, block, settings, log_level, voices,
                 connected, answer, sent, agreed, said>>

-----------------------------------------------------------------------------
(***************************************************************************)
(* run                                                                     *)
(***************************************************************************)
Silence == [exchanges |-> {}, audio |-> {}, infos |-> {}, turns |-> 0]

DialogueInit ==
  /\ talk \in Talks \cup {Silence} /\ turn = 0
  /\ pipe = <<>> /\ closed = FALSE
  /\ reading = "command" /\ block = Absent
  /\ settings = NoSettings /\ log_level = "INFO" /\ voices = <<>>
  /\ connected = FALSE
  /\ answer = <<>> /\ sent = Plain("STOP") /\ agreed = NoSettings
  /\ said = Absent

ReadLine == pipe # <<>> /\ pipe' = Tail(pipe)

Reply(code) == answer' = Append(answer, code)

\* A command that is answered at once.
AnswerCommand ==
  /\ reading = "command" /\ ReadLine
  /\ LET c == Parse(Head(pipe))
     IN  \/ c = "STOP" /\ Reply("703") /\ UNCHANGED <<reading, connected>>
         \/ c = "PAUSE" /\ Reply("704") /\ UNCHANGED <<reading, connected>>
         \/ c = "UNKNOWN" /\ Reply("300") /\ UNCHANGED <<reading, connected>>
         \/ /\ c = "QUIT" /\ Reply("210")
            /\ reading' = "ended" /\ connected' = FALSE
         \/ /\ c = "LIST_VOICES"
            /\ answer' = answer \o (IF voices = <<>> THEN <<"304">>
                                    ELSE voices \o <<"200">>)
            /\ UNCHANGED <<reading, connected>>
  /\ UNCHANGED <<talk, turn, closed, block, settings, log_level, voices,
                 sent, agreed, said>>

\* INIT, whose describe answers with some programs, or fails.
AnswerInit ==
  /\ reading = "command" /\ ReadLine /\ Parse(Head(pipe)) = "INIT"
  /\ \/ /\ \E programs \in talk.infos : voices' = ExtractVoices(programs)
        /\ connected' = TRUE /\ Reply("299")
     \/ Reply("399") /\ UNCHANGED <<voices, connected>>
  /\ UNCHANGED <<talk, turn, closed, reading, block, settings, log_level,
                 sent, agreed, said>>

Receiving ==
  [command \in Multiline |->
     CASE command = "SET" -> "203" [] command = "SPEAK" -> "202" [] OTHER -> "207"]

\* A command that is followed by lines.
BeginBlock ==
  /\ reading = "command" /\ ReadLine
  /\ LET c == Parse(Head(pipe))
     IN  c \in Multiline /\ reading' = c /\ Reply(Receiving[c])
  /\ block' = [scratch |-> settings, level |-> Absent, body |-> <<>>,
               bad_syntax |-> FALSE, bad_value |-> FALSE]
  /\ UNCHANGED <<talk, turn, closed, settings, log_level, voices, connected,
                 sent, agreed, said>>

InBlock == reading \in {"SET", "AUDIO", "LOGLEVEL"}

\* Mutant of EndsBlock: what is wrong ends it.
EndsBlockWhenBad(line) ==
  ~(line # Terminator /\ IsPair(line) /\ Accepts(reading, line))

EndsBlock(line) == line = Terminator

\* read_kv_block: a line of it.
ReadPair ==
  /\ InBlock /\ ReadLine
  /\ LET line == Trim(Head(pipe))
     IN  /\ ~EndsBlock(line)
         /\ block' =
              IF ~IsPair(line) THEN [block EXCEPT !.bad_syntax = TRUE]
              ELSE IF ~Accepts(reading, line)
                THEN [block EXCEPT !.bad_value = TRUE]
              ELSE [block EXCEPT
                !.scratch = IF reading = "SET"
                            THEN Apply(@, KeyOf(line), ValueOf(line)) ELSE @,
                !.level = IF reading = "LOGLEVEL" THEN ValueOf(line) ELSE @]
  /\ UNCHANGED <<talk, turn, closed, reading, settings, log_level, voices,
                 connected, answer, sent, agreed, said>>

\* Its end, or that of the input; handle_set, handle_audio, handle_loglevel.
EndBlock ==
  /\ InBlock
  /\ \/ ReadLine /\ EndsBlock(Trim(Head(pipe)))
     \/ pipe = <<>> /\ closed /\ UNCHANGED pipe
  /\ Reply(IF block.bad_syntax THEN "302"
           ELSE IF block.bad_value THEN "303" ELSE "203")
  /\ LET good == ~block.bad_syntax /\ ~block.bad_value
     IN  /\ settings' = IF reading = "SET" /\ good THEN block.scratch
                        ELSE settings
         /\ log_level' = IF block.level # Absent /\ good
                         THEN LevelFilter(Integer[block.level]) ELSE log_level
  /\ reading' = "command" /\ block' = Absent
  /\ UNCHANGED <<talk, turn, closed, voices, connected, sent, agreed, said>>

\* read_text_block: a line of the text.
ReadText ==
  /\ reading = "SPEAK" /\ ReadLine
  /\ Trim(Head(pipe)) # Terminator
  /\ block' = [block EXCEPT !.body = Append(@, Unstuff(Head(pipe)))]
  /\ UNCHANGED <<talk, turn, closed, reading, settings, log_level, voices,
                 connected, answer, sent, agreed, said>>

\* And its end: the message is spoken, or cannot be.
Speak ==
  /\ reading = "SPEAK" /\ ReadLine
  /\ Trim(Head(pipe)) = Terminator
  /\ LET text == StripSsml(JoinLines(block.body))
     IN  \/ /\ Reply("301")
            /\ said' = [request |-> ToSynthesizeData(text, settings),
                        audio |-> <<>>, bytes |-> <<>>]
         \/ /\ text # <<>> /\ connected
            /\ answer' = answer \o <<"200", "701", "705", "702">>
            /\ \E pcm \in talk.audio :
                 said' = [request |-> ToSynthesizeData(text, settings),
                          audio |-> pcm, bytes |-> AudioEvent(pcm)]
  /\ reading' = "command" /\ block' = Absent
  /\ UNCHANGED <<talk, turn, closed, settings, log_level, voices, connected,
                 sent, agreed>>

\* The input ends where a command or a line of text was to come.
EndDialogue ==
  /\ reading \in {"command", "SPEAK"} /\ pipe = <<>> /\ closed
  /\ reading' = "ended"
  /\ UNCHANGED <<talk, turn, pipe, closed, block, settings, log_level, voices,
                 connected, answer, sent, agreed, said>>

DialogueNext ==
  \/ \E e \in talk.exchanges : SpeechdTells(e)
  \/ SpeechdCloses
  \/ AnswerCommand \/ AnswerInit \/ BeginBlock \/ ReadPair \/ EndBlock
  \/ ReadText \/ Speak \/ EndDialogue

DialogueSpec == DialogueInit /\ [][DialogueNext]_dialogueVars

-----------------------------------------------------------------------------
(***************************************************************************)
(* Properties                                                              *)
(***************************************************************************)
Rests == reading = "command" /\ pipe = <<>> /\ ~closed /\ turn > 0

\* The replies to a command, whatever its lines were.
Expected ==
  CASE sent.command \in {"SET", "AUDIO", "LOGLEVEL"}
         -> {<<Receiving[sent.command], BlockVerdict(sent)>>}
    [] sent.command = "SPEAK"
         -> {<<"202", "301">>, <<"202", "200", "701", "705", "702">>}
    [] sent.command = "INIT"  -> {<<"299">>, <<"399">>}
    [] sent.command = "STOP"  -> {<<"703">>}
    [] sent.command = "PAUSE" -> {<<"704">>}
    [] sent.command = "LIST_VOICES"
         -> {IF voices = <<>> THEN <<"304">> ELSE voices \o <<"200">>}
    [] OTHER -> {<<"300">>}

\* Both sides agree where they are.  A line of a block or a text is never
\* taken for a command, however wrong the lines before it (read_kv_block:
\* "Every line in the block is processed regardless of earlier errors"; read_
\* text_block: "lines up to a lone `.' terminator"); a command gets its own
\* replies and no others; and between two commands the settings are those of
\* the blocks that were accepted, as a whole (handle_set).
InStep ==
  /\ reading = "command" /\ pipe # <<>> =>
       pipe[1] = <<sent.command>> /\ answer = <<>>
  /\ Rests => answer \in Expected /\ settings = Agreed

\* speech-dispatcher undoes the escapes, byte after byte, in what comes before
\* a newline.
DecodeByte(sofar, byte) ==
  IF sofar.escaped
    THEN [escaped |-> FALSE, out |-> Append(sofar.out, Flip(byte))]
  ELSE IF byte = 125 THEN [escaped |-> TRUE, out |-> sofar.out]
  ELSE [escaped |-> FALSE, out |-> Append(sofar.out, byte)]

Decode(line) ==
  LET after[i \in 0..Len(line)] ==
        IF i = 0 THEN [escaped |-> FALSE, out |-> <<>>]
        ELSE DecodeByte(after[i - 1], line[i])
  IN  after[Len(line)]

Unescaped(bytes) ==
  Decode(SubSeq(bytes, 1, Min({i \in DOMAIN bytes : bytes[i] = 10}) - 1)).out

\* What the user has written arrives at the server, in the voice that was
\* agreed: dots at the start of a line, brackets and ampersands, and what looks
\* like an entity included; and the server's audio arrives at the other end.
SpeechIsCarried ==
  Rests /\ said # Absent =>
    /\ said.request.text = sent.text
    /\ said.request.voice =
         (IF Agreed.synthesis_voice = Absent /\ Agreed.language = Absent
          THEN Absent ELSE [name |-> Agreed.synthesis_voice,
                            language |-> Agreed.language])
    /\ said.bytes # <<>> => Unescaped(said.bytes) = said.audio
=============================================================================

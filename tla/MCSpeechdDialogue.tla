------------------------- MODULE MCSpeechdDialogue -------------------------
(***************************************************************************)
(* SpeechdDialogue for model checking.  A talk is about one thing: what a  *)
(* message is made of, what blocks are, what bytes an audio event has, or  *)
(* in which order the commands come.                                       *)
(***************************************************************************)
EXTENDS SpeechdDialogue

Talk(exchanges, audio, turns) ==
  [exchanges |-> exchanges, audio |-> audio, turns |-> turns,
   infos |-> {<<<<[name |-> "anna", languages |-> <<"de", "en">>],
                  [name |-> Absent, languages |-> <<"fr">>]>>,
                <<[name |-> "ben", languages |-> <<>>]>>>>}]

MCWords ==
  Signs \cup KnownCommands
  \cup {"a", "audio_output_method", "log_level", "synthesis_voice", "language",
        "rate", "colour", "server", "alsa", "anna", "ben", "de", "en", "fr",
        "NULL", "fast", "x", "WHAT", "1", "3", "7"}

Written(letters, max) == UNION {[1..n -> letters] : n \in 0..max}

Line(key, value) == <<key, "=", value>>

Anna == Block("SET", <<Line("synthesis_voice", "anna"), Line("language", "de")>>)
Hello == Message(<<"a">>, 1)

\* A message with an index mark anywhere in it, between settings.
AboutText(texts) ==
  {Talk({Anna, Message(t, n)}, {<<1>>}, 2) :
     <<t, n>> \in {tn \in texts \X (0..4) : tn[2] <= Len(tn[1])}}

SettingLines ==
  {Line("synthesis_voice", "anna"), Line("synthesis_voice", "NULL"),
   Line("rate", "7"), Line("rate", "fast"), Line("colour", "3"), <<"rate">>}

AboutBlocks ==
  {Talk({Block("SET", b) : b \in Written(SettingLines, 2)}
        \cup {Block("AUDIO", <<Line("audio_output_method", "server")>>),
              Block("AUDIO", <<Line("audio_output_method", "alsa"), <<"x">>,
                               <<"QUIT">>>>),
              Block("LOGLEVEL", <<Line("log_level", "7")>>),
              Block("LOGLEVEL", <<Line("log_level", "x"), <<"STOP">>,
                                  Line("log_level", "1")>>)},
        {<<1>>}, 2)}

AboutAudio ==
  {Talk({Plain("INIT"), Hello}, Written({125, 10, 93, 42, 65}, 3), 2)}

AboutOrder ==
  {Talk({Plain(c) : c \in {"INIT", "LIST_VOICES", "STOP", "PAUSE", "QUIT", "WHAT"}}
        \cup {Anna, Hello}, {<<1>>}, 3)}

\* Too short for a line of its own that is a dot after a space.
MCTalks ==
  AboutText(Written({"a", ".", "blank", "newline", "<", "&", "lt"}, 2))
  \cup AboutText(Written({".", "blank", "newline"}, 3))
  \cup AboutBlocks \cup AboutAudio \cup AboutOrder

\* Not too short.
DottedTalks == AboutText(Written({".", "blank", "newline"}, 4))
=============================================================================

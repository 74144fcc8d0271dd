--------------------------- MODULE ClientPrograms ---------------------------
(***************************************************************************)
(* The programs that hold a WyomingClient: any that calls the library as   *)
(* it likes, the speech-dispatcher module, and cw-say.  One of them runs,  *)
(* or the speech-dispatcher module is looked at from its other side, where *)
(* it reads lines (SpeechdDialogue).                                       *)
(***************************************************************************)
EXTENDS SpeechdModule, CwSay, SpeechdDialogue

CONSTANT MaxLibraryCalls  \* bound: calls a program of the first kind makes

VARIABLE program

programVars == <<program, clientVars, moduleVars, sayVars, dialogueVars>>

ProgramsTypeOK == ModuleTypeOK /\ SayTypeOK

ProgramsInit ==
  /\ program \in {"library", "speechd", "cw-say", "dialogue"}
  /\ Init
  /\ DialogueInit /\ (program # "dialogue" => talk = Silence)
  /\ IF program = "cw-say" THEN SayInit
     ELSE /\ args = [list |-> FALSE, to_file |-> FALSE, wav |-> FALSE,
                     timeout |-> FALSE]
          /\ removable = FALSE /\ say = "text" /\ exit = "none"
          /\ file = "none" /\ output = <<>>
          /\ header_written = FALSE /\ write_error = FALSE

Library ==
  /\ program = "library"
  /\ Next /\ call' <= MaxLibraryCalls
  /\ UNCHANGED <<program, moduleVars, sayVars, dialogueVars>>

Speechd ==
  /\ program = "speechd"
  /\ ModuleNext
  /\ UNCHANGED <<program, sayVars, dialogueVars>>

Say ==
  /\ program = "cw-say"
  /\ SayNext
  /\ UNCHANGED <<program, moduleVars, dialogueVars>>

Dialogue ==
  /\ program = "dialogue"
  /\ DialogueNext
  /\ UNCHANGED <<program, clientVars, moduleVars, sayVars>>

As(which, A) == program = which /\ A /\ UNCHANGED <<program, dialogueVars>>

\* The programs run and await their calls.  The server's models answer and its
\* handler is polled (Connection!Fairness), except that the server of cw-say,
\* whose timer fires, may be silent for ever.
ProgramsFairness ==
  /\ WF_programVars(As("library", ClientReads /\ UNCHANGED <<moduleVars, sayVars>>))
  /\ WF_programVars(As("library", Server /\ UNCHANGED <<moduleVars, sayVars>>))
  /\ WF_programVars(As("speechd", Speaking /\ UNCHANGED sayVars))
  /\ WF_programVars(As("speechd", Server /\ UNCHANGED <<moduleVars, sayVars>>))
  /\ WF_programVars(As("cw-say", Saying /\ UNCHANGED moduleVars))
  /\ WF_programVars(As("cw-say", TimesOut /\ UNCHANGED moduleVars))

ProgramsSpec ==
  /\ ProgramsInit /\ [][Library \/ Speechd \/ Say \/ Dialogue]_programVars
  /\ ProgramsFairness

\* A call comes to an end, whether the server answers, fails or goes away; and
\* so does a message of speech-dispatcher, retried or not.
CallReturns ==
  /\ program # "cw-say" /\ step # "idle" ~> step = "idle"
  /\ MessageEnds
=============================================================================

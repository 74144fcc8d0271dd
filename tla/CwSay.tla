------------------------------- MODULE CwSay -------------------------------
(***************************************************************************)
(* The command line client cw-say (src/crates/cw-say/src/lib.rs): one call *)
(* of WyomingClient, whose audio goes to standard output as it comes or to *)
(* a file when all of it has come.  Writes to either are not awaited, so a *)
(* timeout does not cut them short.                                        *)
(***************************************************************************)
EXTENDS WyomingClient, SequencesExt

VARIABLES
  args,    \* list: --list-voices or --list-languages; to_file, wav, timeout
  removable, \* what is at the output path can be removed
  say,     \* where the program is
  exit,    \* its exit status
  file,    \* what is at the output path
  output,  \* what was written to standard output
  header_written, write_error

sayVars == <<args, removable, say, exit, file, output, header_written,
             write_error>>

SayArgs == [list : BOOLEAN, to_file : BOOLEAN, wav : BOOLEAN, timeout : BOOLEAN]

SayTypeOK ==
  /\ args \in SayArgs /\ removable \in BOOLEAN
  /\ say \in {"text", "connect", "request", "call", "create", "write", "remove",
              "done"}
  /\ exit \in {"none", "ok", "error"}
  /\ say = "done" <=> exit # "none"
  /\ file \in {"none", "old", "part", "whole"}
  /\ output \in Seq({"header", "empty header", "chunk"})

SayInit ==
  /\ args \in SayArgs /\ removable \in BOOLEAN
  /\ say = "text" /\ exit = "none"
  /\ file \in {"none", "old"}
  /\ output = <<>> /\ header_written = FALSE /\ write_error = FALSE

ExitWith(status) == say' = "done" /\ exit' = status

-----------------------------------------------------------------------------
\* resolve_text, before the connection is made; an empty text is refused.
ResolveText ==
  /\ say = "text"
  /\ \/ say' = "connect" /\ UNCHANGED exit
     \/ ~args.list /\ ExitWith("error")
  /\ UNCHANGED <<clientVars, args, removable, file, output, header_written,
                 write_error>>

ConnectClient ==
  /\ say = "connect"
  /\ Connect
  /\ say' = "request"
  /\ UNCHANGED <<args, removable, exit, file, output, header_written,
                 write_error>>

\* Refused, or not there within --timeout or DEFAULT_CONNECT_TIMEOUT.
ConnectFails ==
  /\ say = "connect"
  /\ ExitWith("error")
  /\ UNCHANGED <<clientVars, args, removable, file, output, header_written,
                 write_error>>

Request ==
  /\ say = "request"
  /\ Send(IF args.list THEN "describe" ELSE "synthesize")
  /\ say' = "call"
  /\ UNCHANGED <<args, removable, exit, file, output, header_written,
                 write_error>>

\* Mutant of MayTimeOut: only the connection attempt is timed.
MayTimeOutUnasked == FALSE

MayTimeOut == args.timeout

\* with_optional_timeout: the call is dropped where it is, and the connection
\* with it.
TimesOut ==
  /\ say \in {"request", "call"} /\ MayTimeOut
  /\ ExitWith("error")
  /\ UNCHANGED <<clientVars, args, removable, file, output, header_written,
                 write_error>>

-----------------------------------------------------------------------------
\* describe, synthesize and synthesize_streaming; the chunks of a reply that
\* goes to a file, or of which a write has failed, are only read.
Read ==
  /\ say = "call"
  /\ \/ ExpectResponse \/ Return
     \/ ReadChunk /\ (args.to_file \/ write_error)
  /\ UNCHANGED sayVars

\* Mutant of HeaderFirst: the flag is not set.
HeaderEachTime ==
  IF args.wav THEN <<"header">> ELSE <<>>

\* Before the first chunk, with sizes that say: until the end.
HeaderFirst ==
  IF args.wav /\ ~header_written THEN <<"header">> ELSE <<>>

\* The callback of synthesize_to_stdout.
Play ==
  /\ say = "call" /\ ~args.to_file /\ ~write_error
  /\ ReadChunk
  /\ \/ /\ output' = output \o HeaderFirst \o <<"chunk">>
        /\ header_written' = args.wav
        /\ UNCHANGED write_error
     \/ /\ write_error' = TRUE
        /\ UNCHANGED header_written
        /\ output' \in {output, output \o HeaderFirst}
  /\ UNCHANGED <<args, removable, say, exit, file>>

Returned == say = "call" /\ step = "idle"

CallFailed ==
  /\ Returned /\ result # "ok"
  /\ ExitWith("error")
  /\ UNCHANGED <<clientVars, args, removable, file, output, header_written,
                 write_error>>

Listed ==
  /\ Returned /\ result = "ok" /\ args.list
  /\ ExitWith("ok")
  /\ UNCHANGED <<clientVars, args, removable, file, output, header_written,
                 write_error>>

PlayedStatus == IF write_error THEN "error" ELSE "ok"

\* synthesize_to_stdout; without any audio the header is still to be written.
Played ==
  /\ Returned /\ result = "ok" /\ ~args.list /\ ~args.to_file
  /\ LET late == args.wav /\ ~header_written /\ ~write_error
     IN  \/ /\ ExitWith(PlayedStatus)
            /\ output' = IF late THEN Append(output, "empty header") ELSE output
         \/ late /\ ExitWith("error") /\ UNCHANGED output
  /\ UNCHANGED <<clientVars, args, removable, file, header_written,
                 write_error>>

-----------------------------------------------------------------------------
(***************************************************************************)
(* synthesize_to_file, and write_response_to_file                          *)
(***************************************************************************)
Synthesized ==
  /\ Returned /\ result = "ok" /\ ~args.list /\ args.to_file
  /\ say' = "create"
  /\ UNCHANGED <<clientVars, args, removable, exit, file, output,
                 header_written, write_error>>

\* File::create truncates what is there.
CreateFile ==
  /\ say = "create"
  /\ \/ file' = "part" /\ say' = "write"
     \/ say' = "remove" /\ UNCHANGED file
  /\ UNCHANGED <<clientVars, args, removable, exit, output, header_written,
                 write_error>>

WriteFile ==
  /\ say = "write"
  /\ file' = "whole"
  /\ ExitWith("ok")
  /\ UNCHANGED <<clientVars, args, removable, output, header_written,
                 write_error>>

\* Mutant of AfterFailedWrite: the error is returned with `?'.
AfterFailedWriteLeave == "done"

AfterFailedWrite == "remove"

\* A write fails, or the audio is too large for a WAV file.
WriteFileFails ==
  /\ say = "write"
  /\ say' = AfterFailedWrite
  /\ exit' = IF say' = "done" THEN "error" ELSE "none"
  /\ UNCHANGED <<clientVars, args, removable, file, output, header_written,
                 write_error>>

\* Whatever is at the path is removed, if that can be.
RemoveOutput ==
  /\ say = "remove"
  /\ file' = IF removable THEN "none" ELSE file
  /\ ExitWith("error")
  /\ UNCHANGED <<clientVars, args, removable, output, header_written,
                 write_error>>

-----------------------------------------------------------------------------
Saying ==
  \/ ConnectClient \/ ConnectFails \/ Request \/ Read \/ Play
  \/ CallFailed \/ Listed \/ Played
  \/ Synthesized \/ CreateFile \/ WriteFile \/ WriteFileFails \/ RemoveOutput

SayNext ==
  \/ ResolveText \/ Saying \/ TimesOut
  \/ (Server \/ ServerCloses) /\ UNCHANGED sayVars

-----------------------------------------------------------------------------
(***************************************************************************)
(* Properties                                                              *)
(***************************************************************************)
Chunks(reply) == Cardinality({i \in DOMAIN reply : reply[i] = "audio-chunk"})

\* Standard output is a header, where one was asked for, and then the audio
\* as it came: at every moment, so that a player on the pipe can follow; and
\* it is all of the server's reply when the program ends well.
SaysTheReply ==
  /\ output # <<>> /\ args.wav => Head(output) \in {"header", "empty header"}
  /\ \A i \in 2..Len(output) : output[i] = "chunk"
  /\ exit = "ok" /\ ~args.list /\ ~args.to_file =>
       LET audio == [i \in 1..Chunks(replies[call]) |-> "chunk"]
       IN  output = IF ~args.wav THEN audio
                    ELSE IF audio = <<>> THEN <<"empty header">>
                    ELSE <<"header">> \o audio

\* The output file is whole when the program ends well.  When it fails it has
\* left no part of one (synthesize_to_file), if what it made can be removed.
FileIsWhole ==
  /\ exit = "ok" /\ args.to_file /\ ~args.list => file = "whole"
  /\ exit = "error" /\ removable => file \in {"none", "old"}

\* With --timeout the program ends, though the server may never answer.
SayEnds == say = "request" /\ args.timeout ~> say = "done"
=============================================================================

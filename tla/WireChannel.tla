----------------------------- MODULE WireChannel -----------------------------
(***************************************************************************)
(* What write_event and read_event promise together: a channel of events.  *)
(* Events arrive in the order they were sent, none twice, none altered and *)
(* none made up, until the reading ends; it ends with an error only where  *)
(* the sender's words or the connection were broken, and without one only  *)
(* between two events.                                                     *)
(***************************************************************************)
EXTENDS Naturals, Sequences

CONSTANTS Messages,       \* what may be sent
          Meaning(_, _),  \* the event a message stands for, and its place
          Sound(_),       \* it stands for one
          Short(_)        \* its header line is no longer than is read

\* The errors of ProtocolError a reader can get: the connection's, by the
\* stage they come at, and those of what it was sent.
IoErrors == {"ReadHeader", "ReadData", "ReadPayload"}

MessageErrors ==
  {"HeaderTooLong", "HeaderNotUtf8", "HeaderInvalidJson", "DataLengthExceeded",
   "PayloadLengthExceeded", "NonObjectData", "InvalidEventData"}

Endings == {"", "eof", "cancelled"} \cup IoErrors \cup MessageErrors

VARIABLES sent,    \* messages sent
          begun,   \* something of the next message has come
          got,     \* events received
          ending,  \* how the reading ended, "" as long as it goes on
          broken   \* the sender is gone

vars == <<sent, begun, got, ending, broken>>

Init ==
  /\ sent = <<>> /\ begun = FALSE /\ got = <<>>
  /\ ending = "" /\ broken = FALSE

Send(m) == sent' = Append(sent, m) /\ UNCHANGED <<begun, got, ending, broken>>

\* The first of the next message comes.
Arrive ==
  /\ ~begun /\ Len(got) < Len(sent) /\ begun' = TRUE
  /\ UNCHANGED <<sent, got, ending, broken>>

\* A header line that is too long by its newline passes when the newline is
\* cut off.  The message after this one may have begun to come as well.
Receive ==
  /\ ending = "" /\ begun /\ Len(got) < Len(sent)
  /\ Sound(sent[Len(got) + 1])
  /\ Short(sent[Len(got) + 1]) \/ broken
  /\ got' = Append(got, Meaning(Len(got) + 1, sent[Len(got) + 1]))
  /\ begun' \in {FALSE, Len(got') < Len(sent)}
  /\ UNCHANGED <<sent, ending, broken>>

Break == broken' = TRUE /\ UNCHANGED <<sent, begun, got, ending>>

\* The end of the stream between two events, which alone is no error; at most
\* the last message, of which nothing came, is lost.
EndCleanly ==
  /\ ending = "" /\ broken /\ ending' = "eof"
  /\ ~begun /\ Len(got) >= Len(sent) - 1
  /\ UNCHANGED <<sent, begun, got, broken>>

\* The connection fails.
EndByFailure ==
  /\ ending = "" /\ broken /\ ending' \in IoErrors
  /\ UNCHANGED <<sent, begun, got, broken>>

\* The next message is none, or was cut off in its header.
EndByMessage ==
  /\ ending = "" /\ begun /\ Len(got) < Len(sent)
  /\ \/ /\ ~(Sound(sent[Len(got) + 1]) /\ Short(sent[Len(got) + 1]))
        /\ ending' \in MessageErrors
     \/ broken /\ ending' \in {"HeaderNotUtf8", "HeaderInvalidJson"}
  /\ UNCHANGED <<sent, begun, got, broken>>

\* The receiver gives up.
Cancel ==
  /\ ending = "" /\ ending' = "cancelled"
  /\ UNCHANGED <<sent, begun, got, broken>>

Next ==
  \/ \E m \in Messages : Send(m)
  \/ Arrive \/ Receive \/ Break
  \/ EndCleanly \/ EndByFailure \/ EndByMessage \/ Cancel

Spec == Init /\ [][Next]_vars
=============================================================================

--------------------------- MODULE SpeechService ---------------------------
(***************************************************************************)
(* What one loaded model promises its callers (the doc comments of         *)
(* ModelRuntime, TtsHandle and AsrHandle in engine/runtime.rs), without    *)
(* saying how: requests are served one at a time, in the order they were   *)
(* accepted; a caller hears the pieces of its own answer, never more than  *)
(* were made; and it is told exactly once how the answer ended -- `ended'  *)
(* only when every piece of an unspoiled answer has been heard.            *)
(*                                                                         *)
(* ModelThread implements this specification (ModelThread!Service).        *)
(***************************************************************************)
EXTENDS Naturals, Sequences

CONSTANTS Requests,     \* the requests that callers have in hand
          NoRequest     \* "the model serves nobody"; not in Requests

VARIABLES line,      \* accepted requests not yet begun, oldest first
          active,    \* the request being served, or NoRequest
          made,      \* pieces of the answer made so far
          spoiled,   \* whether making the answer failed
          heard,     \* pieces the caller has received
          verdict    \* what the caller was told: "none" while undecided

vars == <<line, active, made, spoiled, heard, verdict>>

Verdicts == {"none", "ended", "failed", "dropped"}

TypeOK ==
  /\ line \in Seq(Requests)
  /\ active \in Requests \cup {NoRequest}
  /\ made \in [Requests -> Nat]
  /\ spoiled \in [Requests -> BOOLEAN]
  /\ heard \in [Requests -> Nat]
  /\ verdict \in [Requests -> Verdicts]

Init ==
  /\ line = <<>>
  /\ active = NoRequest
  /\ made = [r \in Requests |-> 0]
  /\ spoiled = [r \in Requests |-> FALSE]
  /\ heard = [r \in Requests |-> 0]
  /\ verdict = [r \in Requests |-> "none"]

InLine(r) == \E i \in 1..Len(line) : line[i] = r

\* Nothing of an earlier exchange under the request's name is left.
Fresh(r) == ~InLine(r) /\ active # r /\ made[r] = 0 /\ verdict[r] = "none"

Accept(r) ==
  /\ Fresh(r)
  /\ line' = Append(line, r)
  /\ UNCHANGED <<active, made, spoiled, heard, verdict>>

\* The answer is already known: it is made without the model.
Recall(r) ==
  /\ Fresh(r)
  /\ made' = [made EXCEPT ![r] = 1]
  /\ UNCHANGED <<line, active, spoiled, heard, verdict>>

Begin ==
  /\ active = NoRequest /\ line # <<>>
  /\ active' = Head(line) /\ line' = Tail(line)
  /\ UNCHANGED <<made, spoiled, heard, verdict>>

\* An answer its caller was told had ended does not grow.
Make ==
  /\ active # NoRequest
  /\ verdict[active] # "ended" /\ ~spoiled[active]
  /\ made' = [made EXCEPT ![active] = @ + 1]
  /\ UNCHANGED <<line, active, spoiled, heard, verdict>>

Spoil ==
  /\ active # NoRequest
  /\ verdict[active] # "ended" /\ ~spoiled[active]
  /\ spoiled' = [spoiled EXCEPT ![active] = TRUE]
  /\ UNCHANGED <<line, active, made, heard, verdict>>

Rest ==
  /\ active # NoRequest
  /\ active' = NoRequest
  /\ UNCHANGED <<line, made, spoiled, heard, verdict>>

\* The caller receives the next piece, and may be done with that piece.
Hear(r) ==
  /\ verdict[r] = "none" /\ heard[r] < made[r]
  /\ heard' = [heard EXCEPT ![r] = @ + 1]
  /\ \/ verdict' = verdict
     \/ verdict' = [verdict EXCEPT ![r] = "failed"]
     \/ /\ heard'[r] = made[r] /\ ~spoiled[r] /\ ~InLine(r)
        /\ verdict' = [verdict EXCEPT ![r] = "ended"]
  /\ UNCHANGED <<line, active, made, spoiled>>

Conclude(r) ==
  /\ verdict[r] = "none"
  /\ \/ verdict' = [verdict EXCEPT ![r] = "failed"]
     \/ verdict' = [verdict EXCEPT ![r] = "dropped"]
     \/ /\ heard[r] = made[r] /\ ~spoiled[r] /\ ~InLine(r) /\ active # r
        /\ verdict' = [verdict EXCEPT ![r] = "ended"]
  /\ UNCHANGED <<line, active, made, spoiled, heard>>

Forget(r) ==
  /\ verdict[r] # "none" /\ ~InLine(r) /\ active # r
  /\ made' = [made EXCEPT ![r] = 0]
  /\ spoiled' = [spoiled EXCEPT ![r] = FALSE]
  /\ heard' = [heard EXCEPT ![r] = 0]
  /\ verdict' = [verdict EXCEPT ![r] = "none"]
  /\ UNCHANGED <<line, active>>

Next ==
  \/ Begin \/ Make \/ Spoil \/ Rest
  \/ \E r \in Requests :
       Accept(r) \/ Recall(r) \/ Hear(r) \/ Conclude(r) \/ Forget(r)

Spec == Init /\ [][Next]_vars
=============================================================================

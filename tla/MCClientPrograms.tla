-------------------------- MODULE MCClientPrograms --------------------------
(***************************************************************************)
(* ClientPrograms for model checking, with the talks of MCSpeechdDialogue. *)
(***************************************************************************)
EXTENDS ClientPrograms, MCSpeechdDialogue
=============================================================================

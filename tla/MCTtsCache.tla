----------------------------- MODULE MCTtsCache -----------------------------
(***************************************************************************)
(* TtsCache for model checking, in two uses: calls one after the other, on *)
(* waveforms of several sizes, and two calls at a time that fail and crash.*)
(***************************************************************************)
EXTENDS TtsCache, TLC

CONSTANTS k1, k2, k3, a, b, only

OneByOne ==
  [tasks |-> {only}, keys |-> {k1, k2, k3}, sizes |-> {0, 1, 2},
   max_bytes |-> 3, faults |-> FALSE]

AtOnce ==
  [tasks |-> {a, b}, keys |-> {k1, k2}, sizes |-> {1}, max_bytes |-> 1,
   faults |-> TRUE]

BothUses == {OneByOne, AtOnce}

\* Two of the digests play the same part in either use, and so do two calls.
AnyKeyAnyTask == Permutations({k1, k2}) \cup Permutations({a, b})
=============================================================================

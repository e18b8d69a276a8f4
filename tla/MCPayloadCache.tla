--------------------------- MODULE MCPayloadCache ---------------------------
(* An instance of PayloadCache for TLC. *)
EXTENDS PayloadCache, TLC

Symmetric ==
  Permutations(Process) \cup Permutations(Version) \cup Permutations(Content)
=============================================================================

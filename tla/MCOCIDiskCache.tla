--------------------------- MODULE MCOCIDiskCache ---------------------------
(* Small instances of OCIDiskCache for TLC. *)
EXTENDS OCIDiskCache, TLC

Symmetry == Permutations(Session) \cup Permutations(Digest)
=============================================================================

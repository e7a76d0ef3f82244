--------------------------- MODULE MCUndoDatabase ---------------------------
(***************************************************************************)
(* Model-checking instance of UndoDatabase.                                *)
(***************************************************************************)
EXTENDS UndoDatabase, TLC

CONSTANTS k1, k2, d1, d2, idx

MCKey == {k1, k2}
MCData == {d1, d2}
MCIndex == {idx}
MCMaxSizes == {2, 3}
Symmetry == Permutations(MCKey) \cup Permutations(MCData)
=============================================================================

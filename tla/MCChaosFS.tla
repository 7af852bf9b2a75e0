----------------------------- MODULE MCChaosFS -----------------------------
(* Small instances of the file system: an empty file, one of a block, one   *)
(* of two blocks.                                                           *)
EXTENDS ChaosFS, TLC

CONSTANTS x, y

Renamings == Permutations(Paths)

SmallData == {<< >>, << x >>, << y, y >>}
=============================================================================

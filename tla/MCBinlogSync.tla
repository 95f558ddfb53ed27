---------------------------- MODULE MCBinlogSync ----------------------------
(* Small instances of BinlogSync for TLC.                                  *)
EXTENDS BinlogSync, TLC

CONSTANTS i1, i2
\* Two items of different length.
MCLength == i1 :> 1 @@ i2 :> 2

Symmetry == Permutations(Task)
=============================================================================

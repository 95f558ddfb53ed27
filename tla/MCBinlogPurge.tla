---------------------------- MODULE MCBinlogPurge ---------------------------
(* Small instances of BinlogPurge for TLC.                                 *)
EXTENDS BinlogPurge

Symmetry == Permutations(Task) \cup Permutations(Sender) \cup Permutations(Name)
=============================================================================

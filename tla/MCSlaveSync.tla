----------------------------- MODULE MCSlaveSync ----------------------------
(* Small instances of SlaveSync for TLC.                                   *)
EXTENDS SlaveSync, TLC

\* The other nodes are interchangeable.
Symmetry == Permutations(Node)
=============================================================================

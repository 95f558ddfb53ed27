-------------------------- MODULE MCBinlogSendPool --------------------------
(* Small instances of BinlogSendPool for TLC.                              *)
EXTENDS BinlogSendPool

\* Addresses, senders and names are interchangeable.
Symmetry == Permutations(Task) \cup Permutations(Sender) \cup Permutations(Name)
=============================================================================

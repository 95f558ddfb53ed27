----------------------------- MODULE MCFailover -----------------------------
(* Nodes and short files: items of one and of two units.                   *)
EXTENDS Failover

CONSTANTS n1, n2, Lengths

MCItem == [epoch : 1..MaxEpoch, length : Lengths]
MCLength == [i \in MCItem |-> i.length]
=============================================================================

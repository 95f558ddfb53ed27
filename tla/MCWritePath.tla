---------------------------- MODULE MCWritePath ----------------------------
(* A partition's commands on small instances.                              *)
EXTENDS WritePath

CONSTANTS w1, w2, k1, v1, rcv, tag, nil, none
=============================================================================

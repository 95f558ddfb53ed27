----------------------------- MODULE MCNodeMeta -----------------------------
(* A data node and its meta servers on small instances.                    *)
EXTENDS NodeMeta

CONSTANTS m1, m2, t1
=============================================================================

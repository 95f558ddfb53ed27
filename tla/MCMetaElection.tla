--------------------------- MODULE MCMetaElection ---------------------------
(* The election on small instances.                                        *)
EXTENDS MetaElection

CONSTANTS s1, s2

=============================================================================

--------------------------- MODULE MCBinlogFormat ---------------------------
(* A binlog file of small blocks, its reader and the slave's copy.         *)
EXTENDS BinlogFormat
=============================================================================

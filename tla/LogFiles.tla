------------------------------ MODULE LogFiles ------------------------------
(***************************************************************************)
(* The shape of a binlog (src/common/zp_binlog.{h,cc}): numbered files of  *)
(* items.  A file maps the offset at which an item starts to the item, so  *)
(* two logs agree at a point when they have the same item there.           *)
(***************************************************************************)
EXTENDS Naturals

CONSTANTS
  Item,         \* binlog items: serialized client commands
  NoItem,       \* "no item starts here"
  Length,       \* the bytes an item takes in a file
  FileSize,     \* kBinlogSize: a file that exceeds it is closed
  MaxFilenum,   \* bound of the model: files
  MaxOffset     \* the largest file

ASSUME LogAssumption ==
  /\ NoItem \notin Item
  /\ Length \in [Item -> Nat \ {0}]
  /\ FileSize \in Nat
  /\ MaxFilenum \in Nat
  /\ MaxOffset \in Nat
  /\ \A i \in Item : FileSize + Length[i] <= MaxOffset

Filenum == 0 .. MaxFilenum
Offset == 0 .. MaxOffset
Point == [filenum: Filenum, offset: Offset]
File == [Offset -> Item \cup {NoItem}]
Log == [Filenum -> File]

Start(f) == [filenum |-> f, offset |-> 0]
EmptyFile == [o \in Offset |-> NoItem]
EmptyLog == [f \in Filenum |-> EmptyFile]

\* The point after item i at p: Version::Inc, then MaybeRoll.
After(p, i) ==
  IF p.offset + Length[i] > FileSize THEN Start(p.filenum + 1)
  ELSE [filenum |-> p.filenum, offset |-> p.offset + Length[i]]

ItemAt(log, p) == log[p.filenum][p.offset]
Write(log, p, i) == [log EXCEPT ![p.filenum][p.offset] = i]

\* What SetProducerStatus(f) leaves of a log that ends at p: the files before
\* f, or nothing when f is past the end.
CutAt(log, p, f) ==
  [g \in Filenum |-> IF p.filenum < f \/ g >= f THEN EmptyFile ELSE log[g]]
=============================================================================

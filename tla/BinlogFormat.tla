---------------------------- MODULE BinlogFormat ----------------------------
(***************************************************************************)
(* The bytes of a binlog file (src/common/zp_binlog.cc): items are cut into *)
(* records that do not cross blocks, a block that has no room for more than *)
(* a header is padded, and gaps are filled with empty records.  A sender's  *)
(* BinlogReader reads the master's file while BinlogWriter appends to it;   *)
(* every item and every gap it meets is written again by the slave, whose   *)
(* only check is that its own offset is that of the message                 *)
(* (CheckSyncOption).                                                       *)
(*                                                                         *)
(* Of the bytes there are the headers and what part of which item a record  *)
(* holds.  One file: rolling and purging are modelled in BinlogSync and     *)
(* BinlogPurge.  The two writers do the same, each on its own file.         *)
(***************************************************************************)
EXTENDS Naturals, Sequences, FiniteSets

CONSTANTS
  Block,    \* kBlockSize
  Header,   \* kHeaderSize
  Lengths,  \* lengths of items
  Blanks,   \* lengths of blanks that the master wrote while it was a slave
  MaxSize,  \* bound: the bytes of a file
  MaxFaults \* bound: damaged records, and crashes

ASSUME FormatAssumption ==
  /\ Header \in Nat \ {0}
  /\ Block \in Nat /\ Block > Header + 1
  /\ Lengths \subseteq Nat \ {0}
  /\ Blanks \subseteq Nat
  /\ MaxSize \in Nat /\ MaxFaults \in Nat

Copy == {"master", "slave"}

VARIABLES
  file,          \* queue_: the records of each file
  end,           \* the bytes in it
  block_offset,  \* block_offset_ of its writer
  pro_offset,    \* pro_offset_ of its Version
  writing,       \* the Put or PutBlank that is in progress
  reader,        \* the task of the sender: its position and the state of Consume
  msg,           \* what it read and the slave has not taken yet
  put,           \* history: the items of the master, and from where to where
  sent,          \* history: the items read since the task was created
  crossed,       \* history: the slave wrote a blank that does not fit its block
  overrun,       \* history: a task skipped a block that was not full yet
  faults         \* bound: faults so far

disk == <<file, end, block_offset, pro_offset, writing>>
stream == <<disk, reader, msg, put, sent, crossed, overrun, faults>>

Smaller(a, b) == IF a < b THEN a ELSE b

BlockStart(o) == (o \div Block) * Block

NoWrite == [kind |-> "none", item |-> 0, len |-> 0, left |-> 0, begin |-> FALSE,
            size |-> 0]
NoMsg == [kind |-> "none", at |-> 0, len |-> 0, content |-> << >>]
NoReader == [mode |-> "off", pos |-> 0, last |-> 0, size |-> 0,
             scratch |-> << >>, start |-> 0, todo |-> 0, offset |-> 0]

FormatInit ==
  /\ file = [c \in Copy |-> {}]
  /\ end = [c \in Copy |-> 0]
  /\ block_offset = [c \in Copy |-> 0]
  /\ pro_offset = [c \in Copy |-> 0]
  /\ writing = [c \in Copy |-> NoWrite]
  /\ reader = NoReader
  /\ msg = NoMsg
  /\ put = << >>
  /\ sent = {}
  /\ crossed = FALSE /\ overrun = FALSE
  /\ faults = 0

-----------------------------------------------------------------------------
(* BinlogWriter.                                                           *)

Write(c, kind, item, len) ==
  writing' = [writing EXCEPT ![c] =
    [kind |-> kind, item |-> item, len |-> len,
     left |-> IF kind = "blank" THEN len - Header ELSE len,
     begin |-> TRUE, size |-> 0]]

\* The client's command is logged: Binlog::Put, Produce.
Put(n) ==
  /\ writing["master"] = NoWrite
  /\ end["master"] + n + 2 * Header <= MaxSize
  /\ Write("master", "item", Len(put) + 1, n)
  /\ UNCHANGED <<file, end, block_offset, pro_offset, reader, msg, put, sent,
                 crossed, overrun, faults>>

\* Before it became the master it filled a gap of its own: Binlog::PutBlank.
PutBlank(n) ==
  /\ writing["master"] = NoWrite
  /\ reader.mode = "off"
  /\ n >= Header
  /\ end["master"] + n + Header <= MaxSize
  /\ Write("master", "blank", 0, n)
  /\ UNCHANGED <<file, end, block_offset, pro_offset, reader, msg, put, sent,
                 crossed, overrun, faults>>

RecordType(w, n) ==
  IF w.kind = "blank" THEN "empty"
  ELSE IF w.begin THEN (IF w.left = n THEN "full" ELSE "first")
                  ELSE (IF w.left = n THEN "last" ELSE "middle")

\* A record of n bytes after the padding, and where that leaves the writer.
EmitPhysicalRecord(c, pad, b, n) ==
  LET w == writing[c] IN
  /\ file' = [file EXCEPT ![c] = @ \cup
       {[at |-> end[c] + pad, type |-> RecordType(w, n), len |-> n,
         item |-> w.item, from |-> w.len - w.left]}]
  /\ end' = [end EXCEPT ![c] = @ + pad + Header + n]
  /\ block_offset' = [block_offset EXCEPT ![c] = b + Header + n]
  /\ writing' = [writing EXCEPT ![c] =
       [w EXCEPT !.left = @ - n, !.begin = FALSE, !.size = @ + pad + Header + n]]

\* Mutant of AppendRecord: a block that has room for just a header is not padded.
AppendRecordNoPad(c) ==
  LET leftover == Block - block_offset[c]
      pad == IF leftover < Header THEN leftover ELSE 0
      b == IF leftover < Header THEN 0 ELSE block_offset[c]
  IN /\ writing[c].begin \/ writing[c].left > 0
     /\ EmitPhysicalRecord(c, pad, b, Smaller(writing[c].left, Block - b - Header))
     /\ UNCHANGED <<pro_offset, reader, msg, put, sent, crossed, overrun, faults>>

\* A round of the loop in Produce and in AppendBlank.
AppendRecord(c) ==
  LET leftover == Block - block_offset[c]
      pad == IF leftover <= Header THEN leftover ELSE 0
      b == IF leftover <= Header THEN 0 ELSE block_offset[c]
  IN /\ writing[c].begin \/ writing[c].left > 0
     /\ EmitPhysicalRecord(c, pad, b, Smaller(writing[c].left, Block - b - Header))
     /\ UNCHANGED <<pro_offset, reader, msg, put, sent, crossed, overrun, faults>>

Written(w) == w # NoWrite /\ ~w.begin /\ w.left = 0

\* Version::Inc: only now a reader may look at what was written.
Inc(c) ==
  /\ Written(writing[c])
  /\ pro_offset' = [pro_offset EXCEPT ![c] = @ + writing[c].size]
  /\ writing' = [writing EXCEPT ![c] = NoWrite]
  /\ put' = IF c = "master" /\ writing[c].kind = "item"
            THEN Append(put, [len |-> writing[c].len, from |-> pro_offset[c],
                              to |-> pro_offset'[c]])
            ELSE put
  /\ UNCHANGED <<file, end, block_offset, reader, msg, sent, crossed, overrun, faults>>

-----------------------------------------------------------------------------
(* BinlogReader.                                                           *)

\* The padding at the end of a block is skipped ...
NextRecord(r) ==
  IF Block - r.last <= Header
  THEN [r EXCEPT !.pos = @ + Block - r.last, !.size = @ + Block - r.last,
                 !.last = 0]
  ELSE r

\* ... and a record is read: ReadPhysicalRecord.  Where no record starts there
\* is a header of no known type.
ReadPhysicalRecord(p) ==
  IF \E rec \in file["master"] : rec.at = p
  THEN CHOOSE rec \in file["master"] : rec.at = p
  ELSE [at |-> p, type |-> "bad", len |-> 0, item |-> 0, from |-> 0]

\* The status of Consume after a record of that type, "more" if it goes on.
Consumed(type, inside) ==
  CASE type = "full"   -> IF inside THEN "incomplete" ELSE "ok"
    [] type = "first"  -> IF inside THEN "incomplete" ELSE "more"
    [] type = "middle" -> IF inside THEN "more" ELSE "incomplete"
    [] type = "last"   -> IF inside THEN "ok" ELSE "incomplete"
    [] type = "empty"  -> "incomplete"
    [] OTHER           -> "ioerror"

SkipNextBlock(r) ==
  [r EXCEPT !.pos = @ + Block - r.last, !.size = @ + Block - r.last, !.last = 0]

\* Mutant of SeekOn: the rest of an item at the start of the block ends it.
SeekOnStrict(status, r) ==
  LET s == IF status # "ok" THEN SkipNextBlock(r) ELSE r IN
  /\ reader' = IF status = "eof" \/ s.size > s.todo
               THEN [NoReader EXCEPT !.mode = "failed", !.start = s.start]
               ELSE IF s.size = s.todo
               THEN [s EXCEPT !.mode = "serve", !.size = 0, !.todo = 0,
                              !.scratch = << >>]
               ELSE [s EXCEPT !.todo = @ - s.size, !.size = 0, !.scratch = << >>]
  /\ UNCHANGED <<msg, sent>>

\* Consume has returned: Seek goes on until the offset is reached, ...
SeekOn(status, r) ==
  LET s == IF status = "ioerror" THEN SkipNextBlock(r) ELSE r IN
  /\ reader' = IF status = "eof" \/ s.size > s.todo
               THEN [NoReader EXCEPT !.mode = "failed", !.start = s.start]
               ELSE IF s.size = s.todo
               THEN [s EXCEPT !.mode = "serve", !.size = 0, !.todo = 0,
                              !.scratch = << >>]
               ELSE [s EXCEPT !.todo = @ - s.size, !.size = 0, !.scratch = << >>]
  /\ UNCHANGED <<msg, sent>>

\* ... ProcessTask has something to send: an item, or a gap to be skipped.
ProcessEnds(status, r) ==
  LET s == IF status = "ioerror" THEN SkipNextBlock(r) ELSE r
      back == [s EXCEPT !.mode = "serve", !.size = 0, !.scratch = << >>]
  IN IF status = "eof"
     THEN reader' = back /\ UNCHANGED <<msg, sent>>
     ELSE /\ reader' = [back EXCEPT !.offset = @ + s.size]
          /\ msg' = [kind |-> IF status = "ok" THEN "cmd" ELSE "skip",
                     at |-> s.offset, len |-> s.size,
                     content |-> IF status = "ok" THEN s.scratch ELSE << >>]
          /\ sent' = IF status = "ok" THEN sent \cup {s.scratch[1].item} ELSE sent

\* A round of the loop in Consume, for Seek and for ProcessTask.
Consume ==
  LET r == NextRecord(reader)
      rec == ReadPhysicalRecord(r.pos)
      got == [r EXCEPT !.pos = @ + Header + rec.len,
                       !.last = @ + Header + rec.len,
                       !.size = @ + Header + rec.len,
                       !.scratch = Append(@, rec)]
      status == IF r.pos >= end["master"] THEN "eof"
                ELSE Consumed(rec.type, r.scratch # << >>)
      after == IF status = "eof" THEN r ELSE got
  IN /\ reader.mode \in {"seek", "consume"}
     /\ \/ /\ status = "more"
           /\ reader' = got
           /\ UNCHANGED <<msg, sent>>
        \/ /\ status # "more"
           /\ IF reader.mode = "seek" THEN SeekOn(status, after)
                                      ELSE ProcessEnds(status, after)
     /\ overrun' = (overrun \/ reader'.offset > pro_offset["master"])
     /\ UNCHANGED <<disk, put, crossed, faults>>

-----------------------------------------------------------------------------
(* The sender's task and the slave.                                        *)

\* A slave asks for its end: AddBinlogSendTask, Init, Seek.
Seek ==
  LET o == pro_offset["slave"] IN
  /\ reader.mode \in {"off", "failed"}
  /\ writing["slave"] = NoWrite
  /\ o <= pro_offset["master"]
  /\ reader' = [NoReader EXCEPT !.mode = IF o % Block = 0 THEN "serve" ELSE "seek",
                                !.pos = BlockStart(o), !.start = o,
                                !.todo = o % Block, !.offset = o]
  /\ sent' = {}
  /\ UNCHANGED <<disk, msg, put, crossed, overrun, faults>>

\* Mutant of ProcessTask: the producer's position is not asked for.
ProcessTaskBlind ==
  /\ reader.mode = "serve"
  /\ msg = NoMsg
  /\ reader.offset < MaxSize
  /\ reader' = [reader EXCEPT !.mode = "consume"]
  /\ UNCHANGED <<disk, msg, put, sent, crossed, overrun, faults>>

\* There is more than what was read: "No more binlog item in current task,
\* switch to others" otherwise.
ProcessTask ==
  /\ reader.mode = "serve"
  /\ msg = NoMsg
  /\ reader.offset # pro_offset["master"]
  /\ reader' = [reader EXCEPT !.mode = "consume"]
  /\ UNCHANGED <<disk, msg, put, sent, crossed, overrun, faults>>

Size(content) == content[Len(content)].from + content[Len(content)].len

\* A blank of that length is one record of the block it starts in.
Fits(b, len) == Block - b > Header /\ b + len <= Block

\* DoBinlogCommand and DoBinlogSkip; a message for another offset is discarded.
DoBinlog ==
  /\ msg # NoMsg
  /\ writing["slave"] = NoWrite
  /\ msg' = NoMsg
  /\ IF msg.at # pro_offset["slave"] \/ (msg.kind = "skip" /\ msg.len < Header)
     THEN UNCHANGED <<writing, crossed>>
     ELSE IF msg.kind = "cmd"
     THEN /\ Write("slave", "item", msg.content[1].item, Size(msg.content))
          /\ UNCHANGED crossed
     ELSE /\ Write("slave", "blank", 0, msg.len)
          /\ crossed' = (crossed \/ ~Fits(block_offset["slave"], msg.len))
  /\ UNCHANGED <<file, end, block_offset, pro_offset, reader, put, sent, overrun, faults>>

\* A record of the master's file is damaged on the disk.
Damage ==
  /\ faults < MaxFaults
  /\ \E rec \in file["master"] :
       /\ rec.at < pro_offset["master"]
       /\ rec.type # "bad"
       /\ file' = [file EXCEPT !["master"] =
                     (@ \ {rec}) \cup {[rec EXCEPT !.type = "bad"]}]
  /\ faults' = faults + 1
  /\ UNCHANGED <<end, block_offset, pro_offset, writing, reader, msg, put, sent,
                 crossed, overrun>>

\* Mutant of Load: the writer of a file that exists starts at a block.
LoadZero(c) == 0

\* BinlogWriter::Load, of a file that is opened at pro_offset_.
Load(c) == pro_offset[c] % Block

\* The process dies; Binlog::Init opens the file where the manifest says that it
\* ends.  The connection between the two is gone with either.
Crash(c) ==
  /\ faults < MaxFaults
  /\ file' = [file EXCEPT ![c] = {rec \in @ : rec.at < pro_offset[c]}]
  /\ end' = [end EXCEPT ![c] = pro_offset[c]]
  /\ block_offset' = [block_offset EXCEPT ![c] = Load(c)]
  /\ writing' = [writing EXCEPT ![c] = NoWrite]
  /\ reader' = NoReader
  /\ msg' = NoMsg
  /\ faults' = faults + 1
  /\ UNCHANGED <<pro_offset, put, sent, crossed, overrun>>

FormatNext ==
  \/ \E n \in Lengths : Put(n)
  \/ \E n \in Blanks : PutBlank(n)
  \/ \E c \in Copy : AppendRecord(c) \/ Inc(c) \/ Crash(c)
  \/ Seek \/ ProcessTask \/ Consume \/ DoBinlog
  \/ Damage

FormatSpec == FormatInit /\ [][FormatNext]_stream

-----------------------------------------------------------------------------
(* Properties.                                                             *)

Type == {"full", "first", "middle", "last", "empty", "bad"}

Record == [at: Nat, type: Type, len: Nat, item: Nat, from: Nat]

FormatTypeOK ==
  /\ file \in [Copy -> SUBSET Record]
  /\ end \in [Copy -> Nat]
  /\ pro_offset \in [Copy -> Nat]
  /\ block_offset \in [Copy -> 0..Block]
  /\ writing \in [Copy -> [kind: {"none", "item", "blank"}, item: Nat, len: Nat,
                           left: Nat, begin: BOOLEAN, size: Nat]]
  /\ reader \in [mode: {"off", "seek", "serve", "consume", "failed"}, pos: Nat,
                 last: 0..Block, size: Nat, scratch: Seq(Record), start: Nat,
                 todo: Nat, offset: Nat]
  /\ msg \in [kind: {"none", "cmd", "skip"}, at: Nat, len: Nat, content: Seq(Record)]
  /\ put \in Seq([len: Nat, from: Nat, to: Nat])
  /\ sent \subseteq 1..Len(put)
  /\ crossed \in BOOLEAN /\ overrun \in BOOLEAN
  /\ faults \in 0..MaxFaults

\* The fragments of one item, from its first byte to its last.
Whole(content, i) ==
  /\ content[1].from = 0
  /\ \A k \in 1..Len(content) :
       /\ content[k].item = i
       /\ k > 1 => content[k].from = content[k-1].from + content[k-1].len
  /\ Size(content) = put[i].len

\* Where the next record goes if the writer is at o.
Padded(o) == IF Block - (o % Block) <= Header THEN BlockStart(o) + Block ELSE o

\* "No more binlog item in current task, switch to others": a task sends nothing
\* that the writer has not finished.
OnlyFinished == msg.kind = "cmd" => msg.content[1].item \in 1..Len(put)

\* What a reader makes of the records while a writer appends to them is what was
\* put there, and it labels it with the offsets the writer gave it, unless it has
\* skipped the rest of a block that is being written, for damage in it: the place
\* of the producer is compared for equality only.
ReadBack ==
  ~overrun /\ msg.kind = "cmd" =>
    LET i == msg.content[1].item IN
    /\ i \in 1..Len(put)
    /\ Whole(msg.content, i)
    /\ Padded(msg.at) = Padded(put[i].from)
    /\ msg.at + msg.len = put[i].to

\* An item none of whose blocks holds a damaged record.
Intact(i) ==
  \A rec \in file["master"] :
    rec.type = "bad" =>
      BlockStart(rec.at) \notin {BlockStart(o) : o \in put[i].from..put[i].to - 1}

\* Damage and blanks cost a reader the items in the damaged blocks and no other, on
\* the same terms.
NoneLost ==
  ~overrun /\ reader.mode \in {"serve", "consume"} =>
    \A i \in 1..Len(put) :
      put[i].from >= reader.start /\ put[i].to <= reader.offset /\ Intact(i)
        => i \in sent

\* A task is refused for the end of an item only if there is damage before it in
\* the same block, on the same terms.
Boundary == {0} \cup {put[i].to : i \in 1..Len(put)}
SeekLands ==
  ~overrun /\ reader.mode = "failed" /\ reader.start \in Boundary =>
    \E rec \in file["master"] :
      rec.type = "bad" /\ rec.at \in BlockStart(reader.start)..reader.start

\* As long as every gap fits a block, and on the same terms, the slave's file has the
\* master's records at the master's offsets, and nothing it is sent is discarded.
Mirror ==
  ~overrun /\ ~crossed =>
    /\ \A rec \in file["slave"] :
         \/ rec.type = "empty"
         \/ \E own \in file["master"] :
              own.type \in {rec.type, "bad"} /\ rec = [own EXCEPT !.type = rec.type]
    /\ msg # NoMsg /\ writing["slave"] = NoWrite => msg.at = pro_offset["slave"]

\* "Fill binlog with emtpy record whose length is len".
BlankExact ==
  \A c \in Copy :
    writing[c].kind = "blank" /\ Written(writing[c])
      => writing[c].size = writing[c].len
=============================================================================

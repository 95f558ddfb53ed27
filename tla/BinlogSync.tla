----------------------------- MODULE BinlogSync -----------------------------
(***************************************************************************)
(* Replication of a partition's binlog to one slave, over one master's     *)
(* term: Binlog::Put on the master (src/common/zp_binlog.cc), the send     *)
(* tasks that read its files (ZPBinlogSendTask and ThreadMain in           *)
(* src/node/zp_binlog_sender.cc), the network, and the slave that accepts  *)
(* an item only at its own end (CheckSyncOption and DoBinlogCommand in     *)
(* src/node/zp_data_partition.cc).                                         *)
(*                                                                         *)
(* A send task has two positions: the label filenum_, offset_ that goes    *)
(* out with an item, and the place where reader_ really is.  Each sender   *)
(* thread has its own connection, and a task moves between threads and may *)
(* be replaced while a thread still has it, so what is sent may arrive in  *)
(* any order: the network is a set, from which messages are delivered any  *)
(* number of times and lost.  Damaged records (SKIP) are not modelled.     *)
(***************************************************************************)
EXTENDS LogFiles

CONSTANTS
  Task,          \* send tasks for the slave: the current and replaced ones
  NoTask         \* no task

VARIABLES
  master_log, master_end,   \* the master's files and producer status
  slave_log, slave_end,     \* the slave's
  task,                     \* the send tasks
  net,                      \* messages on their way
  shifted                   \* history: a time slice has ended with an item unsent

logs == <<master_log, master_end, slave_log, slave_end>>
vars == <<logs, task, net, shifted>>

Message == [at: Point, item: Item]

SendTask ==
  [label: Point,                \* filenum_, offset_
   reader: Point,               \* queue_ and reader_
   pre: Point,                  \* pre_filenum_, pre_offset_
   content: Item \cup {NoItem}, \* pre_content_
   send_next: BOOLEAN]

-----------------------------------------------------------------------------
(* The master.                                                             *)

Put(i) ==
  /\ After(master_end, i) \in Point
  /\ master_log' = Write(master_log, master_end, i)
  /\ master_end' = After(master_end, i)
  /\ UNCHANGED <<slave_log, slave_end, task, net>>

\* SyncCmd answers kOk: the slave asks from its own end, which is not ahead
\* of the master's and to which the reader can seek.  Any task is replaced.
AddNewTask(t) ==
  /\ slave_end = master_end \/ ItemAt(master_log, slave_end) # NoItem
  /\ task' = [task EXCEPT ![t] =
       [label |-> slave_end, reader |-> slave_end, pre |-> Start(0),
        content |-> NoItem, send_next |-> TRUE]]
  /\ UNCHANGED <<logs, net>>

-----------------------------------------------------------------------------
(* A sender thread with task t: ThreadMain and ProcessTask.                *)

\* There is something to process: ThreadMain does not call ProcessTask while
\* an item is unsent, and ProcessTask stops at the producer's position.
ToProcess(t) ==
  /\ task[t] # NoTask
  /\ task[t].send_next
  /\ task[t].label # master_end

\* ProcessTask at the end of a file, with the next one there: RecordPreOffset
\* comes before the end is seen.  (Without a next file that is all it does.)
RollToNextFile(t) ==
  LET next == Start(task[t].label.filenum + 1) IN
  /\ ToProcess(t)
  /\ ItemAt(master_log, task[t].reader) = NoItem
  /\ next.filenum <= master_end.filenum
  /\ task' = [task EXCEPT ![t].label = next, ![t].reader = next, ![t].pre = task[t].label]
  /\ UNCHANGED <<logs, net>>

\* The next file is there and cannot be opened: the task stays without a reader and
\* sends nothing any more, leases neither.
RollFails(t) ==
  /\ ToProcess(t)
  /\ ItemAt(master_log, task[t].reader) = NoItem
  /\ task[t].label.filenum < master_end.filenum
  /\ task' = [task EXCEPT ![t] = NoTask]
  /\ UNCHANGED <<logs, net>>

\* Mutant: RecordPreOffset comes after the label has moved on.
ConsumeLateRecord(x) ==
  LET i == ItemAt(master_log, x.reader)
      o == x.label.offset + Length[i]
  IN [x EXCEPT !.pre = [x.label EXCEPT !.offset = o], !.content = i,
               !.label.offset = o, !.reader.offset = @ + Length[i]]

\* ProcessTask: RecordPreOffset, Consume, and the label moves on.
Consume(x) ==
  LET i == ItemAt(master_log, x.reader) IN
  [label |-> [x.label EXCEPT !.offset = @ + Length[i]],
   reader |-> [x.reader EXCEPT !.offset = @ + Length[i]],
   pre |-> x.label,
   content |-> i,
   send_next |-> x.send_next]

\* BuildCommonSyncRequest: the last item, with the label it was read under.
SyncRequest(x) == [at |-> x.pre, item |-> x.content]

\* A round of ThreadMain's loop: read an item and send it.  A send that
\* fails may have delivered the message or not.
ProcessTask(t) ==
  LET x == Consume(task[t]) IN
  /\ ToProcess(t)
  /\ ItemAt(master_log, task[t].reader) # NoItem
  /\ \E ok \in BOOLEAN, sent \in BOOLEAN :
       /\ ok => sent
       /\ task' = [task EXCEPT ![t] = [x EXCEPT !.send_next = ok]]
       /\ net' = IF sent THEN net \cup {SyncRequest(x)} ELSE net
  /\ UNCHANGED logs

\* A round that starts with an unsent item: it is sent again.
Resend(t) ==
  /\ task[t] # NoTask
  /\ ~task[t].send_next
  /\ net' = net \cup {SyncRequest(task[t])}
  /\ task' = [task EXCEPT ![t].send_next = TRUE]
  /\ UNCHANGED logs

\* The time slice ends with the item unsent: the label moves back and the
\* reader does not.
Fallback2PreOffset(t) ==
  /\ task[t] # NoTask
  /\ ~task[t].send_next
  /\ task' = [task EXCEPT ![t].label = task[t].pre]
  /\ shifted' = TRUE
  /\ UNCHANGED <<logs, net>>

-----------------------------------------------------------------------------
(* The network and the slave.                                              *)

Lose(m) ==
  /\ net' = net \ {m}
  /\ UNCHANGED <<logs, task>>

\* Mutant: only the offset is compared.
CheckSyncOptionOffsetOnly(m) == m.at.offset = slave_end.offset

\* CheckSyncOption: only the item for the slave's own end is let through.
CheckSyncOption(m) == m.at = slave_end

DoBinlogCommand(m) ==
  /\ CheckSyncOption(m)
  /\ After(slave_end, m.item) \in Point
  /\ slave_log' = Write(slave_log, slave_end, m.item)
  /\ slave_end' = After(slave_end, m.item)
  /\ UNCHANGED <<master_log, master_end, task, net>>

\* Mutant: the files that the new point makes invalid stay.
SetProducerStatusKeepsFiles(f) ==
  /\ f <= master_end.filenum
  /\ slave_end' = Start(f)
  /\ UNCHANGED <<master_log, master_end, slave_log, task, net>>

\* kFallback, or the end of a DB sync: the slave's SetProducerStatus.
SetProducerStatus(f) ==
  /\ f <= master_end.filenum
  /\ slave_log' = CutAt(slave_log, slave_end, f)
  /\ slave_end' = Start(f)
  /\ UNCHANGED <<master_log, master_end, task, net>>

-----------------------------------------------------------------------------
Init ==
  /\ master_log = EmptyLog /\ master_end = Start(0)
  /\ slave_log = EmptyLog /\ slave_end = Start(0)
  /\ task = [t \in Task |-> NoTask]
  /\ net = {}
  /\ shifted = FALSE

Step ==
  \/ \E i \in Item : Put(i)
  \/ \E t \in Task : \/ AddNewTask(t) \/ RollToNextFile(t) \/ RollFails(t)
                     \/ ProcessTask(t) \/ Resend(t)
  \/ \E m \in net : Lose(m) \/ DoBinlogCommand(m)
  \/ \E f \in Filenum : SetProducerStatus(f)

Next ==
  \/ Step /\ UNCHANGED shifted
  \/ \E t \in Task : Fallback2PreOffset(t)

Spec == Init /\ [][Next]_vars

-----------------------------------------------------------------------------
DataOK ==
  /\ master_log \in Log /\ master_end \in Point
  /\ slave_log \in Log /\ slave_end \in Point
  /\ task \in [Task -> SendTask \cup {NoTask}]
  /\ net \subseteq Message

\* Every variable stays in its type: no item is written, read or labelled past
\* the last file, and no task carries half a position.
TypeOK == DataOK /\ shifted \in BOOLEAN

\* Every item on the network carries the place where it is in the master's log.
LabelsTrue == \A m \in net : m.item = ItemAt(master_log, m.at)

\* The slave's log has the master's items and no others up to the slave's end,
\* without a gap within a file.  (A file the slave skipped over by a DB sync
\* stays empty.)
PrefixOfMaster ==
  \A f \in Filenum, o \in Offset :
    /\ slave_log[f][o] \in {NoItem, master_log[f][o]}
    /\ f = slave_end.filenum =>
         slave_log[f][o] = IF o < slave_end.offset THEN master_log[f][o] ELSE NoItem
    /\ f > slave_end.filenum => slave_log[f][o] = NoItem

\* The slave trusts the label of an item, it has nothing else to check it by:
\* until a time slice ends with an item unsent, labels are true
\* (RecordPreOffset, Consume and BuildCommonSyncRequest).
LabelIsPlace == ~shifted => LabelsTrue

\* Whatever was lost, repeated or reordered, the slave has a prefix of the
\* master's log, until a time slice ends with an item unsent (CheckSyncOption,
\* DoBinlogCommand, SetProducerStatus).
SlaveIsPrefix == ~shifted => PrefixOfMaster

\* Even after Fallback2PreOffset the label of a task is in the reader's file and
\* not ahead of the reader: a shifted label hides items from the slave, it never
\* offers an item under a later place, and the next file puts it right.
LabelNotAhead ==
  \A t \in Task : task[t] # NoTask =>
    /\ task[t].label.filenum = task[t].reader.filenum
    /\ task[t].label.offset <= task[t].reader.offset

\* Labels are true until Fallback2PreOffset shifts one, and lag behind then.
LabelsOK == LabelIsPlace /\ LabelNotAhead

Copy == INSTANCE LogCopy WITH original <- master_log, end <- master_end,
                              copy <- slave_log, copy_end <- slave_end,
                              spoilt <- shifted

\* Replication implements the abstract copy: with the network and the tasks
\* hidden, each step extends the slave's log by the master's next item, or
\* starts a file afresh, or changes nothing, until a slice ends with an item
\* unsent.
CopySpec == Copy!Spec
=============================================================================

-------------------------- MODULE BinlogSyncProofs --------------------------
(***************************************************************************)
(* Proofs about the replication of the binlog, for every set of items,     *)
(* lengths and file size.  First BinlogSync, one master and its slave, for *)
(* every set of tasks: these hold until a time slice ends with an unsent   *)
(* item.  Then Failover, for every set of nodes and number of elections.   *)
(* The two share the files of a log and the facts about them.              *)
(***************************************************************************)
EXTENDS BinlogSync, Failover, TLAPS

-----------------------------------------------------------------------------
(* The inductive invariant.                                                *)

\* An item of the master's log starts in a file that was not yet full, ends
\* before the master's end, and no other item starts inside it.
Placed(f, o) ==
  /\ o <= FileSize
  /\ f <= master_end.filenum
  /\ f = master_end.filenum => o + Length[master_log[f][o]] <= master_end.offset
  /\ \A q \in Offset : o < q /\ q < o + Length[master_log[f][o]] => master_log[f][q] = NoItem

MasterShape ==
  /\ master_end.offset <= FileSize
  /\ \A f \in Filenum, o \in Offset : master_log[f][o] # NoItem => Placed(f, o)

SlaveNotAhead ==
  \/ slave_end.filenum < master_end.filenum
  \/ slave_end.filenum = master_end.filenum /\ slave_end.offset <= master_end.offset

\* The label of a task is where its reader is, and what it has still to send
\* was read at the recorded point.
TaskOK(t) ==
  task[t] # NoTask =>
    /\ task[t].label = task[t].reader
    /\ ~task[t].send_next =>
         /\ task[t].content \in Item
         /\ task[t].content = ItemAt(master_log, task[t].pre)

TasksOK == \A t \in Task : TaskOK(t)

IInv ==
  /\ DataOK
  /\ MasterShape
  /\ SlaveNotAhead
  /\ PrefixOfMaster
  /\ TasksOK
  /\ LabelsTrue

-----------------------------------------------------------------------------
(* Facts about logs.                                                       *)

\* The point after an item, in the file or at the start of the next one.
LEMMA AfterFacts ==
  ASSUME NEW p \in Point, NEW i \in Item
  PROVE  /\ Length[i] \in Nat /\ Length[i] > 0
         /\ p.offset + Length[i] > FileSize =>
              After(p, i).filenum = p.filenum + 1 /\ After(p, i).offset = 0
         /\ p.offset + Length[i] <= FileSize =>
              After(p, i).filenum = p.filenum /\ After(p, i).offset = p.offset + Length[i]
BY LogAssumption DEF After, Start, Point, Offset, Filenum

\* Write changes a log at one point.
LEMMA WriteFacts ==
  ASSUME NEW l \in Log, NEW p \in Point, NEW i \in Item
  PROVE  /\ Write(l, p, i) \in Log
         /\ \A f \in Filenum, o \in Offset :
              Write(l, p, i)[f][o] =
                IF f = p.filenum /\ o = p.offset THEN i ELSE l[f][o]
<1>1. p.filenum \in Filenum /\ p.offset \in Offset
  BY DEF Point
<1>2. [l[p.filenum] EXCEPT ![p.offset] = i] \in File
  BY <1>1 DEF Log, File
<1> QED
  BY <1>1, <1>2 DEF Write, Log, File

\* The empty log and the starts of files.
LEMMA EmptyFacts ==
  /\ EmptyLog \in Log
  /\ \A f \in Filenum, o \in Offset : EmptyLog[f][o] = NoItem
  /\ \A f \in Filenum : Start(f) \in Point
BY LogAssumption DEF EmptyLog, EmptyFile, Log, File, Start, Point, Offset, Filenum

\* CutAt empties the files from f on, or all of them.
LEMMA CutFacts ==
  ASSUME NEW l \in Log, NEW p \in Point, NEW f \in Filenum
  PROVE  /\ CutAt(l, p, f) \in Log
         /\ \A g \in Filenum, o \in Offset :
              /\ CutAt(l, p, f)[g][o] \in {NoItem, l[g][o]}
              /\ g >= f => CutAt(l, p, f)[g][o] = NoItem
BY DEF CutAt, Log, File, EmptyFile

-----------------------------------------------------------------------------
\* The invariant holds of two empty logs.
LEMMA InitIInv == Init => IInv
<1> SUFFICES ASSUME Init PROVE IInv
  OBVIOUS
<1>1. 0 \in Filenum
  BY LogAssumption DEF Filenum
<1>2. DataOK
  BY <1>1, EmptyFacts DEF Init, DataOK
<1>3. MasterShape
  BY <1>1, EmptyFacts, LogAssumption DEF Init, MasterShape, Start
<1>4. SlaveNotAhead
  BY DEF Init, SlaveNotAhead, Start
<1>5. PrefixOfMaster
  BY <1>1, EmptyFacts DEF Init, PrefixOfMaster, Start, Offset
<1>6. TasksOK /\ LabelsTrue
  BY DEF Init, TasksOK, TaskOK, LabelsTrue
<1> QED
  BY <1>2, <1>3, <1>4, <1>5, <1>6 DEF IInv

\* Put writes at the master's end, where neither log has an item and to which
\* no message and no unsent item refers.
LEMMA PutIInv == ASSUME IInv, NEW i \in Item, Put(i) PROVE IInv'
<1> USE DEF IInv
<1> DEFINE e == master_end
<1>0. /\ e \in Point /\ e.filenum \in Filenum /\ e.offset \in Offset
      /\ master_log \in Log /\ After(e, i) \in Point /\ FileSize \in Nat
      /\ e.filenum \in Nat /\ e.offset \in Nat
  BY LogAssumption DEF DataOK, Point, Put, Filenum, Offset
<1>1. /\ master_log' \in Log
      /\ \A f \in Filenum, o \in Offset :
           master_log'[f][o] = IF f = e.filenum /\ o = e.offset THEN i ELSE master_log[f][o]
  BY <1>0, WriteFacts DEF Put
<1>2. master_end' = After(e, i) /\ UNCHANGED <<slave_log, slave_end, task, net>>
  BY DEF Put
<1>3. master_log[e.filenum][e.offset] = NoItem
  <2> SUFFICES ASSUME master_log[e.filenum][e.offset] # NoItem PROVE FALSE
    OBVIOUS
  <2>1. master_log[e.filenum][e.offset] \in Item
    BY <1>0 DEF Log, File
  <2>2. e.offset + Length[master_log[e.filenum][e.offset]] <= e.offset
    BY <1>0 DEF MasterShape, Placed
  <2> QED
    BY <2>1, <2>2, <1>0, AfterFacts
<1>4. DataOK'
  BY <1>0, <1>1, <1>2 DEF DataOK
<1>5. MasterShape'
  <2>1. master_end'.offset <= FileSize /\ master_end'.filenum >= e.filenum
    BY <1>0, <1>2, AfterFacts
  <2>2. /\ Length[i] \in Nat
        /\ e.offset + Length[i] > FileSize => master_end'.filenum = e.filenum + 1
        /\ e.offset + Length[i] <= FileSize => master_end'.offset = e.offset + Length[i]
    BY <1>0, <1>2, AfterFacts
  <2>3. ASSUME NEW f \in Filenum, NEW o \in Offset, master_log'[f][o] # NoItem
        PROVE  Placed(f, o)'
    <3>0. /\ f \in Nat /\ o \in Nat /\ master_log[f][o] \in Item \cup {NoItem}
          /\ master_end'.filenum \in Nat
      <4>1. f \in Nat /\ o \in Nat
        BY DEF Filenum, Offset
      <4>2. master_log[f][o] \in Item \cup {NoItem}
        BY <1>0 DEF Log, File
      <4>3. master_end'.filenum \in Nat
        BY <1>0, <1>2 DEF Point, Filenum
      <4> QED
        BY <4>1, <4>2, <4>3
    <3>1. CASE f = e.filenum /\ o = e.offset
      <4>1. master_log'[f][o] = i
        BY <1>1, <3>1
      <4>2. ASSUME NEW q \in Offset, o < q PROVE master_log'[f][q] = NoItem
        <5> SUFFICES ASSUME master_log'[f][q] # NoItem PROVE FALSE
          OBVIOUS
        <5>0. q \in Nat
          BY DEF Offset
        <5>1. master_log'[f][q] = master_log[f][q]
          BY <1>1, <3>1, <4>2, <5>0, <3>0
        <5>2. master_log[f][q] \in Item
          BY <5>1, <1>0, <3>1 DEF Log, File
        <5>3. q + Length[master_log[f][q]] <= e.offset
          BY <5>1, <3>1, <5>2, LogAssumption DEF MasterShape, Placed
        <5>4. Length[master_log[f][q]] \in Nat
          BY <5>2, LogAssumption
        <5> QED
          BY <5>0, <5>3, <5>4, <4>2, <3>1, <3>0
      <4>3. o <= FileSize /\ f <= master_end'.filenum
        BY <3>1, <2>1 DEF MasterShape
      <4>4. f = master_end'.filenum => o + Length[i] <= master_end'.offset
        BY <3>1, <2>2, <1>0
      <4> QED
        BY <4>1, <4>2, <4>3, <4>4 DEF Placed
    <3>2. CASE ~(f = e.filenum /\ o = e.offset)
      <4>1. master_log'[f][o] = master_log[f][o]
        BY <1>1, <3>2
      <4>2. Placed(f, o)
        BY <4>1, <2>3 DEF MasterShape
      <4>3. Length[master_log[f][o]] \in Nat
        BY <4>1, <2>3, <3>0, LogAssumption
      <4>4. ASSUME NEW q \in Offset, o < q, q < o + Length[master_log[f][o]]
            PROVE  master_log'[f][q] = NoItem
        <5>0. q \in Nat
          BY DEF Offset
        <5>1. master_log[f][q] = NoItem
          BY <4>2, <4>4 DEF Placed
        <5>2. ~(f = e.filenum /\ q = e.offset)
          BY <4>2, <4>3, <4>4, <5>0, <3>0, <1>0 DEF Placed
        <5> QED
          BY <1>1, <5>1, <5>2
      <4>5. f <= master_end'.filenum
        BY <4>2, <2>1, <1>0, <3>0 DEF Placed
      <4>6. f = master_end'.filenum => o + Length[master_log[f][o]] <= master_end'.offset
        <5>1. CASE e.offset + Length[i] > FileSize
          BY <5>1, <4>2, <1>0, <1>2, <3>0, AfterFacts DEF Placed
        <5>2. CASE ~(e.offset + Length[i] > FileSize)
          <6>1. /\ master_end'.filenum = e.filenum
                /\ master_end'.offset = e.offset + Length[i] /\ Length[i] \in Nat
            BY <5>2, <1>0, <1>2, AfterFacts
          <6> QED
            BY <6>1, <4>2, <4>3, <3>0, <1>0 DEF Placed
        <5> QED
          BY <5>1, <5>2
      <4>7. o <= FileSize
        BY <4>2 DEF Placed
      <4> QED
        BY <4>1, <4>4, <4>5, <4>6, <4>7 DEF Placed
    <3> QED
      BY <3>1, <3>2
  <2> QED
    BY <2>1, <2>3 DEF MasterShape
<1>6. SlaveNotAhead'
  <2>1. slave_end.filenum \in Nat /\ slave_end.offset \in Nat
    BY DEF DataOK, Point, Filenum, Offset
  <2>2. CASE e.offset + Length[i] > FileSize
    BY <2>1, <2>2, <1>0, <1>2, AfterFacts DEF SlaveNotAhead
  <2>3. CASE ~(e.offset + Length[i] > FileSize)
    <3>1. /\ master_end'.filenum = e.filenum
          /\ master_end'.offset = e.offset + Length[i] /\ Length[i] \in Nat
      BY <2>3, <1>0, <1>2, AfterFacts
    <3> QED
      BY <3>1, <2>1, <1>0, <1>2 DEF SlaveNotAhead
  <2> QED
    BY <2>2, <2>3
<1>7. PrefixOfMaster'
  <2>1. ASSUME NEW f \in Filenum, NEW o \in Offset, f = e.filenum, o = e.offset
        PROVE  slave_log[f][o] = NoItem /\ ~(f = slave_end.filenum /\ o < slave_end.offset)
    <3>1. slave_log[f][o] = NoItem
      BY <1>3, <2>1 DEF PrefixOfMaster
    <3>2. slave_end.filenum \in Nat /\ slave_end.offset \in Nat
      BY DEF DataOK, Point, Filenum, Offset
    <3> QED
      BY <3>1, <3>2, <2>1, <1>0 DEF SlaveNotAhead
  <2> QED
    BY <2>1, <1>1, <1>2 DEF PrefixOfMaster
<1>8. ASSUME NEW p \in Point, ItemAt(master_log, p) \in Item
      PROVE  ItemAt(master_log, p)' = ItemAt(master_log, p)
  <2>1. p.filenum \in Filenum /\ p.offset \in Offset /\ ItemAt(master_log, p) # NoItem
    BY <1>8, LogAssumption DEF Point
  <2> QED
    BY <2>1, <1>1, <1>3 DEF ItemAt
<1>9. TasksOK'
  <2> SUFFICES ASSUME NEW t \in Task, task[t] # NoTask PROVE TaskOK(t)'
    BY <1>2 DEF TasksOK, TaskOK
  <2>1. task[t].pre \in Point
    BY DEF DataOK, SendTask
  <2> QED
    BY <2>1, <1>2, <1>8 DEF TasksOK, TaskOK
<1>10. LabelsTrue'
  <2> SUFFICES ASSUME NEW m \in net PROVE m.item = ItemAt(master_log, m.at)'
    BY <1>2 DEF LabelsTrue
  <2>1. m.at \in Point /\ m.item \in Item
    BY DEF DataOK, Message
  <2> QED
    BY <2>1, <1>8 DEF LabelsTrue
<1> QED
  BY <1>4, <1>5, <1>6, <1>7, <1>9, <1>10

-----------------------------------------------------------------------------
(* The steps of a task.  They leave both logs alone.                       *)

\* The fields of a task have the types that the steps below compute with.
LEMMA SendTaskFields ==
  ASSUME NEW x \in SendTask
  PROVE  /\ x.label \in Point /\ x.reader \in Point /\ x.pre \in Point
         /\ x.label.filenum \in Filenum /\ x.label.offset \in Offset
         /\ x.reader.filenum \in Filenum /\ x.reader.offset \in Offset
         /\ x.content \in Item \cup {NoItem} /\ x.send_next \in BOOLEAN
BY DEF SendTask, Point

\* A step of task t that keeps the logs keeps the invariant when the new task
\* and the new messages are as they should be.
LEMMA TaskStep ==
  ASSUME IInv, UNCHANGED logs, NEW t \in Task, NEW x \in SendTask,
         task' = [task EXCEPT ![t] = x],
         x.label = x.reader,
         ~x.send_next => x.content \in Item /\ x.content = ItemAt(master_log, x.pre),
         \A m \in net' : m \in net \/ (m \in Message /\ m.item = ItemAt(master_log, m.at))
  PROVE  IInv'
<1> USE DEF IInv
<1>1. DataOK'
  BY DEF DataOK, logs
<1>2. MasterShape' /\ SlaveNotAhead' /\ PrefixOfMaster'
  BY DEF MasterShape, Placed, SlaveNotAhead, PrefixOfMaster, logs
<1>3. TasksOK'
  <2> SUFFICES ASSUME NEW u \in Task PROVE TaskOK(u)'
    BY DEF TasksOK
  <2>1. CASE u = t
    <3>1. task'[u] = x
      BY <2>1 DEF DataOK
    <3> QED
      BY <3>1 DEF TaskOK, logs, ItemAt
  <2>2. CASE u # t
    <3>1. task'[u] = task[u]
      BY <2>2 DEF DataOK
    <3> QED
      BY <3>1 DEF TasksOK, TaskOK, logs, ItemAt
  <2> QED
    BY <2>1, <2>2
<1>4. LabelsTrue'
  BY DEF LabelsTrue, ItemAt, logs
<1> QED
  BY <1>1, <1>2, <1>3, <1>4

\* A new task starts where the slave's log ends, with label and reader together.
LEMMA AddNewTaskIInv == ASSUME IInv, NEW t \in Task, AddNewTask(t) PROVE IInv'
<1> DEFINE x == [label |-> slave_end, reader |-> slave_end, pre |-> Start(0),
                 content |-> NoItem, send_next |-> TRUE]
<1>1. x \in SendTask
  BY EmptyFacts, LogAssumption DEF IInv, DataOK, SendTask, Filenum
<1>2. task' = [task EXCEPT ![t] = x] /\ UNCHANGED logs /\ net' = net
  BY DEF AddNewTask
<1>3. x.label = x.reader /\ x.send_next
  OBVIOUS
<1> HIDE DEF x
<1> QED
  BY <1>1, <1>2, <1>3, TaskStep

\* Rolling to the next file moves label and reader to its start.
LEMMA RollIInv == ASSUME IInv, NEW t \in Task, RollToNextFile(t) PROVE IInv'
<1> DEFINE next == Start(task[t].label.filenum + 1)
           x == [task[t] EXCEPT !.label = next, !.reader = next, !.pre = task[t].label]
<1>1. task[t] \in SendTask
  BY DEF IInv, DataOK, RollToNextFile, ToProcess
<1>2. next \in Point
  <2>1. task[t].label.filenum \in Nat /\ next.filenum = task[t].label.filenum + 1
    BY <1>1, SendTaskFields DEF Filenum, Start
  <2>2. next.filenum <= master_end.filenum /\ master_end.filenum \in Filenum
    BY DEF RollToNextFile, IInv, DataOK, Point
  <2>3. task[t].label.filenum + 1 \in Filenum
    BY <2>1, <2>2, LogAssumption DEF Filenum
  <2> QED
    BY <2>3, EmptyFacts
<1> HIDE DEF next
<1>3. x \in SendTask /\ x.label = x.reader /\ x.send_next = task[t].send_next
  BY <1>1, <1>2 DEF SendTask
<1>4. task' = [task EXCEPT ![t] = x] /\ UNCHANGED logs /\ net' = net /\ task[t].send_next
  BY <1>1 DEF RollToNextFile, ToProcess, next, IInv, DataOK
<1> HIDE DEF x
<1> QED
  BY <1>3, <1>4, TaskStep

\* What Consume reads at the reader's place is what the label stands for.
LEMMA ProcessIInv == ASSUME IInv, NEW t \in Task, ProcessTask(t) PROVE IInv'
<1> DEFINE i == ItemAt(master_log, task[t].reader)
           x == Consume(task[t])
<1>1. task[t] \in SendTask /\ task[t].label = task[t].reader
  BY DEF IInv, DataOK, ProcessTask, ToProcess, TasksOK, TaskOK
<1>2. i \in Item
  BY <1>1, SendTaskFields DEF IInv, DataOK, ProcessTask, ItemAt, Log, File
<1>3. task[t].reader.offset + Length[i] \in Offset
  <2>1. task[t].reader.filenum \in Filenum /\ task[t].reader.offset \in Offset
    BY <1>1, SendTaskFields
  <2>2. task[t].reader.offset <= FileSize
    BY <2>1, <1>2, LogAssumption DEF IInv, MasterShape, Placed, ItemAt
  <2>3. Length[i] \in Nat /\ FileSize + Length[i] <= MaxOffset
    BY <1>2, LogAssumption
  <2> HIDE DEF i
  <2> QED
    BY <2>1, <2>2, <2>3, LogAssumption DEF Offset
<1>4. /\ x.pre = task[t].label /\ x.content = i /\ x.send_next = task[t].send_next
      /\ x.label = [task[t].label EXCEPT !.offset = @ + Length[i]]
      /\ x.reader = [task[t].reader EXCEPT !.offset = @ + Length[i]]
      /\ x = [label |-> x.label, reader |-> x.reader, pre |-> x.pre,
              content |-> x.content, send_next |-> x.send_next]
  BY DEF Consume
<1>5. PICK ok \in BOOLEAN, sent \in BOOLEAN :
        /\ task' = [task EXCEPT ![t] = [x EXCEPT !.send_next = ok]]
        /\ net' = IF sent THEN net \cup {SyncRequest(x)} ELSE net
        /\ UNCHANGED logs
  BY DEF ProcessTask
<1> DEFINE y == [x EXCEPT !.send_next = ok]
<1>6. x.label \in Point /\ x.label = x.reader
  BY <1>1, <1>3, <1>4, SendTaskFields DEF Point
<1>7. x.pre \in Point /\ x.content \in Item /\ x.content = ItemAt(master_log, x.pre)
  BY <1>1, <1>2, <1>4, SendTaskFields
<1>8. y \in SendTask /\ y.label = y.reader /\ y.content = x.content /\ y.pre = x.pre
  BY <1>4, <1>6, <1>7 DEF SendTask
<1>9. SyncRequest(x) \in Message /\ SyncRequest(x).item = ItemAt(master_log, SyncRequest(x).at)
  BY <1>7 DEF SyncRequest, Message
<1>10. task' = [task EXCEPT ![t] = y]
  BY <1>5
<1>11. \A m \in net' : m \in net \/ (m \in Message /\ m.item = ItemAt(master_log, m.at))
  BY <1>5, <1>9
<1> HIDE DEF y, x, i
<1> QED
  BY <1>5, <1>7, <1>8, <1>10, <1>11, TaskStep

\* What is sent again is the item that was read at the recorded position.
LEMMA ResendIInv == ASSUME IInv, NEW t \in Task, Resend(t) PROVE IInv'
<1> DEFINE x == [task[t] EXCEPT !.send_next = TRUE]
           m == SyncRequest(task[t])
<1>1. /\ task[t] \in SendTask /\ task[t].label = task[t].reader
      /\ task[t].content \in Item /\ task[t].content = ItemAt(master_log, task[t].pre)
  BY DEF IInv, DataOK, Resend, TasksOK, TaskOK
<1>2. x \in SendTask /\ x.label = x.reader /\ x.send_next
  BY <1>1 DEF SendTask
<1>3. m \in Message /\ m.item = ItemAt(master_log, m.at)
  BY <1>1, SendTaskFields DEF SyncRequest, Message
<1>4. task' = [task EXCEPT ![t] = x] /\ UNCHANGED logs /\ net' = net \cup {m}
  BY <1>1 DEF Resend, IInv, DataOK
<1> HIDE DEF x, m
<1> QED
  BY <1>2, <1>3, <1>4, TaskStep

-----------------------------------------------------------------------------
(* The slave.                                                              *)

\* The item that is let through is the master's item at the slave's end.
LEMMA Accepted ==
  ASSUME IInv, NEW m \in net, CheckSyncOption(m)
  PROVE  /\ m.item \in Item /\ m.item = ItemAt(master_log, slave_end)
         /\ slave_end.filenum \in Filenum /\ slave_end.offset \in Offset
         /\ Placed(slave_end.filenum, slave_end.offset)
<1>1. m.item \in Item /\ m.item = ItemAt(master_log, slave_end)
  BY DEF IInv, DataOK, Message, LabelsTrue, CheckSyncOption
<1>2. slave_end.filenum \in Filenum /\ slave_end.offset \in Offset
  BY DEF IInv, DataOK, Point
<1> QED
  BY <1>1, <1>2, LogAssumption DEF IInv, MasterShape, ItemAt

\* An item that CheckSyncOption accepts is the master's item at the slave's end.
LEMMA DoBinlogCommandIInv ==
  ASSUME IInv, NEW m \in net, DoBinlogCommand(m) PROVE IInv'
<1> USE DEF IInv
<1> DEFINE e == slave_end
           i == m.item
           n == Length[i]
<1>1. /\ i \in Item /\ i = master_log[e.filenum][e.offset]
      /\ e.filenum \in Filenum /\ e.offset \in Offset /\ Placed(e.filenum, e.offset)
  BY Accepted DEF DoBinlogCommand, ItemAt
<1>2. /\ slave_log' = Write(slave_log, e, i) /\ slave_end' = After(e, i)
      /\ slave_end' \in Point /\ UNCHANGED <<master_log, master_end, task, net>>
  BY DEF DoBinlogCommand
<1>3. /\ slave_log' \in Log
      /\ \A f \in Filenum, o \in Offset :
           slave_log'[f][o] = IF f = e.filenum /\ o = e.offset THEN i ELSE slave_log[f][o]
  BY <1>1, <1>2, WriteFacts DEF DataOK
<1>4. /\ n \in Nat /\ n > 0
      /\ e.offset + n > FileSize =>
           slave_end'.filenum = e.filenum + 1 /\ slave_end'.offset = 0
      /\ e.offset + n <= FileSize =>
           slave_end'.filenum = e.filenum /\ slave_end'.offset = e.offset + n
  BY <1>1, <1>2, AfterFacts DEF DataOK
<1>5. /\ e.filenum \in Nat /\ e.offset \in Nat /\ FileSize \in Nat
      /\ master_end.filenum \in Nat /\ master_end.offset \in Nat
      /\ slave_end'.filenum \in Nat /\ slave_end'.offset \in Nat
  BY <1>1, <1>2, LogAssumption DEF DataOK, Point, Filenum, Offset
<1>6. DataOK'
  BY <1>2, <1>3 DEF DataOK
<1>7. MasterShape' /\ TasksOK' /\ LabelsTrue'
  BY <1>2 DEF MasterShape, Placed, TasksOK, TaskOK, LabelsTrue, ItemAt
<1>8. SlaveNotAhead'
  <2>1. /\ e.filenum <= master_end.filenum /\ master_end.offset <= FileSize
        /\ e.filenum = master_end.filenum => e.offset + n <= master_end.offset
    BY <1>1 DEF Placed, MasterShape
  <2> HIDE DEF n
  <2> QED
    BY <2>1, <1>2, <1>4, <1>5 DEF SlaveNotAhead
<1>9. PrefixOfMaster'
  <2> SUFFICES ASSUME NEW f \in Filenum, NEW o \in Offset
               PROVE  /\ slave_log'[f][o] \in {NoItem, master_log[f][o]}
                      /\ f = slave_end'.filenum =>
                           slave_log'[f][o] = IF o < slave_end'.offset
                                              THEN master_log[f][o] ELSE NoItem
                      /\ f > slave_end'.filenum => slave_log'[f][o] = NoItem
    BY <1>2 DEF PrefixOfMaster
  <2>0. f \in Nat /\ o \in Nat
    BY DEF Filenum, Offset
  <2>1. slave_log'[f][o] \in {NoItem, master_log[f][o]}
    BY <1>1, <1>3 DEF PrefixOfMaster
  <2>2. ASSUME f > slave_end'.filenum PROVE slave_log'[f][o] = NoItem
    <3>1. f > e.filenum
      BY <2>2, <2>0, <1>4, <1>5
    <3> QED
      BY <3>1, <2>0, <1>3, <1>5 DEF PrefixOfMaster
  <2>3. ASSUME f = slave_end'.filenum
        PROVE  slave_log'[f][o] = IF o < slave_end'.offset THEN master_log[f][o] ELSE NoItem
    <3>1. CASE e.offset + n > FileSize
      <4>1. f > e.filenum /\ ~(o < slave_end'.offset)
        BY <3>1, <2>3, <2>0, <1>4, <1>5
      <4> QED
        BY <4>1, <2>0, <1>3, <1>5 DEF PrefixOfMaster
    <3>2. CASE ~(e.offset + n > FileSize)
      <4>1. f = e.filenum /\ slave_end'.offset = e.offset + n
        BY <3>2, <2>3, <1>4, <1>5
      <4>2. CASE o = e.offset
        BY <4>1, <4>2, <1>1, <1>3, <1>4, <1>5
      <4>3. CASE o < e.offset
        <5>1. slave_log'[f][o] = master_log[f][o]
          BY <4>1, <4>3, <1>3, <1>5, <2>0 DEF PrefixOfMaster
        <5>2. o < slave_end'.offset
          BY <4>1, <4>3, <1>4, <1>5, <2>0
        <5> QED
          BY <5>1, <5>2
      <4>4. CASE o > e.offset
        <5>1. slave_log'[f][o] = NoItem
          BY <4>1, <4>4, <1>3, <1>5, <2>0 DEF PrefixOfMaster
        <5>2. o < e.offset + n => master_log[f][o] = NoItem
          BY <4>1, <4>4, <1>1 DEF Placed
        <5> QED
          BY <5>1, <5>2, <4>1
      <4> QED
        BY <4>2, <4>3, <4>4, <1>5, <2>0
    <3> QED
      BY <3>1, <3>2
  <2> QED
    BY <2>1, <2>2, <2>3
<1> QED
  BY <1>6, <1>7, <1>8, <1>9

\* Starting a file afresh cuts the slave's log at its start.
LEMMA SetProducerStatusIInv ==
  ASSUME IInv, NEW f \in Filenum, SetProducerStatus(f) PROVE IInv'
<1> USE DEF IInv
<1>1. /\ slave_log' = CutAt(slave_log, slave_end, f) /\ slave_end' = Start(f)
      /\ f <= master_end.filenum /\ UNCHANGED <<master_log, master_end, task, net>>
  BY DEF SetProducerStatus
<1>2. /\ slave_log' \in Log
      /\ \A g \in Filenum, o \in Offset :
           /\ slave_log'[g][o] \in {NoItem, slave_log[g][o]}
           /\ g >= f => slave_log'[g][o] = NoItem
  BY <1>1, CutFacts DEF DataOK
<1>3. slave_end' \in Point /\ slave_end'.filenum = f /\ slave_end'.offset = 0
  BY <1>1, EmptyFacts DEF Start
<1>4. DataOK'
  BY <1>1, <1>2, <1>3 DEF DataOK
<1>5. MasterShape' /\ TasksOK' /\ LabelsTrue'
  BY <1>1 DEF MasterShape, Placed, TasksOK, TaskOK, LabelsTrue, ItemAt
<1>6. SlaveNotAhead'
  <2>1. f \in Nat /\ master_end.filenum \in Nat /\ master_end.offset \in Nat
    BY DEF DataOK, Point, Filenum, Offset
  <2> QED
    BY <2>1, <1>1, <1>3 DEF SlaveNotAhead
<1>7. PrefixOfMaster'
  <2> SUFFICES ASSUME NEW g \in Filenum, NEW o \in Offset
               PROVE  /\ slave_log'[g][o] \in {NoItem, master_log[g][o]}
                      /\ g >= f => slave_log'[g][o] = NoItem
                      /\ ~(o < 0)
    <3>1. \A g \in Filenum : g \in Nat /\ f \in Nat
      BY DEF Filenum
    <3> QED
      BY <1>1, <1>3, <3>1 DEF PrefixOfMaster
  <2>1. slave_log[g][o] \in {NoItem, master_log[g][o]}
    BY DEF PrefixOfMaster
  <2>2. ~(o < 0)
    BY DEF Offset
  <2> QED
    BY <2>1, <2>2, <1>2
<1> QED
  BY <1>4, <1>5, <1>6, <1>7

-----------------------------------------------------------------------------
\* Nothing changes.
LEMMA StutterIInv == ASSUME IInv, UNCHANGED vars PROVE IInv'
BY DEF IInv, vars, logs, DataOK, MasterShape, Placed, SlaveNotAhead, PrefixOfMaster,
       TasksOK, TaskOK, LabelsTrue, ItemAt

\* A lost or repeated message changes no log and no task.
LEMMA LoseIInv == ASSUME IInv, NEW m \in net, Lose(m) PROVE IInv'
BY DEF Lose, IInv, vars, logs, DataOK, MasterShape, Placed, SlaveNotAhead, PrefixOfMaster,
       TasksOK, TaskOK, LabelsTrue, ItemAt

\* A task that is gone is no concern any more.
LEMMA RollFailsIInv == ASSUME IInv, NEW t \in Task, RollFails(t) PROVE IInv'
<1>1. UNCHANGED <<logs, net>> /\ task' = [task EXCEPT ![t] = NoTask]
  BY DEF RollFails
<1>2. task' \in [Task -> SendTask \cup {NoTask}] /\ DataOK'
  BY <1>1 DEF IInv, DataOK, logs
<1>3. \A u \in Task : task'[u] # NoTask => task'[u] = task[u]
  BY <1>1, <1>2 DEF IInv, DataOK
<1>4. TasksOK'
  BY <1>1, <1>3 DEF IInv, TasksOK, TaskOK, ItemAt, Placed, logs
<1> QED BY <1>1, <1>2, <1>4 DEF IInv, logs, MasterShape, Placed, SlaveNotAhead, PrefixOfMaster,
                                LabelsTrue, ItemAt

\* A step that moves no label back keeps the invariant.
LEMMA StepIInv == ASSUME IInv, Step PROVE IInv'
<1>1. ASSUME NEW i \in Item, Put(i) PROVE IInv'
  BY <1>1, PutIInv
<1>2. ASSUME NEW t \in Task,
             \/ AddNewTask(t) \/ RollToNextFile(t) \/ RollFails(t)
             \/ ProcessTask(t) \/ Resend(t)
      PROVE  IInv'
  BY <1>2, AddNewTaskIInv, RollIInv, RollFailsIInv, ProcessIInv, ResendIInv
<1>3. ASSUME NEW m \in net, Lose(m) \/ DoBinlogCommand(m) PROVE IInv'
  BY <1>3, LoseIInv, DoBinlogCommandIInv
<1>4. ASSUME NEW f \in Filenum, SetProducerStatus(f) PROVE IInv'
  BY <1>4, SetProducerStatusIInv
<1> QED
  BY <1>1, <1>2, <1>3, <1>4 DEF Step

\* What holds until a time slice ends with an item unsent.
Unshifted == shifted \/ IInv

\* The history is never forgotten, and until it is made the invariant is kept.
LEMMA NextUnshifted == ASSUME Unshifted, [Next]_vars PROVE Unshifted'
<1>1. CASE UNCHANGED vars
  <2>1. shifted' = shifted
    BY <1>1 DEF vars
  <2> QED
    BY <1>1, <2>1, StutterIInv DEF Unshifted
<1>2. CASE Step /\ UNCHANGED shifted
  BY <1>2, StepIInv DEF Unshifted
<1>3. ASSUME NEW t \in Task, Fallback2PreOffset(t) PROVE Unshifted'
  BY <1>3 DEF Fallback2PreOffset, Unshifted
<1> QED
  BY <1>1, <1>2, <1>3 DEF Next

\* Whatever the network loses, repeats or reorders and however often tasks are
\* replaced, until a time slice ends with an item unsent: every item on the
\* network carries the place it has in the master's log (RecordPreOffset,
\* BuildCommonSyncRequest), and what CheckSyncOption lets into the slave's log
\* is the master's log up to the slave's end.
THEOREM SyncSafety == Spec => [](LabelIsPlace /\ SlaveIsPrefix)
<1>1. Init => Unshifted
  BY InitIInv DEF Unshifted
<1>2. Unshifted /\ [Next]_vars => Unshifted'
  BY NextUnshifted
<1>3. Unshifted => LabelIsPlace /\ SlaveIsPrefix
  BY DEF Unshifted, IInv, LabelIsPlace, SlaveIsPrefix
<1> QED
  BY <1>1, <1>2, <1>3, PTL DEF Spec

-----------------------------------------------------------------------------
(* The refinement.                                                         *)

\* The operators of LogFiles are the same seen through the instance.
LEMMA CopySame ==
  /\ Copy!Filenum = Filenum /\ Copy!Point = Point /\ Copy!EmptyLog = EmptyLog
  /\ \A f : Copy!Start(f) = Start(f)
  /\ \A p, i : Copy!After(p, i) = After(p, i)
  /\ \A l, p : Copy!ItemAt(l, p) = ItemAt(l, p)
  /\ \A l, p, i : Copy!Write(l, p, i) = Write(l, p, i)
  /\ \A l, p, f : Copy!CutAt(l, p, f) = CutAt(l, p, f)
BY DEF Copy!Filenum, Filenum, Copy!Offset, Offset, Copy!Point, Point,
       Copy!EmptyFile, EmptyFile, Copy!EmptyLog, EmptyLog, Copy!Start, Start,
       Copy!After, After, Copy!ItemAt, ItemAt, Copy!Write, Write, Copy!CutAt, CutAt

\* Until a slice ends with an item unsent, every other step of replication is
\* a step of the abstract copy, or none.
LEMMA StepRefines ==
  ASSUME IInv, Step, UNCHANGED shifted
  PROVE  [Copy!Next]_(Copy!vars)
<1>1. ASSUME NEW i \in Item, Put(i) PROVE Copy!Next
  BY <1>1, CopySame DEF Put, Copy!Next, Copy!Grow
<1>2. ASSUME NEW t \in Task,
             \/ AddNewTask(t) \/ RollToNextFile(t) \/ RollFails(t)
             \/ ProcessTask(t) \/ Resend(t)
      PROVE  UNCHANGED Copy!vars
  BY <1>2 DEF AddNewTask, RollToNextFile, RollFails, ProcessTask, Resend, logs, Copy!vars
<1>3. ASSUME NEW m \in net, Lose(m) PROVE UNCHANGED Copy!vars
  BY <1>3 DEF Lose, logs, Copy!vars
<1>4. ASSUME NEW m \in net, DoBinlogCommand(m) PROVE Copy!Next
  <2>1. m.item \in Item /\ m.item = ItemAt(master_log, slave_end)
    BY <1>4, Accepted DEF DoBinlogCommand
  <2>2. Copy!TakeOver
    BY <1>4, <2>1, LogAssumption, CopySame DEF DoBinlogCommand, Copy!TakeOver
  <2> QED
    BY <2>2 DEF Copy!Next
<1>5. ASSUME NEW f \in Filenum, SetProducerStatus(f) PROVE Copy!Next
  BY <1>5, CopySame DEF SetProducerStatus, Copy!Next, Copy!StartAfresh
<1> QED
  BY <1>1, <1>2, <1>3, <1>4, <1>5 DEF Step

\* A step of a spoilt copy is allowed whatever it does to the slave's log: it
\* leaves the master's log alone or extends it by an item.
LEMMA SpoiltRefines ==
  ASSUME shifted = TRUE, Step, UNCHANGED shifted
  PROVE  Copy!Next
<1>1. ASSUME NEW i \in Item, Put(i) PROVE Copy!Next
  BY <1>1, CopySame DEF Put, Copy!Next, Copy!Grow
<1>2. CASE UNCHANGED <<master_log, master_end>>
  BY <1>2 DEF Copy!Next, Copy!Spoil
<1> QED
  BY <1>1, <1>2 DEF Step, AddNewTask, RollToNextFile, RollFails, ProcessTask, Resend, Lose,
     DoBinlogCommand, SetProducerStatus, logs

\* Every step is one of the abstract copy.
LEMMA NextRefines ==
  ASSUME Unshifted, shifted \in BOOLEAN, [Next]_vars
  PROVE  [Copy!Next]_(Copy!vars)
<1>1. CASE UNCHANGED vars
  BY <1>1 DEF vars, logs, Copy!vars
<1>2. CASE Step /\ UNCHANGED shifted
  BY <1>2, StepRefines, SpoiltRefines DEF Unshifted
<1>3. ASSUME NEW t \in Task, Fallback2PreOffset(t) PROVE Copy!Next
  BY <1>3 DEF Fallback2PreOffset, logs, Copy!Next, Copy!Spoil
<1> QED
  BY <1>1, <1>2, <1>3 DEF Next

\* The history is a Boolean.
LEMMA NextBoolean ==
  ASSUME shifted \in BOOLEAN, [Next]_vars PROVE shifted' \in BOOLEAN
BY DEF Next, vars, Fallback2PreOffset

\* Replication implements the abstract copy: until a slice ends with an item
\* unsent the slave's log only ever changes by taking over the master's item at
\* its own end (DoBinlogCommand) or by starting a file afresh
\* (SetProducerStatus).
THEOREM SyncImplementsCopy == Spec => CopySpec
<1>1. Init => Copy!Init
  BY CopySame DEF Init, Copy!Init
<1>2. Init => Unshifted /\ shifted \in BOOLEAN
  BY InitIInv DEF Unshifted, Init
<1>3. Unshifted /\ shifted \in BOOLEAN /\ [Next]_vars
        => (Unshifted /\ shifted \in BOOLEAN)'
  BY NextUnshifted, NextBoolean
<1>4. Unshifted /\ shifted \in BOOLEAN /\ [Next]_vars => [Copy!Next]_(Copy!vars)
  BY NextRefines
<1> QED
  BY <1>1, <1>2, <1>3, <1>4, PTL DEF Spec, CopySpec, Copy!Spec

-----------------------------------------------------------------------------
(* After a time slice has ended with an item unsent: labels lag behind.     *)

\* Items start in files that are not yet full.
StartsIn ==
  /\ master_end.offset <= FileSize
  /\ \A f \in Filenum, o \in Offset : master_log[f][o] # NoItem => o <= FileSize

\* A task's label is in its reader's file and not beyond it, and neither is the
\* point that Fallback2PreOffset may take the label back to.
Lags(x) ==
  /\ x.label.filenum = x.reader.filenum /\ x.label.offset <= x.reader.offset
  /\ ~x.send_next =>
       /\ x.content \in Item
       /\ x.pre.filenum = x.label.filenum /\ x.pre.offset <= x.label.offset

LagInv == DataOK /\ StartsIn /\ \A t \in Task : task[t] # NoTask => Lags(task[t])

\* A step of one task keeps it when the new task and the new messages are as they
\* should be.
LEMMA LagTaskStep ==
  ASSUME LagInv, UNCHANGED logs, NEW t \in Task, NEW x \in SendTask, Lags(x),
         task' = [task EXCEPT ![t] = x], \A m \in net' : m \in net \/ m \in Message
  PROVE  LagInv'
<1>1. DataOK' /\ StartsIn'
  BY DEF LagInv, DataOK, StartsIn, logs
<1>2. ASSUME NEW u \in Task, task'[u] # NoTask PROVE Lags(task'[u])
  BY <1>2 DEF LagInv, DataOK
<1> QED BY <1>1, <1>2 DEF LagInv

LEMMA LagStep == ASSUME LagInv, [Next]_vars PROVE LagInv'
<1>1. ASSUME NEW i \in Item, Put(i) PROVE LagInv'
  <2>1. master_end \in Point /\ master_log \in Log /\ After(master_end, i) \in Point
    BY <1>1 DEF LagInv, DataOK, Put
  <2>2. /\ master_log' \in Log
        /\ \A f \in Filenum, o \in Offset :
             master_log'[f][o] = IF f = master_end.filenum /\ o = master_end.offset
                                 THEN i ELSE master_log[f][o]
    BY <1>1, <2>1, WriteFacts DEF Put
  <2>3. master_end' = After(master_end, i) /\ UNCHANGED <<slave_log, slave_end, task, net>>
    BY <1>1 DEF Put
  <2>4. master_end.offset \in Nat /\ FileSize \in Nat
    BY <2>1, LogAssumption DEF Point, Offset
  <2>5. master_end'.offset <= FileSize
    BY <2>1, <2>3, <2>4, AfterFacts
  <2>6. StartsIn'
    BY <2>2, <2>5 DEF StartsIn, LagInv
  <2>7. DataOK'
    BY <2>1, <2>2, <2>3 DEF LagInv, DataOK
  <2> QED BY <2>3, <2>6, <2>7 DEF LagInv
<1>2. ASSUME NEW t \in Task, AddNewTask(t) PROVE LagInv'
  <2> DEFINE x == [label |-> slave_end, reader |-> slave_end, pre |-> Start(0),
                   content |-> NoItem, send_next |-> TRUE]
  <2>1. slave_end \in Point /\ 0 \in Filenum
    BY LogAssumption DEF LagInv, DataOK, Filenum
  <2>2. x \in SendTask
    BY <2>1, EmptyFacts DEF SendTask
  <2>3. slave_end.offset <= slave_end.offset
    BY <2>1, LogAssumption DEF Point, Offset
  <2>4. Lags(x)
    BY <2>3 DEF Lags
  <2>5. task' = [task EXCEPT ![t] = x] /\ UNCHANGED logs /\ net' = net
    BY <1>2 DEF AddNewTask
  <2> HIDE DEF x
  <2> QED BY <2>2, <2>4, <2>5, LagTaskStep
<1>3. ASSUME NEW t \in Task, RollToNextFile(t) PROVE LagInv'
  <2> DEFINE next == Start(task[t].label.filenum + 1)
             x == [task[t] EXCEPT !.label = next, !.reader = next, !.pre = task[t].label]
  <2>1. task[t] \in SendTask /\ task[t].send_next
    BY <1>3 DEF LagInv, DataOK, RollToNextFile, ToProcess
  <2>2. next \in Point /\ next.offset <= next.offset
    <3>1. task[t].label.filenum \in Nat /\ next.filenum = task[t].label.filenum + 1
      BY <2>1, SendTaskFields DEF Filenum, Start
    <3>2. next.filenum <= master_end.filenum /\ master_end.filenum \in Filenum
      BY <1>3 DEF RollToNextFile, LagInv, DataOK, Point
    <3>3. task[t].label.filenum + 1 \in Filenum
      BY <3>1, <3>2, LogAssumption DEF Filenum
    <3> QED BY <3>3, EmptyFacts DEF Start
  <2> HIDE DEF next
  <2>3. x \in SendTask /\ x.label = next /\ x.reader = next /\ x.send_next = task[t].send_next
    BY <2>1, <2>2 DEF SendTask
  <2>4. Lags(x)
    BY <2>1, <2>2, <2>3 DEF Lags
  <2>5. task' = [task EXCEPT ![t] = x] /\ UNCHANGED logs /\ net' = net
    BY <1>3, <2>1 DEF RollToNextFile, next, LagInv, DataOK
  <2> HIDE DEF x
  <2> QED BY <2>3, <2>4, <2>5, LagTaskStep
<1>4. ASSUME NEW t \in Task, ProcessTask(t) PROVE LagInv'
  <2> DEFINE i == ItemAt(master_log, task[t].reader)
             x == Consume(task[t])
  <2>1. task[t] \in SendTask /\ Lags(task[t])
    BY <1>4 DEF LagInv, DataOK, ProcessTask, ToProcess
  <2>2. /\ task[t].label \in Point /\ task[t].reader \in Point
        /\ task[t].reader.filenum \in Filenum /\ task[t].reader.offset \in Offset
        /\ task[t].label.offset \in Nat /\ task[t].reader.offset \in Nat
    BY <2>1, SendTaskFields DEF Offset
  <2>3. i \in Item /\ task[t].reader.offset <= FileSize
    BY <1>4, <2>2, LogAssumption DEF LagInv, DataOK, StartsIn, ProcessTask, ItemAt, Log, File
  <2>4. Length[i] \in Nat /\ FileSize + Length[i] <= MaxOffset
    BY <2>3, LogAssumption
  <2> HIDE DEF i
  <2>5. /\ task[t].reader.offset + Length[i] \in Offset
        /\ task[t].label.offset + Length[i] \in Offset
        /\ task[t].label.offset + Length[i] <= task[t].reader.offset + Length[i]
        /\ task[t].label.offset <= task[t].label.offset + Length[i]
    BY <2>1, <2>2, <2>3, <2>4, LogAssumption DEF Lags, Offset
  <2>6. /\ x.pre = task[t].label /\ x.content = i /\ x.send_next = task[t].send_next
        /\ x.label = [task[t].label EXCEPT !.offset = @ + Length[i]]
        /\ x.reader = [task[t].reader EXCEPT !.offset = @ + Length[i]]
        /\ x = [label |-> x.label, reader |-> x.reader, pre |-> x.pre,
                content |-> x.content, send_next |-> x.send_next]
    BY DEF Consume, i
  <2>7. PICK ok \in BOOLEAN, sent \in BOOLEAN :
          /\ task' = [task EXCEPT ![t] = [x EXCEPT !.send_next = ok]]
          /\ net' = IF sent THEN net \cup {SyncRequest(x)} ELSE net
          /\ UNCHANGED logs
    BY <1>4 DEF ProcessTask
  <2> DEFINE y == [x EXCEPT !.send_next = ok]
  <2> HIDE DEF x
  <2>8. /\ x.label \in Point /\ x.reader \in Point /\ x.pre \in Point /\ x.content \in Item
        /\ x.label.filenum = task[t].label.filenum
        /\ x.label.offset = task[t].label.offset + Length[i]
        /\ x.reader.filenum = task[t].reader.filenum
        /\ x.reader.offset = task[t].reader.offset + Length[i]
    BY <2>2, <2>3, <2>5, <2>6 DEF Point
  <2>9. /\ y.label = x.label /\ y.reader = x.reader /\ y.pre = x.pre /\ y.content = x.content
        /\ y \in SendTask
    BY <2>6, <2>8 DEF SendTask
  <2>10. task' = [task EXCEPT ![t] = y] /\ UNCHANGED logs
    BY <2>7
  <2>11. \A m \in net' : m \in net \/ m \in Message
    BY <2>7, <2>8 DEF SyncRequest, Message
  <2> HIDE DEF y
  <2>12. Lags(y)
    BY <2>1, <2>5, <2>6, <2>8, <2>9 DEF Lags
  <2> QED BY <2>9, <2>10, <2>11, <2>12, LagTaskStep
<1>5. ASSUME NEW t \in Task, Resend(t) PROVE LagInv'
  <2> DEFINE x == [task[t] EXCEPT !.send_next = TRUE]
  <2>1. task[t] \in SendTask /\ Lags(task[t]) /\ task[t].content \in Item
    BY <1>5 DEF LagInv, DataOK, Resend, Lags
  <2>2. x \in SendTask /\ x.label = task[t].label /\ x.reader = task[t].reader /\ x.send_next
    BY <2>1 DEF SendTask
  <2>3. Lags(x)
    BY <2>1, <2>2 DEF Lags
  <2>4. \A m \in net' : m \in net \/ m \in Message
    BY <1>5, <2>1, SendTaskFields DEF Resend, SyncRequest, Message
  <2>5. task' = [task EXCEPT ![t] = x] /\ UNCHANGED logs
    BY <1>5, <2>1 DEF Resend, LagInv, DataOK
  <2> HIDE DEF x
  <2> QED BY <2>2, <2>3, <2>4, <2>5, LagTaskStep
<1>6. ASSUME NEW t \in Task, Fallback2PreOffset(t) PROVE LagInv'
  <2> DEFINE x == [task[t] EXCEPT !.label = task[t].pre]
  <2>1. task[t] \in SendTask /\ Lags(task[t]) /\ ~task[t].send_next
    BY <1>6 DEF LagInv, DataOK, Fallback2PreOffset
  <2>2. /\ x \in SendTask /\ x.label = task[t].pre /\ x.reader = task[t].reader
        /\ x.pre = task[t].pre /\ x.content = task[t].content
    BY <2>1 DEF SendTask
  <2>3. /\ task[t].pre.offset \in Nat /\ task[t].label.offset \in Nat
        /\ task[t].reader.offset \in Nat
    BY <2>1, SendTaskFields DEF Point, Offset
  <2>4. Lags(x)
    BY <2>1, <2>2, <2>3 DEF Lags
  <2>5. task' = [task EXCEPT ![t] = x] /\ UNCHANGED logs /\ net' = net
    BY <1>6, <2>1 DEF Fallback2PreOffset, LagInv, DataOK
  <2> HIDE DEF x
  <2> QED BY <2>2, <2>4, <2>5, LagTaskStep
<1>11. ASSUME NEW t \in Task, RollFails(t) PROVE LagInv'
  <2>1. UNCHANGED <<logs, net>> /\ task' = [task EXCEPT ![t] = NoTask]
    BY <1>11 DEF RollFails
  <2>2. \A u \in Task : task'[u] # NoTask => task'[u] = task[u]
    BY <2>1 DEF LagInv, DataOK
  <2> QED BY <2>1, <2>2 DEF logs, LagInv, DataOK, StartsIn
<1>7. ASSUME NEW m \in net, Lose(m) PROVE LagInv'
  BY <1>7 DEF Lose, logs, LagInv, DataOK, StartsIn
<1>8. ASSUME NEW m \in net, DoBinlogCommand(m) PROVE LagInv'
  <2>1. m.item \in Item /\ slave_log \in Log /\ slave_end \in Point
    BY DEF LagInv, DataOK, Message
  <2>2. Write(slave_log, slave_end, m.item) \in Log
    BY <2>1, WriteFacts
  <2> QED BY <1>8, <2>2 DEF DoBinlogCommand, LagInv, DataOK, StartsIn
<1>9. ASSUME NEW f \in Filenum, SetProducerStatus(f) PROVE LagInv'
  <2>1. CutAt(slave_log, slave_end, f) \in Log /\ Start(f) \in Point
    BY CutFacts, EmptyFacts DEF LagInv, DataOK
  <2> QED BY <1>9, <2>1 DEF SetProducerStatus, LagInv, DataOK, StartsIn
<1>10. CASE UNCHANGED vars
  BY <1>10 DEF vars, logs, LagInv, DataOK, StartsIn
<1> QED BY <1>1, <1>2, <1>3, <1>4, <1>5, <1>6, <1>7, <1>8, <1>9, <1>10, <1>11 DEF Next, Step

\* For any items, file size and number of tasks, and however often a time slice
\* ends with an item unsent: labels are true until the first such end, and after
\* it a label lags behind its reader, in the same file, and never runs ahead of
\* what has been read (RecordPreOffset, Consume, Fallback2PreOffset).
THEOREM LabelsKept == Spec => []LabelsOK
<1>1. Init => LagInv
  <2> SUFFICES ASSUME Init PROVE LagInv
    OBVIOUS
  <2>1. DataOK
    BY InitIInv DEF IInv
  <2>2. StartsIn
    BY EmptyFacts, LogAssumption DEF Init, StartsIn, Start
  <2> QED BY <2>1, <2>2 DEF LagInv, Init
<1>2. LagInv /\ [Next]_vars => LagInv'
  BY LagStep
<1>3. LabelIsPlace /\ LagInv => LabelsOK
  BY DEF LagInv, Lags, LabelsOK, LabelNotAhead
<1> QED BY <1>1, <1>2, <1>3, SyncSafety, PTL DEF Spec

-----------------------------------------------------------------------------
(***************************************************************************)
(* Failover.  The inductive invariant: what a log looks like, what a send  *)
(* task tells about the two ends, and how much of two logs is the same:    *)
(* of those of a slave and the master that serves it, and, under the first *)
(* master, of everybody's and the master's.                                *)
(***************************************************************************)

\* The place f, o lies before p.
Upto(f, o, p) == f < p.filenum \/ (f = p.filenum /\ o < p.offset)

\* A node's log has nothing in purged files and nothing from its end on; items do
\* not overlap, and one that exceeds FileSize is the last of its file.
Shape(n) ==
  /\ purged[n] <= end[n].filenum
  /\ end[n].offset <= FileSize
  /\ \A f \in Filenum, o \in Offset : log[n][f][o] # NoItem =>
       /\ f >= purged[n] /\ Upto(f, o, end[n])
       /\ f = end[n].filenum => o + Length[log[n][f][o]] <= end[n].offset
       /\ \A q \in Offset : o < q /\ log[n][f][q] # NoItem =>
            o + Length[log[n][f][o]] <= q /\ o + Length[log[n][f][o]] <= FileSize

ShapeInv == \A n \in Node : Shape(n)

\* Send tasks are those of a node that takes itself for the master; who is served is
\* not ahead; a master has not fallen back behind the point where it won.
SessionInv ==
  /\ \A m \in Node : served[m] # {} => IsMaster(m)
  /\ \A n \in Node : Attached(n) => ~Before(end[MasterOf(n)], end[n])
  /\ \A n \in Node : IsMaster(n) => ~Before(end[n], win[n])

\* The log of n, as far as it goes, is that of m.
Same(n, m) ==
  \A f \in Filenum, o \in Offset :
    f >= purged[n] /\ f >= purged[m] /\ Upto(f, o, end[n]) => log[n][f][o] = log[m][f][o]

AgreeInv == \A n \in Node \ blind : Attached(n) => Same(n, MasterOf(n))

\* Under the first master nobody has anything that the master has not.
FirstInv ==
  Len(masters) = 1 =>
    /\ blind = {}
    /\ \A n \in Node : Same(n, Elected) /\ ~Before(end[Elected], end[n])

FInv == FailoverTypeOK /\ ShapeInv /\ SessionInv /\ AgreeInv /\ FirstInv

-----------------------------------------------------------------------------
(* Points of a log are in a total order.                                   *)

LEMMA PointFields ==
  ASSUME NEW p \in Point
  PROVE  /\ p.filenum \in Filenum /\ p.offset \in Offset
         /\ p.filenum \in Nat /\ p.offset \in Nat
BY DEF Point, Filenum, Offset

LEMMA PlaceNat == ASSUME NEW f \in Filenum, NEW o \in Offset PROVE f \in Nat /\ o \in Nat
BY DEF Filenum, Offset

LEMMA Order ==
  ASSUME NEW p \in Point, NEW q \in Point, NEW r \in Point
  PROVE  /\ ~Before(p, p)
         /\ Before(p, q) => ~Before(q, p)
         /\ Before(p, q) /\ ~Before(r, q) => Before(p, r)
         /\ ~Before(q, p) /\ Before(q, r) => Before(p, r)
         /\ ~Before(q, p) /\ ~Before(r, q) => ~Before(r, p)
BY PointFields DEF Before

\* What lies before p lies before whatever is not before p.
LEMMA UptoMono ==
  ASSUME NEW f \in Filenum, NEW o \in Offset, NEW p \in Point, NEW q \in Point,
         Upto(f, o, p), ~Before(q, p)
  PROVE  Upto(f, o, q)
BY PointFields, PlaceNat DEF Upto, Before

LEMMA AgreeUpto ==
  ASSUME NEW f, NEW o, NEW p
  PROVE  Before([filenum |-> f, offset |-> o], p) <=> Upto(f, o, p)
BY DEF Before, Upto

LEMMA AgreeSame == \A n, m : Agree(n, m) <=> Same(n, m)
BY AgreeUpto DEF Agree, Same

\* The point after an item is later.
LEMMA AfterLater ==
  ASSUME NEW p \in Point, NEW i \in Item, After(p, i) \in Point
  PROVE  Before(p, After(p, i)) /\ After(p, i).offset <= FileSize
BY AfterFacts, PointFields, LogAssumption DEF Before

-----------------------------------------------------------------------------
(* The state of a node.                                                    *)

LEMMA NodeFacts ==
  ASSUME FailoverTypeOK, NEW n \in Node
  PROVE  /\ end[n] \in Point /\ win[n] \in Point /\ log[n] \in Log
         /\ purged[n] \in Filenum /\ purged[n] \in Nat
         /\ epoch[n] \in Nat /\ epoch[n] <= Len(masters)
         /\ served[n] \subseteq Node /\ attached[n] \in BOOLEAN
BY FailoverAssumption DEF FailoverTypeOK, Filenum

LEMMA ItemFacts ==
  ASSUME FailoverTypeOK, NEW n \in Node, NEW f \in Filenum, NEW o \in Offset
  PROVE  log[n][f][o] \in Item \cup {NoItem}
BY DEF FailoverTypeOK, Log, File

LEMMA MasterFacts ==
  ASSUME FailoverTypeOK
  PROVE  /\ Len(masters) \in Nat /\ Len(masters) >= 1 /\ Elected \in Node
         /\ \A e \in 1..Len(masters) : masters[e] \in Node
         /\ \A n \in Node : /\ epoch[n] = 0 => MasterOf(n) = NoNode
                            /\ epoch[n] # 0 => MasterOf(n) = masters[epoch[n]] /\ MasterOf(n) \in Node
                            /\ epoch[n] = Len(masters) => MasterOf(n) = Elected
                            /\ IsMaster(n) => epoch[n] # 0
<1>1. Len(masters) \in Nat /\ Len(masters) >= 1 /\ \A e \in 1..Len(masters) : masters[e] \in Node
  BY FailoverAssumption DEF FailoverTypeOK
<1>2. Elected \in Node
  BY <1>1 DEF Elected
<1>3. ASSUME NEW n \in Node, epoch[n] # 0
      PROVE  epoch[n] \in 1..Len(masters)
  BY <1>1, <1>3, NodeFacts
<1> QED BY <1>1, <1>2, <1>3, FailoverAssumption DEF MasterOf, Elected, IsMaster

LEMMA FirstMaster ==
  ASSUME FailoverTypeOK, Len(masters) = 1, NEW n \in Node, epoch[n] # 0
  PROVE  MasterOf(n) = Elected
BY MasterFacts, NodeFacts

LEMMA AttachedFacts ==
  ASSUME FailoverTypeOK, NEW n \in Node, Attached(n)
  PROVE  /\ MasterOf(n) \in Node /\ MasterOf(n) # n /\ epoch[n] # 0
         /\ n \in served[MasterOf(n)] /\ attached[n]
BY MasterFacts DEF Attached, IsSlave

-----------------------------------------------------------------------------
(* Changes of one node's log.                                              *)

\* n appends item i to its log.
Appends(n, i) ==
  /\ log' = [log EXCEPT ![n] = Write(@, end[n], i)]
  /\ end' = [end EXCEPT ![n] = After(@, i)]
  /\ After(end[n], i) \in Point
  /\ purged' = purged

LEMMA AppendFacts ==
  ASSUME FailoverTypeOK, NEW n \in Node, NEW i \in Item, Appends(n, i)
  PROVE  /\ log' \in [Node -> Log] /\ end' \in [Node -> Point]
         /\ \A x \in Node : x # n => log'[x] = log[x] /\ end'[x] = end[x]
         /\ end'[n] = After(end[n], i) /\ Before(end[n], end'[n])
         /\ end'[n] \in Point /\ end'[n].offset <= FileSize
         /\ \A f \in Filenum, o \in Offset :
              log'[n][f][o] = IF f = end[n].filenum /\ o = end[n].offset THEN i ELSE log[n][f][o]
<1>1. end[n] \in Point /\ log[n] \in Log
  BY NodeFacts
<1>2. log \in [Node -> Log] /\ end \in [Node -> Point]
  BY DEF FailoverTypeOK
<1>3. Write(log[n], end[n], i) \in Log
  BY <1>1, WriteFacts
<1>4. log' \in [Node -> Log] /\ end' \in [Node -> Point]
  BY <1>2, <1>3 DEF Appends
<1>5. log'[n] = Write(log[n], end[n], i) /\ end'[n] = After(end[n], i)
  BY <1>2 DEF Appends
<1>6. \A x \in Node : x # n => log'[x] = log[x] /\ end'[x] = end[x]
  BY <1>2 DEF Appends
<1>7. Before(end[n], end'[n]) /\ end'[n] \in Point /\ end'[n].offset <= FileSize
  BY <1>1, <1>5, AfterLater DEF Appends
<1> QED BY <1>1, <1>4, <1>5, <1>6, <1>7, WriteFacts

LEMMA AppendShape ==
  ASSUME FailoverTypeOK, ShapeInv, NEW n \in Node, NEW i \in Item, Appends(n, i)
  PROVE  ShapeInv'
<1> USE AppendFacts
<1> SUFFICES ASSUME NEW x \in Node PROVE Shape(x)'
  BY DEF ShapeInv
<1>1. CASE x # n
  <2>1. log'[x] = log[x] /\ end'[x] = end[x] /\ purged'[x] = purged[x] /\ Shape(x)
    BY <1>1 DEF ShapeInv, Appends
  <2> QED BY <2>1 DEF Shape, Upto
<1>2. CASE x = n
  <2> DEFINE p == end[n]
             q == end'[n]
  <2>1. /\ Shape(n) /\ purged'[n] = purged[n] /\ purged[n] \in Nat
        /\ p \in Point /\ q \in Point /\ Before(p, q) /\ q.offset <= FileSize
        /\ p.filenum \in Nat /\ q.filenum \in Nat /\ p.offset \in Nat /\ q.offset \in Nat
    BY NodeFacts, PointFields DEF ShapeInv, Appends
  <2>2. /\ Length[i] \in Nat /\ Length[i] > 0 /\ FileSize \in Nat
        /\ p.offset + Length[i] > FileSize => q.filenum = p.filenum + 1 /\ q.offset = 0
        /\ p.offset + Length[i] <= FileSize => q.filenum = p.filenum /\ q.offset = p.offset + Length[i]
    BY <2>1, AfterFacts, LogAssumption
  <2>3. purged'[n] <= q.filenum
    BY <2>1, <2>2 DEF Shape
  <2>4. ASSUME NEW f \in Filenum, NEW o \in Offset, log'[n][f][o] # NoItem
        PROVE  /\ f >= purged[n] /\ Upto(f, o, q)
               /\ f = q.filenum => o + Length[log'[n][f][o]] <= q.offset
               /\ \A r \in Offset : o < r /\ log'[n][f][r] # NoItem =>
                    o + Length[log'[n][f][o]] <= r /\ o + Length[log'[n][f][o]] <= FileSize
    <3>0. f \in Nat /\ o \in Nat /\ \A r \in Offset : r \in Nat
      BY PlaceNat
    <3>1. CASE f = p.filenum /\ o = p.offset
      <4>1. log'[n][f][o] = i
        BY <3>1
      <4>2. ASSUME NEW r \in Offset, o < r PROVE log'[n][f][r] = NoItem
        <5>1. log'[n][f][r] = log[n][f][r]
          BY <4>2, <3>0, <3>1
        <5>2. ~Upto(f, r, p)
          BY <3>0, <3>1, <4>2, <2>1 DEF Upto
        <5> QED BY <5>1, <5>2, <2>1 DEF Shape
      <4>3. f >= purged[n]
        BY <3>1, <2>1 DEF Shape
      <4>4. Upto(f, o, q) /\ (f = q.filenum => o + Length[i] <= q.offset)
        BY <3>1, <2>1, <2>2 DEF Upto
      <4> QED BY <4>1, <4>2, <4>3, <4>4
    <3>2. CASE ~(f = p.filenum /\ o = p.offset)
      <4>1. log'[n][f][o] = log[n][f][o] /\ log[n][f][o] # NoItem
        BY <3>2, <2>4
      <4>2. /\ f >= purged[n] /\ Upto(f, o, p)
            /\ f = p.filenum => o + Length[log[n][f][o]] <= p.offset
            /\ \A r \in Offset : o < r /\ log[n][f][r] # NoItem =>
                 o + Length[log[n][f][o]] <= r /\ o + Length[log[n][f][o]] <= FileSize
        BY <4>1, <2>1 DEF Shape
      <4>3. Length[log[n][f][o]] \in Nat
        BY <4>1, ItemFacts, LogAssumption
      <4>4. Upto(f, o, q)
        BY <4>2, <2>1, UptoMono, Order
      <4>5. f = q.filenum => o + Length[log[n][f][o]] <= q.offset
        BY <4>2, <4>3, <2>1, <2>2, <3>0 DEF Upto
      <4>6. ASSUME NEW r \in Offset, o < r, log'[n][f][r] # NoItem
            PROVE  o + Length[log[n][f][o]] <= r /\ o + Length[log[n][f][o]] <= FileSize
        <5>1. CASE f = p.filenum /\ r = p.offset
          BY <5>1, <4>2, <4>3, <2>1, <2>2, <3>0, SMTT(30) DEF Shape
        <5>2. CASE ~(f = p.filenum /\ r = p.offset)
          BY <5>2, <4>2, <4>6
        <5> QED BY <5>1, <5>2
      <4> QED BY <4>1, <4>2, <4>4, <4>5, <4>6
    <3> QED BY <3>1, <3>2
  <2> QED BY <1>2, <2>1, <2>3, <2>4 DEF Shape
<1> QED BY <1>1, <1>2

\* n appends an item that another node has at that place: their logs agree as far
\* as n's now goes if they did before.
LEMMA AppendPair ==
  ASSUME FailoverTypeOK, ShapeInv, NEW n \in Node, NEW i \in Item, Appends(n, i),
         NEW y \in Node, NEW f \in Filenum, NEW o \in Offset,
         Upto(f, o, end'[n]),
         Upto(f, o, end[n]) => log[n][f][o] = log[y][f][o],
         ~Upto(f, o, end[n]) => log[y][end[n].filenum][end[n].offset] = i
  PROVE  log'[n][f][o] = log[y][f][o]
<1> DEFINE p == end[n]
<1>0. /\ p \in Point /\ p.filenum \in Nat /\ p.offset \in Nat /\ f \in Nat /\ o \in Nat
      /\ p.filenum \in Filenum /\ p.offset \in Offset /\ FileSize \in Nat /\ i # NoItem
  BY NodeFacts, PointFields, PlaceNat, LogAssumption
<1>1. CASE Upto(f, o, p)
  <2>1. ~(f = p.filenum /\ o = p.offset)
    BY <1>0, <1>1 DEF Upto
  <2> QED BY <1>1, <2>1, AppendFacts
<1>2. CASE ~Upto(f, o, p)
  <2>1. /\ Length[i] \in Nat /\ Length[i] > 0
        /\ p.offset + Length[i] > FileSize =>
             end'[n].filenum = p.filenum + 1 /\ end'[n].offset = 0
        /\ p.offset + Length[i] <= FileSize =>
             end'[n].filenum = p.filenum /\ end'[n].offset = p.offset + Length[i]
    BY <1>0, AfterFacts, AppendFacts
  <2>2. f = p.filenum /\ p.offset <= o
    BY <1>0, <1>2, <2>1 DEF Upto
  <2>3. CASE o = p.offset
    BY <2>2, <2>3, <1>2, <1>0, AppendFacts
  <2>4. CASE o # p.offset
    <3>1. log'[n][f][o] = log[n][f][o] /\ log[n][f][o] = NoItem
      BY <2>4, <1>2, AppendFacts DEF ShapeInv, Shape
    <3>2. ASSUME log[y][f][o] # NoItem PROVE FALSE
      <4>1. p.offset + Length[i] <= o /\ p.offset + Length[i] <= FileSize
        BY <3>2, <1>0, <1>2, <2>2, <2>4 DEF ShapeInv, Shape
      <4> QED BY <4>1, <2>1, <2>2, <1>0 DEF Upto
    <3> QED BY <3>1, <3>2
  <2> QED BY <2>3, <2>4
<1> QED BY <1>1, <1>2

\* An item ends where the log that has it ends or before.
LEMMA ItemEnds ==
  ASSUME FailoverTypeOK, ShapeInv, NEW m \in Node, NEW p \in Point,
         ItemAt(log[m], p) # NoItem
  PROVE  /\ ItemAt(log[m], p) \in Item
         /\ p.filenum >= purged[m] /\ Upto(p.filenum, p.offset, end[m])
         /\ After(p, ItemAt(log[m], p)) \in Point
         /\ ~Before(end[m], After(p, ItemAt(log[m], p)))
<1> DEFINE i == ItemAt(log[m], p)
           a == After(p, i)
<1>1. /\ p.filenum \in Filenum /\ p.offset \in Offset /\ p.filenum \in Nat /\ p.offset \in Nat
      /\ end[m] \in Point /\ end[m].filenum \in Nat /\ end[m].offset \in Nat
      /\ end[m].filenum \in 0..MaxFilenum /\ FileSize \in Nat /\ MaxFilenum \in Nat
  BY NodeFacts, PointFields, LogAssumption DEF Filenum
<1>2. i \in Item /\ i = log[m][p.filenum][p.offset]
  BY <1>1, ItemFacts DEF ItemAt
<1>3. /\ p.filenum >= purged[m] /\ Upto(p.filenum, p.offset, end[m])
      /\ p.filenum = end[m].filenum => p.offset + Length[i] <= end[m].offset
      /\ end[m].offset <= FileSize
  BY <1>1, <1>2 DEF ShapeInv, Shape
<1>4. /\ Length[i] \in Nat /\ Length[i] > 0 /\ FileSize + Length[i] <= MaxOffset /\ MaxOffset \in Nat
      /\ p.offset + Length[i] > FileSize => a.filenum = p.filenum + 1 /\ a.offset = 0
      /\ p.offset + Length[i] <= FileSize => a.filenum = p.filenum /\ a.offset = p.offset + Length[i]
  BY <1>2, AfterFacts, LogAssumption
<1>5. ~Before(end[m], a)
  BY <1>1, <1>3, <1>4 DEF Before, Upto
<1>6. a \in Point
  <2>1. CASE p.offset + Length[i] > FileSize
    <3>1. p.filenum + 1 \in Filenum
      BY <1>1, <1>3, <1>4, <2>1 DEF Upto, Filenum
    <3> QED BY <3>1, <2>1, EmptyFacts DEF After
  <2>2. CASE ~(p.offset + Length[i] > FileSize)
    <3>1. p.offset + Length[i] \in Offset
      BY <1>1, <1>4, <2>2 DEF Offset
    <3> QED BY <3>1, <2>2, <1>1 DEF After, Point
  <2> QED BY <2>1, <2>2
<1> QED BY <1>2, <1>3, <1>5, <1>6

\* SetBinlogOffset leaves a part of what there was.
LEMMA CutLog ==
  ASSUME FailoverTypeOK, ShapeInv, NEW n \in Node, NEW t \in Point, SetBinlogOffset(n, Start(t.filenum))
  PROVE  /\ log' \in [Node -> Log] /\ end' \in [Node -> Point] /\ purged' \in [Node -> Filenum]
         /\ \A x \in Node : x # n => log'[x] = log[x] /\ end'[x] = end[x] /\ purged'[x] = purged[x]
         /\ end'[n] = Start(t.filenum) /\ ~Before(t, end'[n])
         /\ \A f \in Filenum, o \in Offset :
              f >= purged'[n] /\ Upto(f, o, end'[n]) =>
                /\ f >= purged[n] /\ Upto(f, o, end[n])
                /\ log'[n][f][o] = log[n][f][o]
         /\ ShapeInv'
<1> DEFINE g == t.filenum
<1>1. /\ end[n] \in Point /\ log[n] \in Log /\ g \in Filenum /\ g \in Nat /\ t.offset \in Nat
      /\ purged[n] \in Nat /\ end[n].filenum \in Nat /\ end[n].offset \in Nat
      /\ Start(g).filenum = g /\ Start(g).offset = 0 /\ FileSize \in Nat
      /\ Start(g) \in Point
  BY NodeFacts, PointFields, EmptyFacts, LogAssumption DEF Start
<1>2. log \in [Node -> Log] /\ end \in [Node -> Point] /\ purged \in [Node -> Filenum]
  BY DEF FailoverTypeOK
<1>3. /\ log' = [log EXCEPT ![n] = CutAt(@, end[n], g)]
      /\ end' = [end EXCEPT ![n] = Start(g)]
      /\ purged' = [purged EXCEPT ![n] = IF end[n].filenum < g \/ g < @ THEN g ELSE @]
  BY <1>1 DEF SetBinlogOffset
<1>4. log' \in [Node -> Log] /\ end' \in [Node -> Point] /\ purged' \in [Node -> Filenum]
  BY <1>1, <1>2, <1>3, CutFacts
<1>5. \A x \in Node : x # n => log'[x] = log[x] /\ end'[x] = end[x] /\ purged'[x] = purged[x]
  BY <1>2, <1>3
<1>6. /\ log'[n] = CutAt(log[n], end[n], g) /\ end'[n] = Start(g)
      /\ purged'[n] = IF end[n].filenum < g \/ g < purged[n] THEN g ELSE purged[n]
  BY <1>2, <1>3
<1>7. ~Before(t, end'[n])
  BY <1>1, <1>6 DEF Before
<1>8. \A f \in Filenum, o \in Offset :
        log'[n][f][o] = IF end[n].filenum < g \/ f >= g THEN NoItem ELSE log[n][f][o]
  BY <1>6 DEF CutAt, EmptyFile
<1>9. ASSUME NEW f \in Filenum, NEW o \in Offset, f >= purged'[n], Upto(f, o, end'[n])
      PROVE  f >= purged[n] /\ Upto(f, o, end[n]) /\ log'[n][f][o] = log[n][f][o]
  BY <1>1, <1>6, <1>8, <1>9, PlaceNat DEF Upto
<1>10. ASSUME NEW x \in Node PROVE Shape(x)'
  <2>1. CASE x # n
    BY <1>5, <2>1 DEF ShapeInv, Shape, Upto
  <2>2. CASE x = n
    <3>1. purged'[n] <= end'[n].filenum /\ end'[n].offset <= FileSize
      BY <1>1, <1>6
    <3>2. ASSUME NEW f \in Filenum, NEW o \in Offset, log'[n][f][o] # NoItem
          PROVE  /\ f >= purged'[n] /\ Upto(f, o, end'[n]) /\ f # end'[n].filenum
                 /\ log'[n][f][o] = log[n][f][o]
      <4>1. log'[n][f][o] = log[n][f][o] /\ f < g /\ f \in Nat /\ ~(end[n].filenum < g)
        BY <1>1, <1>8, <3>2, PlaceNat
      <4>2. f >= purged[n]
        BY <4>1, <3>2 DEF ShapeInv, Shape
      <4> QED BY <4>1, <4>2, <1>1, <1>6 DEF Upto
    <3>3. ASSUME NEW f \in Filenum, NEW o \in Offset, log'[n][f][o] # NoItem
          PROVE  \A q \in Offset : o < q /\ log'[n][f][q] # NoItem =>
                   o + Length[log'[n][f][o]] <= q /\ o + Length[log'[n][f][o]] <= FileSize
      BY <3>2, <3>3 DEF ShapeInv, Shape
    <3> QED BY <2>2, <3>1, <3>2, <3>3 DEF Shape
  <2> QED BY <2>1, <2>2
<1> QED BY <1>4, <1>5, <1>6, <1>7, <1>9, <1>10 DEF ShapeInv

\* Purge takes one file.
LEMMA PurgeLog ==
  ASSUME FailoverTypeOK, ShapeInv, NEW n \in Node, Purge(n)
  PROVE  /\ log' \in [Node -> Log] /\ purged' \in [Node -> Filenum]
         /\ \A x \in Node : x # n => log'[x] = log[x] /\ purged'[x] = purged[x]
         /\ \A f \in Filenum, o \in Offset : f >= purged'[n] =>
              f >= purged[n] /\ log'[n][f][o] = log[n][f][o]
         /\ ShapeInv'
<1> DEFINE g == purged[n]
<1>1. /\ end[n].filenum \in Filenum /\ end[n].filenum \in 0..MaxFilenum /\ MaxFilenum \in Nat
      /\ end[n].filenum \in Nat /\ end[n].offset \in Nat
      /\ log[n] \in Log /\ g \in Filenum /\ g \in Nat /\ g < end[n].filenum
  BY NodeFacts, PointFields, LogAssumption DEF Filenum, Purge
<1>2. log \in [Node -> Log] /\ purged \in [Node -> Filenum]
  BY DEF FailoverTypeOK
<1>3. EmptyFile \in File /\ \A o \in Offset : EmptyFile[o] = NoItem
  BY DEF EmptyFile, File
<1>4. [log[n] EXCEPT ![g] = EmptyFile] \in Log
  BY <1>1, <1>3 DEF Log
<1>5. log' = [log EXCEPT ![n] = [@ EXCEPT ![g] = EmptyFile]] /\ purged' = [purged EXCEPT ![n] = g + 1]
  BY DEF Purge
<1>6. g + 1 \in Filenum
  BY <1>1 DEF Filenum
<1>7. log' \in [Node -> Log] /\ purged' \in [Node -> Filenum]
  BY <1>2, <1>4, <1>5, <1>6
<1>8. \A x \in Node : x # n => log'[x] = log[x] /\ purged'[x] = purged[x]
  BY <1>2, <1>5
<1>9. log'[n] = [log[n] EXCEPT ![g] = EmptyFile] /\ purged'[n] = g + 1
  BY <1>2, <1>5
<1>10. \A f \in Filenum, o \in Offset :
         log'[n][f][o] = IF f = g THEN NoItem ELSE log[n][f][o]
  BY <1>1, <1>3, <1>9 DEF Log
<1>11. ASSUME NEW x \in Node PROVE Shape(x)'
  <2>0. end'[x] = end[x]
    BY DEF Purge
  <2>1. CASE x # n
    BY <1>8, <2>0, <2>1 DEF ShapeInv, Shape, Upto
  <2>2. CASE x = n
    <3>1. purged'[n] <= end[n].filenum
      BY <1>1, <1>9
    <3>2. ASSUME NEW f \in Filenum, NEW o \in Offset, log'[n][f][o] # NoItem
          PROVE  f >= purged'[n] /\ log'[n][f][o] = log[n][f][o]
      <4>1. log'[n][f][o] = log[n][f][o] /\ f # g /\ f \in Nat
        BY <1>10, <3>2, PlaceNat
      <4>2. f >= g
        BY <4>1, <3>2 DEF ShapeInv, Shape
      <4> QED BY <4>1, <4>2, <1>1, <1>9
    <3> QED BY <2>0, <2>2, <3>1, <3>2 DEF ShapeInv, Shape, Upto
  <2> QED BY <2>1, <2>2
<1>12. ASSUME NEW f \in Filenum, NEW o \in Offset, f >= purged'[n]
       PROVE  f >= purged[n] /\ log'[n][f][o] = log[n][f][o]
  BY <1>1, <1>9, <1>10, <1>12, PlaceNat
<1> QED BY <1>7, <1>8, <1>11, <1>12 DEF ShapeInv

-----------------------------------------------------------------------------
(* Steps that change no role.                                              *)

LEMMA SameRoles ==
  ASSUME UNCHANGED <<masters, epoch>>
  PROVE  /\ Elected' = Elected /\ Len(masters)' = Len(masters)
         /\ \A x : /\ MasterOf(x)' = MasterOf(x) /\ IsMaster(x)' = IsMaster(x)
                   /\ IsSlave(x)' = IsSlave(x)
BY DEF Elected, MasterOf, IsMaster, IsSlave

-----------------------------------------------------------------------------
(* A slave takes over an item.                                             *)

LEMMA TakeOverAppends ==
  ASSUME FInv, NEW n \in Node, TakeOver(n)
  PROVE  LET m == MasterOf(n)
             i == ItemAt(log[m], end[n])
         IN /\ m \in Node /\ m # n /\ IsMaster(m) /\ ~IsMaster(n) /\ Attached(n)
            /\ i \in Item /\ Appends(n, i) /\ ~Before(end[m], end'[n])
            /\ i = log[m][end[n].filenum][end[n].offset]
            /\ end[n].filenum >= purged[m] /\ Upto(end[n].filenum, end[n].offset, end[m])
            /\ ~Before(end[m], end[n]) /\ served[n] = {}
            /\ UNCHANGED <<masters, epoch, purged, win, attached, served, restarts, blind>>
<1> USE DEF FInv
<1> DEFINE m == MasterOf(n)
           i == ItemAt(log[m], end[n])
<1>1. Attached(n) /\ i # NoItem /\ UNCHANGED <<masters, epoch, purged, win, attached, served, restarts, blind>>
  BY DEF TakeOver
<1>2. m \in Node /\ m # n /\ n \in served[m] /\ end[n] \in Point
  BY <1>1, AttachedFacts, NodeFacts
<1>3. IsMaster(m) /\ ~IsMaster(n)
  BY <1>1, <1>2 DEF SessionInv, Attached, IsSlave, IsMaster
<1>4. served[n] = {}
  BY <1>3 DEF SessionInv
<1>5. /\ i \in Item /\ end[n].filenum >= purged[m] /\ Upto(end[n].filenum, end[n].offset, end[m])
      /\ After(end[n], i) \in Point /\ ~Before(end[m], After(end[n], i))
  BY <1>1, <1>2, ItemEnds
<1>6. Appends(n, i)
  BY <1>5 DEF TakeOver, Appends
<1>7. ~Before(end[m], end'[n])
  BY <1>5, <1>6, AppendFacts
<1>8. ~Before(end[m], end[n])
  BY <1>1 DEF SessionInv
<1> QED BY <1>1, <1>2, <1>3, <1>4, <1>5, <1>6, <1>7, <1>8 DEF ItemAt

LEMMA TakeOverInv == ASSUME FInv, NEW n \in Node, TakeOver(n) PROVE FInv'
<1> DEFINE m == MasterOf(n)
           i == ItemAt(log[m], end[n])
           p == end[n]
           E == Elected
<1>1. /\ m \in Node /\ m # n /\ IsMaster(m) /\ ~IsMaster(n) /\ Attached(n)
      /\ i \in Item /\ Appends(n, i) /\ ~Before(end[m], end'[n])
      /\ i = log[m][p.filenum][p.offset]
      /\ p.filenum >= purged[m] /\ Upto(p.filenum, p.offset, end[m])
      /\ ~Before(end[m], p) /\ served[n] = {}
      /\ UNCHANGED <<masters, epoch, purged, win, attached, served, restarts, blind>>
  BY TakeOverAppends
<1>2. FailoverTypeOK /\ ShapeInv /\ SessionInv /\ AgreeInv /\ FirstInv
  BY DEF FInv
<1>3. /\ log' \in [Node -> Log] /\ end' \in [Node -> Point]
      /\ \A x \in Node : x # n => log'[x] = log[x] /\ end'[x] = end[x]
      /\ Before(p, end'[n]) /\ end'[n] \in Point
  BY <1>1, <1>2, AppendFacts
<1>4. FailoverTypeOK'
  BY <1>1, <1>2, <1>3 DEF FailoverTypeOK
<1>5. ShapeInv'
  BY <1>1, <1>2, AppendShape
<1>6. /\ E' = E /\ Len(masters)' = Len(masters)
      /\ \A x : /\ MasterOf(x)' = MasterOf(x) /\ IsMaster(x)' = IsMaster(x)
                /\ IsSlave(x)' = IsSlave(x)
                /\ Attached(x)' = Attached(x)
  BY <1>1, SameRoles DEF Attached
<1>7. /\ E \in Node /\ p \in Point /\ end[m] \in Point /\ end[E] \in Point /\ win[E] \in Point
      /\ \A x \in Node : end[x] \in Point /\ win[x] \in Point
  BY <1>1, <1>2, MasterFacts, NodeFacts
<1>8. SessionInv'
  <2>1. ASSUME NEW x \in Node, Attached(x) PROVE ~Before(end'[MasterOf(x)], end'[x])
    <3>1. MasterOf(x) \in Node /\ x \in served[MasterOf(x)] /\ ~Before(end[MasterOf(x)], end[x])
      BY <1>2, <2>1, AttachedFacts DEF SessionInv
    <3>2. MasterOf(x) # n
      BY <1>1, <3>1
    <3> QED BY <1>1, <1>3, <3>1, <3>2
  <2>2. ASSUME NEW x \in Node, IsMaster(x) PROVE ~Before(end'[x], win'[x])
    BY <1>1, <1>2, <1>3, <2>2 DEF SessionInv
  <2> QED BY <1>1, <1>2, <1>6, <2>1, <2>2 DEF SessionInv
\* Two logs of which the second is not n's stay the same, also if n's is the first
\* and the second is its master's.
<1>9. ASSUME NEW x \in Node, NEW y \in Node, y # n, Same(x, y), x = n => y = m PROVE Same(x, y)'
  <2>1. CASE x # n
    BY <1>1, <1>3, <1>9, <2>1 DEF Same
  <2>2. CASE x = n
    <3> SUFFICES ASSUME NEW f \in Filenum, NEW o \in Offset,
                        f >= purged[n], f >= purged[m], Upto(f, o, end'[n])
                 PROVE  log'[n][f][o] = log[m][f][o]
      BY <1>1, <1>3, <1>9, <2>2 DEF Same
    <3>1. Upto(f, o, p) => log[n][f][o] = log[m][f][o]
      BY <1>9, <2>2 DEF Same
    <3> QED BY <1>1, <1>2, <3>1, AppendPair
  <2> QED BY <2>1, <2>2
<1>10. AgreeInv'
  <2> SUFFICES ASSUME NEW x \in Node \ blind, Attached(x) PROVE Same(x, MasterOf(x))'
    BY <1>1, <1>6 DEF AgreeInv
  <2>1. MasterOf(x) \in Node /\ x \in served[MasterOf(x)] /\ Same(x, MasterOf(x))
    BY <1>2, AttachedFacts DEF AgreeInv
  <2>2. MasterOf(x) # n
    BY <1>1, <2>1
  <2>3. ASSUME NEW y \in Node, y = MasterOf(x) PROVE Same(x, y)'
    BY <1>9, <2>1, <2>2, <2>3
  <2> QED BY <1>6, <2>1, <2>3 DEF Same
<1>11. FirstInv'
  <2> SUFFICES ASSUME Len(masters) = 1
               PROVE  /\ blind = {} /\ \A x \in Node : ~Before(end'[E], end'[x])
                      /\ \A x, y \in Node : y = E => Same(x, y)'
    <3>1. E \in Node
      BY <1>7
    <3> QED BY <3>1, <1>1, <1>6 DEF FirstInv, Same
  <2>1. m = E /\ E # n /\ end'[E] = end[E]
    BY <1>1, <1>2, <1>3, FirstMaster, AttachedFacts
  <2>2. blind = {} /\ \A x \in Node : Same(x, E) /\ ~Before(end[E], end[x])
    BY <1>2 DEF FirstInv
  <2>3. ASSUME NEW x \in Node PROVE ~Before(end'[E], end'[x])
    BY <1>1, <1>3, <2>1, <2>2
  <2>4. ASSUME NEW x \in Node, NEW y \in Node, y = E PROVE Same(x, y)'
    BY <1>9, <2>1, <2>2, <2>4
  <2> QED BY <2>2, <2>3, <2>4
<1> QED BY <1>4, <1>5, <1>8, <1>10, <1>11 DEF FInv

-----------------------------------------------------------------------------
(* A master writes.                                                        *)

LEMMA DoCommandInv == ASSUME FInv, NEW n \in Node, NEW i \in Item, DoCommand(n, i) PROVE FInv'
<1> DEFINE E == Elected
<1>1. /\ IsMaster(n) /\ Appends(n, i)
      /\ UNCHANGED <<masters, epoch, purged, win, attached, served, restarts, blind>>
  BY DEF DoCommand, Appends
<1>2. FailoverTypeOK /\ ShapeInv /\ SessionInv /\ AgreeInv /\ FirstInv
  BY DEF FInv
<1>3. /\ log' \in [Node -> Log] /\ end' \in [Node -> Point]
      /\ \A x \in Node : x # n => log'[x] = log[x] /\ end'[x] = end[x]
      /\ Before(end[n], end'[n]) /\ end'[n] \in Point /\ end'[n] = After(end[n], i)
  BY <1>1, <1>2, AppendFacts
<1>4. FailoverTypeOK'
  BY <1>1, <1>2, <1>3 DEF FailoverTypeOK
<1>5. ShapeInv'
  BY <1>1, <1>2, AppendShape
<1>6. /\ E' = E /\ Len(masters)' = Len(masters)
      /\ \A x : /\ MasterOf(x)' = MasterOf(x) /\ IsMaster(x)' = IsMaster(x)
                /\ IsSlave(x)' = IsSlave(x)
                /\ Attached(x)' = Attached(x)
  BY <1>1, SameRoles DEF Attached
<1>7. /\ E \in Node /\ end[E] \in Point /\ win[E] \in Point
      /\ \A x \in Node : end[x] \in Point /\ win[x] \in Point /\ end'[x] \in Point
      /\ \A x \in Node : ~Before(end'[x], end[x])
  BY <1>2, <1>3, MasterFacts, NodeFacts, Order
<1>8. SessionInv'
  <2>1. ASSUME NEW x \in Node, Attached(x) PROVE ~Before(end'[MasterOf(x)], end'[x])
    <3>1. MasterOf(x) \in Node /\ ~Before(end[MasterOf(x)], end[x]) /\ ~IsMaster(x)
      BY <1>2, <2>1, AttachedFacts DEF SessionInv, IsMaster
    <3>2. end'[x] = end[x]
      BY <1>1, <1>3, <3>1
    <3> QED BY <3>1, <3>2, <1>7, Order
  <2>2. ASSUME NEW x \in Node, IsMaster(x) PROVE ~Before(end'[x], win[x])
    <3>1. ~Before(end[x], win[x])
      BY <1>2, <2>2 DEF SessionInv
    <3> QED BY <3>1, <1>7, Order
  <2> QED BY <1>1, <1>2, <1>6, <2>1, <2>2 DEF SessionInv
\* What another node has is below the end at which n writes.
<1>9. ASSUME NEW x \in Node, NEW y \in Node, x # n, Same(x, y), y = n => ~Before(end[n], end[x])
      PROVE  Same(x, y)'
  <2>1. CASE y # n
    BY <1>1, <1>3, <1>9, <2>1 DEF Same
  <2>2. CASE y = n
    <3> SUFFICES ASSUME NEW f \in Filenum, NEW o \in Offset,
                        f >= purged[x], f >= purged[n], Upto(f, o, end[x])
                 PROVE  log[x][f][o] = log'[n][f][o]
      BY <1>1, <1>3, <1>9, <2>2 DEF Same
    <3>1. log[x][f][o] = log[n][f][o]
      BY <1>9, <2>2 DEF Same
    <3>2. Upto(f, o, end[n])
      BY <1>7, <1>9, <2>2, UptoMono
    <3>3. ~(f = end[n].filenum /\ o = end[n].offset)
      BY <3>2, <1>7, PointFields, PlaceNat DEF Upto
    <3> QED BY <3>1, <3>3, <1>1, <1>2, AppendFacts
  <2> QED BY <2>1, <2>2
<1>10. AgreeInv'
  <2> SUFFICES ASSUME NEW x \in Node \ blind, Attached(x) PROVE Same(x, MasterOf(x))'
    BY <1>1, <1>6 DEF AgreeInv
  <2>1. /\ MasterOf(x) \in Node /\ MasterOf(x) # x /\ Same(x, MasterOf(x))
        /\ ~Before(end[MasterOf(x)], end[x])
    BY <1>2, AttachedFacts DEF AgreeInv, SessionInv
  <2>2. x # n
    BY <1>1, <2>1 DEF IsMaster
  <2>3. ASSUME NEW y \in Node, y = MasterOf(x) PROVE Same(x, y)'
    BY <1>9, <2>1, <2>2, <2>3
  <2> QED BY <1>6, <2>1, <2>3 DEF Same
<1>11. FirstInv'
  <2> SUFFICES ASSUME Len(masters) = 1
               PROVE  /\ blind = {} /\ \A x \in Node : ~Before(end'[E], end'[x])
                      /\ \A x, y \in Node : y = E => Same(x, y)'
    <3>1. E \in Node
      BY <1>7
    <3> QED BY <3>1, <1>1, <1>6 DEF FirstInv, Same
  <2>1. n = E
    BY <1>1, <1>2, FirstMaster, MasterFacts DEF IsMaster
  <2>2. blind = {} /\ \A x \in Node : Same(x, E) /\ ~Before(end[E], end[x])
    BY <1>2 DEF FirstInv
  <2>3. ASSUME NEW x \in Node PROVE ~Before(end'[E], end'[x])
    <3>1. ~Before(end'[E], end[x])
      BY <1>7, <2>1, <2>2, Order
    <3> QED BY <3>1, <1>3, <1>7, <2>1, Order
  <2>4. ASSUME NEW x \in Node, NEW y \in Node, y = E PROVE Same(x, y)'
    <3>1. CASE x = E
      BY <2>4, <3>1 DEF Same
    <3>2. CASE x # E
      BY <3>2, <1>9, <2>1, <2>2, <2>4
    <3> QED BY <3>1, <3>2
  <2> QED BY <2>2, <2>3, <2>4
<1> QED BY <1>4, <1>5, <1>8, <1>10, <1>11 DEF FInv

-----------------------------------------------------------------------------
(* Files are purged, and the log of a slave is cut.                        *)

LEMMA PurgeInv == ASSUME FInv, NEW n \in Node, Purge(n) PROVE FInv'
<1> DEFINE E == Elected
<1>1. UNCHANGED <<masters, epoch, end, win, attached, served, restarts, blind>>
  BY DEF Purge
<1>2. FailoverTypeOK /\ ShapeInv /\ SessionInv /\ AgreeInv /\ FirstInv
  BY DEF FInv
<1>3. /\ log' \in [Node -> Log] /\ purged' \in [Node -> Filenum]
      /\ \A x \in Node : x # n => log'[x] = log[x] /\ purged'[x] = purged[x]
      /\ \A f \in Filenum, o \in Offset : f >= purged'[n] =>
           f >= purged[n] /\ log'[n][f][o] = log[n][f][o]
      /\ ShapeInv'
  BY <1>2, PurgeLog
<1>4. FailoverTypeOK'
  BY <1>1, <1>2, <1>3 DEF FailoverTypeOK
<1>5. /\ E' = E /\ Len(masters)' = Len(masters)
      /\ \A x : /\ MasterOf(x)' = MasterOf(x) /\ IsMaster(x)' = IsMaster(x)
                /\ IsSlave(x)' = IsSlave(x)
                /\ Attached(x)' = Attached(x)
  BY <1>1, SameRoles DEF Attached
<1>6. SessionInv'
  BY <1>1, <1>2, <1>5 DEF SessionInv
<1>7. ASSUME NEW x \in Node, NEW y \in Node, Same(x, y) PROVE Same(x, y)'
  <2>1. ASSUME NEW z \in Node, NEW f \in Filenum, NEW o \in Offset, f >= purged'[z]
        PROVE  f >= purged[z] /\ log'[z][f][o] = log[z][f][o]
    BY <1>3, <2>1
  <2> QED BY <1>1, <1>7, <2>1 DEF Same, Upto
<1>8. AgreeInv'
  <2> SUFFICES ASSUME NEW x \in Node \ blind, Attached(x) PROVE Same(x, MasterOf(x))'
    BY <1>1, <1>5 DEF AgreeInv
  <2>1. MasterOf(x) \in Node /\ Same(x, MasterOf(x))
    BY <1>2, AttachedFacts DEF AgreeInv
  <2>2. ASSUME NEW y \in Node, y = MasterOf(x) PROVE Same(x, y)'
    BY <1>7, <2>1, <2>2
  <2> QED BY <1>5, <2>1, <2>2 DEF Same
<1>9. FirstInv'
  <2>1. E \in Node
    BY <1>2, MasterFacts
  <2>2. ASSUME Len(masters) = 1, NEW x \in Node, NEW y \in Node, y = E PROVE Same(x, y)'
    BY <1>2, <1>7, <2>2 DEF FirstInv
  <2> QED BY <1>1, <1>2, <1>5, <2>1, <2>2 DEF FirstInv, Same
<1> QED BY <1>3, <1>4, <1>6, <1>8, <1>9 DEF FInv

\* A slave that asks is cut back to the start of a file, not ahead of its master.
LEMMA CutInv ==
  ASSUME FInv, NEW n \in Node, NEW t \in Point, Asks(n), SetBinlogOffset(n, Start(t.filenum)),
         UNCHANGED <<masters, epoch, win, attached, served, restarts, blind>>,
         ~Before(end[MasterOf(n)], Start(t.filenum))
  PROVE  FInv'
<1> DEFINE E == Elected
<1>2. FailoverTypeOK /\ ShapeInv /\ SessionInv /\ AgreeInv /\ FirstInv
  BY DEF FInv
<1>3. /\ log' \in [Node -> Log] /\ end' \in [Node -> Point] /\ purged' \in [Node -> Filenum]
      /\ \A x \in Node : x # n => log'[x] = log[x] /\ end'[x] = end[x] /\ purged'[x] = purged[x]
      /\ end'[n] = Start(t.filenum)
      /\ \A f \in Filenum, o \in Offset :
           f >= purged'[n] /\ Upto(f, o, end'[n]) =>
             /\ f >= purged[n] /\ Upto(f, o, end[n])
             /\ log'[n][f][o] = log[n][f][o]
      /\ ShapeInv'
  BY <1>2, CutLog
<1>4. FailoverTypeOK'
  BY <1>2, <1>3 DEF FailoverTypeOK
<1>5. /\ E' = E /\ Len(masters)' = Len(masters)
      /\ \A x : /\ MasterOf(x)' = MasterOf(x) /\ IsMaster(x)' = IsMaster(x)
                /\ IsSlave(x)' = IsSlave(x)
                /\ Attached(x)' = Attached(x)
  BY SameRoles DEF Attached
<1>6. ~attached[n] /\ ~IsMaster(n) /\ served[n] = {}
  BY <1>2 DEF Asks, IsSlave, IsMaster, SessionInv
<1>7. /\ E \in Node /\ end[E] \in Point /\ win[E] \in Point
      /\ \A x \in Node : end[x] \in Point /\ win[x] \in Point /\ end'[x] \in Point
  BY <1>2, <1>3, MasterFacts, NodeFacts
<1>8. SessionInv'
  <2>1. ASSUME NEW x \in Node, Attached(x) PROVE ~Before(end'[MasterOf(x)], end'[x])
    <3>1. /\ MasterOf(x) \in Node /\ ~Before(end[MasterOf(x)], end[x])
          /\ attached[x] /\ x \in served[MasterOf(x)]
      BY <1>2, <2>1, AttachedFacts DEF SessionInv
    <3> QED BY <3>1, <1>3, <1>6
  <2>2. ASSUME NEW x \in Node, IsMaster(x) PROVE ~Before(end'[x], win[x])
    BY <1>2, <1>3, <1>6, <2>2 DEF SessionInv
  <2> QED BY <1>2, <1>5, <2>1, <2>2 DEF SessionInv
<1>9. ASSUME NEW x \in Node, NEW y \in Node, y # n, Same(x, y) PROVE Same(x, y)'
  <2>1. CASE x # n
    BY <1>3, <1>9, <2>1 DEF Same
  <2>2. CASE x = n
    BY <1>3, <1>9, <2>2 DEF Same
  <2> QED BY <2>1, <2>2
<1>10. AgreeInv'
  <2> SUFFICES ASSUME NEW x \in Node \ blind, Attached(x) PROVE Same(x, MasterOf(x))'
    BY <1>5 DEF AgreeInv
  <2>1. MasterOf(x) \in Node /\ x \in served[MasterOf(x)] /\ Same(x, MasterOf(x))
    BY <1>2, AttachedFacts DEF AgreeInv
  <2>2. ASSUME NEW y \in Node, y = MasterOf(x) PROVE Same(x, y)'
    BY <1>6, <1>9, <2>1, <2>2
  <2> QED BY <1>5, <2>1, <2>2 DEF Same
<1>11. FirstInv'
  <2> SUFFICES ASSUME Len(masters) = 1
               PROVE  /\ blind = {} /\ \A x \in Node : ~Before(end'[E], end'[x])
                      /\ \A x, y \in Node : y = E => Same(x, y)'
    <3>1. E \in Node
      BY <1>7
    <3> QED BY <3>1, <1>5 DEF FirstInv, Same
  <2>1. MasterOf(n) = E /\ E # n /\ end'[E] = end[E]
    BY <1>2, <1>3, <1>7, FirstMaster DEF Asks, IsSlave
  <2>2. blind = {} /\ \A x \in Node : Same(x, E) /\ ~Before(end[E], end[x])
    BY <1>2 DEF FirstInv
  <2>3. ASSUME NEW x \in Node PROVE ~Before(end'[E], end'[x])
    BY <1>3, <2>1, <2>2
  <2>4. ASSUME NEW x \in Node, NEW y \in Node, y = E PROVE Same(x, y)'
    BY <1>9, <2>1, <2>2, <2>4
  <2> QED BY <2>2, <2>3, <2>4
<1> QED BY <1>3, <1>4, <1>8, <1>10, <1>11 DEF FInv

\* The three answers that cut.
LEMMA AskCutInv ==
  ASSUME FInv, NEW n \in Node, AskAhead(n) \/ AskPurged(n) \/ AskInvalid(n) PROVE FInv'
<1> DEFINE m == MasterOf(n)
<1>1. Asks(n) /\ UNCHANGED <<masters, epoch, win, attached, served, restarts, blind>>
  BY DEF AskAhead, AskPurged, AskInvalid
<1>2. /\ FailoverTypeOK /\ ShapeInv /\ SessionInv
      /\ m \in Node /\ IsMaster(m)
  BY <1>1, MasterFacts DEF FInv, Asks, IsSlave
<1>3. /\ end[m] \in Point /\ win[m] \in Point /\ end[n] \in Point
      /\ ~Before(end[m], win[m])
  BY <1>2, NodeFacts DEF SessionInv
<1>4. \A q \in Point : Start(q.filenum) \in Point /\ ~Before(q, Start(q.filenum))
  BY EmptyFacts, PointFields DEF Before, Start
<1>5. CASE AskAhead(n)
  <2>1. SetBinlogOffset(n, Start(win[m].filenum))
    BY <1>5 DEF AskAhead
  <2>2. ~Before(win[m], Start(win[m].filenum)) /\ ~Before(end[m], Start(win[m].filenum))
    BY <1>3, <1>4, Order
  <2> QED BY <1>1, <1>3, <2>1, <2>2, CutInv
<1>6. CASE AskPurged(n)
  <2>1. PICK f \in purged[m]..end[m].filenum : SetBinlogOffset(n, Start(f))
    BY <1>6 DEF AskPurged
  <2>2. f \in Filenum /\ f \in Nat /\ f <= end[m].filenum /\ end[m].filenum \in Nat /\ end[m].offset \in Nat
    BY <1>2, <1>3, <2>1, NodeFacts, PointFields, LogAssumption DEF Filenum
  <2>3. Start(f) \in Point /\ Start(f).filenum = f /\ ~Before(end[m], Start(f))
    BY <2>2, EmptyFacts DEF Before, Start
  <2>4. ~Ahead(n)
    BY <1>6 DEF AskPurged
  <2> QED BY <1>1, <2>1, <2>3, <2>4, CutInv
<1>7. CASE AskInvalid(n)
  <2>1. SetBinlogOffset(n, Start(end[n].filenum)) /\ ~Ahead(n)
    BY <1>7 DEF AskInvalid
  <2>2. ~Before(end[m], Start(end[n].filenum))
    BY <1>3, <1>4, <2>1, Order DEF Ahead
  <2> QED BY <1>1, <1>3, <2>1, <2>2, CutInv
<1> QED BY <1>5, <1>6, <1>7

-----------------------------------------------------------------------------
(* Steps that change no log.                                               *)

\* Who is served now is not ahead, and agrees unless it is blind.
LEMMA SameFilesInv ==
  ASSUME FInv, UNCHANGED <<masters, epoch, files, win, restarts>>,
         attached' \in [Node -> BOOLEAN], served' \in [Node -> SUBSET Node], blind' \subseteq Node,
         Len(masters) = 1 => blind' = {},
         \A x \in Node : served'[x] # {} => IsMaster(x),
         \A x \in Node : Attached(x)' =>
           ~Before(end[MasterOf(x)], end[x]) /\ (x \in blind' \/ Same(x, MasterOf(x)))
  PROVE  FInv'
<1>1. FailoverTypeOK /\ ShapeInv /\ SessionInv /\ AgreeInv /\ FirstInv
  BY DEF FInv
<1>2. log' = log /\ end' = end /\ purged' = purged
  BY DEF files
<1>3. /\ Elected' = Elected /\ Len(masters)' = Len(masters)
      /\ \A x : MasterOf(x)' = MasterOf(x) /\ IsMaster(x)' = IsMaster(x)
      /\ \A x, y : Same(x, y)' = Same(x, y)
  BY <1>2, SameRoles DEF Same, Upto
<1>4. FailoverTypeOK'
  BY <1>1, <1>2 DEF FailoverTypeOK
<1>5. ShapeInv'
  BY <1>1, <1>2 DEF ShapeInv, Shape, Upto
<1>6. SessionInv'
  BY <1>1, <1>2, <1>3 DEF SessionInv
<1>7. AgreeInv'
  BY <1>2, <1>3 DEF AgreeInv, Same
<1>8. FirstInv'
  BY <1>1, <1>2, <1>3 DEF FirstInv, Same
<1> QED BY <1>4, <1>5, <1>6, <1>7, <1>8 DEF FInv

LEMMA AskOkInv == ASSUME FInv, NEW n \in Node, AskOk(n) PROVE FInv'
<1> DEFINE m == MasterOf(n)
<1>1. FailoverTypeOK /\ SessionInv /\ AgreeInv /\ FirstInv
  BY DEF FInv
<1>2. /\ UNCHANGED <<masters, epoch, files, win, restarts>>
      /\ IsSlave(n) /\ IsMaster(m) /\ ~Before(end[m], end[n])
      /\ blind' = IF Same(n, m) THEN blind \ {n} ELSE blind \cup {n}
  BY AgreeSame DEF AskOk, Asks, Ahead
<1>3. m \in Node /\ m # n /\ epoch[n] # 0 /\ blind \subseteq Node
  BY <1>1, <1>2, MasterFacts DEF IsSlave, FailoverTypeOK
<1>4. /\ attached \in [Node -> BOOLEAN] /\ served \in [Node -> SUBSET Node]
      /\ attached' = [attached EXCEPT ![n] = TRUE]
      /\ served' = [served EXCEPT ![m] = @ \cup {n}]
  BY <1>1 DEF FailoverTypeOK, AskOk
<1>5. attached' \in [Node -> BOOLEAN] /\ served' \in [Node -> SUBSET Node] /\ blind' \subseteq Node
  BY <1>2, <1>3, <1>4
<1>6. \A x \in Node : /\ x # n => attached'[x] = attached[x]
                      /\ x # m => served'[x] = served[x]
                      /\ \A y \in Node : (y # n /\ y \in served'[x]) => y \in served[x]
  BY <1>3, <1>4
<1>7. \A x \in Node : MasterOf(x)' = MasterOf(x) /\ IsSlave(x)' = IsSlave(x)
  BY <1>2, SameRoles
<1>8. \A x \in Node : served'[x] # {} => IsMaster(x)
  BY <1>1, <1>2, <1>6 DEF SessionInv
<1>9. Len(masters) = 1 => blind' = {}
  BY <1>1, <1>2, <1>3, FirstMaster DEF FirstInv
<1>10. ASSUME NEW x \in Node, Attached(x)'
       PROVE  ~Before(end[MasterOf(x)], end[x]) /\ (x \in blind' \/ Same(x, MasterOf(x)))
  <2>1. CASE x = n
    BY <2>1, <1>2
  <2>2. CASE x # n
    <3>1. IsSlave(x) /\ attached[x] /\ x \in served'[MasterOf(x)]
      BY <2>2, <1>6, <1>7, <1>10 DEF Attached
    <3>2. MasterOf(x) \in Node
      BY <3>1, <1>1, MasterFacts DEF IsSlave
    <3>3. Attached(x)
      BY <2>2, <3>1, <3>2, <1>6 DEF Attached
    <3>4. x \in blind \/ Same(x, MasterOf(x))
      BY <3>3, <1>1 DEF AgreeInv
    <3> QED BY <2>2, <3>3, <3>4, <1>1, <1>2 DEF SessionInv
  <2> QED BY <2>1, <2>2
<1> QED BY <1>2, <1>5, <1>8, <1>9, <1>10, SameFilesInv

LEMMA DoTimingTaskInv == ASSUME FInv, NEW n \in Node, DoTimingTask(n) PROVE FInv'
<1>1. FailoverTypeOK /\ SessionInv /\ AgreeInv /\ FirstInv
  BY DEF FInv
<1>2. /\ UNCHANGED <<masters, epoch, files, win, restarts, blind>> /\ served' = served
      /\ attached' = [attached EXCEPT ![n] = FALSE] /\ ~Attached(n)
  BY DEF DoTimingTask, NeedRecoverSync, Attached
<1>3. /\ attached \in [Node -> BOOLEAN] /\ served' \in [Node -> SUBSET Node]
      /\ blind' \subseteq Node
  BY <1>1, <1>2 DEF FailoverTypeOK
<1>4. attached' \in [Node -> BOOLEAN] /\ ~attached'[n]
      /\ \A x \in Node : x # n => attached'[x] = attached[x]
  BY <1>2, <1>3
<1>5. \A x \in Node : Attached(x)' <=> Attached(x)
  BY <1>2, <1>4, SameRoles DEF Attached
<1>6. \A x \in Node : Attached(x) =>
        ~Before(end[MasterOf(x)], end[x]) /\ (x \in blind \/ Same(x, MasterOf(x)))
  BY <1>1 DEF SessionInv, AgreeInv
<1>7. \A x \in Node : served'[x] # {} => IsMaster(x)
  BY <1>1, <1>2 DEF SessionInv
<1>8. Len(masters) = 1 => blind' = {}
  BY <1>1, <1>2 DEF FirstInv
<1> QED BY <1>2, <1>3, <1>4, <1>5, <1>6, <1>7, <1>8, SameFilesInv

-----------------------------------------------------------------------------
(* A master is elected, a node pulls the tables, a node restarts.          *)

LEMMA NewMasterInv == ASSUME FInv, NEW m \in Node, NewMaster(m) PROVE FInv'
<1> DEFINE L == Len(masters)
           E == Elected
<1>1. FailoverTypeOK /\ ShapeInv /\ SessionInv /\ AgreeInv /\ FirstInv
  BY DEF FInv
<1>2. /\ epoch' = epoch /\ log' = log /\ end' = end /\ purged' = purged /\ win' = win
      /\ attached' = attached /\ served' = served /\ restarts' = restarts
      /\ blind' = blind /\ masters' = Append(masters, m) /\ L < MaxEpoch
  BY DEF NewMaster, files
<1>3. /\ masters \in Seq(Node) /\ L \in Nat /\ L >= 1 /\ MaxEpoch \in Nat
      /\ \A x \in Node : epoch[x] \in Nat /\ epoch[x] <= L
  BY <1>1, FailoverAssumption, MasterFacts, NodeFacts DEF FailoverTypeOK
<1>4. /\ masters' \in Seq(Node) /\ Len(masters') = L + 1 /\ masters'[L + 1] = m
      /\ \A e \in 1..L : masters'[e] = masters[e]
  BY <1>2, <1>3
<1>5. Len(masters)' = L + 1
  BY <1>4
<1>6. FailoverTypeOK'
  BY <1>1, <1>2, <1>3, <1>4 DEF FailoverTypeOK
<1>7. ShapeInv'
  BY <1>1, <1>2 DEF ShapeInv, Shape, Upto
<1>8. ASSUME NEW x \in Node
      PROVE  /\ MasterOf(x)' = MasterOf(x) /\ IsMaster(x)' = IsMaster(x)
             /\ Attached(x)' = Attached(x)
  <2>1. MasterOf(x)' = MasterOf(x)
    BY <1>2, <1>3, <1>4 DEF MasterOf
  <2> QED BY <2>1, <1>2 DEF IsMaster, Attached, IsSlave
<1>9. SessionInv'
  BY <1>1, <1>2, <1>8 DEF SessionInv
<1>10. AgreeInv'
  BY <1>1, <1>2, <1>8 DEF AgreeInv, Same, Upto
<1>11. FirstInv'
  <2>1. Len(masters)' # 1
    BY <1>3, <1>5
  <2> QED BY <2>1 DEF FirstInv
<1> QED BY <1>6, <1>7, <1>9, <1>10, <1>11 DEF FInv

LEMMA UpdateInv == ASSUME FInv, NEW n \in Node, Update(n) PROVE FInv'
<1> DEFINE L == Len(masters)
           E == Elected
<1>1. FailoverTypeOK /\ ShapeInv /\ SessionInv /\ AgreeInv /\ FirstInv
  BY DEF FInv
<1>2. PICK e \in (epoch[n] + 1)..L :
        /\ epoch' = [epoch EXCEPT ![n] = e]
        /\ attached' = [attached EXCEPT ![n] = @ /\ MasterOf(n) = masters[e]]
        /\ served' = [served EXCEPT ![n] = IF MasterOf(n) = masters[e] THEN @ ELSE {}]
        /\ IF masters[e] = n /\ MasterOf(n) # masters[e] THEN win' = [win EXCEPT ![n] = end[n]]
                                                         ELSE win' = win
        /\ masters' = masters /\ restarts' = restarts
        /\ log' = log /\ end' = end /\ purged' = purged /\ blind' = blind
  BY DEF Update, BecomeMaster, files
<1> DEFINE stays == MasterOf(n) = masters[e]
<1>3. /\ epoch \in [Node -> 0..MaxEpoch] /\ attached \in [Node -> BOOLEAN]
      /\ served \in [Node -> SUBSET Node] /\ win \in [Node -> Point] /\ end \in [Node -> Point]
      /\ epoch[n] \in Nat /\ L \in Nat /\ L <= MaxEpoch /\ MaxEpoch \in Nat
      /\ NoNode \notin Node
  BY <1>1, NodeFacts, MasterFacts, FailoverAssumption DEF FailoverTypeOK
<1>4. e \in 1..L /\ e \in 0..MaxEpoch /\ e # 0 /\ e > epoch[n] /\ e <= L /\ e \in Nat
      /\ masters[e] \in Node
  BY <1>1, <1>2, <1>3, MasterFacts
<1>5. /\ epoch'[n] = e /\ (attached'[n] <=> attached[n] /\ stays)
      /\ stays => served'[n] = served[n]
      /\ ~stays => served'[n] = {}
      /\ masters[e] = n /\ ~stays => win'[n] = end[n]
      /\ stays \/ masters[e] # n => win'[n] = win[n]
  BY <1>2, <1>3
<1>6. \A x \in Node : x # n => /\ epoch'[x] = epoch[x] /\ attached'[x] = attached[x]
                               /\ served'[x] = served[x] /\ win'[x] = win[x]
  BY <1>2, <1>3
<1>7. /\ epoch' \in [Node -> 0..MaxEpoch] /\ attached' \in [Node -> BOOLEAN]
      /\ served' \in [Node -> SUBSET Node] /\ win' \in [Node -> Point]
  <2>1. epoch' \in [Node -> 0..MaxEpoch]
    BY <1>2, <1>3, <1>4
  <2>2. attached' \in [Node -> BOOLEAN] /\ served' \in [Node -> SUBSET Node]
    BY <1>2, <1>3
  <2>3. win' \in [Node -> Point]
    BY <1>2, <1>3
  <2> QED BY <2>1, <2>2, <2>3
<1>8. FailoverTypeOK'
  <2>1. \A x \in Node : epoch'[x] <= L
    BY <1>1, <1>4, <1>5, <1>6, NodeFacts
  <2> QED BY <1>1, <1>2, <1>7, <2>1 DEF FailoverTypeOK
<1>9. ShapeInv'
  BY <1>1, <1>2 DEF ShapeInv, Shape, Upto
<1>10. MasterOf(n)' = masters[e] /\ (stays => epoch[n] # 0)
  BY <1>2, <1>3, <1>4, <1>5 DEF MasterOf
<1>11. ASSUME NEW x \in Node, x # n
       PROVE  /\ MasterOf(x)' = MasterOf(x) /\ IsMaster(x)' = IsMaster(x)
              /\ IsSlave(x)' = IsSlave(x)
              /\ Attached(x)' => Attached(x)
              /\ MasterOf(x) # n => (Attached(x)' <=> Attached(x))
  <2>1. /\ MasterOf(x)' = MasterOf(x) /\ IsMaster(x)' = IsMaster(x)
        /\ IsSlave(x)' = IsSlave(x)
    BY <1>2, <1>6, <1>11 DEF MasterOf, IsMaster, IsSlave
  <2>2. IsSlave(x) => MasterOf(x) \in Node
    BY <1>1, MasterFacts DEF IsSlave
  <2>3. MasterOf(x) \in Node => /\ served'[MasterOf(x)] \subseteq served[MasterOf(x)]
                                /\ MasterOf(x) # n => served'[MasterOf(x)] = served[MasterOf(x)]
    BY <1>5, <1>6
  <2> QED BY <1>6, <1>11, <2>1, <2>2, <2>3 DEF Attached
<1>12. Attached(n)' => stays /\ Attached(n)
  <2> SUFFICES ASSUME Attached(n)' PROVE stays /\ Attached(n)
    OBVIOUS
  <2>1. stays /\ attached[n] /\ masters[e] # n /\ n \in served'[masters[e]]
    BY <1>5, <1>10 DEF Attached, IsSlave
  <2> QED BY <2>1, <1>4, <1>6, <1>10 DEF Attached, IsSlave
<1>13. SessionInv'
  <2>1. ASSUME NEW x \in Node, served'[x] # {} PROVE IsMaster(x)'
    BY <1>1, <1>5, <1>6, <1>10, <1>11, <2>1 DEF SessionInv, IsMaster
  <2>2. ASSUME NEW x \in Node, Attached(x)' PROVE ~Before(end[MasterOf(x)'], end[x])
    BY <1>1, <1>10, <1>11, <1>12, <2>2 DEF SessionInv
  <2>3. ASSUME NEW x \in Node, IsMaster(x)' PROVE ~Before(end[x], win'[x])
    <3>1. CASE x = n /\ ~stays
      BY <3>1, <2>3, <1>3, <1>5, <1>10, Order DEF IsMaster
    <3>2. CASE x = n /\ stays
      BY <3>2, <2>3, <1>1, <1>5, <1>10 DEF IsMaster, SessionInv
    <3>3. CASE x # n
      BY <3>3, <2>3, <1>1, <1>6, <1>11 DEF SessionInv
    <3> QED BY <3>1, <3>2, <3>3
  <2> QED BY <1>2, <2>1, <2>2, <2>3 DEF SessionInv
<1>14. AgreeInv'
  <2>1. Attached(n)' => Attached(n) /\ MasterOf(n)' = MasterOf(n)
    BY <1>10, <1>12
  <2> QED BY <1>1, <1>2, <1>11, <2>1 DEF AgreeInv, Same, Upto
<1>15. FirstInv'
  BY <1>1, <1>2 DEF FirstInv, Same, Upto, Elected
<1> QED BY <1>8, <1>9, <1>13, <1>14, <1>15 DEF FInv

LEMMA RestartInv == ASSUME FInv, NEW n \in Node, Restart(n) PROVE FInv'
<1> DEFINE L == Len(masters)
           E == Elected
<1>1. FailoverTypeOK /\ ShapeInv /\ SessionInv /\ AgreeInv /\ FirstInv
  BY DEF FInv
<1>2. /\ blind' = blind
      /\ epoch' = [epoch EXCEPT ![n] = 0]
      /\ win' = [win EXCEPT ![n] = Start(0)]
      /\ attached' = [attached EXCEPT ![n] = FALSE]
      /\ served' = [served EXCEPT ![n] = {}]
      /\ masters' = masters /\ restarts' = restarts + 1 /\ restarts < MaxRestarts
      /\ log' = log /\ end' = end /\ purged' = purged
  BY DEF Restart, files
<1>3. /\ epoch \in [Node -> 0..MaxEpoch] /\ attached \in [Node -> BOOLEAN]
      /\ served \in [Node -> SUBSET Node] /\ win \in [Node -> Point]
      /\ restarts \in 0..MaxRestarts /\ MaxRestarts \in Nat /\ MaxEpoch \in Nat
      /\ L \in Nat /\ L >= 1 /\ NoNode \notin Node /\ Start(0) \in Point
  BY <1>1, MasterFacts, FailoverAssumption, EmptyFacts, LogAssumption
  DEF FailoverTypeOK, Filenum
<1>4. epoch'[n] = 0 /\ ~attached'[n] /\ served'[n] = {}
  BY <1>2, <1>3
<1>5. \A x \in Node : x # n => /\ epoch'[x] = epoch[x] /\ attached'[x] = attached[x]
                               /\ served'[x] = served[x] /\ win'[x] = win[x]
  BY <1>2, <1>3
<1>6. FailoverTypeOK'
  <2>1. /\ epoch' \in [Node -> 0..MaxEpoch] /\ attached' \in [Node -> BOOLEAN]
        /\ served' \in [Node -> SUBSET Node] /\ win' \in [Node -> Point]
        /\ restarts' \in 0..MaxRestarts
    BY <1>2, <1>3
  <2>2. \A x \in Node : epoch'[x] <= L
    BY <1>1, <1>3, <1>4, <1>5, NodeFacts
  <2> QED BY <1>1, <1>2, <2>1, <2>2 DEF FailoverTypeOK
<1>7. ShapeInv'
  BY <1>1, <1>2 DEF ShapeInv, Shape, Upto
<1>8. ~IsMaster(n)' /\ ~Attached(n)'
  BY <1>3, <1>4 DEF MasterOf, IsMaster, IsSlave, Attached
<1>9. ASSUME NEW x \in Node, x # n
      PROVE  /\ MasterOf(x)' = MasterOf(x) /\ IsMaster(x)' = IsMaster(x)
             /\ IsSlave(x)' = IsSlave(x)
             /\ Attached(x)' => Attached(x)
             /\ MasterOf(x) # n => (Attached(x)' <=> Attached(x))
  <2>1. /\ MasterOf(x)' = MasterOf(x) /\ IsMaster(x)' = IsMaster(x)
        /\ IsSlave(x)' = IsSlave(x)
    BY <1>2, <1>5, <1>9 DEF MasterOf, IsMaster, IsSlave
  <2>2. IsSlave(x) => MasterOf(x) \in Node
    BY <1>1, MasterFacts DEF IsSlave
  <2>3. MasterOf(x) \in Node => /\ served'[MasterOf(x)] \subseteq served[MasterOf(x)]
                                /\ MasterOf(x) # n => served'[MasterOf(x)] = served[MasterOf(x)]
    BY <1>4, <1>5
  <2> QED BY <1>5, <1>9, <2>1, <2>2, <2>3 DEF Attached
<1>10. SessionInv'
  <2>1. ASSUME NEW x \in Node, served'[x] # {} PROVE IsMaster(x)'
    BY <1>1, <1>4, <1>5, <1>9, <2>1 DEF SessionInv
  <2>2. ASSUME NEW x \in Node, Attached(x)' PROVE ~Before(end[MasterOf(x)'], end[x])
    BY <1>1, <1>8, <1>9, <2>2 DEF SessionInv
  <2>3. ASSUME NEW x \in Node, IsMaster(x)' PROVE ~Before(end[x], win'[x])
    BY <1>1, <1>5, <1>8, <1>9, <2>3 DEF SessionInv
  <2> QED BY <1>2, <2>1, <2>2, <2>3 DEF SessionInv
<1>11. AgreeInv'
  BY <1>1, <1>2, <1>8, <1>9 DEF AgreeInv, Same, Upto
<1>12. FirstInv'
  BY <1>1, <1>2 DEF FirstInv, Same, Upto, Elected
<1> QED BY <1>6, <1>7, <1>10, <1>11, <1>12 DEF FInv

-----------------------------------------------------------------------------
(* The theorems.                                                           *)

LEMMA FInvInit == FailoverInit => FInv
<1> SUFFICES ASSUME FailoverInit PROVE FInv
  OBVIOUS
<1>0. PICK w \in Node : masters = <<w>>
  BY DEF FailoverInit
<1>1. masters \in Seq(Node) /\ Len(masters) = 1 /\ Elected = w
  BY <1>0 DEF Elected
<1>2. 0 \in Filenum /\ Start(0) \in Point /\ EmptyLog \in Log /\ FileSize \in Nat
      /\ Start(0).filenum = 0 /\ Start(0).offset = 0
  BY EmptyFacts, LogAssumption DEF Filenum, Start
<1>3. \A n \in Node : /\ epoch[n] = 0 /\ log[n] = EmptyLog /\ end[n] = Start(0) /\ purged[n] = 0
                      /\ win[n] = Start(0) /\ ~attached[n] /\ served[n] = {}
  BY DEF FailoverInit
<1>4. FailoverTypeOK
  BY <1>1, <1>2, FailoverAssumption DEF FailoverTypeOK, FailoverInit
<1>5. ShapeInv
  BY <1>2, <1>3, EmptyFacts DEF ShapeInv, Shape
<1>6. \A n \in Node : ~IsMaster(n) /\ ~Attached(n)
  BY <1>3, FailoverAssumption DEF IsMaster, MasterOf, Attached
<1>7. SessionInv
  BY <1>3, <1>6 DEF SessionInv
<1>8. AgreeInv
  BY <1>6 DEF AgreeInv
<1>9. FirstInv
  <2>1. blind = {}
    BY DEF FailoverInit
  <2>2. \A n \in Node : Same(n, w) /\ ~Before(end[w], end[n])
    BY <1>2, <1>3, Order DEF Same
  <2> QED BY <1>1, <2>1, <2>2 DEF FirstInv
<1> QED BY <1>4, <1>5, <1>7, <1>8, <1>9 DEF FInv

LEMMA FInvNext == FInv /\ [FailoverNext]_cluster => FInv'
<1> SUFFICES ASSUME FInv, [FailoverNext]_cluster PROVE FInv'
  OBVIOUS
<1>1. ASSUME NEW n \in Node, NewMaster(n) \/ Update(n) \/ Restart(n) \/ Purge(n) PROVE FInv'
  BY <1>1, NewMasterInv, UpdateInv, RestartInv, PurgeInv
<1>2. ASSUME NEW n \in Node, NEW i \in Item, DoCommand(n, i) PROVE FInv'
  BY <1>2, DoCommandInv
<1>3. ASSUME NEW n \in Node, Ask(n) \/ TakeOver(n) \/ DoTimingTask(n) PROVE FInv'
  BY <1>3, AskCutInv, AskOkInv, TakeOverInv, DoTimingTaskInv DEF Ask
<1>4. CASE UNCHANGED cluster
  <2>1. UNCHANGED <<masters, epoch, files, win, attached, served, restarts, blind>>
    BY <1>4 DEF cluster
  <2>2. \A x \in Node : Attached(x)' <=> Attached(x)
    BY <2>1, SameRoles DEF Attached
  <2>3. FailoverTypeOK /\ SessionInv /\ AgreeInv /\ FirstInv
    BY DEF FInv
  <2>4. \A x \in Node : Attached(x) =>
          ~Before(end[MasterOf(x)], end[x]) /\ (x \in blind \/ Same(x, MasterOf(x)))
    BY <2>3 DEF SessionInv, AgreeInv
  <2> QED BY <2>1, <2>2, <2>3, <2>4, SameFilesInv DEF SessionInv, FirstInv, FailoverTypeOK
<1> QED BY <1>1, <1>2, <1>3, <1>4 DEF FailoverNext

LEMMA FInvAgrees == FInv => AttachedAgrees
BY AgreeSame DEF FInv, AgreeInv, FirstInv, AttachedAgrees

\* The state of a partition's nodes is well formed through elections, restarts and
\* answers of the master: a log never gets beyond its bounds, and no node knows an
\* epoch that the meta servers have not reached.
THEOREM FailoverTypes == FailoverSpec => []FailoverTypeOK
<1>1. FInv => FailoverTypeOK
  BY DEF FInv
<1> QED BY <1>1, FInvInit, FInvNext, PTL DEF FailoverSpec

\* For any nodes, items, elections and restarts: a slave that is served has its
\* master's log as far as it has got, unless the kOk of SlaveAskSync, which compares
\* the ends alone, overlooked a difference when it was attached; and no kOk does as
\* long as the partition has its first master, whatever is purged or restarted.
THEOREM AttachedKeepAgreeing == FailoverSpec => []AttachedAgrees
BY FInvInit, FInvNext, FInvAgrees, PTL DEF FailoverSpec
=============================================================================

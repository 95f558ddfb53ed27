----------------------------- MODULE Failover ------------------------------
(***************************************************************************)
(* The binlogs of a partition's nodes over changes of the master            *)
(* (src/node/zp_data_partition.cc, SyncCmd in zp_data_command.cc, the end   *)
(* of SendTrySync in zp_trysync_thread.cc).  A node asks its master from    *)
(* its own end.  The master compares that with its own end, with the files  *)
(* it has purged and with the items of the file; it has nothing else to     *)
(* tell by whether the two logs have the same past.  A node that is ahead   *)
(* is sent back to where the master was when it won.                        *)
(*                                                                         *)
(* All nodes have the partition.  Between two attached nodes items go one   *)
(* by one, as LogCopy has it; an answer is applied when it is given.        *)
(***************************************************************************)
EXTENDS LogFiles, Sequences

CONSTANTS
  Node,
  NoNode,
  MaxEpoch,     \* bound: masters that are elected
  MaxRestarts   \* bound: restarts

ASSUME FailoverAssumption ==
  /\ NoNode \notin Node
  /\ MaxEpoch \in Nat \ {0} /\ MaxRestarts \in Nat
  /\ \A i \in Item : i.epoch \in 1..MaxEpoch  \* an item tells who wrote it

VARIABLES
  masters,      \* the meta servers: the master of each epoch
  epoch,        \* meta_epoch_ of each node, 0 before its first pull
  log, end,     \* the files of each node and its producer status
  purged,       \* purged_index_
  win,          \* win_boffset_
  attached,     \* repl_state_ is kConnected
  served,       \* the nodes for which a node has a send task
  restarts,
  blind         \* history: slaves whose last kOk overlooked a difference of logs

files == <<log, end, purged>>
cluster == <<masters, epoch, files, win, attached, served, restarts, blind>>

MasterOf(n) == IF epoch[n] = 0 THEN NoNode ELSE masters[epoch[n]]
IsMaster(n) == MasterOf(n) = n
IsSlave(n) == epoch[n] # 0 /\ MasterOf(n) # n

Before(p, q) ==
  \/ p.filenum < q.filenum
  \/ p.filenum = q.filenum /\ p.offset < q.offset

\* The log of n, as far as it goes, is that of m, in the files both still have.
Agree(n, m) ==
  \A f \in Filenum, o \in Offset :
    f >= purged[n] /\ f >= purged[m] /\ Before([filenum |-> f, offset |-> o], end[n])
      => log[n][f][o] = log[m][f][o]

Attached(n) == IsSlave(n) /\ attached[n] /\ n \in served[MasterOf(n)]

Elected == masters[Len(masters)]

FailoverInit ==
  /\ masters \in {<<n>> : n \in Node}
  /\ epoch = [n \in Node |-> 0]
  /\ log = [n \in Node |-> EmptyLog]
  /\ end = [n \in Node |-> Start(0)]
  /\ purged = [n \in Node |-> 0]
  /\ win = [n \in Node |-> Start(0)]
  /\ attached = [n \in Node |-> FALSE]
  /\ served = [n \in Node |-> {}]
  /\ restarts = 0
  /\ blind = {}

-----------------------------------------------------------------------------
(* The meta servers choose, and the nodes learn of it.                     *)

NewMaster(m) ==
  /\ Len(masters) < MaxEpoch
  /\ masters' = Append(masters, m)
  /\ UNCHANGED <<epoch, files, win, attached, served, restarts, blind>>

BecomeMaster(n) == win' = [win EXCEPT ![n] = end[n]]

\* Mutant of Update: a slave of a new master takes itself for connected.
UpdateKeepsState(n) ==
  \E e \in (epoch[n] + 1)..Len(masters) :
    LET stays == MasterOf(n) = masters[e] IN
    /\ epoch' = [epoch EXCEPT ![n] = e]
    /\ served' = [served EXCEPT ![n] = IF stays THEN @ ELSE {}]
    /\ IF masters[e] = n /\ ~stays THEN BecomeMaster(n) ELSE UNCHANGED win
    /\ UNCHANGED <<masters, files, attached, restarts, blind>>

\* Partition::Update.  A pull may miss epochs.  A node that stays what it was,
\* under the same master, changes nothing.
Update(n) ==
  \E e \in (epoch[n] + 1)..Len(masters) :
    LET stays == MasterOf(n) = masters[e] IN
    /\ epoch' = [epoch EXCEPT ![n] = e]
    /\ attached' = [attached EXCEPT ![n] = @ /\ stays]
    /\ served' = [served EXCEPT ![n] = IF stays THEN @ ELSE {}]
    /\ IF masters[e] = n /\ ~stays THEN BecomeMaster(n) ELSE UNCHANGED win
    /\ UNCHANGED <<masters, files, restarts, blind>>

\* The process ends and starts again with its files.
Restart(n) ==
  /\ restarts < MaxRestarts
  /\ restarts' = restarts + 1
  /\ epoch' = [epoch EXCEPT ![n] = 0]
  /\ win' = [win EXCEPT ![n] = Start(0)]
  /\ attached' = [attached EXCEPT ![n] = FALSE]
  /\ served' = [served EXCEPT ![n] = {}]
  /\ UNCHANGED <<masters, files, blind>>

-----------------------------------------------------------------------------
(* The master's log.                                                       *)

\* DoCommand on a node that takes itself for the master.
DoCommand(n, i) ==
  /\ IsMaster(n)
  /\ i.epoch = epoch[n]
  /\ After(end[n], i) \in Point
  /\ log' = [log EXCEPT ![n] = Write(@, end[n], i)]
  /\ end' = [end EXCEPT ![n] = After(@, i)]
  /\ UNCHANGED <<masters, epoch, purged, win, attached, served, restarts, blind>>

\* PurgeFiles: a file that is complete and that no send task reads any more.
Purge(n) ==
  /\ epoch[n] # 0
  /\ purged[n] < end[n].filenum
  /\ \A s \in served[n] : end[s].filenum > purged[n]
  /\ purged' = [purged EXCEPT ![n] = @ + 1]
  /\ log' = [log EXCEPT ![n][purged[n]] = EmptyFile]
  /\ UNCHANGED <<masters, epoch, end, win, attached, served, restarts, blind>>

-----------------------------------------------------------------------------
(* A slave asks: SendTrySync, SyncCmd, SlaveAskSync.                       *)

Asks(n) ==
  /\ IsSlave(n) /\ ~attached[n]
  /\ IsMaster(MasterOf(n))
  /\ epoch[MasterOf(n)] = epoch[n]

Ahead(n) == Before(end[MasterOf(n)], end[n])
Purged(n) == purged[MasterOf(n)] > end[n].filenum

\* BinlogReader::Seek finds an item's start, or the end of the log, there.
Available(n) ==
  \/ end[n].offset = 0
  \/ end[n] = end[MasterOf(n)]
  \/ ItemAt(log[MasterOf(n)], end[n]) # NoItem

\* SetBinlogOffset: the log starts afresh at the target's file.  Of a target that
\* is further back it keeps a note, fallback_, which is only ever reported.
SetBinlogOffset(n, target) ==
  LET f == target.filenum IN
  /\ log' = [log EXCEPT ![n] = CutAt(@, end[n], f)]
  /\ end' = [end EXCEPT ![n] = Start(f)]
  /\ purged' = [purged EXCEPT ![n] = IF end[n].filenum < f \/ f < @ THEN f ELSE @]

\* "Peer's offset is larger than me, send fallback offset": the start of the
\* block in which the master won.  A file is shorter than a block here.
AskAhead(n) ==
  /\ Asks(n) /\ Ahead(n)
  /\ SetBinlogOffset(n, Start(win[MasterOf(n)].filenum))
  /\ UNCHANGED <<masters, epoch, win, attached, served, restarts, blind>>

\* The file is gone: the slave gets the database, with the place of a checkpoint.
AskPurged(n) ==
  /\ Asks(n) /\ ~Ahead(n) /\ Purged(n)
  /\ \E f \in purged[MasterOf(n)]..end[MasterOf(n)].filenum :
       SetBinlogOffset(n, Start(f))
  /\ UNCHANGED <<masters, epoch, win, attached, served, restarts, blind>>

\* Mutant of AskInvalid: the slave is sent to where it is.
AskInvalidStays(n) ==
  /\ Asks(n) /\ ~Ahead(n) /\ ~Purged(n) /\ ~Available(n)
  /\ UNCHANGED cluster

\* The place is within an item of the master: back to the start of the block.
AskInvalid(n) ==
  /\ Asks(n) /\ ~Ahead(n) /\ ~Purged(n) /\ ~Available(n)
  /\ SetBinlogOffset(n, Start(end[n].filenum))
  /\ UNCHANGED <<masters, epoch, win, attached, served, restarts, blind>>

\* AddBinlogSendTask, and TrySyncDone on the slave.  Only the ends were compared:
\* the slave may have items of a master that was replaced, below the present
\* master's end.
AskOk(n) ==
  /\ Asks(n) /\ ~Ahead(n) /\ ~Purged(n) /\ Available(n)
  /\ attached' = [attached EXCEPT ![n] = TRUE]
  /\ served' = [served EXCEPT ![MasterOf(n)] = @ \cup {n}]
  /\ blind' = IF Agree(n, MasterOf(n)) THEN blind \ {n} ELSE blind \cup {n}
  /\ UNCHANGED <<masters, epoch, files, win, restarts>>

\* DoBinlogCommand with the item at the slave's end.
TakeOver(n) ==
  LET i == ItemAt(log[MasterOf(n)], end[n]) IN
  /\ Attached(n)
  /\ i # NoItem
  /\ log' = [log EXCEPT ![n] = Write(@, end[n], i)]
  /\ end' = [end EXCEPT ![n] = After(@, i)]
  /\ UNCHANGED <<masters, epoch, purged, win, attached, served, restarts, blind>>

\* Nobody serves the slave: its lease runs out and it becomes a slave anew.
NeedRecoverSync(n) == IsSlave(n) /\ attached[n] /\ n \notin served[MasterOf(n)]

DoTimingTask(n) ==
  /\ NeedRecoverSync(n)
  /\ attached' = [attached EXCEPT ![n] = FALSE]
  /\ UNCHANGED <<masters, epoch, files, win, served, restarts, blind>>

-----------------------------------------------------------------------------
Ask(n) == AskAhead(n) \/ AskPurged(n) \/ AskInvalid(n) \/ AskOk(n)

FailoverNext ==
  \/ \E n \in Node : NewMaster(n) \/ Update(n) \/ Restart(n) \/ Purge(n)
  \/ \E n \in Node, i \in Item : DoCommand(n, i)
  \/ \E n \in Node : Ask(n) \/ TakeOver(n) \/ DoTimingTask(n)

\* Nodes pull, ask and are served, and the timer runs.
Fairness ==
  \A n \in Node : /\ WF_cluster(Update(n)) /\ WF_cluster(Ask(n))
                  /\ WF_cluster(TakeOver(n)) /\ WF_cluster(DoTimingTask(n))

FailoverSpec == FailoverInit /\ [][FailoverNext]_cluster /\ Fairness

-----------------------------------------------------------------------------
(* Properties.                                                             *)

FailoverTypeOK ==
  /\ masters \in Seq(Node) /\ Len(masters) \in 1..MaxEpoch
  /\ epoch \in [Node -> 0..MaxEpoch] /\ \A n \in Node : epoch[n] <= Len(masters)
  /\ log \in [Node -> Log]
  /\ end \in [Node -> Point] /\ win \in [Node -> Point]
  /\ purged \in [Node -> Filenum]
  /\ attached \in [Node -> BOOLEAN]
  /\ served \in [Node -> SUBSET Node]
  /\ restarts \in 0..MaxRestarts
  /\ blind \subseteq Node

\* Through elections, pulls that miss some, restarts of either side and purges, a
\* slave that is served has its master's log as far as it has got, unless the kOk
\* of SlaveAskSync overlooked a difference; and that needs a change of the master:
\* under the first one no answer, whatever is purged or restarted, overlooks any.
AttachedAgrees ==
  /\ \A n \in Node \ blind : Attached(n) => Agree(n, MasterOf(n))
  /\ Len(masters) = 1 => blind = {}

\* Once no more masters are elected, every node is served and gets to its
\* master's end: no answer sends a slave back for ever.
Joined(n) == IsMaster(n) \/ (Attached(n) /\ end[n] = end[MasterOf(n)])
AllJoin == <>[](\A n \in Node : Joined(n))
=============================================================================

---------------------------- MODULE BinlogPurge ----------------------------
(***************************************************************************)
(* The binlog files of one partition: who may remove them and who relies   *)
(* on them (src/node/zp_data_partition.cc, Binlog::MaybeRoll and           *)
(* Binlog::SetProducerStatus in src/common/zp_binlog.cc).  The module       *)
(* composes the pool of send tasks of BinlogSendPool, whose names are here  *)
(* the slaves of the partition, with                                        *)
(*   - the worker threads that answer a slave's SYNC (SlaveAskSync),        *)
(*   - the purge thread (PurgeFiles),                                       *)
(*   - the thread that applies new meta information (Update, Leave),        *)
(*   - the trysync thread (SetBinlogOffset after kFallback or a DB sync).   *)
(*                                                                         *)
(* state_rw_ is held for reading by the workers, the purge thread and the   *)
(* writers of the log, for writing by Update.  Update is the only writer    *)
(* that is cut into steps, because the senders run while it removes tasks.  *)
(***************************************************************************)
EXTENDS BinlogSendPool, FiniteSets

CONSTANT
  RemainMin    \* conf: binlog_remain_min_count

ASSUME PurgeAssumption == RemainMin \in Nat

VARIABLES
  files,         \* the write2file<i> files in log_path_
  pro_num,       \* Version::pro_num_, the file being written
  purged_index,  \* purged_index_
  role,          \* role_; opened_ is role_ # kNodeSingle
  slave_nodes,   \* slave_nodes_
  purger,        \* PurgeFiles: the point reached, the files left to look at
  updater,       \* Update: the slaves left to clean, the role to take
  asked,         \* a TrySync was sent and its answer is not applied yet
  faults         \* history: the disturbances that have happened so far

partition == <<files, pro_num, purged_index, role, slave_nodes, purger,
               updater, asked, faults>>
vars == <<pool, partition>>

Role == {"single", "slave", "master"}
\* A file that could not be unlinked; a late kFallback answer applied during a
\* purge or by a node that is no slave by now; data moved to the trash.
Fault == {"unlink", "fallback", "trash"}
Idle == [pc |-> "idle", binlogs |-> {}]
NoUpdate == [pc |-> "idle", todo |-> {}, role |-> "single"]

First(S) == CHOOSE f \in S : \A g \in S : f <= g

-----------------------------------------------------------------------------
(* The locks.                                                              *)

\* A read lock of state_rw_ can be taken.
ReadState == updater = NoUpdate

\* The write lock of state_rw_ can be taken.
WriteState ==
  /\ updater = NoUpdate
  /\ purger = Idle
  /\ \A w \in Worker : adder[w] = NoCall

\* The write lock of purged_index_rw_ can be taken: SlaveAskSync has its read
\* lock until AddNewTask returns.
WritePurgedIndex == \A w \in Worker : adder[w] = NoCall

-----------------------------------------------------------------------------
(* Writing the log: Put, by DoCommand or DoBinlogCommand, rolls the file.  *)

MaybeRoll ==
  /\ ReadState
  /\ role # "single"
  /\ pro_num < MaxFilenum
  /\ pro_num' = pro_num + 1
  /\ files' = files \cup {pro_num + 1}
  /\ UNCHANGED <<pool, purged_index, role, slave_nodes, purger, updater, asked, faults>>

\* Mutant: start_num is not moved back.
SetProducerStatusKeepsStart(f) ==
  /\ files' = {f} \cup IF pro_num < f THEN files \ (0 .. pro_num)
                       ELSE files \ (f .. pro_num)
  /\ purged_index' = IF pro_num < f THEN f ELSE purged_index
  /\ pro_num' = f

\* Binlog::SetProducerStatus: files that the new point makes invalid go, and
\* the file of the new point is created empty.
SetProducerStatus(f) ==
  /\ files' = {f} \cup IF pro_num < f THEN files \ (0 .. pro_num)
                       ELSE files \ (f .. pro_num)
  /\ purged_index' = IF pro_num < f \/ f < purged_index THEN f ELSE purged_index
  /\ pro_num' = f

-----------------------------------------------------------------------------
(* A slave asks for the log (SyncCmd, SlaveAskSync).  A caller that is      *)
(* unknown, ahead of the log or behind the purge is refused without effect. *)

SlaveAskSync(w, n, f) ==
  /\ ReadState
  /\ role = "master"
  /\ n \in slave_nodes
  /\ f <= pro_num
  /\ purged_index <= f
  /\ AddNewTask(w, n, f)
  /\ UNCHANGED partition

\* Init of the task opens the file.
CreateOpens(w) ==
  /\ Create(w)
  /\ adder[w].filenum \in files
  /\ UNCHANGED partition

AddTaskStep(w) ==
  /\ CreateFails(w) \/ CheckExist(w) \/ RemoveOld(w) \/ AddTask(w) \/ LogAdded(w)
  /\ UNCHANGED partition

-----------------------------------------------------------------------------
(* The purge thread.  purging_ keeps out a second one.                     *)

PurgeFiles ==
  /\ ReadState
  /\ purger = Idle
  /\ role # "single"
  /\ Cardinality(files) > RemainMin
  /\ purger' = [pc |-> "examine", binlogs |-> files]
  /\ UNCHANGED <<pool, files, pro_num, purged_index, role, slave_nodes, updater, asked, faults>>

\* The first file left is due (manual bound, number or age of the files: any
\* file may be) and is not the file being written.
ExamineFile ==
  /\ purger.pc = "examine"
  /\ purger.binlogs # {}
  /\ First(purger.binlogs) < pro_num
  /\ purger' = [purger EXCEPT !.pc = "could"]
  /\ UNCHANGED <<pool, files, pro_num, purged_index, role, slave_nodes, updater, asked, faults>>

\* No file is left or due, or the file is being written: PurgeFiles returns.
PurgeDone ==
  /\ purger.pc = "examine"
  /\ purger' = Idle
  /\ UNCHANGED <<pool, files, pro_num, purged_index, role, slave_nodes, updater, asked, faults>>

\* Mutant: off by one, a file that a slave is still reading may go.
NeededBySlaveOffByOne(f) == \E n \in slave_nodes : f > TaskFilenum(n)

\* A slave is still reading f or an older file.
NeededBySlave(f) == \E n \in slave_nodes : f >= TaskFilenum(n)

\* CouldPurge, under the write lock of purged_index_rw_.
CouldPurge ==
  LET f == First(purger.binlogs) IN
  /\ purger.pc = "could"
  /\ WritePurgedIndex
  /\ IF NeededBySlave(f)
     THEN purger' = Idle /\ UNCHANGED purged_index
     ELSE purger' = [purger EXCEPT !.pc = "delete"] /\ purged_index' = f + 1
  /\ UNCHANGED <<pool, files, pro_num, role, slave_nodes, updater, asked, faults>>

\* Mutant: the file is never unlinked.
DeleteFileForgotten ==
  /\ purger.pc = "delete"
  /\ purger' = [pc |-> "examine", binlogs |-> purger.binlogs \ {First(purger.binlogs)}]
  /\ UNCHANGED <<pool, files, pro_num, purged_index, role, slave_nodes, updater, asked, faults>>

\* DeleteFile, outside that lock; when it fails the loop goes on.
DeleteFile ==
  LET f == First(purger.binlogs) IN
  /\ purger.pc = "delete"
  /\ \/ files' = files \ {f} /\ UNCHANGED faults
     \/ faults' = faults \cup {"unlink"} /\ UNCHANGED files
  /\ purger' = [pc |-> "examine", binlogs |-> purger.binlogs \ {f}]
  /\ UNCHANGED <<pool, pro_num, purged_index, role, slave_nodes, updater, asked>>

-----------------------------------------------------------------------------
(* New meta information: Update(state, master, slaves), with r the role     *)
(* this node gets.  Leave is Update to "single" with the slaves unchanged.  *)

Update(r, S) ==
  /\ WriteState
  /\ slave_nodes' = S
  /\ updater' = [pc |-> "clean", role |-> r,
                 todo |-> IF role # "master" THEN {}
                          ELSE IF r # "master" THEN slave_nodes \cup S
                          ELSE slave_nodes \ S]
  /\ UNCHANGED <<pool, files, pro_num, purged_index, role, purger, asked, faults>>

\* Mutant: the tasks of slaves that are left behind stay.
CleanSlavesSkipped(n) ==
  /\ n \in updater.todo
  /\ updater' = [updater EXCEPT !.todo = @ \ {n}]
  /\ UNCHANGED <<pool, files, pro_num, purged_index, role, slave_nodes, purger, asked, faults>>

CleanSlaves(n) ==
  /\ n \in updater.todo
  /\ IF TaskExist(n) THEN RemoveBinlogSendTask(n) ELSE UNCHANGED pool
  /\ updater' = [updater EXCEPT !.todo = @ \ {n}]
  /\ UNCHANGED <<files, pro_num, purged_index, role, slave_nodes, purger, asked, faults>>

\* CheckBinlogFiles: the oldest file is the new purged_index_, which stays as
\* it is when there is none; the process stops (LOG(FATAL)) at a hole.
CheckBinlogFiles ==
  /\ \A f, g \in files : f .. g \subseteq files
  /\ purged_index' = IF files = {} THEN purged_index ELSE First(files)

\* BecomeMaster, BecomeSlave: Open; Binlog::Init opens the file of the
\* manifest, or creates it.
Open ==
  IF role # "single" THEN UNCHANGED <<files, pro_num, purged_index, faults>>
  ELSE /\ CheckBinlogFiles
       /\ files' = files \cup {pro_num}
       /\ UNCHANGED <<pro_num, faults>>

\* BecomeSingle: Close, and MoveToTrash, manifest included, when the
\* configuration (enable_data_delete) says so.
CloseLog ==
  /\ \/ UNCHANGED <<files, pro_num, faults>>
     \/ files' = {} /\ pro_num' = 0 /\ faults' = faults \cup {"trash"}
  /\ UNCHANGED purged_index

ChangeRole ==
  /\ updater.pc = "clean"
  /\ updater.todo = {}
  /\ role' = updater.role
  /\ IF updater.role = "single" THEN CloseLog ELSE Open
  /\ updater' = NoUpdate
  /\ UNCHANGED <<pool, slave_nodes, purger, asked>>

-----------------------------------------------------------------------------
(* The trysync thread.                                                     *)

SendTrySync ==
  /\ ReadState
  /\ role = "slave"
  /\ asked' = TRUE
  /\ UNCHANGED <<pool, files, pro_num, purged_index, role, slave_nodes, purger, updater,
                 faults>>

\* kFallback: SetBinlogOffsetWithLock takes state_rw_ for reading and neither
\* purged_index_rw_ nor a look at role_ or opened_.  In a closed partition logger_
\* points to a deleted Binlog: the process ends there, or what was the Binlog is
\* still intact and the files change.
SetBinlogOffsetWithLock(f) ==
  /\ ReadState
  /\ asked
  /\ SetProducerStatus(f)
  /\ asked' = FALSE
  /\ faults' = IF purger = Idle /\ role = "slave" THEN faults
               ELSE faults \cup {"fallback"}
  /\ UNCHANGED <<pool, role, slave_nodes, purger, updater>>

\* TryUpdateMasterOffset after a DB sync, under the write lock.
TryUpdateMasterOffset(f) ==
  /\ WriteState
  /\ role = "slave"
  /\ SetProducerStatus(f)
  /\ UNCHANGED <<pool, role, slave_nodes, purger, updater, asked, faults>>

-----------------------------------------------------------------------------
\* A sender rolls on only when the next file exists.
RollIfNext(s) ==
  /\ RollToNextFile(s)
  /\ object[hand[s]].filenum + 1 \in files
  /\ UNCHANGED partition

PurgeInit ==
  /\ Init
  /\ files = {0}
  /\ pro_num = 0
  /\ purged_index = 0
  /\ role = "master"
  /\ slave_nodes = Name
  /\ purger = Idle
  /\ updater = NoUpdate
  /\ asked = FALSE
  /\ faults = {}

PurgeNext ==
  \/ MaybeRoll \/ PurgeFiles \/ ExamineFile \/ PurgeDone \/ CouldPurge \/ DeleteFile
  \/ \E w \in Worker :
       \/ \E n \in Name, f \in Filenum : SlaveAskSync(w, n, f)
       \/ CreateOpens(w)
       \/ AddTaskStep(w)
  \/ \E s \in Sender :
       \/ (FetchOut(s) \/ PutBack(s)) /\ UNCHANGED partition
       \/ RollIfNext(s)
  \/ \E r \in Role, S \in SUBSET Name : Update(r, S)
  \/ \E n \in Name : CleanSlaves(n)
  \/ ChangeRole
  \/ SendTrySync
  \/ \E f \in Filenum : SetBinlogOffsetWithLock(f) \/ TryUpdateMasterOffset(f)

PurgeSpec == PurgeInit /\ [][PurgeNext]_vars

-----------------------------------------------------------------------------
\* The values of the variables.
PurgeTypeOK ==
  /\ TypeOK
  /\ files \subseteq Filenum
  /\ pro_num \in Filenum
  /\ purged_index \in 0 .. MaxFilenum + 1
  /\ role \in Role
  /\ slave_nodes \subseteq Name
  /\ purger \in [pc: {"idle", "examine", "could", "delete"}, binlogs: SUBSET Filenum]
  /\ updater \in [pc: {"idle", "clean"}, todo: SUBSET Name, role: Role]
  /\ asked \in BOOLEAN
  /\ faults \subseteq Fault

\* Every file from purged_index_ to the one being written is there.
NoHole ==
  role # "single" =>
    /\ purged_index <= pro_num
    /\ purged_index .. pro_num \subseteq files

\* purged_index_ is "binlog before which has or will be purged"
\* (zp_data_partition.h:322): SlaveAskSync serves the log from there on, so the
\* log is complete from there, whatever rolls, purges, role changes and producer
\* resets came before, as long as none of the faults did.
LogComplete == faults = {} => NoHole

\* purged_index_rw_ is there to "protect purge index between purge thread and
\* trysync command" (zp_data_partition.h:319): a fallback that the trysync thread
\* applies does not tear a hole into the log of a slave.  It does: the README
\* says how.
LogCompleteDespiteFallback == faults \subseteq {"fallback"} => NoHole

\* The file that the current task of a slave reads has not been purged, and is
\* not about to be, whatever rolls, purges and new tasks come in between, until
\* two tasks of the slave get one sequence.
TaskFileKept ==
  faults = {} => \A n \in Name \ twins : TaskExist(n) =>
    /\ object[latest[n]].filenum \in files
    /\ purged_index <= object[latest[n]].filenum

\* Only a master's own slaves have tasks: once Update is done, nothing is sent
\* to a node that is no slave or by a node that is no master (CleanSlaves).
TasksOnlyForSlaves ==
  updater = NoUpdate =>
    \A n \in Name : TaskExist(n) => role = "master" /\ n \in slave_nodes

\* While a node stays master, what it has given up it never offers again, as
\* long as every file it gives up can be deleted (CouldPurge).
PurgeOnlyForward ==
  [][faults' = {} /\ role = "master" /\ role' = "master" => purged_index <= purged_index']_vars
=============================================================================

# Zeppelin in TLA+

Zeppelin is a distributed key-value store. Data nodes keep partitions of tables
in RocksDB and replicate each partition's binlog from a master to its slaves.
Meta servers keep the cluster's layout in floyd, a Raft-replicated key-value
store, and hand it out to nodes and clients. This directory models the parts in
which the order of steps matters, checks the models with TLC, and proves the most
important properties with TLAPS. Paths below are relative to `src/src`.

## 1. Inventory

### Data node (`node/`, `common/`)

| Part | State | Operations | What makes it correct |
|---|---|---|---|
| Binlog files (`common/zp_binlog.cc`, `Partition` in `node/zp_data_partition.cc`) | `write2file<i>`, manifest (`pro_num_`, `pro_offset_`), `purged_index_` | `Put`, `PutBlank`, `MaybeRoll`, `SetProducerStatus`, `PurgeFiles`, `CouldPurge`, `CheckBinlogFiles` | the log has no hole from `purged_index_` on; no file a slave reads is purged |
| Send pool (`ZPBinlogSendTaskPool`, `node/zp_binlog_sender.cc`) | `tasks_`, `task_ptrs_`, `next_sequence_` | `AddNewTask`, `AddTask`, `RemoveTask`, `FetchOut`, `PutBack`, `TaskFilenum` | each task has one owner; a replaced task never returns; every task is served |
| Send tasks and threads (`ZPBinlogSendTask`, `ZPBinlogSendThread`) | label `filenum_`/`offset_`, `reader_`, previous position, `send_next_` | `ProcessTask`, `Fallback2PreOffset`, the loop of `ThreadMain` | an item goes out with its own position |
| Receiver (`zp_sync_conn.cc`, `CheckSyncOption`, `DoBinlogCommand`) | the slave's producer position | accept, reject, lease renewal | the slave's log is a prefix of the master's |
| Attachment of a slave (`zp_trysync_thread.cc`, `Partition`) | `role_`, `master_node_`, `repl_state_`, recovery counters, rsync reference | `Update`, `BecomeSlave`, `SendTrySync`, `TryUpdateMasterOffset`, `NeedRecoverSync`, DB sync | the slave does not stay unattached; the rsync daemon is released |
| Write path and snapshots (`DoCommand`, `Bgsave`, `zp_data_command.cc`) | database, record locks, `suspend_rw_` | `Set`, `Del`, `FlushDb`, `DoBgsave` | database and binlog agree on the order |
| Node tables and meta pull (`zp_data_server.cc`, `zp_data_table.cc`, `zp_ping_thread.cc`, `zp_metacmd_bgworker.cc`) | `meta_epoch_`, tables, partitions | `TryUpdateEpoch`, `FinishPullMeta`, `ParsePullResponse` | the layout a node acts on never goes back |

### Meta server (`meta/`)

| Part | State | Operations | What makes it correct |
|---|---|---|---|
| Info store (`zp_meta_info_store.cc`) | floyd keys `##version`, `##tables`, `##nodes`, one per table; caches `epoch_`, `table_info_`, `node_infos_` | `Refresh`, `Apply`, `GetSnapshot`, the operations of the snapshot | the epoch never falls back; nobody hands out tables older than their epoch |
| Update thread (`zp_meta_update_thread.cc`) | `task_deque_`, `is_stuck_`, `should_stop_` | `PendingUpdate`, `UpdateFunc`, `ApplyUpdates`, `Abandon` | partitions stay well formed and have a live master |
| Migration (`zp_meta_migrate_register.cc`, `zp_meta_condition_cron.cc`, `ProcessMigrateIfNeed`) | floyd keys `##migrate` and one per diff item; `diff_keys_`, `refer_`, `ctime_`; waiting conditions | `Init`, `GetN`, `PutN`, `Erase`, `Cancel`, `Load`, `ChecknProcess` | what is registered can be loaded; no item is lost or handed over twice |
| Election (`zp_meta_election.cc`, `RefreshLeader`) | leader record and lock in floyd | `GetLeader`, `Jeopardy` | one leader at a time |

Interaction: data nodes ping and pull from any meta server (messages, epochs);
a slave asks its master to send (`SYNC` command), the master sends binlog items
one way; `Partition` is shared by workers, the purge thread, the trysync thread,
the meta thread and the cron under `state_rw_` and `purged_index_rw_`; on the
leading meta server the timer thread, the condition cron, the update thread and
the command threads share the update queue and the migrate register; meta servers
share nothing but floyd.

Hard behaviours, listed with their lines under `hazards` in `PROJECT.json`:
critical sections that do not cover the whole operation (`AddNewTask`,
`CouldPurge`/`DeleteFile`, `ChecknProcess`), answers applied to a state that has
moved on (`SendTrySync`), one-way messages over several connections, a time slice
that ends at the wrong moment, several floyd writes that a crash may cut anywhere,
register contents that outlive a term of leadership, a lease that runs out while
floyd does not answer, a reader in the block that is being written, a flush and a
checkpoint among commands, and logs that differ after a change of the master.

## 2. Plan

Done, in this order: `BinlogSendPool`, `BinlogPurge` (composes the pool),
`SlaveSync`, `LogFiles`/`LogCopy`/`BinlogSync` (detailed and abstract), `MetaTable`,
`MetaUpdate`, `Migrate`, `MetaElection`, `NodeMeta`, `BinlogFormat`, `WritePath`,
`Failover`; then the proofs: the pool and the purge, replication, the attachment of a
slave, the migration, the election, the node's tables, the update of the tables, the
write path, the failover, the record format. Every safety invariant and action property
that a run checks is now stated by a theorem.

Left, in this order:

1. what remains of `MetaUpdate`'s properties when two servers believe they lead;
2. time to live: a command that a slave applies after its key has expired.

## 3. Modules and their correspondence to the code

Every mapped definition, with its lines, is in `PROJECT.json` under `map`.
Definitions whose comment begins with "Mutant" are deliberately wrong variants of
the definition that follows them. They are not part of any specification: each
shows that some property notices a plausible mistake.

**BinlogSendPool.** `tasks`, `task_ptrs`, `next_sequence` are the pool's members;
`object` is the heap of `ZPBinlogSendTask` objects, with `Freed` for a deleted one;
`hand` is what each sender thread has fetched; `adder` is the program counter of
each `AddNewTask` call. Every critical section of `tasks_rwlock_` is one step.
`AddNewTask` is cut at each of them, and between the read and the write of
`next_sequence_++`, which happens outside the lock. Contents of tasks are reduced
to the file number. `latest` and `twins` are history: the last task added under each
name, and the names of which two tasks were alive with one sequence.

**BinlogPurge.** Extends the pool, whose names become the slaves of one partition.
`files` is the directory, `purger` and `updater` the program counters of
`PurgeFiles` and `Update`. `ReadState`, `WriteState`, `WritePurgedIndex` say when the
locks can be taken. `faults` records the three disturbances after which the log may
have a hole: an `unlink` that fails, a late `kFallback` answer, data moved to the
trash. `SetBinlogOffsetWithLock` looks at neither `role_` nor `opened_`
(`node/zp_data_partition.cc:696`), so an answer for which `SendTrySync` waited without a
lock (`node/zp_trysync_thread.cc:237`) may come to a partition that has been closed,
where `logger_` points to a deleted `Binlog`. What that does is undefined; the model lets
it change the files as an open one would, or never come. File age and number limits are nondeterministic: any old file may be due.

**SlaveSync.** One slave partition with its four threads, each critical section of
`state_rw_` one step; `thread` is the program counter of `SendTrySync`. Other nodes
are reduced to what the slave sees of them. A request whose connection was given
up stays in `late` and may still be executed by the master. `pending` saturates at
`MaxPending`, because trysync tasks are alike. A task that finds the server not
`Availible` is scheduled again, which leaves everything as it was. `purging` is the purge
that a round of `DoTimingTask` starts: while it goes on the next round ends before it
looks at the recovery timers.

**LogFiles, LogCopy, BinlogSync.** A log maps a file number and an offset to an item,
with lengths, so that positions are as in the code and files roll as in
`MaybeRoll`. `LogCopy` is the abstract promise: the copy takes over the original's
item at the copy's own end, or starts a file afresh. `BinlogSync` has the send tasks
with label and reader apart, a network that loses, repeats and reorders, and the
slave. A task whose next file cannot be opened (`RollFails`) is deleted, like one whose
item cannot be read. `shifted` is history: `Fallback2PreOffset` has run, that is, a send failed until
the thread's time slice was over. One term of one master, `Failover` has the others;
fallbacks go to the start of a file; damaged records and blanks are in
`BinlogFormat`.

**MetaTable.** The operations of `ZPMetaInfoStoreSnap` on one partition as pure
operators. Slaves are a sequence, because the election goes by their order; `Without`
is the loop of `DeleteSlave` that copies all but one.

**MetaUpdate.** `floyd` is the replicated store, `cache` each server's `epoch_` and
`table_info_`, `reader` the progress of a follower's `Refresh`, `infos` the leader's
`node_infos_`, `deque` and `worker` the update thread. Each floyd call of `Apply` and
each read of `Refresh` is a step. A failing call may or may not have taken effect.
The stamps in `floyd` and `cache` are history: the epoch at which a value is
published. One table with one partition. `RemoveNodes` takes one node at a time.
`AddMeta` and `RemoveMeta` are left out. Exactly one server leads at a time, which is
what `MetaElection` is about.

**Migrate.** `head` and `items` are the keys in floyd, `mem` each server's register,
`op` the register operation that holds `migrate_rw_`, `proc` the timer thread in
`ProcessMigrateIfNeed`, `waiting` and `half` the condition cron, `pending`, `worker`
and `stuck` the update thread, of which only handovers matter here. `Migrate` and
`CancelMigrate` run on the threads of the connections, which `RefreshLeader` does not wait
for: a command that a leader admitted (`Commanded`, `served`) may come to the register, and
write head and items, when another server leads. `op` is therefore kept for each server.
The operations of the timer, the cron and the update thread are over when a leader
resigns, because `Abandon` stops and joins those threads. `odd` and `relic` are history:
items were out that do not belong to the current count (a cancelled migration, a
refused update); a leader began with items of an earlier term, or a command of an
earlier leader came to the register.

**MetaElection.** `record` and `lock` are the two keys in floyd; `pc` is where a server is
in `GetLeader` and `RefreshLeader`, every floyd call a step; `last` is `last_leader_`.
Time is one clock for all servers, kept as ages that saturate at the timeout; `left`
and `since` bound how long a round takes (`Gap`). The lock expires `LockTimeout` after it
was taken, whether its holder is still at work or not. `amiss` is history: the worst that
has happened so far, of a task of `ActiveAllPartition` that was refused, a write that was
lost (it failed and was not carried out), a write that came after the server's lock had
run out (`Overrun`), and the end of all faults. Lost answers, failing reads, failing locks,
crashes and restarts happen anywhere and as often as they like before that.

**NodeMeta.** One data node, several meta servers. `published` and `version` are what the
leader wrote, `cache` what each meta server has read of it, `ping` an answer on its way,
`worker` the task of the metacmd thread between its calls, `view` the node's role in each
table, `epoch` is `meta_epoch_`. Epochs are counted from 1, and 0 is the code's -1.
`seen` is history: the epoch of what was last applied to a table. A table stands for
its partition; new partitions are active. `FetchFails` is a pull without an answer or with
one that says it failed; an answer of another type than the request's does not occur
(`meta/zp_meta_client_conn.cc:45`, `:55`, `:74` copy the type, `meta/zp_meta_command.cc:60` sets it).

**BinlogFormat.** The one file of a master and its copy at a slave, as sets of records with
place, type and the fragment of the item; writers and the reader go record by record.
Blocks, headers, padding, `PutBlank` on the slave for what the master skipped, damage
on disk, that of the block being written included, and crashes between `Produce` and
`Inc`. `crossed` and `overrun` are history: the slave wrote a blank that did not fit its
block; a task that skipped a damaged block went past the place of the producer, which only
happens in the last block. `FormatInit`, `FormatNext`,
`FormatSpec` and `stream` (the variables) have names of their own because
`ReplicationProofs` extends this module and `SlaveSync`.

**WritePath.** Threads in `DoCommand`, the receiver in `DoBinlogCommand`, the bgsave thread
and `Update`, with the locks `state_rw_`, `suspend_rw_` and `mutex_record_` as the steps at
which each can be taken. `tail` is the binlog file being written, `replica` what a
slave has that applies every item, `synced` what one has that began with the snapshot
and goes on from the start of the file of its point: the point is taken before the
files, and replaying a file from its start is idempotent, which is why
`SnapshotServes` holds although the two are taken in separate calls. `suspect` and
`torn` are history: keys whose last writes overlapped under two names, and keys that a
crash or a failure left in only one of database and binlog. A key may be the empty one,
whose name is that of the record which `FlushDB` locks. `SyncCmd`, and the change
of the database on a slave, are under `state_rw_` and in `SlaveSync`.

**Failover.** The logs of a partition's nodes over several masters, in the files of
`LogFiles`. Each of `SlaveAskSync`'s four answers is an action, applied when it is given
(what a late answer does is in `SlaveSync`); an attached node takes over items one by one,
as `LogCopy` has it (which `BinlogSync` implements). A file is shorter than a block
here, so every fallback goes to the start of a file. Elections and restarts come at any
moment. `blind` is history: the slaves whose last `kOk` overlooked that their log is not
their master's. `FailoverInit`,
`FailoverNext`, `FailoverSpec` and `cluster` (the variables) have names of their own because
`BinlogSyncProofs` extends this module and `BinlogSync`; a master's write is `DoCommand`.

**MC modules** give constants and symmetry sets only.

## 4. Runs

| Run | Shows | Bounds |
|---|---|---|
| `send_pool` | `TaskOwned`, `IndexAgrees`: no task leaks, is deleted twice or used after deletion, whatever the interleaving; `CurrentTask`: a replaced task does not come back; `EveryTaskServed` under fairness | 2 names, 2 tasks, 2 senders, 2 workers: two calls for one name overlap while a task is held |
| `purge` | `LogComplete`, `TaskFileKept`, `TasksOnlyForSlaves`, `PurgeOnlyForward` | 2 slaves, 3 files, 2 senders, 1 worker (two are in `send_pool`, any number in the theorems); every role change |
| `slave_sync` | `TrySyncPending`, `RsyncReleased`, and `AttachedAgain` under fairness | 2 possible masters, 2 new assignments, timers at once, purges of any length |
| `replication` | `LabelsOK`, `SlaveIsPrefix`, and that `BinlogSync` implements `LogCopy` | 2 items of different length, 2 files, 2 tasks |
| `meta_update` | `PartitionOK`, `MasterUp` for every kind of task | 2 nodes, 2 tasks at a time, epochs to 2, no failures |
| `meta_epoch` | `NoEpochFallback`, `CacheNotOlder`, `LeaderInStep` | 2 servers, 1 failing call or crash, epochs to 2 |
| `migrate` | `HeadHasItems`, `OutCounted`, and `RefersReturn` under fairness | 1 server, 2 items fetched together; failures, crashes and changes of the leader without bound, each of which commands may outlive |
| `election` | `OneLeader`, `OneUpdater`, `NotStolen`, and `Elected` under fairness | 2 servers, a timeout of 3; the threshold, the lock and the longest round are 1, so the lock may run out within a round; faults without bound |
| `node_meta` | `ViewBacked`, `PullPending`, and `Converges` under fairness | 2 meta servers, 1 table, 2 epochs, restarts and lost answers without bound |
| `binlog_format` | `ReadBack`, `NoneLost`, `SeekLands`, `Mirror` | blocks of 6 bytes with headers of 2, files of 19 bytes, items of 1 to 9 bytes, 2 faults, damage anywhere |
| `write_path` | `OrderAgrees`, `IteratorsLive`, `StuckIsQuiet`, `SnapshotServes`, and `UpdateHappens` under fairness | 2 clients, 1 receiver, 1 tagged key and the empty key, files of 2 items; checkpoints and crashes without bound |
| `failover` | `AttachedAgrees`, and `AllJoin` under fairness | 2 nodes, 3 elections and 1 restart at any moment, 2 files, items of two lengths |

Several properties are conjunctions of parts that are named and explained in the
modules (`TaskOwned`, `CurrentTask`, `LabelsOK`, `OutCounted`). Type invariants are stated
in every module; those of the pool, the purge, the attachment, the failover, the record
format, the election, the node, the migration, the update of the tables and the write path
are proved, the runs are spent on the rest.

Why the bounds are enough for what is asked: the races of the pool and the purge
involve one name, at most two calls and two senders, and with two tasks and two sequences
a second call can take the sequence of the first; replication compares one item
with one place, and a label can be wrong within a file or across one roll, so two
files and two tasks show every case; a half-done `Apply` needs one failure and one
more update. A lease is taken by one server from one other, the timeout leaves
room for a round before and after the threshold, and a lock of 1 expires within a round. A node goes back by one epoch when
the server it pulls from is one behind. The lengths of `binlog_format` leave less than a
header, exactly a header, nothing, or take two and three blocks. With one tagged key,
commands on the key, on its tag and on all keys meet under three different names of
`mutex_record_`. A batch both sets and deletes and takes the tag for its name; `del`, given
the empty key as well, is the command that meets a flush on the record of the empty name. A file of
one item, or of two, shows ends that agree while the items differ. In `Migrate` `refer_` is not followed below `-MinRefer`; below zero it is
only ever compared with zero and overwritten by `GetN`, so nothing depends on it.
`MaxCopies` keeps an item from being pending more than once. `CHECK_DEADLOCK FALSE` is
used where the bounds, or a node without work, make the system stop.

### Fairness

* Senders (`send_pool`): the loop of `ThreadMain` runs until the process ends,
  fetches whenever the pool is not empty and puts back at the end of its slice; a
  worker finishes the call it is in. Nothing forces a slave to ask.
* Attachment (`slave_sync`): the threads and the cron run for ever, and a purge ends (weak
  fairness).
  That a request repeated for ever is in the end connected, sent and answered by an
  acting master of the same epoch, and that an unrenewed lease runs out, is strong
  fairness: the network is not down for ever.
* Migration (`migrate`): every thread goes on and floyd answers in the end (weak
  fairness). The handover of a waiting item is strongly fair: the cron runs all its
  conditions in turn each interval, so none is passed over for ever, and a stuck
  partition takes no writes, so the new node catches up or fails to answer. With
  weak fairness for the cron as a whole one condition that keeps being refused
  starves the others. A new fetch (`GetN`), cancelling and leader changes are not fair.
* Election (`election`): time passes and the cron of a server that is up runs on (weak
  fairness of `Tick` and of each server's rounds). `Elected` begins when the faults have
  ceased with a server up. It needs `Timeout - RemainThreshold` above the length of two
  rounds, which the code's times (60 and 10 seconds, and a round every 5) give.
* Node (`node_meta`): the leader finishes `Apply`, meta servers refresh, the ping thread
  sends and receives, the worker runs its tasks (weak fairness). Losses and restarts
  have ceased; changes of the leader have not.
* Write path (`write_path`): as long as any of the threads in a command, the checkpoint and
  `Update` can go on, one of them does (weak fairness of all of them together). The rwlocks
  prefer writers, as the constructor sets them (`node/zp_data_partition.cc:70`). Nothing is
  claimed for a single command: it may wait for `mutex_record_` for ever while others get it.
* Failover (`failover`): nodes pull, ask, take over items, and the timer that finds a
  slave nobody serves runs (weak fairness). Elections and restarts are bounded.

### Disagreements of code and comments

Where the code does not do what a comment says, the runs check what it does keep, and
the definition that states the comment's promise is in the module, checked by no run
because it fails. With TLC each fails on the run's instance unless noted.

* Replication, `BinlogSync!PrefixOfMaster` after `Fallback2PreOffset`: it moves the label
  back and not the reader (`node/zp_binlog_sender.h:103`, against
  `node/zp_binlog_sender.cc:541`). The item is sent again, and then the following one goes
  out under its label. The slave stores an item at the place of another. This is why
  `SlaveIsPrefix`, `LabelIsPlace` and `LogCopy` speak of the time before `shifted`.
* `MetaUpdate!PromotedIsNewest`: `RefreshTableWithNodeAlive` passes `j`, the index of the
  slave, as the partition id to `GetNodeOffset` (`meta/zp_meta_info_store.cc:332`), so
  offsets of other partitions, or none, are compared and a slave with less data becomes
  master; line 340 says "Swap with slave with max offset". It takes three nodes
  (`FirstTable <- AllThree`).
* `Migrate!LoadAgrees`: `Load` returns at once when floyd has no head
  (`meta/zp_meta_migrate_register.cc:261`) and does not forget what the register holds from
  an earlier term. `Exist()` is then true for a migration that is over. A later `Init` is
  refused; a later `Erase` writes a head that may name items which are gone, after which
  no server can `Load`, hence lead. This is why `HeadHasItems` has the condition `~relic`.
* Election, after a lost write: `GetLeader` answers with the server itself although
  `WriteLeaderRecord` failed (`meta/zp_meta_election.cc:149`), so it leads without a lease
  while another takes it, against the comment at lines 66-67. `OneLeader` and
  `LeaderIsRecorded` therefore end with the first lost write.
* Election, after the lock has run out: it is taken for five seconds
  (`meta/zp_meta_election.cc:109-110`), and nothing bounds the two floyd calls made under it
  (`:117`, `:149`). If they take longer a second server gets the lock, reads the same record
  and writes its own, and the first overwrites that. `NotStolen`, `OneLeader` and `OneUpdater`
  end with the first record that is written without the lock (`Overrun`).
* Election, after refused tasks: the update thread runs from `meta/zp_meta_server.cc:928`
  on; if `ActiveAllPartition` then fails (936), `role_` stays `kNone`, and a round without a
  leader stops the threads of a `kLeader` only (862). The next leader's run beside them.
  `OneUpdater` ends there.
* `NodeMeta!EpochForward`: `ParsePullResponse` returns OK for an answer that is not newer
  (`node/zp_metacmd_bgworker.cc:108`) and `FinishPullMeta` takes its epoch over, so the
  epoch falls back, which `node/zp_data_server.cc:249` says is rejected. `Converges` shows
  that the next ping makes up for it.
* `BinlogFormat!BlankExact`: `AppendBlank` takes one header off the length and emits one
  per block, after padding that is not counted either (`common/zp_binlog.cc:178`): a
  blank that does not fit its block is longer than `len`, against line 487. `Mirror` ends
  with the first such blank (`crossed`).
* `BinlogFormat!OnlyFinished`: after a damaged record in the last block `SkipNextBlock`
  takes the reader past the producer's place, which is compared for equality only
  (`node/zp_binlog_sender.cc:110`), and the task reads what is not finished. The four
  properties of the run end when a task does so (`overrun`).
* `WritePath!LockCycle` is reached: `FlushDB` locks the record of the empty name before
  `suspend_rw_`, and a `Set` or `Del` of the empty key the other way round
  (`node/zp_data_partition.cc:905`, `:245`); `node/zp_data_partition.h:335` gives the order. The
  two wait for each other, and everybody else for them. `LockCycle` is that state;
  `UpdateHappens` says that a change of role waits for ever only there.
* `WritePath!OthersSuspended`: `FlushDb` gives `suspend_rw_` back before its item is in the
  binlog (`node/zp_data_partition.cc:245`). A write that comes in between is after the
  flush in the database and before it in the binlog, so a slave loses it; such keys are
  `suspect` and exempt from `OrderAgrees`, like those of a `Set` that meets a command on
  the key's tag.
* `WritePath!CheckpointLive`: `RunBgsave` uses a checkpoint of `db_` (`:317`, `:336`) with no
  more than the read lock of `state_rw_`, under which `FlushDB` deletes `db_`, against the
  requirement at `:202`.
* Failover, `blind`: `SlaveAskSync` tells a slave with a past of its own by its end being
  larger (`node/zp_data_partition.cc:499`). A replaced master that comes back after the new
  one has passed its end is served from there and keeps its own items. The point at
  which the master won (`:573`) is used for those ahead only, and a restart moves it. A
  fallback cuts the log and not the database. `AttachedAgrees` leaves out a slave from a
  `kOk` that overlooked a difference to its next one, and says that it takes a change of the
  master to get there.
* Migration, against `meta/zp_meta_client_conn.cc:62-69`: a command of a server that no longer
  leads is called "acceptable as long as don't write to floyd which has ensured by the
  update thread", but `Migrate` and `CancelMigrate` write the register's head and items to
  floyd on the thread of the connection. They may do so after the next leader's `Load`.
  `HeadHasItems` has the condition `~relic` for this as well.
* `BinlogSendPool!UniqueSequences` fails with two workers: `next_sequence_++` is not under
  the lock (`node/zp_binlog_sender.cc:246`), two tasks of one name may get one sequence, and
  `PutBack` takes the replaced one for the current one. The comment at
  `node/zp_binlog_sender.h:166` promises unique sequences. `CurrentTask` and `TaskFileKept`
  leave out a name from the moment at which this has happened to it (`twins`), and no other.
* `BinlogPurge!LogCompleteDespiteFallback` fails: a `kFallback` answer sets
  `purged_index_` under a read lock while the purge thread is between `CouldPurge` and
  `DeleteFile` (`node/zp_data_partition.cc:705`), and the file that goes is one that
  slaves are offered. Likewise a file that could not be unlinked (the next purge begins
  with it and sets `purged_index_` back to it, below files that are gone), and data moved to
  the trash while `purged_index_` stays, leave a hole or a stale start; they are the
  faults that `LogComplete` and `PurgeOnlyForward` exclude.
* `SlaveSync!AssertShouldConnect` fails: an answer may arrive after `Update` or the
  recovery timer has changed the partition, against the assertions at
  `node/zp_data_partition.cc:171` and `:195`. In a release build the new attachment is
  marked connected on the old master's answer; `AttachedAgain` shows that the timers
  make up for it.
* An epoch may be used twice: if `Apply` has written the epoch and its own `Refresh`
  then fails with an error other than an IOError, the leader's cache stays one epoch
  behind and the next update publishes the same epoch with other tables. A follower
  that has read the first keeps it. `LeaderInStep` therefore excludes an `Apply` that
  was cut off (`partial`); `NoEpochFallback` and `CacheNotOlder` hold regardless.

## 5. Proofs

| Theorem | Statement | Invariant |
|---|---|---|
| `BinlogSendPoolProofs!PoolSafety`, `IndexKept` | `Spec => [](TypeOK /\ TaskOwned)`, `Spec => []IndexAgrees` | these, and `CallOK`: where each `AddNewTask` call is and what it holds. Ownership is not inductive without it: nothing else says that the task a worker is about to add is not in the list already. Ownership and index need each other, so they are proved in one induction |
| `BinlogSendPoolProofs!PurgeImplementsPool` | `PurgeSpec => Spec` | none: each step of the partition is a step of the pool or leaves it alone, also those of `Update` and of the purge |
| `BinlogSendPoolProofs!LogKeptComplete`, `TasksForSlavesOnly`, `PurgeForward` | `PurgeSpec => []LogComplete`, `[]TasksOnlyForSlaves`, `PurgeOnlyForward` | `PInv`: `Locks` (`Update` has `state_rw_` to itself), `FilesInv` (without faults the files are exactly those from `purged_index_` on, plus the one between `CouldPurge` and `DeleteFile`, and the purge's list is the oldest of them: the list is made before the files are looked at one by one, so nothing else ties them together), `TasksInv` (calls under way are for slaves; during `Update` tasks are for slaves that stay or are still to be cleaned) |
| `BinlogSendPoolProofs!CurrentTaskKept`, `PurgeKeepsCurrentTask` | `Spec => []CurrentTask`, `PurgeSpec => []CurrentTask` | `SeqInv`: for a name that is no twin, no two of its tasks that are alive or being added have one sequence, and the last task added is alive and agrees with the index. Calls may overlap and `next_sequence_` may go back: only tasks of one name are compared |
| `BinlogSendPoolProofs!TaskFilesKept` | `PurgeSpec => []TaskFileKept` | `ReadInv`: without faults the file a slave asked for, from the check against `purged_index_` until its task is listed, and that of its current task lie between `purged_index_` and the file being written |
| `BinlogSyncProofs!SyncSafety` | `Spec => [](LabelIsPlace /\ SlaveIsPrefix)` | until `shifted`: `MasterShape` (nothing after the master's end), `SlaveNotAhead`, `TasksOK` (label and reader together, the content is the item at the recorded place). A message can only be right if the task that sent it was |
| `BinlogSyncProofs!SyncImplementsCopy` | `Spec => CopySpec` | the same invariant; each action is shown to be a step of `LogCopy` or a stutter |
| `BinlogSyncProofs!LabelsKept` | `Spec => []LabelsOK` | the first half is `SyncSafety`; the second holds after `shifted` too and has an invariant of its own, `LagInv`: a label is in its reader's file and not beyond it, neither is the place `Fallback2PreOffset` may take it back to, and items start within `FileSize` |
| `BinlogSyncProofs!FailoverTypes`, `AttachedKeepAgreeing` | `FailoverSpec => []FailoverTypeOK`, `FailoverSpec => []AttachedAgrees` | `FInv`: `ShapeInv` (what a log looks like), `SessionInv` (who is served is not ahead of its master), `AgreeInv` (who is served agrees or is blind, also while its master writes, purges, falls back, restarts or is replaced) and `FirstInv` (under the first master all logs are the same as far as they go, so no answer can overlook anything) |
| `ReplicationProofs!AttachSafety`, `RsyncDaemonReleased` | `Spec => [](TypeOK /\ TrySyncPending)`, `Spec => []RsyncReleased` | these together, and `NoWaitWhileAsking`: a slave that is asking its master does not wait for a DB sync |
| `ReplicationProofs!FormatTypes`, `WhatWasPut`, `NoneIsLost`, `SeeksLand`, `CopiesMirror` | `FormatSpec => [](~overrun => FormatTypeOK)`, `FormatSpec => []ReadBack`, and likewise `[]NoneLost`, `[]SeekLands`, `[]Mirror` | until `overrun`, `FormatInv`: `FileOK` (records do not overlap, stay in their blocks and leave no room but padding; a record holds as much of its item as its block takes, with the parts before and after it in the records before and after it: a reader that goes from record to record meets each item from its first part to its last), `ReaderOK` (a reader is at a record or at the end, never inside one, and what it has collected is a beginning of one item; in `SeekOK` how far it has to go), `MessageOK`, and until `crossed` `SlaveOK`: what the slave is about to write fills the room that the master's record has at that place, and what it is sent next begins where it will then be. The slave's records alone do not imply that the next one is right |
| `MigrateProofs!RegisterLoadable` | `Spec => []HeadHasItems` | until `relic`: also `KeysHaveItems` (what the register of the server that led last lists is in floyd: the next head is made of that list), `OpOfLast` (an operation on the register is of that server), `ItemForgotten` (an item `Erase` is about to delete is named neither by head nor by list), `CancelHeadless` (no head while `Cancel` deletes items). `HeadHasItems` alone says nothing about the list the next head is written from |
| `MigrateProofs!MigrateTypes`, `ItemsCounted` | `Spec => []TypeOK`, `Spec => []OutCounted` | `CInv`: types, and `CountInv`: `refer_` counts what is out, also while `migrate_rw_` is held, what is out is in the list, and is out once. That it is listed is what makes `GetN` and `Erase` keep the count |
| `MetaUpdateProofs!UpdateTypes`, `PartitionsWellFormed` | `Spec => []TypeOK`, `Spec => []PartitionOK` | `PartitionOK` is about all copies of the table, each operation of `MetaTable` has a lemma that it keeps a partition well formed |
| `MetaUpdateProofs!EpochNeverFallsBack`, `CachesNotOlder` | `Spec => []NoEpochFallback`, `Spec => []CacheNotOlder` | `EpochInv`: epochs in caches, reads under way and snapshots are at most floyd's, the leader lags by one at most; `StampInv`: what is published under an epoch is in floyd before the epoch is, so a reader that has the epoch reads nothing older |
| `MetaUpdateProofs!LeaderKeepsInStep`, `MastersUp` | `Spec => []LeaderInStep`, `Spec => []MasterUp` | unless an `Apply` was cut off: `StepInv` and `NodesInv` (whoever has floyd's epoch has its table; snapshot and floyd differ only by what the snapshot has noted as changed), `ElectedInv` (what `Apply` is writing was settled by the election for the nodes it writes) |
| `WritePathProofs!WritePathTypes`, `IteratorsKept`, `StuckStaysQuiet` | `Spec => []TypeOK`, `[]IteratorsLive`, `[]StuckIsQuiet` | `StageInv`, `RoleInv`, `RecordInv`: how far each command can be and what the locks it holds exclude |
| `WritePathProofs!OrderKept`, `SnapshotsServe` | `Spec => []OrderAgrees`, `Spec => []SnapshotServes` | `OverInv` (two commands between database and binlog that share a key know it, and the key is suspect), `WroteInv` (the other keys of a command still have what it wrote), `AgreeInv` (database, replica and the slave of the snapshot differ at a key only by an item that is still owed), `ReplayInv` (applying the file's items once more changes nothing; for the checkpoint, also the items between its point and its files) |
| `MetaElectionProofs!ElectionTypes`, `LeaseNotStolen` | `Spec => []TypeOK`, `Spec => NotStolen` | `BaseInv`: types, how long a round has left, and until `Overrun` the record that a server with the lock is about to overwrite is free, timed out or its own. The lock of a server that works may have gone to another |
| `MetaElectionProofs!LeaderUnique`, `LeaderHoldsLease` | `Timely /\ Spec => []OneLeader`, `Timely /\ Spec => []LeaderIsRecorded` | `UntilLost`: until a write is lost or overruns, a server that trusts its own `last` is in the record with no greater age (`CacheInv`), the record of one that is told that it leads lasts through its next round (`AnswerInv`), and that of one that leads through this round (`RoleInv`). It uses `Gap <= RemainThreshold` (`Timely`) and `RemainThreshold < Timeout` |
| `MetaElectionProofs!UpdaterUnique` | `Timely /\ Spec => []OneUpdater` | also: the threads run only on a server that leads or is just becoming the leader |
| `NodeMetaProofs!NodeTypes`, `RolesBacked`, `PullScheduled` | `Spec => []TypeOK`, `[]ViewBacked`, `[]PullPending` | `NodeInv`: also what caches and answers hold (`CacheInv`, `AnswerInv`: no table older than the version beside it) and `TaskInv` (a worker that is not idle has its task) |

The proofs hold for all values of the constants under the named assumptions of the
modules (`ConstantsAssumption`, `PurgeAssumption`, `LogAssumption`, `SyncAssumption`,
`FailoverAssumption`, `FormatAssumption`, `MigrateAssumption`, `ElectionAssumption`,
`NodeMetaAssumption`, `NodeAssumption`, `UpdateAssumption`, `WritePathAssumption`), which say
that the special values differ from the others, that the bounds are natural numbers, that
a block has room for a header and a byte, that an item tells who wrote it, that there are
finitely many diff items, that the table a cluster begins with is well formed and that the
leader's threshold is less than the lease.

`Timely`, a round ends within the threshold, is a hypothesis of the three theorems about
leaders and no assumption: the comment at `../include/zp_const.h:87` demands it of the part
of a round that a server sleeps, and nothing ensures it of the floyd calls. `LeaseNotStolen`
has no such hypothesis.

`BinlogSyncProofs` holds the proofs about `BinlogSync` and about `Failover`, which share the
facts on `LogFiles`; `ReplicationProofs` those about `SlaveSync` and `BinlogFormat`.

The inductive invariants (`PInv` with `SeqInv` and `ReadInv`, `LagInv`, `FInv`, `FormatInv`,
`CInv` and the `IInv` of the update of the tables and of the write path) were checked by TLC
as well, as invariants of the instances of the runs.

Two notes on the form of the definitions. Numbers of items in `Migrate` are cardinalities
of sets of copies (`Copies`, `Total`), for which the library has theorems; `Without` and
`Replay` are recursive functions over positions. What these compute for every sequence is
proved by a smallest counterexample (lemma `NatInd`, from the well-foundedness of the
natural numbers), because an induction theorem with an operator as its parameter cannot
be used.

Only model-checked: liveness (`EveryTaskServed`, `AttachedAgain`, `RefersReturn`, `Elected`,
`Converges`, `UpdateHappens`, `AllJoin`), because the prover has no fairness and no `ENABLED`.

## 6. Not modelled

* Reads of single keys (`Get`, `Mget`, `Info`), which change nothing, and the expiry of
  keys: values have no time. A `Set` whose time to live has passed when a slave applies it
  is skipped there (`node/zp_data_command.cc:46`) and leaves the older value in place.
* A failing `Append` (`common/zp_binlog.cc:172`): the writer's place moves on although the
  bytes are not there, and `DoCommand` ignores the result of `Put`
  (`node/zp_data_partition.cc:915`). What the file has then depends on the file system.
* `slash::RWLock(&rwlock_, ...)` in `Version` (`common/zp_binlog.cc:44`) makes a temporary
  that unlocks at once. Places are read in one step here; a place torn between two files
  is put right by the next round of the sender or the slave's next question.
* `AddMeta` and `RemoveMeta`, which change floyd's own members.
* Several tables or partitions at once, except in `NodeMeta`; the database of a node that
  falls back, which keeps what was cut from the log (`fallback_` reports it).
* floyd, RocksDB, rsync and the network, which are modelled from how they are used.
* Configuration, logging, process start and the tools.

----------------------------- MODULE SlaveSync -----------------------------
(***************************************************************************)
(* How a slave partition attaches to its master.  The slave's state is in  *)
(* Partition (role_, master_node_, repl_state_ and the recovery counters,   *)
(* src/node/zp_data_partition.cc) and is changed by four threads:           *)
(*   - the trysync thread, which asks the master and applies its answer     *)
(*     (ZPTrySyncThread, src/node/zp_trysync_thread.cc),                    *)
(*   - the meta thread, which pulls assignments (ZPMetacmdBGWorker),        *)
(*   - the cron, which starts over when the slave is stuck (DoTimingTask),  *)
(*   - the binlog receiver, which checks what the master sends.             *)
(* Every critical section of state_rw_ is one step.  The other data nodes   *)
(* run the same program and are kept to what this slave sees of them: the   *)
(* epoch they have pulled, whether they act as master, whether they have a  *)
(* send task or a DB sync for the slave.                                    *)
(***************************************************************************)
EXTENDS Naturals

CONSTANTS
  Node,          \* the other data nodes
  NoNode,        \* no node
  Self,          \* this node, as a master
  MaxEpoch,      \* bound of the model: meta epochs
  MaxPending,    \* bound of the model: trysync tasks scheduled at a time
  RecoverLimit,  \* kRecoverSyncDelayCronCount
  StuckLimit     \* kStuckRecoverSyncDelayCronCount

ASSUME SyncAssumption ==
  /\ NoNode \notin Node
  /\ Self \notin Node
  /\ {MaxEpoch, RecoverLimit, StuckLimit} \subseteq Nat
  /\ MaxPending \in Nat \ {0}

VARIABLES
  meta,        \* the meta server's epoch and the partition's master in it
  epoch,       \* meta_epoch_ of this node
  pulled,      \* the epoch whose assignment is applied but not finished
  role, master, repl_state,    \* role_, master_node_, repl_state_
  do_recovery_sync, recover_sync_flag, stuck_recover_sync_flag,
  lease_out,   \* now - last_sync_time_ > sync_lease_
  purging,     \* purging_: the purge of an earlier round of the cron goes on
  pending,     \* trysync tasks scheduled in the bg thread
  thread,      \* the trysync thread inside SendTrySync
  rsync_ref,   \* the rsync daemon is kept running for this partition
  info,        \* the node whose info file is in sync_path_, or NoNode
  late,        \* requests whose connection was given up
  node         \* the other nodes

part == <<role, master, repl_state, do_recovery_sync, recover_sync_flag,
          stuck_recover_sync_flag, lease_out>>
mine == <<epoch, pulled>>
vars == <<meta, mine, part, purging, pending, thread, rsync_ref, info, late, node>>

Reply == {"none", "ok", "fallback", "wait", "error"}
Epoch == 0 .. MaxEpoch
IdleThread == [pc |-> "idle", peer |-> NoNode, epoch |-> 0, reply |-> "none"]

-----------------------------------------------------------------------------
(* Partition::Update and the Become* functions, under the write lock.      *)

\* Tasks are alike, and one that finds nothing to do ends: above MaxPending
\* they are not counted.
AddSyncTask == pending' = IF pending < MaxPending THEN pending + 1 ELSE pending

\* BecomeSlave schedules a trysync and starts every recovery timer afresh.
BecomeSlave(m) ==
  /\ role' = "slave"
  /\ master' = m
  /\ repl_state' = "ShouldConnect"
  /\ AddSyncTask
  /\ lease_out' = FALSE
  /\ do_recovery_sync' = FALSE
  /\ recover_sync_flag' = 0
  /\ stuck_recover_sync_flag' = 0

\* BecomeMaster and BecomeSingle.
BecomeOther(r, m) ==
  /\ role' = r
  /\ master' = m
  /\ repl_state' = "NoConnect"
  /\ UNCHANGED <<do_recovery_sync, recover_sync_flag, stuck_recover_sync_flag,
                 lease_out, pending>>

\* Update to role r under master m.
Update(r, m) ==
  IF r = "slave" /\ (role # "slave" \/ master # m) THEN BecomeSlave(m)
  ELSE IF role # r THEN BecomeOther(r, m)
  ELSE /\ master' = m
       /\ UNCHANGED <<role, repl_state, do_recovery_sync, recover_sync_flag,
                      stuck_recover_sync_flag, lease_out, pending>>

-----------------------------------------------------------------------------
(* Meta information.                                                       *)

\* The meta server gives the partition another master, or another role to
\* this node.  (external)
MetaChange(r, m) ==
  /\ meta.epoch < MaxEpoch
  /\ m # NoNode
  /\ (r = "master") <=> (m = Self)
  /\ meta' = [epoch |-> meta.epoch + 1, role |-> r, master |-> m]
  /\ UNCHANGED <<mine, part, purging, pending, thread, rsync_ref, info, late, node>>

\* ParsePullResponse applies the assignment; the epoch follows later.
PullMeta ==
  /\ pulled = epoch
  /\ epoch < meta.epoch
  /\ Update(meta.role, meta.master)
  /\ pulled' = meta.epoch
  /\ UNCHANGED <<meta, epoch, purging, thread, rsync_ref, info, late, node>>

FinishPullMeta ==
  /\ pulled # epoch
  /\ epoch' = pulled
  /\ UNCHANGED <<meta, pulled, part, purging, pending, thread, rsync_ref, info, late, node>>

\* Another node applies the current assignment: one that stops being master
\* removes its send tasks.
NodePullMeta(m) ==
  /\ node[m].epoch < meta.epoch
  /\ node' = [node EXCEPT ![m] =
       [epoch |-> meta.epoch, acting |-> meta.role = "slave" /\ meta.master = m,
        sender |-> @.sender /\ meta.role = "slave" /\ meta.master = m,
        dbsync |-> @.dbsync]]
  /\ UNCHANGED <<meta, mine, part, purging, pending, thread, rsync_ref, info, late>>

-----------------------------------------------------------------------------
(* The trysync thread: TrySyncTask and SendTrySync.                        *)

\* SendTrySync returns false: TrySyncTask schedules itself again.
Again ==
  /\ thread' = IdleThread
  /\ AddSyncTask

AtThread(point) == thread.pc = point

\* Take the next task; a closed partition needs no sync.  Until the first epoch
\* is taken over the server is not Availible: the task is scheduled again.
TrySyncTask ==
  /\ AtThread("idle")
  /\ pending > 0
  /\ epoch > 0
  /\ pending' = pending - 1
  /\ IF role = "single" THEN rsync_ref' = FALSE /\ UNCHANGED thread
     ELSE /\ thread' = [thread EXCEPT !.pc =
               IF repl_state = "WaitDBSync" THEN "dbsync" ELSE "should"]
          /\ UNCHANGED rsync_ref
  /\ UNCHANGED <<meta, mine, part, purging, info, late, node>>

\* TryUpdateMasterOffset: the data is accepted when it is complete and comes
\* from the current master.
TryUpdateMasterOffset ==
  /\ AtThread("dbsync")
  /\ IF info = NoNode \/ role = "single" \/ info # master
     THEN Again /\ UNCHANGED info
     ELSE /\ info' = NoNode
          /\ thread' = [thread EXCEPT !.pc = "done"]
          /\ UNCHANGED pending
  /\ UNCHANGED <<meta, mine, part, purging, rsync_ref, late, node>>

WaitDBSyncDone ==
  /\ AtThread("done")
  /\ repl_state' = "ShouldConnect"
  /\ rsync_ref' = FALSE
  /\ thread' = [thread EXCEPT !.pc = "should"]
  /\ UNCHANGED <<meta, mine, purging, role, master, do_recovery_sync, recover_sync_flag,
                 stuck_recover_sync_flag, lease_out, pending, info, late, node>>

\* Mutant: RsyncUnref is missed when nothing is to be done.
ShouldTrySyncKeepsRsync ==
  /\ AtThread("should")
  /\ thread' = IF repl_state = "ShouldConnect" THEN [thread EXCEPT !.pc = "connect"]
               ELSE IdleThread
  /\ UNCHANGED <<meta, mine, part, purging, pending, rsync_ref, info, late, node>>

ShouldTrySync ==
  /\ AtThread("should")
  /\ IF repl_state = "ShouldConnect"
     THEN thread' = [thread EXCEPT !.pc = "connect"] /\ UNCHANGED rsync_ref
     ELSE thread' = IdleThread /\ rsync_ref' = FALSE
  /\ UNCHANGED <<meta, mine, part, purging, pending, info, late, node>>

\* master_node() is read and the connection made; RsyncRef, which gives up
\* when the daemon does not start.
Connect ==
  /\ AtThread("connect")
  /\ \/ /\ thread' = [thread EXCEPT !.pc = "send", !.peer = master]
        /\ rsync_ref' \in {rsync_ref, TRUE}
        /\ UNCHANGED pending
     \/ Again /\ UNCHANGED rsync_ref
  /\ UNCHANGED <<meta, mine, part, purging, info, late, node>>

Send ==
  /\ AtThread("send")
  /\ \/ /\ thread' = [thread EXCEPT !.pc = "recv", !.epoch = epoch]
        /\ UNCHANGED <<pending, rsync_ref>>
     \/ Again /\ rsync_ref' = FALSE
  /\ UNCHANGED <<meta, mine, part, purging, info, late, node>>

\* Recv fails: the connection is dropped, the request may still arrive.
RecvFails ==
  /\ AtThread("recv")
  /\ thread.reply = "none"
  /\ late' = late \cup {[to |-> thread.peer, epoch |-> thread.epoch]}
  /\ Again
  /\ rsync_ref' = FALSE
  /\ UNCHANGED <<meta, mine, part, purging, info, node>>

\* Mutant: kWait is not rescheduled.
RecvWaitForgets ==
  /\ AtThread("recv")
  /\ thread.reply # "none"
  /\ CASE thread.reply = "ok" ->
            repl_state' = "Connected" /\ thread' = IdleThread
            /\ rsync_ref' = FALSE /\ UNCHANGED pending
       [] thread.reply = "wait" ->
            repl_state' = "WaitDBSync" /\ thread' = IdleThread
            /\ UNCHANGED <<pending, rsync_ref>>
       [] OTHER -> Again /\ rsync_ref' = FALSE /\ UNCHANGED repl_state
  /\ UNCHANGED <<meta, mine, purging, role, master, do_recovery_sync, recover_sync_flag,
                 stuck_recover_sync_flag, lease_out, info, late, node>>

\* The answer is applied to whatever the partition is by now: TrySyncDone and
\* SetWaitDBSync only assert that repl_state_ is still kShouldConnect, and the
\* release build compiles the assertion out.
Recv ==
  /\ AtThread("recv")
  /\ thread.reply # "none"
  /\ CASE thread.reply = "ok" ->
            repl_state' = "Connected" /\ thread' = IdleThread
            /\ rsync_ref' = FALSE /\ UNCHANGED pending
       [] thread.reply = "wait" ->
            repl_state' = "WaitDBSync" /\ Again /\ UNCHANGED rsync_ref
       [] OTHER -> Again /\ rsync_ref' = FALSE /\ UNCHANGED repl_state
  /\ UNCHANGED <<meta, mine, purging, role, master, do_recovery_sync, recover_sync_flag,
                 stuck_recover_sync_flag, lease_out, info, late, node>>

-----------------------------------------------------------------------------
(* The other nodes: SyncCmd on the master's side.                          *)

\* What node m may answer to a request of epoch e, and what it then has for
\* the slave.
SyncCmd(m, e, reply) ==
  IF m \notin Node \/ node[m].epoch # e \/ ~node[m].acting
  THEN reply = "error" /\ UNCHANGED node
  ELSE /\ reply # "none"
       /\ node' = [node EXCEPT ![m].sender = @ \/ reply = "ok",
                               ![m].dbsync = @ \/ reply = "wait"]

Answer(reply) ==
  /\ AtThread("recv")
  /\ thread.reply = "none"
  /\ SyncCmd(thread.peer, thread.epoch, reply)
  /\ thread' = [thread EXCEPT !.reply = reply]
  /\ UNCHANGED <<meta, mine, part, purging, pending, rsync_ref, info, late>>

LateAnswer(reply) ==
  /\ \E a \in late : SyncCmd(a.to, a.epoch, reply) /\ late' = late \ {a}
  /\ UNCHANGED <<meta, mine, part, purging, pending, thread, rsync_ref, info>>

\* DBSyncSendFile: the info file comes last, when the rsync daemon runs.
DBSyncSendFile(m) ==
  /\ node[m].dbsync
  /\ info' = IF rsync_ref THEN m ELSE info
  /\ node' = [node EXCEPT ![m].dbsync = FALSE]
  /\ UNCHANGED <<meta, mine, part, purging, pending, thread, rsync_ref, late>>

-----------------------------------------------------------------------------
(* What the master sends: ZPSyncConn::DealMessage and CheckSyncOption.     *)

\* The offset of the item is the slave's own, behind it or ahead of it.
CheckSyncOption(position) ==
  /\ master \in Node
  /\ node[master].sender
  /\ epoch <= node[master].epoch
  /\ role = "slave"
  /\ repl_state = "Connected"
  /\ lease_out' = FALSE
  /\ do_recovery_sync' = CASE position = "same" -> FALSE
                           [] position = "ahead" -> TRUE
                           [] OTHER -> do_recovery_sync
  /\ recover_sync_flag' = IF position = "same" THEN 0 ELSE recover_sync_flag
  /\ UNCHANGED <<meta, mine, purging, role, master, repl_state, stuck_recover_sync_flag,
                 pending, thread, rsync_ref, info, late, node>>

\* Nothing was accepted for the length of the lease.
LeaseTimeout ==
  /\ role = "slave"
  /\ repl_state = "Connected"
  /\ ~lease_out
  /\ lease_out' = TRUE
  /\ UNCHANGED <<meta, mine, purging, role, master, repl_state, do_recovery_sync,
                 recover_sync_flag, stuck_recover_sync_flag, pending, thread,
                 rsync_ref, info, late, node>>

-----------------------------------------------------------------------------
(* The cron: DoTimingTask.                                                 *)

\* Mutant: the lease is not looked at.
NeedRecoverSyncIgnoresLease ==
  IF repl_state # "Connected" THEN stuck_recover_sync_flag >= StuckLimit
  ELSE do_recovery_sync /\ recover_sync_flag >= RecoverLimit

\* NeedRecoverSync; its counters are incremented before they are compared.
NeedRecoverSync ==
  IF repl_state # "Connected" THEN stuck_recover_sync_flag >= StuckLimit
  ELSE \/ do_recovery_sync /\ recover_sync_flag >= RecoverLimit
       \/ lease_out

\* A round begins with PurgeLogs, which schedules a purge.  While that of an
\* earlier round goes on it returns false, and the round is over.
DoTimingTask ==
  /\ role # "single"
  /\ ~purging
  /\ purging' = TRUE
  /\ CASE role # "slave" -> UNCHANGED <<part, pending>>
       [] role = "slave" /\ NeedRecoverSync -> BecomeSlave(master)
       [] OTHER ->
            /\ stuck_recover_sync_flag' =
                 IF repl_state # "Connected" THEN stuck_recover_sync_flag + 1
                 ELSE stuck_recover_sync_flag
            /\ recover_sync_flag' =
                 IF repl_state = "Connected" /\ do_recovery_sync
                 THEN recover_sync_flag + 1 ELSE recover_sync_flag
            /\ UNCHANGED <<role, master, repl_state, do_recovery_sync, lease_out, pending>>
  /\ UNCHANGED <<meta, mine, thread, rsync_ref, info, late, node>>

DoPurgeLogs ==
  /\ purging
  /\ purging' = FALSE
  /\ UNCHANGED <<meta, mine, part, pending, thread, rsync_ref, info, late, node>>

-----------------------------------------------------------------------------
Init ==
  /\ meta = [epoch |-> 0, role |-> "single", master |-> NoNode]
  /\ epoch = 0 /\ pulled = 0
  /\ role = "single" /\ master = NoNode /\ repl_state = "NoConnect"
  /\ do_recovery_sync = FALSE /\ recover_sync_flag = 0 /\ stuck_recover_sync_flag = 0
  /\ lease_out = FALSE /\ purging = FALSE
  /\ pending = 0 /\ thread = IdleThread /\ rsync_ref = FALSE /\ info = NoNode
  /\ late = {}
  /\ node = [m \in Node |->
       [epoch |-> 0, acting |-> FALSE, sender |-> FALSE, dbsync |-> FALSE]]

TrySyncStep ==
  \/ TrySyncTask \/ TryUpdateMasterOffset \/ WaitDBSyncDone \/ ShouldTrySync
  \/ Connect \/ Send \/ RecvFails \/ Recv

Next ==
  \/ \E r \in {"single", "slave", "master"}, m \in Node \cup {Self} : MetaChange(r, m)
  \/ PullMeta \/ FinishPullMeta \/ TrySyncStep \/ LeaseTimeout
  \/ DoTimingTask \/ DoPurgeLogs
  \/ \E m \in Node : NodePullMeta(m) \/ DBSyncSendFile(m)
  \/ \E reply \in Reply : Answer(reply) \/ LateAnswer(reply)
  \/ \E position \in {"same", "behind", "ahead"} : CheckSyncOption(position)

Spec == Init /\ [][Next]_vars

(* The threads and the cron run for ever, and a purge ends.  A request that *)
(* is sent again and again is in the end connected, sent and answered kOk   *)
(* by a node that acts as master and has the same epoch, and a lease that   *)
(* nobody renews runs out.                                                  *)
Fairness ==
  /\ WF_vars(PullMeta \/ FinishPullMeta)
  /\ \A m \in Node : WF_vars(NodePullMeta(m))
  /\ WF_vars(TrySyncStep)
  /\ SF_vars(Connect /\ thread'.pc = "send")
  /\ SF_vars(Send /\ thread'.pc = "recv")
  /\ SF_vars(Answer("ok"))
  /\ WF_vars(DoTimingTask) /\ WF_vars(DoPurgeLogs)
  /\ WF_vars(LeaseTimeout /\ ~node[master].sender)

FairSpec == Spec /\ Fairness

-----------------------------------------------------------------------------
\* Every variable stays in its type; the counters of NeedRecoverSync stay within
\* the limits at which it starts again.
TypeOK ==
  /\ meta \in [epoch: Epoch, role: {"single", "slave", "master"},
               master: Node \cup {Self, NoNode}]
  /\ epoch \in Epoch /\ pulled \in Epoch
  /\ role \in {"single", "slave", "master"}
  /\ master \in Node \cup {Self, NoNode}
  /\ repl_state \in {"NoConnect", "ShouldConnect", "WaitDBSync", "Connected"}
  /\ do_recovery_sync \in BOOLEAN /\ lease_out \in BOOLEAN
  /\ purging \in BOOLEAN /\ rsync_ref \in BOOLEAN
  /\ recover_sync_flag \in 0 .. RecoverLimit
  /\ stuck_recover_sync_flag \in 0 .. StuckLimit
  /\ pending \in 0 .. MaxPending
  /\ thread \in [pc: {"idle", "dbsync", "done", "should", "connect", "send", "recv"},
                 peer: Node \cup {Self, NoNode}, epoch: Epoch, reply: Reply]
  /\ info \in Node \cup {NoNode}
  /\ late \subseteq [to: Node \cup {Self, NoNode}, epoch: Epoch]
  /\ node \in [Node -> [epoch: Epoch, acting: BOOLEAN, sender: BOOLEAN, dbsync: BOOLEAN]]

\* A slave that is not connected has a trysync scheduled or running: no order of
\* answers, role changes and DB syncs leaves it with nobody to ask its master
\* (BecomeSlave, and the return values of SendTrySync).
TrySyncPending ==
  role = "slave" /\ repl_state \in {"ShouldConnect", "WaitDBSync"} =>
    pending > 0 \/ thread.pc # "idle"

\* The rsync daemon that RsyncRef keeps for the partition is released on every
\* path out of SendTrySync that does not come back.
RsyncReleased == rsync_ref /\ thread.pc = "idle" => pending > 0

\* assert(ReplState::kShouldConnect == repl_state_) in TrySyncDone
\* (zp_data_partition.cc:195) and SetWaitDBSync (zp_data_partition.cc:171).
\* It does not hold: the README says how.
AssertShouldConnect ==
  thread.pc = "recv" /\ thread.reply \in {"ok", "wait"} => repl_state = "ShouldConnect"

\* Whatever races, lost answers, DB syncs and stale masters came before, a
\* slave is connected to a master that sends to it again and again: the
\* recovery timers of NeedRecoverSync leave no state in which it is stuck.
AttachedAgain ==
  []<>(role = "slave" => repl_state = "Connected" /\ node[master].sender)
=============================================================================

------------------------- MODULE ReplicationProofs -------------------------
(***************************************************************************)
(* Proofs about the two ends of replication.                               *)
(*                                                                         *)
(* SlaveSync, how a slave attaches to its master: for every set of nodes,  *)
(* number of assignments and timer limits.                                 *)
(*                                                                         *)
(* BinlogFormat, what is read from the master's file and written to the    *)
(* slave's from then on: for every size of blocks and headers and all      *)
(* lengths of items and blanks.  Damage may strike any block that holds a  *)
(* record, the one that is being written included, up to the moment at     *)
(* which a task skips past the place of the producer (overrun).            *)
(***************************************************************************)
EXTENDS SlaveSync, BinlogFormat, Integers, TLAPS

-----------------------------------------------------------------------------
(* SlaveSync.                                                              *)


\* Only the trysync thread makes the partition wait for a DB sync, and the
\* thread is done with that wait when it asks.
NoWaitWhileAsking ==
  thread.pc \in {"should", "connect", "send", "recv"} => repl_state # "WaitDBSync"

Thread == [pc: {"idle", "dbsync", "done", "should", "connect", "send", "recv"},
           peer: Node \cup {Self, NoNode}, epoch: Epoch, reply: Reply]

\* The bookkeeping of the thread and the scheduled tasks.
Attach == NoWaitWhileAsking /\ TrySyncPending /\ RsyncReleased

IInv == TypeOK /\ Attach

\* What the proof of Attach needs to know of the types.
LEMMA Types ==
  ASSUME TypeOK
  PROVE  /\ pending \in Nat /\ MaxPending \in Nat /\ MaxPending > 0
         /\ thread \in Thread
BY SyncAssumption DEF TypeOK, Thread

\* The thread between two tasks.
LEMMA IdleThreadType == IdleThread \in Thread /\ IdleThread.pc = "idle"
BY SyncAssumption DEF IdleThread, Thread, Epoch, Reply

\* A step of the trysync thread touches these of the typed variables only.
LEMMA ThreadStepType ==
  ASSUME TypeOK, thread' \in Thread, pending' \in 0 .. MaxPending, rsync_ref' \in BOOLEAN,
         repl_state' \in {"NoConnect", "ShouldConnect", "WaitDBSync", "Connected"},
         info' \in Node \cup {NoNode},
         late' \subseteq [to: Node \cup {Self, NoNode}, epoch: Epoch],
         UNCHANGED <<meta, mine, role, master, do_recovery_sync, recover_sync_flag,
                     stuck_recover_sync_flag, lease_out, node>>,
         purging' \in BOOLEAN
  PROVE  TypeOK'
BY DEF TypeOK, Thread, mine

\* The types such a step starts from.
LEMMA ThreadTypes ==
  ASSUME TypeOK
  PROVE  /\ thread \in Thread /\ pending \in 0 .. MaxPending /\ rsync_ref \in BOOLEAN
         /\ repl_state \in {"NoConnect", "ShouldConnect", "WaitDBSync", "Connected"}
         /\ info \in Node \cup {NoNode} /\ master \in Node \cup {Self, NoNode}
         /\ epoch \in Epoch /\ purging \in BOOLEAN
         /\ late \subseteq [to: Node \cup {Self, NoNode}, epoch: Epoch]
BY DEF TypeOK, Thread

\* A task that is scheduled is there to be run.
LEMMA AddSyncTaskFacts ==
  ASSUME TypeOK, AddSyncTask PROVE pending' \in 0 .. MaxPending /\ pending' > 0
BY SyncAssumption DEF TypeOK, AddSyncTask

\* SendTrySync gives up for now: the thread is idle and a task is left.
LEMMA AgainFacts ==
  ASSUME TypeOK, Again
  PROVE  /\ pending' \in 0 .. MaxPending /\ pending' > 0
         /\ thread' \in Thread /\ thread'.pc = "idle"
BY AddSyncTaskFacts, IdleThreadType DEF Again

\* A step that keeps these keeps the bookkeeping.
LEMMA KeepsAttach ==
  ASSUME Attach, UNCHANGED <<role, repl_state, pending, rsync_ref>>, thread'.pc = thread.pc
  PROVE  Attach'
BY DEF Attach, NoWaitWhileAsking, TrySyncPending, RsyncReleased

-----------------------------------------------------------------------------
(* The steps that change the partition.                                    *)

\* BecomeSlave always leaves a task to attach the slave again.
LEMMA BecomeSlaveAttach ==
  ASSUME IInv, NEW m \in Node \cup {Self, NoNode}, BecomeSlave(m),
         UNCHANGED <<meta, thread, rsync_ref, info, late, node>>,
         epoch' \in Epoch, pulled' \in Epoch, purging' \in BOOLEAN
  PROVE  IInv'
<1>1. pending' \in 0 .. MaxPending /\ pending' > 0
  BY AddSyncTaskFacts DEF IInv, BecomeSlave
<1>2. /\ 0 \in 0 .. RecoverLimit /\ 0 \in 0 .. StuckLimit
      /\ role' = "slave" /\ master' = m /\ repl_state' = "ShouldConnect"
      /\ lease_out' = FALSE /\ do_recovery_sync' = FALSE
      /\ recover_sync_flag' = 0 /\ stuck_recover_sync_flag' = 0
  BY SyncAssumption DEF BecomeSlave
<1>4. TypeOK'
  BY <1>1, <1>2, ZenonT(60) DEF IInv, TypeOK
<1>3. Attach'
  BY <1>1 DEF IInv, Attach, BecomeSlave, NoWaitWhileAsking, TrySyncPending, RsyncReleased
<1> QED
  BY <1>3, <1>4 DEF IInv

\* Update: a slave that gets a new master has a trysync scheduled.
LEMMA PullMetaIInv == ASSUME IInv, PullMeta PROVE IInv'
<1>1. /\ epoch' \in Epoch /\ pulled' \in Epoch /\ purging' = purging /\ purging \in BOOLEAN
      /\ UNCHANGED <<meta, thread, rsync_ref, info, late, node>>
      /\ meta.role \in {"single", "slave", "master"}
      /\ meta.master \in Node \cup {Self, NoNode}
      /\ Update(meta.role, meta.master)
  BY DEF PullMeta, IInv, TypeOK
<1>2. CASE meta.role = "slave" /\ (role # "slave" \/ master # meta.master)
  BY <1>1, <1>2, BecomeSlaveAttach DEF Update
<1>3. CASE ~(meta.role = "slave" /\ (role # "slave" \/ master # meta.master)) /\ role # meta.role
  <2>1. BecomeOther(meta.role, meta.master) /\ meta.role # "slave"
    BY <1>1, <1>3 DEF Update
  <2>2. TypeOK'
    BY <1>1, <2>1 DEF IInv, TypeOK, BecomeOther
  <2>3. Attach'
    BY <1>1, <2>1 DEF IInv, Attach, BecomeOther, NoWaitWhileAsking, TrySyncPending, RsyncReleased
  <2> QED
    BY <2>2, <2>3 DEF IInv
<1>4. CASE ~(meta.role = "slave" /\ (role # "slave" \/ master # meta.master)) /\ role = meta.role
  <2>1. /\ master' = meta.master
        /\ UNCHANGED <<role, repl_state, do_recovery_sync, recover_sync_flag,
                       stuck_recover_sync_flag, lease_out, pending>>
    BY <1>1, <1>4 DEF Update
  <2>2. TypeOK'
    BY <1>1, <2>1 DEF IInv, TypeOK
  <2>3. Attach'
    BY <1>1, <2>1 DEF IInv, Attach, NoWaitWhileAsking, TrySyncPending, RsyncReleased
  <2> QED
    BY <2>2, <2>3 DEF IInv
<1> QED
  BY <1>2, <1>3, <1>4

\* The recovery timer ends in BecomeSlave, or only counts.
LEMMA DoTimingTaskIInv == ASSUME IInv, DoTimingTask PROVE IInv'
<1>0. UNCHANGED <<meta, mine, thread, rsync_ref, info, late, node>> /\ purging' \in BOOLEAN
  BY DEF DoTimingTask
<1>1. CASE role = "slave" /\ NeedRecoverSync
  <2>1. BecomeSlave(master)
    BY <1>1 DEF DoTimingTask
  <2>2. master \in Node \cup {Self, NoNode} /\ epoch' \in Epoch /\ pulled' \in Epoch
    BY <1>0 DEF IInv, TypeOK, mine
  <2> QED
    BY <1>0, <2>1, <2>2, BecomeSlaveAttach
<1>2. CASE role # "slave" \/ ~NeedRecoverSync
  <2>1. /\ stuck_recover_sync_flag' \in 0 .. StuckLimit
        /\ recover_sync_flag' \in 0 .. RecoverLimit
    <3>1. CASE role # "slave"
      BY <3>1 DEF DoTimingTask, part, IInv, TypeOK
    <3>2. CASE role = "slave" /\ ~NeedRecoverSync
      BY <3>2, SyncAssumption DEF DoTimingTask, NeedRecoverSync, IInv, TypeOK
    <3> QED
      BY <1>2, <3>1, <3>2
  <2>2. UNCHANGED <<role, master, repl_state, do_recovery_sync, lease_out, pending>>
    BY <1>2 DEF DoTimingTask, part
  <2>3. TypeOK'
    BY <1>0, <2>1, <2>2 DEF IInv, TypeOK, mine
  <2>4. Attach'
    BY <1>0, <2>2 DEF IInv, Attach, NoWaitWhileAsking, TrySyncPending, RsyncReleased
  <2> QED
    BY <2>3, <2>4 DEF IInv
<1> QED
  BY <1>1, <1>2

\* A purge that ends concerns the logs only.
LEMMA DoPurgeLogsIInv == ASSUME IInv, DoPurgeLogs PROVE IInv'
<1>1. /\ UNCHANGED <<meta, mine, part, pending, thread, rsync_ref, info, late, node>>
      /\ purging' \in BOOLEAN
  BY DEF DoPurgeLogs
<1>2. TypeOK'
  BY <1>1, ThreadTypes, ThreadStepType DEF IInv, mine, part
<1> QED
  BY <1>1, <1>2, KeepsAttach DEF IInv, part

-----------------------------------------------------------------------------
(* The trysync thread.                                                     *)

\* The trysync thread takes a task up.
LEMMA TrySyncTaskIInv == ASSUME IInv, TrySyncTask PROVE IInv'
<1>1. pending' \in 0 .. MaxPending
  BY SyncAssumption DEF IInv, TypeOK, TrySyncTask
<1>2. TypeOK'
  <2>1. thread' \in Thread
    BY ThreadTypes DEF IInv, TrySyncTask, Thread
  <2>2. rsync_ref' \in BOOLEAN
    BY ThreadTypes DEF IInv, TrySyncTask
  <2>3. UNCHANGED <<meta, mine, purging, part, info, late, node>>
    BY DEF TrySyncTask
  <2> QED
    BY <1>1, <2>1, <2>2, <2>3, ThreadTypes, ThreadStepType DEF IInv, part
<1>3. Attach'
  <2>1. CASE role = "single"
    BY <2>1, Types DEF IInv, Attach, TrySyncTask, part, AtThread, NoWaitWhileAsking,
                       TrySyncPending, RsyncReleased
  <2>2. CASE role # "single"
    <3>1. /\ repl_state' = repl_state /\ role' = role
          /\ thread' = [thread EXCEPT !.pc =
               IF repl_state = "WaitDBSync" THEN "dbsync" ELSE "should"]
      BY <2>2 DEF TrySyncTask, part
    <3>2. thread'.pc = IF repl_state = "WaitDBSync" THEN "dbsync" ELSE "should"
      BY <3>1, ThreadTypes DEF IInv, Thread
    <3> QED
      BY <3>1, <3>2 DEF Attach, NoWaitWhileAsking, TrySyncPending, RsyncReleased
  <2> QED
    BY <2>1, <2>2
<1> QED
  BY <1>2, <1>3 DEF IInv

\* A DB sync is looked for, and found finished or not.
LEMMA TryUpdateMasterOffsetIInv == ASSUME IInv, TryUpdateMasterOffset PROVE IInv'
<1>1. CASE info = NoNode \/ role = "single" \/ info # master
  <2>1. Again /\ UNCHANGED <<info, meta, mine, purging, part, rsync_ref, late, node>>
    BY <1>1 DEF TryUpdateMasterOffset
  <2>2. TypeOK'
    BY <2>1, AgainFacts, ThreadTypes, ThreadStepType DEF IInv, part
  <2>3. Attach'
    BY <2>1, AgainFacts DEF IInv, Attach, NoWaitWhileAsking, TrySyncPending, RsyncReleased
  <2> QED
    BY <2>2, <2>3 DEF IInv
<1>2. CASE ~(info = NoNode \/ role = "single" \/ info # master)
  <2>1. /\ info' = NoNode /\ thread' = [thread EXCEPT !.pc = "done"]
        /\ UNCHANGED <<pending, meta, mine, purging, part, rsync_ref, late, node>>
    BY <1>2 DEF TryUpdateMasterOffset
  <2>2. TypeOK'
    BY <2>1 DEF IInv, TypeOK, mine, part
  <2>3. Attach'
    BY <2>1, Types DEF IInv, Attach, part, NoWaitWhileAsking, TrySyncPending, RsyncReleased
  <2> QED
    BY <2>2, <2>3 DEF IInv
<1> QED
  BY <1>1, <1>2

\* A finished DB sync goes on to ask the master again.
LEMMA WaitDBSyncDoneIInv == ASSUME IInv, WaitDBSyncDone PROVE IInv'
<1>1. TypeOK'
  BY ZenonT(60) DEF IInv, TypeOK, WaitDBSyncDone, mine
<1>2. Attach'
  BY Types DEF IInv, Attach, WaitDBSyncDone, NoWaitWhileAsking, TrySyncPending, RsyncReleased
<1> QED
  BY <1>1, <1>2 DEF IInv

\* Without anything to ask the thread ends, and releases the rsync daemon.
LEMMA ShouldTrySyncIInv == ASSUME IInv, ShouldTrySync PROVE IInv'
<1>1. TypeOK'
  <2>1. thread' \in Thread
    BY ThreadTypes, IdleThreadType DEF IInv, ShouldTrySync, Thread
  <2>2. rsync_ref' \in BOOLEAN
    BY ThreadTypes DEF IInv, ShouldTrySync
  <2>3. UNCHANGED <<meta, mine, purging, part, pending, info, late, node>>
    BY DEF ShouldTrySync
  <2> QED
    BY <2>1, <2>2, <2>3, ThreadTypes, ThreadStepType DEF IInv, part
<1>2. Attach'
  BY Types, IdleThreadType DEF IInv, Attach, ShouldTrySync, AtThread, Thread, part,
               NoWaitWhileAsking, TrySyncPending, RsyncReleased
<1> QED
  BY <1>1, <1>2 DEF IInv

\* The connection and the request: a failure schedules the task again.
LEMMA ConnectSendIInv == ASSUME IInv, Connect \/ Send PROVE IInv'
<1>1. CASE Again /\ rsync_ref' \in {rsync_ref, FALSE} /\ UNCHANGED <<meta, mine, purging, part, info, late, node>>
  <2>1. TypeOK'
    BY <1>1, AgainFacts, ThreadTypes, ThreadStepType DEF IInv, part
  <2>2. Attach'
    BY <1>1, AgainFacts DEF IInv, Attach, NoWaitWhileAsking, TrySyncPending, RsyncReleased
  <2> QED
    BY <2>1, <2>2 DEF IInv
<1>2. CASE /\ AtThread("connect")
           /\ thread' = [thread EXCEPT !.pc = "send", !.peer = master]
           /\ rsync_ref' \in {rsync_ref, TRUE}
           /\ UNCHANGED <<pending, meta, mine, purging, part, info, late, node>>
  <2>1. TypeOK'
    <3>1. thread' \in Thread /\ rsync_ref' \in BOOLEAN
      BY <1>2, ThreadTypes DEF IInv, Thread
    <3> QED
      BY <1>2, <3>1, ThreadTypes, ThreadStepType DEF IInv, part
  <2>2. Attach'
    BY <1>2, Types DEF IInv, Attach, AtThread, part, NoWaitWhileAsking, TrySyncPending, RsyncReleased
  <2> QED
    BY <2>1, <2>2 DEF IInv
<1>3. CASE /\ AtThread("send")
           /\ thread' = [thread EXCEPT !.pc = "recv", !.epoch = epoch]
           /\ UNCHANGED <<pending, rsync_ref, meta, mine, purging, part, info, late, node>>
  <2>1. TypeOK'
    <3>1. thread' \in Thread
      BY <1>3, ThreadTypes DEF IInv, Thread
    <3> QED
      BY <1>3, <3>1, ThreadTypes, ThreadStepType DEF IInv, part
  <2>2. Attach'
    BY <1>3, Types DEF IInv, Attach, AtThread, part, NoWaitWhileAsking, TrySyncPending, RsyncReleased
  <2> QED
    BY <2>1, <2>2 DEF IInv
<1> QED
  BY <1>1, <1>2, <1>3 DEF Connect, Send

\* No answer: the task is scheduled again.
LEMMA RecvFailsIInv == ASSUME IInv, RecvFails PROVE IInv'
<1>1. Again /\ rsync_ref' = FALSE /\ UNCHANGED <<meta, mine, purging, part, info, node>>
  BY DEF RecvFails
<1>2. late' \subseteq [to: Node \cup {Self, NoNode}, epoch: Epoch]
  BY DEF IInv, TypeOK, RecvFails
<1>3. TypeOK'
  BY <1>1, <1>2, AgainFacts, ThreadTypes, ThreadStepType DEF IInv, part
<1>4. Attach'
  BY <1>1, AgainFacts DEF IInv, Attach, NoWaitWhileAsking, TrySyncPending, RsyncReleased
<1> QED
  BY <1>3, <1>4 DEF IInv

\* An answer, whatever has become of the partition while it was awaited.
LEMMA RecvIInv == ASSUME IInv, Recv PROVE IInv'
<1>0. UNCHANGED <<meta, mine, purging, role, master, do_recovery_sync, recover_sync_flag,
                  stuck_recover_sync_flag, lease_out, info, late, node>>
  BY DEF Recv
<1>1. CASE thread.reply = "ok"
  <2>1. repl_state' = "Connected" /\ thread' = IdleThread /\ rsync_ref' = FALSE /\ pending' = pending
    BY <1>1 DEF Recv
  <2>2. TypeOK'
    BY <1>0, <2>1, IdleThreadType, ThreadTypes, ThreadStepType DEF IInv
  <2>3. Attach'
    BY <1>0, <2>1, IdleThreadType DEF Attach, NoWaitWhileAsking, TrySyncPending, RsyncReleased
  <2> QED
    BY <2>2, <2>3 DEF IInv
<1>2. CASE thread.reply = "wait"
  <2>1. repl_state' = "WaitDBSync" /\ Again /\ rsync_ref' = rsync_ref
    BY <1>2 DEF Recv
  <2>2. TypeOK'
    BY <1>0, <2>1, AgainFacts, ThreadTypes, ThreadStepType DEF IInv
  <2>3. Attach'
    BY <2>1, AgainFacts DEF IInv, Attach, NoWaitWhileAsking, TrySyncPending, RsyncReleased
  <2> QED
    BY <2>2, <2>3 DEF IInv
<1>3. CASE thread.reply \notin {"ok", "wait"}
  <2>1. Again /\ rsync_ref' = FALSE /\ repl_state' = repl_state
    BY <1>3 DEF Recv
  <2>2. TypeOK'
    BY <1>0, <2>1, AgainFacts, ThreadTypes, ThreadStepType DEF IInv
  <2>3. Attach'
    BY <2>1, AgainFacts DEF IInv, Attach, NoWaitWhileAsking, TrySyncPending, RsyncReleased
  <2> QED
    BY <2>2, <2>3 DEF IInv
<1> QED
  BY <1>1, <1>2, <1>3

-----------------------------------------------------------------------------
(* The steps that concern neither the thread's place nor the schedule.     *)

\* The meta server changes the assignment; the partition does not.
LEMMA MetaIInv ==
  ASSUME IInv,
         \/ \E r \in {"single", "slave", "master"}, m \in Node \cup {Self} : MetaChange(r, m)
         \/ FinishPullMeta
  PROVE  IInv'
<1>1. ASSUME NEW r \in {"single", "slave", "master"}, NEW m \in Node \cup {Self}, MetaChange(r, m)
      PROVE  IInv'
  <2>1. meta' \in [epoch: Epoch, role: {"single", "slave", "master"}, master: Node \cup {Self, NoNode}]
    BY <1>1, SyncAssumption DEF IInv, TypeOK, MetaChange, Epoch
  <2>2. UNCHANGED <<mine, part, purging, pending, thread, rsync_ref, info, late, node>>
    BY <1>1 DEF MetaChange
  <2>3. TypeOK'
    BY <2>1, <2>2 DEF IInv, TypeOK, mine, part
  <2> QED
    BY <2>2, <2>3, KeepsAttach DEF IInv, part
<1>2. CASE FinishPullMeta
  <2>1. TypeOK'
    BY <1>2 DEF IInv, TypeOK, FinishPullMeta, part
  <2> QED
    BY <1>2, <2>1, KeepsAttach DEF IInv, FinishPullMeta, part
<1> QED
  BY <1>1, <1>2

\* The other nodes pull their assignment and finish DB syncs.
LEMMA NodeIInv ==
  ASSUME IInv, NEW m \in Node, NodePullMeta(m) \/ DBSyncSendFile(m) PROVE IInv'
<1>1. TypeOK'
  <2>1. meta.epoch \in Epoch /\ node[m] \in [epoch: Epoch, acting: BOOLEAN, sender: BOOLEAN, dbsync: BOOLEAN]
    BY DEF IInv, TypeOK
  <2>2. node' \in [Node -> [epoch: Epoch, acting: BOOLEAN, sender: BOOLEAN, dbsync: BOOLEAN]]
    <3>1. CASE NodePullMeta(m)
      BY <3>1, <2>1 DEF IInv, TypeOK, NodePullMeta
    <3>2. CASE DBSyncSendFile(m)
      BY <3>2, <2>1 DEF IInv, TypeOK, DBSyncSendFile
    <3> QED
      BY <3>1, <3>2
  <2>3. info' \in Node \cup {NoNode}
    BY DEF IInv, TypeOK, NodePullMeta, DBSyncSendFile
  <2>4. UNCHANGED <<meta, mine, purging, part, pending, thread, rsync_ref, late>>
    BY DEF NodePullMeta, DBSyncSendFile
  <2> QED
    BY <2>2, <2>3, <2>4 DEF IInv, TypeOK, mine, part
<1>2. UNCHANGED <<part, pending, thread, rsync_ref>>
  BY DEF NodePullMeta, DBSyncSendFile
<1> QED
  BY <1>1, <1>2, KeepsAttach DEF IInv, part

\* The master's side of a trysync keeps the type of the nodes.
LEMMA SyncCmdNode ==
  ASSUME TypeOK, NEW m, NEW e, NEW reply \in Reply, SyncCmd(m, e, reply)
  PROVE  node' \in [Node -> [epoch: Epoch, acting: BOOLEAN, sender: BOOLEAN, dbsync: BOOLEAN]]
<1>1. CASE m \notin Node \/ node[m].epoch # e \/ ~node[m].acting
  BY <1>1 DEF SyncCmd, TypeOK
<1>2. CASE ~(m \notin Node \/ node[m].epoch # e \/ ~node[m].acting)
  <2>1. node[m] \in [epoch: Epoch, acting: BOOLEAN, sender: BOOLEAN, dbsync: BOOLEAN]
    BY <1>2 DEF TypeOK
  <2>2. node' = [node EXCEPT ![m].sender = @ \/ reply = "ok", ![m].dbsync = @ \/ reply = "wait"]
    BY <1>2 DEF SyncCmd
  <2>3. node' = [node EXCEPT ![m] = [node[m] EXCEPT !.sender = @ \/ reply = "ok",
                                                  !.dbsync = @ \/ reply = "wait"]]
    BY <1>2, <2>2 DEF TypeOK
  <2>4. [node[m] EXCEPT !.sender = @ \/ reply = "ok", !.dbsync = @ \/ reply = "wait"]
          \in [epoch: Epoch, acting: BOOLEAN, sender: BOOLEAN, dbsync: BOOLEAN]
    BY <2>1
  <2> QED
    BY <2>3, <2>4 DEF TypeOK
<1> QED
  BY <1>1, <1>2

\* The master answers, in time or too late.
LEMMA AnswerIInv ==
  ASSUME IInv, NEW reply \in Reply, Answer(reply) \/ LateAnswer(reply) PROVE IInv'
<1>1. CASE Answer(reply)
  <2>1. node' \in [Node -> [epoch: Epoch, acting: BOOLEAN, sender: BOOLEAN, dbsync: BOOLEAN]]
    BY <1>1, SyncCmdNode DEF Answer, IInv
  <2>2. /\ thread' = [thread EXCEPT !.reply = reply]
        /\ UNCHANGED <<meta, mine, purging, part, pending, rsync_ref, info, late>>
    BY <1>1 DEF Answer
  <2>3. TypeOK' /\ thread'.pc = thread.pc
    BY <2>1, <2>2 DEF IInv, TypeOK, mine, part
  <2> QED
    BY <2>2, <2>3, KeepsAttach DEF IInv, part
<1>2. CASE LateAnswer(reply)
  <2>1. PICK a \in late : SyncCmd(a.to, a.epoch, reply) /\ late' = late \ {a}
    BY <1>2 DEF LateAnswer
  <2>2. node' \in [Node -> [epoch: Epoch, acting: BOOLEAN, sender: BOOLEAN, dbsync: BOOLEAN]]
    BY <2>1, SyncCmdNode DEF IInv
  <2>3. UNCHANGED <<meta, mine, purging, part, pending, thread, rsync_ref, info>>
    BY <1>2 DEF LateAnswer
  <2>4. TypeOK'
    BY <2>1, <2>2, <2>3 DEF IInv, TypeOK, mine, part
  <2> QED
    BY <2>3, <2>4, KeepsAttach DEF IInv, part
<1> QED
  BY <1>1, <1>2

\* What the receiver and the lease change.
LEMMA ReceiveIInv ==
  ASSUME IInv,
         (\E position \in {"same", "behind", "ahead"} : CheckSyncOption(position)) \/ LeaseTimeout
  PROVE  IInv'
<1>1. /\ do_recovery_sync' \in BOOLEAN /\ lease_out' \in BOOLEAN
      /\ recover_sync_flag' \in 0 .. RecoverLimit
  <2>1. CASE LeaseTimeout
    BY <2>1 DEF IInv, TypeOK, LeaseTimeout
  <2>2. ASSUME NEW position \in {"same", "behind", "ahead"}, CheckSyncOption(position)
        PROVE  /\ do_recovery_sync' \in BOOLEAN /\ lease_out' \in BOOLEAN
               /\ recover_sync_flag' \in 0 .. RecoverLimit
    <3>1. do_recovery_sync' \in BOOLEAN
      BY <2>2 DEF IInv, TypeOK, CheckSyncOption
    <3>2. lease_out' \in BOOLEAN
      BY <2>2 DEF CheckSyncOption
    <3>3. recover_sync_flag' \in 0 .. RecoverLimit
      BY <2>2, SyncAssumption DEF IInv, TypeOK, CheckSyncOption
    <3> QED
      BY <3>1, <3>2, <3>3
  <2> QED
    BY <2>1, <2>2
<1>2. UNCHANGED <<meta, mine, purging, role, master, repl_state, stuck_recover_sync_flag, pending,
                  thread, rsync_ref, info, late, node>>
  BY DEF CheckSyncOption, LeaseTimeout
<1>3. TypeOK'
  BY <1>1, <1>2 DEF IInv, TypeOK, mine
<1> QED
  BY <1>2, <1>3, KeepsAttach DEF IInv

-----------------------------------------------------------------------------
\* The invariant holds of a partition that is no slave.
LEMMA InitIInv == Init => IInv
<1> SUFFICES ASSUME Init PROVE IInv
  OBVIOUS
<1>1. thread \in Thread /\ thread.pc = "idle"
  BY IdleThreadType DEF Init
<1>2. node \in [Node -> [epoch: Epoch, acting: BOOLEAN, sender: BOOLEAN, dbsync: BOOLEAN]]
  BY SyncAssumption DEF Init, Epoch
<1>3. /\ epoch \in Epoch /\ pulled \in Epoch /\ pending \in 0 .. MaxPending
      /\ recover_sync_flag \in 0 .. RecoverLimit /\ stuck_recover_sync_flag \in 0 .. StuckLimit
      /\ meta \in [epoch: Epoch, role: {"single", "slave", "master"},
                   master: Node \cup {Self, NoNode}]
  BY SyncAssumption DEF Init, Epoch
<1>4. TypeOK
  BY <1>1, <1>2, <1>3 DEF Init, TypeOK, Thread
<1>5. Attach
  BY <1>1 DEF Init, Attach, NoWaitWhileAsking, TrySyncPending, RsyncReleased
<1> QED
  BY <1>4, <1>5 DEF IInv

\* Every step keeps the invariant.
LEMMA NextIInv == IInv /\ [Next]_vars => IInv'
<1> SUFFICES ASSUME IInv, [Next]_vars PROVE IInv'
  OBVIOUS
<1>1. CASE UNCHANGED vars
  BY <1>1, KeepsAttach DEF IInv, TypeOK, vars, mine, part
<1>2. CASE TrySyncStep
  BY <1>2, TrySyncTaskIInv, TryUpdateMasterOffsetIInv, WaitDBSyncDoneIInv,
     ShouldTrySyncIInv, ConnectSendIInv, RecvFailsIInv, RecvIInv DEF TrySyncStep
<1> QED
  BY <1>1, <1>2, PullMetaIInv, DoTimingTaskIInv, DoPurgeLogsIInv, MetaIInv, NodeIInv, AnswerIInv,
     ReceiveIInv DEF Next

\* For any number of nodes and assignments: no order of answers, lost answers,
\* DB syncs and role changes leaves an unattached slave without a trysync
\* scheduled or running.
THEOREM AttachSafety == Spec => [](TypeOK /\ TrySyncPending)
<1>1. IInv => TypeOK /\ TrySyncPending
  BY DEF IInv, Attach
<1> QED
  BY <1>1, InitIInv, NextIInv, PTL DEF Spec

\* And none of them leaves an rsync daemon without a task that will release it,
\* once the trysync thread has nothing at hand.
THEOREM RsyncDaemonReleased == Spec => []RsyncReleased
<1>1. IInv => RsyncReleased
  BY DEF IInv, Attach
<1> QED
  BY <1>1, InitIInv, NextIInv, PTL DEF Spec

-----------------------------------------------------------------------------
(* BinlogFormat.                                                           *)


-----------------------------------------------------------------------------
(* The invariant of a file.  F are its records, e its end, b the writer's  *)
(* offset in the block, p the published offset, w what is being written    *)
(* and q the items that were put there.                                    *)

\* How far into its block x is.
Into(x) == x % Block

\* The byte after a record.
Stop(rec) == rec.at + Header + rec.len

\* Somebody who is l bytes into a block is at x.
At(x, l) ==
  /\ x \in Nat /\ l \in 0..Block
  /\ Into(x) = l \/ (l = Block /\ Into(x) = 0)

\* Who comes to x finds a record after the padding, unless e is reached.
Ready(F, x, e) ==
  x = e \/ (x < e /\ \E rec \in F : rec.at = Padded(x) /\ rec.at < e)

\* No record has x inside it.
Clean(F, x) == \A rec \in F : Stop(rec) <= x \/ x <= rec.at

\* Up to e there is nothing but records and padding, and blocks start with records.
Tiled(F, e) ==
  /\ \A x \in 0..e : Into(x) = 0 => Ready(F, x, e)
  /\ \A rec \in F : rec.at < e => Ready(F, Stop(rec), e)

Disjoint(F) ==
  \A r1, r2 \in F : r1 = r2 \/ Stop(r1) <= r2.at \/ Stop(r2) <= r1.at

\* The length and the place of an item that was put or is being written.
Total(w, q, i) == IF i <= Len(q) THEN q[i].len ELSE w.len
From(p, q, i) == IF i <= Len(q) THEN q[i].from ELSE p
To(e, q, i) == IF i <= Len(q) THEN q[i].to ELSE e

WriterOK(e, b, p, w, q) ==
  /\ At(e, b) /\ e = p + w.size
  /\ w.kind = "none" => w = NoWrite
  /\ w.kind = "blank" => w.item = 0
  /\ w.kind = "item" => w.item = Len(q) + 1 /\ w.len > 0
  /\ w.left <= w.len
  /\ w.begin => w.size = 0 /\ (w.kind = "item" => w.left = w.len)
  /\ w.kind # "none" /\ ~w.begin => w.size > 0 /\ (w.kind = "item" => w.left < w.len)

\* A record stays within its block, and behind e and p; damage is in blocks that
\* are complete.
PlaceOK(e, p, rec) ==
  /\ Into(rec.at) + Header < Block
  /\ Into(rec.at) + Header + rec.len <= Block
  /\ Stop(rec) <= e
  /\ Stop(rec) <= p \/ p <= rec.at
  /\ rec.type = "bad" => rec.at < p

KindOf(from, len, total) ==
  IF from = 0 THEN (IF len = total THEN "full" ELSE "first")
              ELSE (IF from + len = total THEN "last" ELSE "middle")

\* n is as much of the rest as there is room for after a header i bytes into a block.
Fills(i, left, n) == n = Smaller(left, Block - i - Header)

\* A record holds a part of its item, as large as the block allows; the parts
\* before and after it are in the records before and after it.
PartOK(F, e, p, w, q, rec) ==
  LET total == Total(w, q, rec.item)
      upto == rec.from + rec.len
  IN /\ rec.item \in 1..Len(q) + 1
     /\ rec.item <= Len(q) => rec.at < p
     /\ rec.item = Len(q) + 1 => w.kind = "item" /\ ~w.begin /\ upto <= w.len - w.left
     /\ From(p, q, rec.item) <= rec.at /\ Stop(rec) <= To(e, q, rec.item)
     /\ rec.len > 0 /\ upto <= total
     /\ Fills(Into(rec.at), total - rec.from, rec.len)
     /\ rec.type \in {"bad", KindOf(rec.from, rec.len, total)}
     /\ rec.from = 0 => rec.at = Padded(From(p, q, rec.item))
     /\ upto = total => Stop(rec) = To(e, q, rec.item)
     /\ upto < total =>
          \/ Stop(rec) = e /\ rec.item = Len(q) + 1 /\ upto = w.len - w.left
          \/ \E next \in F : /\ next.at = Padded(Stop(rec))
                             /\ next.item = rec.item /\ next.from = upto
     /\ rec.from > 0 =>
          \E prev \in F : /\ rec.at = Padded(Stop(prev))
                          /\ prev.item = rec.item /\ prev.from + prev.len = rec.from

RecordOK(F, e, p, w, q, rec) ==
  /\ PlaceOK(e, p, rec)
  /\ rec.item = 0 => rec.type \in {"empty", "bad"}
  /\ rec.item # 0 => PartOK(F, e, p, w, q, rec)

\* The items are there, one after the other, each from its first part to its last.
PutOK(F, p, w, q) ==
  /\ \A i \in 1..Len(q) :
       /\ q[i].from < q[i].to /\ q[i].to <= p /\ q[i].len > 0
       /\ \A j \in 1..Len(q) : i < j => q[i].to <= q[j].from
       /\ \E rec \in F : rec.item = i /\ rec.from = 0
       /\ \E rec \in F : rec.item = i /\ rec.from + rec.len = q[i].len
  /\ w.kind = "item" /\ ~w.begin =>
       /\ \E rec \in F : rec.item = Len(q) + 1 /\ rec.from = 0
       /\ \E rec \in F : rec.item = Len(q) + 1 /\ rec.from + rec.len = w.len - w.left

FileOK(F, e, b, p, w, q) ==
  /\ WriterOK(e, b, p, w, q)
  /\ Disjoint(F) /\ Tiled(F, e) /\ Tiled(F, p) /\ Ready(F, p, e)
  /\ \A rec \in F : RecordOK(F, e, p, w, q, rec)
  /\ PutOK(F, p, w, q)

-----------------------------------------------------------------------------
(* The invariant of the reader r.                                          *)

\* There is damage in a block of the item.
Hurt(F, item) ==
  \E rec \in F : rec.type = "bad" /\
    \E o \in item.from..item.to - 1 : BlockStart(rec.at) = BlockStart(o)

\* A reader that comes to the middle of an item has not seen its start because it
\* started after it or because there is damage.
NotTorn(F, q, r) ==
  \A rec \in F :
    rec.item # 0 /\ rec.from > 0 /\ rec.at = Padded(r.offset) =>
      /\ rec.item \in 1..Len(q)
      /\ q[rec.item].from < r.start \/ Hurt(F, q[rec.item])

\* The parts of an item from its start on, one after the other.
Parts(t, i) ==
  /\ t # << >> /\ t[1].item = i /\ t[1].from = 0
  /\ \A k \in 1..Len(t) : /\ t[k].item = i
                          /\ k > 1 => t[k].from = t[k-1].from + t[k-1].len

\* The parts that were read so far, the last of them before the reader's position.
InsideOK(F, q, r) ==
  LET i == r.scratch[1].item IN
  /\ i \in 1..Len(q) /\ Parts(r.scratch, i)
  /\ Padded(r.offset) = Padded(q[i].from)
  /\ Size(r.scratch) < q[i].len
  /\ \E rec \in F : /\ r.pos = Stop(rec) /\ rec.item = i
                    /\ rec.from + rec.len = Size(r.scratch)

ServeOK(F, p, q, r, s) ==
  /\ r.pos = r.offset + r.size /\ r.offset <= p /\ Clean(F, r.offset)
  /\ r.mode = "serve" => r.scratch = << >>
  /\ r.mode = "consume" => r.offset < p
  /\ r.scratch = << >> => r.size = 0 /\ Ready(F, r.pos, p) /\ NotTorn(F, q, r)
  /\ r.scratch # << >> => InsideOK(F, q, r)
  /\ \A i \in 1..Len(q) :
       q[i].from >= r.start /\ q[i].to <= r.offset /\ ~Hurt(F, q[i]) => i \in s

\* There is damage before the start of the task in its block.
BadBefore(F, x) == \E rec \in F : rec.type = "bad" /\ rec.at \in BlockStart(x)..x

AtPut(q, x) == \E i \in 1..Len(q) : x = q[i].to

SeekOK(F, e, p, q, r) ==
  /\ r.offset = r.start /\ r.start <= p /\ Into(r.start) # 0
  /\ r.pos + r.todo = r.start + r.size
  /\ Clean(F, r.pos) /\ Ready(F, r.pos, e)
  /\ BlockStart(r.start) <= r.pos
  /\ r.scratch = << >> => r.size = 0 /\ r.pos < r.start
  /\ AtPut(q, r.start) => r.scratch = << >>

FailedOK(F, p, q, r) ==
  /\ r.start <= p /\ r.start # 0
  /\ AtPut(q, r.start) => BadBefore(F, r.start)

ReaderOK(F, e, p, q, r, m, s) ==
  /\ At(r.pos, r.last)
  /\ r.mode # "serve" => m = NoMsg
  /\ r.mode \in {"serve", "consume"} => ServeOK(F, p, q, r, s)
  /\ r.mode = "seek" => SeekOK(F, e, p, q, r)
  /\ r.mode = "failed" => FailedOK(F, p, q, r)

MessageOK(q, m) ==
  /\ m.kind = "none" => m = NoMsg
  /\ m.kind = "cmd" =>
       LET i == m.content[1].item IN
       /\ i \in 1..Len(q) /\ Parts(m.content, i) /\ Size(m.content) = q[i].len
       /\ Padded(m.at) = Padded(q[i].from) /\ m.at + m.len = q[i].to

-----------------------------------------------------------------------------
(* The invariant of the slave's copy G, of which F is the original.        *)

CopiedRecord(F, q, rec) ==
  \/ rec.type = "empty"
  \/ \E own \in F : /\ own.item \in 1..Len(q)
                    /\ own.type \in {rec.type, "bad"} /\ rec = [own EXCEPT !.type = rec.type]

\* What the slave writes is an item at its place, or a blank that fits its block.
CopyingOK(F, q, e, b, p, w) ==
  /\ At(e, b) /\ e = p + w.size
  /\ w.kind = "none" => w = NoWrite
  /\ w.kind = "item" =>
       /\ w.item \in 1..Len(q) /\ w.len = q[w.item].len
       /\ w.begin <=> w.left = w.len
       /\ w.left > 0 => \E rec \in F : /\ rec.at = Padded(e) /\ rec.item = w.item
                                       /\ rec.from = w.len - w.left
       /\ w.left = 0 => e = q[w.item].to
  /\ w.kind = "blank" =>
       /\ w.len >= Header
       /\ w.begin => w.left = w.len - Header /\ w.size = 0 /\ Fits(b, w.len)
       /\ ~w.begin => w.left = 0 /\ w.size = w.len

\* Where the slave will be when it has written that.
Target(q, p, w) ==
  IF w.kind = "item" THEN q[w.item].to ELSE IF w.kind = "blank" THEN p + w.len ELSE p

\* The next thing that it is sent begins there.
StreamOK(q, p, w, r, m) ==
  r.mode \in {"seek", "serve", "consume"} =>
    /\ m = NoMsg => r.offset = Target(q, p, w)
    /\ m # NoMsg => m.at = Target(q, p, w) /\ r.offset = m.at + m.len /\ m.len >= Header

SlaveOK(F, q, G, e, b, p, w, r, m) ==
  /\ \A rec \in G : CopiedRecord(F, q, rec)
  /\ CopyingOK(F, q, e, b, p, w)
  /\ StreamOK(q, p, w, r, m)

FormatInv ==
  /\ FormatTypeOK
  /\ FileOK(file["master"], end["master"], block_offset["master"],
            pro_offset["master"], writing["master"], put)
  /\ ReaderOK(file["master"], end["master"], pro_offset["master"], put, reader, msg, sent)
  /\ MessageOK(put, msg)
  /\ writing["slave"].left <= writing["slave"].len
  /\ ~crossed => SlaveOK(file["master"], put, file["slave"], end["slave"],
                         block_offset["slave"], pro_offset["slave"], writing["slave"],
                         reader, msg)

-----------------------------------------------------------------------------
(* Blocks.                                                                 *)

LEMMA TimesAtLeast == ASSUME NEW k \in Int, NEW n \in Nat, k >= 1 PROVE k * n >= n
OBVIOUS

LEMMA TimesAtMost == ASSUME NEW k \in Int, NEW n \in Nat, k <= -1 PROVE k * n <= -n
OBVIOUS

\* Division by Block, and that its result is the only one.
LEMMA DivMod ==
  ASSUME NEW a \in Nat
  PROVE  /\ a \div Block \in Nat /\ (a % Block) \in Nat /\ (a % Block) < Block
         /\ a = (a \div Block) * Block + (a % Block)
BY FormatAssumption

LEMMA DivModUnique ==
  ASSUME NEW a \in Nat, NEW q \in Int, NEW r \in Nat, r < Block, a = q * Block + r
  PROVE  (a % Block) = r /\ a \div Block = q
<1> DEFINE d == a \div Block
<1>0. /\ Block \in Nat /\ d \in Nat /\ (a % Block) \in Nat /\ (a % Block) < Block
      /\ a = d * Block + (a % Block)
  BY DivMod, FormatAssumption
<1>1. (q - d) * Block = (a % Block) - r
  BY <1>0
<1>2. q - d = 0
  <2>1. CASE q - d >= 1
    BY <2>1, <1>1, <1>0, TimesAtLeast
  <2>2. CASE q - d <= -1
    BY <2>2, <1>1, <1>0, TimesAtMost
  <2> QED BY <2>1, <2>2, <1>0
<1> QED BY <1>0, <1>2

LEMMA Sizes == Block \in Nat /\ Header \in Nat /\ Header > 0 /\ Block > Header + 1
BY FormatAssumption

\* The start of the block in which a is.
LEMMA BlockStartFacts ==
  ASSUME NEW a \in Nat
  PROVE  /\ Into(a) \in Nat /\ Into(a) < Block
         /\ BlockStart(a) \in Nat /\ BlockStart(a) = a - Into(a)
         /\ Into(BlockStart(a)) = 0
<1> DEFINE k == a \div Block
           s == k * Block
<1>1. k \in Nat /\ a % Block \in Nat /\ (a % Block) < Block /\ a = k * Block + (a % Block)
  BY DivMod
<1>2. Block \in Nat /\ 0 < Block
  BY Sizes
<1>3. s \in Nat /\ k \in Int /\ s = k * Block + 0 /\ s = a - (a % Block)
  BY <1>1, <1>2
<1>4. (s % Block) = 0
  <2> HIDE DEF s, k
  <2> QED BY <1>2, <1>3, DivModUnique
<1> QED BY <1>1, <1>3, <1>4 DEF BlockStart, Into

\* n bytes further in the same block, or at the start of the next one.
LEMMA SameBlock ==
  ASSUME NEW a \in Nat, NEW n \in Nat
  PROVE  /\ Into(a) + n < Block =>
              /\ Into(a + n) = Into(a) + n
              /\ BlockStart(a + n) = BlockStart(a)
         /\ Into(a) + n = Block => Into(a + n) = 0
<1> DEFINE k == a \div Block
           r == a % Block
<1>1. k \in Nat /\ r \in Nat /\ r < Block /\ a = k * Block + r /\ Block \in Nat
  BY DivMod, Sizes
<1> HIDE DEF k, r
<1>2. ASSUME r + n < Block PROVE ((a + n) % Block) = r + n
  <2>1. a + n = k * Block + (r + n) /\ a + n \in Nat /\ r + n \in Nat
    BY <1>1
  <2> QED BY <2>1, <1>1, <1>2, DivModUnique
<1>3. ASSUME r + n = Block PROVE ((a + n) % Block) = 0
  <2> DEFINE t == a + n
             j == k + 1
  <2>1. t \in Nat /\ j \in Int /\ t = j * Block + 0
    BY <1>1, <1>3
  <2> HIDE DEF t, j
  <2>2. 0 \in Nat /\ 0 < Block
    BY Sizes
  <2>3. (t % Block) = 0
    BY <2>1, <2>2, DivModUnique
  <2> QED BY <2>3 DEF t
<1>4. ASSUME r + n < Block PROVE BlockStart(a + n) = BlockStart(a)
  <2>1. BlockStart(a) = a - r /\ r \in Nat
    BY BlockStartFacts DEF r, Into
  <2>2. a + n \in Nat /\ BlockStart(a + n) = (a + n) - ((a + n) % Block)
    BY BlockStartFacts DEF Into
  <2>3. BlockStart(a + n) = (a + n) - (r + n)
    BY <1>2, <1>4, <2>2
  <2> QED BY <2>1, <2>3
<1> QED BY <1>2, <1>3, <1>4 DEF r, Into

\* A block that starts after a starts after a's block ends.
LEMMA NextBlock ==
  ASSUME NEW a \in Nat, NEW x \in Nat, Into(x) = 0, a < x
  PROVE  BlockStart(a) + Block <= x
<1>1. /\ Into(a) \in Nat /\ Into(a) < Block /\ BlockStart(a) = a - Into(a)
      /\ Block \in Nat
  BY BlockStartFacts, Sizes
<1> SUFFICES ASSUME x < BlockStart(a) + Block PROVE FALSE
  BY <1>1, BlockStartFacts
<1>2. x - a \in Nat /\ Into(a) + (x - a) < Block /\ a + (x - a) = x
  BY <1>1
<1>3. Into(x) = Into(a) + (x - a)
  BY <1>2, SameBlock
<1> QED BY <1>1, <1>3

\* Where the next record goes.
LEMMA PaddedFacts ==
  ASSUME NEW x \in Nat
  PROVE  /\ Padded(x) \in Nat /\ x <= Padded(x) /\ Padded(x) <= x + Header
         /\ Into(Padded(x)) + Header < Block
         /\ Padded(Padded(x)) = Padded(x)
         /\ Into(x) + Header < Block => Padded(x) = x
         /\ Into(x) + Header >= Block =>
              /\ Padded(x) = x + (Block - Into(x)) /\ Into(Padded(x)) = 0
              /\ Padded(x) = BlockStart(x) + Block
<1>1. /\ Into(x) \in Nat /\ Into(x) < Block /\ BlockStart(x) = x - Into(x)
      /\ BlockStart(x) \in Nat
      /\ Block \in Nat /\ Header \in Nat /\ Header > 0 /\ Block > Header + 1
  BY BlockStartFacts, Sizes
<1>2. CASE Into(x) + Header < Block
  BY <1>1, <1>2 DEF Padded, Into
<1>3. CASE Into(x) + Header >= Block
  <2> DEFINE n == Block - Into(x)
  <2>1. n \in Nat /\ Into(x) + n = Block /\ n <= Header
    BY <1>1, <1>3
  <2>2. Padded(x) = x + n /\ Padded(x) = BlockStart(x) + Block
    BY <1>1, <1>3 DEF Padded, Into
  <2> HIDE DEF n
  <2>3. Into(Padded(x)) = 0 /\ Padded(x) \in Nat
    <3>1. Into(x + n) = 0
      BY <2>1, SameBlock
    <3> QED BY <2>1, <2>2, <3>1
  <2>4. Padded(Padded(x)) = Padded(x)
    BY <1>1, <2>3 DEF Padded, Into
  <2> QED BY <1>1, <1>3, <2>1, <2>2, <2>3, <2>4 DEF n
<1> QED BY <1>1, <1>2, <1>3

\* No record starts in the padding.
LEMMA NotInPadding ==
  ASSUME NEW x \in Nat, NEW a \in Nat, Into(a) + Header < Block, x <= a
  PROVE  Padded(x) <= a
<1>1. /\ Into(x) \in Nat /\ Into(x) < Block
      /\ Block \in Nat /\ Header \in Nat
  BY BlockStartFacts, Sizes
<1> SUFFICES ASSUME a < Padded(x) PROVE FALSE
  BY PaddedFacts
<1>2. Into(x) + Header >= Block /\ Padded(x) = x + (Block - Into(x))
  BY <1>1, PaddedFacts
<1>3. a - x \in Nat /\ Into(x) + (a - x) < Block /\ x + (a - x) = a
  BY <1>1, <1>2
<1>4. Into(a) = Into(x) + (a - x)
  BY <1>3, SameBlock
<1> QED BY <1>1, <1>2, <1>3, <1>4

\* What the writer and the reader know of their place is enough to find it.
LEMMA AtFacts ==
  ASSUME NEW x \in Nat, NEW l, At(x, l)
  PROVE  /\ l \in Nat /\ l <= Block
         /\ Block - l <= Header => Padded(x) = x + (Block - l) /\ Into(Padded(x)) = 0
         /\ Block - l > Header => Padded(x) = x /\ Into(x) = l
<1>1. /\ Into(x) \in Nat /\ Into(x) < Block
      /\ Block \in Nat /\ Header \in Nat /\ Header > 0 /\ Block > Header + 1
  BY BlockStartFacts, Sizes
<1>2. l \in Nat /\ l <= Block /\ (Into(x) = l \/ (l = Block /\ Into(x) = 0))
  BY <1>1 DEF At
<1>3. CASE Into(x) = l
  <2>1. /\ Into(x) + Header < Block => Padded(x) = x
        /\ Into(x) + Header >= Block =>
             Padded(x) = x + (Block - Into(x)) /\ Into(Padded(x)) = 0
    BY PaddedFacts
  <2>2. CASE Block - l <= Header
    <3>1. Padded(x) = x + (Block - l) /\ Into(Padded(x)) = 0
      BY <2>1, <2>2, <1>1, <1>2, <1>3
    <3> QED BY <3>1, <2>2, <1>1, <1>2
  <2>3. CASE Block - l > Header
    BY <2>1, <2>3, <1>1, <1>2, <1>3
  <2> QED BY <2>2, <2>3, <1>1, <1>2
<1>4. CASE l = Block /\ Into(x) = 0
  <2>1. Padded(x) = x
    BY <1>1, <1>4, PaddedFacts
  <2> QED BY <1>1, <1>4, <2>1
<1> QED BY <1>2, <1>3, <1>4

LEMMA AtAfter ==
  ASSUME NEW x \in Nat, NEW n \in Nat, Into(x) + n <= Block
  PROVE  At(x + n, Into(x) + n)
<1>1. Into(x) \in Nat /\ Into(x) < Block /\ Block \in Nat
  BY BlockStartFacts, Sizes
<1>2. /\ Into(x) + n \in 0..Block /\ x + n \in Nat
      /\ Into(x) + n < Block \/ Into(x) + n = Block
  BY <1>1
<1>3. /\ Into(x) + n < Block => Into(x + n) = Into(x) + n
      /\ Into(x) + n = Block => Into(x + n) = 0
  BY SameBlock
<1> QED BY <1>2, <1>3 DEF At

-----------------------------------------------------------------------------
(* Steps of the writer.                                                    *)

WriteT == [kind: {"none", "item", "blank"}, item: Nat, len: Nat, left: Nat,
           begin: BOOLEAN, size: Nat]
PutT == [len: Nat, from: Nat, to: Nat]

LEMMA RecordFacts ==
  ASSUME NEW rec \in Record
  PROVE  /\ rec.at \in Nat /\ rec.len \in Nat /\ rec.item \in Nat /\ rec.from \in Nat
         /\ rec.type \in Type /\ Stop(rec) \in Nat /\ rec.at + Header <= Stop(rec)
         /\ rec.at < Stop(rec)
         /\ Into(rec.at) \in Nat
<1>1. /\ rec.at \in Nat /\ rec.len \in Nat /\ rec.item \in Nat /\ rec.from \in Nat
      /\ rec.type \in Type /\ Header \in Nat /\ Header > 0
  BY Sizes DEF Record
<1>2. Stop(rec) = rec.at + Header + rec.len
  BY DEF Stop
<1>3. Into(rec.at) \in Nat
  BY <1>1, BlockStartFacts
<1> QED BY <1>1, <1>2, <1>3

\* The types of the items that were put.
Items(q) ==
  /\ Len(q) \in Nat
  /\ \A i \in 1..Len(q) : q[i].len \in Nat /\ q[i].from \in Nat /\ q[i].to \in Nat

LEMMA PutFacts ==
  ASSUME NEW q \in Seq(PutT)
  PROVE  Items(q)
<1>1. Len(q) \in Nat /\ \A i \in 1..Len(q) : q[i] \in PutT
  OBVIOUS
<1> QED BY <1>1 DEF PutT, Items

LEMMA WriteFacts ==
  ASSUME NEW w \in WriteT
  PROVE  /\ w.item \in Nat /\ w.len \in Nat /\ w.left \in Nat /\ w.size \in Nat
         /\ w.begin \in BOOLEAN /\ w.kind \in {"none", "item", "blank"}
BY DEF WriteT

\* As much of the rest as the block has room for.
LEMMA RoomFacts ==
  ASSUME NEW i \in Nat, NEW left \in Nat, NEW n, i + Header < Block,
         Fills(i, left, n)
  PROVE  /\ n \in Nat /\ n <= left /\ i + Header + n <= Block
         /\ n < left => i + Header + n = Block
         /\ left > 0 => n > 0
<1>1. Block \in Nat /\ Header \in Nat /\ Block - i - Header \in Nat /\ Block - i - Header > 0
  BY Sizes
<1>2. CASE left < Block - i - Header
  <2>1. n = left
    BY <1>2 DEF Fills, Smaller
  <2> QED BY <2>1, <1>1, <1>2
<1>3. CASE ~(left < Block - i - Header)
  <2>1. n = Block - i - Header
    BY <1>3 DEF Fills, Smaller
  <2> QED BY <2>1, <1>1, <1>3
<1> QED BY <1>2, <1>3

LEMMA Sum3 ==
  ASSUME NEW e \in Nat, NEW a \in Nat, NEW n \in Nat, e <= a
  PROVE  a + Header + n \in Nat /\ e < a + Header + n
BY Sizes

\* The writer of w appends the record nr and goes on as v.
Emits(e, w, nr, v) ==
  /\ w.begin \/ w.left > 0
  /\ nr.at = Padded(e) /\ nr.item = w.item /\ nr.from = w.len - w.left
  /\ Fills(Into(Padded(e)), w.left, nr.len)
  /\ nr.type = RecordType(w, nr.len)
  /\ v.kind = w.kind /\ v.item = w.item /\ v.len = w.len /\ v.left = w.left - nr.len
  /\ ~v.begin /\ v.size = w.size + (Padded(e) - e) + Header + nr.len

\* A record is appended.
LEMMA EmitFile ==
  ASSUME NEW F \in SUBSET Record, NEW e \in Nat, NEW b, NEW p \in Nat,
         NEW w \in WriteT, NEW q, Items(q), FileOK(F, e, b, p, w, q),
         NEW nr \in Record, NEW v \in WriteT, Emits(e, w, nr, v)
  PROVE  FileOK(F \cup {nr}, Stop(nr), Into(Padded(e)) + Header + nr.len, p, v, q)
<1> DEFINE a == Padded(e)
           n == nr.len
           G == F \cup {nr}
           d == Stop(nr)
<1>1. /\ WriterOK(e, b, p, w, q) /\ Disjoint(F) /\ Tiled(F, e) /\ Tiled(F, p)
      /\ Ready(F, p, e)
      /\ \A rec \in F : RecordOK(F, e, p, w, q, rec)
      /\ PutOK(F, p, w, q)
  BY DEF FileOK
<1>2. /\ Block \in Nat /\ Header \in Nat /\ Header > 0 /\ Block > Header + 1
      /\ w.item \in Nat /\ w.len \in Nat /\ w.left \in Nat /\ w.size \in Nat
      /\ w.begin \in BOOLEAN /\ w.kind \in {"none", "item", "blank"}
      /\ Len(q) \in Nat /\ v.left \in Nat /\ v.size \in Nat /\ v.kind = w.kind /\ v.len = w.len
      /\ ~v.begin /\ v.item = w.item
  BY Sizes, WriteFacts DEF Emits, Items
<1>3. /\ a \in Nat /\ e <= a /\ a <= e + Header /\ Into(a) + Header < Block
      /\ Into(a) \in Nat /\ Padded(a) = a
      /\ Into(e) + Header >= Block => a = BlockStart(e) + Block
      /\ Into(e) + Header < Block => a = e
      /\ Into(e) \in Nat
  BY PaddedFacts, BlockStartFacts
<1>4. w.kind # "none" /\ w.left <= w.len /\ e = p + w.size
  BY <1>1 DEF WriterOK, NoWrite, Emits
<1>0. /\ nr.at = a /\ nr.item = w.item /\ nr.from = w.len - w.left
      /\ Fills(Into(a), w.left, n)
      /\ nr.type = RecordType(w, n) /\ v.left = w.left - n
      /\ v.size = w.size + (a - e) + Header + n /\ nr \in G
      /\ n \in Nat /\ d = a + Header + n /\ (w.begin \/ w.left > 0)
  BY RecordFacts DEF Emits, Stop
<1> HIDE DEF a, n, d
<1>5. /\ n \in Nat /\ n <= w.left /\ Into(a) + Header + n <= Block
      /\ n < w.left => Into(a) + Header + n = Block
      /\ w.kind = "item" => n > 0
  <2>1. w.kind = "item" => w.left > 0
    BY <1>1, <1>2, <1>0 DEF WriterOK
  <2>2. /\ Into(a) \in Nat /\ w.left \in Nat /\ Into(a) + Header < Block
        /\ Fills(Into(a), w.left, n)
    BY <1>0, <1>2, <1>3
  <2>3. /\ n \in Nat /\ n <= w.left /\ Into(a) + Header + n <= Block
        /\ n < w.left => Into(a) + Header + n = Block
        /\ w.left > 0 => n > 0
    BY <2>2, RoomFacts
  <2> QED BY <2>1, <2>3
<1>6. /\ nr.at = a /\ d = a + Header + n /\ d \in Nat /\ e < d /\ p <= e /\ nr \in G
      /\ Stop(nr) = d
  <2>1. a + Header + n \in Nat /\ e < a + Header + n
    BY <1>3, <1>5, Sum3
  <2>2. p <= e
    BY <1>2, <1>4
  <2> QED BY <1>0, <2>1, <2>2 DEF d
<1>7. WriterOK(d, Into(a) + Header + n, p, v, q)
  <2>1. At(a + (Header + n), Into(a) + (Header + n))
    BY <1>2, <1>3, <1>5, AtAfter
  <2>2. d = a + (Header + n) /\ Into(a) + Header + n = Into(a) + (Header + n)
    BY <1>2, <1>3, <1>5, <1>6
  <2>3. At(d, Into(a) + Header + n)
    BY <2>1, <2>2
  <2>4. d = p + v.size /\ v.size > 0
    <3>1. v.size = w.size + (a - e) + Header + n /\ d = a + Header + n /\ e = p + w.size
      BY <1>0, <1>4
    <3>2. a \in Nat /\ n \in Nat /\ w.size \in Nat /\ Header \in Nat /\ Header > 0 /\ e <= a
      BY <1>2, <1>3, <1>5
    <3>3. w.size + (a - e) + Header + n = (a + Header + n) - p
      <4>1. e = p + w.size /\ w.size \in Nat
        BY <3>1, <3>2
      <4>2. a \in Nat /\ n \in Nat /\ Header \in Nat
        BY <3>2
      <4> QED BY <4>1, <4>2
    <3>4. v.size = d - p /\ d \in Nat /\ p < d
      BY <3>1, <3>3, <1>6, <1>2
    <3> QED BY <3>4
  <2>5. v.left <= v.len /\ (w.kind = "item" => v.left < v.len)
    BY <1>0, <1>2, <1>4, <1>5
  <2>6. /\ w.kind = "blank" => w.item = 0
        /\ w.kind = "item" => w.item = Len(q) + 1 /\ w.len > 0
    BY <1>1 DEF WriterOK
  <2> QED BY <1>2, <1>4, <2>3, <2>4, <2>5, <2>6 DEF WriterOK
<1>8. ASSUME NEW rec \in F
      PROVE  /\ rec \in Record /\ Stop(rec) <= e /\ rec.at < e /\ Stop(rec) \in Nat
             /\ RecordOK(F, e, p, w, q, rec) /\ rec \in G /\ rec.at \in Nat
  BY <1>1, RecordFacts DEF RecordOK, PlaceOK
<1>9. Disjoint(G)
  BY <1>1, <1>3, <1>6, <1>8 DEF Disjoint
<1>10. ASSUME NEW x \in Nat, Ready(F, x, e) PROVE Ready(G, x, d)
  <2>1. CASE x = e
    <3>1. Padded(x) = a
      BY <2>1 DEF a
    <3>2. nr.at = Padded(x) /\ nr.at < d /\ x < d
      BY <2>1, <3>1, <1>0, <1>6, RecordFacts DEF d
    <3> QED BY <3>2, <1>6 DEF Ready
  <2>2. CASE x < e /\ \E rec \in F : rec.at = Padded(x) /\ rec.at < e
    <3>1. PICK rec \in F : rec.at = Padded(x) /\ rec.at < e
      BY <2>2
    <3>2. rec.at < d /\ x < d /\ rec \in G
      BY <2>2, <3>1, <1>6, <1>8
    <3> QED BY <3>1, <3>2 DEF Ready
  <2> QED BY <1>10, <2>1, <2>2 DEF Ready
<1>11. Tiled(G, d)
  <2>1. ASSUME NEW x \in 0..d, Into(x) = 0 PROVE Ready(G, x, d)
    <3>0. x \in Nat /\ x <= d
      BY <1>6
    <3>1. CASE x <= e
      <4>1. x \in 0..e
        BY <3>0, <3>1
      <4> QED BY <4>1, <3>0, <2>1, <1>1, <1>10 DEF Tiled
    <3>2. CASE e < x /\ x <= a
      <4>1. BlockStart(e) + Block <= x
        BY <3>0, <3>2, <2>1, NextBlock
      <4>2. x = a
        BY <4>1, <3>0, <3>2, <1>2, <1>3
      <4> QED BY <4>2, <1>3, <1>5, <1>2, <1>6 DEF Ready
    <3>3. CASE a < x
      <4>1. BlockStart(a) + Block <= x /\ BlockStart(a) = a - Into(a)
        BY <3>0, <3>3, <2>1, <1>3, NextBlock, BlockStartFacts
      <4>2. x = d
        BY <4>1, <3>0, <1>2, <1>3, <1>5, <1>6
      <4> QED BY <4>2 DEF Ready
    <3> QED BY <3>0, <3>1, <3>2, <3>3, <1>3
  <2>2. ASSUME NEW rec \in G PROVE Ready(G, Stop(rec), d)
    <3>1. CASE rec \in F
      BY <3>1, <1>1, <1>8, <1>10 DEF Tiled
    <3>2. CASE rec = nr
      BY <3>2, <1>6 DEF Ready
    <3> QED BY <3>1, <3>2
  <2> QED BY <2>1, <2>2 DEF Tiled
<1>12. Tiled(G, p)
  <2>1. ASSUME NEW x, Ready(F, x, p) PROVE Ready(G, x, p)
    BY <2>1 DEF Ready
  <2>2. ASSUME NEW rec \in G, rec.at < p PROVE rec \in F
    BY <2>2, <1>3, <1>6
  <2> QED BY <2>1, <2>2, <1>1 DEF Tiled
<1>13. ASSUME NEW rec \in F PROVE RecordOK(G, d, p, v, q, rec)
  <2>1. PlaceOK(d, p, rec) /\ (rec.item = 0 => rec.type \in {"empty", "bad"})
    BY <1>6, <1>8 DEF RecordOK, PlaceOK
  <2>2. ASSUME rec.item # 0 PROVE PartOK(G, d, p, v, q, rec)
    <3> DEFINE upto == rec.from + rec.len
    <3>1. PartOK(F, e, p, w, q, rec) /\ rec.item \in Nat /\ rec.from \in Nat /\ rec.len \in Nat
      BY <1>8, <2>2, RecordFacts DEF RecordOK
    <3>2. rec.item \in 1..Len(q) + 1
      BY <3>1 DEF PartOK
    <3>3. Total(v, q, rec.item) = Total(w, q, rec.item)
      BY <1>2 DEF Total
    <3>4. CASE rec.item <= Len(q)
      <4>1. To(d, q, rec.item) = To(e, q, rec.item)
        BY <3>4 DEF To
      <4>2. rec.item # Len(q) + 1
        BY <3>4, <1>2
      <4> QED BY <3>1, <3>3, <4>1, <4>2 DEF PartOK
    <3>5. CASE rec.item = Len(q) + 1
      <4>0. ~(rec.item <= Len(q))
        BY <3>5, <1>2
      <4>1. /\ w.kind = "item" /\ ~w.begin /\ upto <= w.len - w.left /\ w.left > 0
            /\ Total(w, q, rec.item) = w.len
            /\ To(d, q, rec.item) = d /\ To(e, q, rec.item) = e
        BY <3>1, <3>5, <4>0, <1>0 DEF PartOK, Total, To
      <4>2. upto < w.len /\ upto <= v.len - v.left
        <5>1. /\ rec.from \in Nat /\ rec.len \in Nat /\ w.len \in Nat /\ w.left \in Nat
              /\ n \in Nat /\ v.len = w.len /\ v.left = w.left - n
          BY <3>1, <1>0, <1>2, <1>5
        <5> QED BY <5>1, <4>1
      <4>3. \/ Stop(rec) = e /\ upto = w.len - w.left
            \/ \E next \in F : /\ next.at = Padded(Stop(rec))
                               /\ next.item = rec.item /\ next.from = upto
        BY <3>1, <4>1, <4>2 DEF PartOK
      <4>4. w.item = Len(q) + 1
        BY <4>1, <1>1 DEF WriterOK
      <4>5. \E next \in G : /\ next.at = Padded(Stop(rec))
                            /\ next.item = rec.item /\ next.from = upto
        <5>1. CASE Stop(rec) = e /\ upto = w.len - w.left
          <6>1. nr.at = Padded(Stop(rec)) /\ nr.item = rec.item /\ nr.from = upto
            BY <5>1, <4>4, <3>5, <1>0 DEF a
          <6> QED BY <6>1, <1>6
        <5>2. CASE \E next \in F : /\ next.at = Padded(Stop(rec))
                                   /\ next.item = rec.item /\ next.from = upto
          BY <5>2
        <5> QED BY <4>3, <5>1, <5>2
      <4>6. Stop(rec) <= To(d, q, rec.item)
        BY <4>1, <1>6, <1>8
      <4> QED BY <3>1, <3>3, <3>5, <4>1, <4>2, <4>5, <4>6, <1>2, SMTT(30) DEF PartOK
    <3> QED BY <3>2, <3>4, <3>5, <1>2
  <2> QED BY <2>1, <2>2 DEF RecordOK
<1>14. RecordOK(G, d, p, v, q, nr)
  <2>1. nr.type # "bad" /\ (w.kind = "blank" => nr.type = "empty")
    BY <1>0 DEF RecordType
  <2>2. PlaceOK(d, p, nr)
    <3>1. Into(nr.at) + Header < Block /\ Into(nr.at) + Header + nr.len <= Block
      BY <1>3, <1>5, <1>6 DEF n
    <3>2. Stop(nr) <= d /\ p <= nr.at
      BY <1>3, <1>6
    <3> QED BY <2>1, <3>1, <3>2 DEF PlaceOK
  <2>3. /\ w.kind = "blank" => w.item = 0
        /\ w.kind = "item" => w.item = Len(q) + 1 /\ w.item # 0
    BY <1>1, <1>2 DEF WriterOK
  <2>4. ASSUME w.kind = "item" PROVE PartOK(G, d, p, v, q, nr)
    <3>1. /\ nr.item = Len(q) + 1 /\ nr.item \in 1..Len(q) + 1 /\ ~(nr.item <= Len(q))
          /\ Total(v, q, nr.item) = w.len /\ From(p, q, nr.item) = p /\ To(d, q, nr.item) = d
      <4>1. nr.item = Len(q) + 1
        BY <2>3, <2>4, <1>0
      <4>2. nr.item \in 1..Len(q) + 1 /\ ~(nr.item <= Len(q))
        BY <4>1, <1>2
      <4> QED BY <4>1, <4>2, <1>2 DEF Total, From, To
    <3>2. /\ w.begin => w.left = w.len /\ w.size = 0 /\ e = p
          /\ ~w.begin => w.left < w.len
      BY <2>4, <1>1, <1>2, <1>4 DEF WriterOK
    <3>3. /\ nr.from \in Nat /\ nr.from = w.len - w.left
          /\ nr.from = 0 <=> w.begin
          /\ nr.from + n = v.len - v.left /\ nr.from + n <= w.len
          /\ nr.from + n = w.len <=> w.left = n
      <4>1. /\ nr.from = w.len - w.left /\ v.left = w.left - n /\ v.len = w.len
            /\ w.len \in Nat /\ w.left \in Nat /\ n \in Nat /\ w.left <= w.len /\ n <= w.left
        BY <1>0, <1>2, <1>4, <1>5
      <4>2. w.begin \in BOOLEAN
        BY <1>2
      <4>3. nr.from = 0 <=> w.begin
        BY <4>1, <4>2, <3>2
      <4> QED BY <4>1, <4>3
    <3>4. Fills(Into(nr.at), w.len - nr.from, n)
      <4>1. w.len - nr.from = w.left
        BY <3>3, <1>2, <1>4
      <4> QED BY <4>1, <1>0
    <3>5. nr.type = KindOf(nr.from, n, w.len)
      BY <3>3, <2>4, <1>0, <1>2, <1>5, SMTT(30) DEF RecordType, KindOf
    <3>6. nr.from = 0 => nr.at = Padded(p)
      BY <3>2, <3>3, <1>0 DEF a
    <3>7. ASSUME nr.from > 0
          PROVE  \E prev \in G : /\ nr.at = Padded(Stop(prev))
                                 /\ prev.item = nr.item /\ prev.from + prev.len = nr.from
      <4>1. ~w.begin /\ w.left > 0
        BY <3>3, <3>7, <1>0
      <4>2. PICK rec \in F : rec.item = Len(q) + 1 /\ rec.from + rec.len = w.len - w.left
        BY <4>1, <2>4, <1>1 DEF PutOK
      <4>3. PartOK(F, e, p, w, q, rec) /\ Total(w, q, rec.item) = w.len
        BY <4>2, <1>2, <1>8 DEF RecordOK, Total
      <4>4. ASSUME NEW next \in F, next.item = rec.item, next.from = rec.from + rec.len
            PROVE  FALSE
        <5>1. PartOK(F, e, p, w, q, next) /\ next.from \in Nat /\ next.len \in Nat
          <6>1. next.item # 0
            BY <4>2, <4>4, <1>2
          <6> QED BY <6>1, <4>4, <1>8, RecordFacts DEF RecordOK
        <5>2. next.len > 0 /\ next.from + next.len <= w.len - w.left
          BY <5>1, <4>2, <4>4 DEF PartOK
        <5> QED BY <5>1, <5>2, <4>2, <4>4, <1>2
      <4>5. Stop(rec) = e
        <5>1. rec.from + rec.len < Total(w, q, rec.item)
          BY <4>1, <4>2, <4>3, <1>2
        <5> QED BY <4>3, <4>4, <5>1 DEF PartOK
      <4>6. nr.at = Padded(Stop(rec)) /\ rec.item = nr.item /\ rec.from + rec.len = nr.from
        BY <4>2, <4>5, <3>1, <1>0 DEF a
      <4> QED BY <4>6
    <3>8. /\ From(p, q, nr.item) <= nr.at /\ Stop(nr) <= To(d, q, nr.item) /\ nr.len > 0
          /\ nr.from + nr.len <= Total(v, q, nr.item)
      BY <3>1, <3>3, <2>4, <1>3, <1>5, <1>6 DEF n
    <3>9. /\ nr.from + nr.len = v.len - v.left /\ v.kind = "item" /\ ~v.begin
          /\ nr.from + nr.len <= v.len - v.left
      BY <3>3, <2>4, <1>2, <1>5 DEF n
    <3>10. Stop(nr) = To(d, q, nr.item) /\ Stop(nr) = d
      BY <3>1, <1>6
    <3>11. /\ Fills(Into(nr.at), Total(v, q, nr.item) - nr.from, nr.len)
           /\ nr.type \in {"bad", KindOf(nr.from, nr.len, Total(v, q, nr.item))}
           /\ nr.from = 0 => nr.at = Padded(From(p, q, nr.item))
      BY <3>1, <3>4, <3>5, <3>6 DEF n
    <3> QED BY <3>1, <3>7, <3>8, <3>9, <3>10, <3>11 DEF PartOK
  <2> QED BY <2>1, <2>2, <2>3, <2>4, <1>0, <1>2, <1>4 DEF RecordOK
<1>15. PutOK(G, p, v, q)
  <2>1. ASSUME w.kind = "item"
        PROVE  /\ \E rec \in G : rec.item = Len(q) + 1 /\ rec.from = 0
               /\ \E rec \in G : rec.item = Len(q) + 1 /\ rec.from + rec.len = v.len - v.left
    <3>1. w.item = Len(q) + 1 /\ (w.begin => w.left = w.len)
      BY <2>1, <1>1 DEF WriterOK
    <3>2. nr.from + nr.len = v.len - v.left
      BY <1>0, <1>2, <1>4, <1>5, SMTT(30) DEF n
    <3>3. w.begin => nr.from = 0
      BY <3>1, <1>0, <1>2
    <3>4. ~w.begin => \E rec \in F : rec.item = Len(q) + 1 /\ rec.from = 0
      BY <2>1, <1>1 DEF PutOK
    <3> QED BY <3>1, <3>2, <3>3, <3>4, <1>0
  <2> QED BY <1>1, <1>2, <2>1 DEF PutOK
<1>16. Ready(G, p, d)
  BY <1>1, <1>10
<1> QED BY <1>7, <1>9, <1>11, <1>12, <1>13, <1>14, <1>15, <1>16 DEF FileOK, a, n, d

\* What is known of a record of the file.
LEMMA FileRecord ==
  ASSUME NEW F \in SUBSET Record, NEW e, NEW b, NEW p, NEW w, NEW q,
         FileOK(F, e, b, p, w, q), NEW rec \in F
  PROVE  /\ rec \in Record /\ RecordOK(F, e, p, w, q, rec)
         /\ rec.at \in Nat /\ rec.len \in Nat /\ rec.item \in Nat /\ rec.from \in Nat
         /\ Stop(rec) \in Nat /\ rec.at + Header <= Stop(rec) /\ rec.at < Stop(rec)
         /\ Stop(rec) <= e /\ Into(rec.at) + Header < Block
         /\ Stop(rec) <= p \/ p <= rec.at
         /\ rec.item # 0 => PartOK(F, e, p, w, q, rec)
<1>1. rec \in Record /\ RecordOK(F, e, p, w, q, rec)
  BY DEF FileOK
<1> QED BY <1>1, RecordFacts DEF RecordOK, PlaceOK

\* A Put or a PutBlank begins.
Starts(v, q) ==
  /\ v.kind # "none" /\ v.begin /\ v.size = 0 /\ v.left <= v.len
  /\ v.kind = "blank" => v.item = 0
  /\ v.kind = "item" => v.item = Len(q) + 1 /\ v.left = v.len /\ v.len > 0

LEMMA StartFile ==
  ASSUME NEW F \in SUBSET Record, NEW e \in Nat, NEW b, NEW p \in Nat, NEW q, Items(q),
         FileOK(F, e, b, p, NoWrite, q), NEW v \in WriteT, Starts(v, q)
  PROVE  FileOK(F, e, b, p, v, q)
<1> DEFINE w == NoWrite
<1>1. /\ WriterOK(e, b, p, w, q) /\ Disjoint(F) /\ Tiled(F, e) /\ Tiled(F, p)
      /\ Ready(F, p, e) /\ PutOK(F, p, w, q)
      /\ \A rec \in F : RecordOK(F, e, p, w, q, rec)
  BY DEF FileOK
<1>2. w.kind = "none" /\ w.size = 0
  BY DEF NoWrite
<1> HIDE DEF w
<1>3. WriterOK(e, b, p, v, q)
  BY <1>1, <1>2, WriteFacts DEF WriterOK, Starts
<1>4. PutOK(F, p, v, q)
  BY <1>1 DEF PutOK, Starts
<1>5. ASSUME NEW rec \in F PROVE RecordOK(F, e, p, v, q, rec)
  <2>1. RecordOK(F, e, p, w, q, rec)
    BY <1>1
  <2>2. ASSUME rec.item # 0 PROVE PartOK(F, e, p, v, q, rec)
    <3>1. PartOK(F, e, p, w, q, rec)
      BY <2>1, <2>2 DEF RecordOK
    <3>2. rec.item # Len(q) + 1 /\ rec.item \in 1..Len(q) + 1
      BY <3>1, <1>2 DEF PartOK
    <3>3. rec.item <= Len(q)
      BY <3>2 DEF Items
    <3>4. Total(v, q, rec.item) = Total(w, q, rec.item)
      BY <3>3 DEF Total
    <3> QED BY <3>1, <3>2, <3>4 DEF PartOK
  <2> QED BY <2>1, <2>2 DEF RecordOK
<1> QED BY <1>1, <1>3, <1>4, <1>5 DEF FileOK

\* What was written is published: the items after that are r.
Grows(q, w, p, e, r) ==
  IF w.kind = "item"
  THEN /\ Len(r) = Len(q) + 1
       /\ \A i \in 1..Len(q) : r[i] = q[i]
       /\ r[Len(q) + 1].len = w.len /\ r[Len(q) + 1].from = p /\ r[Len(q) + 1].to = e
  ELSE r = q

LEMMA IncFile ==
  ASSUME NEW F \in SUBSET Record, NEW e \in Nat, NEW b, NEW p \in Nat, NEW w \in WriteT,
         NEW q, Items(q), FileOK(F, e, b, p, w, q), Written(w),
         NEW r, Grows(q, w, p, e, r)
  PROVE  FileOK(F, e, b, e, NoWrite, r) /\ p < e /\ e = p + w.size
<1> DEFINE z == NoWrite
           k == Len(q)
<1>1. /\ WriterOK(e, b, p, w, q) /\ Disjoint(F) /\ Tiled(F, e) /\ Tiled(F, p)
      /\ Ready(F, p, e) /\ PutOK(F, p, w, q)
      /\ \A rec \in F : RecordOK(F, e, p, w, q, rec)
  BY DEF FileOK
<1>2. /\ w.len \in Nat /\ w.size \in Nat /\ w.kind \in {"none", "item", "blank"} /\ k \in Nat
      /\ w.left = 0 /\ ~w.begin /\ w.left \in Nat
  BY WriteFacts DEF Items, Written
<1>3. w.kind # "none" /\ w.size > 0 /\ e = p + w.size /\ At(e, b)
  BY <1>1, <1>2 DEF WriterOK, Written
<1>4. p < e
  BY <1>2, <1>3
<1>5. /\ z.kind = "none" /\ z.size = 0 /\ z.left = 0 /\ z.len = 0 /\ ~z.begin /\ z = NoWrite
  BY DEF NoWrite
<1>6. WriterOK(e, b, e, z, r)
  BY <1>3, <1>5 DEF WriterOK
<1> HIDE DEF z, k
<1>7. /\ k <= Len(r) /\ \A i \in 1..k : r[i] = q[i]
      /\ w.kind = "item" => /\ Len(r) = k + 1 /\ r[k + 1].len = w.len
                            /\ r[k + 1].from = p /\ r[k + 1].to = e
      /\ w.kind # "item" => r = q /\ Len(r) = k
      /\ Len(r) \in Nat
  BY <1>2 DEF Grows, k
<1>8. ASSUME NEW rec \in F PROVE RecordOK(F, e, e, z, r, rec)
  <2>1. /\ RecordOK(F, e, p, w, q, rec) /\ rec.at \in Nat /\ rec.at < e
        /\ Stop(rec) \in Nat /\ BlockStart(rec.at) \in Nat
    <3>1. /\ RecordOK(F, e, p, w, q, rec) /\ rec.at \in Nat /\ rec.at < Stop(rec)
          /\ Stop(rec) \in Nat /\ Stop(rec) <= e
      BY FileRecord
    <3>2. BlockStart(rec.at) \in Nat
      BY <3>1, BlockStartFacts
    <3> QED BY <3>1, <3>2
  <2>2. PlaceOK(e, e, rec) /\ (rec.item = 0 => rec.type \in {"empty", "bad"})
    BY <2>1, <1>4, Sizes DEF RecordOK, PlaceOK
  <2>3. ASSUME rec.item # 0 PROVE PartOK(F, e, e, z, r, rec)
    <3> DEFINE i == rec.item
               upto == rec.from + rec.len
    <3>1. /\ PartOK(F, e, p, w, q, rec) /\ i \in 1..k + 1
          /\ i \in Nat /\ rec.from \in Nat /\ rec.len \in Nat
      BY <2>1, <2>3, RecordFacts DEF RecordOK, PartOK, k
    <3>2. i = k + 1 => w.kind = "item"
      BY <3>1 DEF PartOK, k
    <3>3. i <= Len(r) /\ i \in 1..Len(r) + 1 /\ i # Len(r) + 1
      BY <3>1, <3>2, <1>2, <1>7
    <3>4. /\ Total(z, r, i) = Total(w, q, i) /\ From(e, r, i) = From(p, q, i)
          /\ To(e, r, i) = To(e, q, i)
      <4>1. CASE i <= k
        BY <4>1, <3>1, <3>3, <1>7 DEF Total, From, To, k
      <4>2. CASE i = k + 1
        <5>1. ~(i <= k) /\ r[i].len = w.len /\ r[i].from = p /\ r[i].to = e
          BY <4>2, <3>2, <1>2, <1>7
        <5> QED BY <5>1, <3>3 DEF Total, From, To, k
      <4> QED BY <4>1, <4>2, <3>1, <1>2
    <3>5. upto < Total(w, q, i) =>
            \E next \in F : /\ next.at = Padded(Stop(rec))
                            /\ next.item = i /\ next.from = upto
      <4>1. ASSUME i = k + 1, upto = w.len - w.left, upto < Total(w, q, i) PROVE FALSE
        <5>1. Total(w, q, i) = w.len
          BY <4>1, <1>2 DEF Total, k
        <5> QED BY <4>1, <5>1, <1>2
      <4> QED BY <3>1, <4>1 DEF PartOK, k
    <3> QED BY <3>1, <3>3, <3>4, <3>5, <2>1 DEF PartOK
  <2> QED BY <2>2, <2>3 DEF RecordOK
<1>9. PutOK(F, e, z, r)
  <2>1. ASSUME NEW i \in 1..k
        PROVE  /\ r[i].from < r[i].to /\ r[i].to <= p /\ r[i].len > 0 /\ r[i].to \in Nat
               /\ \A j \in 1..k : i < j => r[i].to <= r[j].from
               /\ \E rec \in F : rec.item = i /\ rec.from = 0
               /\ \E rec \in F : rec.item = i /\ rec.from + rec.len = r[i].len
    <3>1. /\ q[i].from < q[i].to /\ q[i].to <= p /\ q[i].len > 0 /\ q[i].to \in Nat
          /\ \A j \in 1..k : i < j => q[i].to <= q[j].from
          /\ \E rec \in F : rec.item = i /\ rec.from = 0
          /\ \E rec \in F : rec.item = i /\ rec.from + rec.len = q[i].len
      BY <1>1 DEF PutOK, Items, k
    <3> QED BY <3>1, <1>7
  <2>2. ASSUME w.kind = "item"
        PROVE  /\ r[k + 1].from < r[k + 1].to /\ r[k + 1].to <= e /\ r[k + 1].len > 0
               /\ \E rec \in F : rec.item = k + 1 /\ rec.from = 0
               /\ \E rec \in F : rec.item = k + 1 /\ rec.from + rec.len = r[k + 1].len
    <3>1. w.len > 0 /\ w.len - w.left = w.len
      BY <2>2, <1>1, <1>2 DEF WriterOK
    <3>2. /\ \E rec \in F : rec.item = k + 1 /\ rec.from = 0
          /\ \E rec \in F : rec.item = k + 1 /\ rec.from + rec.len = w.len
      BY <2>2, <3>1, <1>1, <1>2 DEF PutOK, k
    <3> QED BY <2>2, <3>1, <3>2, <1>4, <1>7
  <2>3. ASSUME NEW i \in 1..Len(r)
        PROVE  /\ r[i].from < r[i].to /\ r[i].to <= e /\ r[i].len > 0
               /\ \A j \in 1..Len(r) : i < j => r[i].to <= r[j].from
               /\ \E rec \in F : rec.item = i /\ rec.from = 0
               /\ \E rec \in F : rec.item = i /\ rec.from + rec.len = r[i].len
    <3>1. CASE i \in 1..k
      <4>1. r[i].to <= e
        BY <3>1, <2>1, <1>4
      <4>2. ASSUME NEW j \in 1..Len(r), i < j PROVE r[i].to <= r[j].from
        <5>1. CASE j \in 1..k
          BY <5>1, <4>2, <3>1, <2>1
        <5>2. CASE j \notin 1..k
          <6>1. w.kind = "item" /\ j = k + 1
            BY <5>2, <1>2, <1>7
          <6> QED BY <6>1, <3>1, <2>1, <1>7
        <5> QED BY <5>1, <5>2
      <4> QED BY <3>1, <2>1, <4>1, <4>2
    <3>2. CASE i \notin 1..k
      <4>1. w.kind = "item" /\ i = k + 1 /\ Len(r) = k + 1
        BY <3>2, <1>2, <1>7
      <4>2. ASSUME NEW j \in 1..Len(r), i < j PROVE FALSE
        BY <4>1, <4>2, <1>2
      <4> QED BY <4>1, <4>2, <2>2
    <3> QED BY <3>1, <3>2
  <2> QED BY <2>3, <1>5 DEF PutOK
<1>10. Ready(F, e, e)
  BY DEF Ready
<1> QED BY <1>1, <1>3, <1>4, <1>6, <1>8, <1>9, <1>10 DEF FileOK, z

\* The file is opened at p again.
LEMMA CrashFile ==
  ASSUME NEW F \in SUBSET Record, NEW e \in Nat, NEW b, NEW p \in Nat, NEW w \in WriteT,
         NEW q, Items(q), FileOK(F, e, b, p, w, q)
  PROVE  FileOK({rec \in F : rec.at < p}, p, Into(p), p, NoWrite, q)
<1> DEFINE z == NoWrite
           H == {rec \in F : rec.at < p}
<1>1. /\ Tiled(F, p) /\ PutOK(F, p, w, q) /\ Disjoint(F)
      /\ \A rec \in F : RecordOK(F, e, p, w, q, rec)
  BY DEF FileOK
<1>2. /\ z.kind = "none" /\ z.size = 0 /\ z.left = 0 /\ z.len = 0 /\ ~z.begin /\ z = NoWrite
  BY DEF NoWrite
<1>3. At(p, Into(p))
  BY BlockStartFacts, Sizes DEF At
<1>4. WriterOK(p, Into(p), p, z, q)
  BY <1>2, <1>3 DEF WriterOK
<1> HIDE DEF z
<1>5. ASSUME NEW rec \in F, rec.item \in 1..Len(q) PROVE rec \in H
  <2>1. rec.item <= Len(q) /\ rec.item # 0
    BY <1>5 DEF Items
  <2> QED BY <2>1, FileRecord DEF PartOK
<1>6. Disjoint(H)
  BY <1>1 DEF Disjoint
<1>7. Tiled(H, p) /\ Ready(H, p, p)
  <2>1. ASSUME NEW x, Ready(F, x, p) PROVE Ready(H, x, p)
    BY <2>1 DEF Ready
  <2> QED BY <2>1, <1>1 DEF Tiled, Ready
<1>8. ASSUME NEW rec \in H PROVE RecordOK(H, p, p, z, q, rec)
  <2>1. /\ RecordOK(F, e, p, w, q, rec) /\ rec.at < p /\ rec \in F /\ rec.at \in Nat
        /\ rec.item \in Nat /\ rec.from \in Nat /\ rec.len \in Nat
    BY FileRecord
  <2>2. PlaceOK(p, p, rec) /\ (rec.item = 0 => rec.type \in {"empty", "bad"})
    BY <2>1 DEF RecordOK, PlaceOK
  <2>3. ASSUME rec.item # 0 PROVE PartOK(H, p, p, z, q, rec)
    <3> DEFINE i == rec.item
               upto == rec.from + rec.len
    <3>1. PartOK(F, e, p, w, q, rec) /\ i \in 1..Len(q) + 1
      BY <2>1, <2>3 DEF RecordOK, PartOK
    <3>2. i # Len(q) + 1
      <4> SUFFICES ASSUME i = Len(q) + 1 PROVE FALSE
        OBVIOUS
      <4>1. From(p, q, i) = p
        BY DEF From, Items
      <4> QED BY <4>1, <3>1, <2>1 DEF PartOK
    <3>3. i <= Len(q) /\ i \in 1..Len(q)
      BY <3>1, <3>2 DEF Items
    <3>4. Total(z, q, i) = Total(w, q, i) /\ To(p, q, i) = To(e, q, i)
      BY <3>3 DEF Total, To
    <3>5. upto < Total(w, q, i) =>
            \E next \in H : /\ next.at = Padded(Stop(rec))
                            /\ next.item = i /\ next.from = upto
      BY <3>1, <3>2, <3>3, <1>5 DEF PartOK
    <3>6. rec.from > 0 =>
            \E prev \in H : /\ rec.at = Padded(Stop(prev))
                            /\ prev.item = i /\ prev.from + prev.len = rec.from
      BY <3>1, <3>3, <1>5 DEF PartOK
    <3> QED BY <3>1, <3>2, <3>4, <3>5, <3>6, <2>1 DEF PartOK
  <2> QED BY <2>2, <2>3 DEF RecordOK
<1>9. PutOK(H, p, z, q)
  BY <1>1, <1>2, <1>5 DEF PutOK
<1> QED BY <1>4, <1>6, <1>7, <1>8, <1>9 DEF FileOK, z

\* The record x is damaged and is y then.
Hits(F, p, x, y) ==
  /\ x \in F /\ x.type # "bad" /\ y.type = "bad"
  /\ y.at = x.at /\ y.len = x.len /\ y.item = x.item /\ y.from = x.from
  /\ x.at < p

LEMMA DamageTwins ==
  ASSUME NEW F, NEW p, NEW x, NEW y, Hits(F, p, x, y), NEW H, H = (F \ {x}) \cup {y}
  PROVE  /\ \A rec \in F : \E twin \in H :
              /\ twin.at = rec.at /\ twin.len = rec.len /\ twin.item = rec.item
              /\ twin.from = rec.from /\ Stop(twin) = Stop(rec)
              /\ twin.type \in {rec.type, "bad"}
         /\ \A twin \in H : \E rec \in F :
              /\ twin.at = rec.at /\ twin.len = rec.len /\ twin.item = rec.item
              /\ twin.from = rec.from /\ Stop(twin) = Stop(rec)
              /\ twin = rec \/ (twin = y /\ rec = x)
         /\ \A rec \in F : rec.type = "bad" => rec \in H
<1>1. /\ x \in F /\ y \in H /\ Stop(y) = Stop(x) /\ x.type # "bad" /\ y.type = "bad"
      /\ y.at = x.at /\ y.len = x.len /\ y.item = x.item /\ y.from = x.from
  BY DEF Hits, Stop
<1> QED BY <1>1

LEMMA DamageFile ==
  ASSUME NEW F \in SUBSET Record, NEW e \in Nat, NEW b, NEW p \in Nat, NEW w \in WriteT,
         NEW q, Items(q), FileOK(F, e, b, p, w, q),
         NEW x, NEW y, Hits(F, p, x, y), NEW H, H = (F \ {x}) \cup {y}
  PROVE  FileOK(H, e, b, p, w, q)
<1>1. /\ WriterOK(e, b, p, w, q) /\ Disjoint(F) /\ Tiled(F, e) /\ Tiled(F, p)
      /\ Ready(F, p, e) /\ PutOK(F, p, w, q)
      /\ \A rec \in F : RecordOK(F, e, p, w, q, rec)
  BY DEF FileOK
<1>2. ASSUME NEW rec \in F
      PROVE  \E twin \in H :
               /\ twin.at = rec.at /\ twin.len = rec.len /\ twin.item = rec.item
               /\ twin.from = rec.from /\ Stop(twin) = Stop(rec)
  BY DamageTwins, SMTT(30)
<1>3. ASSUME NEW twin \in H
      PROVE  \E rec \in F :
               /\ twin.at = rec.at /\ twin.len = rec.len /\ twin.item = rec.item
               /\ twin.from = rec.from /\ Stop(twin) = Stop(rec)
               /\ twin = rec \/ (twin = y /\ rec = x)
  BY DamageTwins
<1>4. /\ x \in F /\ y.type = "bad" /\ x.at < p /\ y.at = x.at
  BY DEF Hits
<1>5. ASSUME NEW o, NEW l, Ready(F, o, l) PROVE Ready(H, o, l)
  BY <1>2, <1>5 DEF Ready
<1>6. Disjoint(H)
  BY <1>1, <1>3 DEF Disjoint
<1>7. ASSUME NEW l, Tiled(F, l) PROVE Tiled(H, l)
  BY <1>3, <1>5, <1>7 DEF Tiled
<1>8. ASSUME NEW twin \in H PROVE RecordOK(H, e, p, w, q, twin)
  <2>1. PICK rec \in F :
          /\ twin.at = rec.at /\ twin.len = rec.len /\ twin.item = rec.item
          /\ twin.from = rec.from /\ Stop(twin) = Stop(rec)
          /\ twin = rec \/ (twin = y /\ rec = x)
    BY <1>3
  <2>2. RecordOK(F, e, p, w, q, rec)
    BY <1>1
  <2>3. PlaceOK(e, p, twin)
    BY <2>1, <2>2, <1>4 DEF RecordOK, PlaceOK
  <2>4. twin.item = 0 => twin.type \in {"empty", "bad"}
    BY <2>1, <2>2, <1>4 DEF RecordOK
  <2>5. ASSUME twin.item # 0 PROVE PartOK(H, e, p, w, q, twin)
    <3>1. PartOK(F, e, p, w, q, rec)
      BY <2>1, <2>2, <2>5 DEF RecordOK
    <3>2. twin.type \in {rec.type, "bad"}
      BY <2>1, <1>4
    <3>3. ASSUME NEW next \in F, NEW o, NEW i, NEW f,
                 next.at = o, next.item = i, next.from = f
          PROVE  \E t \in H : t.at = o /\ t.item = i /\ t.from = f
      BY <3>3, <1>2
    <3>4. ASSUME NEW prev \in F, NEW o, NEW i, NEW f,
                 o = Padded(Stop(prev)), prev.item = i, prev.from + prev.len = f
          PROVE  \E t \in H : o = Padded(Stop(t)) /\ t.item = i /\ t.from + t.len = f
      BY <3>4, <1>2
    <3> QED BY <3>1, <3>2, <3>3, <3>4, <2>1 DEF PartOK
  <2> QED BY <2>3, <2>4, <2>5 DEF RecordOK
<1>9. PutOK(H, p, w, q)
  <2>1. ASSUME NEW i, \E rec \in F : rec.item = i /\ rec.from = 0
        PROVE  \E rec \in H : rec.item = i /\ rec.from = 0
    BY <2>1, <1>2
  <2>2. ASSUME NEW i, NEW n, \E rec \in F : rec.item = i /\ rec.from + rec.len = n
        PROVE  \E rec \in H : rec.item = i /\ rec.from + rec.len = n
    BY <2>2, <1>2
  <2>3. ASSUME NEW i \in 1..Len(q)
        PROVE  /\ q[i].from < q[i].to /\ q[i].to <= p /\ q[i].len > 0
               /\ \A j \in 1..Len(q) : i < j => q[i].to <= q[j].from
               /\ \E rec \in H : rec.item = i /\ rec.from = 0
               /\ \E rec \in H : rec.item = i /\ rec.from + rec.len = q[i].len
    <3>1. /\ q[i].from < q[i].to /\ q[i].to <= p /\ q[i].len > 0
          /\ \A j \in 1..Len(q) : i < j => q[i].to <= q[j].from
          /\ \E rec \in F : rec.item = i /\ rec.from = 0
          /\ \E rec \in F : rec.item = i /\ rec.from + rec.len = q[i].len
      BY <1>1 DEF PutOK
    <3>2. \E rec \in H : rec.item = i /\ rec.from = 0
      BY <3>1, <2>1
    <3> DEFINE k == q[i].len
    <3>3. \E rec \in F : rec.item = i /\ rec.from + rec.len = k
      BY <3>1
    <3> HIDE DEF k
    <3>4. \E rec \in H : rec.item = i /\ rec.from + rec.len = k
      BY <3>3, <2>2
    <3> QED BY <3>1, <3>2, <3>4 DEF k
  <2>4. ASSUME w.kind = "item", ~w.begin
        PROVE  /\ \E rec \in H : rec.item = Len(q) + 1 /\ rec.from = 0
               /\ \E rec \in H : rec.item = Len(q) + 1 /\ rec.from + rec.len = w.len - w.left
    <3>1. /\ \E rec \in F : rec.item = Len(q) + 1 /\ rec.from = 0
          /\ \E rec \in F : rec.item = Len(q) + 1 /\ rec.from + rec.len = w.len - w.left
      BY <2>4, <1>1 DEF PutOK
    <3> QED BY <3>1, <1>2
  <2> QED BY <2>3, <2>4 DEF PutOK
<1> QED BY <1>1, <1>5, <1>6, <1>7, <1>8, <1>9 DEF FileOK

-----------------------------------------------------------------------------
(* The file changes under the reader and the slave.                        *)

\* The numbers of a reader's state.
Reads(r) ==
  /\ r.pos \in Nat /\ r.size \in Nat /\ r.start \in Nat /\ r.todo \in Nat
  /\ r.offset \in Nat /\ r.last \in Nat

\* What a file with the records F, the end e, the published offset p and the items q
\* becomes, as far as a reader and a slave see it.
Later(F, e, p, q, F2, e2, p2, q2) ==
  /\ p <= e /\ p <= p2 /\ p2 \in Nat
  /\ Len(q) <= Len(q2)
  /\ \A i \in 1..Len(q) : q2[i] = q[i]
  /\ \A i \in 1..Len(q2) : i \notin 1..Len(q) => p < q2[i].to
  /\ \A x \in Nat : Clean(F, x) /\ x <= e => Clean(F2, x)
  /\ \A x \in Nat : Ready(F, x, e) => Ready(F2, x, e2)
  /\ \A x \in Nat : Ready(F, x, p) => Ready(F2, x, p2)
  /\ \A rec \in F : \E twin \in F2 :
       /\ twin.at = rec.at /\ twin.len = rec.len /\ twin.item = rec.item
       /\ twin.from = rec.from /\ twin.type \in {rec.type, "bad"}
  /\ \A rec \in F : rec.type = "bad" => rec \in F2
  /\ \A x \in Nat, rec \in F2 :
       /\ x <= p /\ Ready(F, x, p) /\ rec.at = Padded(x)
       /\ rec.item # 0 /\ rec.from > 0
       => \E own \in F : own.at = rec.at /\ own.item = rec.item /\ own.from = rec.from

LEMMA HurtKept ==
  ASSUME NEW F, NEW e, NEW p, NEW q, NEW F2, NEW e2, NEW p2, NEW q2,
         Later(F, e, p, q, F2, e2, p2, q2), NEW item, Hurt(F, item)
  PROVE  Hurt(F2, item)
BY DEF Later, Hurt

LEMMA ReaderKept ==
  ASSUME NEW F, NEW e \in Nat, NEW p \in Nat, NEW q, Items(q),
         NEW F2, NEW e2, NEW p2, NEW q2, Items(q2), Later(F, e, p, q, F2, e2, p2, q2),
         NEW r, Reads(r), NEW m, NEW s, ReaderOK(F, e, p, q, r, m, s)
  PROVE  ReaderOK(F2, e2, p2, q2, r, m, s)
<1>1. /\ At(r.pos, r.last) /\ (r.mode # "serve" => m = NoMsg)
      /\ r.mode \in {"serve", "consume"} => ServeOK(F, p, q, r, s)
      /\ r.mode = "seek" => SeekOK(F, e, p, q, r)
      /\ r.mode = "failed" => FailedOK(F, p, q, r)
  BY DEF ReaderOK
<1>2. /\ r.pos \in Nat /\ r.size \in Nat /\ r.start \in Nat /\ r.offset \in Nat
      /\ Len(q) \in Nat /\ Len(q2) \in Nat
  BY DEF Reads, Items
<1>3. /\ p <= e /\ p <= p2 /\ p2 \in Nat /\ Len(q) <= Len(q2)
      /\ \A i \in 1..Len(q) : q2[i] = q[i] /\ i \in 1..Len(q2)
  BY <1>2 DEF Later
<1>4. ASSUME ServeOK(F, p, q, r, s) PROVE ServeOK(F2, p2, q2, r, s)
  <2>1. r.pos = r.offset + r.size /\ r.offset <= p /\ Clean(F, r.offset)
    BY <1>4 DEF ServeOK
  <2>2. r.offset <= p2 /\ r.offset <= e
    BY <2>1, <1>2, <1>3
  <2>3. Clean(F2, r.offset)
    BY <2>1, <2>2, <1>2 DEF Later
  <2>4. r.mode = "consume" => r.offset < p2
    BY <1>2, <1>3, <1>4 DEF ServeOK
  <2>5. ASSUME r.scratch = << >> PROVE Ready(F2, r.pos, p2) /\ NotTorn(F2, q2, r)
    <3>1. r.size = 0 /\ Ready(F, r.pos, p) /\ NotTorn(F, q, r)
      BY <1>4, <2>5 DEF ServeOK
    <3>2. Ready(F2, r.pos, p2) /\ r.pos = r.offset
      BY <3>1, <2>1, <1>2 DEF Later
    <3>3. ASSUME NEW rec \in F2, rec.item # 0, rec.from > 0, rec.at = Padded(r.offset)
          PROVE  /\ rec.item \in 1..Len(q2)
                 /\ q2[rec.item].from < r.start \/ Hurt(F2, q2[rec.item])
      <4>1. PICK own \in F : own.at = rec.at /\ own.item = rec.item /\ own.from = rec.from
        BY <3>1, <3>2, <3>3, <2>1, <1>2 DEF Later
      <4>2. /\ rec.item \in 1..Len(q)
            /\ q[rec.item].from < r.start \/ Hurt(F, q[rec.item])
        BY <4>1, <3>1, <3>3 DEF NotTorn
      <4> QED BY <4>2, <1>3, HurtKept
    <3> QED BY <3>2, <3>3 DEF NotTorn
  <2>6. ASSUME r.scratch # << >> PROVE InsideOK(F2, q2, r)
    <3> DEFINE i == r.scratch[1].item
    <3>1. InsideOK(F, q, r)
      BY <1>4, <2>6 DEF ServeOK
    <3>2. i \in 1..Len(q2) /\ q2[i] = q[i]
      BY <3>1, <1>3 DEF InsideOK
    <3>3. \E rec \in F2 : /\ r.pos = Stop(rec) /\ rec.item = i
                          /\ rec.from + rec.len = Size(r.scratch)
      <4>1. PICK rec \in F : /\ r.pos = Stop(rec) /\ rec.item = i
                             /\ rec.from + rec.len = Size(r.scratch)
        BY <3>1 DEF InsideOK
      <4>2. PICK twin \in F2 : /\ twin.at = rec.at /\ twin.len = rec.len
                               /\ twin.item = rec.item /\ twin.from = rec.from
        BY DEF Later
      <4> QED BY <4>1, <4>2 DEF Stop
    <3> QED BY <3>1, <3>2, <3>3 DEF InsideOK
  <2>7. ASSUME NEW i \in 1..Len(q2), q2[i].from >= r.start, q2[i].to <= r.offset,
               ~Hurt(F2, q2[i])
        PROVE  i \in s
    <3>1. i \in 1..Len(q)
      BY <2>1, <2>7, <1>2 DEF Later, Items
    <3>2. q2[i] = q[i] /\ ~Hurt(F, q[i])
      BY <3>1, <2>7, <1>3, HurtKept
    <3> QED BY <3>1, <3>2, <2>7, <1>4 DEF ServeOK
  <2>8. r.mode = "serve" => r.scratch = << >>
    BY <1>4 DEF ServeOK
  <2>9. r.scratch = << >> => r.size = 0
    BY <1>4 DEF ServeOK
  <2> QED BY <2>1, <2>2, <2>3, <2>4, <2>5, <2>6, <2>7, <2>8, <2>9 DEF ServeOK
<1>5. ASSUME r.start <= p, AtPut(q2, r.start) PROVE AtPut(q, r.start)
  <2>1. PICK i \in 1..Len(q2) : r.start = q2[i].to
    BY <1>5 DEF AtPut
  <2>2. i \in 1..Len(q)
    BY <2>1, <1>2, <1>5 DEF Later
  <2> QED BY <2>1, <2>2, <1>3 DEF AtPut
<1>6. ASSUME SeekOK(F, e, p, q, r) PROVE SeekOK(F2, e2, p2, q2, r)
  <2>1. /\ r.start <= p /\ Clean(F, r.pos) /\ Ready(F, r.pos, e)
    BY <1>6 DEF SeekOK
  <2>2. r.pos <= e
    BY <2>1, <1>2 DEF Ready
  <2>3. Clean(F2, r.pos) /\ Ready(F2, r.pos, e2)
    BY <2>1, <2>2, <1>2 DEF Later
  <2>4. r.start <= p2
    BY <2>1, <1>2, <1>3
  <2> QED BY <2>1, <2>3, <2>4, <1>5, <1>6 DEF SeekOK
<1>7. ASSUME FailedOK(F, p, q, r) PROVE FailedOK(F2, p2, q2, r)
  <2>1. r.start <= p /\ r.start <= p2
    BY <1>2, <1>3, <1>7 DEF FailedOK
  <2>2. BadBefore(F, r.start) => BadBefore(F2, r.start)
    BY DEF BadBefore, Later
  <2> QED BY <2>1, <2>2, <1>5, <1>7 DEF FailedOK
<1> QED BY <1>1, <1>4, <1>6, <1>7 DEF ReaderOK

LEMMA MessageKept ==
  ASSUME NEW F, NEW e, NEW p, NEW q, Items(q), NEW F2, NEW e2, NEW p2, NEW q2, Items(q2),
         Later(F, e, p, q, F2, e2, p2, q2), NEW m, MessageOK(q, m)
  PROVE  MessageOK(q2, m)
<1>1. \A i \in 1..Len(q) : q2[i] = q[i] /\ i \in 1..Len(q2)
  BY DEF Later, Items
<1> QED BY <1>1 DEF MessageOK

LEMMA SlaveKept ==
  ASSUME NEW F \in SUBSET Record, NEW e, NEW p, NEW q, Items(q),
         NEW F2 \in SUBSET Record, NEW e2, NEW p2, NEW q2, Items(q2),
         Later(F, e, p, q, F2, e2, p2, q2),
         NEW G, NEW f, NEW b, NEW o, NEW w, NEW r, NEW m,
         SlaveOK(F, q, G, f, b, o, w, r, m)
  PROVE  SlaveOK(F2, q2, G, f, b, o, w, r, m)
<1>1. \A i \in 1..Len(q) : q2[i] = q[i] /\ i \in 1..Len(q2)
  BY DEF Later, Items
<1>2. ASSUME NEW rec \in G PROVE CopiedRecord(F2, q2, rec)
  <2>1. CopiedRecord(F, q, rec)
    BY DEF SlaveOK
  <2>2. CASE rec.type # "empty"
    <3>1. PICK own \in F : /\ own.item \in 1..Len(q)
                           /\ own.type \in {rec.type, "bad"}
                           /\ rec = [own EXCEPT !.type = rec.type]
      BY <2>1, <2>2 DEF CopiedRecord
    <3>2. PICK twin \in F2 :
            /\ twin.at = own.at /\ twin.len = own.len /\ twin.item = own.item
            /\ twin.from = own.from /\ twin.type \in {own.type, "bad"}
      BY DEF Later
    <3>3. own \in Record /\ twin \in Record
      OBVIOUS
    <3>4. [twin EXCEPT !.type = rec.type] = [own EXCEPT !.type = rec.type]
      BY <3>2, <3>3 DEF Record
    <3> QED BY <3>1, <3>2, <3>4, <1>1 DEF CopiedRecord
  <2> QED BY <2>2 DEF CopiedRecord
<1>3. CopyingOK(F, q, f, b, o, w) /\ StreamOK(q, o, w, r, m)
  BY DEF SlaveOK
<1>4. w.kind = "item" => w.item \in 1..Len(q) /\ q2[w.item] = q[w.item] /\ w.item \in 1..Len(q2)
  BY <1>1, <1>3 DEF CopyingOK
<1>5. CopyingOK(F2, q2, f, b, o, w)
  <2>1. ASSUME w.kind = "item", w.left > 0
        PROVE  \E rec \in F2 : /\ rec.at = Padded(f) /\ rec.item = w.item
                               /\ rec.from = w.len - w.left
    <3>1. PICK rec \in F : /\ rec.at = Padded(f) /\ rec.item = w.item
                           /\ rec.from = w.len - w.left
      BY <2>1, <1>3 DEF CopyingOK
    <3> QED BY <3>1 DEF Later
  <2> QED BY <2>1, <1>3, <1>4 DEF CopyingOK
<1>6. Target(q2, o, w) = Target(q, o, w)
  BY <1>4 DEF Target
<1>7. StreamOK(q2, o, w, r, m)
  BY <1>3, <1>6 DEF StreamOK
<1> QED BY <1>2, <1>5, <1>7 DEF SlaveOK

\* What is published has been written.
LEMMA BehindEnd ==
  ASSUME NEW F \in SUBSET Record, NEW e \in Nat, NEW b, NEW p \in Nat, NEW w \in WriteT,
         NEW q, Items(q), FileOK(F, e, b, p, w, q)
  PROVE  p <= e
<1>1. e = p + w.size /\ w.size \in Nat
  BY WriteFacts DEF FileOK, WriterOK
<1> QED BY <1>1

LEMMA EmitLater ==
  ASSUME NEW F \in SUBSET Record, NEW e \in Nat, NEW b, NEW p \in Nat, NEW w \in WriteT,
         NEW q, Items(q), FileOK(F, e, b, p, w, q),
         NEW nr \in Record, NEW v \in WriteT, Emits(e, w, nr, v)
  PROVE  Later(F, e, p, q, F \cup {nr}, Stop(nr), p, q)
<1> DEFINE G == F \cup {nr}
           d == Stop(nr)
           a == Padded(e)
<1>1. p <= e /\ e <= a /\ a \in Nat
  BY BehindEnd, PaddedFacts
<1>2. nr.at = a /\ d \in Nat /\ a < d /\ e < d
  <2>1. nr.at = a
    BY DEF Emits
  <2>2. Stop(nr) \in Nat /\ nr.at < Stop(nr)
    BY RecordFacts
  <2> QED BY <2>1, <2>2, <1>1
<1> HIDE DEF d, a
<1>3. ASSUME NEW x \in Nat, Clean(F, x), x <= e PROVE Clean(G, x)
  BY <1>1, <1>2, <1>3 DEF Clean
<1>4. ASSUME NEW x \in Nat, Ready(F, x, e) PROVE Ready(G, x, d)
  <2>1. CASE x = e
    BY <2>1, <1>2 DEF Ready, a
  <2>2. CASE x < e /\ \E rec \in F : rec.at = Padded(x) /\ rec.at < e
    <3>1. PICK rec \in F : rec.at = Padded(x) /\ rec.at < e
      BY <2>2
    <3>2. rec.at \in Nat
      BY FileRecord
    <3>3. rec.at < d /\ x < d
      BY <2>2, <3>1, <3>2, <1>2
    <3> QED BY <3>1, <3>3 DEF Ready
  <2> QED BY <1>4, <2>1, <2>2 DEF Ready
<1>5. ASSUME NEW x, Ready(F, x, p) PROVE Ready(G, x, p)
  BY <1>5 DEF Ready
<1>6. ASSUME NEW x \in Nat, NEW rec \in G, x <= p, Ready(F, x, p), rec.at = Padded(x),
             rec.item # 0, rec.from > 0, rec \notin F
      PROVE  FALSE
  <2>1. rec = nr /\ Padded(x) = a
    BY <1>2, <1>6
  <2>2. WriterOK(e, b, p, w, q) /\ Ready(F, p, e)
    BY DEF FileOK
  <2>3. nr.item = w.item /\ nr.from = w.len - w.left
    BY DEF Emits
  <2>4. /\ w.kind # "none" /\ w.kind # "blank" /\ w.kind \in {"none", "item", "blank"}
        /\ w.size \in Nat /\ w.len \in Nat
    <3>1. w.kind \in {"none", "item", "blank"} /\ w.size \in Nat /\ w.len \in Nat
      BY WriteFacts
    <3> QED BY <3>1, <2>1, <2>2, <2>3, <1>6 DEF WriterOK, NoWrite
  <2>5. ~w.begin
    <3> SUFFICES ASSUME w.begin PROVE FALSE
      OBVIOUS
    <3>1. w.left = w.len
      BY <2>2, <2>4 DEF WriterOK
    <3>2. w.len - w.left = 0
      BY <3>1, <2>4
    <3> QED BY <3>2, <2>1, <2>3, <1>6
  <2>6. w.size > 0 /\ e = p + w.size
    BY <2>2, <2>4, <2>5 DEF WriterOK
  <2>7. p < e
    BY <2>4, <2>6
  <2>8. Ready(F, x, e)
    <3>1. CASE x = p
      BY <3>1, <2>2
    <3>2. CASE x # p
      <4>1. PICK own \in F : own.at = Padded(x) /\ own.at < p /\ x < p
        BY <3>2, <1>6 DEF Ready
      <4>2. own.at \in Nat
        BY FileRecord
      <4>3. own.at < e /\ x < e
        BY <4>1, <4>2, <2>7
      <4> QED BY <4>1, <4>3 DEF Ready
    <3> QED BY <3>1, <3>2
  <2>9. x < e
    BY <2>7, <1>6
  <2>10. PICK own \in F : own.at = Padded(x) /\ own.at < e
    BY <2>8, <2>9 DEF Ready
  <2> QED BY <2>1, <2>10, <1>1
<1>7. p <= p /\ Len(q) <= Len(q)
  BY DEF Items
<1>8. \A rec \in F : rec \in G /\ rec.type \in {rec.type, "bad"}
  OBVIOUS
<1> QED BY <1>1, <1>3, <1>4, <1>5, <1>6, <1>7, <1>8 DEF Later, d

LEMMA IncLater ==
  ASSUME NEW F \in SUBSET Record, NEW e \in Nat, NEW b, NEW p \in Nat, NEW w \in WriteT,
         NEW q, Items(q), FileOK(F, e, b, p, w, q), Written(w),
         NEW r, Grows(q, w, p, e, r)
  PROVE  Later(F, e, p, q, F, e, e, r)
<1>1. p < e
  BY IncFile
<1>2. /\ Len(q) \in Nat /\ Len(q) <= Len(r)
      /\ \A i \in 1..Len(q) : r[i] = q[i]
      /\ \A i \in 1..Len(r) : i \notin 1..Len(q) => r[i].to = e
  <2>1. CASE w.kind = "item"
    BY <2>1 DEF Grows, Items
  <2>2. CASE w.kind # "item"
    BY <2>2 DEF Grows, Items
  <2> QED BY <2>1, <2>2
<1>3. ASSUME NEW x \in Nat, Ready(F, x, p) PROVE Ready(F, x, e)
  <2>1. CASE x = p
    BY <2>1 DEF FileOK
  <2>2. CASE x # p
    <3>1. PICK own \in F : own.at = Padded(x) /\ own.at < p /\ x < p
      BY <2>2, <1>3 DEF Ready
    <3>2. own.at \in Nat
      BY FileRecord
    <3>3. own.at < e /\ x < e
      BY <3>1, <3>2, <1>1
    <3> QED BY <3>1, <3>3 DEF Ready
  <2> QED BY <2>1, <2>2
<1>4. \A rec \in F : rec.type \in {rec.type, "bad"}
  OBVIOUS
<1>5. p <= e
  BY <1>1
<1>6. \A i \in 1..Len(r) : i \notin 1..Len(q) => p < r[i].to
  BY <1>1, <1>2
<1> QED BY <1>2, <1>3, <1>4, <1>5, <1>6 DEF Later

LEMMA DamageLater ==
  ASSUME NEW F \in SUBSET Record, NEW e \in Nat, NEW b, NEW p \in Nat, NEW w \in WriteT,
         NEW q, Items(q), FileOK(F, e, b, p, w, q),
         NEW x, NEW y, Hits(F, p, x, y), NEW H, H = (F \ {x}) \cup {y}
  PROVE  Later(F, e, p, q, H, e, p, q)
<1>1. p <= e /\ p <= p /\ Len(q) <= Len(q)
  BY BehindEnd DEF Items
<1>2. \A rec \in F : \E twin \in H :
        /\ twin.at = rec.at /\ twin.len = rec.len /\ twin.item = rec.item
        /\ twin.from = rec.from /\ Stop(twin) = Stop(rec)
        /\ twin.type \in {rec.type, "bad"}
  <2>1. /\ y \in H /\ Stop(y) = Stop(x) /\ y.type = "bad"
        /\ y.at = x.at /\ y.len = x.len /\ y.item = x.item /\ y.from = x.from
    BY DEF Hits, Stop
  <2>2. \A rec \in F : rec = x \/ rec \in H
    OBVIOUS
  <2> QED BY <2>1, <2>2
<1>3. ASSUME NEW twin \in H
      PROVE  \E rec \in F :
               /\ twin.at = rec.at /\ twin.item = rec.item
               /\ twin.from = rec.from /\ Stop(twin) = Stop(rec)
  BY DamageTwins
<1>4. \A rec \in F : rec.type = "bad" => rec \in H
  BY DamageTwins
<1>5. ASSUME NEW o, NEW l, Ready(F, o, l) PROVE Ready(H, o, l)
  BY <1>2, <1>5 DEF Ready
<1>6. ASSUME NEW o, Clean(F, o) PROVE Clean(H, o)
  BY <1>3, <1>6 DEF Clean
<1> QED BY <1>1, <1>2, <1>3, <1>4, <1>5, <1>6 DEF Later

-----------------------------------------------------------------------------
(* What a reader finds in the file.                                        *)

\* A record ends in its block.
LEMMA BlockEnd ==
  ASSUME NEW F \in SUBSET Record, NEW e \in Nat, NEW b, NEW p \in Nat, NEW w \in WriteT,
         NEW q, Items(q), FileOK(F, e, b, p, w, q), NEW rec \in F
  PROVE  /\ BlockStart(rec.at) \in Nat /\ BlockStart(rec.at) <= rec.at
         /\ BlockStart(rec.at) + Block \in Nat /\ Into(BlockStart(rec.at) + Block) = 0
         /\ Stop(rec) <= BlockStart(rec.at) + Block
<1> DEFINE s == BlockStart(rec.at)
<1>1. rec.at \in Nat /\ rec.len \in Nat /\ Into(rec.at) + Header + rec.len <= Block
  BY FileRecord DEF RecordOK, PlaceOK
<1>2. /\ s \in Nat /\ s = rec.at - Into(rec.at) /\ Into(s) = 0 /\ Into(rec.at) \in Nat
      /\ Block \in Nat /\ Header \in Nat
  BY <1>1, BlockStartFacts, Sizes
<1> HIDE DEF s
<1>3. Into(s + Block) = 0
  BY <1>2, SameBlock
<1>4. Stop(rec) = rec.at + Header + rec.len
  BY DEF Stop
<1> QED BY <1>1, <1>2, <1>3, <1>4 DEF s

LEMMA CleanBlock ==
  ASSUME NEW F \in SUBSET Record, NEW e \in Nat, NEW b, NEW p \in Nat, NEW w \in WriteT,
         NEW q, Items(q), FileOK(F, e, b, p, w, q), NEW x \in Nat, Into(x) = 0
  PROVE  Clean(F, x)
<1> SUFFICES ASSUME NEW rec \in F, ~(x <= rec.at) PROVE Stop(rec) <= x
  BY DEF Clean
<1>1. rec.at \in Nat /\ Stop(rec) \in Nat
  BY FileRecord
<1>2. BlockStart(rec.at) + Block <= x
  BY <1>1, NextBlock
<1> QED BY <1>1, <1>2, BlockEnd

LEMMA CleanStop ==
  ASSUME NEW F \in SUBSET Record, NEW e \in Nat, NEW b, NEW p \in Nat, NEW w \in WriteT,
         NEW q, Items(q), FileOK(F, e, b, p, w, q), NEW rec \in F
  PROVE  Clean(F, Stop(rec))
<1> SUFFICES ASSUME NEW other \in F
             PROVE  Stop(other) <= Stop(rec) \/ Stop(rec) <= other.at
  BY DEF Clean
<1>1. /\ Stop(rec) \in Nat /\ Stop(other) \in Nat /\ rec.at < Stop(rec)
      /\ rec.at \in Nat /\ other.at \in Nat
  BY FileRecord
<1>2. other = rec \/ Stop(other) <= rec.at \/ Stop(rec) <= other.at
  BY DEF FileOK, Disjoint
<1> QED BY <1>1, <1>2

\* A record that ends after a clean place is not before the padding there.
LEMMA RecordAfter ==
  ASSUME NEW F \in SUBSET Record, NEW e \in Nat, NEW b, NEW p \in Nat, NEW w \in WriteT,
         NEW q, Items(q), FileOK(F, e, b, p, w, q), NEW x \in Nat, Clean(F, x),
         NEW rec \in F, x < Stop(rec)
  PROVE  Padded(x) <= rec.at
<1>1. rec.at \in Nat /\ Stop(rec) \in Nat /\ Into(rec.at) + Header < Block
  BY FileRecord
<1>2. x <= rec.at
  BY <1>1 DEF Clean
<1> QED BY <1>1, <1>2, NotInPadding

\* The record with the end of an item.
LEMMA LastRecord ==
  ASSUME NEW F \in SUBSET Record, NEW e \in Nat, NEW b, NEW p \in Nat, NEW w \in WriteT,
         NEW q, Items(q), FileOK(F, e, b, p, w, q), NEW j \in 1..Len(q)
  PROVE  \E rec \in F : /\ rec.item = j /\ rec.from + rec.len = q[j].len
                        /\ Stop(rec) = q[j].to /\ q[j].from <= rec.at /\ rec.at < q[j].to
                        /\ rec.at \in Nat
<1>1. PICK rec \in F : rec.item = j /\ rec.from + rec.len = q[j].len
  BY DEF FileOK, PutOK
<1>2. rec.item # 0 /\ rec.item <= Len(q)
  BY <1>1 DEF Items
<1>3. PartOK(F, e, p, w, q, rec) /\ rec.at \in Nat /\ rec.at < Stop(rec)
  BY <1>2, FileRecord
<1>4. /\ Total(w, q, rec.item) = q[j].len /\ To(e, q, rec.item) = q[j].to
      /\ From(p, q, rec.item) = q[j].from
  BY <1>1, <1>2 DEF Total, To, From
<1>5. Stop(rec) = q[j].to /\ q[j].from <= rec.at
  BY <1>1, <1>3, <1>4 DEF PartOK
<1> QED BY <1>1, <1>3, <1>5

\* The record with the start of an item.
LEMMA FirstRecord ==
  ASSUME NEW F \in SUBSET Record, NEW e \in Nat, NEW b, NEW p \in Nat, NEW w \in WriteT,
         NEW q, Items(q), FileOK(F, e, b, p, w, q), NEW j \in 1..Len(q)
  PROVE  \E rec \in F : rec.item = j /\ rec.from = 0 /\ rec.at = Padded(q[j].from)
<1>1. PICK rec \in F : rec.item = j /\ rec.from = 0
  BY DEF FileOK, PutOK
<1>2. rec.item # 0 /\ rec.item <= Len(q)
  BY <1>1 DEF Items
<1>3. PartOK(F, e, p, w, q, rec)
  BY <1>2, FileRecord
<1>4. From(p, q, rec.item) = q[j].from
  BY <1>1, <1>2 DEF From
<1> QED BY <1>1, <1>3, <1>4 DEF PartOK

\* A part of an item that was put.
LEMMA PutPart ==
  ASSUME NEW F \in SUBSET Record, NEW e \in Nat, NEW b, NEW p \in Nat, NEW w \in WriteT,
         NEW q, Items(q), FileOK(F, e, b, p, w, q), NEW rec \in F, rec.item # 0, rec.at < p
  PROVE  /\ rec.item \in 1..Len(q)
         /\ q[rec.item].from <= rec.at /\ Stop(rec) <= q[rec.item].to
         /\ rec.len > 0 /\ rec.from + rec.len <= q[rec.item].len
         /\ Fills(Into(rec.at), q[rec.item].len - rec.from, rec.len)
         /\ rec.type \in {"bad", KindOf(rec.from, rec.len, q[rec.item].len)}
         /\ rec.from = 0 => rec.at = Padded(q[rec.item].from)
         /\ rec.from + rec.len = q[rec.item].len => Stop(rec) = q[rec.item].to
         /\ rec.from + rec.len < q[rec.item].len =>
              \E next \in F : /\ next.at = Padded(Stop(rec)) /\ next.at < p
                              /\ next.item = rec.item /\ next.from = rec.from + rec.len
<1> DEFINE i == rec.item
<1>1. PartOK(F, e, p, w, q, rec) /\ rec.at \in Nat /\ i \in Nat
  BY FileRecord
<1>2. i # Len(q) + 1
  <2> SUFFICES ASSUME i = Len(q) + 1 PROVE FALSE
    OBVIOUS
  <2>1. From(p, q, i) = p
    BY DEF From, Items
  <2> QED BY <2>1, <1>1 DEF PartOK
<1>3. i \in 1..Len(q) /\ i <= Len(q)
  BY <1>1, <1>2 DEF PartOK, Items
<1>4. /\ Total(w, q, i) = q[i].len /\ To(e, q, i) = q[i].to /\ From(p, q, i) = q[i].from
  BY <1>3 DEF Total, To, From
<1>5. ASSUME rec.from + rec.len < q[i].len
      PROVE  \E next \in F : /\ next.at = Padded(Stop(rec)) /\ next.at < p
                             /\ next.item = i /\ next.from = rec.from + rec.len
  <2>1. PICK next \in F : /\ next.at = Padded(Stop(rec))
                          /\ next.item = i /\ next.from = rec.from + rec.len
    BY <1>1, <1>2, <1>4, <1>5 DEF PartOK
  <2>2. PartOK(F, e, p, w, q, next)
    BY <2>1, FileRecord
  <2>3. next.at < p
    BY <2>1, <2>2, <1>3 DEF PartOK
  <2> QED BY <2>1, <2>3
<1> QED BY <1>1, <1>3, <1>4, <1>5 DEF PartOK

\* Who comes to the middle of an item at a clean place has passed its start.
LEMMA TornBefore ==
  ASSUME NEW F \in SUBSET Record, NEW e \in Nat, NEW b, NEW p \in Nat, NEW w \in WriteT,
         NEW q, Items(q), FileOK(F, e, b, p, w, q), NEW x \in Nat, Clean(F, x), x <= p,
         NEW rec \in F, rec.item # 0, rec.from > 0, rec.at = Padded(x)
  PROVE  rec.item \in 1..Len(q) /\ q[rec.item].from < x /\ rec.at < q[rec.item].to
<1> DEFINE i == rec.item
<1>1. PartOK(F, e, p, w, q, rec) /\ rec.at \in Nat /\ i \in Nat
  BY FileRecord
<1>2. PICK prev \in F : rec.at = Padded(Stop(prev)) /\ prev.item = i
  BY <1>1 DEF PartOK
<1>3. /\ PartOK(F, e, p, w, q, prev) /\ prev.at \in Nat /\ Stop(prev) \in Nat
      /\ prev.at < Stop(prev)
  BY <1>2, FileRecord
<1>4. ~(x < Stop(prev))
  <2> SUFFICES ASSUME x < Stop(prev) PROVE FALSE
    OBVIOUS
  <2>1. Padded(x) <= prev.at
    BY RecordAfter
  <2>2. Stop(prev) <= rec.at
    BY <1>2, <1>3, PaddedFacts
  <2> QED BY <2>1, <2>2, <1>1, <1>3
<1>5. prev.at < x
  BY <1>3, <1>4
<1>6. From(p, q, i) <= prev.at
  BY <1>2, <1>3 DEF PartOK
<1>7. i # Len(q) + 1
  <2> SUFFICES ASSUME i = Len(q) + 1 PROVE FALSE
    OBVIOUS
  <2>1. From(p, q, i) = p
    BY DEF From, Items
  <2> QED BY <2>1, <1>3, <1>5, <1>6
<1>8. i \in 1..Len(q) /\ i <= Len(q)
  BY <1>1, <1>7 DEF PartOK, Items
<1>9. From(p, q, i) = q[i].from /\ To(e, q, i) = q[i].to
  BY <1>8 DEF From, To
<1>10. q[i].from \in Nat /\ q[i].to \in Nat
  BY <1>8 DEF Items
<1>11. Stop(rec) <= q[i].to /\ rec.at < Stop(rec) /\ Stop(rec) \in Nat
  BY <1>1, <1>9, FileRecord DEF PartOK
<1> QED BY <1>3, <1>5, <1>6, <1>8, <1>9, <1>10, <1>11, <1>1, SMTT(30)

\* The part of an item after a record goes on where that record ends.
LEMMA PrevIs ==
  ASSUME NEW F \in SUBSET Record, NEW e \in Nat, NEW b, NEW p \in Nat, NEW w \in WriteT,
         NEW q, Items(q), FileOK(F, e, b, p, w, q), NEW rec \in F,
         NEW next \in F, next.item # 0, next.from > 0, next.at = Padded(Stop(rec))
  PROVE  next.item = rec.item /\ next.from = rec.from + rec.len
<1>1. PartOK(F, e, p, w, q, next)
  BY FileRecord
<1>2. PICK prev \in F : /\ next.at = Padded(Stop(prev)) /\ prev.item = next.item
                        /\ prev.from + prev.len = next.from
  BY <1>1 DEF PartOK
<1>3. /\ rec.at \in Nat /\ Stop(rec) \in Nat /\ rec.at < Stop(rec)
      /\ Into(rec.at) + Header < Block
      /\ prev.at \in Nat /\ Stop(prev) \in Nat /\ prev.at < Stop(prev)
      /\ Into(prev.at) + Header < Block
  BY FileRecord
<1>4. /\ Stop(rec) <= Padded(Stop(rec)) /\ Stop(prev) <= Padded(Stop(prev))
      /\ Padded(Stop(rec)) \in Nat /\ Padded(Stop(prev)) \in Nat
  BY <1>3, PaddedFacts
<1>5. prev = rec \/ Stop(prev) <= rec.at \/ Stop(rec) <= prev.at
  BY DEF FileOK, Disjoint
<1>6. ~(Stop(prev) <= rec.at)
  <2> SUFFICES ASSUME Stop(prev) <= rec.at PROVE FALSE
    OBVIOUS
  <2>1. Padded(Stop(prev)) <= rec.at
    BY <1>3, NotInPadding
  <2> QED BY <2>1, <1>2, <1>3, <1>4
<1>7. ~(Stop(rec) <= prev.at)
  <2> SUFFICES ASSUME Stop(rec) <= prev.at PROVE FALSE
    OBVIOUS
  <2>1. Padded(Stop(rec)) <= prev.at
    BY <1>3, NotInPadding
  <2> QED BY <2>1, <1>2, <1>3, <1>4
<1> QED BY <1>2, <1>5, <1>6, <1>7

-----------------------------------------------------------------------------
(* Steps of the reader.                                                    *)

\* A reader whose buffer holds a sequence of S.
ReaderT(S) ==
  [mode: {"off", "seek", "serve", "consume", "failed"}, pos: Nat, last: 0..Block,
   size: Nat, scratch: S, start: Nat, todo: Nat, offset: Nat]

LEMMA ReaderFields ==
  ASSUME NEW S, NEW r \in ReaderT(S)
  PROVE  Reads(r) /\ r.scratch \in S /\ r.last \in 0..Block
<1>1. /\ r.pos \in Nat /\ r.size \in Nat /\ r.start \in Nat /\ r.todo \in Nat
      /\ r.offset \in Nat /\ r.last \in 0..Block /\ r.scratch \in S
  BY DEF ReaderT
<1>2. r.last \in Nat
  BY <1>1, Sizes
<1> QED BY <1>1, <1>2 DEF Reads

\* The padding is skipped.
LEMMA NextRecordFacts ==
  ASSUME NEW S, NEW r \in ReaderT(S), At(r.pos, r.last)
  PROVE  /\ NextRecord(r) \in ReaderT(S)
         /\ NextRecord(r).pos = Padded(r.pos) /\ NextRecord(r).last = Into(Padded(r.pos))
         /\ NextRecord(r).size = r.size + (Padded(r.pos) - r.pos)
         /\ NextRecord(r).scratch = r.scratch /\ NextRecord(r).mode = r.mode
         /\ NextRecord(r).start = r.start /\ NextRecord(r).todo = r.todo
         /\ NextRecord(r).offset = r.offset
<1>1. /\ r.pos \in Nat /\ r.size \in Nat /\ r.last \in Nat /\ r.last <= Block
      /\ Block \in Nat /\ Header \in Nat
  BY Sizes DEF ReaderT
<1>2. /\ Block - r.last <= Header =>
           Padded(r.pos) = r.pos + (Block - r.last) /\ Into(Padded(r.pos)) = 0
      /\ Block - r.last > Header => Padded(r.pos) = r.pos /\ Into(r.pos) = r.last
  BY <1>1, AtFacts
<1>3. CASE Block - r.last <= Header
  <2> DEFINE n == [r EXCEPT !.pos = @ + (Block - r.last), !.size = @ + (Block - r.last),
                            !.last = 0]
  <2>1. NextRecord(r) = n
    BY <1>3 DEF NextRecord
  <2>2. /\ r.pos + (Block - r.last) \in Nat /\ r.size + (Block - r.last) \in Nat
        /\ 0 \in 0..Block
    BY <1>1
  <2>3. /\ n \in ReaderT(S) /\ n.pos = r.pos + (Block - r.last) /\ n.last = 0
        /\ n.size = r.size + (Block - r.last) /\ n.scratch = r.scratch /\ n.mode = r.mode
        /\ n.start = r.start /\ n.todo = r.todo /\ n.offset = r.offset
    BY <2>2 DEF ReaderT
  <2> HIDE DEF n
  <2>4. n.pos = Padded(r.pos) /\ n.last = Into(Padded(r.pos))
    BY <2>3, <1>2, <1>3
  <2>5. n.size = r.size + (Padded(r.pos) - r.pos)
    BY <2>3, <1>1, <1>2, <1>3
  <2> QED BY <2>1, <2>3, <2>4, <2>5
<1>4. CASE Block - r.last > Header
  <2>1. NextRecord(r) = r
    BY <1>1, <1>4 DEF NextRecord
  <2>2. r.size = r.size + (Padded(r.pos) - r.pos)
    BY <1>1, <1>2, <1>4
  <2> QED BY <2>1, <2>2, <1>2, <1>4
<1> QED BY <1>1, <1>3, <1>4

\* The record rec was read: the reader r is g then.
Got(r, rec, g) ==
  /\ g.pos = Stop(rec) /\ At(g.pos, g.last) /\ g.size = r.size + (Stop(rec) - r.pos)
  /\ g.scratch = Append(r.scratch, rec)
  /\ g.mode = r.mode /\ g.start = r.start /\ g.todo = r.todo /\ g.offset = r.offset

\* A reader is served next from x.
Resumes(r, x, n) ==
  /\ n.mode = "serve" /\ n.pos = x /\ n.offset = x /\ n.size = 0 /\ n.scratch = << >>
  /\ n.start = r.start

\* The buffer with one more part.
LEMMA FirstPart ==
  ASSUME NEW rec, rec.from = 0
  PROVE  /\ Parts(Append(<< >>, rec), rec.item)
         /\ Append(<< >>, rec)[1] = rec /\ Append(<< >>, rec) # << >>
         /\ Size(Append(<< >>, rec)) = rec.from + rec.len
<1>1. Append(<< >>, rec) = << rec >>
  OBVIOUS
<1>2. Len(<< rec >>) = 1 /\ << rec >>[1] = rec /\ << rec >> # << >>
  OBVIOUS
<1> QED BY <1>1, <1>2 DEF Parts, Size

LEMMA NextPart ==
  ASSUME NEW S, NEW t \in Seq(S), NEW rec \in S, NEW i, Parts(t, i),
         rec.item = i, rec.from = Size(t)
  PROVE  /\ Parts(Append(t, rec), i)
         /\ Append(t, rec)[1] = t[1] /\ Append(t, rec) # << >>
         /\ Size(Append(t, rec)) = rec.from + rec.len
<1> DEFINE a == Append(t, rec)
           n == Len(t)
<1>1. /\ a \in Seq(S) /\ Len(a) = n + 1 /\ n \in Nat /\ a[n + 1] = rec
      /\ \A k \in 1..n : a[k] = t[k]
  OBVIOUS
<1>2. t # << >> /\ n # 0
  BY DEF Parts
<1>3. t[1].item = i /\ t[1].from = 0
  BY DEF Parts
<1>4. \A k \in 1..n : t[k].item = i /\ (k > 1 => t[k].from = t[k-1].from + t[k-1].len)
  BY DEF Parts
<1>5. rec.from = t[n].from + t[n].len
  BY DEF Size
<1> HIDE DEF a, n
<1>6. a[1] = t[1] /\ a[n] = t[n]
  BY <1>1, <1>2
<1>7. ASSUME NEW k \in 1..n + 1
      PROVE  a[k].item = i /\ (k > 1 => a[k].from = a[k-1].from + a[k-1].len)
  <2>1. CASE k \in 1..n
    <3>1. k > 1 => k - 1 \in 1..n
      BY <2>1, <1>1
    <3> QED BY <2>1, <3>1, <1>1, <1>4
  <2>2. CASE k = n + 1
    <3>1. k - 1 = n
      BY <2>2, <1>1
    <3> QED BY <2>2, <3>1, <1>1, <1>5, <1>6
  <2> QED BY <2>1, <2>2, <1>1
<1>8. a # << >>
  <2>1. Len(a) # 0
    BY <1>1
  <2> QED BY <2>1
<1>9. Size(a) = rec.from + rec.len
  BY <1>1 DEF Size
<1>10. Parts(a, i)
  BY <1>1, <1>3, <1>6, <1>7, <1>8 DEF Parts
<1> QED BY <1>6, <1>8, <1>9, <1>10 DEF a

\* No two records start at the same place.
LEMMA SameAt ==
  ASSUME NEW F \in SUBSET Record, NEW e \in Nat, NEW b, NEW p \in Nat, NEW w \in WriteT,
         NEW q, Items(q), FileOK(F, e, b, p, w, q),
         NEW r1 \in F, NEW r2 \in F, r1.at = r2.at
  PROVE  r1 = r2
<1>1. /\ r1.at \in Nat /\ Stop(r1) \in Nat /\ r1.at < Stop(r1)
      /\ r2.at \in Nat /\ Stop(r2) \in Nat /\ r2.at < Stop(r2)
  BY FileRecord
<1>2. r1 = r2 \/ Stop(r1) <= r2.at \/ Stop(r2) <= r1.at
  BY DEF FileOK, Disjoint
<1> QED BY <1>1, <1>2

\* The record that Consume reads next: rec, the reader being r.
Comes(F, p, r, rec) ==
  /\ rec \in F /\ rec.at = Padded(r.pos) /\ rec.at < p
  /\ r.scratch # << >> => rec.item = r.scratch[1].item /\ rec.from = Size(r.scratch)

LEMMA ConsumeFinds ==
  ASSUME NEW F \in SUBSET Record, NEW e \in Nat, NEW b, NEW p \in Nat, NEW w \in WriteT,
         NEW q, Items(q), FileOK(F, e, b, p, w, q),
         NEW r, Reads(r), NEW s, ServeOK(F, p, q, r, s), r.mode = "consume"
  PROVE  \E rec \in F : Comes(F, p, r, rec)
<1>1. /\ r.pos \in Nat /\ r.offset \in Nat /\ r.size \in Nat
      /\ r.pos = r.offset + r.size /\ r.offset < p
  BY DEF Reads, ServeOK
<1>2. CASE r.scratch = << >>
  <2>1. r.size = 0 /\ Ready(F, r.pos, p)
    BY <1>2 DEF ServeOK
  <2>2. r.pos < p
    BY <2>1, <1>1
  <2> QED BY <2>1, <2>2, <1>1, <1>2 DEF Ready, Comes
<1>3. CASE r.scratch # << >>
  <2> DEFINE i == r.scratch[1].item
  <2>1. InsideOK(F, q, r)
    BY <1>3 DEF ServeOK
  <2>2. i \in 1..Len(q) /\ Size(r.scratch) < q[i].len
    BY <2>1 DEF InsideOK
  <2>3. PICK own \in F : /\ r.pos = Stop(own) /\ own.item = i
                         /\ own.from + own.len = Size(r.scratch)
    BY <2>1 DEF InsideOK
  <2>4. own.item # 0 /\ own.item <= Len(q)
    BY <2>2, <2>3 DEF Items
  <2>5. own.at < p
    BY <2>4, FileRecord DEF PartOK
  <2>6. PICK next \in F : /\ next.at = Padded(Stop(own)) /\ next.at < p
                          /\ next.item = own.item /\ next.from = own.from + own.len
    <3>1. own.from + own.len < q[own.item].len
      BY <2>2, <2>3
    <3> QED BY <3>1, <2>4, <2>5, PutPart
  <2> QED BY <2>3, <2>6 DEF Comes
<1> QED BY <1>2, <1>3

LEMMA KindFacts ==
  ASSUME NEW from \in Nat, NEW len \in Nat, NEW total \in Nat, from + len <= total
  PROVE  /\ KindOf(from, len, total) = "full" => from = 0 /\ from + len = total
         /\ KindOf(from, len, total) = "first" => from = 0 /\ from + len < total
         /\ KindOf(from, len, total) = "middle" => from > 0 /\ from + len < total
         /\ KindOf(from, len, total) = "last" => from > 0 /\ from + len = total
         /\ KindOf(from, len, total) \in {"full", "first", "middle", "last"}
BY DEF KindOf

\* What the types of records mean for a record that was read.
LEMMA ReadKind ==
  ASSUME NEW F \in SUBSET Record, NEW e \in Nat, NEW b, NEW p \in Nat, NEW w \in WriteT,
         NEW q, Items(q), FileOK(F, e, b, p, w, q), NEW rec \in F, rec.at < p
  PROVE  /\ rec.type \in {"full", "first", "middle", "last"} =>
              rec.item # 0 /\ rec.item \in 1..Len(q)
         /\ rec.type = "full" => rec.from = 0 /\ rec.from + rec.len = q[rec.item].len
         /\ rec.type = "first" => rec.from = 0 /\ rec.from + rec.len < q[rec.item].len
         /\ rec.type = "middle" => rec.from > 0 /\ rec.from + rec.len < q[rec.item].len
         /\ rec.type = "last" => rec.from > 0 /\ rec.from + rec.len = q[rec.item].len
         /\ rec.type = "empty" => rec.item = 0
         /\ rec.type \in {"full", "first", "middle", "last", "empty", "bad"}
<1>1. rec.from \in Nat /\ rec.len \in Nat /\ rec.item \in Nat
  BY FileRecord
<1>2. CASE rec.item = 0
  <2>1. rec.type \in {"empty", "bad"}
    BY <1>2, FileRecord DEF RecordOK
  <2> QED BY <2>1, <1>2
<1>3. CASE rec.item # 0
  <2>1. /\ rec.item \in 1..Len(q) /\ rec.from + rec.len <= q[rec.item].len
        /\ rec.type \in {"bad", KindOf(rec.from, rec.len, q[rec.item].len)}
    BY <1>3, PutPart
  <2>2. q[rec.item].len \in Nat
    BY <2>1 DEF Items
  <2>3. /\ rec.type = "full" => rec.from = 0 /\ rec.from + rec.len = q[rec.item].len
        /\ rec.type = "first" => rec.from = 0 /\ rec.from + rec.len < q[rec.item].len
        /\ rec.type = "middle" => rec.from > 0 /\ rec.from + rec.len < q[rec.item].len
        /\ rec.type = "last" => rec.from > 0 /\ rec.from + rec.len = q[rec.item].len
        /\ rec.type # "empty"
        /\ rec.type = "bad" \/ rec.type \in {"full", "first", "middle", "last"}
    <3> DEFINE k == KindOf(rec.from, rec.len, q[rec.item].len)
    <3>1. /\ k = "full" => rec.from = 0 /\ rec.from + rec.len = q[rec.item].len
          /\ k = "first" => rec.from = 0 /\ rec.from + rec.len < q[rec.item].len
          /\ k = "middle" => rec.from > 0 /\ rec.from + rec.len < q[rec.item].len
          /\ k = "last" => rec.from > 0 /\ rec.from + rec.len = q[rec.item].len
          /\ k \in {"full", "first", "middle", "last"}
      BY <2>1, <2>2, <1>1, KindFacts
    <3>2. rec.type = "bad" \/ rec.type = k
      BY <2>1
    <3> HIDE DEF k
    <3> QED BY <3>1, <3>2
  <2> QED BY <2>1, <2>3, <1>3
<1> QED BY <1>2, <1>3

\* A buffer of records.
Buffer(r) == r.scratch \in Seq(Record)

LEMMA BufferAppend ==
  ASSUME NEW r, Buffer(r), NEW rec \in Record, NEW i, Parts(r.scratch, i), rec.item = i,
         rec.from = Size(r.scratch)
  PROVE  /\ Parts(Append(r.scratch, rec), i)
         /\ Append(r.scratch, rec)[1] = r.scratch[1] /\ Append(r.scratch, rec) # << >>
         /\ Size(Append(r.scratch, rec)) = rec.from + rec.len
BY NextPart DEF Buffer

\* The buffer holds an item, or the start of one, after rec was read.
LEMMA ReadPart ==
  ASSUME NEW F \in SUBSET Record, NEW e \in Nat, NEW b, NEW p \in Nat, NEW w \in WriteT,
         NEW q, Items(q), FileOK(F, e, b, p, w, q),
         NEW r, Reads(r), Buffer(r), NEW s, ServeOK(F, p, q, r, s), r.mode = "consume",
         NEW rec, Comes(F, p, r, rec), NEW g, Got(r, rec, g),
         Consumed(rec.type, r.scratch # << >>) \in {"more", "ok"}
  PROVE  /\ g.scratch # << >> /\ g.scratch[1].item = rec.item /\ rec.item \in 1..Len(q)
         /\ rec.item # 0
         /\ Parts(g.scratch, rec.item) /\ Size(g.scratch) = rec.from + rec.len
         /\ Padded(r.offset) = Padded(q[rec.item].from)
         /\ Consumed(rec.type, r.scratch # << >>) = "more" =>
              rec.from + rec.len < q[rec.item].len
         /\ Consumed(rec.type, r.scratch # << >>) = "ok" =>
              rec.from + rec.len = q[rec.item].len
<1>1. /\ rec \in F /\ rec.at = Padded(r.pos) /\ rec.at < p /\ rec \in Record
      /\ r.scratch # << >> => rec.item = r.scratch[1].item /\ rec.from = Size(r.scratch)
  BY DEF Comes
<1>2. /\ rec.type \in {"full", "first", "middle", "last"} =>
           rec.item # 0 /\ rec.item \in 1..Len(q)
      /\ rec.type = "full" => rec.from = 0 /\ rec.from + rec.len = q[rec.item].len
      /\ rec.type = "first" => rec.from = 0 /\ rec.from + rec.len < q[rec.item].len
      /\ rec.type = "middle" => rec.from > 0 /\ rec.from + rec.len < q[rec.item].len
      /\ rec.type = "last" => rec.from > 0 /\ rec.from + rec.len = q[rec.item].len
      /\ rec.type \in {"full", "first", "middle", "last", "empty", "bad"}
  BY <1>1, ReadKind
<1>3. /\ r.scratch = << >> =>
           \/ rec.type = "full" /\ Consumed(rec.type, r.scratch # << >>) = "ok"
           \/ rec.type = "first" /\ Consumed(rec.type, r.scratch # << >>) = "more"
      /\ r.scratch # << >> =>
           \/ rec.type = "last" /\ Consumed(rec.type, r.scratch # << >>) = "ok"
           \/ rec.type = "middle" /\ Consumed(rec.type, r.scratch # << >>) = "more"
  BY <1>2 DEF Consumed
<1>4. g.scratch = Append(r.scratch, rec)
  BY DEF Got
<1>5. CASE r.scratch = << >>
  <2>1. rec.from = 0 /\ rec.item # 0 /\ rec.item \in 1..Len(q)
    BY <1>2, <1>3, <1>5
  <2>2. /\ Parts(g.scratch, rec.item) /\ g.scratch[1] = rec /\ g.scratch # << >>
        /\ Size(g.scratch) = rec.from + rec.len
    BY <2>1, <1>4, <1>5, FirstPart
  <2>3. Padded(r.offset) = Padded(q[rec.item].from)
    <3>1. rec.at = Padded(q[rec.item].from)
      BY <2>1, <1>1, PutPart
    <3>2. r.pos = r.offset
      <4>1. r.pos = r.offset + r.size /\ r.size = 0 /\ r.offset \in Nat
        BY <1>5 DEF ServeOK, Reads
      <4> QED BY <4>1
    <3> QED BY <3>1, <3>2, <1>1
  <2> QED BY <2>1, <2>2, <2>3, <1>2, <1>3, <1>5
<1>6. CASE r.scratch # << >>
  <2>1. InsideOK(F, q, r)
    BY <1>6 DEF ServeOK
  <2>2. /\ rec.item \in 1..Len(q) /\ rec.item = r.scratch[1].item
        /\ Parts(r.scratch, rec.item) /\ Padded(r.offset) = Padded(q[rec.item].from)
    BY <2>1, <1>1, <1>6 DEF InsideOK
  <2>3. /\ Parts(g.scratch, rec.item) /\ g.scratch[1] = r.scratch[1]
        /\ g.scratch # << >> /\ Size(g.scratch) = rec.from + rec.len
    BY <2>2, <1>1, <1>4, <1>6, BufferAppend
  <2> QED BY <2>2, <2>3, <1>2, <1>3, <1>6
<1> QED BY <1>5, <1>6

\* Consume goes on.
LEMMA ReadMore ==
  ASSUME NEW F \in SUBSET Record, NEW e \in Nat, NEW b, NEW p \in Nat, NEW w \in WriteT,
         NEW q, Items(q), FileOK(F, e, b, p, w, q),
         NEW r, Reads(r), Buffer(r), NEW s, ServeOK(F, p, q, r, s), r.mode = "consume",
         NEW rec, Comes(F, p, r, rec), NEW g, Got(r, rec, g),
         Consumed(rec.type, r.scratch # << >>) = "more"
  PROVE  ServeOK(F, p, q, g, s)
<1>1. /\ g.pos = Stop(rec) /\ g.size = r.size + (Stop(rec) - r.pos)
      /\ g.mode = "consume" /\ g.start = r.start /\ g.offset = r.offset
  BY DEF Got
<1>2. rec \in F /\ Stop(rec) \in Nat
  BY FileRecord DEF Comes
<1>3. /\ r.pos = r.offset + r.size /\ r.offset <= p /\ Clean(F, r.offset) /\ r.offset < p
      /\ r.offset \in Nat /\ r.size \in Nat
  BY DEF ServeOK, Reads
<1>4. g.pos = g.offset + g.size
  BY <1>1, <1>2, <1>3
<1>5. /\ g.scratch # << >> /\ g.scratch[1].item = rec.item /\ rec.item \in 1..Len(q)
      /\ Parts(g.scratch, rec.item) /\ Size(g.scratch) = rec.from + rec.len
      /\ Padded(r.offset) = Padded(q[rec.item].from)
      /\ rec.from + rec.len < q[rec.item].len
  BY ReadPart
<1>6. InsideOK(F, q, g)
  BY <1>1, <1>2, <1>5 DEF InsideOK
<1>7. \A i \in 1..Len(q) :
        q[i].from >= g.start /\ q[i].to <= g.offset /\ ~Hurt(F, q[i]) => i \in s
  BY <1>1 DEF ServeOK
<1> QED BY <1>1, <1>3, <1>4, <1>5, <1>6, <1>7 DEF ServeOK

\* A reader in an item has passed the items before it.
LEMMA ItemsBefore ==
  ASSUME NEW F \in SUBSET Record, NEW e \in Nat, NEW b, NEW p \in Nat, NEW w \in WriteT,
         NEW q, Items(q), FileOK(F, e, b, p, w, q), NEW x \in Nat, Clean(F, x),
         NEW i \in 1..Len(q), NEW j \in 1..Len(q), Padded(x) = Padded(q[i].from),
         x < q[j].to
  PROVE  ~(j < i)
<1> SUFFICES ASSUME j < i PROVE FALSE
  OBVIOUS
<1>1. q[j].to <= q[i].from
  BY DEF FileOK, PutOK
<1>2. q[j].to \in Nat /\ q[i].from \in Nat
  BY DEF Items
<1>3. PICK rec \in F : Stop(rec) = q[j].to /\ rec.at < q[j].to /\ rec.at \in Nat
  BY LastRecord
<1>4. Padded(x) <= rec.at
  BY <1>3, RecordAfter
<1>5. q[i].from <= Padded(q[i].from) /\ Padded(q[i].from) \in Nat
  BY <1>2, PaddedFacts
<1> QED BY <1>1, <1>2, <1>3, <1>4, <1>5

LEMMA ReadOk ==
  ASSUME NEW F \in SUBSET Record, NEW e \in Nat, NEW b, NEW p \in Nat, NEW w \in WriteT,
         NEW q, Items(q), FileOK(F, e, b, p, w, q),
         NEW r, Reads(r), Buffer(r), NEW s, ServeOK(F, p, q, r, s), r.mode = "consume",
         NEW rec, Comes(F, p, r, rec), NEW g, Got(r, rec, g),
         Consumed(rec.type, r.scratch # << >>) = "ok",
         NEW n, Resumes(r, Stop(rec), n)
  PROVE  ServeOK(F, p, q, n, s \cup {rec.item}) /\ Stop(rec) = q[rec.item].to
<1> DEFINE i == rec.item
           x == Stop(rec)
<1>1. /\ rec \in F /\ rec.at < p /\ x \in Nat /\ rec.at \in Nat
      /\ x <= p \/ p <= rec.at
  BY FileRecord DEF Comes
<1>2. /\ i \in 1..Len(q) /\ i # 0 /\ Padded(r.offset) = Padded(q[i].from)
      /\ rec.from + rec.len = q[i].len
  BY ReadPart
<1>3. x = q[i].to
  BY <1>1, <1>2, PutPart
<1>4. /\ n.mode = "serve" /\ n.pos = x /\ n.offset = x /\ n.size = 0 /\ n.scratch = << >>
      /\ n.start = r.start
  BY DEF Resumes
<1>5. x <= p /\ Clean(F, x) /\ x = x + 0
  BY <1>1, CleanStop
<1>6. Ready(F, x, p)
  BY <1>1 DEF FileOK, Tiled
<1>7. NotTorn(F, q, n)
  <2> SUFFICES ASSUME NEW next \in F, next.item # 0, next.from > 0, next.at = Padded(x)
               PROVE  FALSE
    BY <1>4 DEF NotTorn
  <2>1. next.item = i /\ next.from = q[i].len
    BY <1>1, <1>2, PrevIs
  <2>2. PartOK(F, e, p, w, q, next) /\ next.from \in Nat /\ next.len \in Nat
    BY FileRecord
  <2>3. i <= Len(q) /\ Total(w, q, i) = q[i].len
    BY <1>2 DEF Total, Items
  <2>4. next.len > 0 /\ next.from + next.len <= q[i].len
    BY <2>1, <2>2, <2>3 DEF PartOK
  <2> QED BY <2>1, <2>2, <2>4
<1>8. ASSUME NEW j \in 1..Len(q), q[j].from >= r.start, q[j].to <= x, ~Hurt(F, q[j])
      PROVE  j \in s \cup {i}
  <2>1. r.offset \in Nat /\ q[j].to \in Nat /\ q[j].from \in Nat /\ i \in Nat /\ j \in Nat
    BY <1>2 DEF Reads, Items
  <2>2. CASE q[j].to <= r.offset
    BY <2>2, <1>8 DEF ServeOK
  <2>3. CASE ~(q[j].to <= r.offset)
    <3>1. ~(j < i)
      <4>1. r.offset < q[j].to /\ Clean(F, r.offset)
        BY <2>1, <2>3 DEF ServeOK
      <4> QED BY <4>1, <1>2, <2>1, ItemsBefore
    <3>2. ~(i < j)
      <4> SUFFICES ASSUME i < j PROVE FALSE
        OBVIOUS
      <4>1. q[i].to <= q[j].from /\ q[j].from < q[j].to
        BY <1>2 DEF FileOK, PutOK
      <4> QED BY <4>1, <1>1, <1>3, <1>8, <2>1
    <3> QED BY <3>1, <3>2, <2>1
  <2> QED BY <2>2, <2>3
<1> HIDE DEF x, i
<1>9. ServeOK(F, p, q, n, s \cup {i})
  BY <1>4, <1>5, <1>6, <1>7, <1>8 DEF ServeOK
<1> QED BY <1>3, <1>9 DEF x, i

\* The record that ends an item is read.
LEMMA ReadEnd ==
  ASSUME NEW F \in SUBSET Record, NEW e \in Nat, NEW b, NEW p \in Nat, NEW w \in WriteT,
         NEW q, Items(q), FileOK(F, e, b, p, w, q), NEW x \in Nat, Clean(F, x),
         NEW rec \in F, rec.at = Padded(x), NEW j \in 1..Len(q), x < q[j].to,
         q[j].to <= Stop(rec)
  PROVE  rec.item = j /\ rec.from + rec.len = q[j].len
<1>1. PICK last \in F : /\ last.item = j /\ last.from + last.len = q[j].len
                        /\ Stop(last) = q[j].to /\ last.at < q[j].to /\ last.at \in Nat
  BY LastRecord
<1>2. Padded(x) <= last.at
  BY <1>1, RecordAfter
<1>3. rec.at \in Nat /\ Stop(rec) \in Nat /\ q[j].to \in Nat
  BY FileRecord DEF Items
<1>4. last = rec \/ Stop(last) <= rec.at \/ Stop(rec) <= last.at
  BY DEF FileOK, Disjoint
<1>5. last = rec
  BY <1>1, <1>2, <1>3, <1>4
<1> QED BY <1>1, <1>5

\* A gap is skipped.
LEMMA ReadSkip ==
  ASSUME NEW F \in SUBSET Record, NEW e \in Nat, NEW b, NEW p \in Nat, NEW w \in WriteT,
         NEW q, Items(q), FileOK(F, e, b, p, w, q),
         NEW r, Reads(r), NEW s, ServeOK(F, p, q, r, s), r.mode = "consume",
         NEW rec, Comes(F, p, r, rec),
         Consumed(rec.type, r.scratch # << >>) = "incomplete",
         NEW n, Resumes(r, Stop(rec), n)
  PROVE  ServeOK(F, p, q, n, s)
<1> DEFINE i == rec.item
           x == Stop(rec)
<1>1. /\ rec \in F /\ rec.at < p /\ x \in Nat /\ rec.at \in Nat
      /\ x <= p \/ p <= rec.at
      /\ rec.from \in Nat /\ rec.len \in Nat
  BY FileRecord DEF Comes
<1>2. /\ rec.type \in {"full", "first", "middle", "last"} => i # 0 /\ i \in 1..Len(q)
      /\ rec.type = "full" => rec.from = 0
      /\ rec.type = "first" => rec.from = 0
      /\ rec.type = "middle" => rec.from > 0
      /\ rec.type = "last" => rec.from > 0
      /\ rec.type = "empty" => i = 0
      /\ rec.type \in {"full", "first", "middle", "last", "empty", "bad"}
  BY <1>1, ReadKind
<1>3. r.scratch = << >>
  <2> SUFFICES ASSUME r.scratch # << >> PROVE FALSE
    OBVIOUS
  <2>1. i = r.scratch[1].item /\ rec.from = Size(r.scratch)
    BY DEF Comes
  <2>2. InsideOK(F, q, r)
    BY DEF ServeOK
  <2>3. PICK own \in F : own.item = i /\ own.from + own.len = rec.from
    BY <2>1, <2>2 DEF InsideOK
  <2>4. i \in 1..Len(q) /\ i # 0
    BY <2>1, <2>2 DEF InsideOK, Items
  <2>5. own.len > 0 /\ own.from \in Nat /\ own.len \in Nat
    BY <2>3, <2>4, FileRecord DEF PartOK
  <2>6. rec.from > 0
    BY <2>3, <2>5
  <2> QED BY <2>4, <2>6, <1>1, <1>2 DEF Consumed
<1>4. \/ rec.type = "empty" /\ i = 0
      \/ i # 0 /\ i \in 1..Len(q) /\ rec.from > 0
  BY <1>2, <1>3 DEF Consumed
<1>5. /\ r.offset \in Nat /\ Clean(F, r.offset) /\ NotTorn(F, q, r)
      /\ rec.at = Padded(r.offset)
  <2>1. /\ r.pos = r.offset + r.size /\ r.size = 0 /\ r.offset \in Nat /\ NotTorn(F, q, r)
        /\ Clean(F, r.offset) /\ rec.at = Padded(r.pos)
    BY <1>3 DEF ServeOK, Reads, Comes
  <2>2. r.pos = r.offset
    BY <2>1
  <2> QED BY <2>1, <2>2
<1>6. i # 0 => i \in 1..Len(q) /\ (q[i].from < r.start \/ Hurt(F, q[i]))
  BY <1>1, <1>4, <1>5 DEF NotTorn
<1>7. /\ n.mode = "serve" /\ n.pos = x /\ n.offset = x /\ n.size = 0 /\ n.scratch = << >>
      /\ n.start = r.start
  BY DEF Resumes
<1>8. x <= p /\ Clean(F, x) /\ x = x + 0
  BY <1>1, CleanStop
<1>9. Ready(F, x, p)
  BY <1>1 DEF FileOK, Tiled
<1>10. NotTorn(F, q, n)
  <2> SUFFICES ASSUME NEW next \in F, next.item # 0, next.from > 0, next.at = Padded(x)
               PROVE  /\ next.item \in 1..Len(q)
                      /\ q[next.item].from < r.start \/ Hurt(F, q[next.item])
    BY <1>7 DEF NotTorn
  <2>1. next.item = i
    BY <1>1, PrevIs
  <2> QED BY <2>1, <1>6
<1>11. ASSUME NEW j \in 1..Len(q), q[j].from >= r.start, q[j].to <= x, ~Hurt(F, q[j])
       PROVE  j \in s
  <2>1. q[j].to \in Nat /\ q[j].from \in Nat /\ j \in Nat /\ j # 0 /\ r.start \in Nat
    BY DEF Reads, Items
  <2>2. CASE q[j].to <= r.offset
    BY <2>2, <1>11 DEF ServeOK
  <2>3. CASE ~(q[j].to <= r.offset)
    <3>1. r.offset < q[j].to
      BY <2>1, <2>3, <1>5
    <3>2. i = j
      <4> DEFINE o == r.offset
      <4>1. /\ rec \in F /\ rec.at = Padded(o) /\ q[j].to <= Stop(rec)
            /\ o \in Nat /\ Clean(F, o) /\ j \in 1..Len(q) /\ o < q[j].to
        BY <1>1, <1>5, <1>11, <3>1
      <4> HIDE DEF o
      <4> QED BY <4>1, ReadEnd
    <3>3. q[j].from < r.start
      BY <3>2, <2>1, <1>6, <1>11
    <3> QED BY <3>3, <2>1, <1>11
  <2> QED BY <2>2, <2>3
<1> HIDE DEF x, i
<1> QED BY <1>7, <1>8, <1>9, <1>10, <1>11 DEF ServeOK

LEMMA InBlock ==
  ASSUME NEW s \in Nat, Into(s) = 0, NEW x \in Nat, s <= x, x < s + Block
  PROVE  BlockStart(x) = s
<1> DEFINE n == x - s
<1>1. n \in Nat /\ Into(s) + n < Block /\ x = s + n /\ Into(s) + n = n
  BY Sizes
<1>2. Into(s + n) = Into(s) + n
  BY <1>1, SameBlock
<1>3. BlockStart(x) = x - Into(x)
  BY BlockStartFacts
<1>4. Into(x) = n
  BY <1>1, <1>2
<1> QED BY <1>1, <1>3, <1>4

LEMMA HurtBy ==
  ASSUME NEW F \in SUBSET Record, NEW e \in Nat, NEW b, NEW p \in Nat, NEW w \in WriteT,
         NEW q, Items(q), FileOK(F, e, b, p, w, q), NEW rec \in F, rec.type = "bad",
         NEW item, item.from \in Nat, item.to \in Nat, NEW o \in Nat,
         BlockStart(rec.at) <= o, o < BlockStart(rec.at) + Block,
         item.from <= o, o < item.to
  PROVE  Hurt(F, item)
<1>1. BlockStart(rec.at) \in Nat /\ rec.at \in Nat
  BY BlockEnd, FileRecord
<1>2. Into(BlockStart(rec.at)) = 0
  BY <1>1, BlockStartFacts
<1>3. BlockStart(o) = BlockStart(rec.at)
  BY <1>1, <1>2, InBlock
<1>4. o \in item.from..(item.to - 1)
  OBVIOUS
<1> QED BY <1>3, <1>4 DEF Hurt

\* The rest of a damaged block is skipped.
LEMMA ReadError ==
  ASSUME NEW F \in SUBSET Record, NEW e \in Nat, NEW b, NEW p \in Nat, NEW w \in WriteT,
         NEW q, Items(q), FileOK(F, e, b, p, w, q),
         NEW r, Reads(r), NEW s, ServeOK(F, p, q, r, s), r.mode = "consume",
         NEW rec, Comes(F, p, r, rec),
         Consumed(rec.type, r.scratch # << >>) = "ioerror",
         NEW n, Resumes(r, BlockStart(rec.at) + Block, n), n.offset <= p
  PROVE  ServeOK(F, p, q, n, s)
<1> DEFINE x == BlockStart(rec.at) + Block
           o == r.offset
<1>1. /\ rec \in F /\ rec.at < p /\ rec.at \in Nat /\ RecordOK(F, e, p, w, q, rec)
      /\ Stop(rec) \in Nat /\ rec.at < Stop(rec)
  BY FileRecord DEF Comes
<1>2. rec.type = "bad"
  <2>1. rec.type \in {"full", "first", "middle", "last", "empty", "bad"}
    BY <1>1, ReadKind
  <2> QED BY <2>1 DEF Consumed
<1>3. /\ x \in Nat /\ Into(x) = 0 /\ x <= p /\ BlockStart(rec.at) \in Nat
      /\ BlockStart(rec.at) <= rec.at /\ Stop(rec) <= x
  BY <1>1, BlockEnd DEF Resumes
<1>4. x > BlockStart(rec.at) /\ Block \in Nat
  BY <1>3, Sizes
<1>5. /\ n.mode = "serve" /\ n.pos = x /\ n.offset = x /\ n.size = 0 /\ n.scratch = << >>
      /\ n.start = r.start
  BY DEF Resumes
<1>6. o \in Nat /\ Clean(F, o) /\ r.start \in Nat
  BY DEF Reads, ServeOK
<1>7. ASSUME NEW item, item.from \in Nat, item.to \in Nat, NEW y \in Nat,
             BlockStart(rec.at) <= y, y < x, item.from <= y, y < item.to
      PROVE  Hurt(F, item)
  BY <1>1, <1>2, <1>7, HurtBy
<1>8. Clean(F, x) /\ Ready(F, x, p) /\ x = x + 0
  <2>1. Clean(F, x)
    BY <1>3, CleanBlock
  <2>2. x \in 0..p /\ Tiled(F, p)
    BY <1>3 DEF FileOK
  <2> QED BY <2>1, <2>2, <1>3 DEF Tiled
<1> HIDE DEF x, o
<1>9. NotTorn(F, q, n)
  <2> SUFFICES ASSUME NEW next \in F, next.item # 0, next.from > 0, next.at = Padded(x)
               PROVE  next.item \in 1..Len(q) /\ Hurt(F, q[next.item])
    BY <1>5 DEF NotTorn
  <2> DEFINE i == next.item
  <2>1. i \in 1..Len(q) /\ q[i].from < x /\ next.at < q[i].to
    BY <1>3, <1>8, TornBefore
  <2>2. q[i].from \in Nat /\ q[i].to \in Nat
    BY <2>1 DEF Items
  <2>3. x <= next.at /\ next.at \in Nat
    BY <1>3, PaddedFacts
  <2> DEFINE y == x - 1
  <2>4. y \in Nat /\ BlockStart(rec.at) <= y /\ y < x /\ q[i].from <= y /\ y < q[i].to
    BY <1>3, <1>4, <2>1, <2>2, <2>3, SMTT(30)
  <2> HIDE DEF y
  <2> QED BY <2>1, <2>2, <2>4, <1>7
<1>10. ASSUME NEW j \in 1..Len(q), q[j].from >= r.start, q[j].to <= x, ~Hurt(F, q[j])
       PROVE  j \in s
  <2>1. q[j].to \in Nat /\ q[j].from \in Nat /\ j \in Nat
    BY DEF Items
  <2>2. CASE q[j].to <= o
    BY <2>2, <1>10 DEF ServeOK, o
  <2>3. CASE ~(q[j].to <= o)
    <3>1. o < q[j].to
      BY <2>1, <2>3, <1>6
    <3>2. PICK last \in F : /\ Stop(last) = q[j].to /\ q[j].from <= last.at
                            /\ last.at < q[j].to /\ last.at \in Nat
      BY LastRecord
    <3>3. ASSUME NEW y \in Nat, rec.at <= y, q[j].from <= y, y < q[j].to PROVE FALSE
      <4>1. BlockStart(rec.at) <= y /\ y < x
        BY <3>3, <2>1, <1>1, <1>3, <1>10
      <4> QED BY <4>1, <3>3, <2>1, <1>7, <1>10
    <3>4. CASE r.scratch = << >>
      <4>1. r.pos = o /\ rec.at = Padded(o)
        <5>1. /\ r.pos = r.offset + r.size /\ r.size = 0 /\ r.offset \in Nat
              /\ rec.at = Padded(r.pos)
          BY <3>4 DEF ServeOK, Reads, Comes
        <5> QED BY <5>1 DEF o
      <4>2. Padded(o) <= last.at
        BY <3>1, <3>2, <1>6, RecordAfter
      <4> QED BY <4>1, <4>2, <3>2, <3>3
    <3>5. CASE r.scratch # << >>
      <4> DEFINE i == rec.item
      <4>1. /\ i \in 1..Len(q) /\ Padded(o) = Padded(q[i].from)
        BY <3>5 DEF ServeOK, InsideOK, Comes, o
      <4>2. i # 0 /\ i \in Nat /\ q[i].from \in Nat /\ q[i].to \in Nat
        BY <4>1 DEF Items
      <4>3. q[i].from <= rec.at /\ Stop(rec) <= q[i].to
        BY <4>2, <1>1, PutPart
      <4>4. ~(j < i)
        BY <4>1, <3>1, <1>6, ItemsBefore
      <4>5. CASE j = i
        <5>1. q[j].from <= rec.at /\ rec.at < q[j].to /\ rec.at <= rec.at
          BY <4>2, <4>3, <4>5, <1>1
        <5> QED BY <5>1, <3>3, <1>1
      <4>6. CASE i < j
        <5>1. q[i].to <= q[j].from
          BY <4>1, <4>6 DEF FileOK, PutOK
        <5>2. rec.at <= last.at
          BY <5>1, <4>2, <4>3, <3>2, <2>1, <1>1, SMTT(30)
        <5> QED BY <5>2, <3>2, <3>3
      <4> QED BY <4>2, <4>4, <4>5, <4>6, <2>1
    <3> QED BY <3>4, <3>5
  <2> QED BY <2>2, <2>3
<1>11. ServeOK(F, p, q, n, s)
  BY <1>3, <1>5, <1>8, <1>9, <1>10 DEF ServeOK
<1> QED BY <1>11

\* The record that Consume reads next for Seek.
LEMMA SeekFinds ==
  ASSUME NEW F \in SUBSET Record, NEW e \in Nat, NEW b, NEW p \in Nat, NEW w \in WriteT,
         NEW q, Items(q), FileOK(F, e, b, p, w, q), NEW r, Reads(r), SeekOK(F, e, p, q, r)
  PROVE  /\ Padded(r.pos) < e => \E rec \in F : rec.at = Padded(r.pos) /\ rec.at < e
         /\ AtPut(q, r.start) => Padded(r.pos) < e
<1> DEFINE o == r.pos
<1>1. o \in Nat /\ r.start \in Nat /\ r.start <= p /\ p <= e
  BY BehindEnd DEF Reads, SeekOK
<1>2. Ready(F, o, e) /\ (AtPut(q, r.start) => o < r.start)
  BY DEF SeekOK
<1> HIDE DEF o
<1>3. o <= Padded(o) /\ Padded(o) \in Nat
  BY <1>1, PaddedFacts
<1>4. o < e => \E rec \in F : rec.at = Padded(o) /\ rec.at < e
  BY <1>1, <1>2 DEF Ready
<1>5. Padded(o) < e => o < e
  BY <1>1, <1>3
<1>6. AtPut(q, r.start) => o < e
  BY <1>1, <1>2
<1> QED BY <1>4, <1>5, <1>6 DEF o

\* Where the task starts is in the block that is read.
LEMMA SeekBlock ==
  ASSUME NEW F \in SUBSET Record, NEW e \in Nat, NEW b, NEW p \in Nat, NEW w \in WriteT,
         NEW q, Items(q), FileOK(F, e, b, p, w, q), NEW r, Reads(r), SeekOK(F, e, p, q, r),
         NEW rec \in F, rec.at = Padded(r.pos)
  PROVE  /\ BlockStart(r.start) \in Nat /\ BlockStart(r.start) <= rec.at
         /\ r.start < BlockStart(r.start) + Block
         /\ r.start < BlockStart(rec.at) + Block
<1> DEFINE o == r.start
           s == BlockStart(o)
           x == BlockStart(rec.at) + Block
<1>1. o \in Nat /\ r.pos \in Nat /\ s <= r.pos /\ rec.at \in Nat /\ Block \in Nat
  BY FileRecord, Sizes DEF Reads, SeekOK
<1>2. s \in Nat /\ s = o - Into(o) /\ Into(s) = 0 /\ Into(o) \in Nat /\ Into(o) < Block
  BY <1>1, BlockStartFacts
<1>3. r.pos <= rec.at
  BY <1>1, PaddedFacts
<1>4. s <= rec.at /\ o < s + Block
  BY <1>1, <1>2, <1>3
<1>5. x \in Nat /\ Into(x) = 0 /\ Stop(rec) <= x /\ rec.at < Stop(rec) /\ Stop(rec) \in Nat
  BY BlockEnd, FileRecord
<1> HIDE DEF o, s, x
<1>6. s < x
  BY <1>1, <1>2, <1>4, <1>5
<1>7. BlockStart(s) + Block <= x /\ BlockStart(s) = s - Into(s)
  BY <1>2, <1>5, <1>6, NextBlock, BlockStartFacts
<1>8. o < x
  BY <1>1, <1>2, <1>4, <1>5, <1>7
<1> QED BY <1>2, <1>4, <1>8 DEF o, s, x

\* On the way to the end of an item there are only whole records.
LEMMA SeekRecord ==
  ASSUME NEW F \in SUBSET Record, NEW e \in Nat, NEW b, NEW p \in Nat, NEW w \in WriteT,
         NEW q, Items(q), FileOK(F, e, b, p, w, q), NEW r, Reads(r), SeekOK(F, e, p, q, r),
         NEW rec \in F, rec.at = Padded(r.pos), AtPut(q, r.start)
  PROVE  /\ r.scratch = << >> /\ rec.at \in BlockStart(r.start)..r.start
         /\ Stop(rec) <= r.start /\ rec.at < p /\ rec.type # "first"
<1> DEFINE o == r.start
           s == BlockStart(o)
<1>1. /\ o \in Nat /\ r.pos \in Nat /\ r.scratch = << >> /\ r.pos < o /\ o <= p
      /\ Clean(F, r.pos)
  BY DEF Reads, SeekOK
<1>2. /\ s \in Nat /\ s <= rec.at /\ o < s + Block /\ Block \in Nat
  BY SeekBlock, Sizes
<1>3. PICK j \in 1..Len(q) : o = q[j].to
  BY DEF AtPut
<1>4. PICK last \in F : /\ Stop(last) = q[j].to /\ last.at < q[j].to /\ last.at \in Nat
  BY LastRecord
<1>5. Padded(r.pos) <= last.at
  BY <1>1, <1>3, <1>4, RecordAfter
<1>6. rec.at \in Nat /\ rec.len \in Nat /\ Stop(rec) \in Nat /\ rec.at < Stop(rec)
  BY FileRecord
<1>7. last = rec \/ Stop(last) <= rec.at \/ Stop(rec) <= last.at
  BY DEF FileOK, Disjoint
<1>8. Stop(rec) <= o /\ rec.at < o
  BY <1>1, <1>3, <1>4, <1>5, <1>6, <1>7
<1>9. rec.at < p /\ rec.at \in s..o
  BY <1>1, <1>2, <1>6, <1>8
<1>10. ASSUME rec.type = "first" PROVE FALSE
  <2> DEFINE i == rec.item
             left == q[i].len - rec.from
             a == Into(rec.at)
  <2>1. i # 0 /\ i \in 1..Len(q) /\ rec.from + rec.len < q[i].len
    BY <1>9, <1>10, ReadKind
  <2>2. Fills(a, left, rec.len)
    BY <2>1, <1>9, PutPart
  <2>3. q[i].len \in Nat /\ rec.from \in Nat
    BY <2>1, FileRecord DEF Items
  <2>4. left \in Nat /\ rec.len < left
    BY <2>1, <2>3, <1>6, SMTT(30)
  <2>5. a \in Nat /\ a + Header < Block /\ Header \in Nat
    BY <1>6, FileRecord, BlockStartFacts, Sizes
  <2> HIDE DEF left, a
  <2>6. a + Header + rec.len = Block
    BY <2>2, <2>4, <2>5, RoomFacts
  <2>7. BlockStart(rec.at) = rec.at - a
    BY <1>6, BlockStartFacts DEF a
  <2>8. Stop(rec) = rec.at + Header + rec.len
    BY DEF Stop
  <2>9. Stop(rec) = BlockStart(rec.at) + Block
    BY <2>5, <2>6, <2>7, <2>8, <1>2, <1>6, SMTT(30)
  <2>10. o < BlockStart(rec.at) + Block
    BY SeekBlock
  <2> QED BY <2>9, <2>10, <1>1, <1>6, <1>8
<1> QED BY <1>1, <1>8, <1>9, <1>10

\* Seek goes on inside an item.
LEMMA SeekMore ==
  ASSUME NEW F \in SUBSET Record, NEW e \in Nat, NEW b, NEW p \in Nat, NEW w \in WriteT,
         NEW q, Items(q), FileOK(F, e, b, p, w, q),
         NEW r, Reads(r), Buffer(r), SeekOK(F, e, p, q, r),
         NEW rec \in F, rec.at = Padded(r.pos), rec.at < e, NEW g, Got(r, rec, g),
         Consumed(rec.type, r.scratch # << >>) = "more"
  PROVE  SeekOK(F, e, p, q, g)
<1> DEFINE x == Stop(rec)
<1>1. /\ g.pos = x /\ g.size = r.size + (x - r.pos)
      /\ g.start = r.start /\ g.offset = r.offset /\ g.todo = r.todo
      /\ g.scratch = Append(r.scratch, rec)
  BY DEF Got
<1>2. /\ r.offset = r.start /\ r.start <= p /\ Into(r.start) # 0
      /\ r.pos + r.todo = r.start + r.size /\ BlockStart(r.start) <= r.pos
      /\ r.pos \in Nat /\ r.todo \in Nat /\ r.start \in Nat /\ r.size \in Nat
  BY DEF SeekOK, Reads
<1>3. x \in Nat /\ rec.at < x /\ rec.at \in Nat
  BY FileRecord
<1>4. Clean(F, x) /\ Ready(F, x, e)
  BY CleanStop DEF FileOK, Tiled
<1>5. g.scratch # << >>
  <2>1. rec \in Record /\ r.scratch \in Seq(Record)
    BY DEF Buffer
  <2> QED BY <2>1, <1>1
<1> HIDE DEF x
<1>6. g.pos + g.todo = g.start + g.size
  <2> DEFINE po == r.pos
             si == r.size
             st == r.start
             td == r.todo
  <2>1. po \in Nat /\ si \in Nat /\ st \in Nat /\ td \in Nat /\ po + td = st + si
    BY <1>2
  <2>2. g.pos = x /\ g.todo = td /\ g.start = st /\ g.size = si + (x - po)
    BY <1>1
  <2> HIDE DEF po, si, st, td
  <2>3. x + td = st + (si + (x - po))
    BY <2>1, <1>3
  <2> QED BY <2>2, <2>3
<1>7. BlockStart(g.start) <= g.pos
  <2>1. BlockStart(r.start) \in Nat /\ BlockStart(r.start) <= rec.at
    BY SeekBlock
  <2> QED BY <2>1, <1>1, <1>3
<1>8. ~AtPut(q, g.start)
  <2> SUFFICES ASSUME AtPut(q, g.start) PROVE FALSE
    OBVIOUS
  <2>1. /\ r.scratch = << >> /\ rec.type # "first" /\ rec.at < p
    BY <1>1, SeekRecord
  <2>2. rec.type \in {"full", "first", "middle", "last", "empty", "bad"}
    BY <2>1, ReadKind
  <2> QED BY <2>1, <2>2 DEF Consumed
<1> QED BY <1>1, <1>2, <1>4, <1>5, <1>6, <1>7, <1>8 DEF SeekOK

\* Seek has passed the start of the task, or found no more records.
LEMMA SeekFails ==
  ASSUME NEW F \in SUBSET Record, NEW e \in Nat, NEW b, NEW p \in Nat, NEW w \in WriteT,
         NEW q, Items(q), FileOK(F, e, b, p, w, q),
         NEW r, Reads(r), SeekOK(F, e, p, q, r), NEW n, n.start = r.start,
         \/ ~(Padded(r.pos) < e)
         \/ \E rec \in F : /\ rec.at = Padded(r.pos)
                           /\ rec.type = "bad" \/ r.start < Stop(rec)
  PROVE  FailedOK(F, p, q, n)
<1>1. r.start \in Nat /\ r.start <= p /\ Into(r.start) # 0
  BY DEF SeekOK, Reads
<1>2. r.start # 0
  <2>1. Into(0) = 0
    <3>1. BlockStart(0) = 0 - Into(0) /\ BlockStart(0) \in Nat /\ Into(0) \in Nat
      BY BlockStartFacts
    <3> QED BY <3>1
  <2> QED BY <2>1, <1>1
<1>3. ASSUME AtPut(q, r.start) PROVE BadBefore(F, r.start)
  <2>1. Padded(r.pos) < e
    BY <1>3, SeekFinds
  <2>2. PICK rec \in F : /\ rec.at = Padded(r.pos)
                         /\ rec.type = "bad" \/ r.start < Stop(rec)
    BY <2>1
  <2>3. rec.at \in BlockStart(r.start)..r.start /\ Stop(rec) <= r.start /\ Stop(rec) \in Nat
    BY <2>2, <1>3, SeekRecord, FileRecord
  <2>4. rec.type = "bad"
    BY <2>2, <2>3, <1>1
  <2> QED BY <2>3, <2>4 DEF BadBefore
<1> QED BY <1>1, <1>2, <1>3 DEF FailedOK

\* Seek has reached the start of the task.
LEMMA SeekArrives ==
  ASSUME NEW F \in SUBSET Record, NEW e \in Nat, NEW b, NEW p \in Nat, NEW w \in WriteT,
         NEW q, Items(q), FileOK(F, e, b, p, w, q), NEW o \in Nat, o <= p, Clean(F, o),
         Ready(F, o, p), NEW n, Resumes(n, o, n), n.start = o, NEW s
  PROVE  ServeOK(F, p, q, n, s)
<1>1. /\ n.mode = "serve" /\ n.pos = o /\ n.offset = o /\ n.size = 0 /\ n.scratch = << >>
      /\ n.start = o /\ o = o + 0
  BY DEF Resumes
<1>2. NotTorn(F, q, n)
  BY <1>1, TornBefore, ZenonT(60) DEF NotTorn
<1>3. ASSUME NEW i \in 1..Len(q), q[i].from >= o, q[i].to <= o PROVE FALSE
  <2>1. q[i].from < q[i].to
    BY DEF FileOK, PutOK
  <2>2. q[i].from \in Nat /\ q[i].to \in Nat
    BY DEF Items
  <2> QED BY <2>1, <2>2, <1>3
<1> QED BY <1>1, <1>2, <1>3 DEF ServeOK

\* Seek goes on with the next record.
LEMMA SeekAgain ==
  ASSUME NEW F \in SUBSET Record, NEW e \in Nat, NEW b, NEW p \in Nat, NEW w \in WriteT,
         NEW q, Items(q), FileOK(F, e, b, p, w, q),
         NEW r, Reads(r), SeekOK(F, e, p, q, r),
         NEW rec \in F, rec.at = Padded(r.pos), rec.at < e, Stop(rec) < r.start,
         NEW n, n.pos = Stop(rec), n.size = 0, n.scratch = << >>,
         n.start = r.start, n.offset = r.offset, n.todo = r.start - Stop(rec)
  PROVE  SeekOK(F, e, p, q, n)
<1> DEFINE x == Stop(rec)
<1>1. /\ r.offset = r.start /\ r.start <= p /\ Into(r.start) # 0 /\ r.start \in Nat
  BY DEF SeekOK, Reads
<1>2. x \in Nat /\ rec.at < x /\ rec.at \in Nat
  BY FileRecord
<1>3. Clean(F, x) /\ Ready(F, x, e)
  BY CleanStop DEF FileOK, Tiled
<1> HIDE DEF x
<1>4. n.pos + n.todo = n.start + n.size
  BY <1>1, <1>2 DEF x
<1>5. BlockStart(n.start) <= n.pos
  <2>1. BlockStart(r.start) \in Nat /\ BlockStart(r.start) <= rec.at
    BY SeekBlock
  <2> QED BY <2>1, <1>2 DEF x
<1> QED BY <1>1, <1>3, <1>4, <1>5 DEF SeekOK, x

-----------------------------------------------------------------------------
(* Steps of the slave: f is the end of its file, c its offset in the block,  *)
(* o its published offset and v what it writes.                             *)

LEMMA CopyEmit ==
  ASSUME NEW F \in SUBSET Record, NEW e \in Nat, NEW b, NEW p \in Nat, NEW w \in WriteT,
         NEW q, Items(q), FileOK(F, e, b, p, w, q),
         NEW f \in Nat, NEW c, NEW o \in Nat, NEW v \in WriteT, CopyingOK(F, q, f, c, o, v),
         v.left <= v.len, NEW nr \in Record, NEW u \in WriteT, Emits(f, v, nr, u)
  PROVE  /\ CopiedRecord(F, q, nr)
         /\ CopyingOK(F, q, Stop(nr), Into(Padded(f)) + Header + nr.len, o, u)
         /\ Target(q, o, u) = Target(q, o, v)
<1> DEFINE a == Padded(f)
           n == nr.len
           d == Stop(nr)
           z == Into(Padded(f)) + Header + nr.len
<1>1. /\ a \in Nat /\ f <= a /\ Into(a) + Header < Block /\ Into(a) \in Nat
      /\ Block \in Nat /\ Header \in Nat /\ Header > 0
  BY PaddedFacts, BlockStartFacts, Sizes
<1>2. /\ v.len \in Nat /\ v.left \in Nat /\ v.size \in Nat /\ v.begin \in BOOLEAN
      /\ v.kind \in {"none", "item", "blank"} /\ u.left \in Nat /\ u.size \in Nat
      /\ At(f, c) /\ f = o + v.size
      /\ v.kind = "none" => v = NoWrite
  BY WriteFacts DEF CopyingOK
<1>3. /\ v.begin \/ v.left > 0
      /\ nr.at = a /\ nr.item = v.item /\ nr.from = v.len - v.left
      /\ Fills(Into(a), v.left, n) /\ nr.type = RecordType(v, n)
      /\ u.kind = v.kind /\ u.item = v.item /\ u.len = v.len /\ u.left = v.left - n
      /\ ~u.begin /\ u.size = v.size + (a - f) + Header + n
  BY DEF Emits
<1>4. /\ n \in Nat /\ n <= v.left /\ Into(a) + Header + n <= Block
      /\ v.left > 0 => n > 0
  <2> HIDE DEF a, n
  <2> QED BY <1>1, <1>2, <1>3, RoomFacts
<1>5. v.kind # "none"
  BY <1>2, <1>3 DEF NoWrite
<1>6. At(d, z) /\ d = a + Header + n
  <2>1. At(a + (Header + n), Into(a) + (Header + n))
    <3> HIDE DEF a, n
    <3> QED BY <1>1, <1>4, AtAfter
  <2>2. d = a + Header + n
    BY <1>3 DEF Stop
  <2> HIDE DEF d, a, n
  <2>3. a + Header + n = a + (Header + n) /\ Into(a) + Header + n = Into(a) + (Header + n)
    BY <1>1, <1>4
  <2> QED BY <2>1, <2>2, <2>3 DEF a, n
<1>7. d = o + u.size
  <2> DEFINE vs == v.size
  <2>1. vs \in Nat /\ f = o + vs /\ u.size = vs + (a - f) + Header + n
    BY <1>2, <1>3
  <2> HIDE DEF d, a, n, vs
  <2>2. a + Header + n = o + (vs + (a - f) + Header + n)
    BY <2>1, <1>1, <1>4
  <2> QED BY <2>1, <2>2, <1>6
<1>8. Target(q, o, u) = Target(q, o, v)
  BY <1>3 DEF Target
<1>9. CASE v.kind = "blank"
  <2>1. nr.type = "empty"
    BY <1>3, <1>9 DEF RecordType
  <2>2. /\ v.begin => v.left = v.len - Header /\ v.size = 0 /\ Fits(c, v.len)
        /\ ~v.begin => v.left = 0
        /\ v.len >= Header
    BY <1>9 DEF CopyingOK
  <2>3. v.begin /\ v.left = v.len - Header /\ v.size = 0 /\ Fits(c, v.len)
    BY <2>2, <1>3
  <2>4. Block - c > Header /\ c + v.len <= Block
    BY <2>3 DEF Fits
  <2>5. a = f /\ Into(a) = c /\ c \in Nat
    BY <2>4, <1>2, <1>1, AtFacts
  <2>6. n = v.left
    <3> HIDE DEF a, n
    <3>1. ~(n < v.left)
      BY <2>3, <2>4, <2>5, <1>1, <1>2, <1>3, <1>4, RoomFacts
    <3> QED BY <3>1, <1>2, <1>4
  <2>7. u.left = 0 /\ u.size = v.len
    <3> HIDE DEF a, n
    <3> DEFINE l == v.left
               t == v.len
    <3>1. l \in Nat /\ t \in Nat /\ l = t - Header
      BY <2>3, <1>2
    <3>2. u.left = l - l /\ u.size = 0 + (f - f) + Header + l
      BY <2>3, <2>5, <2>6, <1>3
    <3> HIDE DEF l, t
    <3>3. l - l = 0 /\ 0 + (f - f) + Header + l = t
      BY <3>1, <1>1
    <3> QED BY <3>2, <3>3 DEF t
  <2>8. CopyingOK(F, q, d, z, o, u)
    BY <1>3, <1>6, <1>7, <1>9, <2>2, <2>7 DEF CopyingOK
  <2> QED BY <2>1, <2>8, <1>8 DEF CopiedRecord
<1>10. CASE v.kind = "item"
  <2> DEFINE i == v.item
  <2>1. /\ i \in 1..Len(q) /\ v.len = q[i].len /\ (v.begin <=> v.left = v.len)
        /\ v.left > 0 => \E rec \in F : /\ rec.at = Padded(f) /\ rec.item = i
                                        /\ rec.from = v.len - v.left
    BY <1>10 DEF CopyingOK
  <2>2. v.left > 0
    <3>1. q[i].len > 0
      BY <2>1 DEF FileOK, PutOK
    <3> QED BY <3>1, <2>1, <1>2, <1>3
  <2>3. PICK own \in F : /\ own.at = a /\ own.item = i /\ own.from = v.len - v.left
    BY <2>1, <2>2
  <2>4. i # 0 /\ i <= Len(q)
    BY <2>1 DEF Items
  <2>5. own.at < p /\ own.from \in Nat /\ own.len \in Nat /\ own \in Record
    BY <2>3, <2>4, FileRecord DEF PartOK
  <2>6. /\ Fills(Into(own.at), q[i].len - own.from, own.len)
        /\ own.type \in {"bad", KindOf(own.from, own.len, q[i].len)}
        /\ own.from + own.len = q[i].len => Stop(own) = q[i].to
        /\ own.from + own.len < q[i].len =>
             \E next \in F : /\ next.at = Padded(Stop(own)) /\ next.at < p
                             /\ next.item = i /\ next.from = own.from + own.len
    BY <2>3, <2>4, <2>5, PutPart
  <2>7. own.len = n
    <3>1. q[i].len - own.from = v.left
      BY <2>1, <2>3, <1>2, SMTT(30)
    <3>2. Fills(Into(a), v.left, own.len)
      BY <3>1, <2>3, <2>6
    <3> QED BY <3>2, <1>3 DEF Fills
  <2>8. Stop(own) = d /\ own.from = nr.from /\ own.at = nr.at /\ own.item = nr.item
    BY <2>3, <2>7, <1>3 DEF Stop
  <2>9. nr.type = KindOf(own.from, own.len, q[i].len)
    <3> DEFINE l == v.left
               t == v.len
    <3>1. /\ t \in Nat /\ l \in Nat /\ n \in Nat /\ own.from = t - l /\ l <= t /\ n <= l
          /\ q[i].len = t /\ (v.begin <=> l = t)
      BY <1>2, <1>4, <2>1, <2>3
    <3> HIDE DEF l, t, n
    <3>2. /\ own.from = 0 <=> l = t
          /\ l = t => (n = t <=> l = n)
          /\ own.from + n = t <=> l = n
      BY <3>1
    <3>3. nr.type = IF v.begin THEN (IF l = n THEN "full" ELSE "first")
                               ELSE (IF l = n THEN "last" ELSE "middle")
      BY <1>3, <1>10 DEF RecordType, l
    <3> QED BY <3>1, <3>2, <3>3, <2>7, <1>2 DEF KindOf
  <2>10. CopiedRecord(F, q, nr)
    <3>1. own.type \in {nr.type, "bad"}
      BY <2>6, <2>9
    <3>2. nr = [own EXCEPT !.type = nr.type]
      BY <2>5, <2>7, <2>8 DEF Record
    <3> QED BY <3>1, <3>2, <2>1, <2>3 DEF CopiedRecord
  <2>11. own.from + own.len = u.len - u.left /\ u.left < u.len
    <3> DEFINE l == v.left
               t == v.len
    <3>1. /\ t \in Nat /\ l \in Nat /\ n \in Nat /\ n > 0 /\ own.from = t - l /\ l <= t
          /\ u.len = t /\ u.left = l - n /\ own.len = n /\ n <= l
      BY <1>2, <1>3, <1>4, <2>2, <2>3, <2>7
    <3> HIDE DEF l, t, n
    <3>2. (t - l) + n = t - (l - n) /\ l - n < t
      BY <3>1
    <3> QED BY <3>1, <3>2
  <2>12. u.left > 0 => \E rec \in F : /\ rec.at = Padded(d) /\ rec.item = i
                                      /\ rec.from = u.len - u.left
    <3> SUFFICES ASSUME u.left > 0
                 PROVE  \E rec \in F : /\ rec.at = Padded(d) /\ rec.item = i
                                       /\ rec.from = u.len - u.left
      OBVIOUS
    <3>1. own.from + own.len < q[i].len
      BY <2>1, <2>11, <1>2, <1>3
    <3> QED BY <3>1, <2>6, <2>8, <2>11
  <2>13. u.left = 0 => d = q[i].to
    <3> SUFFICES ASSUME u.left = 0 PROVE d = q[i].to
      OBVIOUS
    <3>1. own.from + own.len = q[i].len
      BY <2>1, <2>11, <1>2, <1>3
    <3> QED BY <3>1, <2>6, <2>8
  <2>14. u.left # u.len
    BY <2>11, <1>2, <1>3
  <2> HIDE DEF d, z
  <2>15. CopyingOK(F, q, d, z, o, u)
    BY <1>3, <1>6, <1>7, <1>10, <2>1, <2>12, <2>13, <2>14 DEF CopyingOK
  <2> QED BY <2>10, <2>15, <1>8 DEF d, z
<1> QED BY <1>2, <1>5, <1>9, <1>10

LEMMA CopyInc ==
  ASSUME NEW F, NEW q, NEW f, NEW c, NEW o, NEW v \in WriteT, CopyingOK(F, q, f, c, o, v),
         Written(v)
  PROVE  /\ o + v.size = f /\ Target(q, f, NoWrite) = Target(q, o, v)
         /\ CopyingOK(F, q, f, c, f, NoWrite)
<1>1. At(f, c) /\ f = o + v.size /\ f \in Nat
  BY DEF CopyingOK, At
<1>2. v.left = 0 /\ ~v.begin /\ v # NoWrite /\ v.kind \in {"none", "item", "blank"}
  BY WriteFacts DEF Written
<1>3. /\ NoWrite.kind = "none" /\ NoWrite.size = 0 /\ f = f + 0
  BY <1>1 DEF NoWrite
<1>4. CopyingOK(F, q, f, c, f, NoWrite)
  BY <1>1, <1>3 DEF CopyingOK
<1>5. CASE v.kind = "item"
  <2>1. f = q[v.item].to
    BY <1>2, <1>5 DEF CopyingOK
  <2> QED BY <2>1, <1>1, <1>3, <1>4, <1>5 DEF Target
<1>6. CASE v.kind = "blank"
  <2>1. v.size = v.len
    BY <1>2, <1>6 DEF CopyingOK
  <2> QED BY <2>1, <1>1, <1>3, <1>4, <1>6 DEF Target
<1>7. v.kind # "none"
  BY <1>2 DEF CopyingOK
<1> QED BY <1>2, <1>5, <1>6, <1>7

LEMMA CopyStart ==
  ASSUME NEW F \in SUBSET Record, NEW e \in Nat, NEW b, NEW p \in Nat, NEW w \in WriteT,
         NEW q, Items(q), FileOK(F, e, b, p, w, q),
         NEW f, NEW c, NEW o \in Nat, CopyingOK(F, q, f, c, o, NoWrite),
         NEW m, MessageOK(q, m), m.kind = "cmd", m.at = o,
         NEW v, v.kind = "item", v.item = m.content[1].item, v.len = Size(m.content),
         v.left = v.len, v.begin, v.size = 0
  PROVE  CopyingOK(F, q, f, c, o, v) /\ Target(q, o, v) = m.at + m.len
<1> DEFINE i == m.content[1].item
<1>1. /\ i \in 1..Len(q) /\ Size(m.content) = q[i].len
      /\ Padded(m.at) = Padded(q[i].from) /\ m.at + m.len = q[i].to
  BY DEF MessageOK
<1>2. At(f, c) /\ f = o
  <2>1. NoWrite.size = 0 /\ o + 0 = o
    BY DEF NoWrite
  <2> QED BY <2>1 DEF CopyingOK
<1>3. PICK rec \in F : rec.item = i /\ rec.from = 0 /\ rec.at = Padded(q[i].from)
  BY <1>1, FirstRecord
<1>4. q[i].len > 0 /\ q[i].len \in Nat
  BY <1>1 DEF FileOK, PutOK, Items
<1>5. v.len - v.left = 0 /\ v.left # 0 /\ f = o + v.size
  BY <1>1, <1>2, <1>4, SMTT(30)
<1>6. v.item = i /\ v.len = q[i].len
  BY <1>1
<1>7. \E own \in F : own.at = Padded(f) /\ own.item = v.item /\ own.from = v.len - v.left
  BY <1>1, <1>2, <1>3, <1>5
<1> HIDE DEF i
<1>8. CopyingOK(F, q, f, c, o, v)
  BY <1>1, <1>2, <1>5, <1>6, <1>7 DEF CopyingOK
<1>9. Target(q, o, v) = m.at + m.len
  BY <1>1, <1>6 DEF Target
<1> QED BY <1>8, <1>9

LEMMA BlankStart ==
  ASSUME NEW F, NEW q, NEW f, NEW c, NEW o \in Nat, CopyingOK(F, q, f, c, o, NoWrite),
         NEW len \in Nat, len >= Header, Fits(c, len),
         NEW v, v.kind = "blank", v.len = len, v.left = len - Header, v.begin, v.size = 0
  PROVE  CopyingOK(F, q, f, c, o, v) /\ Target(q, o, v) = o + len
<1>1. At(f, c) /\ f = o
  <2>1. NoWrite.size = 0 /\ o + 0 = o
    BY DEF NoWrite
  <2> QED BY <2>1 DEF CopyingOK
<1>2. f = o + v.size
  BY <1>1
<1> QED BY <1>1, <1>2 DEF CopyingOK, Target

\* The records that are copied survive a crash of the master.
Published(F, p) == {rec \in F : rec.at < p}

LEMMA CrashCopies ==
  ASSUME NEW F \in SUBSET Record, NEW e \in Nat, NEW b, NEW p \in Nat, NEW w \in WriteT,
         NEW q, Items(q), FileOK(F, e, b, p, w, q),
         NEW f, NEW c, NEW o, NEW v, CopyingOK(F, q, f, c, o, v)
  PROVE  /\ CopyingOK(Published(F, p), q, f, c, o, v)
         /\ \A rec : CopiedRecord(F, q, rec) => CopiedRecord(Published(F, p), q, rec)
<1> DEFINE H == Published(F, p)
<1>1. ASSUME NEW rec \in F, rec.item \in 1..Len(q) PROVE rec \in H
  <2>1. rec.item <= Len(q) /\ rec.item # 0
    BY <1>1 DEF Items
  <2> QED BY <2>1, FileRecord DEF PartOK, Published
<1> HIDE DEF H
<1>2. \A rec : CopiedRecord(F, q, rec) => CopiedRecord(H, q, rec)
  BY <1>1 DEF CopiedRecord
<1>3. ASSUME v.kind = "item", v.left > 0
      PROVE  \E rec \in H : /\ rec.at = Padded(f) /\ rec.item = v.item
                            /\ rec.from = v.len - v.left
  <2>1. v.item \in 1..Len(q)
    BY <1>3 DEF CopyingOK
  <2>2. PICK rec \in F : /\ rec.at = Padded(f) /\ rec.item = v.item
                         /\ rec.from = v.len - v.left
    BY <1>3 DEF CopyingOK
  <2> QED BY <2>1, <2>2, <1>1
<1>4. CopyingOK(H, q, f, c, o, v)
  BY <1>3 DEF CopyingOK
<1> QED BY <1>2, <1>4 DEF H

-----------------------------------------------------------------------------
(* The actions.                                                            *)

MsgT == [kind: {"none", "cmd", "skip"}, at: Nat, len: Nat, content: Seq(Record)]

LEMMA Base ==
  ASSUME FormatTypeOK
  PROVE  /\ \A c \in Copy : /\ file[c] \in SUBSET Record /\ end[c] \in Nat
                            /\ block_offset[c] \in 0..Block /\ pro_offset[c] \in Nat
                            /\ writing[c] \in WriteT
         /\ reader \in ReaderT(Seq(Record)) /\ Reads(reader) /\ Buffer(reader)
         /\ msg \in MsgT /\ Items(put) /\ put \in Seq(PutT)
         /\ "master" \in Copy /\ "slave" \in Copy
<1>1. \A c \in Copy : /\ file[c] \in SUBSET Record /\ end[c] \in Nat
                      /\ block_offset[c] \in 0..Block /\ pro_offset[c] \in Nat
                      /\ writing[c] \in WriteT
  BY DEF FormatTypeOK, WriteT
<1>2. reader \in ReaderT(Seq(Record)) /\ msg \in MsgT /\ put \in Seq(PutT)
  BY DEF FormatTypeOK, ReaderT, MsgT, PutT
<1>3. Reads(reader) /\ Buffer(reader)
  BY <1>2, ReaderFields DEF Buffer
<1>4. Items(put)
  BY <1>2, PutFacts
<1> QED BY <1>1, <1>2, <1>3, <1>4 DEF Copy

-----------------------------------------------------------------------------
(* Steps of the writers.                                                   *)

\* The padding, the place in the block, the length of the next record of w; the
\* record, and what is left of w.
Pad(b) == IF Block - b <= Header THEN Block - b ELSE 0
Place(b) == IF Block - b <= Header THEN 0 ELSE b
Part(b, w) == Smaller(w.left, Block - Place(b) - Header)
NewRecord(e, b, w) ==
  [at |-> e + Pad(b), type |-> RecordType(w, Part(b, w)), len |-> Part(b, w),
   item |-> w.item, from |-> w.len - w.left]
NewWrite(b, w) ==
  [w EXCEPT !.left = @ - Part(b, w), !.begin = FALSE,
            !.size = @ + Pad(b) + Header + Part(b, w)]

LEMMA PartFacts ==
  ASSUME NEW b \in 0..Block, NEW w \in WriteT
  PROVE  /\ Pad(b) \in Nat /\ Place(b) \in Nat /\ Place(b) + Header < Block
         /\ Fills(Place(b), w.left, Part(b, w))
         /\ Part(b, w) \in Nat /\ Part(b, w) <= w.left
         /\ Place(b) + Header + Part(b, w) \in 0..Block
<1>1. Block \in Nat /\ Header \in Nat /\ Header > 0 /\ Block > Header + 1
  BY Sizes
<1>2. Pad(b) \in Nat /\ Place(b) \in Nat /\ Place(b) + Header < Block
  BY <1>1 DEF Pad, Place
<1>3. w.left \in Nat /\ Fills(Place(b), w.left, Part(b, w))
  BY WriteFacts DEF Fills, Part
<1>4. /\ Part(b, w) \in Nat /\ Part(b, w) <= w.left
      /\ Place(b) + Header + Part(b, w) <= Block
  BY <1>2, <1>3, RoomFacts
<1> QED BY <1>1, <1>2, <1>3, <1>4

LEMMA NewFacts ==
  ASSUME NEW e \in Nat, NEW b \in 0..Block, NEW w \in WriteT, w.left <= w.len
  PROVE  /\ NewRecord(e, b, w) \in Record
         /\ NewWrite(b, w) \in WriteT /\ NewWrite(b, w).left <= NewWrite(b, w).len
         /\ e + Pad(b) + Header + Part(b, w) \in Nat
<1> DEFINE n == Part(b, w)
           d == Pad(b)
<1>1. n \in Nat /\ d \in Nat /\ n <= w.left /\ Header \in Nat
  BY PartFacts, Sizes
<1>2. /\ w.item \in Nat /\ w.len \in Nat /\ w.left \in Nat /\ w.size \in Nat
      /\ w.begin \in BOOLEAN /\ w.kind \in {"none", "item", "blank"}
  BY WriteFacts
<1>3. RecordType(w, n) \in Type
  BY DEF RecordType, Type
<1> HIDE DEF n, d
<1>4. e + d \in Nat /\ w.len - w.left \in Nat /\ w.left - n \in Nat /\ w.left - n <= w.len
      /\ w.size + d + Header + n \in Nat /\ e + d + Header + n \in Nat
  <2> DEFINE ln == w.len
             lf == w.left
             sz == w.size
  <2>1. ln \in Nat /\ lf \in Nat /\ sz \in Nat /\ n <= lf /\ lf <= ln
    BY <1>1, <1>2
  <2> HIDE DEF ln, lf, sz
  <2>2. /\ e + d \in Nat /\ ln - lf \in Nat /\ lf - n \in Nat /\ lf - n <= ln
        /\ sz + d + Header + n \in Nat /\ e + d + Header + n \in Nat
    BY <2>1, <1>1
  <2> QED BY <2>2 DEF ln, lf, sz
<1>5. NewRecord(e, b, w) \in Record
  BY <1>1, <1>2, <1>3, <1>4 DEF NewRecord, Record, n, d
<1>6. NewWrite(b, w).left = w.left - n /\ NewWrite(b, w).len = w.len
  BY DEF NewWrite, WriteT, n, d
<1>7. NewWrite(b, w) \in WriteT
  <2> DEFINE x == w.left - n
             y == w.size + d + Header + n
  <2>1. x \in Nat /\ y \in Nat /\ NewWrite(b, w) = [w EXCEPT !.left = x, !.begin = FALSE, !.size = y]
    BY <1>4 DEF NewWrite, n, d
  <2> HIDE DEF x, y
  <2>2. [w EXCEPT !.left = x, !.begin = FALSE, !.size = y] \in WriteT
    BY <2>1 DEF WriteT
  <2> QED BY <2>1, <2>2
<1> QED BY <1>4, <1>5, <1>6, <1>7 DEF n, d

LEMMA NewEmits ==
  ASSUME NEW e \in Nat, NEW b \in 0..Block, NEW w \in WriteT, w.left <= w.len,
         w.begin \/ w.left > 0, At(e, b)
  PROVE  /\ Emits(e, w, NewRecord(e, b, w), NewWrite(b, w))
         /\ Stop(NewRecord(e, b, w)) = e + Pad(b) + Header + Part(b, w)
         /\ Place(b) + Header + Part(b, w)
              = Into(Padded(e)) + Header + NewRecord(e, b, w).len
<1> DEFINE n == Part(b, w)
           d == Pad(b)
           nr == NewRecord(e, b, w)
           v == NewWrite(b, w)
<1>1. n \in Nat /\ d \in Nat /\ Fills(Place(b), w.left, n) /\ Header \in Nat /\ Block \in Nat
  BY PartFacts, Sizes
<1>2. Padded(e) = e + d /\ Into(Padded(e)) = Place(b) /\ Padded(e) - e = d
  <2>1. CASE Block - b <= Header
    BY <2>1, <1>1, AtFacts DEF Pad, Place
  <2>2. CASE ~(Block - b <= Header)
    <3>1. Block - b > Header
      BY <2>2, <1>1
    <3> QED BY <3>1, <2>2, <1>1, AtFacts DEF Pad, Place
  <2> QED BY <2>1, <2>2
<1>3. /\ nr.at = e + d /\ nr.type = RecordType(w, n) /\ nr.len = n /\ nr.item = w.item
      /\ nr.from = w.len - w.left
  BY DEF NewRecord
<1>4. /\ v.kind = w.kind /\ v.item = w.item /\ v.len = w.len /\ v.left = w.left - n
      /\ v.begin = FALSE /\ v.size = w.size + d + Header + n
  BY DEF NewWrite, WriteT
<1> HIDE DEF n, d, nr, v
<1>5. Emits(e, w, nr, v)
  BY <1>1, <1>2, <1>3, <1>4 DEF Emits
<1>6. Stop(nr) = e + d + Header + n
  BY <1>3 DEF Stop
<1> QED BY <1>2, <1>3, <1>5, <1>6 DEF n, d, nr, v

\* The types, those of the files and the others.
TypeDisk ==
  /\ file \in [Copy -> SUBSET Record]
  /\ end \in [Copy -> Nat]
  /\ pro_offset \in [Copy -> Nat]
  /\ block_offset \in [Copy -> 0..Block]
  /\ writing \in [Copy -> WriteT]
TypeRead ==
  /\ reader \in ReaderT(Seq(Record))
  /\ msg \in MsgT
  /\ put \in Seq(PutT)
  /\ sent \subseteq 1..Len(put)
  /\ crossed \in BOOLEAN /\ overrun \in BOOLEAN
  /\ faults \in 0..MaxFaults

LEMMA TypeParts == FormatTypeOK <=> TypeDisk /\ TypeRead
BY DEF FormatTypeOK, TypeDisk, TypeRead, WriteT, ReaderT, MsgT, PutT

\* The copies other than c are left alone.
Only(c) ==
  \A d \in Copy \ {c} :
    /\ file'[d] = file[d] /\ end'[d] = end[d] /\ pro_offset'[d] = pro_offset[d]
    /\ block_offset'[d] = block_offset[d] /\ writing'[d] = writing[d]

LEMMA AppendStep ==
  ASSUME FormatTypeOK, NEW c \in Copy, AppendRecord(c), writing[c].left <= writing[c].len
  PROVE  /\ FormatTypeOK' /\ writing'[c].left <= writing'[c].len /\ Only(c)
         /\ file'[c] = file[c] \cup {NewRecord(end[c], block_offset[c], writing[c])}
         /\ end'[c] = end[c] + Pad(block_offset[c]) + Header
                        + Part(block_offset[c], writing[c])
         /\ block_offset'[c] = Place(block_offset[c]) + Header
                                 + Part(block_offset[c], writing[c])
         /\ writing'[c] = NewWrite(block_offset[c], writing[c])
         /\ writing[c].begin \/ writing[c].left > 0
         /\ UNCHANGED <<pro_offset, reader, msg, put, sent, crossed, overrun, faults>>
<1>0. TypeDisk /\ TypeRead
  BY TypeParts
<1> DEFINE e == end[c]
           b == block_offset[c]
           w == writing[c]
<1>1. e \in Nat /\ b \in 0..Block /\ w \in WriteT
  BY <1>0 DEF TypeDisk
<1>2. /\ file' = [file EXCEPT ![c] = @ \cup {NewRecord(e, b, w)}]
      /\ end' = [end EXCEPT ![c] = @ + Pad(b) + Header + Part(b, w)]
      /\ block_offset' = [block_offset EXCEPT ![c] = Place(b) + Header + Part(b, w)]
      /\ writing' = [writing EXCEPT ![c] = NewWrite(b, w)]
      /\ w.begin \/ w.left > 0
      /\ UNCHANGED <<pro_offset, reader, msg, put, sent, crossed, overrun, faults>>
  BY DEF AppendRecord, EmitPhysicalRecord, NewRecord, NewWrite, Pad, Place, Part
<1>3. /\ NewRecord(e, b, w) \in Record
      /\ NewWrite(b, w) \in WriteT /\ NewWrite(b, w).left <= NewWrite(b, w).len
      /\ e + Pad(b) + Header + Part(b, w) \in Nat
  BY <1>1, NewFacts
<1>4. Place(b) + Header + Part(b, w) \in 0..Block
  BY <1>1, PartFacts
<1>5. file' \in [Copy -> SUBSET Record]
  BY <1>0, <1>2, <1>3 DEF TypeDisk
<1>6. end' \in [Copy -> Nat]
  BY <1>0, <1>2, <1>3 DEF TypeDisk
<1>7. block_offset' \in [Copy -> 0..Block]
  BY <1>0, <1>2, <1>4 DEF TypeDisk
<1>8. writing' \in [Copy -> WriteT]
  BY <1>0, <1>2, <1>3 DEF TypeDisk
<1>9. TypeDisk' /\ TypeRead'
  BY <1>0, <1>2, <1>5, <1>6, <1>7, <1>8 DEF TypeDisk, TypeRead
<1>10. FormatTypeOK'
  BY <1>9 DEF FormatTypeOK, TypeDisk, TypeRead, WriteT, ReaderT, MsgT, PutT
<1>11. /\ file'[c] = file[c] \cup {NewRecord(e, b, w)}
       /\ end'[c] = e + Pad(b) + Header + Part(b, w)
       /\ block_offset'[c] = Place(b) + Header + Part(b, w)
       /\ writing'[c] = NewWrite(b, w)
  BY <1>0, <1>2 DEF TypeDisk
<1>12. Only(c)
  BY <1>0, <1>2 DEF TypeDisk, Only
<1> QED BY <1>2, <1>3, <1>10, <1>11, <1>12

\* What the master's file becomes is good for the reader and for the slave.
LEMMA LaterKept ==
  ASSUME FormatInv, FormatTypeOK', Only("master"), UNCHANGED <<reader, msg, sent, crossed>>,
         FileOK(file'["master"], end'["master"], block_offset'["master"],
                pro_offset'["master"], writing'["master"], put'),
         Later(file["master"], end["master"], pro_offset["master"], put,
               file'["master"], end'["master"], pro_offset'["master"], put')
  PROVE  FormatInv'
<1>1. /\ FormatTypeOK /\ MessageOK(put, msg)
      /\ ReaderOK(file["master"], end["master"], pro_offset["master"], put, reader, msg, sent)
      /\ writing["slave"].left <= writing["slave"].len
      /\ ~crossed => SlaveOK(file["master"], put, file["slave"], end["slave"],
                             block_offset["slave"], pro_offset["slave"], writing["slave"],
                             reader, msg)
  BY DEF FormatInv
<1>2. /\ file["master"] \in SUBSET Record /\ end["master"] \in Nat
      /\ pro_offset["master"] \in Nat /\ Items(put) /\ Reads(reader)
      /\ "master" \in Copy /\ "slave" \in Copy
  BY <1>1, Base
<1>3. file'["master"] \in SUBSET Record /\ Items(put')
  <2>1. file' \in [Copy -> SUBSET Record] /\ put' \in Seq(PutT)
    BY DEF FormatTypeOK, PutT
  <2>2. Items(put')
    BY <2>1, PutFacts
  <2> QED BY <2>1, <2>2, <1>2
<1>4. ReaderOK(file'["master"], end'["master"], pro_offset'["master"], put', reader, msg, sent)
  BY <1>1, <1>2, <1>3, ReaderKept
<1>5. MessageOK(put', msg)
  BY <1>1, <1>2, <1>3, MessageKept
<1>6. ASSUME ~crossed
      PROVE  SlaveOK(file'["master"], put', file["slave"], end["slave"],
                     block_offset["slave"], pro_offset["slave"], writing["slave"],
                     reader, msg)
  BY <1>1, <1>2, <1>3, <1>6, SlaveKept
<1>7. /\ file'["slave"] = file["slave"] /\ end'["slave"] = end["slave"]
      /\ pro_offset'["slave"] = pro_offset["slave"]
      /\ block_offset'["slave"] = block_offset["slave"]
      /\ writing'["slave"] = writing["slave"]
  BY <1>2 DEF Only
<1>8. reader' = reader /\ msg' = msg /\ sent' = sent /\ crossed' = crossed
  OBVIOUS
<1> QED BY <1>1, <1>4, <1>5, <1>6, <1>7, <1>8 DEF FormatInv

LEMMA MasterAppends ==
  ASSUME FormatInv, AppendRecord("master")
  PROVE  FormatInv'
<1> DEFINE F == file["master"]
           e == end["master"]
           b == block_offset["master"]
           p == pro_offset["master"]
           w == writing["master"]
           nr == NewRecord(e, b, w)
           v == NewWrite(b, w)
<1>1. FormatTypeOK /\ FileOK(F, e, b, p, w, put)
  BY DEF FormatInv
<1>2. /\ F \in SUBSET Record /\ e \in Nat /\ b \in 0..Block /\ p \in Nat /\ w \in WriteT
      /\ Items(put) /\ "master" \in Copy
  BY <1>1, Base
<1>3. w.left <= w.len /\ At(e, b)
  BY <1>1 DEF FileOK, WriterOK
<1>4. /\ FormatTypeOK' /\ Only("master")
      /\ file'["master"] = F \cup {nr}
      /\ end'["master"] = e + Pad(b) + Header + Part(b, w)
      /\ block_offset'["master"] = Place(b) + Header + Part(b, w)
      /\ writing'["master"] = v
      /\ w.begin \/ w.left > 0
      /\ UNCHANGED <<pro_offset, reader, msg, put, sent, crossed, overrun, faults>>
  BY <1>1, <1>2, <1>3, AppendStep
<1>5. nr \in Record /\ v \in WriteT
  BY <1>2, <1>3, NewFacts
<1>6. /\ Emits(e, w, nr, v) /\ end'["master"] = Stop(nr)
      /\ block_offset'["master"] = Into(Padded(e)) + Header + nr.len
  BY <1>2, <1>3, <1>4, NewEmits
<1> HIDE DEF F, e, b, p, w, nr, v
<1>7. FileOK(F \cup {nr}, Stop(nr), Into(Padded(e)) + Header + nr.len, p, v, put)
  BY <1>1, <1>2, <1>5, <1>6, EmitFile
<1>8. Later(F, e, p, put, F \cup {nr}, Stop(nr), p, put)
  BY <1>1, <1>2, <1>5, <1>6, EmitLater
<1>9. pro_offset'["master"] = p /\ put' = put
  BY <1>4 DEF p
<1>10. FileOK(file'["master"], end'["master"], block_offset'["master"],
              pro_offset'["master"], writing'["master"], put')
  BY <1>4, <1>6, <1>7, <1>9
<1>11. Later(F, e, p, put, file'["master"], end'["master"], pro_offset'["master"], put')
  BY <1>4, <1>6, <1>8, <1>9
<1> QED BY <1>4, <1>10, <1>11, LaterKept DEF F, e, p

LEMMA SlaveAppends ==
  ASSUME FormatInv, AppendRecord("slave")
  PROVE  FormatInv'
<1> DEFINE F == file["master"]
           e == end["slave"]
           b == block_offset["slave"]
           p == pro_offset["slave"]
           w == writing["slave"]
           nr == NewRecord(e, b, w)
           v == NewWrite(b, w)
<1>1. /\ FormatTypeOK /\ w.left <= w.len
      /\ FileOK(F, end["master"], block_offset["master"], pro_offset["master"],
                writing["master"], put)
      /\ ReaderOK(F, end["master"], pro_offset["master"], put, reader, msg, sent)
      /\ MessageOK(put, msg)
      /\ ~crossed => SlaveOK(F, put, file["slave"], e, b, p, w, reader, msg)
  BY DEF FormatInv
<1>2. /\ F \in SUBSET Record /\ end["master"] \in Nat /\ pro_offset["master"] \in Nat
      /\ writing["master"] \in WriteT
      /\ e \in Nat /\ b \in 0..Block /\ p \in Nat /\ w \in WriteT
      /\ Items(put) /\ "slave" \in Copy /\ "master" \in Copy
  BY <1>1, Base
<1>3. /\ FormatTypeOK' /\ writing'["slave"].left <= writing'["slave"].len /\ Only("slave")
      /\ file'["slave"] = file["slave"] \cup {nr}
      /\ end'["slave"] = e + Pad(b) + Header + Part(b, w)
      /\ block_offset'["slave"] = Place(b) + Header + Part(b, w)
      /\ writing'["slave"] = v
      /\ w.begin \/ w.left > 0
      /\ UNCHANGED <<pro_offset, reader, msg, put, sent, crossed, overrun, faults>>
  BY <1>1, <1>2, AppendStep
<1>4. nr \in Record /\ v \in WriteT
  BY <1>1, <1>2, NewFacts
<1>5. ASSUME ~crossed
      PROVE  SlaveOK(F, put, file'["slave"], end'["slave"], block_offset'["slave"], p,
                     writing'["slave"], reader, msg)
  <2>1. /\ \A rec \in file["slave"] : CopiedRecord(F, put, rec)
        /\ CopyingOK(F, put, e, b, p, w) /\ StreamOK(put, p, w, reader, msg)
    BY <1>1, <1>5 DEF SlaveOK
  <2>2. At(e, b)
    BY <2>1 DEF CopyingOK
  <2>3. /\ Emits(e, w, nr, v) /\ end'["slave"] = Stop(nr)
        /\ block_offset'["slave"] = Into(Padded(e)) + Header + nr.len
    BY <1>1, <1>2, <1>3, <2>2, NewEmits
  <2> HIDE DEF F, e, b, p, w, nr, v
  <2>4. /\ CopiedRecord(F, put, nr)
        /\ CopyingOK(F, put, Stop(nr), Into(Padded(e)) + Header + nr.len, p, v)
        /\ Target(put, p, v) = Target(put, p, w)
    BY <1>1, <1>2, <1>4, <2>1, <2>3, CopyEmit
  <2>5. StreamOK(put, p, v, reader, msg)
    BY <2>1, <2>4 DEF StreamOK
  <2>6. \A rec \in file'["slave"] : CopiedRecord(F, put, rec)
    BY <1>3, <2>1, <2>4
  <2> QED BY <1>3, <2>3, <2>4, <2>5, <2>6 DEF SlaveOK
<1>6. /\ file'["master"] = F /\ end'["master"] = end["master"]
      /\ pro_offset'["master"] = pro_offset["master"]
      /\ block_offset'["master"] = block_offset["master"]
      /\ writing'["master"] = writing["master"]
  BY <1>2, <1>3 DEF Only
<1>7. /\ reader' = reader /\ msg' = msg /\ sent' = sent /\ crossed' = crossed /\ put' = put
      /\ pro_offset'["slave"] = p
  BY <1>3
<1> QED BY <1>1, <1>3, <1>5, <1>6, <1>7 DEF FormatInv

LEMMA LaterSame ==
  ASSUME NEW F, NEW e, NEW p \in Nat, NEW q, Items(q), p <= e
  PROVE  Later(F, e, p, q, F, e, p, q)
<1>1. Len(q) \in Nat
  BY DEF Items
<1> HIDE DEF Clean, Ready
<1>2. \A rec \in F : \E twin \in F :
       /\ twin.at = rec.at /\ twin.len = rec.len /\ twin.item = rec.item
       /\ twin.from = rec.from /\ twin.type \in {rec.type, "bad"}
  OBVIOUS
<1>3. p <= p /\ Len(q) <= Len(q)
  BY <1>1
<1> QED BY <1>1, <1>2, <1>3 DEF Later

\* What Put, PutBlank and DoBinlog begin to write.
Begun(kind, item, len) ==
  [kind |-> kind, item |-> item, len |-> len,
   left |-> IF kind = "blank" THEN len - Header ELSE len, begin |-> TRUE, size |-> 0]

LEMMA WriteStep ==
  ASSUME TypeDisk, NEW c \in Copy, NEW kind \in {"item", "blank"}, NEW item \in Nat,
         NEW len \in Nat, kind = "blank" => len >= Header, Write(c, kind, item, len),
         UNCHANGED <<file, end, block_offset, pro_offset>>
  PROVE  /\ TypeDisk' /\ Only(c) /\ writing'[c] = Begun(kind, item, len)
         /\ Begun(kind, item, len) \in WriteT
         /\ Begun(kind, item, len).left <= Begun(kind, item, len).len
<1> DEFINE v == Begun(kind, item, len)
           left == IF kind = "blank" THEN len - Header ELSE len
<1>1. left \in Nat /\ left <= len
  BY Sizes
<1>2. v \in WriteT /\ v.left <= v.len
  <2> HIDE DEF left
  <2>1. v = [kind |-> kind, item |-> item, len |-> len, left |-> left, begin |-> TRUE, size |-> 0]
    BY DEF Begun, left
  <2> QED BY <1>1, <2>1 DEF WriteT
<1>3. writing' = [writing EXCEPT ![c] = v]
  BY DEF Write, Begun
<1> HIDE DEF v, left
<1>4. writing' \in [Copy -> WriteT] /\ writing'[c] = v
  BY <1>2, <1>3 DEF TypeDisk
<1>5. TypeDisk' /\ Only(c)
  BY <1>3, <1>4 DEF TypeDisk, Only
<1> QED BY <1>2, <1>4, <1>5 DEF v

\* A write begins at the master.
LEMMA MasterStarts ==
  ASSUME FormatInv, NEW kind \in {"item", "blank"}, NEW item \in Nat, NEW len \in Nat,
         kind = "blank" => len >= Header /\ item = 0,
         kind = "item" => len > 0 /\ item = Len(put) + 1,
         writing["master"] = NoWrite, Write("master", kind, item, len),
         UNCHANGED <<file, end, block_offset, pro_offset, reader, msg, put, sent, crossed,
                     overrun, faults>>
  PROVE  FormatInv'
<1> DEFINE F == file["master"]
           e == end["master"]
           b == block_offset["master"]
           p == pro_offset["master"]
           v == Begun(kind, item, len)
<1>1. FormatTypeOK /\ FileOK(F, e, b, p, NoWrite, put) /\ TypeDisk /\ TypeRead
  BY TypeParts DEF FormatInv
<1>2. /\ F \in SUBSET Record /\ e \in Nat /\ b \in 0..Block /\ p \in Nat
      /\ Items(put) /\ "master" \in Copy /\ NoWrite \in WriteT
  BY <1>1, Base DEFS FormatInv
<1>3. /\ TypeDisk' /\ Only("master") /\ writing'["master"] = v /\ v \in WriteT
      /\ v.left <= v.len
  BY <1>1, <1>2, WriteStep
<1>4. FormatTypeOK'
  <2>1. TypeRead'
    BY <1>1 DEF TypeRead
  <2> QED BY <2>1, <1>3 DEF FormatTypeOK, TypeDisk, TypeRead, WriteT, ReaderT, MsgT, PutT
<1>5. Starts(v, put)
  BY <1>3 DEF Starts, Begun
<1> HIDE DEF F, e, b, p, v
<1>6. FileOK(F, e, b, p, v, put)
  BY <1>1, <1>2, <1>3, <1>5, StartFile
<1>7. Later(F, e, p, put, F, e, p, put)
  <2>1. p <= e
    BY <1>1, <1>2, BehindEnd
  <2> QED BY <2>1, <1>2, LaterSame
<1>8. /\ file'["master"] = F /\ end'["master"] = e /\ block_offset'["master"] = b
      /\ pro_offset'["master"] = p /\ put' = put
  BY DEF F, e, b, p
<1>9. /\ FileOK(file'["master"], end'["master"], block_offset'["master"],
                pro_offset'["master"], writing'["master"], put')
      /\ Later(F, e, p, put, file'["master"], end'["master"], pro_offset'["master"], put')
  BY <1>3, <1>6, <1>7, <1>8
<1> QED BY <1>3, <1>4, <1>9, LaterKept DEF F, e, p

LEMMA MasterPuts ==
  ASSUME FormatInv, NEW n \in Lengths, Put(n)
  PROVE  FormatInv'
<1>1. n \in Nat /\ n > 0
  BY FormatAssumption
<1>2. Len(put) + 1 \in Nat
  BY Base DEF FormatInv, Items
<1> DEFINE i == Len(put) + 1
<1>3. /\ writing["master"] = NoWrite /\ Write("master", "item", i, n)
      /\ UNCHANGED <<file, end, block_offset, pro_offset, reader, msg, put, sent, crossed,
                     overrun, faults>>
  BY DEF Put
<1>4. i = Len(put) + 1 /\ i \in Nat
  BY <1>2
<1> HIDE DEF i
<1> QED BY <1>1, <1>3, <1>4, MasterStarts

LEMMA MasterPutsBlank ==
  ASSUME FormatInv, NEW n \in Blanks, PutBlank(n)
  PROVE  FormatInv'
<1>1. n \in Nat
  BY FormatAssumption
<1>2. /\ writing["master"] = NoWrite /\ Write("master", "blank", 0, n) /\ n >= Header
      /\ UNCHANGED <<file, end, block_offset, pro_offset, reader, msg, put, sent, crossed,
                     overrun, faults>>
  BY DEF PutBlank
<1> QED BY <1>1, <1>2, MasterStarts

LEMMA IncStep ==
  ASSUME FormatTypeOK, NEW c \in Copy, Inc(c)
  PROVE  /\ FormatTypeOK' /\ Only(c) /\ Written(writing[c])
         /\ file'[c] = file[c] /\ end'[c] = end[c] /\ block_offset'[c] = block_offset[c]
         /\ pro_offset'[c] = pro_offset[c] + writing[c].size
         /\ writing'[c] = NoWrite
         /\ c = "master" => Grows(put, writing[c], pro_offset[c], pro_offset'[c], put')
         /\ c = "slave" => put' = put
         /\ UNCHANGED <<reader, msg, sent, crossed, overrun, faults>>
<1>0. TypeDisk /\ TypeRead
  BY TypeParts
<1> DEFINE w == writing[c]
           x == pro_offset[c] + w.size
           item == [len |-> w.len, from |-> pro_offset[c], to |-> x]
<1>1. w \in WriteT /\ pro_offset[c] \in Nat
  BY <1>0 DEF TypeDisk
<1>2. x \in Nat /\ w.len \in Nat
  BY <1>1, WriteFacts
<1>3. item \in PutT
  BY <1>1, <1>2 DEF PutT
<1>4. NoWrite \in WriteT
  BY DEF NoWrite, WriteT
<1>5. /\ pro_offset' = [pro_offset EXCEPT ![c] = x]
      /\ writing' = [writing EXCEPT ![c] = NoWrite]
      /\ UNCHANGED <<file, end, block_offset, reader, msg, sent, crossed, overrun, faults>>
      /\ Written(w)
  BY DEF Inc
<1> HIDE DEF x, w
<1>6. /\ pro_offset'[c] = x /\ pro_offset' \in [Copy -> Nat] /\ writing'[c] = NoWrite
      /\ writing' \in [Copy -> WriteT]
  BY <1>0, <1>2, <1>4, <1>5 DEF TypeDisk
<1>7. put' = IF c = "master" /\ w.kind = "item" THEN Append(put, item) ELSE put
  BY <1>6 DEF Inc, w
<1>8. TypeDisk' /\ Only(c)
  BY <1>0, <1>5, <1>6 DEF TypeDisk, Only
<1>9. put \in Seq(PutT) /\ sent \subseteq 1..Len(put)
  BY <1>0 DEF TypeRead
<1> HIDE DEF item
<1>10. put' \in Seq(PutT) /\ sent \subseteq 1..Len(put')
  <2>1. CASE put' = put
    BY <2>1, <1>9
  <2>2. CASE put' = Append(put, item)
    <3>1. put' \in Seq(PutT) /\ Len(put') = Len(put) + 1 /\ Len(put) \in Nat
      BY <2>2, <1>3, <1>9
    <3> QED BY <3>1, <1>9
  <2> QED BY <1>7, <2>1, <2>2
<1>11. TypeRead'
  BY <1>0, <1>5, <1>10 DEF TypeRead
<1>12. FormatTypeOK'
  BY <1>8, <1>11 DEF FormatTypeOK, TypeDisk, TypeRead, WriteT, ReaderT, MsgT, PutT
<1>13. ASSUME c = "master" PROVE Grows(put, w, pro_offset[c], x, put')
  <2>1. CASE w.kind = "item"
    <3>1. put' = Append(put, item)
      BY <1>7, <1>13, <2>1
    <3>2. /\ Len(put') = Len(put) + 1 /\ \A i \in 1..Len(put) : put'[i] = put[i]
          /\ put'[Len(put) + 1] = item
      BY <3>1, <1>3, <1>9
    <3>3. item.len = w.len /\ item.from = pro_offset[c] /\ item.to = x
      BY DEF item
    <3> QED BY <2>1, <3>2, <3>3 DEF Grows
  <2>2. CASE w.kind # "item"
    BY <2>2, <1>7 DEF Grows
  <2> QED BY <2>1, <2>2
<1> QED BY <1>5, <1>6, <1>7, <1>8, <1>12, <1>13 DEF x, w

\* The slave writes, and nothing else happens.
LEMMA SlaveOnly ==
  ASSUME FormatInv, FormatTypeOK', Only("slave"), UNCHANGED <<reader, msg, put, sent, crossed>>,
         writing'["slave"].left <= writing'["slave"].len,
         ~crossed => SlaveOK(file["master"], put, file'["slave"], end'["slave"],
                             block_offset'["slave"], pro_offset'["slave"],
                             writing'["slave"], reader, msg)
  PROVE  FormatInv'
<1>1. /\ file'["master"] = file["master"] /\ end'["master"] = end["master"]
      /\ pro_offset'["master"] = pro_offset["master"]
      /\ block_offset'["master"] = block_offset["master"]
      /\ writing'["master"] = writing["master"]
  BY DEF Only, Copy
<1>2. reader' = reader /\ msg' = msg /\ put' = put /\ sent' = sent /\ crossed' = crossed
  OBVIOUS
<1> QED BY <1>1, <1>2 DEF FormatInv

LEMMA MasterIncs ==
  ASSUME FormatInv, Inc("master")
  PROVE  FormatInv'
<1> DEFINE F == file["master"]
           e == end["master"]
           b == block_offset["master"]
           p == pro_offset["master"]
           w == writing["master"]
<1>1. FormatTypeOK /\ FileOK(F, e, b, p, w, put)
  BY DEF FormatInv
<1>2. /\ F \in SUBSET Record /\ e \in Nat /\ b \in 0..Block /\ p \in Nat /\ w \in WriteT
      /\ Items(put) /\ "master" \in Copy
  BY <1>1, Base
<1>3. /\ FormatTypeOK' /\ Only("master") /\ Written(w)
      /\ file'["master"] = F /\ end'["master"] = e /\ block_offset'["master"] = b
      /\ pro_offset'["master"] = p + w.size /\ writing'["master"] = NoWrite
      /\ Grows(put, w, p, p + w.size, put')
      /\ UNCHANGED <<reader, msg, sent, crossed, overrun, faults>>
  BY <1>1, <1>2, IncStep
<1>4. e = p + w.size
  BY <1>1 DEF FileOK, WriterOK
<1>5. Grows(put, w, p, e, put')
  BY <1>3, <1>4
<1> HIDE DEF F, e, b, p, w
<1>6. FileOK(F, e, b, e, NoWrite, put')
  BY <1>1, <1>2, <1>3, <1>5, IncFile
<1>7. Later(F, e, p, put, F, e, e, put')
  BY <1>1, <1>2, <1>3, <1>5, IncLater
<1>8. /\ FileOK(file'["master"], end'["master"], block_offset'["master"],
                pro_offset'["master"], writing'["master"], put')
      /\ Later(F, e, p, put, file'["master"], end'["master"], pro_offset'["master"], put')
  BY <1>3, <1>4, <1>6, <1>7
<1> QED BY <1>3, <1>8, LaterKept DEF F, e, p

LEMMA SlaveIncs ==
  ASSUME FormatInv, Inc("slave")
  PROVE  FormatInv'
<1> DEFINE F == file["master"]
           e == end["slave"]
           b == block_offset["slave"]
           p == pro_offset["slave"]
           w == writing["slave"]
<1>1. /\ FormatTypeOK
      /\ ~crossed => SlaveOK(F, put, file["slave"], e, b, p, w, reader, msg)
  BY DEF FormatInv
<1>2. w \in WriteT /\ "slave" \in Copy
  BY <1>1, Base
<1>3. /\ FormatTypeOK' /\ Only("slave") /\ Written(w)
      /\ file'["slave"] = file["slave"] /\ end'["slave"] = e /\ block_offset'["slave"] = b
      /\ pro_offset'["slave"] = p + w.size /\ writing'["slave"] = NoWrite /\ put' = put
      /\ UNCHANGED <<reader, msg, sent, crossed, overrun, faults>>
  BY <1>1, <1>2, IncStep
<1>4. ASSUME ~crossed
      PROVE  SlaveOK(F, put, file["slave"], e, b, p + w.size, NoWrite, reader, msg)
  <2> HIDE DEF F, e, b, p, w
  <2>1. /\ \A rec \in file["slave"] : CopiedRecord(F, put, rec)
        /\ CopyingOK(F, put, e, b, p, w) /\ StreamOK(put, p, w, reader, msg)
    BY <1>1, <1>4 DEF SlaveOK
  <2>2. /\ p + w.size = e /\ Target(put, e, NoWrite) = Target(put, p, w)
        /\ CopyingOK(F, put, e, b, e, NoWrite)
    BY <1>2, <1>3, <2>1, CopyInc
  <2>3. StreamOK(put, e, NoWrite, reader, msg)
    BY <2>1, <2>2 DEF StreamOK
  <2> QED BY <2>1, <2>2, <2>3 DEF SlaveOK
<1>5. NoWrite.left <= NoWrite.len
  BY DEF NoWrite
<1> QED BY <1>3, <1>4, <1>5, SlaveOnly

LEMMA Idle ==
  /\ NoWrite \in WriteT /\ NoReader \in ReaderT(Seq(Record)) /\ NoMsg \in MsgT
  /\ NoWrite.left <= NoWrite.len /\ At(0, 0) /\ Into(0) = 0
<1>1. Block \in Nat /\ 0 \in 0..Block
  BY Sizes
<1>2. Into(0) = 0
  <2>1. Into(0) \in Nat /\ BlockStart(0) \in Nat /\ BlockStart(0) = 0 - Into(0)
    BY BlockStartFacts
  <2> QED BY <2>1
<1>3. At(0, 0)
  BY <1>1, <1>2 DEF At
<1>4. NoWrite \in WriteT /\ NoWrite.left <= NoWrite.len
  BY DEF NoWrite, WriteT
<1>5. << >> \in Seq(Record)
  OBVIOUS
<1>6. NoMsg \in MsgT
  BY <1>5 DEF NoMsg, MsgT
<1>7. NoReader \in ReaderT(Seq(Record))
  BY <1>1, <1>5 DEF NoReader, ReaderT
<1> QED BY <1>2, <1>3, <1>4, <1>6, <1>7

LEMMA CrashStep ==
  ASSUME FormatTypeOK, NEW c \in Copy, Crash(c)
  PROVE  /\ FormatTypeOK' /\ Only(c)
         /\ file'[c] = {rec \in file[c] : rec.at < pro_offset[c]}
         /\ end'[c] = pro_offset[c] /\ block_offset'[c] = Into(pro_offset[c])
         /\ writing'[c] = NoWrite /\ reader' = NoReader /\ msg' = NoMsg
         /\ UNCHANGED <<pro_offset, put, sent, crossed, overrun>>
<1>0. TypeDisk /\ TypeRead
  BY TypeParts
<1> DEFINE p == pro_offset[c]
           H == {rec \in file[c] : rec.at < p}
<1>1. p \in Nat /\ H \in SUBSET Record
  BY <1>0 DEF TypeDisk
<1>2. Into(p) \in 0..Block
  BY <1>1, BlockStartFacts, Sizes
<1>3. /\ file' = [file EXCEPT ![c] = H] /\ end' = [end EXCEPT ![c] = p]
      /\ block_offset' = [block_offset EXCEPT ![c] = Into(p)]
      /\ writing' = [writing EXCEPT ![c] = NoWrite]
      /\ reader' = NoReader /\ msg' = NoMsg /\ faults < MaxFaults /\ faults' = faults + 1
      /\ UNCHANGED <<pro_offset, put, sent, crossed, overrun>>
  BY <1>0 DEF Crash, Load, Into, TypeDisk
<1> HIDE DEF p, H
<1>4. /\ file' \in [Copy -> SUBSET Record] /\ end' \in [Copy -> Nat]
      /\ block_offset' \in [Copy -> 0..Block] /\ writing' \in [Copy -> WriteT]
      /\ file'[c] = H /\ end'[c] = p /\ block_offset'[c] = Into(p) /\ writing'[c] = NoWrite
  BY <1>0, <1>1, <1>2, <1>3, Idle DEF TypeDisk
<1>5. TypeDisk' /\ Only(c)
  BY <1>0, <1>3, <1>4 DEF TypeDisk, Only
<1>6. faults' \in 0..MaxFaults
  BY <1>0, <1>3, FormatAssumption DEF TypeRead
<1>7. TypeRead'
  BY <1>0, <1>3, <1>6, Idle DEF TypeRead
<1>8. FormatTypeOK'
  BY <1>5, <1>7 DEF FormatTypeOK, TypeDisk, TypeRead, WriteT, ReaderT, MsgT, PutT
<1> QED BY <1>3, <1>4, <1>5, <1>8 DEF p, H

\* A sender without a task.
LEMMA Off ==
  ASSUME NEW F, NEW e, NEW p, NEW q, NEW s, NEW o, NEW w
  PROVE  /\ ReaderOK(F, e, p, q, NoReader, NoMsg, s) /\ MessageOK(q, NoMsg)
         /\ StreamOK(q, o, w, NoReader, NoMsg)
<1>1. NoReader.mode = "off" /\ NoReader.pos = 0 /\ NoReader.last = 0 /\ NoMsg.kind = "none"
  BY DEF NoReader, NoMsg
<1> QED BY <1>1, Idle DEF ReaderOK, MessageOK, StreamOK

LEMMA MasterCrashes ==
  ASSUME FormatInv, Crash("master")
  PROVE  FormatInv'
<1> DEFINE F == file["master"]
           e == end["master"]
           b == block_offset["master"]
           p == pro_offset["master"]
           w == writing["master"]
           H == {rec \in F : rec.at < p}
<1>1. /\ FormatTypeOK /\ FileOK(F, e, b, p, w, put)
      /\ writing["slave"].left <= writing["slave"].len
      /\ ~crossed => SlaveOK(F, put, file["slave"], end["slave"], block_offset["slave"],
                             pro_offset["slave"], writing["slave"], reader, msg)
  BY DEF FormatInv
<1>2. /\ F \in SUBSET Record /\ e \in Nat /\ b \in 0..Block /\ p \in Nat /\ w \in WriteT
      /\ Items(put) /\ "master" \in Copy /\ "slave" \in Copy
  BY <1>1, Base
<1>3. /\ FormatTypeOK' /\ Only("master") /\ file'["master"] = H
      /\ end'["master"] = p /\ block_offset'["master"] = Into(p)
      /\ writing'["master"] = NoWrite /\ reader' = NoReader /\ msg' = NoMsg
      /\ pro_offset' = pro_offset /\ put' = put /\ sent' = sent /\ crossed' = crossed
  BY <1>1, <1>2, CrashStep
<1>4. FileOK(H, p, Into(p), p, NoWrite, put)
  <2> HIDE DEF F, e, b, p, w
  <2> QED BY <1>1, <1>2, CrashFile
<1>5. ASSUME ~crossed
      PROVE  SlaveOK(H, put, file["slave"], end["slave"], block_offset["slave"],
                     pro_offset["slave"], writing["slave"], NoReader, NoMsg)
  <2>1. /\ \A rec \in file["slave"] : CopiedRecord(F, put, rec)
        /\ CopyingOK(F, put, end["slave"], block_offset["slave"], pro_offset["slave"],
                     writing["slave"])
    BY <1>1, <1>5 DEF SlaveOK
  <2>2. /\ CopyingOK(H, put, end["slave"], block_offset["slave"], pro_offset["slave"],
                     writing["slave"])
        /\ \A rec : CopiedRecord(F, put, rec) => CopiedRecord(H, put, rec)
    <3>1. H = Published(F, p)
      BY DEF Published
    <3> HIDE DEF F, e, b, p, w, H
    <3> QED BY <3>1, <1>1, <1>2, <2>1, CrashCopies
  <2> QED BY <2>1, <2>2, Off DEF SlaveOK
<1>6. /\ file'["slave"] = file["slave"] /\ end'["slave"] = end["slave"]
      /\ block_offset'["slave"] = block_offset["slave"]
      /\ writing'["slave"] = writing["slave"]
  BY <1>2, <1>3 DEF Only
<1> HIDE DEF F, e, b, p, w, H
<1>7. pro_offset'["master"] = p
  BY <1>3 DEF p
<1> QED BY <1>1, <1>3, <1>4, <1>5, <1>6, <1>7, Off DEF FormatInv

LEMMA SlaveCrashes ==
  ASSUME FormatInv, Crash("slave")
  PROVE  FormatInv'
<1> DEFINE F == file["master"]
           o == pro_offset["slave"]
           H == {rec \in file["slave"] : rec.at < o}
<1>1. /\ FormatTypeOK /\ FileOK(F, end["master"], block_offset["master"], pro_offset["master"],
                          writing["master"], put)
      /\ ~crossed => SlaveOK(F, put, file["slave"], end["slave"], block_offset["slave"],
                             o, writing["slave"], reader, msg)
  BY DEF FormatInv
<1>2. o \in Nat /\ "slave" \in Copy /\ "master" \in Copy
  BY <1>1, Base
<1>3. /\ FormatTypeOK' /\ Only("slave") /\ file'["slave"] = H
      /\ end'["slave"] = o /\ block_offset'["slave"] = Into(o)
      /\ writing'["slave"] = NoWrite /\ reader' = NoReader /\ msg' = NoMsg
      /\ pro_offset' = pro_offset /\ put' = put /\ sent' = sent /\ crossed' = crossed
  BY <1>1, <1>2, CrashStep
<1>4. ASSUME ~crossed
      PROVE  SlaveOK(F, put, H, o, Into(o), o, NoWrite, NoReader, NoMsg)
  <2>1. \A rec \in H : CopiedRecord(F, put, rec)
    BY <1>1, <1>4 DEF SlaveOK
  <2>2. At(o, Into(o)) /\ o = o + NoWrite.size /\ NoWrite.kind = "none"
    BY <1>2, BlockStartFacts, Sizes DEF At, NoWrite
  <2>3. CopyingOK(F, put, o, Into(o), o, NoWrite)
    BY <2>2 DEF CopyingOK
  <2> QED BY <2>1, <2>3, Off DEF SlaveOK
<1>5. /\ file'["master"] = file["master"] /\ end'["master"] = end["master"]
      /\ block_offset'["master"] = block_offset["master"]
      /\ writing'["master"] = writing["master"]
  BY <1>2, <1>3 DEF Only
<1>6. pro_offset'["slave"] = o /\ pro_offset'["master"] = pro_offset["master"]
  BY <1>3
<1> HIDE DEF F, o, H
<1> QED BY <1>1, <1>3, <1>4, <1>5, <1>6, Idle, Off DEF FormatInv, F

LEMMA BlockIsDamaged ==
  ASSUME FormatInv, Damage
  PROVE  FormatInv'
<1> DEFINE F == file["master"]
           e == end["master"]
           b == block_offset["master"]
           p == pro_offset["master"]
           w == writing["master"]
<1>1. FormatTypeOK /\ FileOK(F, e, b, p, w, put) /\ TypeDisk /\ TypeRead
  BY TypeParts DEF FormatInv
<1>2. /\ F \in SUBSET Record /\ e \in Nat /\ b \in 0..Block /\ p \in Nat /\ w \in WriteT
      /\ Items(put) /\ "master" \in Copy
  BY <1>1, Base
<1>3. PICK x \in F : /\ x.at < p /\ x.type # "bad"
                     /\ file' = [file EXCEPT !["master"] =
                                   (F \ {x}) \cup {[x EXCEPT !.type = "bad"]}]
  BY <1>1, <1>2 DEF Damage, TypeDisk
<1> DEFINE y == [x EXCEPT !.type = "bad"]
           H == (F \ {x}) \cup {y}
<1>4. /\ faults < MaxFaults /\ faults' = faults + 1
      /\ UNCHANGED <<end, block_offset, pro_offset, writing, reader, msg, put, sent, crossed,
                     overrun>>
  BY DEF Damage
<1>5. /\ y \in Record /\ y.type = "bad" /\ y.at = x.at /\ y.len = x.len /\ y.item = x.item
      /\ y.from = x.from
  BY <1>2 DEF Record, Type
<1>7. Hits(F, p, x, y)
  <2> HIDE DEF y
  <2> QED BY <1>3, <1>5 DEF Hits
<1>8. H \in SUBSET Record /\ H = (F \ {x}) \cup {y} /\ file' = [file EXCEPT !["master"] = H]
  BY <1>2, <1>3, <1>5
<1> HIDE DEF y, H
<1>9. /\ file'["master"] = H /\ file' \in [Copy -> SUBSET Record]
      /\ \A d \in Copy \ {"master"} : file'[d] = file[d]
  BY <1>1, <1>2, <1>8 DEF TypeDisk
<1>10. TypeDisk' /\ Only("master")
  BY <1>1, <1>4, <1>9 DEF TypeDisk, Only
<1>11. faults' \in 0..MaxFaults
  BY <1>1, <1>4, FormatAssumption DEF TypeRead
<1>12. TypeRead'
  BY <1>1, <1>4, <1>11 DEF TypeRead
<1>13. FormatTypeOK'
  BY <1>10, <1>12 DEF FormatTypeOK, TypeDisk, TypeRead, WriteT, ReaderT, MsgT, PutT
<1>14. /\ end'["master"] = e /\ block_offset'["master"] = b /\ pro_offset'["master"] = p
       /\ writing'["master"] = w /\ put' = put
  BY <1>4
<1> HIDE DEF F, e, b, p, w
<1>15. FileOK(H, e, b, p, w, put)
  BY <1>1, <1>2, <1>7, <1>8, DamageFile
<1>16. Later(F, e, p, put, H, e, p, put)
  BY <1>1, <1>2, <1>7, <1>8, DamageLater
<1>17. /\ FileOK(file'["master"], end'["master"], block_offset'["master"],
                 pro_offset'["master"], writing'["master"], put')
       /\ Later(F, e, p, put, file'["master"], end'["master"], pro_offset'["master"], put')
  BY <1>9, <1>14, <1>15, <1>16
<1> QED BY <1>4, <1>10, <1>13, <1>17, LaterKept DEF F, e, p

-----------------------------------------------------------------------------
(* Steps of the sender's task.                                             *)

\* The task moves, and the files are left alone.
LEMMA TaskOnly ==
  ASSUME FormatInv, TypeRead', UNCHANGED <<disk, put, crossed>>,
         ReaderOK(file["master"], end["master"], pro_offset["master"], put, reader', msg',
                  sent'),
         MessageOK(put, msg'),
         ~crossed => StreamOK(put, pro_offset["slave"], writing["slave"], reader', msg')
  PROVE  FormatInv'
<1>1. TypeDisk /\ TypeRead
  BY TypeParts DEF FormatInv
<1>2. /\ file' = file /\ end' = end /\ block_offset' = block_offset
      /\ pro_offset' = pro_offset /\ writing' = writing /\ put' = put /\ crossed' = crossed
  BY DEF disk
<1>3. TypeDisk'
  BY <1>1, <1>2 DEF TypeDisk
<1>4. FormatTypeOK'
  BY <1>3 DEF FormatTypeOK, TypeDisk, TypeRead, WriteT, ReaderT, MsgT, PutT
<1>5. ASSUME ~crossed
      PROVE  SlaveOK(file["master"], put, file["slave"], end["slave"], block_offset["slave"],
                     pro_offset["slave"], writing["slave"], reader', msg')
  BY <1>5 DEF FormatInv, SlaveOK
<1>6. /\ FileOK(file["master"], end["master"], block_offset["master"],
                pro_offset["master"], writing["master"], put)
      /\ writing["slave"].left <= writing["slave"].len
  BY DEF FormatInv
<1> QED BY <1>2, <1>4, <1>5, <1>6 DEF FormatInv

\* The task starts: at the block of the slave's end, on the way to it.
LEMMA SeekStarts ==
  ASSUME NEW F \in SUBSET Record, NEW e \in Nat, NEW b, NEW p \in Nat, NEW w \in WriteT,
         NEW q, Items(q), FileOK(F, e, b, p, w, q), NEW o \in Nat, o <= p, NEW s,
         NEW n, n.mode = IF Into(o) = 0 THEN "serve" ELSE "seek",
         n.pos = BlockStart(o), n.start = o, n.todo = Into(o), n.offset = o,
         n.size = 0, n.scratch = << >>, n.last = 0
  PROVE  ReaderOK(F, e, p, q, n, NoMsg, s)
<1> DEFINE t == BlockStart(o)
           k == Into(o)
<1>1. t \in Nat /\ k \in Nat /\ t = o - k /\ Into(t) = 0 /\ t <= o
  BY BlockStartFacts
<1>2. p <= e
  BY BehindEnd
<1>3. At(n.pos, n.last)
  BY <1>1, Sizes DEF At
<1>4. Clean(F, t)
  BY <1>1, CleanBlock
<1>5. Tiled(F, p) /\ Tiled(F, e)
  BY DEF FileOK
<1>6. t \in 0..e /\ t \in 0..p
  BY <1>1, <1>2
<1>7. Ready(F, t, e) /\ Ready(F, t, p)
  <2> HIDE DEF t
  <2> QED BY <1>1, <1>5, <1>6 DEF Tiled
<1>8. CASE k = 0
  <2>1. t = o /\ n.mode = "serve"
    BY <1>1, <1>8
  <2>2. Resumes(n, o, n)
    BY <2>1 DEF Resumes
  <2>3. Clean(F, o) /\ Ready(F, o, p)
    BY <2>1, <1>4, <1>7
  <2>4. ServeOK(F, p, q, n, s)
    BY <2>2, <2>3, SeekArrives
  <2> QED BY <2>1, <2>4, <1>3 DEF ReaderOK
<1>9. CASE k # 0
  <2>1. n.mode = "seek" /\ t < o /\ t + k = o + 0 /\ t <= t
    BY <1>1, <1>9
  <2>2. SeekOK(F, e, p, q, n)
    <3> HIDE DEF t, k
    <3>1. n.pos = t /\ n.todo = k /\ Into(n.start) = k /\ BlockStart(n.start) = t
      BY DEF t, k
    <3> QED BY <3>1, <2>1, <1>4, <1>7, <1>9 DEF SeekOK
  <2> QED BY <2>1, <2>2, <1>3 DEF ReaderOK
<1> QED BY <1>8, <1>9

LEMMA TaskIsAdded ==
  ASSUME FormatInv, Seek
  PROVE  FormatInv'
<1> DEFINE F == file["master"]
           e == end["master"]
           b == block_offset["master"]
           p == pro_offset["master"]
           w == writing["master"]
           o == pro_offset["slave"]
           n == [NoReader EXCEPT !.mode = IF Into(o) = 0 THEN "serve" ELSE "seek",
                                 !.pos = BlockStart(o), !.start = o,
                                 !.todo = Into(o), !.offset = o]
<1>1. /\ FormatTypeOK /\ FileOK(F, e, b, p, w, put) /\ TypeDisk /\ TypeRead
      /\ ReaderOK(F, e, p, put, reader, msg, sent) /\ MessageOK(put, msg)
  BY TypeParts DEF FormatInv
<1>2. /\ F \in SUBSET Record /\ e \in Nat /\ b \in 0..Block /\ p \in Nat /\ w \in WriteT
      /\ Items(put) /\ o \in Nat
  BY <1>1, Base
<1>3. /\ reader.mode \in {"off", "failed"} /\ writing["slave"] = NoWrite /\ o <= p
      /\ reader' = n /\ sent' = {}
      /\ UNCHANGED <<disk, msg, put, crossed, overrun, faults>>
  BY DEF Seek, Into
<1>4. msg = NoMsg
  BY <1>1, <1>3 DEF ReaderOK
<1>5. /\ n.mode = IF Into(o) = 0 THEN "serve" ELSE "seek"
      /\ n.pos = BlockStart(o) /\ n.start = o /\ n.todo = Into(o) /\ n.offset = o
      /\ n.size = 0 /\ n.scratch = << >> /\ n.last = 0
  BY DEF NoReader
<1>6. n \in ReaderT(Seq(Record))
  <2>1. BlockStart(o) \in Nat /\ Into(o) \in Nat
    BY <1>2, BlockStartFacts
  <2>2. NoReader \in ReaderT(Seq(Record))
    BY Idle
  <2> DEFINE mode == IF Into(o) = 0 THEN "serve" ELSE "seek"
             t == BlockStart(o)
             k == Into(o)
  <2>3. /\ mode \in {"off", "seek", "serve", "consume", "failed"} /\ t \in Nat /\ k \in Nat
        /\ n = [NoReader EXCEPT !.mode = mode, !.pos = t, !.start = o, !.todo = k, !.offset = o]
    BY <2>1
  <2> HIDE DEF mode, t, k, o, n
  <2> QED BY <1>2, <2>2, <2>3 DEF ReaderT
<1>7. TypeRead'
  BY <1>1, <1>3, <1>6 DEF TypeRead
<1> HIDE DEF n, F, e, b, p, w, o
<1>8. ReaderOK(F, e, p, put, n, NoMsg, {})
  BY <1>1, <1>2, <1>3, <1>5, SeekStarts
<1>9. StreamOK(put, o, writing["slave"], n, NoMsg)
  BY <1>3, <1>5 DEF StreamOK, Target, NoWrite
<1>10. reader' = n /\ msg' = NoMsg /\ sent' = {} /\ UNCHANGED <<disk, put, crossed, overrun>>
  BY <1>3, <1>4
<1> QED BY <1>1, <1>4, <1>7, <1>8, <1>9, <1>10, TaskOnly DEF F, e, p, o

LEMMA TaskIsProcessed ==
  ASSUME FormatInv, ProcessTask
  PROVE  FormatInv'
<1> DEFINE F == file["master"]
           e == end["master"]
           p == pro_offset["master"]
           n == [reader EXCEPT !.mode = "consume"]
<1>1. /\ FormatTypeOK /\ TypeRead
      /\ ReaderOK(F, e, p, put, reader, msg, sent) /\ MessageOK(put, msg)
      /\ ~crossed => StreamOK(put, pro_offset["slave"], writing["slave"], reader, msg)
  BY TypeParts DEF FormatInv, SlaveOK
<1>2. p \in Nat /\ reader \in ReaderT(Seq(Record)) /\ reader.offset \in Nat
  BY <1>1, Base DEF Reads
<1>3. /\ reader.mode = "serve" /\ msg = NoMsg /\ reader.offset # p /\ reader' = n
      /\ UNCHANGED <<disk, msg, put, sent, crossed, overrun, faults>>
  BY DEF ProcessTask
<1>4. /\ n \in ReaderT(Seq(Record)) /\ n.mode = "consume" /\ n.pos = reader.pos
      /\ n.last = reader.last /\ n.size = reader.size /\ n.scratch = reader.scratch
      /\ n.start = reader.start /\ n.offset = reader.offset
  BY <1>2 DEF ReaderT
<1> HIDE DEF n, F, e, p
<1>5. ServeOK(F, p, put, reader, sent) /\ At(reader.pos, reader.last)
  BY <1>1, <1>3 DEF ReaderOK
<1>6. ServeOK(F, p, put, n, sent)
  <2>1. /\ reader.pos = reader.offset + reader.size /\ reader.offset <= p
        /\ Clean(F, reader.offset) /\ reader.scratch = << >> /\ reader.size = 0
        /\ Ready(F, reader.pos, p) /\ NotTorn(F, put, reader)
        /\ \A i \in 1..Len(put) :
             put[i].from >= reader.start /\ put[i].to <= reader.offset /\ ~Hurt(F, put[i])
               => i \in sent
    BY <1>3, <1>5 DEF ServeOK
  <2>2. n.offset < p
    BY <2>1, <1>2, <1>3, <1>4
  <2>3. NotTorn(F, put, n)
    BY <2>1, <1>4 DEF NotTorn
  <2> QED BY <2>1, <2>2, <2>3, <1>4 DEF ServeOK
<1>7. ReaderOK(F, e, p, put, n, msg, sent)
  BY <1>3, <1>4, <1>5, <1>6 DEF ReaderOK
<1>8. ~crossed => StreamOK(put, pro_offset["slave"], writing["slave"], n, msg)
  BY <1>1, <1>3, <1>4 DEF StreamOK
<1>9. TypeRead'
  BY <1>1, <1>3, <1>4 DEF TypeRead
<1> QED BY <1>1, <1>3, <1>7, <1>8, <1>9, TaskOnly DEF F, e, p

\* The message is gone.
LEMMA MessageGone ==
  ASSUME NEW F, NEW e, NEW p, NEW q, NEW r, NEW m, NEW s, ReaderOK(F, e, p, q, r, m, s)
  PROVE  ReaderOK(F, e, p, q, r, NoMsg, s) /\ MessageOK(q, NoMsg)
<1>1. NoMsg.kind = "none"
  BY DEF NoMsg
<1> QED BY <1>1 DEF ReaderOK, MessageOK

LEMMA SlaveTakes ==
  ASSUME FormatInv, DoBinlog
  PROVE  FormatInv'
<1> DEFINE F == file["master"]
           e == end["master"]
           b == block_offset["master"]
           p == pro_offset["master"]
           w == writing["master"]
           o == pro_offset["slave"]
           i == msg.content[1].item
           z == Size(msg.content)
           kind == IF msg.kind = "cmd" THEN "item" ELSE "blank"
           item == IF msg.kind = "cmd" THEN i ELSE 0
           len == IF msg.kind = "cmd" THEN z ELSE msg.len
           v == Begun(kind, item, len)
           drop == msg.at # o \/ (msg.kind = "skip" /\ msg.len < Header)
<1>1. /\ FormatTypeOK /\ FileOK(F, e, b, p, w, put) /\ TypeDisk /\ TypeRead
      /\ ReaderOK(F, e, p, put, reader, msg, sent) /\ MessageOK(put, msg)
      /\ ~crossed => SlaveOK(F, put, file["slave"], end["slave"], block_offset["slave"],
                             o, writing["slave"], reader, msg)
      /\ writing["slave"].left <= writing["slave"].len
  BY TypeParts DEF FormatInv
<1>2. /\ F \in SUBSET Record /\ e \in Nat /\ b \in 0..Block /\ p \in Nat /\ w \in WriteT
      /\ Items(put) /\ o \in Nat /\ "slave" \in Copy /\ "master" \in Copy
      /\ msg \in MsgT
  BY <1>1, Base
<1>3. /\ msg # NoMsg /\ writing["slave"] = NoWrite /\ msg' = NoMsg
      /\ UNCHANGED <<file, end, block_offset, pro_offset, reader, put, sent, overrun, faults>>
  BY DEF DoBinlog
<1>4. msg.kind \in {"cmd", "skip"} /\ msg.len \in Nat /\ reader.mode = "serve"
  <2>1. msg.kind \in {"none", "cmd", "skip"} /\ msg.len \in Nat
    BY <1>2 DEF MsgT
  <2>2. msg.kind # "none"
    BY <1>1, <1>3 DEF MessageOK
  <2>3. reader.mode = "serve"
    BY <1>1, <1>3 DEF ReaderOK
  <2> QED BY <2>1, <2>2, <2>3
<1>5. drop => UNCHANGED <<writing, crossed>>
  BY DEF DoBinlog
<1>6. ~drop => /\ Write("slave", kind, item, len)
               /\ crossed' = (crossed \/ (kind = "blank"
                                            /\ ~Fits(block_offset["slave"], msg.len)))
  <2>1. CASE msg.kind = "cmd"
    <3>1. ~drop => Write("slave", "item", i, z) /\ UNCHANGED crossed
      BY <2>1 DEF DoBinlog
    <3>2. kind = "item" /\ item = i /\ len = z
      BY <2>1
    <3>3. crossed \in BOOLEAN
      BY <1>1 DEF TypeRead
    <3> HIDE DEF kind, item, len, drop, i, z
    <3> QED BY <3>1, <3>2, <3>3
  <2>2. CASE msg.kind = "skip"
    <3>1. ~drop => /\ Write("slave", "blank", 0, msg.len)
                   /\ crossed' = (crossed \/ ~Fits(block_offset["slave"], msg.len))
      BY <2>2 DEF DoBinlog
    <3>2. kind = "blank" /\ item = 0 /\ len = msg.len
      BY <2>2
    <3> HIDE DEF kind, item, len, drop, i, z
    <3> QED BY <3>1, <3>2
  <2> QED BY <2>1, <2>2, <1>4
<1>7. item \in Nat /\ len \in Nat /\ kind \in {"item", "blank"}
      /\ (~drop /\ kind = "blank" => len >= Header)
  <2>1. CASE msg.kind = "cmd"
    <3>1. i \in 1..Len(put) /\ z = put[i].len
      BY <2>1, <1>1 DEF MessageOK
    <3> HIDE DEF i, z
    <3>2. i \in Nat /\ z \in Nat
      BY <3>1, <1>2 DEF Items
    <3> QED BY <3>2, <2>1
  <2>2. CASE msg.kind = "skip"
    BY <2>2, <1>4, Sizes
  <2> QED BY <2>1, <2>2, <1>4
<1>8. ~drop => /\ TypeDisk' /\ Only("slave") /\ writing'["slave"] = v
               /\ v.left <= v.len
  <2> HIDE DEF kind, item, len, drop
  <2> QED BY <1>1, <1>2, <1>3, <1>6, <1>7, WriteStep
<1>9. /\ TypeDisk' /\ Only("slave") /\ writing'["slave"].left <= writing'["slave"].len
      /\ crossed' \in BOOLEAN
  <2>1. CASE drop
    BY <2>1, <1>1, <1>3, <1>5 DEF TypeDisk, TypeRead, Only
  <2>2. CASE ~drop
    <3>1. crossed' \in BOOLEAN
      BY <2>2, <1>6
    <3> HIDE DEF kind, item, len, drop, v
    <3> QED BY <2>2, <1>8, <3>1
  <2> QED BY <2>1, <2>2
<1>10. TypeRead'
  BY <1>1, <1>3, <1>9, Idle DEF TypeRead
<1>11. FormatTypeOK'
  BY <1>9, <1>10 DEF FormatTypeOK, TypeDisk, TypeRead, WriteT, ReaderT, MsgT, PutT
<1>12. ReaderOK(F, e, p, put, reader, NoMsg, sent) /\ MessageOK(put, NoMsg)
  BY <1>1, MessageGone
<1>13. ASSUME ~crossed'
       PROVE  SlaveOK(F, put, file["slave"], end["slave"], block_offset["slave"],
                      o, writing'["slave"], reader, NoMsg)
  <2>1. ~crossed
    BY <1>5, <1>6, <1>13
  <2>2. /\ \A rec \in file["slave"] : CopiedRecord(F, put, rec)
        /\ CopyingOK(F, put, end["slave"], block_offset["slave"], o, NoWrite)
        /\ StreamOK(put, o, NoWrite, reader, msg)
    BY <2>1, <1>1, <1>3 DEF SlaveOK
  <2>3. msg.at = o /\ reader.offset = msg.at + msg.len /\ msg.len >= Header
    BY <2>2, <1>3, <1>4 DEF StreamOK, Target, NoWrite
  <2>4. ~drop
    BY <2>3, <1>4, Sizes
  <2>5. writing'["slave"] = v /\ (kind = "item" \/ Fits(block_offset["slave"], msg.len))
    BY <2>4, <2>1, <1>6, <1>7, <1>8, <1>13
  <2>6. /\ v.kind = kind /\ v.item = item /\ v.len = len /\ v.begin /\ v.size = 0
        /\ v.left = IF kind = "blank" THEN len - Header ELSE len
    BY DEF Begun
  <2>7. CopyingOK(F, put, end["slave"], block_offset["slave"], o, v)
        /\ Target(put, o, v) = msg.at + msg.len
    <3>1. CASE msg.kind = "cmd"
      <4>1. v.kind = "item" /\ v.item = msg.content[1].item /\ v.len = Size(msg.content)
            /\ v.left = v.len /\ v.begin /\ v.size = 0
        BY <3>1, <2>6
      <4> HIDE DEF v, F, e, b, p, w, o
      <4> QED BY <4>1, <3>1, <2>2, <2>3, <1>1, <1>2, CopyStart
    <3>2. CASE msg.kind = "skip"
      <4> DEFINE ln == msg.len
      <4>1. v.kind = "blank" /\ v.len = ln /\ v.left = ln - Header /\ v.begin /\ v.size = 0
        BY <3>2, <2>6
      <4>2. ln \in Nat /\ ln >= Header /\ Fits(block_offset["slave"], ln) /\ msg.at + msg.len = o + ln
        BY <3>2, <2>3, <2>5, <1>4
      <4> HIDE DEF v, F, e, b, p, w, o, ln
      <4>3. CopyingOK(F, put, end["slave"], block_offset["slave"], o, v)
            /\ Target(put, o, v) = o + ln
        BY <4>1, <4>2, <2>2, <1>2, BlankStart
      <4> QED BY <4>2, <4>3
    <3> QED BY <3>1, <3>2, <1>4
  <2> HIDE DEF v, kind, item, len
  <2>8. StreamOK(put, o, v, reader, NoMsg)
    BY <2>3, <2>7 DEF StreamOK
  <2> QED BY <2>2, <2>5, <2>7, <2>8 DEF SlaveOK
<1>14. /\ file' = file /\ end' = end /\ block_offset' = block_offset
       /\ pro_offset' = pro_offset /\ reader' = reader /\ put' = put /\ sent' = sent
       /\ msg' = NoMsg /\ writing'["master"] = w
  BY <1>2, <1>3, <1>9 DEF Only
<1> HIDE DEF F, e, b, p, w, o, v, kind, item, len, drop
<1> QED BY <1>1, <1>9, <1>11, <1>12, <1>13, <1>14 DEF FormatInv, F, e, b, p, w, o

-----------------------------------------------------------------------------
(* A round of Consume.                                                     *)

\* The reader that has read rec, that serves from where it is, that goes on
\* seeking, and that has failed.
Take(r, rec) ==
  [r EXCEPT !.pos = @ + Header + rec.len, !.last = @ + Header + rec.len,
            !.size = @ + Header + rec.len, !.scratch = Append(@, rec)]
Served(s) ==
  [[s EXCEPT !.mode = "serve", !.size = 0, !.scratch = << >>] EXCEPT !.offset = @ + s.size]
Landed(s) == [s EXCEPT !.mode = "serve", !.size = 0, !.todo = 0, !.scratch = << >>]
Goes(s) == [s EXCEPT !.todo = @ - s.size, !.size = 0, !.scratch = << >>]
Failed(s) == [NoReader EXCEPT !.mode = "failed", !.start = s.start]

\* The numbers in it.
Sums(a, k, x, z, j, pos, last, size) ==
  pos = a + Header + k /\ last = j + Header + k /\ size = (z + (a - x)) + Header + k

LEMMA TakeSums ==
  ASSUME NEW a \in Nat, NEW k \in Nat, NEW x \in Nat, NEW z \in Nat, NEW j \in Nat, x <= a,
         j + Header + k <= Block, NEW pos, NEW last, NEW size,
         Sums(a, k, x, z, j, pos, last, size)
  PROVE  pos \in Nat /\ last \in 0..Block /\ size = z + (pos - x) /\ size \in Nat
BY Sizes DEF Sums

LEMMA TakeFacts ==
  ASSUME NEW S, NEW r \in ReaderT(S), At(r.pos, r.last), NEW rec \in Record,
         rec.at = Padded(r.pos), Into(rec.at) + Header + rec.len <= Block,
         Append(r.scratch, rec) \in S
  PROVE  LET g == Take(NextRecord(r), rec) IN
         /\ g \in ReaderT(S) /\ Got(r, rec, g)
         /\ g.last = Into(rec.at) + Header + rec.len
<1> DEFINE n == NextRecord(r)
           g == Take(n, rec)
           t == Append(n.scratch, rec)
           pos == n.pos + Header + rec.len
           last == n.last + Header + rec.len
           size == n.size + Header + rec.len
<1>1. /\ n \in ReaderT(S) /\ n.pos = Padded(r.pos) /\ n.last = Into(Padded(r.pos))
      /\ n.size = r.size + (Padded(r.pos) - r.pos)
      /\ n.scratch = r.scratch /\ n.mode = r.mode /\ n.start = r.start /\ n.todo = r.todo
      /\ n.offset = r.offset
  BY NextRecordFacts
<1>2. r.pos \in Nat /\ r.size \in Nat
  BY ReaderFields DEF Reads
<1>3. rec.at \in Nat /\ rec.len \in Nat /\ Into(rec.at) \in Nat /\ Header \in Nat /\ Block \in Nat
  BY RecordFacts, Sizes
<1>4. t \in S /\ t = Append(r.scratch, rec)
  BY <1>1, <1>2
<1>5. /\ pos = Stop(rec) /\ pos \in Nat
      /\ last = Into(rec.at) + Header + rec.len /\ last \in 0..Block
      /\ size = r.size + (Stop(rec) - r.pos) /\ size \in Nat
  <2> DEFINE a == rec.at
             k == rec.len
             x == r.pos
             z == r.size
             j == Into(a)
  <2>1. /\ a \in Nat /\ k \in Nat /\ x \in Nat /\ z \in Nat /\ j \in Nat
        /\ a = Padded(x) /\ j + Header + k <= Block
        /\ pos = a + Header + k /\ last = j + Header + k /\ size = (z + (a - x)) + Header + k
        /\ Stop(rec) = a + Header + k /\ Sums(a, k, x, z, j, pos, last, size)
    BY <1>1, <1>2, <1>3 DEF Stop, Sums
  <2>2. x <= a
    <3> HIDE DEF a, x, pos, last, size
    <3> QED BY <2>1, PaddedFacts
  <2> HIDE DEF a, k, x, z, j, pos, last, size
  <2>3. pos \in Nat /\ last \in 0..Block /\ size = z + (pos - x) /\ size \in Nat
    BY <2>1, <2>2, TakeSums, SMTT(30)
  <2>4. pos = Stop(rec)
    BY <2>1
  <2>5. size = z + (Stop(rec) - x)
    BY <2>3, <2>4
  <2> QED BY <2>1, <2>3, <2>4, <2>5 DEF a, k, x, z, j
<1>6. At(pos, last)
  <2> DEFINE a == rec.at
             k == Header + rec.len
  <2>1. a \in Nat /\ k \in Nat /\ Into(a) + k <= Block /\ pos = a + k /\ last = Into(a) + k
    BY <1>1, <1>3, <1>5
  <2> HIDE DEF a, k, pos, last
  <2> QED BY <2>1, AtAfter
<1>7. g = [n EXCEPT !.pos = pos, !.last = last, !.size = size, !.scratch = t]
  BY DEF Take
<1> HIDE DEF n, g, t, pos, last, size
<1>8. /\ g \in ReaderT(S) /\ g.pos = pos /\ g.last = last /\ g.size = size
      /\ g.scratch = t /\ g.mode = n.mode /\ g.start = n.start /\ g.todo = n.todo
      /\ g.offset = n.offset
  BY <1>1, <1>4, <1>5, <1>7 DEF ReaderT
<1>9. Got(r, rec, g)
  BY <1>1, <1>4, <1>5, <1>6, <1>8 DEF Got
<1> QED BY <1>5, <1>8, <1>9 DEF g, n

LEMMA SkipFacts ==
  ASSUME NEW S, NEW s \in ReaderT(S)
  PROVE  LET n == SkipNextBlock(s) IN
         /\ n \in ReaderT(S) /\ n.pos = s.pos + (Block - s.last)
         /\ n.size = s.size + (Block - s.last) /\ n.last = 0
         /\ n.mode = s.mode /\ n.scratch = s.scratch /\ n.start = s.start
         /\ n.todo = s.todo /\ n.offset = s.offset
<1> DEFINE pos == s.pos + Block - s.last
           size == s.size + Block - s.last
           n == SkipNextBlock(s)
<1>1. s.pos \in Nat /\ s.size \in Nat /\ s.last \in 0..Block /\ Block \in Nat
  BY ReaderFields, Sizes DEF Reads
<1>2. /\ pos \in Nat /\ pos = s.pos + (Block - s.last)
      /\ size \in Nat /\ size = s.size + (Block - s.last) /\ 0 \in 0..Block
  <2> DEFINE x == s.pos
             z == s.size
             l == s.last
  <2>1. x \in Nat /\ z \in Nat /\ l \in 0..Block
    BY <1>1
  <2> HIDE DEF x, z, l
  <2>2. /\ x + Block - l \in Nat /\ x + Block - l = x + (Block - l)
        /\ z + Block - l \in Nat /\ z + Block - l = z + (Block - l) /\ 0 \in 0..Block
    BY <2>1, <1>1
  <2> QED BY <2>2 DEF x, z, l
<1>3. n = [s EXCEPT !.pos = pos, !.size = size, !.last = 0]
  BY DEF SkipNextBlock
<1> HIDE DEF pos, size, n
<1>4. /\ n \in ReaderT(S) /\ n.pos = pos /\ n.size = size /\ n.last = 0
      /\ n.mode = s.mode /\ n.scratch = s.scratch /\ n.start = s.start
      /\ n.todo = s.todo /\ n.offset = s.offset
  BY <1>2, <1>3 DEF ReaderT
<1> QED BY <1>2, <1>4 DEF n

LEMMA ServedFacts ==
  ASSUME NEW S, << >> \in S, NEW s \in ReaderT(S)
  PROVE  LET n == Served(s) IN
         /\ n \in ReaderT(S) /\ n.mode = "serve" /\ n.pos = s.pos /\ n.last = s.last
         /\ n.size = 0 /\ n.scratch = << >> /\ n.start = s.start /\ n.todo = s.todo
         /\ n.offset = s.offset + s.size
<1> DEFINE o == s.offset + s.size
           n == Served(s)
<1>1. s.offset \in Nat /\ s.size \in Nat
  BY ReaderFields DEF Reads
<1>2. o \in Nat
  BY <1>1
<1>3. n = [s EXCEPT !.mode = "serve", !.size = 0, !.scratch = << >>, !.offset = o]
  BY DEF Served, ReaderT
<1> HIDE DEF n, o
<1>4. /\ n \in ReaderT(S) /\ n.mode = "serve" /\ n.pos = s.pos /\ n.last = s.last
      /\ n.size = 0 /\ n.scratch = << >> /\ n.start = s.start /\ n.todo = s.todo
      /\ n.offset = o
  BY <1>2, <1>3 DEF ReaderT
<1> QED BY <1>4 DEF n, o

LEMMA LandedFacts ==
  ASSUME NEW S, << >> \in S, NEW s \in ReaderT(S)
  PROVE  LET n == Landed(s) IN
         /\ n \in ReaderT(S) /\ n.mode = "serve" /\ n.pos = s.pos /\ n.last = s.last
         /\ n.size = 0 /\ n.scratch = << >> /\ n.start = s.start /\ n.offset = s.offset
BY DEF Landed, ReaderT

LEMMA GoesFacts ==
  ASSUME NEW S, << >> \in S, NEW s \in ReaderT(S), s.todo - s.size \in Nat
  PROVE  LET n == Goes(s) IN
         /\ n \in ReaderT(S) /\ n.mode = s.mode /\ n.pos = s.pos /\ n.last = s.last
         /\ n.size = 0 /\ n.scratch = << >> /\ n.start = s.start /\ n.offset = s.offset
         /\ n.todo = s.todo - s.size
<1> DEFINE d == s.todo - s.size
           n == Goes(s)
<1>1. d \in Nat /\ n = [s EXCEPT !.todo = d, !.size = 0, !.scratch = << >>]
  BY DEF Goes
<1> HIDE DEF d, n
<1>2. /\ n \in ReaderT(S) /\ n.mode = s.mode /\ n.pos = s.pos /\ n.last = s.last
      /\ n.size = 0 /\ n.scratch = << >> /\ n.start = s.start /\ n.offset = s.offset
      /\ n.todo = d
  BY <1>1 DEF ReaderT
<1> QED BY <1>2 DEF d, n

LEMMA FailedFacts ==
  ASSUME NEW s, s.start \in Nat
  PROVE  LET n == Failed(s) IN
         /\ n \in ReaderT(Seq(Record)) /\ n.mode = "failed" /\ n.start = s.start
         /\ n.pos = 0 /\ n.last = 0
<1> DEFINE t == s.start
           n == Failed(s)
<1>1. t \in Nat /\ n = [NoReader EXCEPT !.mode = "failed", !.start = t]
  BY DEF Failed
<1>2. NoReader \in ReaderT(Seq(Record)) /\ NoReader.pos = 0 /\ NoReader.last = 0
  BY Idle DEF NoReader
<1> HIDE DEF t, n
<1>3. /\ n \in ReaderT(Seq(Record)) /\ n.mode = "failed" /\ n.start = t
      /\ n.pos = 0 /\ n.last = 0
  BY <1>1, <1>2 DEF ReaderT
<1> QED BY <1>3 DEF t, n

LEMMA ReadFinds ==
  ASSUME FormatInv, NEW rec \in file["master"], NEW x, x = rec.at
  PROVE  ReadPhysicalRecord(x) = rec
<1> DEFINE F == file["master"]
           e == end["master"]
           b == block_offset["master"]
           p == pro_offset["master"]
           w == writing["master"]
           c == CHOOSE own \in F : own.at = x
<1>1. FormatTypeOK /\ FileOK(F, e, b, p, w, put)
  BY DEF FormatInv
<1>2. F \in SUBSET Record /\ e \in Nat /\ p \in Nat /\ w \in WriteT /\ Items(put)
  BY <1>1, Base
<1>3. \E own \in F : own.at = x
  OBVIOUS
<1>4. ReadPhysicalRecord(x) = c /\ c \in F /\ c.at = x
  BY <1>3 DEF ReadPhysicalRecord
<1> HIDE DEF F, e, b, p, w, c
<1>5. rec \in F
  BY DEF F
<1>6. c = rec
  BY <1>1, <1>2, <1>4, <1>5, SameAt
<1> QED BY <1>4, <1>6

\* A round: the reader n that has skipped the padding, and what it reads.
LEMMA ConsumeStep ==
  ASSUME Consume, NEW n, n = NextRecord(reader), NEW rec, rec = ReadPhysicalRecord(n.pos),
         NEW st, st = IF n.pos >= end["master"] THEN "eof"
                      ELSE Consumed(rec.type, n.scratch # << >>),
         NEW s, s = IF st = "eof" THEN n ELSE Take(n, rec)
  PROVE  /\ reader.mode \in {"seek", "consume"}
         /\ st = "more" => reader' = Take(n, rec) /\ UNCHANGED <<msg, sent>>
         /\ st # "more" /\ reader.mode = "seek" => SeekOn(st, s)
         /\ st # "more" /\ reader.mode = "consume" => ProcessEnds(st, s)
         /\ UNCHANGED <<disk, put, crossed, faults>>
BY DEF Consume, Take

\* Whether the task has gone past what the producer has finished.
LEMMA OverrunSeen ==
  ASSUME FormatInv, Consume
  PROVE  /\ overrun' \in BOOLEAN
         /\ ~overrun' => ~(reader'.offset > pro_offset["master"])
<1>1. overrun \in BOOLEAN
  BY DEF FormatInv, FormatTypeOK
<1>2. overrun' = (overrun \/ reader'.offset > pro_offset["master"])
  BY DEF Consume
<1> DEFINE past == reader'.offset > pro_offset["master"]
<1>3. past \in BOOLEAN /\ overrun' = (overrun \/ past)
  BY <1>2
<1> HIDE DEF past
<1>4. overrun' \in BOOLEAN /\ (~overrun' => ~past)
  BY <1>1, <1>3
<1> QED BY <1>4 DEF past

LEMMA SeekOnFacts ==
  ASSUME NEW st, NEW r, SeekOn(st, r), NEW s, s = IF st = "ioerror" THEN SkipNextBlock(r) ELSE r
  PROVE  /\ (st = "eof" \/ s.size > s.todo) => reader' = Failed(s)
         /\ ~(st = "eof" \/ s.size > s.todo) /\ s.size = s.todo => reader' = Landed(s)
         /\ ~(st = "eof" \/ s.size > s.todo) /\ s.size # s.todo => reader' = Goes(s)
         /\ UNCHANGED <<msg, sent>>
BY DEF SeekOn, Failed, Landed, Goes

LEMMA ProcessEndsFacts ==
  ASSUME NEW st, NEW r, ProcessEnds(st, r), st # "eof",
         NEW s, s = IF st = "ioerror" THEN SkipNextBlock(r) ELSE r
  PROVE  /\ reader' = Served(s)
         /\ msg' = [kind |-> IF st = "ok" THEN "cmd" ELSE "skip", at |-> s.offset,
                    len |-> s.size, content |-> IF st = "ok" THEN s.scratch ELSE << >>]
         /\ sent' = IF st = "ok" THEN sent \cup {s.scratch[1].item} ELSE sent
BY DEF ProcessEnds, Served

LEMMA ConsumedFacts ==
  ASSUME NEW type \in Type, NEW inside \in BOOLEAN
  PROVE  /\ Consumed(type, inside) \in {"ok", "more", "incomplete", "ioerror"}
         /\ Consumed(type, inside) = "ioerror" <=> type = "bad"
BY DEF Consumed, Type

\* What the reader r finds at its position when it has read rec, of which nothing
\* crosses the block.
LEMMA TakeIs ==
  ASSUME FormatInv, Consume, NEW rec \in file["master"], rec.at = Padded(reader.pos),
         rec.at < end["master"], NEW g, g = Take(NextRecord(reader), rec),
         NEW st, st = Consumed(rec.type, reader.scratch # << >>)
  PROVE  /\ g \in ReaderT(Seq(Record)) /\ Got(reader, rec, g)
         /\ g.last = Into(rec.at) + Header + rec.len
         /\ st \in {"ok", "more", "incomplete", "ioerror"}
         /\ st = "ioerror" <=> rec.type = "bad"
         /\ st = "more" => reader' = g /\ UNCHANGED <<msg, sent>>
         /\ st # "more" /\ reader.mode = "seek" => SeekOn(st, g)
         /\ st # "more" /\ reader.mode = "consume" => ProcessEnds(st, g)
         /\ UNCHANGED <<disk, put, crossed, faults>>
<1> DEFINE F == file["master"]
           e == end["master"]
           b == block_offset["master"]
           p == pro_offset["master"]
           w == writing["master"]
           n == NextRecord(reader)
<1>1. /\ FormatTypeOK /\ FileOK(F, e, b, p, w, put)
      /\ ReaderOK(F, e, p, put, reader, msg, sent)
  BY DEF FormatInv
<1>2. /\ F \in SUBSET Record /\ e \in Nat /\ reader \in ReaderT(Seq(Record))
      /\ Buffer(reader)
  BY <1>1, Base
<1>3. rec \in Record /\ RecordOK(F, e, p, w, put, rec) /\ rec.at \in Nat
  BY <1>1, <1>2, FileRecord
<1>4. Into(rec.at) + Header + rec.len <= Block
  BY <1>3 DEF RecordOK, PlaceOK
<1>5. At(reader.pos, reader.last)
  BY <1>1 DEF ReaderOK
<1>6. Append(reader.scratch, rec) \in Seq(Record)
  BY <1>2, <1>3 DEF Buffer
<1>7. /\ g \in ReaderT(Seq(Record)) /\ Got(reader, rec, g)
      /\ g.last = Into(rec.at) + Header + rec.len
  BY <1>2, <1>3, <1>4, <1>5, <1>6, TakeFacts
<1>8. n.pos = rec.at /\ n.scratch = reader.scratch
  BY <1>2, <1>5, NextRecordFacts
<1>9. rec = ReadPhysicalRecord(n.pos)
  BY <1>8, ReadFinds
<1>10. /\ st \in {"ok", "more", "incomplete", "ioerror"}
       /\ st = "ioerror" <=> rec.type = "bad"
  <2>1. rec.type \in Type
    BY <1>3, RecordFacts
  <2> DEFINE inside == reader.scratch # << >>
  <2>2. inside \in BOOLEAN /\ st = Consumed(rec.type, inside)
    OBVIOUS
  <2> HIDE DEF inside
  <2> QED BY <2>1, <2>2, ConsumedFacts
<1>11. ~(n.pos >= end["master"])
  <2> DEFINE a == n.pos
  <2>1. a \in Nat /\ a < e
    BY <1>3, <1>8
  <2> HIDE DEF a, e
  <2>2. ~(a >= e)
    BY <2>1, <1>2
  <2> QED BY <2>2 DEF a, e
<1>12. st = IF n.pos >= end["master"] THEN "eof" ELSE Consumed(rec.type, n.scratch # << >>)
  BY <1>8, <1>11
<1>13. g = IF st = "eof" THEN n ELSE Take(n, rec)
  BY <1>10
<1> HIDE DEF n
<1>14. n = NextRecord(reader)
  BY DEF n
<1>15. g = Take(n, rec)
  BY DEF n
<1>16. /\ st = "more" => reader' = Take(n, rec) /\ UNCHANGED <<msg, sent>>
       /\ st # "more" /\ reader.mode = "seek" => SeekOn(st, g)
       /\ st # "more" /\ reader.mode = "consume" => ProcessEnds(st, g)
       /\ UNCHANGED <<disk, put, crossed, faults>>
  BY <1>9, <1>12, <1>13, <1>14, ConsumeStep
<1> QED BY <1>7, <1>10, <1>15, <1>16

\* Where the reader is after a record, or after the rest of its block.
LEMMA TakenFrom ==
  ASSUME NEW r, Reads(r), NEW rec \in Record, rec.at = Padded(r.pos), NEW g, Got(r, rec, g)
  PROVE  /\ g.size \in Nat /\ g.size >= Header
         /\ g.size - r.size = Stop(rec) - r.pos
         /\ g.size = r.size + (Stop(rec) - r.pos)
<1> DEFINE x == r.pos
           z == r.size
           a == rec.at
           k == rec.len
           d == g.size
<1>1. /\ x \in Nat /\ z \in Nat /\ a \in Nat /\ k \in Nat /\ a = Padded(x)
      /\ Stop(rec) = a + Header + k /\ d = z + (Stop(rec) - x)
  BY RecordFacts DEF Reads, Got, Stop
<1> HIDE DEF x, z, a, k, d
<1>2. x <= a
  BY <1>1, PaddedFacts
<1>3. d \in Nat /\ d >= Header /\ d - z = Stop(rec) - x
  BY <1>1, <1>2, Sizes
<1> QED BY <1>1, <1>3 DEF x, z, d

LEMMA SkippedTo ==
  ASSUME NEW F \in SUBSET Record, NEW e \in Nat, NEW b, NEW p \in Nat, NEW w \in WriteT,
         NEW q, Items(q), FileOK(F, e, b, p, w, q), NEW rec \in F, NEW r, NEW g,
         Got(r, rec, g), g.last = Into(rec.at) + Header + rec.len
  PROVE  /\ Block - g.last \in Nat
         /\ g.pos + (Block - g.last) = BlockStart(rec.at) + Block
         /\ Stop(rec) + (Block - g.last) = BlockStart(rec.at) + Block
         /\ At(BlockStart(rec.at) + Block, 0)
<1> DEFINE a == rec.at
           k == rec.len
           j == Into(a)
           l == g.last
<1>1. /\ a \in Nat /\ k \in Nat /\ RecordOK(F, e, p, w, q, rec)
      /\ Stop(rec) = a + Header + k /\ g.pos = Stop(rec)
  BY FileRecord DEF Got, Stop
<1>2. j + Header + k <= Block /\ l = j + Header + k
  BY <1>1 DEF RecordOK, PlaceOK
<1>3. /\ BlockStart(a) \in Nat /\ BlockStart(a) + Block \in Nat
      /\ Into(BlockStart(a) + Block) = 0
  BY BlockEnd
<1>4. j \in Nat /\ BlockStart(a) = a - j
  BY <1>1, BlockStartFacts
<1> HIDE DEF a, k, j, l
<1>5. Block - l \in Nat /\ Stop(rec) + (Block - l) = BlockStart(a) + Block
  BY <1>1, <1>2, <1>4, Sizes
<1>6. At(BlockStart(a) + Block, 0)
  BY <1>3, Sizes DEF At
<1> QED BY <1>1, <1>5, <1>6 DEF a, l

\* ProcessTask's Consume ends: the message and where the task goes on.
Ends(st, r, rec, g, s, m, n) ==
  /\ s = IF st = "ioerror" THEN SkipNextBlock(g) ELSE g
  /\ n = Served(s)
  /\ m = [kind |-> IF st = "ok" THEN "cmd" ELSE "skip", at |-> s.offset,
          len |-> s.size, content |-> IF st = "ok" THEN s.scratch ELSE << >>]

LEMMA EndsWhere ==
  ASSUME NEW F \in SUBSET Record, NEW e \in Nat, NEW b, NEW p \in Nat, NEW w \in WriteT,
         NEW q, Items(q), FileOK(F, e, b, p, w, q), NEW rec \in F, NEW r, Reads(r),
         rec.at = Padded(r.pos), r.pos = r.offset + r.size,
         NEW S, << >> \in S, NEW g \in ReaderT(S), Got(r, rec, g),
         g.last = Into(rec.at) + Header + rec.len, NEW st, NEW s, NEW m, NEW n,
         Ends(st, r, rec, g, s, m, n)
  PROVE  /\ n \in ReaderT(S) /\ At(n.pos, n.last)
         /\ st = "ioerror" => Resumes(r, BlockStart(rec.at) + Block, n)
         /\ st # "ioerror" => Resumes(r, Stop(rec), n)
         /\ m.at = r.offset /\ n.offset = m.at + m.len /\ m.len >= Header
         /\ m.at \in Nat /\ m.len \in Nat
         /\ st = "ok" => m.kind = "cmd" /\ m.content = g.scratch
         /\ st # "ok" => m.kind = "skip" /\ m.content = << >>
<1> DEFINE o == r.offset
           z == r.size
           x == r.pos
           d == g.size
           c == Block - g.last
<1>1. o \in Nat /\ z \in Nat /\ x \in Nat /\ x = o + z /\ rec \in Record /\ Stop(rec) \in Nat
  BY FileRecord DEF Reads
<1>2. d \in Nat /\ d >= Header /\ d = z + (Stop(rec) - x)
  BY <1>1, TakenFrom
<1>3. /\ c \in Nat /\ g.pos + c = BlockStart(rec.at) + Block
      /\ Stop(rec) + c = BlockStart(rec.at) + Block /\ At(BlockStart(rec.at) + Block, 0)
  BY SkippedTo
<1>4. /\ g.pos = Stop(rec) /\ At(g.pos, g.last) /\ g.mode = r.mode /\ g.start = r.start
      /\ g.offset = o
  BY DEF Got
<1>5. /\ n \in ReaderT(S) => TRUE
      /\ m.at = s.offset /\ m.len = s.size
      /\ st = "ok" => m.kind = "cmd" /\ m.content = s.scratch
      /\ st # "ok" => m.kind = "skip" /\ m.content = << >>
  BY DEF Ends
<1>6. CASE st = "ioerror"
  <2>1. /\ s \in ReaderT(S) /\ s.pos = BlockStart(rec.at) + Block /\ s.last = 0
        /\ s.size = d + c /\ s.offset = o /\ s.start = r.start
    BY <1>3, <1>4, <1>6, SkipFacts DEF Ends
  <2>2. /\ n \in ReaderT(S) /\ n.mode = "serve" /\ n.pos = s.pos /\ n.last = s.last
        /\ n.size = 0 /\ n.scratch = << >> /\ n.start = s.start /\ n.offset = s.offset + s.size
    BY <2>1, ServedFacts DEF Ends
  <2>3. o + (d + c) = Stop(rec) + c /\ d + c >= Header /\ d + c \in Nat
    <3> HIDE DEF o, z, x, d, c
    <3> QED BY <1>1, <1>2, <1>3, Sizes
  <2> HIDE DEF o, z, x, d, c
  <2>4. n.offset = BlockStart(rec.at) + Block
    BY <1>3, <2>1, <2>2, <2>3
  <2>5. Resumes(r, BlockStart(rec.at) + Block, n)
    BY <2>1, <2>2, <2>4 DEF Resumes
  <2> QED BY <1>1, <1>3, <1>5, <1>6, <2>1, <2>2, <2>3, <2>5 DEF o
<1>7. CASE st # "ioerror"
  <2>1. s = g
    BY <1>7 DEF Ends
  <2>2. /\ n \in ReaderT(S) /\ n.mode = "serve" /\ n.pos = s.pos /\ n.last = s.last
        /\ n.size = 0 /\ n.scratch = << >> /\ n.start = s.start /\ n.offset = s.offset + s.size
    BY <2>1, ServedFacts DEF Ends
  <2>3. o + d = Stop(rec)
    <3> HIDE DEF o, z, x, d, c
    <3> QED BY <1>1, <1>2, Sizes
  <2>4. n.offset = Stop(rec)
    BY <1>4, <2>1, <2>2, <2>3
  <2>5. Resumes(r, Stop(rec), n)
    BY <1>4, <2>1, <2>2, <2>4 DEF Resumes
  <2> QED BY <1>1, <1>2, <1>4, <1>5, <1>7, <2>1, <2>2, <2>5
<1> QED BY <1>6, <1>7

LEMMA TaskReads ==
  ASSUME FormatInv, Consume, reader.mode = "consume", ~overrun'
  PROVE  FormatInv'
<1> DEFINE F == file["master"]
           e == end["master"]
           b == block_offset["master"]
           p == pro_offset["master"]
           w == writing["master"]
<1>1. /\ FormatTypeOK /\ FileOK(F, e, b, p, w, put) /\ TypeRead
      /\ ReaderOK(F, e, p, put, reader, msg, sent) /\ MessageOK(put, msg)
      /\ ~crossed => StreamOK(put, pro_offset["slave"], writing["slave"], reader, msg)
  BY TypeParts DEF FormatInv, SlaveOK
<1>2. /\ F \in SUBSET Record /\ e \in Nat /\ p \in Nat /\ w \in WriteT
      /\ Items(put) /\ Reads(reader) /\ Buffer(reader)
  BY <1>1, Base
<1>3. ServeOK(F, p, put, reader, sent) /\ msg = NoMsg
  BY <1>1 DEF ReaderOK
<1>4. PICK rec \in F : Comes(F, p, reader, rec)
  <2> HIDE DEF F, e, b, p, w
  <2> QED BY <1>1, <1>2, <1>3, ConsumeFinds
<1>5. rec.at = Padded(reader.pos) /\ rec.at < p /\ rec.at \in Nat
  <2> HIDE DEF F, e, b, p, w
  <2> QED BY <1>1, <1>2, <1>4, FileRecord DEF Comes
<1>6. rec.at < e
  <2> DEFINE a == rec.at
  <2>1. a \in Nat /\ a < p
    BY <1>5
  <2> HIDE DEF F, e, b, p, w, a
  <2>2. p <= e
    BY <1>1, <1>2, BehindEnd
  <2>3. a < e
    BY <2>1, <2>2, <1>2
  <2> QED BY <2>3 DEF a
<1> DEFINE g == Take(NextRecord(reader), rec)
           st == Consumed(rec.type, reader.scratch # << >>)
<1>7. /\ g \in ReaderT(Seq(Record)) /\ Got(reader, rec, g)
      /\ g.last = Into(rec.at) + Header + rec.len
      /\ st \in {"ok", "more", "incomplete", "ioerror"}
      /\ st = "more" => reader' = g /\ UNCHANGED <<msg, sent>>
      /\ st # "more" => ProcessEnds(st, g)
      /\ UNCHANGED <<disk, put, crossed, faults>>
  <2>1. g = Take(NextRecord(reader), rec) /\ st = Consumed(rec.type, reader.scratch # << >>)
    OBVIOUS
  <2> HIDE DEF g, st
  <2> QED BY <2>1, <1>5, <1>6, TakeIs
<1>8. st = Consumed(rec.type, reader.scratch # << >>)
  OBVIOUS
<1> HIDE DEF F, e, b, p, w, g, st
<1>0. overrun' \in BOOLEAN /\ ~(reader'.offset > pro_offset["master"])
  BY OverrunSeen
<1>9. CASE st = "more"
  <2>1. ServeOK(F, p, put, g, sent)
    BY <1>1, <1>2, <1>3, <1>4, <1>7, <1>8, <1>9, ReadMore
  <2>2. At(g.pos, g.last) /\ g.mode = "consume" /\ g.offset = reader.offset
    BY <1>7 DEF Got
  <2>3. ReaderOK(F, e, p, put, g, msg, sent)
    BY <2>1, <2>2, <1>3 DEF ReaderOK
  <2>4. ~crossed => StreamOK(put, pro_offset["slave"], writing["slave"], g, msg)
    BY <2>2, <1>1 DEF StreamOK
  <2>5. reader' = g /\ msg' = msg /\ sent' = sent
    BY <1>7, <1>9
  <2>6. TypeRead'
    BY <2>5, <1>0, <1>1, <1>7 DEF TypeRead
  <2> QED BY <2>3, <2>4, <2>5, <2>6, <1>1, <1>7, TaskOnly DEF F, e, p
<1>10. CASE st # "more"
  <2> DEFINE s == IF st = "ioerror" THEN SkipNextBlock(g) ELSE g
             n == Served(s)
             m == [kind |-> IF st = "ok" THEN "cmd" ELSE "skip", at |-> s.offset,
                   len |-> s.size, content |-> IF st = "ok" THEN s.scratch ELSE << >>]
             t == IF st = "ok" THEN sent \cup {rec.item} ELSE sent
  <2>1. Ends(st, reader, rec, g, s, m, n)
    BY DEF Ends
  <2>2. ProcessEnds(st, g) /\ st # "eof"
    BY <1>7, <1>10
  <2>3. /\ reader' = n /\ msg' = m
        /\ sent' = IF st = "ok" THEN sent \cup {s.scratch[1].item} ELSE sent
    BY <2>2, ProcessEndsFacts
  <2>4. st = "ok" => s = g
    OBVIOUS
  <2> HIDE DEF s, n, m
  <2>5. reader.pos = reader.offset + reader.size
    BY <1>3 DEF ServeOK
  <2>6. << >> \in Seq(Record)
    OBVIOUS
  <2>7. /\ n \in ReaderT(Seq(Record)) /\ At(n.pos, n.last)
        /\ st = "ioerror" => Resumes(reader, BlockStart(rec.at) + Block, n)
        /\ st # "ioerror" => Resumes(reader, Stop(rec), n)
        /\ m.at = reader.offset /\ n.offset = m.at + m.len /\ m.len >= Header
        /\ m.at \in Nat /\ m.len \in Nat
        /\ st = "ok" => m.kind = "cmd" /\ m.content = g.scratch
        /\ st # "ok" => m.kind = "skip" /\ m.content = << >>
    <3> DEFINE S == Seq(Record)
    <3>1. /\ << >> \in S /\ g \in ReaderT(S) /\ Got(reader, rec, g)
          /\ g.last = Into(rec.at) + Header + rec.len
      BY <2>6, <1>7
    <3> HIDE DEF S
    <3>2. /\ n \in ReaderT(S) /\ At(n.pos, n.last)
          /\ st = "ioerror" => Resumes(reader, BlockStart(rec.at) + Block, n)
          /\ st # "ioerror" => Resumes(reader, Stop(rec), n)
          /\ m.at = reader.offset /\ n.offset = m.at + m.len /\ m.len >= Header
          /\ m.at \in Nat /\ m.len \in Nat
          /\ st = "ok" => m.kind = "cmd" /\ m.content = g.scratch
          /\ st # "ok" => m.kind = "skip" /\ m.content = << >>
      BY <3>1, <1>1, <1>2, <1>5, <2>1, <2>5, EndsWhere
    <3> QED BY <3>2 DEF S
  <2>8. ASSUME st = "ok"
        PROVE  /\ g.scratch # << >> /\ g.scratch[1].item = rec.item
               /\ rec.item \in 1..Len(put)
               /\ Parts(g.scratch, rec.item) /\ Size(g.scratch) = rec.from + rec.len
               /\ Padded(reader.offset) = Padded(put[rec.item].from)
               /\ rec.from + rec.len = put[rec.item].len
    <3>1. Consumed(rec.type, reader.scratch # << >>) \in {"more", "ok"}
      BY <1>8, <2>8
    <3>2. Consumed(rec.type, reader.scratch # << >>) = "ok"
      BY <1>8, <2>8
    <3> QED BY <3>1, <3>2, <1>1, <1>2, <1>3, <1>4, <1>7, ReadPart
  <2>9. ServeOK(F, p, put, n, t) /\ (st = "ok" => Stop(rec) = put[rec.item].to)
    <3>1. CASE st = "ok"
      <4>1. Got(reader, rec, g) /\ Resumes(reader, Stop(rec), n)
        BY <3>1, <1>7, <2>7
      <4>2. Consumed(rec.type, reader.scratch # << >>) = "ok"
        BY <3>1, <1>8
      <4>3. ServeOK(F, p, put, n, sent \cup {rec.item}) /\ Stop(rec) = put[rec.item].to
        BY <4>1, <4>2, <1>1, <1>2, <1>3, <1>4, ReadOk
      <4> QED BY <3>1, <4>3
    <3>2. CASE st = "incomplete"
      <4>1. ServeOK(F, p, put, n, sent)
        BY <3>2, <1>1, <1>2, <1>3, <1>4, <1>8, <2>7, ReadSkip
      <4> QED BY <3>2, <4>1
    <3>3. CASE st = "ioerror"
      <4> DEFINE a == n.offset
      <4>1. a \in Nat /\ ~(a > p)
        BY <1>0, <2>3, <2>7 DEF p
      <4>2. a <= p
        <5> HIDE DEF a
        <5> QED BY <4>1, <1>2
      <4>3. ServeOK(F, p, put, n, sent)
        BY <3>3, <4>2, <1>1, <1>2, <1>3, <1>4, <1>8, <2>7, ReadError
      <4> QED BY <3>3, <4>3
    <3> QED BY <3>1, <3>2, <3>3, <1>7, <1>10
  <2>10. sent' = t
    BY <2>3, <2>4, <2>8
  <2>11. n.mode = "serve"
    BY <2>7 DEF Resumes
  <2>12. ReaderOK(F, e, p, put, n, m, t)
    BY <2>7, <2>9, <2>11 DEF ReaderOK
  <2>13. MessageOK(put, m)
    <3>1. CASE st = "ok"
      <4>1. n.offset = Stop(rec)
        BY <3>1, <2>7 DEF Resumes
      <4> QED BY <4>1, <3>1, <2>7, <2>8, <2>9 DEF MessageOK
    <3>2. CASE st # "ok"
      BY <3>2, <2>7 DEF MessageOK
    <3> QED BY <3>1, <3>2
  <2>14. ~crossed => StreamOK(put, pro_offset["slave"], writing["slave"], n, m)
    <3>1. m.kind # "none" /\ NoMsg.kind = "none"
      BY <2>7 DEF NoMsg
    <3>2. m # NoMsg
      BY <3>1
    <3> QED BY <3>2, <2>7, <1>1, <1>3 DEF StreamOK
  <2>15. t \subseteq 1..Len(put) /\ m \in MsgT
    <3>1. sent \subseteq 1..Len(put)
      BY <1>1 DEF TypeRead
    <3>2. t \subseteq 1..Len(put)
      BY <3>1, <2>8
    <3>3. g.scratch \in Seq(Record)
      BY <1>7, ReaderFields
    <3>4. m.content \in Seq(Record)
      BY <3>3, <2>6, <2>7
    <3>5. m = [kind |-> m.kind, at |-> m.at, len |-> m.len, content |-> m.content]
      BY DEF m
    <3> QED BY <3>2, <3>4, <3>5, <2>7 DEF MsgT
  <2>16. TypeRead'
    BY <2>3, <2>7, <2>10, <2>15, <1>0, <1>1, <1>7 DEF TypeRead
  <2> HIDE DEF t
  <2> QED BY <2>3, <2>10, <2>12, <2>13, <2>14, <2>16, <1>7, TaskOnly DEF F, e, p
<1> QED BY <1>9, <1>10

\* Seek's Consume ends: how far that is from where it has to come.
LEMMA SeekSizes ==
  ASSUME NEW F \in SUBSET Record, NEW e \in Nat, NEW b, NEW p \in Nat, NEW w \in WriteT,
         NEW q, Items(q), FileOK(F, e, b, p, w, q), NEW rec \in F, NEW r, Reads(r),
         SeekOK(F, e, p, q, r), rec.at = Padded(r.pos), NEW g, Got(r, rec, g),
         g.last = Into(rec.at) + Header + rec.len
  PROVE  /\ g.size > g.todo => r.start < Stop(rec)
         /\ g.size = g.todo => r.start = Stop(rec)
         /\ ~(g.size > g.todo) /\ g.size # g.todo =>
              /\ Stop(rec) < r.start /\ g.todo - g.size \in Nat
              /\ g.todo - g.size = r.start - Stop(rec)
         /\ g.size + (Block - g.last) > g.todo
<1> DEFINE x == r.pos
           z == r.size
           t == r.start
           d == g.size
           y == g.todo
           c == Block - g.last
           u == BlockStart(rec.at) + Block
<1>1. /\ x \in Nat /\ z \in Nat /\ t \in Nat /\ y \in Nat /\ x + y = t + z
      /\ rec \in Record /\ Stop(rec) \in Nat
  BY FileRecord DEF Reads, Got, SeekOK
<1>2. d \in Nat /\ d = z + (Stop(rec) - x)
  BY <1>1, TakenFrom
<1>3. c \in Nat /\ Stop(rec) + c = u
  BY SkippedTo
<1>4. t < u
  BY SeekBlock
<1> HIDE DEF x, z, t, d, y, c, u
<1>5. /\ d > y => t < Stop(rec)
      /\ d = y => t = Stop(rec)
      /\ ~(d > y) /\ d # y => Stop(rec) < t /\ y - d \in Nat /\ y - d = t - Stop(rec)
  BY <1>1, <1>2
<1>6. d + c > y
  BY <1>1, <1>2, <1>3, <1>4
<1> QED BY <1>5, <1>6 DEF x, z, t, d, y, c

LEMMA TaskFails ==
  ASSUME FormatInv, reader.mode = "seek", UNCHANGED <<disk, put, crossed, faults>>,
         overrun' \in BOOLEAN,
         reader' = Failed(reader), UNCHANGED <<msg, sent>>,
         \/ ~(Padded(reader.pos) < end["master"])
         \/ \E rec \in file["master"] : /\ rec.at = Padded(reader.pos)
                                        /\ rec.type = "bad" \/ reader.start < Stop(rec)
  PROVE  FormatInv'
<1> DEFINE F == file["master"]
           e == end["master"]
           b == block_offset["master"]
           p == pro_offset["master"]
           w == writing["master"]
           n == Failed(reader)
<1>1. /\ FormatTypeOK /\ FileOK(F, e, b, p, w, put) /\ TypeRead
      /\ ReaderOK(F, e, p, put, reader, msg, sent) /\ MessageOK(put, msg)
  BY TypeParts DEF FormatInv
<1>2. /\ F \in SUBSET Record /\ e \in Nat /\ p \in Nat /\ w \in WriteT
      /\ Items(put) /\ Reads(reader)
  BY <1>1, Base
<1>3. SeekOK(F, e, p, put, reader) /\ msg = NoMsg
  BY <1>1 DEF ReaderOK
<1>4. /\ n \in ReaderT(Seq(Record)) /\ n.mode = "failed" /\ n.start = reader.start
      /\ n.pos = 0 /\ n.last = 0
  BY <1>2, FailedFacts DEF Reads
<1>5. \/ ~(Padded(reader.pos) < e)
      \/ \E rec \in F : /\ rec.at = Padded(reader.pos)
                        /\ rec.type = "bad" \/ reader.start < Stop(rec)
  OBVIOUS
<1>6. TypeRead' /\ reader' = n /\ msg' = msg /\ sent' = sent
  BY <1>1, <1>4 DEF TypeRead
<1>7. n.start = reader.start /\ n.mode = "failed" /\ At(n.pos, n.last)
  BY <1>4, Idle
<1> HIDE DEF n, F, e, b, p, w
<1>8. FailedOK(F, p, put, n)
  BY <1>1, <1>2, <1>3, <1>5, <1>7, SeekFails
<1>9. ReaderOK(F, e, p, put, n, msg, sent)
  BY <1>3, <1>7, <1>8 DEF ReaderOK
<1>10. StreamOK(put, pro_offset["slave"], writing["slave"], n, msg)
  BY <1>7 DEF StreamOK
<1> QED BY <1>1, <1>6, <1>9, <1>10, TaskOnly DEF F, e, p

LEMMA TaskSeeks ==
  ASSUME FormatInv, Consume, reader.mode = "seek"
  PROVE  FormatInv'
<1> DEFINE F == file["master"]
           e == end["master"]
           b == block_offset["master"]
           p == pro_offset["master"]
           w == writing["master"]
           x == Padded(reader.pos)
<1>1. /\ FormatTypeOK /\ FileOK(F, e, b, p, w, put) /\ TypeRead
      /\ ReaderOK(F, e, p, put, reader, msg, sent) /\ MessageOK(put, msg)
      /\ ~crossed => StreamOK(put, pro_offset["slave"], writing["slave"], reader, msg)
  BY TypeParts DEF FormatInv, SlaveOK
<1>2. /\ F \in SUBSET Record /\ e \in Nat /\ p \in Nat /\ w \in WriteT
      /\ Items(put) /\ Reads(reader) /\ Buffer(reader)
  BY <1>1, Base
<1>3. SeekOK(F, e, p, put, reader) /\ msg = NoMsg /\ At(reader.pos, reader.last)
  BY <1>1 DEF ReaderOK
<1>0. overrun' \in BOOLEAN
  BY OverrunSeen
<1>4. x \in Nat
  BY <1>2, PaddedFacts DEF Reads
<1>5. CASE ~(x < e)
  <2> DEFINE n == NextRecord(reader)
             rec == ReadPhysicalRecord(n.pos)
  <2>1. n.pos = x /\ n.start = reader.start
    BY <1>1, <1>3, Base, NextRecordFacts
  <2>2. n.pos >= e
    <3> HIDE DEF x, e, n
    <3> QED BY <1>2, <1>4, <1>5, <2>1
  <2>3. "eof" = IF n.pos >= end["master"] THEN "eof"
                ELSE Consumed(rec.type, n.scratch # << >>)
    BY <2>2
  <2>4. n = NextRecord(reader) /\ rec = ReadPhysicalRecord(n.pos)
    OBVIOUS
  <2>5. n = IF "eof" = "eof" THEN n ELSE Take(n, rec)
    OBVIOUS
  <2> HIDE DEF n, rec
  <2>6. SeekOn("eof", n) /\ UNCHANGED <<disk, put, crossed, faults>>
    BY <2>3, <2>4, <2>5, ConsumeStep
  <2>7. reader' = Failed(n) /\ UNCHANGED <<msg, sent>>
    BY <2>6, SeekOnFacts
  <2>8. Failed(n) = Failed(reader)
    BY <2>1 DEF Failed
  <2> QED BY <1>5, <2>6, <2>7, <2>8, <1>0, TaskFails
<1>6. CASE x < e
  <2>1. PICK rec \in F : rec.at = Padded(reader.pos) /\ rec.at < e
    <3> HIDE DEF F, e, b, p, w
    <3> QED BY <1>1, <1>2, <1>3, <1>6, SeekFinds
  <2> DEFINE g == Take(NextRecord(reader), rec)
             st == Consumed(rec.type, reader.scratch # << >>)
  <2>2. /\ g \in ReaderT(Seq(Record)) /\ Got(reader, rec, g)
        /\ g.last = Into(rec.at) + Header + rec.len
        /\ st \in {"ok", "more", "incomplete", "ioerror"}
        /\ st = "ioerror" <=> rec.type = "bad"
        /\ st = "more" => reader' = g /\ UNCHANGED <<msg, sent>>
        /\ st # "more" => SeekOn(st, g)
        /\ UNCHANGED <<disk, put, crossed, faults>>
    <3>1. g = Take(NextRecord(reader), rec) /\ st = Consumed(rec.type, reader.scratch # << >>)
      OBVIOUS
    <3> HIDE DEF g, st
    <3> QED BY <3>1, <2>1, TakeIs
  <2>3. st = Consumed(rec.type, reader.scratch # << >>)
    OBVIOUS
  <2> HIDE DEF g, st
  <2>4. /\ g.start = reader.start /\ g.mode = "seek" /\ g.offset = reader.offset
        /\ At(g.pos, g.last) /\ g.pos = Stop(rec) /\ Got(reader, rec, g)
        /\ g.todo = reader.todo /\ g.last = Into(rec.at) + Header + rec.len
    BY <2>2 DEF Got
  <2>5. CASE st = "more"
    <3>1. SeekOK(F, e, p, put, g)
      <4> HIDE DEF F, e, b, p, w
      <4> QED BY <1>1, <1>2, <1>3, <2>1, <2>3, <2>4, <2>5, SeekMore
    <3>2. ReaderOK(F, e, p, put, g, msg, sent)
      BY <3>1, <2>4, <1>3 DEF ReaderOK
    <3>3. ~crossed => StreamOK(put, pro_offset["slave"], writing["slave"], g, msg)
      BY <2>4, <1>1 DEF StreamOK
    <3>4. reader' = g /\ msg' = msg /\ sent' = sent
      BY <2>2, <2>5
    <3>5. TypeRead'
      BY <1>0, <3>4, <1>1, <2>2 DEF TypeRead
    <3> QED BY <3>2, <3>3, <3>4, <3>5, <1>1, <2>2, TaskOnly
  <2>6. CASE st = "ioerror"
    <3> DEFINE s == SkipNextBlock(g)
    <3>1. /\ s.start = reader.start /\ s.size = g.size + (Block - g.last) /\ s.todo = g.todo
      BY <2>2, <2>4, SkipFacts
    <3>2. g.size + (Block - g.last) > g.todo
      <4> HIDE DEF F, e, b, p, w
      <4> QED BY <1>1, <1>2, <1>3, <2>1, <2>4, SeekSizes
    <3>3. s.size > s.todo
      BY <3>1, <3>2
    <3>4. s = IF st = "ioerror" THEN SkipNextBlock(g) ELSE g
      BY <2>6
    <3>5. SeekOn(st, g)
      BY <2>2, <2>6
    <3> HIDE DEF s
    <3>6. reader' = Failed(s) /\ UNCHANGED <<msg, sent>>
      BY <3>3, <3>4, <3>5, SeekOnFacts
    <3>7. Failed(s) = Failed(reader)
      BY <3>1 DEF Failed
    <3>8. rec.type = "bad"
      BY <2>2, <2>6
    <3> QED BY <3>6, <3>7, <3>8, <2>1, <2>2, <1>0, TaskFails
  <2>7. CASE st \in {"ok", "incomplete"}
    <3>1. g = IF st = "ioerror" THEN SkipNextBlock(g) ELSE g
      BY <2>7
    <3>2. SeekOn(st, g) /\ st # "eof"
      BY <2>2, <2>7
    <3>3. /\ g.size > g.todo => reader' = Failed(g)
          /\ ~(g.size > g.todo) /\ g.size = g.todo => reader' = Landed(g)
          /\ ~(g.size > g.todo) /\ g.size # g.todo => reader' = Goes(g)
          /\ UNCHANGED <<msg, sent>>
      BY <3>1, <3>2, SeekOnFacts
    <3>4. /\ g.size > g.todo => reader.start < Stop(rec)
          /\ g.size = g.todo => reader.start = Stop(rec)
          /\ ~(g.size > g.todo) /\ g.size # g.todo =>
               /\ Stop(rec) < reader.start /\ g.todo - g.size \in Nat
               /\ g.todo - g.size = reader.start - Stop(rec)
      <4> HIDE DEF F, e, b, p, w
      <4> QED BY <1>1, <1>2, <1>3, <2>1, <2>4, SeekSizes
    <3>5. << >> \in Seq(Record)
      OBVIOUS
    <3>6. CASE g.size > g.todo
      <4>1. Failed(g) = Failed(reader)
        BY <2>4 DEF Failed
      <4>2. reader' = Failed(reader) /\ reader.start < Stop(rec)
        BY <3>3, <3>4, <3>6, <4>1
      <4> QED BY <4>2, <3>3, <2>1, <2>2, <1>0, TaskFails
    <3>7. CASE ~(g.size > g.todo) /\ g.size = g.todo
      <4> DEFINE n == Landed(g)
      <4>1. /\ n \in ReaderT(Seq(Record)) /\ n.mode = "serve" /\ n.pos = g.pos
            /\ n.last = g.last /\ n.size = 0 /\ n.scratch = << >> /\ n.start = g.start
            /\ n.offset = g.offset
        BY <2>2, <3>5, LandedFacts
      <4>2. reader' = n /\ msg' = msg /\ sent' = sent
        BY <3>3, <3>7
      <4>3. TypeRead'
        BY <1>0, <4>1, <4>2, <1>1, <2>2 DEF TypeRead
      <4> DEFINE o == reader.start
      <4>4. o = Stop(rec) /\ reader.offset = o /\ o <= p /\ o \in Nat
        BY <3>4, <3>7, <1>2, <1>3 DEF SeekOK, Reads
      <4>5. Resumes(n, o, n) /\ n.start = o /\ n.mode = "serve" /\ n.offset = reader.offset
            /\ At(n.pos, n.last)
        BY <4>1, <4>4, <2>4 DEF Resumes
      <4> HIDE DEF n, o, F, e, b, p, w
      <4>6. Clean(F, o)
        BY <4>4, <1>1, <1>2, <2>1, CleanStop
      <4>7. Ready(F, o, p)
        <5>1. rec.at < p
          <6> DEFINE a == rec.at
          <6>1. a \in Nat /\ a < o
            BY <4>4, <1>1, <1>2, <2>1, FileRecord
          <6> HIDE DEF a
          <6>2. a < p
            BY <6>1, <4>4, <1>2
          <6> QED BY <6>2 DEF a
        <5> QED BY <5>1, <4>4, <1>1, <2>1 DEF FileOK, Tiled
      <4>8. ServeOK(F, p, put, n, sent)
        BY <4>4, <4>5, <4>6, <4>7, <1>1, <1>2, SeekArrives
      <4>9. ReaderOK(F, e, p, put, n, msg, sent)
        BY <4>5, <4>8 DEF ReaderOK
      <4>10. ~crossed => StreamOK(put, pro_offset["slave"], writing["slave"], n, msg)
        BY <4>5, <1>1 DEF StreamOK
      <4> QED BY <4>2, <4>3, <4>9, <4>10, <1>1, <2>2, TaskOnly DEF F, e, p
    <3>8. CASE ~(g.size > g.todo) /\ g.size # g.todo
      <4> DEFINE n == Goes(g)
      <4>1. /\ Stop(rec) < reader.start /\ g.todo - g.size \in Nat
            /\ g.todo - g.size = reader.start - Stop(rec)
        BY <3>4, <3>8
      <4>2. /\ n \in ReaderT(Seq(Record)) /\ n.mode = g.mode /\ n.pos = g.pos
            /\ n.last = g.last /\ n.size = 0 /\ n.scratch = << >> /\ n.start = g.start
            /\ n.offset = g.offset /\ n.todo = g.todo - g.size
        BY <2>2, <3>5, <4>1, GoesFacts
      <4>3. reader' = n /\ msg' = msg /\ sent' = sent
        BY <3>3, <3>8
      <4>4. TypeRead'
        BY <1>0, <4>2, <4>3, <1>1, <2>2 DEF TypeRead
      <4>5. /\ n.pos = Stop(rec) /\ n.start = reader.start /\ n.offset = reader.offset
            /\ n.todo = reader.start - Stop(rec) /\ n.size = 0 /\ n.scratch = << >>
            /\ n.mode = "seek" /\ At(n.pos, n.last)
        BY <4>1, <4>2, <2>4
      <4> HIDE DEF n, F, e, b, p, w
      <4>6. SeekOK(F, e, p, put, n)
        BY <4>1, <4>5, <1>1, <1>2, <1>3, <2>1, SeekAgain
      <4>7. ReaderOK(F, e, p, put, n, msg, sent)
        BY <4>5, <4>6, <1>3 DEF ReaderOK
      <4>8. ~crossed => StreamOK(put, pro_offset["slave"], writing["slave"], n, msg)
        BY <4>5, <1>1 DEF StreamOK
      <4> QED BY <4>3, <4>4, <4>7, <4>8, <1>1, <2>2, TaskOnly DEF F, e, p
    <3> QED BY <3>6, <3>7, <3>8
  <2> QED BY <2>2, <2>5, <2>6, <2>7
<1> QED BY <1>5, <1>6

-----------------------------------------------------------------------------
(* The theorems.                                                           *)

LEMMA InitIsGood ==
  ASSUME FormatInit
  PROVE  FormatInv
<1>0. "master" \in Copy /\ "slave" \in Copy
  BY DEF Copy
<1>1. /\ file["master"] = {} /\ end["master"] = 0 /\ block_offset["master"] = 0
      /\ pro_offset["master"] = 0 /\ writing["master"] = NoWrite
      /\ file["slave"] = {} /\ end["slave"] = 0 /\ block_offset["slave"] = 0
      /\ pro_offset["slave"] = 0 /\ writing["slave"] = NoWrite
      /\ reader = NoReader /\ msg = NoMsg /\ put = << >> /\ sent = {}
  BY <1>0 DEF FormatInit
<1>2. TypeDisk
  BY Sizes, Idle DEF FormatInit, TypeDisk
<1>3. TypeRead
  <2>1. put \in Seq(PutT)
    BY <1>1
  <2>2. faults = 0 /\ crossed = FALSE /\ overrun = FALSE /\ sent \subseteq 1..Len(put)
    BY <1>1 DEF FormatInit
  <2>3. 0 \in 0..MaxFaults
    BY FormatAssumption
  <2> QED BY <1>1, <2>1, <2>2, <2>3, Idle DEF TypeRead
<1>4. FormatTypeOK
  BY <1>2, <1>3, TypeParts
<1>5. Len(<< >>) = 0 /\ 1..0 = {}
  OBVIOUS
<1>6. /\ NoWrite.kind = "none" /\ NoWrite.size = 0 /\ NoWrite.left = 0 /\ NoWrite.len = 0
      /\ NoWrite.begin = FALSE
  BY DEF NoWrite
<1>7. WriterOK(0, 0, 0, NoWrite, << >>)
  BY <1>6, Idle DEF WriterOK
<1>8. Ready({}, 0, 0) /\ Tiled({}, 0) /\ Disjoint({})
  <2>1. Ready({}, 0, 0)
    BY DEF Ready
  <2>2. \A x \in 0..0 : x = 0
    OBVIOUS
  <2> QED BY <2>1, <2>2 DEF Tiled, Disjoint
<1>9. PutOK({}, 0, NoWrite, << >>)
  BY <1>5, <1>6 DEF PutOK
<1>10. FileOK({}, 0, 0, 0, NoWrite, << >>)
  BY <1>7, <1>8, <1>9 DEF FileOK
<1>11. CopyingOK({}, << >>, 0, 0, 0, NoWrite)
  BY <1>6, Idle DEF CopyingOK
<1>12. SlaveOK({}, << >>, {}, 0, 0, 0, NoWrite, NoReader, NoMsg)
  BY <1>11, Off DEF SlaveOK
<1> QED BY <1>1, <1>4, <1>10, <1>12, Off, Idle DEF FormatInv

LEMMA StepIsGood ==
  ASSUME FormatInv, ~overrun', [FormatNext]_stream
  PROVE  FormatInv'
<1>1. ASSUME NEW n \in Lengths, Put(n) PROVE FormatInv'
  BY <1>1, MasterPuts
<1>2. ASSUME NEW n \in Blanks, PutBlank(n) PROVE FormatInv'
  BY <1>2, MasterPutsBlank
<1>3. ASSUME NEW c \in Copy, AppendRecord(c) PROVE FormatInv'
  BY <1>3, MasterAppends, SlaveAppends DEF Copy
<1>4. ASSUME NEW c \in Copy, Inc(c) PROVE FormatInv'
  BY <1>4, MasterIncs, SlaveIncs DEF Copy
<1>5. ASSUME NEW c \in Copy, Crash(c) PROVE FormatInv'
  BY <1>5, MasterCrashes, SlaveCrashes DEF Copy
<1>6. CASE Seek
  BY <1>6, TaskIsAdded
<1>7. CASE ProcessTask
  BY <1>7, TaskIsProcessed
<1>8. CASE Consume
  <2>1. reader.mode \in {"seek", "consume"}
    BY <1>8 DEF Consume
  <2> QED BY <1>8, <2>1, TaskReads, TaskSeeks
<1>9. CASE DoBinlog
  BY <1>9, SlaveTakes
<1>10. CASE Damage
  BY <1>10, BlockIsDamaged
<1>11. CASE UNCHANGED stream
  <2>1. /\ file' = file /\ end' = end /\ block_offset' = block_offset
        /\ pro_offset' = pro_offset /\ writing' = writing /\ reader' = reader
        /\ msg' = msg /\ put' = put /\ sent' = sent /\ crossed' = crossed
        /\ faults' = faults /\ overrun' = overrun
    BY <1>11 DEF stream, disk
  <2>2. FormatTypeOK'
    BY <2>1 DEF FormatInv, FormatTypeOK
  <2> QED BY <2>1, <2>2 DEF FormatInv
<1> QED BY <1>1, <1>2, <1>3, <1>4, <1>5, <1>6, <1>7, <1>8, <1>9, <1>10, <1>11 DEF FormatNext

\* A task that has gone past the producer's place is remembered.
LEMMA OverrunStays ==
  ASSUME overrun, [FormatNext]_stream
  PROVE  overrun'
BY DEF FormatNext, stream, Put, PutBlank, AppendRecord, Inc, Crash, Seek, ProcessTask,
       Consume, DoBinlog, Damage

LEMMA AlwaysGood == FormatSpec => [](overrun \/ FormatInv)
<1>1. FormatInit => overrun \/ FormatInv
  BY InitIsGood
<1>2. (overrun \/ FormatInv) /\ [FormatNext]_stream => (overrun \/ FormatInv)'
  BY StepIsGood, OverrunStays
<1> QED BY <1>1, <1>2, PTL DEF FormatSpec

\* Every variable has its type: the writer's place stays within its block, a reader
\* that seeks never has less than nothing left, and only items that were put are sent.
THEOREM FormatTypes == FormatSpec => [](~overrun => FormatTypeOK)
<1>1. overrun \/ FormatInv => (~overrun => FormatTypeOK)
  BY DEF FormatInv
<1> QED BY <1>1, AlwaysGood, PTL

\* Consume puts together the records of Produce, while that appends more of them:
\* a message holds one whole item, and the offsets at which it was written.
THEOREM WhatWasPut == FormatSpec => []ReadBack
<1>1. overrun \/ FormatInv => ReadBack
  <2> SUFFICES ASSUME FormatInv, ~overrun, msg.kind = "cmd"
               PROVE  LET i == msg.content[1].item IN
                      /\ i \in 1..Len(put)
                      /\ Whole(msg.content, i)
                      /\ Padded(msg.at) = Padded(put[i].from)
                      /\ msg.at + msg.len = put[i].to
    BY DEF ReadBack
  <2> DEFINE i == msg.content[1].item
  <2>1. /\ i \in 1..Len(put) /\ Parts(msg.content, i) /\ Size(msg.content) = put[i].len
        /\ Padded(msg.at) = Padded(put[i].from) /\ msg.at + msg.len = put[i].to
    BY DEF FormatInv, MessageOK
  <2> HIDE DEF i
  <2>2. Whole(msg.content, i)
    BY <2>1 DEF Parts, Whole
  <2> QED BY <2>1, <2>2 DEF i
<1> QED BY <1>1, AlwaysGood, PTL

\* ProcessTask skips damaged blocks and blanks and nothing else: every item between
\* the task's start and its offset that has no damage in its blocks was sent.
THEOREM NoneIsLost == FormatSpec => []NoneLost
<1>1. overrun \/ FormatInv => NoneLost
  <2> SUFFICES ASSUME FormatInv, ~overrun, reader.mode \in {"serve", "consume"}, NEW i \in 1..Len(put),
                      put[i].from >= reader.start, put[i].to <= reader.offset, Intact(i)
               PROVE  i \in sent
    BY DEF NoneLost
  <2>1. ServeOK(file["master"], pro_offset["master"], put, reader, sent)
    BY DEF FormatInv, ReaderOK
  <2>2. ~Hurt(file["master"], put[i])
    BY DEF Hurt, Intact
  <2> QED BY <2>1, <2>2 DEF ServeOK
<1> QED BY <1>1, AlwaysGood, PTL

\* BinlogReader::Seek comes to the end of every item, from the start of its block,
\* unless a record on the way is damaged.
THEOREM SeeksLand == FormatSpec => []SeekLands
<1>1. overrun \/ FormatInv => SeekLands
  <2> SUFFICES ASSUME FormatInv, ~overrun, reader.mode = "failed", reader.start \in Boundary
               PROVE  \E rec \in file["master"] :
                        rec.type = "bad" /\ rec.at \in BlockStart(reader.start)..reader.start
    BY DEF SeekLands
  <2>1. FailedOK(file["master"], pro_offset["master"], put, reader)
    BY DEF FormatInv, ReaderOK
  <2>2. AtPut(put, reader.start)
    BY <2>1 DEF FailedOK, Boundary, AtPut
  <2> QED BY <2>1, <2>2 DEF FailedOK, BadBefore
<1> QED BY <1>1, AlwaysGood, PTL

\* The slave's Produce cuts the items it is sent as the master's did, so that both
\* files have the same records at the same offsets and CheckSyncOption accepts
\* every message, until a blank does not fit its block.
THEOREM CopiesMirror == FormatSpec => []Mirror
<1>1. overrun \/ FormatInv => Mirror
  <2> SUFFICES ASSUME FormatInv, ~overrun, ~crossed
               PROVE  /\ \A rec \in file["slave"] :
                           \/ rec.type = "empty"
                           \/ \E own \in file["master"] :
                                /\ own.type \in {rec.type, "bad"}
                                /\ rec = [own EXCEPT !.type = rec.type]
                      /\ msg # NoMsg /\ writing["slave"] = NoWrite
                           => msg.at = pro_offset["slave"]
    BY DEF Mirror
  <2>1. /\ \A rec \in file["slave"] : CopiedRecord(file["master"], put, rec)
        /\ StreamOK(put, pro_offset["slave"], writing["slave"], reader, msg)
        /\ ReaderOK(file["master"], end["master"], pro_offset["master"], put, reader, msg,
                    sent)
    BY DEF FormatInv, SlaveOK
  <2>2. ASSUME msg # NoMsg, writing["slave"] = NoWrite PROVE msg.at = pro_offset["slave"]
    <3>1. reader.mode = "serve"
      BY <2>1, <2>2 DEF ReaderOK
    <3> QED BY <2>1, <2>2, <3>1 DEF StreamOK, Target, NoWrite
  <2> QED BY <2>1, <2>2 DEF CopiedRecord
<1> QED BY <1>1, AlwaysGood, PTL
=============================================================================

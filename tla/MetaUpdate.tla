----------------------------- MODULE MetaUpdate -----------------------------
(***************************************************************************)
(* How the meta servers change what the cluster looks like: the update     *)
(* thread (src/meta/zp_meta_update_thread.cc) of the leading server takes   *)
(* tasks, works on a snapshot of its cache, and writes the result key by    *)
(* key to floyd, the replicated store; the other servers read it from there *)
(* (ZPMetaInfoStore in src/meta/zp_meta_info_store.cc).  Data nodes pull    *)
(* the tables from the cache of any server.                                 *)
(*                                                                         *)
(* There is one table of one partition, whose id is 0.  floyd holds         *)
(*   epoch   ##version, -1 before it is first written                       *)
(*   listed  whether ##tables names the table                               *)
(*   part    the value under the table's name, which is never deleted       *)
(*   nodes   ##nodes                                                        *)
(* A floyd call that fails may have been carried out all the same.  One     *)
(* server leads at a time: the election is assumed here.                    *)
(***************************************************************************)
EXTENDS MetaTable, Integers

CONSTANTS
  Server,      \* the meta servers
  NoServer,    \* no leader
  NoTable,     \* the table does not exist
  FirstTable,  \* the tables that an Init command may bring
  Offset,      \* the binlog offsets that a node may report
  MaxFaults,   \* bound: floyd calls that fail and servers that crash
  MaxTasks,    \* bound: tasks in task_deque_ and not yet worked on
  MaxEpoch     \* bound: the epoch after which no more updates are taken

ASSUME UpdateAssumption ==
  /\ NoServer \notin Server
  /\ NoTable \notin Partition
  /\ \A p \in FirstTable : p \in Partition /\ WellFormed(p)
  /\ Offset \subseteq Nat /\ 0 \in Offset
  /\ MaxFaults \in Nat /\ MaxTasks \in Nat /\ MaxEpoch \in Nat

VARIABLES
  floyd,    \* the replicated store
  cache,    \* of each server: epoch_, table_info_, and the stamp of the latter
  reader,   \* of each follower: how far Refresh is and what it has read
  leader,   \* the server whose role_ is kLeader
  infos,    \* the leader's node_infos_
  deque,    \* the leader's task_deque_
  worker,   \* the leader's ApplyUpdates
  stop,     \* should_stop_
  faults,   \* how many floyd calls and servers have failed
  partial,  \* history: an Apply ended half way
  behind    \* history: a slave was promoted over one with a larger offset

vars == <<floyd, cache, reader, leader, infos, deque, worker, stop, faults,
          partial, behind>>

NodeState == {"none", "up", "down"}
Epoch == -2..(MaxEpoch + 1)

\* A stamp is the epoch at which a value of floyd was, or is to be, published.
Floyd == [epoch : Epoch, listed : BOOLEAN, liststamp : Epoch,
          part : Partition \cup {NoTable}, stamp : Epoch,
          nodes : [Node -> NodeState]]
Cache == [epoch : Epoch, table : Partition \cup {NoTable}, stamp : Epoch]
Uninitialed == [epoch |-> -2, table |-> NoTable, stamp |-> -2]

Reader == [pc : {"idle", "list", "table"}, epoch : Epoch, stamp : Epoch]
NotReading == [pc |-> "idle", epoch |-> -2, stamp |-> -2]

Task == [op : {"UpNode", "DownNode", "RemoveNodes", "AddSlave", "RemoveSlave",
               "SetMaster"}, node : Node]
        \cup [op : {"Handover"}, left : Node, right : Node]
        \cup [op : {"SetState"}, state : PState]
        \cup [op : {"AddTable"}, part : FirstTable]
        \cup [op : {"RemoveTable"}]

\* ApplyUpdates and its ZPMetaInfoStoreSnap.
Worker == [pc : {"idle", "tasks", "table", "list", "nodes", "epoch", "refresh",
                 "infos"},
           todo : Seq(Task), succ : BOOLEAN, stuck : BOOLEAN, epoch : Epoch,
           table : Partition \cup {NoTable}, changed : BOOLEAN,
           nodes : [Node -> NodeState], nchanged : BOOLEAN]
NoNodes == [n \in Node |-> "none"]
Sleeping == [pc |-> "idle", todo |-> << >>, succ |-> FALSE, stuck |-> FALSE,
             epoch |-> -2, table |-> NoTable, changed |-> FALSE,
             nodes |-> NoNodes, nchanged |-> FALSE]

Fault == faults < MaxFaults /\ faults' = faults + 1

Applying == worker.pc \notin {"idle", "tasks"}
MinStamp(a, b) == IF a < b THEN a ELSE b

Init ==
  /\ floyd = [epoch |-> -1, listed |-> FALSE, liststamp |-> -1,
              part |-> NoTable, stamp |-> -1, nodes |-> NoNodes]
  /\ cache = [s \in Server |-> Uninitialed]
  /\ reader = [s \in Server |-> NotReading]
  /\ leader = NoServer
  /\ infos = NoNodes
  /\ deque = << >>
  /\ worker = Sleeping
  /\ stop = TRUE
  /\ faults = 0
  /\ partial = FALSE
  /\ behind = FALSE

-----------------------------------------------------------------------------
(* Reading floyd.                                                          *)

\* LoadMetaInfo when nothing is written in the meantime.
Loaded(epoch) ==
  [epoch |-> epoch,
   table |-> IF floyd.listed THEN floyd.part ELSE NoTable,
   stamp |-> IF floyd.listed THEN MinStamp(floyd.stamp, floyd.liststamp)
                             ELSE floyd.liststamp]

\* Refresh, when no other server writes: the leader's.
Refreshed(c) == IF floyd.epoch = c.epoch THEN c ELSE Loaded(floyd.epoch)

\* Refresh of a follower, call by call: the version, ...
ReadVersion(s) ==
  /\ s # leader
  /\ reader[s].pc = "idle"
  /\ floyd.epoch > cache[s].epoch
  /\ reader' = [reader EXCEPT ![s] = [pc |-> "list", epoch |-> floyd.epoch,
                                      stamp |-> -2]]
  /\ UNCHANGED <<floyd, cache, leader, infos, deque, worker, stop, faults,
                 partial, behind>>

\* ... the names of the tables, ...
ReadList(s) ==
  /\ reader[s].pc = "list"
  /\ IF floyd.listed
     THEN /\ reader' = [reader EXCEPT ![s].pc = "table",
                                      ![s].stamp = floyd.liststamp]
          /\ UNCHANGED cache
     ELSE /\ cache' = [cache EXCEPT ![s] = Loaded(reader[s].epoch)]
          /\ reader' = [reader EXCEPT ![s] = NotReading]
  /\ UNCHANGED <<floyd, leader, infos, deque, worker, stop, faults, partial,
                 behind>>

\* ... and the table itself.
ReadTable(s) ==
  /\ reader[s].pc = "table"
  /\ cache' = [cache EXCEPT ![s] =
                 [epoch |-> reader[s].epoch, table |-> floyd.part,
                  stamp |-> MinStamp(floyd.stamp, reader[s].stamp)]]
  /\ reader' = [reader EXCEPT ![s] = NotReading]
  /\ UNCHANGED <<floyd, leader, infos, deque, worker, stop, faults, partial,
                 behind>>

\* A call of Refresh fails: the next round starts again.
ReadFails(s) ==
  /\ Fault
  /\ reader[s].pc # "idle"
  /\ reader' = [reader EXCEPT ![s] = NotReading]
  /\ UNCHANGED <<floyd, cache, leader, infos, deque, worker, stop, partial,
                 behind>>

-----------------------------------------------------------------------------
(* The tasks.                                                              *)

\* Each asks the leader's cache before a task is pending: a ping from a node
\* that is not up, a node that has not pinged for long, and admin commands.
\* (That no migration exists is asked too, and the register is in Migrate.)
PingAsks(n) == infos[n] # "up"
CheckNodeAlive(n) == infos[n] = "up"
RemoveNodesAsks(n) == infos[n] = "down"
CreateTableAsks == cache[leader].table = NoTable
DropTableAsks == cache[leader].table # NoTable
AddPartitionSlaveAsks(n) ==
  cache[leader].table # NoTable /\ n \notin Members(cache[leader].table)
RemovePartitionSlaveAsks(n) ==
  cache[leader].table # NoTable /\ n \in Range(cache[leader].table.slaves)

\* The other tasks come from the condition cron, and were checked when the
\* condition was set, not when it came true.
Asked(t) ==
  CASE t.op = "UpNode" -> PingAsks(t.node)
    [] t.op = "DownNode" -> CheckNodeAlive(t.node)
    [] t.op = "RemoveNodes" -> RemoveNodesAsks(t.node)
    [] t.op = "AddSlave" -> AddPartitionSlaveAsks(t.node)
    [] t.op = "RemoveSlave" -> RemovePartitionSlaveAsks(t.node)
    [] t.op = "AddTable" -> CreateTableAsks
    [] t.op = "RemoveTable" -> DropTableAsks
    [] t.op = "Handover" -> t.left # t.right
    [] OTHER -> TRUE

PendingUpdate(t) ==
  /\ leader # NoServer
  /\ ~worker.stuck
  /\ ~stop
  /\ Len(deque) + Len(worker.todo) < MaxTasks
  /\ Asked(t)
  /\ deque' = Append(deque, t)
  /\ UNCHANGED <<floyd, cache, reader, leader, infos, worker, stop, faults,
                 partial, behind>>

\* A ping with offsets of a node that is not known leaves an entry that is not
\* up; the UpNode task comes after, if it is accepted, and then again with every
\* ping until the node is up.
UpdateNodeInfo(n) ==
  /\ leader # NoServer
  /\ infos[n] = "none"
  /\ infos' = [infos EXCEPT ![n] = "down"]
  /\ UNCHANGED <<floyd, cache, reader, leader, deque, worker, stop, faults,
                 partial, behind>>

GetSnapshot == [Sleeping EXCEPT !.epoch = cache[leader].epoch,
                                !.table = cache[leader].table,
                                !.nodes = infos]

\* UpdateFunc takes all tasks.
UpdateFunc ==
  /\ leader # NoServer
  /\ worker.pc = "idle"
  /\ deque # << >>
  /\ floyd.epoch < MaxEpoch
  /\ worker' = [GetSnapshot EXCEPT !.pc = "tasks", !.todo = deque]
  /\ deque' = << >>
  /\ UNCHANGED <<floyd, cache, reader, leader, infos, stop, faults, partial,
                 behind>>

\* An operation on the table: it fails if there is none, Handover silently.
OnTable(w, t) ==
  IF w.table = NoTable
  THEN [w EXCEPT !.succ = @ \/ t.op = "Handover"]
  ELSE LET r == CASE t.op = "AddSlave" -> AddSlave(w.table, t.node)
                  [] t.op = "RemoveSlave" -> DeleteSlave(w.table, t.node)
                  [] t.op = "SetMaster" -> SetMaster(w.table, t.node)
                  [] t.op = "Handover" -> Handover(w.table, t.left, t.right)
                  [] t.op = "SetState" -> ChangePState(w.table, t.state)
       IN [w EXCEPT !.table = r.part, !.changed = @ \/ r.part # w.table,
                    !.succ = @ \/ r.status = "ok"]

UpNode(w, n) == [w EXCEPT !.nodes[n] = "up", !.succ = TRUE,
                          !.nchanged = @ \/ w.nodes[n] # "up"]

DownNode(w, n) ==
  [w EXCEPT !.nodes[n] = IF @ = "none" THEN "none" ELSE "down",
            !.succ = TRUE, !.nchanged = @ \/ w.nodes[n] = "up"]

\* node_table_ is that of the snapshot: the batch's own tasks do not change it.
RemoveNodes(w, n, loaded) ==
  IF w.nodes[n] = "up" \/ n \in loaded
  THEN w
  ELSE [w EXCEPT !.nodes[n] = "none", !.succ = TRUE, !.nchanged = TRUE]

AddTable(w, p) == IF w.table # NoTable THEN w
                  ELSE [w EXCEPT !.table = p, !.changed = TRUE, !.succ = TRUE]

RemoveTable(w) == [w EXCEPT !.table = NoTable, !.succ = TRUE,
                            !.changed = @ \/ w.table # NoTable]

Loads(table) == IF table = NoTable THEN {} ELSE Members(table)

\* One round of the loop of ApplyUpdates.
ApplyTask ==
  /\ worker.pc = "tasks"
  /\ worker.todo # << >>
  /\ LET t == Head(worker.todo)
         w == [worker EXCEPT !.todo = Tail(@)]
     IN worker' = CASE t.op = "UpNode" -> UpNode(w, t.node)
                    [] t.op = "DownNode" -> DownNode(w, t.node)
                    [] t.op = "RemoveNodes" ->
                         RemoveNodes(w, t.node, Loads(cache[leader].table))
                    [] t.op = "AddTable" -> AddTable(w, t.part)
                    [] t.op = "RemoveTable" -> RemoveTable(w)
                    [] OTHER -> OnTable(w, t)
  /\ UNCHANGED <<floyd, cache, reader, leader, infos, deque, stop, faults,
                 partial, behind>>

\* No task succeeded: nothing is applied.
DiscardTasks ==
  /\ worker.pc = "tasks"
  /\ worker.todo = << >>
  /\ ~worker.succ
  /\ worker' = Sleeping
  /\ UNCHANGED <<floyd, cache, reader, leader, infos, deque, stop, faults,
                 partial, behind>>

UpIn(nodes) == {n \in Node : nodes[n] = "up"}

\* What the nodes may have reported: offsets in the table as it is known, and
\* nothing, which counts as 0, from a node that has no part in it.
Reported == {off \in [Node -> Offset] :
               \A n \in Node \ Loads(cache[leader].table) : off[n] = 0}

\* p became q by an election that passed over an up slave with more data.
PassedOver(p, q, up, off) ==
  /\ p.master # q.master
  /\ q.master # NoNode
  /\ \E n \in Range(p.slaves) \cap up : off[n] > off[q.master]

\* RefreshTableWithNodeAlive.
RefreshTableWithNodeAlive ==
  /\ worker.pc = "tasks"
  /\ worker.todo = << >>
  /\ worker.succ
  /\ LET up == UpIn(worker.nodes) IN
     IF worker.table = NoTable \/ worker.table.master \in up
     THEN /\ worker' = [worker EXCEPT !.pc = "table"]
          /\ UNCHANGED behind
     ELSE \E off \in Reported :
            LET p == RefreshPartition(worker.table, up, off) IN
            /\ worker' = [worker EXCEPT !.pc = "table", !.table = p,
                                        !.changed = TRUE]
            /\ behind' = (behind \/ PassedOver(worker.table, p, up, off))
  /\ UNCHANGED <<floyd, cache, reader, leader, infos, deque, stop, faults,
                 partial>>

-----------------------------------------------------------------------------
(* ZPMetaInfoStore::Apply.                                                 *)

\* Mutant of Written: the epoch is written first and the table last.
WrittenEpochFirst ==
  CASE worker.pc = "table" /\ worker.changed ->
         [floyd EXCEPT !.epoch = worker.epoch + 1]
    [] worker.pc = "list" /\ worker.changed ->
         [floyd EXCEPT !.listed = (worker.table # NoTable),
                       !.liststamp = worker.epoch + 1]
    [] worker.pc = "epoch" /\ worker.changed /\ worker.table # NoTable ->
         [floyd EXCEPT !.part = worker.table, !.stamp = worker.epoch + 1]
    [] worker.pc = "nodes" /\ worker.nchanged ->
         [floyd EXCEPT !.nodes = worker.nodes]
    [] OTHER -> floyd

\* The value that the call at pc writes.
Written ==
  CASE worker.pc = "table" ->
         IF worker.changed /\ worker.table # NoTable
         THEN [floyd EXCEPT !.part = worker.table, !.stamp = worker.epoch + 1]
         ELSE floyd
    [] worker.pc = "list" ->
         IF worker.changed
         THEN [floyd EXCEPT !.listed = (worker.table # NoTable),
                            !.liststamp = worker.epoch + 1]
         ELSE floyd
    [] worker.pc = "nodes" ->
         IF worker.nchanged THEN [floyd EXCEPT !.nodes = worker.nodes] ELSE floyd
    [] worker.pc = "epoch" ->
         IF worker.changed THEN [floyd EXCEPT !.epoch = worker.epoch + 1]
         ELSE floyd
    [] OTHER -> floyd

After(pc) ==
  CASE pc = "table" -> "list"
    [] pc = "list" -> "nodes"
    [] pc = "nodes" -> "epoch"
    [] pc = "epoch" -> "refresh"

ApplyWrite ==
  /\ worker.pc \in {"table", "list", "nodes", "epoch"}
  /\ floyd' = Written
  /\ worker' = [worker EXCEPT !.pc = After(@)]
  /\ UNCHANGED <<cache, reader, leader, infos, deque, stop, faults, partial,
                 behind>>

\* Mutant of ApplyRefresh: the cache is only refreshed if the nodes changed.
ApplyRefreshNodesOnly ==
  /\ worker.pc = "refresh"
  /\ cache' = IF worker.nchanged
              THEN [cache EXCEPT ![leader] = Refreshed(@)] ELSE cache
  /\ worker' = [worker EXCEPT !.pc = "infos"]
  /\ UNCHANGED <<floyd, reader, leader, infos, deque, stop, faults, partial,
                 behind>>

\* The leader's Refresh after an epoch change.
ApplyRefresh ==
  /\ worker.pc = "refresh"
  /\ cache' = IF worker.changed
              THEN [cache EXCEPT ![leader] = Refreshed(@)] ELSE cache
  /\ worker' = [worker EXCEPT !.pc = "infos"]
  /\ UNCHANGED <<floyd, reader, leader, infos, deque, stop, faults, partial,
                 behind>>

\* RefreshNodeInfos, and the end of Apply and of ApplyUpdates.
ApplyDone ==
  /\ worker.pc = "infos"
  /\ infos' = IF worker.nchanged THEN floyd.nodes ELSE infos
  /\ worker' = Sleeping
  /\ UNCHANGED <<floyd, cache, reader, leader, deque, stop, faults, partial,
                 behind>>

\* A floyd call of Apply fails, having been carried out or not.  An IOError has
\* Apply tried again from the start, unless the thread is to stop, or its epoch
\* is out of date: then the tasks are lost.  They are also lost when the error
\* is one that LoadMembers or RefreshNodeInfos passes on as floyd gave it.
ApplyFails ==
  /\ Fault
  /\ Applying
  /\ floyd' \in {floyd, Written}
  /\ \/ /\ ~stop
        /\ cache[leader].epoch = worker.epoch
        /\ worker' = [worker EXCEPT !.pc = "table", !.stuck = TRUE]
        /\ UNCHANGED partial
     \/ /\ stop \/ cache[leader].epoch # worker.epoch
           \/ worker.pc \in {"refresh", "infos"}
        /\ worker' = Sleeping
        /\ partial' = TRUE
  /\ UNCHANGED <<cache, reader, leader, infos, deque, stop, behind>>

-----------------------------------------------------------------------------
(* Leaders come and go.                                                    *)

ActiveAllPartition(table) ==
  IF table # NoTable /\ table.state # "ACTIVE"
  THEN << [op |-> "SetState", state |-> "ACTIVE"] >> ELSE << >>

\* Mutant of BecomeLeader: the tables are not refreshed if some are cached.
BecomeLeaderStale(s) ==
  /\ leader = NoServer
  /\ reader[s].pc = "idle"
  /\ leader' = s
  /\ cache' = IF cache[s] # Uninitialed THEN cache
              ELSE [cache EXCEPT ![s] = Refreshed(@)]
  /\ infos' = floyd.nodes
  /\ stop' = FALSE
  /\ deque' = << >>
  /\ UNCHANGED <<floyd, reader, worker, faults, partial, behind>>

\* RefreshLeader of the new leader: Refresh, RestoreNodeInfos, Active, and
\* ActiveAllPartition.
BecomeLeader(s) ==
  /\ leader = NoServer
  /\ reader[s].pc = "idle"
  /\ leader' = s
  /\ cache' = [cache EXCEPT ![s] = Refreshed(@)]
  /\ infos' = floyd.nodes
  /\ stop' = FALSE
  /\ deque' = ActiveAllPartition(cache'[s].table)
  /\ UNCHANGED <<floyd, reader, worker, faults, partial, behind>>

\* Abandon: the tasks are dropped and the worker is waited for.
Abandon ==
  /\ leader # NoServer
  /\ ~stop
  /\ stop' = TRUE
  /\ deque' = << >>
  /\ UNCHANGED <<floyd, cache, reader, leader, infos, worker, faults, partial,
                 behind>>

Resign ==
  /\ leader # NoServer
  /\ stop
  /\ worker.pc = "idle"
  /\ leader' = NoServer
  /\ infos' = NoNodes
  /\ UNCHANGED <<floyd, cache, reader, deque, worker, stop, faults, partial,
                 behind>>

\* A crash of a server; it starts again with an empty cache.
Crash(s) ==
  /\ Fault
  /\ cache[s] # Uninitialed
  /\ cache' = [cache EXCEPT ![s] = Uninitialed]
  /\ reader' = [reader EXCEPT ![s] = NotReading]
  /\ IF s = leader
     THEN /\ leader' = NoServer
          /\ infos' = NoNodes
          /\ deque' = << >>
          /\ worker' = Sleeping
          /\ stop' = TRUE
          /\ partial' = (partial \/ Applying)
     ELSE UNCHANGED <<leader, infos, deque, worker, stop, partial>>
  /\ UNCHANGED <<floyd, behind>>

Next ==
  \/ \E s \in Server : \/ ReadVersion(s)
                       \/ ReadList(s)
                       \/ ReadTable(s)
                       \/ ReadFails(s)
                       \/ BecomeLeader(s)
                       \/ Crash(s)
  \/ \E t \in Task : PendingUpdate(t)
  \/ \E n \in Node : UpdateNodeInfo(n)
  \/ UpdateFunc
  \/ ApplyTask
  \/ DiscardTasks
  \/ RefreshTableWithNodeAlive
  \/ ApplyWrite
  \/ ApplyRefresh
  \/ ApplyDone
  \/ ApplyFails
  \/ Abandon
  \/ Resign

Spec == Init /\ [][Next]_vars

-----------------------------------------------------------------------------
(* Properties.                                                             *)

\* Every variable stays in its type; epochs and stamps stay within the bound.
TypeOK ==
  /\ floyd \in Floyd
  /\ cache \in [Server -> Cache]
  /\ reader \in [Server -> Reader]
  /\ leader \in Server \cup {NoServer}
  /\ infos \in [Node -> NodeState]
  /\ deque \in Seq(Task) /\ Len(deque) <= MaxTasks + 1
  /\ worker \in Worker
  /\ faults \in 0..MaxFaults
  /\ {stop, partial, behind} \subseteq BOOLEAN

\* Wherever a table is kept, in floyd, in the cache of any server or in the
\* snapshot of the update thread, no node has two places in the partition:
\* concurrent AddSlave, SetMaster, Handover and elections never leave a node as
\* both master and slave, or twice a slave.
PartitionOK ==
  /\ floyd.part # NoTable => WellFormed(floyd.part)
  /\ worker.table # NoTable => WellFormed(worker.table)
  /\ \A s \in Server : cache[s].table # NoTable => WellFormed(cache[s].table)

\* "Epoch fallback ... It's very dangerous", the LOG(FATAL) of Refresh: no
\* server ever finds an epoch in floyd that is smaller than its own, whatever
\* fails and whoever leads.
NoEpochFallback == \A s \in Server : cache[s].epoch <= floyd.epoch

\* Apply writes the tables before the epoch, Refresh reads the epoch before the
\* tables: what a server hands out under an epoch may be newer than the epoch,
\* never older, so that a node that has pulled an epoch has missed nothing of it.
CacheNotOlder ==
  \A s \in Server : cache[s].epoch > -2 => cache[s].stamp >= cache[s].epoch

\* Between two updates the leader's cache is what is in floyd: the next
\* snapshot, which overwrites floyd, loses no earlier change.  It takes an Apply
\* that was cut off half way, and its epoch used a second time, to make them
\* differ.
LeaderInStep ==
  leader # NoServer /\ ~Applying /\ ~partial =>
    /\ cache[leader].epoch = floyd.epoch
    /\ cache[leader].table = IF floyd.listed THEN floyd.part ELSE NoTable

\* Between two updates the partition has a master that is up, or none of its
\* nodes is up and it has no master, unless an Apply was cut off half way.
MasterUp ==
  floyd.listed /\ ~Applying /\ ~partial =>
    \/ floyd.part.master \in UpIn(floyd.nodes)
    \/ /\ floyd.part.master = NoNode
       /\ Range(floyd.part.slaves) \cap UpIn(floyd.nodes) = {}

\* "Swap with slave with max offset": an election never passes over a slave
\* that is up and has more of the binlog than the new master.
PromotedIsNewest == ~behind
=============================================================================

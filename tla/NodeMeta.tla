------------------------------ MODULE NodeMeta ------------------------------
(***************************************************************************)
(* How a data node follows the meta servers: the ping thread               *)
(* (src/node/zp_ping_thread.cc) learns from the leader that there is a     *)
(* newer epoch, and the metacmd worker (src/node/zp_metacmd_bgworker.cc)    *)
(* pulls the tables from whichever meta server it is connected to, applies  *)
(* them and only then takes over the epoch (ZPDataServer,                   *)
(* src/node/zp_data_server.cc).                                             *)
(*                                                                         *)
(* Of the metadata there is what concerns this node: for every table, what  *)
(* a published epoch makes of the node in it.  Epochs are counted from 1;   *)
(* 0 stands for the -1 of a node that has never pulled.  The tables are     *)
(* written to floyd before the epoch, so a meta server may have read tables *)
(* that are newer than its epoch, never older ones (MetaUpdate).            *)
(***************************************************************************)
EXTENDS Naturals, Sequences

CONSTANTS
  Meta,      \* the meta servers
  NoMeta,    \* no server
  Table,     \* the tables
  Role,      \* what a node may be in a table, "none" if it has no part in it
  MaxEpoch,  \* bound: epochs that are published
  MaxTasks   \* bound: tasks of the worker that are told apart

ASSUME NodeMetaAssumption ==
  /\ NoMeta \notin Meta
  /\ "none" \in Role /\ "headless" \notin Role
  /\ MaxEpoch \in Nat
  /\ MaxTasks \in Nat \ {0}

VARIABLES
  published,  \* what the meta leader has written, epoch by epoch
  version,    \* the epoch in floyd: the last one published, or the one before
  cache,      \* of each meta server: its epoch, and that of each of its tables
  lead,       \* the meta server whose role is kLeader
  epoch,      \* meta_epoch_ of the node
  should_pull,  \* should_pull_meta_
  tasks,      \* tasks scheduled in bg_thread_, the one at work included
  worker,     \* MetaUpdateTask: where it is, whom it asked, what it was told
  view,       \* tables_: the node's role in each table
  ping,       \* the answer to a ping that is on its way, 0 if there is none
  seen,       \* history: the epoch of what was last applied to each table
  ceased      \* no more faults

meta == <<published, version, cache, lead>>
vars == <<meta, epoch, should_pull, tasks, worker, view, ping, seen, ceased>>

\* What an epoch makes of the node in a table: it has a role there, or the
\* partition has no master.
Assignment == Role \cup {"headless"}

Epoch == 0..MaxEpoch
Answer == [version : Epoch, stamp : [Table -> Epoch]]
NoAnswer == [version |-> 0, stamp |-> [t \in Table |-> 0]]
Idle == [pc |-> "idle", from |-> NoMeta, answer |-> NoAnswer]

Fault == ~ceased

\* The node starts, for the first time or again: nothing is kept on disk.
Started ==
  /\ epoch' = 0
  /\ should_pull' = FALSE
  /\ tasks' = 0
  /\ worker' = Idle
  /\ view' = [t \in Table |-> "none"]
  /\ seen' = [t \in Table |-> 0]
  /\ ping' = 0

Init ==
  /\ published = << >>
  /\ version = 0
  /\ cache = [m \in Meta |-> NoAnswer]
  /\ lead = NoMeta
  /\ epoch = 0
  /\ should_pull = FALSE
  /\ tasks = 0
  /\ worker = Idle
  /\ view = [t \in Table |-> "none"]
  /\ seen = [t \in Table |-> 0]
  /\ ping = 0
  /\ ceased = FALSE

-----------------------------------------------------------------------------
(* The meta servers.                                                       *)

\* Apply of the leader: the tables, ...
WriteTables ==
  /\ lead # NoMeta
  /\ version = Len(published)
  /\ Len(published) < MaxEpoch
  /\ \E a \in [Table -> Assignment] : published' = Append(published, a)
  /\ UNCHANGED <<version, cache, lead, epoch, should_pull, tasks, worker, view,
                 ping, seen, ceased>>

\* ... and then the epoch.
WriteEpoch ==
  /\ lead # NoMeta
  /\ version < Len(published)
  /\ version' = Len(published)
  /\ UNCHANGED <<published, cache, lead, epoch, should_pull, tasks, worker,
                 view, ping, seen, ceased>>

\* Refresh of the leader after Apply and of a follower from its cron: it reads
\* the version first, then tables that may be newer.
Refresh(m) ==
  /\ version > cache[m].version
  /\ \E stamp \in [Table -> {version, Len(published)}] :
       cache' = [cache EXCEPT ![m] = [version |-> version, stamp |-> stamp]]
  /\ UNCHANGED <<published, version, lead, epoch, should_pull, tasks, worker,
                 view, ping, seen, ceased>>

\* The server becomes the leader, which refreshes its cache first.
Lead(m) ==
  /\ Fault \/ lead = NoMeta
  /\ m # lead
  /\ cache[m].version = version
  /\ lead' = m
  /\ UNCHANGED <<published, version, cache, epoch, should_pull, tasks, worker,
                 view, ping, seen, ceased>>

\* The answer of the leader to a ping: PingCmd is redirected to it.
PingCmd ==
  /\ lead # NoMeta
  /\ ping = 0
  /\ ping' = cache[lead].version
  /\ UNCHANGED <<meta, epoch, should_pull, tasks, worker, view, seen, ceased>>

\* PullCmd on any server.  "Get epoch first and because the epoch was updated
\* at last": GetMetaInfoByNode asks its cache for the epoch, ...
GetVersion ==
  /\ worker.pc = "sent"
  /\ worker' = [pc |-> "version", from |-> worker.from,
                answer |-> [version |-> cache[worker.from].version,
                            stamp |-> NoAnswer.stamp]]
  /\ UNCHANGED <<meta, epoch, should_pull, tasks, view, ping, seen, ceased>>

\* Mutant of GetTables: the epoch is that of floyd, not of the cache.
GetTablesVersion ==
  /\ worker.pc = "version"
  /\ worker' = [pc |-> "answered", from |-> NoMeta,
                answer |-> [version |-> version,
                            stamp |-> cache[worker.from].stamp]]
  /\ UNCHANGED <<meta, epoch, should_pull, tasks, view, ping, seen, ceased>>

\* ... and then for the tables.
GetTables ==
  /\ worker.pc = "version"
  /\ worker' = [pc |-> "answered", from |-> NoMeta,
                answer |-> [version |-> worker.answer.version,
                            stamp |-> cache[worker.from].stamp]]
  /\ UNCHANGED <<meta, epoch, should_pull, tasks, view, ping, seen, ceased>>

-----------------------------------------------------------------------------
(* The node.                                                               *)

\* Tasks are alike and one that finds nothing to pull ends: above MaxTasks
\* they are not counted.
AddMetacmdTask == tasks' = IF tasks < MaxTasks THEN tasks + 1 ELSE tasks

\* Mutant of TryUpdateEpoch: a task is added and should_pull_meta_ forgotten.
TryUpdateEpochNoFlag(e) ==
  IF e > epoch THEN AddMetacmdTask /\ UNCHANGED should_pull
               ELSE UNCHANGED <<should_pull, tasks>>

TryUpdateEpoch(e) ==
  IF e > epoch THEN should_pull' = TRUE /\ AddMetacmdTask
               ELSE UNCHANGED <<should_pull, tasks>>

\* RecvProc: the answer may be one that a ping before this one did not wait for.
RecvPing ==
  /\ ping > 0
  /\ TryUpdateEpoch(ping)
  /\ ping' = 0
  /\ UNCHANGED <<meta, epoch, worker, view, seen, ceased>>

LosePing ==
  /\ Fault
  /\ ping > 0
  /\ ping' = 0
  /\ UNCHANGED <<meta, epoch, should_pull, tasks, worker, view, seen, ceased>>

\* MetaUpdateTask with nothing to do: "Avoid multiple invalid Pull".
SkipTask ==
  /\ worker.pc = "idle"
  /\ tasks > 0
  /\ ~should_pull
  /\ tasks' = tasks - 1
  /\ UNCHANGED <<meta, epoch, should_pull, worker, view, ping, seen, ceased>>

\* FetchMetaInfo: "Pull may connect a meta server different with ping".
SendPull(m) ==
  /\ worker.pc = "idle"
  /\ tasks > 0
  /\ should_pull
  /\ worker' = [pc |-> "sent", from |-> m, answer |-> NoAnswer]
  /\ UNCHANGED <<meta, epoch, should_pull, tasks, view, ping, seen, ceased>>

\* Mutant of FetchFails: the task is not scheduled again.
FetchFailsForGood ==
  /\ Fault
  /\ worker.pc \in {"sent", "version", "answered"}
  /\ worker' = Idle
  /\ tasks' = tasks - 1
  /\ UNCHANGED <<meta, epoch, should_pull, view, ping, seen, ceased>>

\* Connect, Send or Recv failed, or the server answered with an error: the task
\* ends and schedules itself again.
FetchFails ==
  /\ Fault
  /\ worker.pc \in {"sent", "version", "answered"}
  /\ worker' = Idle
  /\ UNCHANGED <<meta, epoch, should_pull, tasks, view, ping, seen, ceased>>

\* UpdateOrAddPartition, or DeleteTable for a table that is not in the answer.
\* "No master patitions, simply ignore".
Assign(role, a) == IF a = "headless" THEN role ELSE a

\* ParsePullResponse.  "May already finished": an answer that is not newer is
\* not applied, and the task goes on as after one that is.
ParsePullResponse ==
  /\ worker.pc = "answered"
  /\ IF worker.answer.version <= epoch
     THEN UNCHANGED <<view, seen>>
     ELSE /\ view' = [t \in Table |->
                        IF worker.answer.stamp[t] = 0 THEN "none"
                        ELSE Assign(view[t],
                                    published[worker.answer.stamp[t]][t])]
          /\ seen' = worker.answer.stamp
  /\ worker' = [pc |-> "parsed", from |-> NoMeta,
                answer |-> worker.answer]
  /\ UNCHANGED <<meta, epoch, should_pull, tasks, ping, ceased>>

\* The configuration file could not be rewritten: as if nothing was fetched.
RewriteFails ==
  /\ Fault
  /\ worker.pc = "parsed"
  /\ worker.answer.version > epoch
  /\ worker' = Idle
  /\ UNCHANGED <<meta, epoch, should_pull, tasks, view, ping, seen, ceased>>

FinishPullMeta ==
  /\ worker.pc = "parsed"
  /\ epoch' = worker.answer.version
  /\ should_pull' = FALSE
  /\ tasks' = tasks - 1
  /\ worker' = Idle
  /\ UNCHANGED <<meta, view, ping, seen, ceased>>

Restart == Fault /\ Started /\ UNCHANGED <<meta, ceased>>

Cease ==
  /\ ~ceased
  /\ lead # NoMeta
  /\ ceased' = TRUE
  /\ UNCHANGED <<meta, epoch, should_pull, tasks, worker, view, ping, seen>>

Worker ==
  \/ SkipTask \/ (\E m \in Meta : SendPull(m)) \/ GetVersion \/ GetTables
  \/ ParsePullResponse \/ FinishPullMeta

Next ==
  \/ WriteTables \/ WriteEpoch \/ (\E m \in Meta : Refresh(m) \/ Lead(m))
  \/ PingCmd \/ RecvPing \/ LosePing
  \/ Worker \/ FetchFails \/ RewriteFails
  \/ Restart \/ Cease

\* A leader finishes the update it began, every meta server's cron refreshes,
\* and the node's ping and metacmd threads run on.
Fairness ==
  /\ WF_vars(WriteEpoch)
  /\ \A m \in Meta : WF_vars(Refresh(m))
  /\ WF_vars(PingCmd)
  /\ WF_vars(RecvPing)
  /\ WF_vars(Worker)

Spec == Init /\ [][Next]_vars /\ Fairness

-----------------------------------------------------------------------------
(* Properties.                                                             *)

TypeOK ==
  /\ published \in Seq([Table -> Assignment]) /\ Len(published) <= MaxEpoch
  /\ version \in Epoch
  /\ cache \in [Meta -> Answer]
  /\ lead \in Meta \cup {NoMeta}
  /\ epoch \in Epoch
  /\ should_pull \in BOOLEAN
  /\ tasks \in 0..MaxTasks
  /\ worker \in [pc : {"idle", "sent", "version", "answered", "parsed"},
                 from : Meta \cup {NoMeta}, answer : Answer]
  /\ view \in [Table -> Role]
  /\ ping \in Epoch
  /\ seen \in [Table -> Epoch]
  /\ ceased \in BOOLEAN

\* "A newer table meta info with older epoch is acceptable": what the node does
\* in a table is never older than the epoch it claims towards the other nodes,
\* and is what some epoch gave it, unless that left the partition masterless.
ViewBacked ==
  \A t \in Table :
    /\ seen[t] >= epoch
    /\ seen[t] = 0 => view[t] = "none"
    /\ seen[t] > 0 => /\ seen[t] <= Len(published)
                      /\ published[seen[t]][t] \in {view[t], "headless"}

\* The node does not forget that it is behind: while should_pull_meta_ is set a
\* task is there that will pull, whatever failed in between.
PullPending == should_pull => tasks > 0

\* Once the faults have ceased the node reaches the last epoch and stays there,
\* and so do its roles.
Current == /\ epoch = Len(published)
           /\ \A t \in Table : seen[t] = epoch
Converges == ceased ~> []Current

\* "Receive meta epoch fallback from my ... to ..., Reject": the node's epoch
\* does not go back while it runs.
EpochForward == [][epoch' < epoch => epoch' = 0]_vars
=============================================================================

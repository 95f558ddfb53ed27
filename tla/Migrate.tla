------------------------------- MODULE Migrate -------------------------------
(***************************************************************************)
(* The migration of partitions from node to node, as the leading meta      *)
(* server runs it.  ZPMetaMigrateRegister keeps the list of what is left to *)
(* do in memory and in floyd (src/meta/zp_meta_migrate_register.cc): a head *)
(* that names the diff items, and one key for each item.  The timer thread  *)
(* fetches a few items at a time (ProcessMigrateIfNeed in                   *)
(* src/meta/zp_meta_server.cc) and hands each to the update thread, or to   *)
(* the condition cron (src/meta/zp_meta_condition_cron.cc), which waits     *)
(* until the new node has caught up.  The update thread erases an item      *)
(* after its handover, or puts it back.  refer_ counts the items that are   *)
(* out; while it is positive no more are fetched.                           *)
(*                                                                         *)
(* A register operation holds migrate_rw_ for as long as it runs, which may *)
(* be several floyd calls; a server may crash between any two.  A call that *)
(* fails may have been carried out all the same.  The commands Migrate and  *)
(* CancelMigrate run on the threads of the connections: admitted by a       *)
(* leader, they are not waited for when it resigns.  What the update thread *)
(* does to the tables is the matter of MetaUpdate.                          *)
(***************************************************************************)
EXTENDS Integers, FiniteSets, FiniteSetsExt

CONSTANTS
  Server,       \* the meta servers
  NoServer,     \* no leader
  Diff,         \* the diff items: table, partition, left and right node
  NoDiff,       \* no diff item
  MigrateOnce,  \* conf: migrate_count_once
  MaxCopies,    \* bound: handovers of one item in task_deque_
  MinRefer      \* bound: refer_ is not followed below -MinRefer

ASSUME MigrateAssumption ==
  /\ NoServer \notin Server /\ NoDiff \notin Diff /\ IsFiniteSet(Diff)
  /\ MigrateOnce \in Nat \ {0}
  /\ MaxCopies \in Nat \ {0} /\ MinRefer \in Nat

VARIABLES
  head,      \* floyd: ##migrate, if it is there, with the names it lists
  items,     \* floyd: the keys of diff items
  mem,       \* of each server: diff_keys_, refer_, and Exist()
  leader,    \* the server whose role_ is kLeader
  last,      \* history: the server that led last
  served,    \* the servers that led since they started: a command that
             \* they admitted may still be under way
  op,        \* of each server: the register operation that holds migrate_rw_
  proc,      \* ProcessMigrateIfNeed: items left to look at, remain_diff_count
  waiting,   \* the cron: conditions that wait to hand an item over
  half,      \* the cron: the item whose handover is pending, SetActive is not
  pending,   \* task_deque_: the handovers of each item
  worker,    \* ApplyUpdates: where it is, and the handovers of its batch
  stuck,     \* is_stuck_
  odd,       \* history: the items that are out are not those of this migration
  relic      \* history: a leader began with items of an earlier term, or a
             \* command of an earlier leader met it

vars == <<head, items, mem, leader, last, served, op, proc, waiting, half, pending,
          worker, stuck, odd, relic>>

Count == [Diff -> 0..MaxCopies]
None == [d \in Diff |-> 0]
\* The handovers of f, told apart by a number, and how many there are.
Copies(f) == {p \in Diff \X (1 .. MaxCopies) : p[2] <= f[p[1]]}
Total(f) == Cardinality(Copies(f))

NoHead == [there |-> FALSE, keys |-> {}]
Fresh == [keys |-> {}, refer |-> 0, exist |-> FALSE]
NoOp == [pc |-> "idle", todo |-> {}]
NoProc == [todo |-> {}, remain |-> 0]
Sleeping == [pc |-> "idle", batch |-> None]

me == mem[leader]
Leading == leader # NoServer
Unlocked == Leading /\ op[leader] = NoOp
terms == <<leader, last, served>>

\* refer_ less n.
Minus(refer, n) == Max({refer - n, -MinRefer})

\* The items that were fetched and have not been put back or erased.
InFlight == proc.remain + Total(waiting) + Total(pending) + Total(worker.batch)

Init ==
  /\ head = NoHead
  /\ items = {}
  /\ mem = [s \in Server |-> Fresh]
  /\ leader = NoServer
  /\ last = NoServer
  /\ served = {}
  /\ op = [s \in Server |-> NoOp]
  /\ proc = NoProc
  /\ waiting = None
  /\ half = NoDiff
  /\ pending = None
  /\ worker = Sleeping
  /\ stuck = FALSE
  /\ odd = FALSE
  /\ relic = FALSE

threads == <<proc, waiting, half, pending, worker, stuck>>

-----------------------------------------------------------------------------
(* ZPMetaMigrateRegister.                                                  *)

\* What MigrateCmd may leave of a request after it has skipped the items that
\* make no sense.
Request == (SUBSET Diff) \ {{}}

\* A command comes to the register of s, which led when it was admitted: "There is
\* no lock protect between check leader and Redirect or DoCommand".
Commanded(s) ==
  /\ s \in served
  /\ op[s] = NoOp
  /\ relic' = (relic \/ s # last)

\* Init, unless a migration exists, writes the items, one by one, ...
InitMigrate(s, D) ==
  /\ Commanded(s)
  /\ ~mem[s].exist
  /\ op' = [op EXCEPT ![s] = [pc |-> "init", todo |-> D]]
  /\ UNCHANGED <<head, items, mem, terms, threads, odd>>

InitItem(s, d) ==
  /\ op[s].pc = "init"
  /\ d \in op[s].todo
  /\ \/ /\ items' = items \cup {d}
        /\ mem' = [mem EXCEPT ![s].keys = @ \cup {d}]
        /\ op' = [op EXCEPT ![s].todo = @ \ {d}]
     \/ /\ items' \in {items, items \cup {d}}
        /\ op' = [op EXCEPT ![s] = NoOp]
        /\ UNCHANGED mem
  /\ UNCHANGED <<head, terms, threads, odd, relic>>

\* ... then the head, with all of diff_keys_, and exists from then on.  Items
\* may be out if an earlier migration was cancelled.
InitHead(s) ==
  /\ op[s].pc = "init"
  /\ op[s].todo = {}
  /\ \/ /\ head' = [there |-> TRUE, keys |-> mem[s].keys]
        /\ mem' = [mem EXCEPT ![s].exist = TRUE]
        /\ odd' = (odd \/ InFlight # 0)
     \/ /\ head' \in {head, [there |-> TRUE, keys |-> mem[s].keys]}
        /\ UNCHANGED <<mem, odd>>
  /\ op' = [op EXCEPT ![s] = NoOp]
  /\ UNCHANGED <<items, terms, threads, relic>>

\* CancelWithoutLock: the head is deleted first.  m is the register's memory
\* after what came before the call, and pc tells who called.
CancelWithoutLock(s, m, pc) ==
  \/ /\ head' = NoHead
     /\ op' = [op EXCEPT ![s] = [pc |-> pc, todo |-> {}]]
     /\ mem' = [mem EXCEPT ![s] = m]
  \/ /\ head' \in {head, NoHead}
     /\ op' = [op EXCEPT ![s] = NoOp]
     /\ mem' = [mem EXCEPT ![s] = m]

\* Then the items, whether or not floyd deletes them, and the memory.
CancelItems(s) ==
  /\ op[s].pc \in {"cancel", "finish"}
  /\ \E D \in SUBSET mem[s].keys : items' = items \ D
  /\ mem' = [mem EXCEPT ![s] = Fresh]
  /\ op' = [op EXCEPT ![s] = NoOp]
  /\ UNCHANGED <<head, terms, threads, odd, relic>>

Cancel(s) ==
  /\ Commanded(s)
  /\ mem[s].exist
  /\ CancelWithoutLock(s, mem[s], "cancel")
  /\ UNCHANGED <<items, terms, threads, odd>>

\* Mutant of EraseHead: the item is deleted before the head is written.
EraseItemFirst(d) ==
  /\ items' = items \ {d}
  /\ \/ /\ head' = [there |-> TRUE, keys |-> me.keys \ {d}]
        /\ mem' = [mem EXCEPT ![leader].keys = @ \ {d},
                              ![leader].refer = Minus(@, 1)]
     \/ /\ mem' = [mem EXCEPT ![leader].refer = Minus(@, 1)]
        /\ UNCHANGED head
  /\ op' = [op EXCEPT ![leader] = NoOp]

\* Erase of one of several items: refer_ goes down whatever floyd answers.
EraseHead(d) ==
  /\ LET less == [there |-> TRUE, keys |-> me.keys \ {d}] IN
     \/ /\ head' = less
        /\ mem' = [mem EXCEPT ![leader] = [keys |-> me.keys \ {d},
                                           refer |-> Minus(me.refer, 1),
                                           exist |-> me.exist]]
        /\ op' = [op EXCEPT ![leader] = [pc |-> "item", todo |-> {d}]]
     \/ /\ head' \in {head, less}
        /\ mem' = [mem EXCEPT ![leader].refer = Minus(@, 1)]
        /\ op' = [op EXCEPT ![leader] = NoOp]
  /\ UNCHANGED items

\* "non-critical"
EraseItem(s) ==
  /\ op[s].pc = "item"
  /\ items' \in {items, items \ op[s].todo}
  /\ op' = [op EXCEPT ![s] = NoOp]
  /\ UNCHANGED <<head, mem, terms, threads, odd, relic>>

\* Erase: the last item ends the migration.
Erase(d) ==
  CASE ~me.exist \/ d \notin me.keys -> UNCHANGED <<head, items, mem, op>>
    [] me.exist /\ me.keys = {d} ->
         CancelWithoutLock(leader, [me EXCEPT !.refer = Minus(@, 1)], "finish")
           /\ UNCHANGED items
    [] OTHER -> EraseHead(d)

\* PutN: the memory after it.
PutN(n) == IF me.exist THEN [mem EXCEPT ![leader].refer = Minus(@, n)] ELSE mem

-----------------------------------------------------------------------------
(* ProcessMigrateIfNeed, on the timer thread of the leader.                *)

\* Mutant of GetN: items are fetched although some are out.
GetNAgain ==
  /\ Unlocked
  /\ proc = NoProc
  /\ me.exist
  /\ \E D \in SUBSET (me.keys \cap items) :
       /\ Cardinality(D) = Min({MigrateOnce, Cardinality(me.keys)})
       /\ D # {}
       /\ mem' = [mem EXCEPT ![leader].refer = Cardinality(D)]
       /\ proc' = [todo |-> D, remain |-> Cardinality(D)]
  /\ UNCHANGED <<head, items, terms, op, waiting, half, pending,
                 worker, stuck, odd, relic>>

\* GetN: the first few of an unordered set; it fails if one is not in floyd.
GetN ==
  /\ Unlocked
  /\ proc = NoProc
  /\ me.exist
  /\ me.refer <= 0
  /\ \E D \in SUBSET (me.keys \cap items) :
       /\ Cardinality(D) = Min({MigrateOnce, Cardinality(me.keys)})
       /\ D # {}
       /\ mem' = [mem EXCEPT ![leader].refer = Cardinality(D)]
       /\ proc' = [todo |-> D, remain |-> Cardinality(D)]
       /\ odd' = (odd \/ InFlight # 0)
  /\ UNCHANGED <<head, items, terms, op, waiting, half, pending,
                 worker, stuck, relic>>

\* The offset of a node is not known: the item is passed over.
PassOver(d) ==
  /\ d \in proc.todo
  /\ proc' = [proc EXCEPT !.todo = @ \ {d}]
  /\ UNCHANGED <<waiting, pending>>

\* The left node is down: the handover need not wait.
HandoverNow(d) ==
  /\ d \in proc.todo
  /\ ~stuck
  /\ pending[d] < MaxCopies
  /\ proc' = [todo |-> proc.todo \ {d}, remain |-> proc.remain - 1]
  /\ pending' = [pending EXCEPT ![d] = @ + 1]
  /\ UNCHANGED waiting

\* SlowdownAndStuck, and the condition for the handover.
WaitToHandover(d) ==
  /\ d \in proc.todo
  /\ ~stuck
  /\ waiting[d] + (IF half = d THEN 1 ELSE 0) < MaxCopies
  /\ proc' = [todo |-> proc.todo \ {d}, remain |-> proc.remain - 1]
  /\ waiting' = [waiting EXCEPT ![d] = @ + 1]
  /\ UNCHANGED pending

\* An update is refused, or the left node is not known at all.
BreakOff ==
  /\ proc.todo # {}
  /\ proc' = [proc EXCEPT !.todo = {}]
  /\ UNCHANGED <<waiting, pending>>

ProcessMigrate ==
  /\ Leading
  /\ \/ \E d \in Diff : PassOver(d) \/ HandoverNow(d) \/ WaitToHandover(d)
     \/ BreakOff
  /\ UNCHANGED <<head, items, mem, terms, op, half, worker, stuck, odd,
                 relic>>

\* Mutant of ProcessDone: what was passed over is not put back.
ProcessDoneForgets ==
  /\ Unlocked
  /\ proc # NoProc /\ proc.todo = {}
  /\ proc' = NoProc
  /\ UNCHANGED <<head, items, mem, terms, op, waiting, half, pending,
                 worker, stuck, odd, relic>>

\* Something wrong happened: put the rest back.
ProcessDone ==
  /\ Unlocked
  /\ proc # NoProc /\ proc.todo = {}
  /\ mem' = PutN(proc.remain)
  /\ proc' = NoProc
  /\ UNCHANGED <<head, items, terms, op, waiting, half, pending,
                 worker, stuck, odd, relic>>

-----------------------------------------------------------------------------
(* The condition cron.                                                     *)

\* ChecknProcess: the new node has caught up.  The handover is pending, ...
ConditionMet(d) ==
  /\ Leading
  /\ half = NoDiff
  /\ waiting[d] > 0
  /\ ~stuck
  /\ pending[d] < MaxCopies
  /\ pending' = [pending EXCEPT ![d] = @ + 1]
  /\ waiting' = [waiting EXCEPT ![d] = @ - 1]
  /\ half' = d
  /\ UNCHANGED <<head, items, mem, terms, op, proc, worker, stuck, odd,
                 relic>>

\* ... and then SetActive.  If that is refused everything is done again next
\* time, the handover too.
ConditionActive ==
  /\ half # NoDiff
  /\ IF stuck
     THEN odd' = TRUE /\ waiting' = [waiting EXCEPT ![half] = @ + 1]
     ELSE UNCHANGED <<odd, waiting>>
  /\ half' = NoDiff
  /\ UNCHANGED <<head, items, mem, terms, op, proc, pending, worker,
                 stuck, relic>>

\* An offset is not known: RecoverWhenError puts the item back, and does so
\* again next time if SetActive is refused.
RecoverWhenError(d) ==
  /\ Unlocked
  /\ half = NoDiff
  /\ waiting[d] > 0
  /\ mem' = PutN(1)
  /\ IF stuck
     THEN odd' = TRUE /\ UNCHANGED waiting
     ELSE waiting' = [waiting EXCEPT ![d] = @ - 1] /\ UNCHANGED odd
  /\ UNCHANGED <<head, items, terms, op, proc, half, pending, worker,
                 stuck, relic>>

-----------------------------------------------------------------------------
(* The update thread.                                                      *)

UpdateFunc ==
  /\ Leading
  /\ worker = Sleeping
  /\ pending # None
  /\ worker' = [pc |-> "apply", batch |-> pending]
  /\ pending' = None
  /\ UNCHANGED <<head, items, mem, terms, op, proc, waiting, half,
                 stuck, odd, relic>>

\* Apply failed on floyd and is to be tried again.
ApplyFails ==
  /\ worker.pc = "apply"
  /\ stuck' = TRUE
  /\ UNCHANGED <<head, items, mem, terms, op, proc, waiting, half,
                 pending, worker, odd, relic>>

\* Apply went through.
ApplyOk ==
  /\ worker.pc = "apply"
  /\ worker' = [worker EXCEPT !.pc = "erase"]
  /\ stuck' = FALSE
  /\ UNCHANGED <<head, items, mem, terms, op, proc, waiting, half,
                 pending, odd, relic>>

\* No task of the batch succeeded, or Apply failed for good: PutN for every
\* handover of the batch.
ApplyLost ==
  /\ Unlocked
  /\ worker.pc = "apply"
  /\ mem' = PutN(Total(worker.batch))
  /\ worker' = Sleeping
  /\ stuck' = FALSE
  /\ UNCHANGED <<head, items, terms, op, proc, waiting, half, pending,
                 odd, relic>>

\* "Some finish touches": the items are erased, those too whose handover did
\* not succeed.  A second handover of an item finds it gone.
FinishItem(d) ==
  /\ Unlocked
  /\ worker.pc = "erase"
  /\ worker.batch[d] > 0
  /\ Erase(d)
  /\ LET rest == [worker.batch EXCEPT ![d] = 0] IN
     worker' = IF rest = None THEN Sleeping ELSE [worker EXCEPT !.batch = rest]
  /\ UNCHANGED <<terms, proc, waiting, half, pending, stuck, odd,
                 relic>>

-----------------------------------------------------------------------------
(* Leaders come and go.                                                    *)

\* Load: nothing to do without a head; an error if an item is missing.
Load(s) ==
  IF head.there
  THEN /\ head.keys \subseteq items
       /\ mem' = [mem EXCEPT ![s] = [keys |-> @.keys \cup head.keys,
                                     exist |-> TRUE, refer |-> 0]]
  ELSE UNCHANGED mem

BecomeLeader(s) ==
  /\ leader = NoServer
  /\ op[s] = NoOp
  /\ leader' = s /\ last' = s /\ served' = served \cup {s}
  /\ Load(s)
  /\ odd' = FALSE
  /\ relic' = \/ relic
              \/ ~(mem[s].keys \subseteq head.keys)
              \/ \E t \in Server \ {s} : op[t] # NoOp
  /\ UNCHANGED <<head, items, op, threads>>

\* Abandon of the cron and of the update thread, which ends its batch first:
\* should_stop_ makes it put the handovers back.  The register stays as it is,
\* and a command that holds it goes on.
Resign ==
  /\ Leading
  /\ worker.pc # "erase" /\ op[leader].pc \notin {"item", "finish"}
  /\ worker = Sleeping \/ op[leader] = NoOp
  /\ proc = NoProc
  /\ half = NoDiff
  /\ mem' = PutN(Total(worker.batch))
  /\ leader' = NoServer
  /\ waiting' = None
  /\ pending' = None
  /\ worker' = Sleeping
  /\ stuck' = FALSE
  /\ UNCHANGED <<head, items, last, served, op, proc, half, odd, relic>>

Crash(s) ==
  /\ mem' = [mem EXCEPT ![s] = Fresh]
  /\ op' = [op EXCEPT ![s] = NoOp]
  /\ served' = served \ {s}
  /\ IF s = leader
     THEN /\ leader' = NoServer
          /\ proc' = NoProc
          /\ waiting' = None
          /\ half' = NoDiff
          /\ pending' = None
          /\ worker' = Sleeping
          /\ stuck' = FALSE
     ELSE UNCHANGED <<leader, threads>>
  /\ UNCHANGED <<head, items, last, odd, relic>>

Register(s) ==
  \/ \E d \in Diff : InitItem(s, d)
  \/ InitHead(s)
  \/ CancelItems(s)
  \/ EraseItem(s)

Timer == GetN \/ ProcessMigrate \/ ProcessDone

Cron ==
  \/ \E d \in Diff : ConditionMet(d) \/ RecoverWhenError(d)
  \/ ConditionActive

Update ==
  \/ UpdateFunc
  \/ ApplyOk
  \/ ApplyLost
  \/ \E d \in Diff : FinishItem(d)

Next ==
  \/ \E s \in Server : Register(s) \/ Cancel(s) \/ \E D \in Request : InitMigrate(s, D)
  \/ Timer
  \/ Cron
  \/ Update
  \/ ApplyFails
  \/ Resign
  \/ \E s \in Server : BecomeLeader(s) \/ Crash(s)

\* Every thread goes on: floyd answers in the end.  The cron looks at every
\* condition once an interval, one after the other, so none is passed over for
\* ever in favour of another; and a condition is met in the end or found to be
\* in error, because a partition that is stuck takes no writes.
Fairness ==
  /\ \A s \in Server : WF_vars(Register(s))
  /\ WF_vars(ProcessMigrate \/ ProcessDone)
  /\ WF_vars(ConditionActive)
  /\ \A d \in Diff : SF_vars(ConditionMet(d))
  /\ WF_vars(Update)

Spec == Init /\ [][Next]_vars
FairSpec == Spec /\ Fairness

-----------------------------------------------------------------------------
(* Properties.                                                             *)

\* Every variable stays in its type; refer_ stays within its bound.
TypeOK ==
  /\ head.there \in BOOLEAN /\ head.keys \subseteq Diff
  /\ items \subseteq Diff
  /\ mem \in [Server -> [keys : SUBSET Diff, exist : BOOLEAN,
                         refer : -MinRefer..Cardinality(Diff)]]
  /\ {leader, last} \subseteq Server \cup {NoServer} /\ served \subseteq Server
  /\ op \in [Server -> [pc : {"idle", "init", "item", "cancel", "finish"},
                        todo : SUBSET Diff]]
  /\ proc \in [todo : SUBSET Diff, remain : 0..Cardinality(Diff)]
  /\ {waiting, pending} \subseteq Count
  /\ half \in Diff \cup {NoDiff}
  /\ worker \in [pc : {"idle", "apply", "erase"}, batch : Count]
  /\ {stuck, odd, relic} \subseteq BOOLEAN

\* Whatever call fails and wherever a server crashes, every item that the head
\* names is in floyd: Load, without which no server becomes leader, never ends
\* in "Check diff item failed".  Init writes the head last, Erase and Cancel
\* change it first.  It takes a leader that has kept items of an earlier term, or
\* a command that an earlier leader admitted and that runs into a later term, to
\* break this.
HeadHasItems == ~relic => head.keys \subseteq items

\* refer_ is the number of items that are out: none is put back or erased twice
\* and none is lost, unless a migration was cancelled or an update refused
\* while items were out.
RefersInFlight ==
  Unlocked /\ me.exist /\ ~odd /\ ~relic => me.refer = InFlight

\* No item is out twice at the same time, under the same conditions: GetN
\* returns Incomplete "if some task has already fetch out".
OutOnce ==
  Leading /\ ~odd /\ ~relic =>
    \A d \in Diff : waiting[d] + pending[d] + worker.batch[d]
                    + (IF d \in proc.todo THEN 1 ELSE 0) <= 1

\* The items that GetN hands out are out once and counted by refer_, until a
\* PutN or an Erase for each brings them back.
OutCounted == RefersInFlight /\ OutOnce

\* The items that are out come back: refer_ does not stay positive for ever,
\* which would stop the migration.  A leader that has kept the refer_ of an
\* earlier term, with no items out, is the exception.
RefersReturn ==
  \A s \in Server :
    leader = s /\ mem[s].exist /\ mem[s].refer > 0
      ~> leader # s \/ ~mem[s].exist \/ mem[s].refer <= 0 \/ relic

\* "no migrate task exist" (Load): without a head in floyd a new leader's
\* register has no migration.
LoadAgrees ==
  [][\A s \in Server : leader # s /\ leader' = s /\ ~head.there
                         => ~mem'[s].exist]_vars
=============================================================================

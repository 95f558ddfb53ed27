--------------------------- MODULE BinlogSendPool ---------------------------
(***************************************************************************)
(* The pool of binlog send tasks of a data node (ZPBinlogSendTaskPool in   *)
(* src/node/zp_binlog_sender.{h,cc}), the sender threads that take tasks   *)
(* out of it and put them back (ZPBinlogSendThread), and the worker        *)
(* threads that answer a slave's SYNC command by adding a task.            *)
(*                                                                         *)
(* A task is a heap object: Create allocates it, RemoveTask, PutBack and   *)
(* AddNewTask delete it.  An address may be allocated again once it is     *)
(* free.  Every critical section of tasks_rwlock_ is one step.             *)
(* next_sequence_ is read and written outside that lock, so the load and   *)
(* the store of next_sequence_++ are two steps.                            *)
(***************************************************************************)
EXTENDS Naturals, Sequences, SequencesExt

CONSTANTS
  Name,          \* task names: one per (table, partition, slave)
  Task,          \* addresses of ZPBinlogSendTask objects
  Sender,        \* ZPBinlogSendThread threads
  Worker,        \* worker threads that run SyncCmd
  NoTask,        \* the null pointer; as an iterator, tasks_.end()
  NoHandle,      \* "this name is not a key of task_ptrs_"
  Freed,         \* "this address holds no task object"
  NoCall,        \* "this worker is not inside AddNewTask"
  MaxSequence,   \* bound of the model: tasks created
  MaxFilenum     \* bound of the model: binlog files

VARIABLES
  tasks,          \* tasks_: the list of tasks waiting for a sender
  task_ptrs,      \* task_ptrs_: name -> handle
  next_sequence,  \* next_sequence_
  object,         \* the task object at each address, or Freed
  hand,           \* the task a sender has fetched out
  adder,          \* the progress of each worker through AddNewTask
  latest,         \* history: the task the last AddTask of a name put in
  twins           \* history: names of which two tasks had one sequence

pool == <<tasks, task_ptrs, next_sequence, object, hand, adder, latest, twins>>

Filenum == 0 .. MaxFilenum
Sequence == 0 .. MaxSequence

Object == [name: Name, sequence: Sequence, filenum: Filenum]

\* struct ZPBinlogSendTaskHandle
Handle == [iter: Task \cup {NoTask}, sequence: Sequence, filenum_snap: Filenum]

\* The locals of a call of AddNewTask and the point it has reached.
Call ==
  [pc: {"create", "exist", "remove", "add", "log"},
   name: Name, filenum: Filenum, sequence: Sequence,
   task: Task \cup {NoTask}, added: BOOLEAN]

ASSUME ConstantsAssumption ==
  /\ NoTask \notin Task
  /\ NoHandle \notin Handle
  /\ Freed \notin Object
  /\ NoCall \notin Call
  /\ MaxSequence \in Nat
  /\ MaxFilenum \in Nat

-----------------------------------------------------------------------------
(* The list and the index.                                                 *)

Waiting == {tasks[i] : i \in DOMAIN tasks}
Live == {t \in Task : object[t] # Freed}
At(w, point) == adder[w] # NoCall /\ adder[w].pc = point

\* std::list::erase(iterator): the node that holds t leaves the list.
Erase(list, t) == RemoveAt(list, CHOOSE i \in DOMAIN list : list[i] = t)

TaskExist(n) == task_ptrs[n] # NoHandle

\* TaskFilenum: what the purge of binlog files asks the pool.  A name without
\* a task answers numeric_limits<int32_t>::max(), here MaxFilenum + 1.
TaskFilenum(n) ==
  IF ~TaskExist(n) THEN MaxFilenum + 1
  ELSE IF task_ptrs[n].iter = NoTask THEN task_ptrs[n].filenum_snap
  ELSE object[task_ptrs[n].iter].filenum

\* RemoveTask: a task in the list is deleted, one that a sender has fetched
\* out is left to PutBack.
RemoveTask(n) ==
  IF ~TaskExist(n)
  THEN UNCHANGED <<tasks, task_ptrs, object, latest>>
  ELSE LET t == task_ptrs[n].iter IN
       /\ IF t # NoTask
          THEN tasks' = Erase(tasks, t) /\ object' = [object EXCEPT ![t] = Freed]
          ELSE UNCHANGED <<tasks, object>>
       /\ task_ptrs' = [task_ptrs EXCEPT ![n] = NoHandle]
       /\ latest' = [latest EXCEPT ![n] = NoTask]

-----------------------------------------------------------------------------
(* AddNewTask, by worker w, with force = true.                             *)

AddNewTask(w, n, f) ==
  /\ adder[w] = NoCall
  /\ next_sequence < MaxSequence
  /\ adder' = [adder EXCEPT ![w] =
       [pc |-> "create", name |-> n, filenum |-> f,
        sequence |-> next_sequence, task |-> NoTask, added |-> FALSE]]
  /\ UNCHANGED <<tasks, task_ptrs, next_sequence, object, hand, latest, twins>>

\* A task of that name with that sequence is allocated.
Numbered(n, q) == \E t \in Live : object[t].name = n /\ object[t].sequence = q

\* The store of next_sequence_++ and ZPBinlogSendTask::Create, which fails
\* when the file cannot be opened or the offset is not an item's start.
CreateFails(w) ==
  /\ At(w, "create")
  /\ next_sequence' = adder[w].sequence + 1
  /\ adder' = [adder EXCEPT ![w] = NoCall]
  /\ UNCHANGED <<tasks, task_ptrs, object, hand, latest, twins>>

Create(w) ==
  /\ At(w, "create")
  /\ next_sequence' = adder[w].sequence + 1
  /\ \E t \in Task \ Live :
       /\ object' = [object EXCEPT ![t] =
            [name |-> adder[w].name, sequence |-> adder[w].sequence,
             filenum |-> adder[w].filenum]]
       /\ adder' = [adder EXCEPT ![w].pc = "exist", ![w].task = t]
  /\ twins' = IF Numbered(adder[w].name, adder[w].sequence)
              THEN twins \cup {adder[w].name} ELSE twins
  /\ UNCHANGED <<tasks, task_ptrs, hand, latest>>

CheckExist(w) ==
  /\ At(w, "exist")
  /\ adder' = [adder EXCEPT ![w].pc =
                 IF TaskExist(adder[w].name) THEN "remove" ELSE "add"]
  /\ UNCHANGED <<tasks, task_ptrs, next_sequence, object, hand, latest, twins>>

RemoveOld(w) ==
  /\ At(w, "remove")
  /\ RemoveTask(adder[w].name)
  /\ adder' = [adder EXCEPT ![w].pc = "add"]
  /\ UNCHANGED <<next_sequence, hand, twins>>

AddTask(w) ==
  LET n == adder[w].name
      t == adder[w].task
  IN
  /\ At(w, "add")
  /\ IF TaskExist(n)
     THEN /\ adder' = [adder EXCEPT ![w].pc = "log"]
          /\ UNCHANGED <<tasks, task_ptrs, latest>>
     ELSE /\ tasks' = Append(tasks, t)
          /\ task_ptrs' = [task_ptrs EXCEPT ![n] =
               [iter |-> t, sequence |-> object[t].sequence,
                filenum_snap |-> object[t].filenum]]
          /\ latest' = [latest EXCEPT ![n] = t]
          /\ adder' = [adder EXCEPT ![w].pc = "log", ![w].added = TRUE]
  /\ UNCHANGED <<next_sequence, object, hand, twins>>

\* AddNewTask logs the fields of the task, added or not, and then deletes one
\* that was not added.
LogAdded(w) ==
  /\ At(w, "log")
  /\ object' = IF adder[w].added THEN object
               ELSE [object EXCEPT ![adder[w].task] = Freed]
  /\ adder' = [adder EXCEPT ![w] = NoCall]
  /\ UNCHANGED <<tasks, task_ptrs, next_sequence, hand, latest, twins>>

-----------------------------------------------------------------------------
(* RemoveBinlogSendTask, from Partition::CleanSlaves.  The caller holds     *)
(* the write lock of state_rw_, a worker that adds a task its read lock.    *)

RemoveBinlogSendTask(n) ==
  /\ \A w \in Worker : adder[w] = NoCall
  /\ TaskExist(n)
  /\ RemoveTask(n)
  /\ UNCHANGED <<next_sequence, hand, adder, twins>>

-----------------------------------------------------------------------------
(* A sender thread: FetchOut, ProcessTask any number of times, PutBack.    *)

\* Mutant: the task is taken from the back of the list.
FetchOutBack(s) ==
  /\ hand[s] = NoTask
  /\ tasks # <<>>
  /\ hand' = [hand EXCEPT ![s] = Last(tasks)]
  /\ task_ptrs' = [task_ptrs EXCEPT ![object[Last(tasks)].name].iter = NoTask]
  /\ tasks' = Front(tasks)
  /\ UNCHANGED <<next_sequence, object, adder, latest, twins>>

\* Mutant: the iterator is not reset.
FetchOutKeepIter(s) ==
  /\ hand[s] = NoTask
  /\ tasks # <<>>
  /\ hand' = [hand EXCEPT ![s] = Head(tasks)]
  /\ tasks' = Tail(tasks)
  /\ UNCHANGED <<task_ptrs, next_sequence, object, adder, latest, twins>>

\* task_ptrs_[name].iter = tasks_.end(): operator[] would create a missing
\* entry.
FetchOut(s) ==
  /\ hand[s] = NoTask
  /\ tasks # <<>>
  /\ LET t == Head(tasks)
         n == object[t].name
         h == IF TaskExist(n) THEN task_ptrs[n]
              ELSE [iter |-> NoTask, sequence |-> 0, filenum_snap |-> 0]
     IN /\ hand' = [hand EXCEPT ![s] = t]
        /\ task_ptrs' = [task_ptrs EXCEPT ![n] = [h EXCEPT !.iter = NoTask]]
  /\ tasks' = Tail(tasks)
  /\ UNCHANGED <<next_sequence, object, adder, latest, twins>>

\* ProcessTask reaches the end of a file and rolls to the next one.  If that
\* cannot be opened the task keeps its file number and is put back like any other.
RollToNextFile(s) ==
  /\ hand[s] # NoTask
  /\ object[hand[s]].filenum < MaxFilenum
  /\ object' = [object EXCEPT ![hand[s]].filenum = @ + 1]
  /\ UNCHANGED <<tasks, task_ptrs, next_sequence, hand, adder, latest, twins>>

\* Mutant: the sequence is not compared.
ExpectedAnySequence(t) ==
  LET h == task_ptrs[object[t].name] IN h # NoHandle /\ h.iter = NoTask

\* PutBack accepts the task when the index still waits for it.
Expected(t) ==
  LET h == task_ptrs[object[t].name] IN
  /\ h # NoHandle
  /\ h.iter = NoTask
  /\ h.sequence = object[t].sequence

\* Mutant: a task that is not expected any more is not deleted.
PutBackLeaks(s) ==
  LET t == hand[s] IN
  /\ t # NoTask
  /\ hand' = [hand EXCEPT ![s] = NoTask]
  /\ IF Expected(t)
     THEN /\ tasks' = Append(tasks, t)
          /\ task_ptrs' = [task_ptrs EXCEPT ![object[t].name].iter = t]
     ELSE UNCHANGED <<tasks, task_ptrs>>
  /\ UNCHANGED <<next_sequence, object, adder, latest, twins>>

PutBack(s) ==
  LET t == hand[s]
      n == object[t].name
  IN
  /\ t # NoTask
  /\ hand' = [hand EXCEPT ![s] = NoTask]
  /\ IF Expected(t)
     THEN /\ tasks' = Append(tasks, t)
          /\ task_ptrs' = [task_ptrs EXCEPT ![n].iter = t,
                                            ![n].filenum_snap = object[t].filenum]
          /\ UNCHANGED object
     ELSE /\ object' = [object EXCEPT ![t] = Freed]
          /\ UNCHANGED <<tasks, task_ptrs>>
  /\ UNCHANGED <<next_sequence, adder, latest, twins>>

-----------------------------------------------------------------------------
Init ==
  /\ tasks = <<>>
  /\ task_ptrs = [n \in Name |-> NoHandle]
  /\ next_sequence = 0
  /\ object = [t \in Task |-> Freed]
  /\ hand = [s \in Sender |-> NoTask]
  /\ adder = [w \in Worker |-> NoCall]
  /\ latest = [n \in Name |-> NoTask]
  /\ twins = {}

AddStep(w) ==
  \/ CreateFails(w) \/ Create(w) \/ CheckExist(w)
  \/ RemoveOld(w) \/ AddTask(w) \/ LogAdded(w)

Next ==
  \/ \E w \in Worker : (\E n \in Name, f \in Filenum : AddNewTask(w, n, f))
                       \/ AddStep(w)
  \/ \E n \in Name : RemoveBinlogSendTask(n)
  \/ \E s \in Sender : FetchOut(s) \/ RollToNextFile(s) \/ PutBack(s)

Spec == Init /\ [][Next]_pool

(* The senders' loops run for ever: a sender that finds a task waiting      *)
(* fetches it out, and gives a fetched task back when its time slice ends.  *)
(* Workers finish the calls they start.  Nothing forces a slave to ask.     *)
Fairness ==
  /\ \A s \in Sender : WF_pool(FetchOut(s)) /\ WF_pool(PutBack(s))
  /\ \A w \in Worker : WF_pool(AddStep(w))

FairSpec == Spec /\ Fairness

-----------------------------------------------------------------------------
(* Properties.                                                             *)

\* Every variable stays in its type: the list and the index of the pool, the
\* tasks that senders hold, and the AddNewTask calls of the workers.
TypeOK ==
  /\ tasks \in Seq(Task)
  /\ task_ptrs \in [Name -> Handle \cup {NoHandle}]
  /\ next_sequence \in Sequence
  /\ object \in [Task -> Object \cup {Freed}]
  /\ hand \in [Sender -> Task \cup {NoTask}]
  /\ adder \in [Worker -> Call \cup {NoCall}]
  /\ latest \in [Name -> Task \cup {NoTask}]
  /\ twins \subseteq Name

\* A worker owns the task it has created until AddTask accepts it.
Holds(w, t) ==
  adder[w] # NoCall /\ adder[w].pc # "create" /\ ~adder[w].added /\ adder[w].task = t

Owned(t) ==
  \/ t \in Waiting
  \/ (\E s \in Sender : hand[s] = t)
  \/ (\E w \in Worker : Holds(w, t))

\* No task has two owners, so none is deleted twice or used by two threads:
\* a task is in the list once, or in the hand of one sender, or with the
\* worker that created it (FetchOut, PutBack, AddTask and RemoveTask).
SingleOwner ==
  /\ \A i, j \in DOMAIN tasks : tasks[i] = tasks[j] => i = j
  /\ \A s \in Sender : hand[s] # NoTask =>
       /\ hand[s] \notin Waiting
       /\ \A r \in Sender : hand[r] = hand[s] => r = s
  /\ \A w \in Worker, t \in Task : Holds(w, t) =>
       /\ t \notin Waiting
       /\ \A s \in Sender : hand[s] # t
       /\ \A v \in Worker : Holds(v, t) => v = w

\* A task is allocated exactly as long as somebody owns it: no owner is left
\* with a deleted task, and no task leaks (RemoveTask leaves a fetched-out task
\* to PutBack, which must then delete it).
OwnedIffLive == \A t \in Task : t \in Live <=> Owned(t)

\* A task that is allocated has exactly one owner and a deleted one has none,
\* whatever critical sections of FetchOut, PutBack, AddTask and RemoveTask meet.
TaskOwned == SingleOwner /\ OwnedIffLive

\* A waiting task is the one its name's iterator points to.
Indexed(t) == TaskExist(object[t].name) /\ task_ptrs[object[t].name].iter = t

\* An iterator points to a waiting task of that name and sequence, and a name
\* marked "fetched out" has a sender with that task in its hand.
HandleOK(n) ==
  IF task_ptrs[n].iter # NoTask
  THEN /\ task_ptrs[n].iter \in Waiting
       /\ object[task_ptrs[n].iter].name = n
       /\ object[task_ptrs[n].iter].sequence = task_ptrs[n].sequence
  ELSE \E s \in Sender :
         /\ hand[s] # NoTask
         /\ object[hand[s]].name = n
         /\ object[hand[s]].sequence = task_ptrs[n].sequence

\* task_ptrs_ and tasks_ agree after every critical section of tasks_rwlock_,
\* so no iterator dangles, no waiting task is lost to the index, and no name
\* stays marked "fetched out" with nobody to put its task back.
IndexAgrees ==
  /\ \A i \in DOMAIN tasks : Indexed(tasks[i])
  /\ \A n \in Name : TaskExist(n) => HandleOK(n)

\* "Give every task a unique sequence" (zp_binlog_sender.h:166).  The increment of
\* next_sequence_ is outside the lock, so this fails with two workers.
UniqueSequences == twins = {}

\* "use squence to distinguish task with same name" (zp_binlog_sender.h:35):
\* a task that was removed or replaced while a sender had it does not come back,
\* so what waits under a name is what the last AddTask of that name put in.
LatestWins ==
  \A n \in Name \ twins :
    TaskExist(n) /\ task_ptrs[n].iter # NoTask => task_ptrs[n].iter = latest[n]

\* The purge of binlog files trusts TaskFilenum: it never exceeds the file that
\* the current task of the name is really reading, even while a sender that
\* has the task rolls on (filenum_snap).
SnapshotIsLowerBound ==
  \A n \in Name \ twins : TaskExist(n) =>
    /\ latest[n] \in Live
    /\ TaskFilenum(n) <= object[latest[n]].filenum

\* AddNewTask still reads the task after AddTask has published it.  Only a
\* second call for the same name, which replaces it, can have deleted it by then.
LoggedTaskAlive ==
  \A w \in Worker : At(w, "log") /\ adder[w].name \notin twins =>
    adder[w].task \in Live \/ latest[adder[w].name] # adder[w].task

\* However calls of AddNewTask overlap, the task under a name is the last one that
\* was added, alive unless a later call replaced it, and TaskFilenum tells the
\* purge no file later than the one that it reads.  All of this is lost for a name
\* once the race for next_sequence_ gives two tasks of it one sequence (twins).
CurrentTask == LatestWins /\ SnapshotIsLowerBound /\ LoggedTaskAlive

\* RenewPeerLease promises the slave that its task is fetched out again within
\* a lease: a waiting task is always fetched out, or removed, in the end.
EveryTaskServed ==
  \A t \in Task : t \in Waiting ~> t \notin Waiting
=============================================================================

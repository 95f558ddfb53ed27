----------------------------- MODULE WritePath -----------------------------
(***************************************************************************)
(* How a command reaches the database and the binlog of a partition         *)
(* (src/node/zp_data_partition.cc, zp_data_command.cc): client threads run  *)
(* DoCommand on the master, one receiver runs DoBinlogCommand on the slave, *)
(* the bgsave thread takes a snapshot together with the binlog point from   *)
(* which a slave goes on.  The order of the two writes is kept by           *)
(* state_rw_, suspend_rw_ and mutex_record_.                                *)
(*                                                                         *)
(* Of the binlog there is what a slave makes of it: the database after all  *)
(* its items, and the items of the file that is being written.              *)
(* The two rwlocks prefer writers: one that waits keeps new readers out.    *)
(***************************************************************************)
EXTENDS Naturals, Sequences

CONSTANTS
  Worker,    \* client threads
  Receiver,  \* the thread of the sync worker that serves this partition
  Key, Value,
  NoValue,   \* the key is not there
  Tagged,    \* the keys that have the hash tag
  Tag,       \* the hash tag, as a name for mutex_record_
  NoName,    \* the empty string: what FlushDB extracts for a key
  Kind,      \* the commands that are given
  MaxTail    \* bound: items of a file, which is closed then

ASSUME WritePathAssumption ==
  /\ Receiver \notin Worker
  /\ NoValue \notin Value
  /\ Tagged \subseteq Key
  /\ Tag \notin Key \cup {NoName}
  /\ MaxTail \in Nat \ {0}

VARIABLES
  role, pstate,  \* role_, pstate_
  waiting,       \* Update waits for state_rw_ or is inside
  db,            \* what is in db_
  cmd,           \* the command of each thread and how far it is
  tail,          \* the items of the binlog file that is being written
  save,          \* RunBgsave: how far it is, what it holds
  replica,       \* history: the database of a slave that has applied all items
  synced,        \* history: that of one that began with the snapshot
  suspect,       \* history: keys last written by commands that overlapped
  torn           \* history: keys written to one of database and binlog only

state == <<role, pstate, waiting>>
log == <<tail, replica, synced>>
marks == <<suspect, torn>>
vars == <<state, db, cmd, log, save, marks>>

Thread == Worker \cup {Receiver}
Database == [Key -> Value \cup {NoValue}]
Empty == [k \in Key |-> NoValue]

-----------------------------------------------------------------------------
(* Commands.                                                               *)

\* A request: its kind, the keys it is about and what becomes of them.
\* WriteBatch sets all keys to one value (to delete them all is "deltag"); ListbyTag reads.
Request ==
  {req \in UNION {[kind : {"set"}, keys : {{k} : k \in Key}, value : Value],
                  [kind : {"del"}, keys : {{k} : k \in Key}, value : {NoValue}],
                  [kind : {"batch"}, keys : {Tagged}, value : Value],
                  [kind : {"deltag"}, keys : {Tagged}, value : {NoValue}],
                  [kind : {"list"}, keys : {Tagged}, value : {NoValue}],
                  [kind : {"flush"}, keys : {Key}, value : {NoValue}]} :
     req.kind \in Kind}

NoRequest == [kind |-> "none", keys |-> {}, value |-> NoValue]
Idle == [pc |-> "idle", req |-> NoRequest, live |-> TRUE, ok |-> FALSE,
         found |-> {}, over |-> {}]
NoSave == [pc |-> "idle", live |-> TRUE, items |-> << >>]
NoSnapshot == [there |-> FALSE, db |-> Empty]

IsWrite(req) == req.kind # "list"
IsSuspend(req) == req.kind = "flush"

\* ExtractKey: the name that mutex_record_ locks.
ExtractKey(req) ==
  CASE req.kind \in {"set", "del"} -> CHOOSE k \in Key : req.keys = {k}
    [] req.kind = "flush" -> NoName
    [] OTHER -> Tag

\* What Do makes of a database.
Effect(d, req) == [k \in Key |-> IF k \in req.keys THEN req.value ELSE d[k]]

\* What a slave makes of a database that applies items one after the other.
Replay(d, items) ==
  LET after[i \in 0 .. Len(items)] ==
        IF i = 0 THEN d ELSE Effect(after[i - 1], items[i])
  IN after[Len(items)]

Init ==
  /\ role = "single" /\ pstate = "active" /\ waiting = FALSE
  /\ db = Empty
  /\ cmd = [t \in Thread |-> Idle]
  /\ tail = << >>
  /\ save = NoSave
  /\ replica = Empty
  /\ synced = NoSnapshot
  /\ suspect = {} /\ torn = {}

-----------------------------------------------------------------------------
(* The locks.                                                              *)

InState(t) == cmd[t].pc # "idle"
Saving == save.pc \in {"created", "point", "files"}

SuspendReader(t) ==
  ~IsSuspend(cmd[t].req) /\ cmd[t].pc \in {"record", "do", "end", "log"}

\* A writer of suspend_rw_ waits or is inside: no reader comes in.
SuspendWanted ==
  \/ save.pc \in {"created", "point"}
  \/ \E t \in Thread : IsSuspend(cmd[t].req) /\ cmd[t].pc = "do"

\* A writer may come in.
SuspendFree == save.pc # "point" /\ \A t \in Thread : ~SuspendReader(t)

HoldsRecord(t) == /\ t \in Worker /\ IsWrite(cmd[t].req)
                  /\ cmd[t].pc \in {"do", "end", "log"}

-----------------------------------------------------------------------------
(* DoCommand and DoBinlogCommand.                                          *)

At(t, pc) == cmd' = [cmd EXCEPT ![t].pc = pc]

Begin(t, req) ==
  cmd' = [cmd EXCEPT ![t] =
            [Idle EXCEPT !.pc = IF IsSuspend(req) THEN "record" ELSE "suspend",
                         !.req = req]]

\* Mutant of DoCommand: state_rw_ lets readers in before a waiting writer.
DoCommandPushesIn(w, req) ==
  /\ cmd[w].pc = "idle"
  /\ role = "master"
  /\ ~(IsWrite(req) /\ pstate = "stuck")
  /\ Begin(w, req)
  /\ UNCHANGED <<state, db, log, save, marks>>

\* A client's command passes the checks under state_rw_; otherwise it is
\* redirected or told to wait.  SLOWDOWN refuses some and lets others pass.
DoCommand(w, req) ==
  /\ cmd[w].pc = "idle"
  /\ ~waiting
  /\ role = "master"
  /\ ~(IsWrite(req) /\ pstate = "stuck")
  /\ Begin(w, req)
  /\ UNCHANGED <<state, db, log, save, marks>>

\* An item of the master passes CheckSyncOption.
DoBinlogCommand(req) ==
  /\ cmd[Receiver].pc = "idle"
  /\ ~waiting
  /\ role = "slave"
  /\ IsWrite(req)
  /\ Begin(Receiver, req)
  /\ UNCHANGED <<state, db, log, save, marks>>

LockSuspend(t) ==
  /\ cmd[t].pc = "suspend"
  /\ ~SuspendWanted
  /\ At(t, "record")
  /\ UNCHANGED <<state, db, log, save, marks>>

\* Mutant of LockRecord: nothing is locked.
LockRecordNot(t) ==
  /\ cmd[t].pc = "record"
  /\ At(t, "do")
  /\ UNCHANGED <<state, db, log, save, marks>>

\* mutex_record_.Lock, for a client's write.
LockRecord(t) ==
  /\ cmd[t].pc = "record"
  /\ t \in Worker /\ IsWrite(cmd[t].req) =>
       \A u \in Worker \ {t} :
         HoldsRecord(u) => ExtractKey(cmd[u].req) # ExtractKey(cmd[t].req)
  /\ At(t, "do")
  /\ UNCHANGED <<state, db, log, save, marks>>

\* Between its first access to the database and its item in the binlog.
Open(t) == IsWrite(cmd[t].req) /\ cmd[t].pc \in {"end", "log"}

\* History: the keys of t that a command under another name is writing as well.
Overlap(t) ==
  UNION {cmd[u].req.keys \cap cmd[t].req.keys :
         u \in {v \in Thread \ {t} :
                  /\ Open(v) /\ IsWrite(cmd[t].req)
                  /\ ExtractKey(cmd[v].req) # ExtractKey(cmd[t].req)}}

\* The thread starts to work on the database.
Enter(t, pc, ok, found) ==
  /\ cmd' = [u \in Thread |->
       IF u = t THEN [cmd[t] EXCEPT !.pc = pc, !.ok = ok, !.found = found,
                                    !.over = Overlap(t)]
       ELSE IF Open(u) THEN [cmd[u] EXCEPT !.over = @ \cup
                               (Overlap(t) \cap cmd[u].req.keys)]
       ELSE cmd[u]]
  /\ suspect' = suspect \cup Overlap(t)

\* Set, Del and WriteBatch: one call of the database.
Do(t) ==
  /\ cmd[t].pc = "do"
  /\ cmd[t].req.kind \in {"set", "del", "batch"}
  /\ db' = Effect(db, cmd[t].req)
  /\ Enter(t, "log", TRUE, {})
  /\ UNCHANGED <<state, log, save, torn>>

\* It was refused: nothing is written.
DoFails(t) ==
  /\ cmd[t].pc = "do"
  /\ cmd[t].req.kind \in {"set", "del", "batch"}
  /\ Enter(t, "log", FALSE, {})
  /\ UNCHANGED <<state, db, log, save, torn>>

\* DeletebyTag and ListbyTag: an iterator finds the keys ...
Scan(t) ==
  /\ cmd[t].pc = "do"
  /\ cmd[t].req.kind \in {"deltag", "list"}
  /\ Enter(t, "end", TRUE, {k \in cmd[t].req.keys : db[k] # NoValue})
  /\ UNCHANGED <<state, db, log, save, torn>>

\* ... and those that it found are deleted.
DeleteFound(t) ==
  /\ cmd[t].pc = "end"
  /\ cmd[t].req.kind = "deltag"
  /\ db' = [k \in Key |-> IF k \in cmd[t].found THEN NoValue ELSE db[k]]
  /\ At(t, "log")
  /\ UNCHANGED <<state, log, save, marks>>

\* The batch was refused.
DeleteFails(t) ==
  /\ cmd[t].pc = "end"
  /\ cmd[t].req.kind = "deltag"
  /\ cmd[t].found # {}
  /\ cmd' = [cmd EXCEPT ![t].pc = "log", ![t].ok = FALSE]
  /\ UNCHANGED <<state, db, log, save, marks>>

EndList(t) ==
  /\ cmd[t].pc = "end"
  /\ cmd[t].req.kind = "list"
  /\ cmd' = [cmd EXCEPT ![t] = Idle]
  /\ UNCHANGED <<state, db, log, save, marks>>

\* db_ is deleted and an empty one opened: whoever has the old one is left with it.
ChangeDb(t) ==
  /\ db' = Empty
  /\ cmd' = [u \in Thread |->
       IF u = t THEN [cmd[u] EXCEPT !.pc = "log", !.ok = TRUE, !.over = Overlap(t)]
       ELSE [cmd[u] EXCEPT !.live = @ /\ cmd[u].pc # "end"]]
  /\ save' = [save EXCEPT !.live = @ /\ ~Saving]

\* Mutant of FlushDb: suspend_rw_ is not taken.
FlushDbUnlocked(t) ==
  /\ cmd[t].pc = "do"
  /\ IsSuspend(cmd[t].req)
  /\ ChangeDb(t)
  /\ suspect' = suspect \cup Overlap(t)
  /\ UNCHANGED <<state, log, torn>>

\* FlushDB holds suspend_rw_ while it changes the database, and no longer.
FlushDb(t) ==
  /\ cmd[t].pc = "do"
  /\ IsSuspend(cmd[t].req)
  /\ SuspendFree
  /\ ChangeDb(t)
  /\ suspect' = suspect \cup Overlap(t)
  /\ UNCHANGED <<state, log, torn>>

\* The item is in the binlog, which goes on in a new file if this one is full.
Logged(req) ==
  /\ replica' = Effect(replica, req)
  /\ synced' = IF synced.there THEN [synced EXCEPT !.db = Effect(@, req)] ELSE synced
  /\ \/ Len(tail) < MaxTail - 1 /\ tail' = Append(tail, req)
     \/ tail' = << >>
  /\ save' = [save EXCEPT !.items = IF save.pc = "point" THEN Append(@, req) ELSE @]

\* Binlog::Put and the release of the locks.  DoBinlogCommand logs what could not
\* be done as well.
Put(t) ==
  LET req == cmd[t].req
      clean == IF cmd[t].ok THEN req.keys \ cmd[t].over ELSE {}
  IN /\ cmd[t].pc = "log"
     /\ IF cmd[t].ok \/ t = Receiver THEN Logged(req)
                                     ELSE UNCHANGED <<log, save>>
     /\ suspect' = suspect \ clean
     /\ torn' = IF t = Receiver /\ ~cmd[t].ok THEN torn \cup req.keys
                                              ELSE torn \ clean
     /\ cmd' = [cmd EXCEPT ![t] = Idle]
     /\ UNCHANGED <<state, db>>

-----------------------------------------------------------------------------
(* RunBgsave.                                                              *)

\* The thread holds state_rw_ and a checkpoint of db_; what an earlier one left
\* is deleted, or InitBgsaveEnv fails at that.
CreateCheckpoint ==
  /\ save.pc = "idle"
  /\ ~waiting
  /\ role # "single"
  /\ save' \in {NoSave, [NoSave EXCEPT !.pc = "created"]}
  /\ synced' = NoSnapshot
  /\ UNCHANGED <<state, db, cmd, tail, replica, marks>>

\* InitBgsaveContent, with suspend_rw_: the binlog's point, ...
GetPoint ==
  /\ save.pc = "created"
  /\ SuspendFree
  /\ save' = [save EXCEPT !.pc = "point", !.items = tail]
  /\ UNCHANGED <<state, db, cmd, log, marks>>

\* ... and the files.  A slave that gets them sets its binlog to the start of
\* that file, so it goes through its items again.
GetCheckpointFiles ==
  /\ save.pc = "point"
  /\ save.live
  /\ save' = [save EXCEPT !.pc = "files", !.items = << >>]
  /\ synced' = [there |-> TRUE, db |-> Replay(db, save.items)]
  /\ UNCHANGED <<state, db, cmd, tail, replica, marks>>

\* The files are linked into the backup; or that failed, as it does when the
\* database it is about was deleted.
EndCheckpoint ==
  /\ save.pc \in {"point", "files"}
  /\ save' = NoSave
  /\ \/ save.pc = "files" /\ save.live /\ UNCHANGED synced
     \/ synced' = NoSnapshot
  /\ UNCHANGED <<state, db, cmd, tail, replica, marks>>

-----------------------------------------------------------------------------

\* The node has pulled what the meta servers made of this partition.
WantUpdate ==
  /\ ~waiting
  /\ waiting' = TRUE
  /\ UNCHANGED <<role, pstate, db, cmd, log, save, marks>>

\* Mutant of Update: state_rw_ is not taken.
UpdateUnlocked(r, p) ==
  /\ waiting /\ waiting' = FALSE
  /\ role' = r /\ pstate' = p
  /\ UNCHANGED <<db, cmd, log, save, marks>>

\* The meta server has another role for the node, or stops the writes.
Update(r, p) ==
  /\ waiting /\ waiting' = FALSE
  /\ \A t \in Thread : ~InState(t)
  /\ ~Saving
  /\ role' = r /\ pstate' = p
  /\ UNCHANGED <<db, cmd, log, save, marks>>

\* The process dies: database and binlog have what was written to them.
Crash ==
  /\ role' = "single" /\ pstate' = "active" /\ waiting' = FALSE
  /\ torn' = torn \cup UNION {cmd[t].req.keys :
                              t \in {u \in Thread : cmd[u].pc = "log" /\ cmd[u].ok}}
  /\ cmd' = [t \in Thread |-> Idle]
  /\ save' = NoSave
  /\ synced' = NoSnapshot
  /\ UNCHANGED <<db, tail, replica, suspect>>

Step(t) ==
  \/ LockSuspend(t) \/ LockRecord(t)
  \/ Do(t) \/ DoFails(t) \/ Scan(t) \/ DeleteFound(t) \/ DeleteFails(t)
  \/ EndList(t) \/ FlushDb(t) \/ Put(t)

AnyUpdate ==
  \E r \in {"single", "master", "slave"}, p \in {"active", "stuck"} : Update(r, p)

\* Mutant of RunBgsave: the files are taken before the point, and not under
\* suspend_rw_.
RunBgsaveFilesFirst ==
  /\ UNCHANGED <<state, db, cmd, tail, replica, marks>>
  /\ \/ /\ save.pc = "created"
        /\ save' = [save EXCEPT !.pc = "point"]
        /\ synced' = [there |-> FALSE, db |-> db]
     \/ /\ save.pc = "point" /\ save.live
        /\ save' = [save EXCEPT !.pc = "files", !.items = << >>]
        /\ synced' = [there |-> TRUE, db |-> Replay(synced.db, tail)]
     \/ EndCheckpoint

RunBgsave == GetPoint \/ GetCheckpointFiles \/ EndCheckpoint

Next ==
  \/ \E req \in Request : DoBinlogCommand(req) \/ \E w \in Worker : DoCommand(w, req)
  \/ \E t \in Thread : Step(t)
  \/ CreateCheckpoint \/ RunBgsave
  \/ WantUpdate \/ AnyUpdate \/ Crash

Goes == (\E t \in Thread : Step(t)) \/ RunBgsave \/ AnyUpdate

\* As long as some thread can go on, one does, whichever it is.
Fairness == WF_vars(Goes)

Spec == Init /\ [][Next]_vars /\ Fairness

-----------------------------------------------------------------------------
(* Properties.                                                             *)

TypeOK ==
  /\ role \in {"single", "master", "slave"} /\ pstate \in {"active", "stuck"}
  /\ waiting \in BOOLEAN
  /\ db \in Database /\ replica \in Database
  /\ \A t \in Thread :
       /\ cmd[t].pc \in {"idle", "suspend", "record", "do", "end", "log"}
       /\ cmd[t].req \in Request \cup {NoRequest}
       /\ cmd[t].found \subseteq cmd[t].req.keys
       /\ cmd[t].over \subseteq cmd[t].req.keys
  /\ tail \in Seq(Request) /\ Len(tail) < MaxTail
  /\ save.pc \in {"idle", "created", "point", "files"}
  /\ synced.db \in Database
  /\ suspect \subseteq Key /\ torn \subseteq Key

Busy == UNION {cmd[t].req.keys : t \in {u \in Thread : Open(u)}}

\* Writes of a key reach the database and the binlog in the same order, so a slave
\* that applies the binlog has what the master has: unless a crash or a failure
\* came between the two, or commands overlapped whose names for mutex_record_
\* differ although they write the same key.
OrderAgrees == \A k \in Key \ (Busy \cup suspect \cup torn) : db[k] = replica[k]

\* A slave that is given the snapshot and then the binlog from the start of the
\* file of its point has in the end what one that followed all the time has.
SnapshotServes ==
  synced.there =>
    \A k \in Key \ (Busy \cup suspect \cup torn) : synced.db[k] = replica[k]

\* No database is deleted under an iterator.
IteratorsLive == \A t \in Thread : cmd[t].pc = "end" => cmd[t].live

\* Once the partition is stuck, or no longer the master's, no client's write is
\* under way: the binlog's end is final, which the handover of a migration
\* relies on.
StuckIsQuiet ==
  \A w \in Worker :
    InState(w) /\ IsWrite(cmd[w].req) => role = "master" /\ pstate # "stuck"

\* FlushDB has the record of the empty name and wants suspend_rw_, which a command
\* on the empty key has while it wants the record: "Lock order: state_rw_ >
\* suspend_rw_ > mutex_record_" is what the one keeps and the other does not.
LockCycle ==
  \E t, u \in Worker :
    /\ IsSuspend(cmd[t].req) /\ cmd[t].pc = "do"
    /\ IsWrite(cmd[u].req) /\ cmd[u].pc = "record" /\ ExtractKey(cmd[u].req) = NoName
    /\ ~IsSuspend(cmd[u].req)

\* A change of role or state comes through, as the commands and checkpoints that are
\* under way all come to an end; only where LockCycle holds they do not, and it is
\* the only way in which they wait for each other.
UpdateHappens == waiting ~> ~waiting \/ LockCycle

\* "Others need to be suspended when a suspend command run".
OthersSuspended ==
  \A t \in Thread : IsSuspend(cmd[t].req) /\ cmd[t].pc = "log" =>
    \A u \in Thread \ {t} : cmd[u].pc \notin {"end", "log"}

\* "hold write mutex of state_rw_ or write mutex of suspend_rw_ as to block any
\* other operation": a database is not changed under a checkpoint.
CheckpointLive == Saving => save.live
=============================================================================

---------------------------- MODULE MetaElection ----------------------------
(***************************************************************************)
(* Which meta server leads: ZPMetaElection (src/meta/zp_meta_election.cc)   *)
(* keeps one record in floyd, who leads and when that server was last       *)
(* active, and changes it under a lock that expires.  Every server runs     *)
(* RefreshLeader (src/meta/zp_meta_server.cc) from its cron, and takes or   *)
(* gives up the role of the leader by what GetLeader answers.               *)
(*                                                                         *)
(* The servers' clocks are one clock.  A time is kept as its age, counted   *)
(* no further than kMetaLeaderTimeout, as nothing tells greater ages apart. *)
(* Tick does not run ahead of a server that is up: a round of its cron ends *)
(* at most Gap after the moment at which the round before it looked at the  *)
(* clock to decide.  That may be longer than the election lock lasts.       *)
(* A call to floyd may fail, and the server may crash, until the faults     *)
(* have ceased.                                                             *)
(***************************************************************************)
EXTENDS Integers

CONSTANTS
  Server,           \* the meta servers
  NoServer,         \* no server
  Timeout,          \* kMetaLeaderTimeout
  RemainThreshold,  \* kMetaLeaderRemainThreshold
  LockTimeout,      \* kMetaLeaderLockTimeout
  Gap               \* the longest way from one decision to the next round's end

ASSUME ElectionAssumption ==
  /\ NoServer \notin Server
  /\ Timeout \in Nat /\ RemainThreshold \in Nat /\ Gap \in Nat
  /\ LockTimeout \in Nat \ {0}
  /\ RemainThreshold < Timeout

\* kMetaLeaderRemainThreshold "should large than kMetaCronInterval *
\* kMetaCronWaitCount", which is the part of Gap that a server sleeps.
Timely == Gap <= RemainThreshold

VARIABLES
  record,    \* the value of kLeaderKey in floyd
  lock,      \* the holder of kElectLockKey and how long it has left
  pc,        \* where each server is in its round
  last,      \* last_leader_
  answer,    \* the leader that GetLeader returns, NoServer if it returns false
  since,     \* how long ago this round took its decision
  left,      \* how long until this round has to be over
  role,      \* role_
  joint,     \* leader_joint_
  active,    \* whether update_thread_ and condition_cron_ run
  amiss      \* history: the worst fault that has occurred, Ceased if no more will

vars == <<record, lock, pc, last, answer, since, left, role, joint, active,
          amiss>>

Age == 0..Timeout
Record == [leader : Server \cup {NoServer}, age : Age]
NoRecord == [leader |-> NoServer, age |-> 0]
Lock == [holder : Server \cup {NoServer}, left : 0..LockTimeout]
Unlocked == [holder |-> NoServer, left |-> 0]

Undecided == {"down", "idle", "lock", "locked", "giveup"}
Answering == {"unlock", "refresh", "restore", "active"}
PC == Undecided \cup {"write"} \cup Answering

\* The faults that are told apart: tasks are refused to a new leader; a write that
\* failed was not carried out; a write came after the lock had run out.  What is
\* safe without them is safe before the faults have ceased.
Refused == 1
Lost == 2
Overrun == 3
Ceased == 4
Fault == amiss < Ceased
Befalls(f) == amiss' = IF amiss < f THEN f ELSE amiss

IsLeaderTimeout(r, timeout) == r.age >= timeout

Init ==
  /\ record = NoRecord
  /\ lock = Unlocked
  /\ pc = [s \in Server |-> "idle"]
  /\ last = [s \in Server |-> NoRecord]
  /\ answer = [s \in Server |-> NoServer]
  /\ since = [s \in Server |-> 0]
  /\ left = [s \in Server |-> Gap]
  /\ role = [s \in Server |-> "kNone"]
  /\ joint = [s \in Server |-> NoServer]
  /\ active = [s \in Server |-> FALSE]
  /\ amiss = 0

-----------------------------------------------------------------------------
(* GetLeader.                                                              *)

\* Mutant of Jeopardy: the leader trusts its record as long as the others do.
JeopardyNoThreshold(s) ==
  IF last[s].leader = NoServer \/ IsLeaderTimeout(last[s], Timeout)
  THEN NoServer ELSE last[s].leader

\* What a server makes of the record it last saw, when floyd does not answer.
Jeopardy(s) ==
  LET timeout == IF last[s].leader = s THEN Timeout - RemainThreshold
                                       ELSE Timeout
  IN IF last[s].leader = NoServer \/ IsLeaderTimeout(last[s], timeout)
     THEN NoServer ELSE last[s].leader

\* GetLeader is about to answer a, as it decides now, and goes on at p.
Decide(s, a, p) ==
  /\ answer' = [answer EXCEPT ![s] = a]
  /\ since' = [since EXCEPT ![s] = 0]
  /\ pc' = [pc EXCEPT ![s] = p]

\* Mutant of PreRead: another's record is good for ever.
PreReadNoTimeout(s) ==
  /\ pc[s] = "idle"
  /\ record.leader # NoServer
  /\ last' = [last EXCEPT ![s] = record]
  /\ IF record.leader # s
     THEN Decide(s, record.leader, "refresh")
     ELSE pc' = [pc EXCEPT ![s] = "lock"] /\ UNCHANGED <<answer, since>>
  /\ UNCHANGED <<record, lock, left, role, joint, active, amiss>>

\* The first read, without the lock.
PreRead(s) ==
  /\ pc[s] = "idle"
  /\ record.leader # NoServer
  /\ last' = [last EXCEPT ![s] = record]
  /\ IF record.leader # s /\ ~IsLeaderTimeout(record, Timeout)
     THEN Decide(s, record.leader, "refresh")
     ELSE pc' = [pc EXCEPT ![s] = "lock"] /\ UNCHANGED <<answer, since>>
  /\ UNCHANGED <<record, lock, left, role, joint, active, amiss>>

PreReadNotFound(s) ==
  /\ pc[s] = "idle"
  /\ record.leader = NoServer
  /\ pc' = [pc EXCEPT ![s] = "lock"]
  /\ UNCHANGED <<record, lock, last, answer, since, left, role, joint, active,
                 amiss>>

PreReadFails(s) ==
  /\ Fault
  /\ pc[s] = "idle"
  /\ Decide(s, Jeopardy(s), "refresh")
  /\ UNCHANGED <<record, lock, last, left, role, joint, active, amiss>>

TryLock(s) ==
  /\ pc[s] = "lock"
  /\ lock.left = 0
  /\ lock' = [holder |-> s, left |-> LockTimeout]
  /\ pc' = [pc EXCEPT ![s] = "locked"]
  /\ UNCHANGED <<record, last, answer, since, left, role, joint, active,
                 amiss>>

\* Someone holds the lock, which may be this server before a crash, or floyd
\* does not answer.
TryLockFails(s) ==
  /\ pc[s] = "lock"
  /\ lock.left > 0 \/ Fault
  /\ Decide(s, Jeopardy(s), "refresh")
  /\ UNCHANGED <<record, lock, last, left, role, joint, active, amiss>>

Found(s) == last' = IF record.leader = NoServer
                    THEN last ELSE [last EXCEPT ![s] = record]

\* Mutant of LockedRead: what was read before the lock is not read again.
LockedReadStale(s) ==
  /\ pc[s] = "locked"
  /\ Decide(s, s, "write")
  /\ UNCHANGED <<record, lock, last, left, role, joint, active, amiss>>

\* The second read, under the lock.  last_active of the new record is now.
LockedRead(s) ==
  /\ pc[s] = "locked"
  /\ Found(s)
  /\ IF record.leader \in {NoServer, s} \/ IsLeaderTimeout(record, Timeout)
     THEN Decide(s, s, "write")
     ELSE Decide(s, record.leader, "unlock")
  /\ UNCHANGED <<record, lock, left, role, joint, active, amiss>>

LockedReadFails(s) ==
  /\ Fault
  /\ pc[s] = "locked"
  /\ pc' = [pc EXCEPT ![s] = "giveup"]
  /\ UNCHANGED <<record, lock, last, answer, since, left, role, joint, active,
                 amiss>>

\* UnLock of server s, which floyd may not carry out.
Released(s) ==
  \/ lock' = IF lock.holder = s THEN Unlocked ELSE lock
  \/ Fault /\ UNCHANGED lock

GiveUp(s) ==
  /\ pc[s] = "giveup"
  /\ Released(s)
  /\ Decide(s, Jeopardy(s), "refresh")
  /\ UNCHANGED <<record, last, left, role, joint, active, amiss>>

\* Floyd writes the record, whoever has the lock by now.
Written(s) ==
  /\ record' = [leader |-> s, age |-> IF since[s] < Timeout THEN since[s] ELSE Timeout]
  /\ IF lock.holder = s THEN UNCHANGED amiss ELSE Befalls(Overrun)

WriteLeaderRecord(s) ==
  /\ pc[s] = "write"
  /\ Written(s)
  /\ last' = [last EXCEPT ![s] = record']
  /\ pc' = [pc EXCEPT ![s] = "unlock"]
  /\ UNCHANGED <<lock, answer, since, left, role, joint, active>>

\* The cache stays, and GetLeader answers as if the write had succeeded.
WriteLeaderRecordFails(s) ==
  /\ Fault
  /\ pc[s] = "write"
  /\ \/ Written(s)
     \/ Befalls(Lost) /\ UNCHANGED record
  /\ pc' = [pc EXCEPT ![s] = "unlock"]
  /\ UNCHANGED <<lock, last, answer, since, left, role, joint, active>>

UnLock(s) ==
  /\ pc[s] = "unlock"
  /\ Released(s)
  /\ pc' = [pc EXCEPT ![s] = "refresh"]
  /\ UNCHANGED <<record, last, answer, since, left, role, joint, active,
                 amiss>>

-----------------------------------------------------------------------------
(* RefreshLeader.                                                          *)

\* The round is over: the next one has to be over Gap after this decision.
EndRound(s) ==
  /\ pc' = [pc EXCEPT ![s] = "idle"]
  /\ left' = [left EXCEPT ![s] = Gap - since[s]]
  /\ since' = [since EXCEPT ![s] = 0]
  /\ answer' = [answer EXCEPT ![s] = NoServer]

\* Mutant of NoLeader: the threads of the leader go on.
NoLeaderGoesOn(s) ==
  /\ pc[s] = "refresh"
  /\ answer[s] = NoServer
  /\ role' = [role EXCEPT ![s] = "kNone"]
  /\ joint' = [joint EXCEPT ![s] = NoServer]
  /\ EndRound(s)
  /\ UNCHANGED <<record, lock, last, active, amiss>>

\* GetLeader returned false.  The threads are abandoned by a leader only.
NoLeader(s) ==
  /\ pc[s] = "refresh"
  /\ answer[s] = NoServer
  /\ active' = [active EXCEPT ![s] = @ /\ role[s] # "kLeader"]
  /\ role' = [role EXCEPT ![s] = "kNone"]
  /\ joint' = [joint EXCEPT ![s] = NoServer]
  /\ EndRound(s)
  /\ UNCHANGED <<record, lock, last, amiss>>

\* I'm Leader, or I'm Follower, and leader stay the same.
Same(s) ==
  \/ role[s] = "kLeader" /\ answer[s] = s
  \/ role[s] = "kFollower" /\ answer[s] = joint[s]

LeaderSame(s) ==
  /\ pc[s] = "refresh"
  /\ answer[s] # NoServer
  /\ Same(s)
  /\ EndRound(s)
  /\ UNCHANGED <<record, lock, last, role, joint, active, amiss>>

Follow(s) ==
  /\ pc[s] = "refresh"
  /\ answer[s] \notin {NoServer, s}
  /\ ~Same(s)
  /\ active' = [active EXCEPT ![s] = FALSE]
  /\ joint' = [joint EXCEPT ![s] = answer[s]]
  /\ role' = [role EXCEPT ![s] = "kFollower"]
  /\ EndRound(s)
  /\ UNCHANGED <<record, lock, last, amiss>>

\* I'm new leader: the tables, the nodes and the migration are read, ...
BecomeLeader(s) ==
  /\ pc[s] = "refresh"
  /\ answer[s] = s
  /\ ~Same(s)
  /\ role' = [role EXCEPT ![s] = "kNone"]
  /\ joint' = [joint EXCEPT ![s] = NoServer]
  /\ pc' = [pc EXCEPT ![s] = "restore"]
  /\ UNCHANGED <<record, lock, last, answer, since, left, active, amiss>>

RestoreFails(s) ==
  /\ Fault
  /\ pc[s] = "restore"
  /\ EndRound(s)
  /\ UNCHANGED <<record, lock, last, role, joint, active, amiss>>

\* ... the threads are started, ...
Active(s) ==
  /\ pc[s] = "restore"
  /\ active' = [active EXCEPT ![s] = TRUE]
  /\ pc' = [pc EXCEPT ![s] = "active"]
  /\ UNCHANGED <<record, lock, last, answer, since, left, role, joint, amiss>>

\* ... and they get the tasks that make all partitions active.
ActiveAllPartition(s) ==
  /\ pc[s] = "active"
  /\ role' = [role EXCEPT ![s] = "kLeader"]
  /\ EndRound(s)
  /\ UNCHANGED <<record, lock, last, joint, active, amiss>>

\* PendingUpdate refuses while the thread is stuck: the round ends there.
ActiveAllPartitionFails(s) ==
  /\ Fault
  /\ pc[s] = "active"
  /\ EndRound(s)
  /\ Befalls(Refused)
  /\ UNCHANGED <<record, lock, last, role, joint, active>>

-----------------------------------------------------------------------------
(* Time and faults.                                                        *)

Older(r) == IF r.leader = NoServer \/ r.age = Timeout
            THEN r ELSE [leader |-> r.leader, age |-> r.age + 1]

\* The lock may run out under a server that is at work.
Tick ==
  /\ \A s \in Server : pc[s] # "down" => left[s] > 0
  /\ record' = Older(record)
  /\ last' = [s \in Server |-> Older(last[s])]
  /\ lock' = IF lock.left <= 1 THEN Unlocked
             ELSE [holder |-> lock.holder, left |-> lock.left - 1]
  /\ left' = [s \in Server |-> IF pc[s] = "down" THEN left[s] ELSE left[s] - 1]
  /\ since' = [s \in Server |-> IF pc[s] \in Undecided THEN since[s] ELSE since[s] + 1]
  /\ UNCHANGED <<pc, answer, role, joint, active, amiss>>

Crash(s) ==
  /\ Fault
  /\ pc[s] # "down"
  /\ pc' = [pc EXCEPT ![s] = "down"]
  /\ last' = [last EXCEPT ![s] = NoRecord]
  /\ answer' = [answer EXCEPT ![s] = NoServer]
  /\ since' = [since EXCEPT ![s] = 0]
  /\ left' = [left EXCEPT ![s] = Gap]
  /\ role' = [role EXCEPT ![s] = "kNone"]
  /\ joint' = [joint EXCEPT ![s] = NoServer]
  /\ active' = [active EXCEPT ![s] = FALSE]
  /\ UNCHANGED <<record, lock, amiss>>

Restart(s) ==
  /\ pc[s] = "down"
  /\ pc' = [pc EXCEPT ![s] = "idle"]
  /\ UNCHANGED <<record, lock, last, answer, since, left, role, joint, active,
                 amiss>>

Cease ==
  /\ Fault
  /\ \E s \in Server : pc[s] # "down"
  /\ amiss' = Ceased
  /\ UNCHANGED <<record, lock, pc, last, answer, since, left, role, joint,
                 active>>

\* The steps of a round that need no fault.
Round(s) ==
  \/ PreRead(s) \/ PreReadNotFound(s) \/ TryLock(s) \/ TryLockFails(s)
  \/ LockedRead(s) \/ GiveUp(s) \/ WriteLeaderRecord(s) \/ UnLock(s)
  \/ NoLeader(s) \/ LeaderSame(s) \/ Follow(s) \/ BecomeLeader(s)
  \/ Active(s) \/ ActiveAllPartition(s)

RoundFails(s) ==
  \/ PreReadFails(s) \/ LockedReadFails(s) \/ WriteLeaderRecordFails(s)
  \/ RestoreFails(s) \/ ActiveAllPartitionFails(s)

Next ==
  \/ \E s \in Server : Round(s) \/ RoundFails(s) \/ Crash(s) \/ Restart(s)
  \/ Tick
  \/ Cease

\* The cron of a server that is up runs on, and so does time.
Fairness == WF_vars(Tick) /\ \A s \in Server : WF_vars(Round(s))

Spec == Init /\ [][Next]_vars /\ Fairness

-----------------------------------------------------------------------------
(* Properties.                                                             *)

TypeOK ==
  /\ record \in Record
  /\ lock \in Lock
  /\ pc \in [Server -> PC]
  /\ last \in [Server -> Record]
  /\ answer \in [Server -> Server \cup {NoServer}]
  /\ since \in [Server -> 0..Gap]
  /\ left \in [Server -> 0..Gap]
  /\ role \in [Server -> {"kNone", "kLeader", "kFollower"}]
  /\ joint \in [Server -> Server \cup {NoServer}]
  /\ active \in [Server -> BOOLEAN]
  /\ amiss \in 0..Ceased

\* "Smaller timeout for leader so that it could give up leadership on time
\* before any follower think it could be leader": at no time do two servers
\* have the role of the leader, as long as every write that failed was carried out
\* all the same and none came after the lock had run out.
OneLeader ==
  amiss < Lost =>
    \A s, t \in Server : role[s] = "kLeader" /\ role[t] = "kLeader" => s = t

\* The update thread, which alone writes the tables to floyd, runs on one server
\* at a time, also while the leadership changes hands, on the same terms and
\* unless ActiveAllPartition failed.
OneUpdater ==
  amiss < Refused => \A s, t \in Server : active[s] /\ active[t] => s = t

\* Whoever has the role of the leader is the leader of the record, and the
\* record has not timed out for anyone: to lead is to hold the lease, also when
\* floyd has not answered for a while, on the same terms as OneLeader.
LeaderIsRecorded ==
  amiss < Lost =>
    \A s \in Server : role[s] = "kLeader" =>
      record.leader = s /\ ~IsLeaderTimeout(record, Timeout)

\* No lease is taken away until a server writes the record after its lock has run
\* out (nothing bounds the calls to floyd that it makes under the lock): the record
\* passes to another server only after it has timed out, whatever writes are lost
\* and whoever crashes.
NotStolen ==
  [][record'.leader # record.leader =>
       \/ record.leader = NoServer \/ IsLeaderTimeout(record, Timeout)
       \/ amiss' >= Overrun]_vars

\* Once the faults have ceased a server leads, and some server leads from then
\* on: neither a lock nor a record that a crashed server left blocks the others.
Elected == amiss = Ceased ~> []\E s \in Server : role[s] = "kLeader"
=============================================================================

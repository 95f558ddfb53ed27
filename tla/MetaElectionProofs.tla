------------------------- MODULE MetaElectionProofs -------------------------
(***************************************************************************)
(* The election, for any servers and any timing that ElectionAssumption     *)
(* allows.                                                                  *)
(***************************************************************************)
EXTENDS MetaElection, TLAPS

\* The time of a round is bounded by that of the decision before it.
RoundInv == \A s \in Server :
  /\ left[s] + since[s] <= Gap
  /\ pc[s] \in Undecided => since[s] = 0

\* Whoever is about to write the record and still has the lock may: nobody holds the
\* lease.
WriteInv == \A s \in Server : pc[s] = "write" =>
  /\ lock.holder = s /\ amiss < Overrun =>
       record.leader \in {NoServer, s} \/ record.age >= Timeout
  /\ last[s].age >= since[s] \/ last[s].age = Timeout \/ last[s].leader # s

\* What holds whatever becomes of the writes.
BaseInv == TypeOK /\ RoundInv /\ WriteInv

\* The invariants that need no assumption on writes hold at the start, ...
LEMMA BaseInit == Init => BaseInv
<1> SUFFICES ASSUME Init PROVE BaseInv
  OBVIOUS
<1>1. NoRecord \in Record /\ Unlocked \in Lock
  <2>1. 0 \in Age /\ 0 \in 0..LockTimeout
    BY ElectionAssumption DEF Age
  <2> QED
    BY <2>1 DEF Record, NoRecord, Lock, Unlocked
<1>2. TypeOK
  <2>1. active \in [Server -> BOOLEAN]
    BY Zenon DEF Init
  <2>2. amiss \in 0..Ceased
    BY DEF Init, Ceased
  <2> QED
    BY <1>1, <2>1, <2>2, ElectionAssumption DEF Init, TypeOK, PC, Undecided, Answering
<1>3. RoundInv /\ WriteInv
  BY ElectionAssumption
  DEF Init, RoundInv, WriteInv, Undecided
<1> QED
  BY <1>2, <1>3 DEF BaseInv

\* What Jeopardy answers: nobody, or the server it last saw in the record; and
\* that is itself only while its lease is good for longer than RemainThreshold.
LEMMA JeopardyAnswer ==
  ASSUME TypeOK, NEW s \in Server
  PROVE  /\ Jeopardy(s) \in Server \cup {NoServer}
         /\ Jeopardy(s) = s => /\ last[s].leader = s
                               /\ last[s].age < Timeout - RemainThreshold
<1>1. last[s].leader \in Server \cup {NoServer} /\ last[s].age \in Nat
  BY ElectionAssumption DEF TypeOK, Record, Age
<1>2. CASE last[s].leader = s
  BY <1>1, <1>2, ElectionAssumption DEF Jeopardy, IsLeaderTimeout
<1>3. CASE last[s].leader # s
  BY <1>1, <1>3, ElectionAssumption DEF Jeopardy, IsLeaderTimeout
<1> QED
  BY <1>2, <1>3

\* A tick makes a record at most one older, and never changes its leader.
LEMMA OlderRecord ==
  ASSUME NEW r \in Record
  PROVE  /\ Older(r) \in Record
         /\ Older(r).leader = r.leader
         /\ Older(r).age \in {r.age, r.age + 1}
         /\ r.leader # NoServer => Older(r).age = r.age + 1 \/ r.age = Timeout
         /\ r.age = Timeout => Older(r).age = Timeout
BY ElectionAssumption DEF Older, Record, Age

\* A fault is noted, and none is forgotten for it.
LEMMA FaultBefalls ==
  ASSUME TypeOK, NEW f \in {Refused, Lost, Overrun}, Befalls(f)
  PROVE  amiss' \in 0..Ceased /\ amiss' >= amiss /\ amiss' >= f
BY DEF TypeOK, Befalls, Refused, Lost, Overrun, Ceased

\* What a write of floyd leaves behind.
LEMMA WrittenType ==
  ASSUME TypeOK, NEW s \in Server, Written(s)
  PROVE  record' \in Record /\ amiss' \in 0..Ceased /\ amiss' >= amiss
<1>1. since[s] \in Nat /\ amiss \in Nat
  BY ElectionAssumption DEF TypeOK, Ceased
<1>2. record' \in Record
  BY <1>1, ElectionAssumption DEF Written, Record, Age
<1>3. amiss' \in 0..Ceased /\ amiss' >= amiss
  BY <1>1, FaultBefalls DEF Written, TypeOK
<1> QED
  BY <1>2, <1>3

\* ... and every step keeps them: the types, ...
LEMMA TypeNext == BaseInv /\ [Next]_vars => TypeOK'
<1> SUFFICES ASSUME BaseInv, [Next]_vars PROVE TypeOK'
  OBVIOUS
<1> USE ElectionAssumption DEF BaseInv, TypeOK, Record, NoRecord, Lock,
        Unlocked, PC, Undecided, Answering, Age
<1>1. ASSUME NEW s \in Server, PreRead(s) PROVE TypeOK'
  <2>1. CASE record.leader # s /\ ~IsLeaderTimeout(record, Timeout)
    <3>1. Decide(s, record.leader, "refresh") /\ record.leader \in Server \cup {NoServer}
      BY <1>1, <2>1 DEF PreRead
    <3> QED
      BY <1>1, <3>1 DEF PreRead, Decide
  <2>2. CASE ~(record.leader # s /\ ~IsLeaderTimeout(record, Timeout))
    BY <1>1, <2>2 DEF PreRead
  <2> QED
    BY <2>1, <2>2
<1>2. ASSUME NEW s \in Server, PreReadNotFound(s) PROVE TypeOK'
  BY <1>2 DEF PreReadNotFound
<1>3. ASSUME NEW s \in Server, PreReadFails(s) PROVE TypeOK'
  BY <1>3, JeopardyAnswer DEF PreReadFails, Decide
<1>4. ASSUME NEW s \in Server, TryLock(s) PROVE TypeOK'
  BY <1>4 DEF TryLock
<1>5. ASSUME NEW s \in Server, TryLockFails(s) PROVE TypeOK'
  BY <1>5, JeopardyAnswer DEF TryLockFails, Decide
<1>6. ASSUME NEW s \in Server, LockedRead(s) PROVE TypeOK'
  <2>1. last' \in [Server -> Record]
    BY <1>6 DEF LockedRead, Found
  <2>2. PICK a \in Server \cup {NoServer}, p \in {"write", "unlock"} :
          Decide(s, a, p)
    BY <1>6 DEF LockedRead
  <2> QED
    BY <1>6, <2>1, <2>2 DEF LockedRead, Decide
<1>7. ASSUME NEW s \in Server, LockedReadFails(s) PROVE TypeOK'
  BY <1>7 DEF LockedReadFails
<1>8. ASSUME NEW s \in Server, GiveUp(s) PROVE TypeOK'
  BY <1>8, JeopardyAnswer DEF GiveUp, Decide, Released
<1>9. ASSUME NEW s \in Server, WriteLeaderRecord(s) PROVE TypeOK'
  BY <1>9, WrittenType DEF WriteLeaderRecord
<1>10. ASSUME NEW s \in Server, WriteLeaderRecordFails(s) PROVE TypeOK'
  <2>1. record' \in Record /\ amiss' \in 0..Ceased
    BY <1>10, WrittenType, FaultBefalls DEF WriteLeaderRecordFails
  <2> QED
    BY <1>10, <2>1 DEF WriteLeaderRecordFails
<1>11. ASSUME NEW s \in Server, UnLock(s) PROVE TypeOK'
  BY <1>11 DEF UnLock, Released
<1>12. ASSUME NEW s \in Server, NoLeader(s) PROVE TypeOK'
  BY <1>12 DEF NoLeader, EndRound
<1>13. ASSUME NEW s \in Server, LeaderSame(s) PROVE TypeOK'
  BY <1>13 DEF LeaderSame, EndRound
<1>14. ASSUME NEW s \in Server, Follow(s) PROVE TypeOK'
  BY <1>14 DEF Follow, EndRound
<1>15. ASSUME NEW s \in Server, BecomeLeader(s) PROVE TypeOK'
  BY <1>15 DEF BecomeLeader
<1>16. ASSUME NEW s \in Server, RestoreFails(s) PROVE TypeOK'
  BY <1>16 DEF RestoreFails, EndRound
<1>17. ASSUME NEW s \in Server, Active(s) PROVE TypeOK'
  BY <1>17 DEF Active
<1>18. ASSUME NEW s \in Server, ActiveAllPartition(s) PROVE TypeOK'
  BY <1>18 DEF ActiveAllPartition, EndRound
<1>19. ASSUME NEW s \in Server, ActiveAllPartitionFails(s) PROVE TypeOK'
  <2>1. amiss' \in 0..Ceased
    BY <1>19, FaultBefalls DEF ActiveAllPartitionFails
  <2> QED
    BY <1>19, <2>1 DEF ActiveAllPartitionFails, EndRound
<1>20. ASSUME NEW s \in Server, Crash(s) PROVE TypeOK'
  BY <1>20 DEF Crash
<1>21. ASSUME NEW s \in Server, Restart(s) PROVE TypeOK'
  BY <1>21 DEF Restart
<1>22. ASSUME Tick PROVE TypeOK'
  <2>1. record' \in Record /\ last' \in [Server -> Record]
    BY <1>22, OlderRecord DEF Tick
  <2>2. lock' \in Lock
    BY <1>22 DEF Tick
  <2>3. left' \in [Server -> 0..Gap]
    BY <1>22 DEF Tick
  <2>4. since' \in [Server -> 0..Gap]
    BY <1>22 DEF Tick, RoundInv, Undecided
  <2> QED
    BY <1>22, <2>1, <2>2, <2>3, <2>4 DEF Tick
<1>23. ASSUME Cease PROVE TypeOK'
  BY <1>23 DEF Cease, Ceased
<1>24. ASSUME UNCHANGED vars PROVE TypeOK'
  BY <1>24 DEF vars
<1> QED
  BY <1>1, <1>2, <1>3, <1>4, <1>5, <1>6, <1>7, <1>8, <1>9, <1>10, <1>11,
     <1>12, <1>13, <1>14, <1>15, <1>16, <1>17, <1>18, <1>19, <1>20, <1>21,
     <1>22, <1>23, <1>24
  DEF Next, Round, RoundFails

\* ... the time of the rounds, ...
LEMMA RoundNext == BaseInv /\ [Next]_vars => RoundInv'
<1> SUFFICES ASSUME BaseInv, [Next]_vars PROVE RoundInv'
  OBVIOUS
<1> USE ElectionAssumption DEF BaseInv, TypeOK, RoundInv, Undecided
<1>1. ASSUME NEW s \in Server, PreRead(s) PROVE RoundInv'
  BY <1>1 DEF PreRead, Decide
<1>2. ASSUME NEW s \in Server, PreReadNotFound(s) PROVE RoundInv'
  BY <1>2 DEF PreReadNotFound
<1>3. ASSUME NEW s \in Server, PreReadFails(s) PROVE RoundInv'
  BY <1>3 DEF PreReadFails, Decide
<1>4. ASSUME NEW s \in Server, TryLock(s) PROVE RoundInv'
  BY <1>4 DEF TryLock
<1>5. ASSUME NEW s \in Server, TryLockFails(s) PROVE RoundInv'
  BY <1>5 DEF TryLockFails, Decide
<1>6. ASSUME NEW s \in Server, LockedRead(s) PROVE RoundInv'
  BY <1>6 DEF LockedRead, Decide, Found
<1>7. ASSUME NEW s \in Server, LockedReadFails(s) PROVE RoundInv'
  BY <1>7 DEF LockedReadFails
<1>8. ASSUME NEW s \in Server, GiveUp(s) PROVE RoundInv'
  BY <1>8 DEF GiveUp, Decide, Released
<1>9. ASSUME NEW s \in Server, WriteLeaderRecord(s) PROVE RoundInv'
  BY <1>9 DEF WriteLeaderRecord
<1>10. ASSUME NEW s \in Server, WriteLeaderRecordFails(s) PROVE RoundInv'
  BY <1>10 DEF WriteLeaderRecordFails
<1>11. ASSUME NEW s \in Server, UnLock(s) PROVE RoundInv'
  BY <1>11 DEF UnLock, Released
<1>12. ASSUME NEW s \in Server, NoLeader(s) PROVE RoundInv'
  BY <1>12 DEF NoLeader, EndRound
<1>13. ASSUME NEW s \in Server, LeaderSame(s) PROVE RoundInv'
  BY <1>13 DEF LeaderSame, EndRound
<1>14. ASSUME NEW s \in Server, Follow(s) PROVE RoundInv'
  BY <1>14 DEF Follow, EndRound
<1>15. ASSUME NEW s \in Server, BecomeLeader(s) PROVE RoundInv'
  BY <1>15 DEF BecomeLeader
<1>16. ASSUME NEW s \in Server, RestoreFails(s) PROVE RoundInv'
  BY <1>16 DEF RestoreFails, EndRound
<1>17. ASSUME NEW s \in Server, Active(s) PROVE RoundInv'
  BY <1>17 DEF Active
<1>18. ASSUME NEW s \in Server, ActiveAllPartition(s) PROVE RoundInv'
  BY <1>18 DEF ActiveAllPartition, EndRound
<1>19. ASSUME NEW s \in Server, ActiveAllPartitionFails(s) PROVE RoundInv'
  BY <1>19 DEF ActiveAllPartitionFails, EndRound
<1>20. ASSUME NEW s \in Server, Crash(s) PROVE RoundInv'
  BY <1>20 DEF Crash
<1>21. ASSUME NEW s \in Server, Restart(s) PROVE RoundInv'
  BY <1>21 DEF Restart
<1>22. ASSUME Tick PROVE RoundInv'
  BY <1>22 DEF Tick
<1>23. ASSUME Cease PROVE RoundInv'
  BY <1>23 DEF Cease
<1>24. ASSUME UNCHANGED vars PROVE RoundInv'
  BY <1>24 DEF vars
<1> QED
  BY <1>1, <1>2, <1>3, <1>4, <1>5, <1>6, <1>7, <1>8, <1>9, <1>10, <1>11,
     <1>12, <1>13, <1>14, <1>15, <1>16, <1>17, <1>18, <1>19, <1>20, <1>21,
     <1>22, <1>23, <1>24
  DEF Next, Round, RoundFails

\* ... and the right to write the record, which the lock protects.
LEMMA WriteNext == BaseInv /\ [Next]_vars => WriteInv'
<1> SUFFICES ASSUME BaseInv, [Next]_vars PROVE WriteInv'
  OBVIOUS
<1> USE ElectionAssumption DEF BaseInv, TypeOK, WriteInv, Record,
        NoRecord, Age
<1>1. ASSUME NEW s \in Server, PreRead(s) PROVE WriteInv'
  BY <1>1 DEF PreRead, Decide
<1>2. ASSUME NEW s \in Server, PreReadNotFound(s) PROVE WriteInv'
  BY <1>2 DEF PreReadNotFound
<1>3. ASSUME NEW s \in Server, PreReadFails(s) PROVE WriteInv'
  BY <1>3 DEF PreReadFails, Decide
<1>4. ASSUME NEW s \in Server, TryLock(s) PROVE WriteInv'
  BY <1>4 DEF TryLock, Lock
<1>5. ASSUME NEW s \in Server, TryLockFails(s) PROVE WriteInv'
  BY <1>5 DEF TryLockFails, Decide
<1>6. ASSUME NEW s \in Server, LockedRead(s) PROVE WriteInv'
  BY <1>6 DEF LockedRead, Decide, Found, IsLeaderTimeout
<1>7. ASSUME NEW s \in Server, LockedReadFails(s) PROVE WriteInv'
  BY <1>7 DEF LockedReadFails
<1>8. ASSUME NEW s \in Server, GiveUp(s) PROVE WriteInv'
  BY <1>8 DEF GiveUp, Decide, Released, Unlocked
<1>9. ASSUME NEW s \in Server, WriteLeaderRecord(s) PROVE WriteInv'
  <2>1. lock.holder = s \/ ~(amiss' < Overrun)
    BY <1>9, FaultBefalls DEF WriteLeaderRecord, Written, Overrun, Ceased
  <2> QED
    BY <1>9, <2>1 DEF WriteLeaderRecord
<1>10. ASSUME NEW s \in Server, WriteLeaderRecordFails(s) PROVE WriteInv'
  <2>1. \/ lock.holder = s
        \/ ~(amiss' < Overrun)
        \/ UNCHANGED record /\ (amiss' < Overrun => amiss < Overrun)
    BY <1>10, FaultBefalls DEF WriteLeaderRecordFails, Written, Overrun, Ceased
  <2> QED
    BY <1>10, <2>1 DEF WriteLeaderRecordFails
<1>11. ASSUME NEW s \in Server, UnLock(s) PROVE WriteInv'
  BY <1>11 DEF UnLock, Released, Unlocked
<1>12. ASSUME NEW s \in Server, NoLeader(s) PROVE WriteInv'
  BY <1>12 DEF NoLeader, EndRound
<1>13. ASSUME NEW s \in Server, LeaderSame(s) PROVE WriteInv'
  BY <1>13 DEF LeaderSame, EndRound
<1>14. ASSUME NEW s \in Server, Follow(s) PROVE WriteInv'
  BY <1>14 DEF Follow, EndRound
<1>15. ASSUME NEW s \in Server, BecomeLeader(s) PROVE WriteInv'
  BY <1>15 DEF BecomeLeader
<1>16. ASSUME NEW s \in Server, RestoreFails(s) PROVE WriteInv'
  BY <1>16 DEF RestoreFails, EndRound
<1>17. ASSUME NEW s \in Server, Active(s) PROVE WriteInv'
  BY <1>17 DEF Active
<1>18. ASSUME NEW s \in Server, ActiveAllPartition(s) PROVE WriteInv'
  BY <1>18 DEF ActiveAllPartition, EndRound
<1>19. ASSUME NEW s \in Server, ActiveAllPartitionFails(s) PROVE WriteInv'
  <2>1. amiss' >= amiss /\ amiss' \in Nat
    BY <1>19, FaultBefalls DEF ActiveAllPartitionFails, Ceased
  <2> QED
    BY <1>19, <2>1 DEF ActiveAllPartitionFails, EndRound, Overrun, Ceased
<1>20. ASSUME NEW s \in Server, Crash(s) PROVE WriteInv'
  BY <1>20 DEF Crash
<1>21. ASSUME NEW s \in Server, Restart(s) PROVE WriteInv'
  BY <1>21 DEF Restart
<1>22. ASSUME Tick PROVE WriteInv'
  <2>1. ASSUME NEW s \in Server, pc'[s] = "write"
        PROVE  /\ lock'.holder = s /\ amiss' < Overrun =>
                    record'.leader \in {NoServer, s} \/ record'.age >= Timeout
               /\ \/ last'[s].age >= since'[s] \/ last'[s].age = Timeout
                  \/ last'[s].leader # s
    <3>1. record \in Record /\ last[s] \in Record /\ pc[s] = "write"
      BY <1>22, <2>1 DEF Tick
    <3>2. record' = Older(record) /\ last'[s] = Older(last[s])
      BY <1>22 DEF Tick
    <3>3. since'[s] = since[s] + 1 /\ since[s] \in Nat
      BY <1>22, <3>1 DEF Tick, Undecided
    <3>4. lock'.holder = s /\ amiss' < Overrun => lock.holder = s /\ amiss < Overrun
      BY <1>22 DEF Tick, Unlocked
    <3>5. lock'.holder = s /\ amiss' < Overrun =>
            record'.leader \in {NoServer, s} \/ record'.age >= Timeout
      BY <3>1, <3>2, <3>4, OlderRecord
    <3>6. last'[s].age >= since'[s] \/ last'[s].age = Timeout \/ last'[s].leader # s
      BY <3>1, <3>2, <3>3, OlderRecord
    <3> QED
      BY <3>5, <3>6
  <2> QED
    BY <2>1
<1>23. ASSUME Cease PROVE WriteInv'
  BY <1>23 DEF Cease, Ceased, Overrun
<1>24. ASSUME UNCHANGED vars PROVE WriteInv'
  BY <1>24 DEF vars
<1> QED
  BY <1>1, <1>2, <1>3, <1>4, <1>5, <1>6, <1>7, <1>8, <1>9, <1>10, <1>11,
     <1>12, <1>13, <1>14, <1>15, <1>16, <1>17, <1>18, <1>19, <1>20, <1>21,
     <1>22, <1>23, <1>24
  DEF Next, Round, RoundFails

\* So they hold throughout.
LEMMA BaseHolds == Spec => []BaseInv
<1>1. BaseInv /\ [Next]_vars => BaseInv'
  BY TypeNext, RoundNext, WriteNext DEF BaseInv
<1> QED
  BY <1>1, BaseInit, PTL DEF Spec

\* The variables that the election keeps have their types, so the ages and the
\* times that are left stay within their bounds.
THEOREM ElectionTypes == Spec => []TypeOK
<1>1. BaseInv => TypeOK
  BY DEF BaseInv
<1> QED
  BY <1>1, BaseHolds, PTL

\* The record passes to another server only after it has timed out, for any
\* servers, timing, failing calls and crashes, until one writes it after its lock
\* has run out: whoever writes it under the lock has read there that it may, and
\* nobody else has written it since.
THEOREM LeaseNotStolen == Spec => NotStolen
<1> DEFINE Passes == record'.leader # record.leader =>
                       \/ record.leader = NoServer
                       \/ IsLeaderTimeout(record, Timeout)
                       \/ amiss' >= Overrun
<1>1. BaseInv /\ [Next]_vars => [Passes]_vars
  <2> SUFFICES ASSUME BaseInv, Next PROVE Passes
    BY DEF vars
  <2>1. ASSUME NEW s \in Server, pc[s] = "write", Written(s) PROVE Passes
    <3>1. CASE lock.holder = s /\ amiss < Overrun
      BY <2>1, <3>1 DEF BaseInv, WriteInv, Written, IsLeaderTimeout
    <3>2. CASE lock.holder # s
      BY <2>1, <3>2, FaultBefalls DEF BaseInv, Written
    <3>3. CASE ~(amiss < Overrun)
      <4>1. amiss \in Nat /\ amiss' \in Nat /\ amiss' >= amiss
        BY <2>1, WrittenType DEF BaseInv, TypeOK, Ceased
      <4> QED
        BY <3>3, <4>1 DEF Overrun
    <3> QED
      BY <3>1, <3>2, <3>3
  <2>2. ASSUME NEW s \in Server, WriteLeaderRecord(s) PROVE Passes
    BY <2>1, <2>2 DEF WriteLeaderRecord
  <2>3. ASSUME NEW s \in Server, WriteLeaderRecordFails(s) PROVE Passes
    BY <2>1, <2>3 DEF WriteLeaderRecordFails
  <2>4. ASSUME Tick PROVE Passes
    BY <2>4, OlderRecord DEF Tick, BaseInv, TypeOK
  <2>5. CASE UNCHANGED record
    BY <2>5
  <2> QED
    BY <2>2, <2>3, <2>4, <2>5
    DEF Next, Round, RoundFails, PreRead, PreReadNotFound, PreReadFails,
        TryLock, TryLockFails, LockedRead, LockedReadFails, GiveUp, UnLock,
        NoLeader, LeaderSame, Follow, BecomeLeader, RestoreFails, Active,
        ActiveAllPartition, ActiveAllPartitionFails, Crash, Restart, Cease
<1> QED
  BY <1>1, BaseHolds, PTL DEF Spec, NotStolen

-----------------------------------------------------------------------------
(* The lease, of servers whose rounds take no longer than RemainThreshold,   *)
(* as long as a write that fails was carried out and none overruns its lock. *)

\* A server that believes in its own record is in the record.
CacheInv == \A s \in Server :
  last[s].leader = s /\ last[s].age < Timeout =>
    record.leader = s /\ record.age <= last[s].age

\* The lease outlasts the round after the one in which a server is told that it
\* leads, ...
AnswerInv == \A s \in Server : pc[s] \in Answering /\ answer[s] = s =>
  record.leader = s /\ record.age + Gap < Timeout + since[s]

\* ... and the round of a server that leads.
RoleInv == \A s \in Server : role[s] = "kLeader" =>
  /\ record.leader = s /\ record.age + left[s] < Timeout
  /\ pc[s] \notin {"down", "restore", "active"}

PromotionInv == \A s \in Server :
  pc[s] \in {"restore", "active"} => answer[s] = s

LeaseInv == Timely /\ BaseInv /\ CacheInv /\ AnswerInv /\ RoleInv /\ PromotionInv

\* The next state of a record, and what is known of it.
LEMMA TickRecord ==
  ASSUME BaseInv, Tick, NEW s \in Server
  PROVE  /\ record'.leader = record.leader
         /\ record'.age <= record.age + 1 /\ record'.age \in Nat
         /\ last'[s].leader = last[s].leader
         /\ last[s].leader = s =>
              last'[s].age = last[s].age + 1 \/ last'[s].age = Timeout
         /\ last[s].age \in Nat /\ record.age \in Nat /\ record.age <= Timeout
<1>1. record \in Record /\ last[s] \in Record
  BY DEF BaseInv, TypeOK
<1>2. record' = Older(record) /\ last'[s] = Older(last[s])
  BY DEF Tick
<1> QED
  BY <1>1, <1>2, OlderRecord, ElectionAssumption DEF Record, Age

\* A server that trusts its own lease has it until the next round is over.
LEMMA JeopardyLease ==
  ASSUME LeaseInv, NEW s \in Server, Jeopardy(s) = s
  PROVE  record.leader = s /\ record.age + Gap < Timeout
<1>1. last[s].leader = s /\ last[s].age < Timeout - RemainThreshold
  BY JeopardyAnswer DEF LeaseInv, BaseInv
<1>2. last[s].age \in Nat /\ record.age \in Nat
  BY DEF LeaseInv, BaseInv, TypeOK, Record, Age
<1> QED
  BY <1>1, <1>2, ElectionAssumption DEF LeaseInv, CacheInv, Timely

\* Whoever writes the record under the lock may, and its own round is younger than
\* any timeout.
LEMMA WrittenLease ==
  ASSUME LeaseInv, NEW s \in Server, pc[s] = "write", Written(s), amiss' < Lost
  PROVE  /\ record.leader \in {NoServer, s} \/ record.age >= Timeout
         /\ record' = [leader |-> s, age |-> since[s]]
<1>1. amiss \in Nat /\ amiss' \in Nat /\ amiss' >= amiss
  BY WrittenType DEF LeaseInv, BaseInv, TypeOK, Ceased
<1>2. lock.holder = s
  BY <1>1, FaultBefalls DEF LeaseInv, BaseInv, Written, Lost, Overrun
<1>3. since[s] < Timeout
  BY ElectionAssumption DEF LeaseInv, BaseInv, TypeOK, Timely
<1> QED
  BY <1>1, <1>2, <1>3 DEF LeaseInv, BaseInv, WriteInv, Written, Lost, Overrun

\* A write that fails without having been carried out is lost.
LEMMA FailedIsWritten ==
  ASSUME LeaseInv, NEW s \in Server, WriteLeaderRecordFails(s), amiss' < Lost
  PROVE  Written(s)
BY FaultBefalls DEF LeaseInv, BaseInv, WriteLeaderRecordFails, Lost, TypeOK, Ceased

\* The lease is kept by every step, part by part: a write by another server
\* needs a record that has timed out, so nobody can still believe in it, ...
LEMMA CacheNext ==
  LeaseInv /\ [Next]_vars /\ amiss' < Lost => CacheInv'
<1> SUFFICES ASSUME LeaseInv, [Next]_vars, amiss' < Lost PROVE CacheInv'
  OBVIOUS
<1> USE ElectionAssumption DEF LeaseInv, BaseInv, TypeOK, CacheInv,
        Record, NoRecord, Age
<1>1. ASSUME NEW s \in Server, PreRead(s) PROVE CacheInv'
  BY <1>1 DEF PreRead, Decide
<1>2. ASSUME NEW s \in Server, PreReadNotFound(s) PROVE CacheInv'
  BY <1>2 DEF PreReadNotFound
<1>3. ASSUME NEW s \in Server, PreReadFails(s) PROVE CacheInv'
  BY <1>3 DEF PreReadFails, Decide
<1>4. ASSUME NEW s \in Server, TryLock(s) PROVE CacheInv'
  BY <1>4 DEF TryLock
<1>5. ASSUME NEW s \in Server, TryLockFails(s) PROVE CacheInv'
  BY <1>5 DEF TryLockFails, Decide
<1>6. ASSUME NEW s \in Server, LockedRead(s) PROVE CacheInv'
  BY <1>6 DEF LockedRead, Decide, Found
<1>7. ASSUME NEW s \in Server, LockedReadFails(s) PROVE CacheInv'
  BY <1>7 DEF LockedReadFails
<1>8. ASSUME NEW s \in Server, GiveUp(s) PROVE CacheInv'
  BY <1>8 DEF GiveUp, Decide, Released
<1>9. ASSUME NEW s \in Server, WriteLeaderRecord(s) PROVE CacheInv'
  <2>1. /\ record.leader \in {NoServer, s} \/ record.age >= Timeout
        /\ record' = [leader |-> s, age |-> since[s]]
    BY <1>9, WrittenLease DEF WriteLeaderRecord
  <2> QED
    BY <1>9, <2>1 DEF WriteLeaderRecord
<1>10. ASSUME NEW s \in Server, WriteLeaderRecordFails(s) PROVE CacheInv'
  <2>1. /\ record.leader \in {NoServer, s} \/ record.age >= Timeout
        /\ record' = [leader |-> s, age |-> since[s]]
    BY <1>10, WrittenLease, FailedIsWritten DEF WriteLeaderRecordFails
  <2> QED
    BY <1>10, <2>1 DEF WriteLeaderRecordFails, WriteInv
<1>11. ASSUME NEW s \in Server, UnLock(s) PROVE CacheInv'
  BY <1>11 DEF UnLock, Released
<1>12. ASSUME NEW s \in Server, NoLeader(s) PROVE CacheInv'
  BY <1>12 DEF NoLeader, EndRound
<1>13. ASSUME NEW s \in Server, LeaderSame(s) PROVE CacheInv'
  BY <1>13 DEF LeaderSame, EndRound
<1>14. ASSUME NEW s \in Server, Follow(s) PROVE CacheInv'
  BY <1>14 DEF Follow, EndRound
<1>15. ASSUME NEW s \in Server, BecomeLeader(s) PROVE CacheInv'
  BY <1>15 DEF BecomeLeader
<1>16. ASSUME NEW s \in Server, RestoreFails(s) PROVE CacheInv'
  BY <1>16 DEF RestoreFails, EndRound
<1>17. ASSUME NEW s \in Server, Active(s) PROVE CacheInv'
  BY <1>17 DEF Active
<1>18. ASSUME NEW s \in Server, ActiveAllPartition(s) PROVE CacheInv'
  BY <1>18 DEF ActiveAllPartition, EndRound
<1>19. ASSUME NEW s \in Server, ActiveAllPartitionFails(s) PROVE CacheInv'
  BY <1>19 DEF ActiveAllPartitionFails, EndRound
<1>20. ASSUME NEW s \in Server, Crash(s) PROVE CacheInv'
  BY <1>20 DEF Crash
<1>21. ASSUME NEW s \in Server, Restart(s) PROVE CacheInv'
  BY <1>21 DEF Restart
<1>22. ASSUME Tick PROVE CacheInv'
  BY <1>22, TickRecord
<1>23. ASSUME Cease PROVE CacheInv'
  BY <1>23 DEF Cease
<1>24. ASSUME UNCHANGED vars PROVE CacheInv'
  BY <1>24 DEF vars
<1> QED
  BY <1>1, <1>2, <1>3, <1>4, <1>5, <1>6, <1>7, <1>8, <1>9, <1>10, <1>11,
     <1>12, <1>13, <1>14, <1>15, <1>16, <1>17, <1>18, <1>19, <1>20, <1>21,
     <1>22, <1>23, <1>24
  DEF Next, Round, RoundFails

\* ... an answer is backed by a write or by Jeopardy, ...
LEMMA AnswerNext ==
  LeaseInv /\ [Next]_vars /\ amiss' < Lost => AnswerInv'
<1> SUFFICES ASSUME LeaseInv, [Next]_vars, amiss' < Lost PROVE AnswerInv'
  OBVIOUS
<1> USE ElectionAssumption DEF LeaseInv, BaseInv, TypeOK, AnswerInv,
        Answering, Record, NoRecord, Age
<1>1. ASSUME NEW s \in Server, PreRead(s) PROVE AnswerInv'
  BY <1>1 DEF PreRead, Decide
<1>2. ASSUME NEW s \in Server, PreReadNotFound(s) PROVE AnswerInv'
  BY <1>2 DEF PreReadNotFound
<1>3. ASSUME NEW s \in Server, PreReadFails(s) PROVE AnswerInv'
  BY <1>3, JeopardyLease DEF PreReadFails, Decide
<1>4. ASSUME NEW s \in Server, TryLock(s) PROVE AnswerInv'
  BY <1>4 DEF TryLock
<1>5. ASSUME NEW s \in Server, TryLockFails(s) PROVE AnswerInv'
  BY <1>5, JeopardyLease DEF TryLockFails, Decide
<1>6. ASSUME NEW s \in Server, LockedRead(s) PROVE AnswerInv'
  BY <1>6 DEF LockedRead, Decide, Found
<1>7. ASSUME NEW s \in Server, LockedReadFails(s) PROVE AnswerInv'
  BY <1>7 DEF LockedReadFails
<1>8. ASSUME NEW s \in Server, GiveUp(s) PROVE AnswerInv'
  BY <1>8, JeopardyLease DEF GiveUp, Decide, Released
<1>9. ASSUME NEW s \in Server, WriteLeaderRecord(s) PROVE AnswerInv'
  <2>1. /\ record.leader \in {NoServer, s} \/ record.age >= Timeout
        /\ record' = [leader |-> s, age |-> since[s]]
    BY <1>9, WrittenLease DEF WriteLeaderRecord
  <2> QED
    BY <1>9, <2>1 DEF WriteLeaderRecord, RoundInv, Timely
<1>10. ASSUME NEW s \in Server, WriteLeaderRecordFails(s) PROVE AnswerInv'
  <2>1. /\ record.leader \in {NoServer, s} \/ record.age >= Timeout
        /\ record' = [leader |-> s, age |-> since[s]]
    BY <1>10, WrittenLease, FailedIsWritten DEF WriteLeaderRecordFails
  <2> QED
    BY <1>10, <2>1 DEF WriteLeaderRecordFails, RoundInv, Timely
<1>11. ASSUME NEW s \in Server, UnLock(s) PROVE AnswerInv'
  BY <1>11 DEF UnLock, Released
<1>12. ASSUME NEW s \in Server, NoLeader(s) PROVE AnswerInv'
  BY <1>12 DEF NoLeader, EndRound
<1>13. ASSUME NEW s \in Server, LeaderSame(s) PROVE AnswerInv'
  BY <1>13 DEF LeaderSame, EndRound
<1>14. ASSUME NEW s \in Server, Follow(s) PROVE AnswerInv'
  BY <1>14 DEF Follow, EndRound
<1>15. ASSUME NEW s \in Server, BecomeLeader(s) PROVE AnswerInv'
  BY <1>15 DEF BecomeLeader
<1>16. ASSUME NEW s \in Server, RestoreFails(s) PROVE AnswerInv'
  BY <1>16 DEF RestoreFails, EndRound
<1>17. ASSUME NEW s \in Server, Active(s) PROVE AnswerInv'
  BY <1>17 DEF Active
<1>18. ASSUME NEW s \in Server, ActiveAllPartition(s) PROVE AnswerInv'
  BY <1>18 DEF ActiveAllPartition, EndRound
<1>19. ASSUME NEW s \in Server, ActiveAllPartitionFails(s) PROVE AnswerInv'
  BY <1>19 DEF ActiveAllPartitionFails, EndRound
<1>20. ASSUME NEW s \in Server, Crash(s) PROVE AnswerInv'
  BY <1>20 DEF Crash
<1>21. ASSUME NEW s \in Server, Restart(s) PROVE AnswerInv'
  BY <1>21 DEF Restart
<1>22. ASSUME Tick PROVE AnswerInv'
  BY <1>22, TickRecord DEF Tick, PC, Undecided, Answering
<1>23. ASSUME Cease PROVE AnswerInv'
  BY <1>23 DEF Cease
<1>24. ASSUME UNCHANGED vars PROVE AnswerInv'
  BY <1>24 DEF vars
<1> QED
  BY <1>1, <1>2, <1>3, <1>4, <1>5, <1>6, <1>7, <1>8, <1>9, <1>10, <1>11,
     <1>12, <1>13, <1>14, <1>15, <1>16, <1>17, <1>18, <1>19, <1>20, <1>21,
     <1>22, <1>23, <1>24
  DEF Next, Round, RoundFails

\* ... the role by an answer, ...
LEMMA RoleNext ==
  LeaseInv /\ [Next]_vars /\ amiss' < Lost => RoleInv'
<1> SUFFICES ASSUME LeaseInv, [Next]_vars, amiss' < Lost PROVE RoleInv'
  OBVIOUS
<1> USE ElectionAssumption DEF LeaseInv, BaseInv, TypeOK, RoleInv,
        Record, NoRecord, Age
<1>1. ASSUME NEW s \in Server, PreRead(s) PROVE RoleInv'
  BY <1>1 DEF PreRead, Decide
<1>2. ASSUME NEW s \in Server, PreReadNotFound(s) PROVE RoleInv'
  BY <1>2 DEF PreReadNotFound
<1>3. ASSUME NEW s \in Server, PreReadFails(s) PROVE RoleInv'
  BY <1>3 DEF PreReadFails, Decide
<1>4. ASSUME NEW s \in Server, TryLock(s) PROVE RoleInv'
  BY <1>4 DEF TryLock
<1>5. ASSUME NEW s \in Server, TryLockFails(s) PROVE RoleInv'
  BY <1>5 DEF TryLockFails, Decide
<1>6. ASSUME NEW s \in Server, LockedRead(s) PROVE RoleInv'
  BY <1>6 DEF LockedRead, Decide, Found
<1>7. ASSUME NEW s \in Server, LockedReadFails(s) PROVE RoleInv'
  BY <1>7 DEF LockedReadFails
<1>8. ASSUME NEW s \in Server, GiveUp(s) PROVE RoleInv'
  BY <1>8 DEF GiveUp, Decide, Released
<1>9. ASSUME NEW s \in Server, WriteLeaderRecord(s) PROVE RoleInv'
  <2>1. /\ record.leader \in {NoServer, s} \/ record.age >= Timeout
        /\ record' = [leader |-> s, age |-> since[s]]
    BY <1>9, WrittenLease DEF WriteLeaderRecord
  <2> QED
    BY <1>9, <2>1 DEF WriteLeaderRecord, RoundInv, Timely
<1>10. ASSUME NEW s \in Server, WriteLeaderRecordFails(s) PROVE RoleInv'
  <2>1. /\ record.leader \in {NoServer, s} \/ record.age >= Timeout
        /\ record' = [leader |-> s, age |-> since[s]]
    BY <1>10, WrittenLease, FailedIsWritten DEF WriteLeaderRecordFails
  <2> QED
    BY <1>10, <2>1 DEF WriteLeaderRecordFails, RoundInv, Timely
<1>11. ASSUME NEW s \in Server, UnLock(s) PROVE RoleInv'
  BY <1>11 DEF UnLock, Released
<1>12. ASSUME NEW s \in Server, NoLeader(s) PROVE RoleInv'
  BY <1>12 DEF NoLeader, EndRound
<1>13. ASSUME NEW s \in Server, LeaderSame(s) PROVE RoleInv'
  BY <1>13 DEF LeaderSame, EndRound, Same, AnswerInv, Answering
<1>14. ASSUME NEW s \in Server, Follow(s) PROVE RoleInv'
  BY <1>14 DEF Follow, EndRound
<1>15. ASSUME NEW s \in Server, BecomeLeader(s) PROVE RoleInv'
  BY <1>15 DEF BecomeLeader
<1>16. ASSUME NEW s \in Server, RestoreFails(s) PROVE RoleInv'
  BY <1>16 DEF RestoreFails, EndRound
<1>17. ASSUME NEW s \in Server, Active(s) PROVE RoleInv'
  BY <1>17 DEF Active
<1>18. ASSUME NEW s \in Server, ActiveAllPartition(s) PROVE RoleInv'
  BY <1>18 
  DEF ActiveAllPartition, EndRound, AnswerInv, Answering, PromotionInv
<1>19. ASSUME NEW s \in Server, ActiveAllPartitionFails(s) PROVE RoleInv'
  BY <1>19 DEF ActiveAllPartitionFails, EndRound
<1>20. ASSUME NEW s \in Server, Crash(s) PROVE RoleInv'
  BY <1>20 DEF Crash
<1>21. ASSUME NEW s \in Server, Restart(s) PROVE RoleInv'
  BY <1>21 DEF Restart
<1>22. ASSUME Tick PROVE RoleInv'
  BY <1>22, TickRecord DEF Tick
<1>23. ASSUME Cease PROVE RoleInv'
  BY <1>23 DEF Cease
<1>24. ASSUME UNCHANGED vars PROVE RoleInv'
  BY <1>24 DEF vars
<1> QED
  BY <1>1, <1>2, <1>3, <1>4, <1>5, <1>6, <1>7, <1>8, <1>9, <1>10, <1>11,
     <1>12, <1>13, <1>14, <1>15, <1>16, <1>17, <1>18, <1>19, <1>20, <1>21,
     <1>22, <1>23, <1>24
  DEF Next, Round, RoundFails

\* ... and a promotion too.
LEMMA PromotionNext ==
  LeaseInv /\ [Next]_vars /\ amiss' < Lost => PromotionInv'
<1> SUFFICES ASSUME LeaseInv, [Next]_vars, amiss' < Lost PROVE PromotionInv'
  OBVIOUS
<1> USE ElectionAssumption DEF LeaseInv, BaseInv, TypeOK, PromotionInv
<1>1. ASSUME NEW s \in Server, PreRead(s) PROVE PromotionInv'
  BY <1>1 DEF PreRead, Decide
<1>2. ASSUME NEW s \in Server, PreReadNotFound(s) PROVE PromotionInv'
  BY <1>2 DEF PreReadNotFound
<1>3. ASSUME NEW s \in Server, PreReadFails(s) PROVE PromotionInv'
  BY <1>3 DEF PreReadFails, Decide
<1>4. ASSUME NEW s \in Server, TryLock(s) PROVE PromotionInv'
  BY <1>4 DEF TryLock
<1>5. ASSUME NEW s \in Server, TryLockFails(s) PROVE PromotionInv'
  BY <1>5 DEF TryLockFails, Decide
<1>6. ASSUME NEW s \in Server, LockedRead(s) PROVE PromotionInv'
  BY <1>6 DEF LockedRead, Decide, Found
<1>7. ASSUME NEW s \in Server, LockedReadFails(s) PROVE PromotionInv'
  BY <1>7 DEF LockedReadFails
<1>8. ASSUME NEW s \in Server, GiveUp(s) PROVE PromotionInv'
  BY <1>8 DEF GiveUp, Decide, Released
<1>9. ASSUME NEW s \in Server, WriteLeaderRecord(s) PROVE PromotionInv'
  BY <1>9 DEF WriteLeaderRecord
<1>10. ASSUME NEW s \in Server, WriteLeaderRecordFails(s) PROVE PromotionInv'
  BY <1>10 DEF WriteLeaderRecordFails
<1>11. ASSUME NEW s \in Server, UnLock(s) PROVE PromotionInv'
  BY <1>11 DEF UnLock, Released
<1>12. ASSUME NEW s \in Server, NoLeader(s) PROVE PromotionInv'
  BY <1>12 DEF NoLeader, EndRound
<1>13. ASSUME NEW s \in Server, LeaderSame(s) PROVE PromotionInv'
  BY <1>13 DEF LeaderSame, EndRound
<1>14. ASSUME NEW s \in Server, Follow(s) PROVE PromotionInv'
  BY <1>14 DEF Follow, EndRound
<1>15. ASSUME NEW s \in Server, BecomeLeader(s) PROVE PromotionInv'
  BY <1>15 DEF BecomeLeader
<1>16. ASSUME NEW s \in Server, RestoreFails(s) PROVE PromotionInv'
  BY <1>16 DEF RestoreFails, EndRound
<1>17. ASSUME NEW s \in Server, Active(s) PROVE PromotionInv'
  BY <1>17 DEF Active
<1>18. ASSUME NEW s \in Server, ActiveAllPartition(s) PROVE PromotionInv'
  BY <1>18 DEF ActiveAllPartition, EndRound
<1>19. ASSUME NEW s \in Server, ActiveAllPartitionFails(s) PROVE PromotionInv'
  BY <1>19 DEF ActiveAllPartitionFails, EndRound
<1>20. ASSUME NEW s \in Server, Crash(s) PROVE PromotionInv'
  BY <1>20 DEF Crash
<1>21. ASSUME NEW s \in Server, Restart(s) PROVE PromotionInv'
  BY <1>21 DEF Restart
<1>22. ASSUME Tick PROVE PromotionInv'
  BY <1>22 DEF Tick
<1>23. ASSUME Cease PROVE PromotionInv'
  BY <1>23 DEF Cease
<1>24. ASSUME UNCHANGED vars PROVE PromotionInv'
  BY <1>24 DEF vars
<1> QED
  BY <1>1, <1>2, <1>3, <1>4, <1>5, <1>6, <1>7, <1>8, <1>9, <1>10, <1>11,
     <1>12, <1>13, <1>14, <1>15, <1>16, <1>17, <1>18, <1>19, <1>20, <1>21,
     <1>22, <1>23, <1>24
  DEF Next, Round, RoundFails

\* The lease invariants hold at the start, ...
LEMMA LeaseInit == Timely /\ Init => LeaseInv
<1> SUFFICES ASSUME Timely, Init PROVE LeaseInv
  OBVIOUS
<1>1. CacheInv /\ AnswerInv /\ RoleInv /\ PromotionInv
  BY ElectionAssumption
  DEF Init, CacheInv, AnswerInv, RoleInv, PromotionInv, Answering, NoRecord
<1> QED
  BY <1>1, BaseInit DEF LeaseInv

\* ... and every step keeps them, unless it loses a write or overruns the lock.
LEMMA LeaseNext ==
  LeaseInv /\ [Next]_vars /\ amiss' < Lost => LeaseInv'
<1> SUFFICES ASSUME LeaseInv, [Next]_vars, amiss' < Lost PROVE LeaseInv'
  OBVIOUS
<1>1. BaseInv'
  BY TypeNext, RoundNext, WriteNext DEF BaseInv, LeaseInv
<1> QED
  BY <1>1, CacheNext, AnswerNext, RoleNext, PromotionNext DEF LeaseInv

\* What has occurred is not forgotten.
LEMMA FaultsKept == BaseInv /\ [Next]_vars => amiss' >= amiss /\ amiss' \in Nat
<1> SUFFICES ASSUME BaseInv, [Next]_vars PROVE amiss' >= amiss /\ amiss' \in Nat
  OBVIOUS
<1>1. amiss \in Nat /\ amiss <= Ceased /\ amiss' \in Nat
  BY TypeNext DEF BaseInv, TypeOK, Ceased
<1>2. ASSUME NEW s \in Server, WriteLeaderRecord(s) PROVE amiss' >= amiss
  BY <1>2, WrittenType DEF WriteLeaderRecord, BaseInv
<1>3. ASSUME NEW s \in Server, WriteLeaderRecordFails(s) PROVE amiss' >= amiss
  BY <1>3, WrittenType, FaultBefalls DEF WriteLeaderRecordFails, BaseInv
<1>4. ASSUME NEW s \in Server, ActiveAllPartitionFails(s) PROVE amiss' >= amiss
  BY <1>4, FaultBefalls DEF ActiveAllPartitionFails, BaseInv
<1>5. ASSUME Cease PROVE amiss' >= amiss
  BY <1>1, <1>5 DEF Cease
<1>6. CASE UNCHANGED amiss
  BY <1>1, <1>6
<1> QED
  BY <1>1, <1>2, <1>3, <1>4, <1>5, <1>6
  DEF Next, Round, RoundFails, vars, PreRead, PreReadNotFound, PreReadFails,
      TryLock, TryLockFails, LockedRead, LockedReadFails, GiveUp, UnLock,
      NoLeader, LeaderSame, Follow, BecomeLeader, RestoreFails, Active,
      ActiveAllPartition, Crash, Restart, Tick

\* What holds until a write is lost or overruns its lock.
UntilLost == BaseInv /\ (amiss >= Lost \/ LeaseInv)

\* It holds at the start and is kept by every step.
LEMMA UntilLostHolds == Timely /\ Spec => []UntilLost
<1>1. Timely /\ Init => UntilLost
  BY BaseInit, LeaseInit DEF UntilLost
<1>2. UntilLost /\ [Next]_vars => UntilLost'
  <2> SUFFICES ASSUME UntilLost, [Next]_vars PROVE UntilLost'
    OBVIOUS
  <2>1. BaseInv'
    BY TypeNext, RoundNext, WriteNext DEF BaseInv, UntilLost
  <2>2. amiss' >= amiss /\ amiss' \in Nat /\ amiss \in Nat
    BY FaultsKept DEF UntilLost, BaseInv, TypeOK
  <2>3. CASE amiss' >= Lost
    BY <2>1, <2>3 DEF UntilLost
  <2>4. CASE amiss' < Lost
    BY <2>1, <2>2, <2>4, LeaseNext DEF UntilLost, Lost
  <2> QED
    BY <2>2, <2>3, <2>4 DEF Lost
<1> QED
  BY <1>1, <1>2, PTL DEF Spec

\* What RoleInv says of the record makes the leader unique.
LEMMA LeaseMeans == LeaseInv => OneLeader /\ LeaderIsRecorded
<1> SUFFICES ASSUME LeaseInv PROVE OneLeader /\ LeaderIsRecorded
  OBVIOUS
<1>1. \A s \in Server : role[s] = "kLeader" =>
        record.leader = s /\ ~(record.age >= Timeout)
  BY ElectionAssumption DEF LeaseInv, BaseInv, TypeOK, RoleInv, Record, Age
<1> QED
  BY <1>1 DEF OneLeader, LeaderIsRecorded, IsLeaderTimeout

\* For any servers whose rounds are Timely: until a write is lost or comes after
\* its lock has run out, two servers never lead at the same time.  The invariant
\* behind it counts how long a server may still believe that it leads (left)
\* against how long nobody else may take its record over.
THEOREM LeaderUnique == Timely /\ Spec => []OneLeader
<1>1. UntilLost => OneLeader
  BY LeaseMeans DEF UntilLost, BaseInv, TypeOK, OneLeader, Lost, Ceased
<1> QED
  BY <1>1, UntilLostHolds, PTL

\* And the one that leads is the one that the record names, before its timeout, on
\* the same terms.
THEOREM LeaderHoldsLease == Timely /\ Spec => []LeaderIsRecorded
<1>1. UntilLost => LeaderIsRecorded
  BY LeaseMeans DEF UntilLost, BaseInv, TypeOK, LeaderIsRecorded, Lost, Ceased
<1> QED
  BY <1>1, UntilLostHolds, PTL

-----------------------------------------------------------------------------
(* The update thread, when ActiveAllPartition does not fail.               *)

\* The threads run on a leader, or on a server that is just becoming one.
ActiveInv == \A s \in Server :
  active[s] => role[s] = "kLeader" \/ pc[s] = "active"

\* Every step keeps the threads on the leader.
LEMMA ActiveNext ==
  LeaseInv /\ ActiveInv /\ [Next]_vars /\ amiss' < Refused => ActiveInv'
<1> SUFFICES ASSUME LeaseInv, ActiveInv, [Next]_vars, amiss' < Refused
             PROVE  ActiveInv'
  OBVIOUS
<1> USE DEF LeaseInv, BaseInv, TypeOK, RoleInv, ActiveInv
<1>1. ASSUME NEW s \in Server, PreRead(s) PROVE ActiveInv'
  BY <1>1 DEF PreRead, Decide
<1>2. ASSUME NEW s \in Server, PreReadNotFound(s) PROVE ActiveInv'
  BY <1>2 DEF PreReadNotFound
<1>3. ASSUME NEW s \in Server, PreReadFails(s) PROVE ActiveInv'
  BY <1>3 DEF PreReadFails, Decide
<1>4. ASSUME NEW s \in Server, TryLock(s) PROVE ActiveInv'
  BY <1>4 DEF TryLock
<1>5. ASSUME NEW s \in Server, TryLockFails(s) PROVE ActiveInv'
  BY <1>5 DEF TryLockFails, Decide
<1>6. ASSUME NEW s \in Server, LockedRead(s) PROVE ActiveInv'
  BY <1>6 DEF LockedRead, Decide, Found
<1>7. ASSUME NEW s \in Server, LockedReadFails(s) PROVE ActiveInv'
  BY <1>7 DEF LockedReadFails
<1>8. ASSUME NEW s \in Server, GiveUp(s) PROVE ActiveInv'
  BY <1>8 DEF GiveUp, Decide, Released
<1>9. ASSUME NEW s \in Server, WriteLeaderRecord(s) PROVE ActiveInv'
  BY <1>9 DEF WriteLeaderRecord
<1>10. ASSUME NEW s \in Server, WriteLeaderRecordFails(s) PROVE ActiveInv'
  BY <1>10 DEF WriteLeaderRecordFails
<1>11. ASSUME NEW s \in Server, UnLock(s) PROVE ActiveInv'
  BY <1>11 DEF UnLock, Released
<1>12. ASSUME NEW s \in Server, NoLeader(s) PROVE ActiveInv'
  BY <1>12 DEF NoLeader, EndRound
<1>13. ASSUME NEW s \in Server, LeaderSame(s) PROVE ActiveInv'
  BY <1>13 DEF LeaderSame, EndRound
<1>14. ASSUME NEW s \in Server, Follow(s) PROVE ActiveInv'
  BY <1>14 DEF Follow, EndRound
<1>15. ASSUME NEW s \in Server, BecomeLeader(s) PROVE ActiveInv'
  BY <1>15 DEF BecomeLeader, Same
<1>16. ASSUME NEW s \in Server, RestoreFails(s) PROVE ActiveInv'
  BY <1>16 DEF RestoreFails, EndRound
<1>17. ASSUME NEW s \in Server, Active(s) PROVE ActiveInv'
  BY <1>17 DEF Active
<1>18. ASSUME NEW s \in Server, ActiveAllPartition(s) PROVE ActiveInv'
  BY <1>18 DEF ActiveAllPartition, EndRound
<1>19. ASSUME NEW s \in Server, ActiveAllPartitionFails(s) PROVE ActiveInv'
  <2>1. ~(amiss' < Refused)
    BY <1>19, FaultBefalls DEF ActiveAllPartitionFails, Refused, Ceased
  <2> QED
    BY <2>1
<1>20. ASSUME NEW s \in Server, Crash(s) PROVE ActiveInv'
  BY <1>20 DEF Crash
<1>21. ASSUME NEW s \in Server, Restart(s) PROVE ActiveInv'
  BY <1>21 DEF Restart
<1>22. ASSUME Tick PROVE ActiveInv'
  BY <1>22 DEF Tick
<1>23. ASSUME Cease PROVE ActiveInv'
  BY <1>23 DEF Cease
<1>24. ASSUME UNCHANGED vars PROVE ActiveInv'
  BY <1>24 DEF vars
<1> QED
  BY <1>1, <1>2, <1>3, <1>4, <1>5, <1>6, <1>7, <1>8, <1>9, <1>10, <1>11,
     <1>12, <1>13, <1>14, <1>15, <1>16, <1>17, <1>18, <1>19, <1>20, <1>21,
     <1>22, <1>23, <1>24
  DEF Next, Round, RoundFails

\* The threads that change the tables run on one server at a time, for any servers
\* whose rounds are Timely, until a task is refused, a write is lost or one comes
\* after its lock has run out.
THEOREM UpdaterUnique == Timely /\ Spec => []OneUpdater
<1> DEFINE Inv == UntilLost /\ (amiss >= Refused \/ ActiveInv)
<1>1. Timely /\ Init => Inv
  BY BaseInit, LeaseInit DEF Init, ActiveInv, UntilLost
<1>2. Inv /\ UntilLost' /\ [Next]_vars => Inv'
  <2> SUFFICES ASSUME Inv, UntilLost', [Next]_vars, ~(amiss' >= Refused)
               PROVE  ActiveInv'
    OBVIOUS
  <2>1. amiss' >= amiss /\ amiss' \in Nat /\ amiss \in Nat
    BY FaultsKept DEF UntilLost, BaseInv, TypeOK
  <2>2. LeaseInv /\ ActiveInv /\ amiss' < Refused
    BY <2>1 DEF UntilLost, Refused, Lost
  <2> QED
    BY <2>2, ActiveNext
<1>3. Inv => OneUpdater
  <2> SUFFICES ASSUME Inv, amiss < Refused, NEW s \in Server, active[s]
               PROVE  record.leader = s
    BY DEF OneUpdater
  <2>1. LeaseInv /\ ActiveInv
    BY DEF UntilLost, BaseInv, TypeOK, Refused, Lost, Ceased
  <2>2. CASE role[s] = "kLeader"
    BY <2>1, <2>2 DEF LeaseInv, RoleInv
  <2>3. CASE pc[s] = "active"
    BY <2>1, <2>3 DEF LeaseInv, PromotionInv, AnswerInv, Answering
  <2> QED
    BY <2>1, <2>2, <2>3 DEF ActiveInv
<1> QED
  BY <1>1, <1>2, <1>3, UntilLostHolds, PTL DEF Spec
=============================================================================

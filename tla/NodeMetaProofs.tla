--------------------------- MODULE NodeMetaProofs ---------------------------
(***************************************************************************)
(* A data node that follows the meta servers, for any servers, tables and   *)
(* epochs.                                                                  *)
(***************************************************************************)
EXTENDS NodeMeta, TLAPS

\* The tables a meta server has read are at least as new as its epoch.
CacheInv ==
  /\ version <= Len(published)
  /\ \A m \in Meta :
       /\ cache[m].version <= version
       /\ \A t \in Table : /\ cache[m].stamp[t] >= cache[m].version
                           /\ cache[m].stamp[t] <= Len(published)

\* So are those in its answer, and once they are applied the node's too.
AnswerInv ==
  /\ worker.pc \in {"sent", "version"} => worker.from \in Meta
  /\ worker.pc = "version" =>
       worker.answer.version <= cache[worker.from].version
  /\ worker.pc \in {"answered", "parsed"} =>
       \A t \in Table : /\ worker.answer.stamp[t] >= worker.answer.version
                        /\ worker.answer.stamp[t] <= Len(published)
  /\ worker.pc = "parsed" =>
       \A t \in Table : seen[t] >= worker.answer.version

\* The task at work is one of those that are counted.
TaskInv == worker.pc # "idle" => tasks > 0

NodeInv == TypeOK /\ CacheInv /\ AnswerInv /\ TaskInv /\ ViewBacked /\ PullPending

\* What a worker holds has the types of its fields.
LEMMA WorkerTypes ==
  ASSUME TypeOK
  PROVE  /\ worker.pc \in {"idle", "sent", "version", "answered", "parsed"}
         /\ worker.from \in Meta \cup {NoMeta}
         /\ worker.answer.version \in Epoch
         /\ worker.answer.stamp \in [Table -> Epoch]
         /\ \A m \in Meta : /\ cache[m].version \in Epoch
                            /\ cache[m].stamp \in [Table -> Epoch]
         /\ NoAnswer \in Answer
BY NodeMetaAssumption DEF TypeOK, Answer, NoAnswer, Epoch

\* The invariant holds at the start, ...
LEMMA NodeInit == Init => NodeInv
<1> SUFFICES ASSUME Init PROVE NodeInv
  OBVIOUS
<1>1. NoAnswer \in Answer
  BY NodeMetaAssumption DEF Answer, NoAnswer, Epoch
<1>2. TypeOK
  <2>1. should_pull \in BOOLEAN /\ ceased \in BOOLEAN
    BY Zenon DEF Init
  <2> QED
    BY <1>1, <2>1, NodeMetaAssumption
    DEF Init, TypeOK, Epoch, Idle
<1>3. CacheInv
  BY NodeMetaAssumption DEF Init, CacheInv, NoAnswer
<1>4. AnswerInv /\ TaskInv /\ ViewBacked /\ PullPending
  BY NodeMetaAssumption
  DEF Init, AnswerInv, TaskInv, ViewBacked, PullPending, Idle
<1> QED
  BY <1>2, <1>3, <1>4 DEF NodeInv

\* ... and every step keeps it: the types, ...
LEMMA TypeNext == NodeInv /\ [Next]_vars => TypeOK'
<1> SUFFICES ASSUME NodeInv, [Next]_vars PROVE TypeOK'
  OBVIOUS
<1> USE NodeMetaAssumption, WorkerTypes
    DEF NodeInv, TypeOK, Epoch, Answer, Idle, meta
<1>1. ASSUME WriteTables PROVE TypeOK'
  BY <1>1 DEF WriteTables
<1>2. ASSUME WriteEpoch PROVE TypeOK'
  BY <1>2 DEF WriteEpoch
<1>3. ASSUME NEW m \in Meta, Refresh(m) PROVE TypeOK'
  BY <1>3 DEF Refresh
<1>4. ASSUME NEW m \in Meta, Lead(m) PROVE TypeOK'
  BY <1>4 DEF Lead
<1>5. ASSUME PingCmd PROVE TypeOK'
  BY <1>5 DEF PingCmd
<1>6. ASSUME RecvPing PROVE TypeOK'
  <2>1. should_pull' \in BOOLEAN
    BY <1>6, Zenon DEF RecvPing, TryUpdateEpoch
  <2> QED
    BY <1>6, <2>1 DEF RecvPing, TryUpdateEpoch, AddMetacmdTask
<1>7. ASSUME LosePing PROVE TypeOK'
  BY <1>7 DEF LosePing
<1>8. ASSUME SkipTask PROVE TypeOK'
  BY <1>8 DEF SkipTask
<1>9. ASSUME NEW m \in Meta, SendPull(m) PROVE TypeOK'
  BY <1>9 DEF SendPull
<1>10. ASSUME GetVersion PROVE TypeOK'
  <2>1. worker.from \in Meta
    BY <1>10 DEF GetVersion, AnswerInv
  <2>2. cache[worker.from].version \in 0..MaxEpoch
        /\ NoAnswer.stamp \in [Table -> 0..MaxEpoch]
    BY <2>1 DEF NoAnswer
  <2>3. worker'.answer \in Answer
    BY <1>10, <2>2 DEF GetVersion
  <2> QED
    BY <1>10, <2>3 DEF GetVersion
<1>11. ASSUME GetTables PROVE TypeOK'
  <2>1. worker.from \in Meta
    BY <1>11 DEF GetTables, AnswerInv
  <2>2. worker.answer.version \in 0..MaxEpoch
        /\ cache[worker.from].stamp \in [Table -> 0..MaxEpoch]
    BY <2>1
  <2>3. worker'.answer \in Answer
    BY <1>11, <2>2 DEF GetTables
  <2> QED
    BY <1>11, <2>3 DEF GetTables
<1>12. ASSUME ParsePullResponse PROVE TypeOK'
  <2>1. worker' \in [pc : {"idle", "sent", "version", "answered", "parsed"},
                     from : Meta \cup {NoMeta}, answer : Answer]
    BY <1>12 DEF ParsePullResponse
  <2>2. view' \in [Table -> Role] /\ seen' \in [Table -> Epoch]
    <3>1. CASE worker.answer.version <= epoch
      BY <1>12, <3>1 DEF ParsePullResponse
    <3>2. CASE ~(worker.answer.version <= epoch)
      <4>1. ASSUME NEW t \in Table, worker.answer.stamp[t] > 0
            PROVE  Assign(view[t], published[worker.answer.stamp[t]][t]) \in Role
        <5>1. worker.answer.stamp[t] \in 1..Len(published)
          BY <1>12, <4>1 DEF AnswerInv, ParsePullResponse
        <5>2. published[worker.answer.stamp[t]] \in [Table -> Assignment]
          BY <5>1
        <5>3. published[worker.answer.stamp[t]][t] \in Assignment
          BY <5>2
        <5> HIDE DEF TypeOK
        <5>4. view[t] \in Role
          BY DEF TypeOK
        <5> QED
          BY <5>3, <5>4 DEF Assign, Assignment
      <4>2. \A t \in Table : worker.answer.stamp[t] \in Nat
        OBVIOUS
      <4>3. view' = [t \in Table |->
                      IF worker.answer.stamp[t] = 0 THEN "none"
                      ELSE Assign(view[t],
                                  published[worker.answer.stamp[t]][t])]
            /\ seen' = worker.answer.stamp
        BY <1>12, <3>2 DEF ParsePullResponse
      <4>4. ASSUME NEW t \in Table PROVE view'[t] \in Role
        <5>1. CASE worker.answer.stamp[t] = 0
          BY <4>3, <5>1
        <5>2. CASE worker.answer.stamp[t] > 0
          BY <4>1, <4>3, <5>2
        <5> QED
          BY <4>2, <5>1, <5>2
      <4> QED
        BY <4>3, <4>4
    <3> QED
      BY <3>1, <3>2
  <2> QED
    BY <1>12, <2>1, <2>2 DEF ParsePullResponse
<1>13. ASSUME FinishPullMeta PROVE TypeOK'
  <2>1. should_pull' \in BOOLEAN
    BY <1>13, Zenon DEF FinishPullMeta
  <2> QED
    BY <1>13, <2>1 DEF FinishPullMeta, TaskInv
<1>14. ASSUME FetchFails PROVE TypeOK'
  BY <1>14 DEF FetchFails
<1>15. ASSUME RewriteFails PROVE TypeOK'
  BY <1>15 DEF RewriteFails
<1>16. ASSUME Restart PROVE TypeOK'
  <2>1. should_pull' \in BOOLEAN
    BY <1>16, Zenon DEF Restart, Started
  <2> QED
    BY <1>16, <2>1 DEF Restart, Started
<1>17. ASSUME Cease PROVE TypeOK'
  <2>1. ceased' \in BOOLEAN
    BY <1>17, Zenon DEF Cease
  <2> QED
    BY <1>17, <2>1 DEF Cease
<1>18. CASE UNCHANGED vars
  BY <1>18 DEF vars, meta
<1> QED
  BY <1>1, <1>2, <1>3, <1>4, <1>5, <1>6, <1>7, <1>8, <1>9, <1>10, <1>11, <1>12, <1>13, <1>14, <1>15, <1>16, <1>17, <1>18 DEF Next, Worker

\* ... the stamps of the caches, ...
LEMMA CacheNext == NodeInv /\ [Next]_vars => CacheInv'
<1> SUFFICES ASSUME NodeInv, [Next]_vars PROVE CacheInv'
  OBVIOUS
<1> USE WorkerTypes, NodeMetaAssumption
    DEF NodeInv, CacheInv, TypeOK, Epoch, meta
<1>1. ASSUME WriteTables PROVE CacheInv'
  BY <1>1 DEF WriteTables
<1>2. ASSUME WriteEpoch PROVE CacheInv'
  BY <1>2 DEF WriteEpoch
<1>3. ASSUME NEW m \in Meta, Refresh(m) PROVE CacheInv'
  <2>1. PICK stamp \in [Table -> {version, Len(published)}] :
          cache' = [cache EXCEPT ![m] = [version |-> version, stamp |-> stamp]]
    BY <1>3 DEF Refresh
  <2>2. ASSUME NEW n \in Meta
        PROVE  /\ cache'[n].version <= version
               /\ \A t \in Table : /\ cache'[n].stamp[t] >= cache'[n].version
                                   /\ cache'[n].stamp[t] <= Len(published)
    <3>1. CASE n = m
      <4>1. cache'[n] = [version |-> version, stamp |-> stamp]
        BY <2>1, <3>1
      <4>2. \A t \in Table : stamp[t] \in {version, Len(published)}
        OBVIOUS
      <4>3. version \in Nat /\ Len(published) \in Nat
        OBVIOUS
      <4>4. cache'[n].version = version /\ cache'[n].stamp = stamp
        <5> HIDE DEF NodeInv, CacheInv, TypeOK, Epoch, meta
        <5> QED
          BY ONLY <4>1
      <4>5. version <= Len(published)
        OBVIOUS
      <4> HIDE DEF NodeInv, CacheInv, TypeOK
      <4> QED
        BY <4>2, <4>3, <4>4, <4>5
    <3>2. CASE ~(n = m)
      BY <2>1, <3>2
    <3> QED
      BY <3>1, <3>2
  <2> QED
    BY <1>3, <2>2 DEF Refresh
<1>4. ASSUME NEW m \in Meta, Lead(m) PROVE CacheInv'
  BY <1>4 DEF Lead
<1>5. ASSUME PingCmd PROVE CacheInv'
  BY <1>5 DEF PingCmd
<1>6. ASSUME RecvPing PROVE CacheInv'
  BY <1>6 DEF RecvPing
<1>7. ASSUME LosePing PROVE CacheInv'
  BY <1>7 DEF LosePing
<1>8. ASSUME SkipTask PROVE CacheInv'
  BY <1>8 DEF SkipTask
<1>9. ASSUME NEW m \in Meta, SendPull(m) PROVE CacheInv'
  BY <1>9 DEF SendPull
<1>10. ASSUME GetVersion PROVE CacheInv'
  BY <1>10 DEF GetVersion
<1>11. ASSUME GetTables PROVE CacheInv'
  BY <1>11 DEF GetTables
<1>12. ASSUME ParsePullResponse PROVE CacheInv'
  BY <1>12 DEF ParsePullResponse
<1>13. ASSUME FinishPullMeta PROVE CacheInv'
  BY <1>13 DEF FinishPullMeta
<1>14. ASSUME FetchFails PROVE CacheInv'
  BY <1>14 DEF FetchFails
<1>15. ASSUME RewriteFails PROVE CacheInv'
  BY <1>15 DEF RewriteFails
<1>16. ASSUME Restart PROVE CacheInv'
  BY <1>16 DEF Restart
<1>17. ASSUME Cease PROVE CacheInv'
  BY <1>17 DEF Cease
<1>18. CASE UNCHANGED vars
  BY <1>18 DEF vars, meta
<1> QED
  BY <1>1, <1>2, <1>3, <1>4, <1>5, <1>6, <1>7, <1>8, <1>9, <1>10, <1>11, <1>12, <1>13, <1>14, <1>15, <1>16, <1>17, <1>18 DEF Next, Worker

\* ... those of the answer on its way, ...
LEMMA AnswerNext == NodeInv /\ [Next]_vars => AnswerInv'
<1> SUFFICES ASSUME NodeInv, [Next]_vars PROVE AnswerInv'
  OBVIOUS
<1> USE WorkerTypes, NodeMetaAssumption
    DEF NodeInv, AnswerInv, TypeOK, Epoch, meta
<1>1. ASSUME WriteTables PROVE AnswerInv'
  BY <1>1 DEF WriteTables
<1>2. ASSUME WriteEpoch PROVE AnswerInv'
  BY <1>2 DEF WriteEpoch
<1>3. ASSUME NEW m \in Meta, Refresh(m) PROVE AnswerInv'
  <2>1. \A n \in Meta : cache'[n].version >= cache[n].version
    BY <1>3 DEF Refresh
  <2> QED
    BY <1>3, <2>1 DEF Refresh
<1>4. ASSUME NEW m \in Meta, Lead(m) PROVE AnswerInv'
  BY <1>4 DEF Lead
<1>5. ASSUME PingCmd PROVE AnswerInv'
  BY <1>5 DEF PingCmd
<1>6. ASSUME RecvPing PROVE AnswerInv'
  BY <1>6 DEF RecvPing
<1>7. ASSUME LosePing PROVE AnswerInv'
  BY <1>7 DEF LosePing
<1>8. ASSUME SkipTask PROVE AnswerInv'
  BY <1>8 DEF SkipTask
<1>9. ASSUME NEW m \in Meta, SendPull(m) PROVE AnswerInv'
  BY <1>9 DEF SendPull
<1>10. ASSUME GetVersion PROVE AnswerInv'
  BY <1>10 DEF GetVersion
<1>11. ASSUME GetTables PROVE AnswerInv'
  BY <1>11 DEF GetTables, CacheInv
<1>12. ASSUME ParsePullResponse PROVE AnswerInv'
  <2>1. \A t \in Table : seen'[t] >= worker.answer.version
    BY <1>12 DEF ParsePullResponse, ViewBacked
  <2> QED
    BY <1>12, <2>1 DEF ParsePullResponse
<1>13. ASSUME FinishPullMeta PROVE AnswerInv'
  BY <1>13 DEF FinishPullMeta, Idle
<1>14. ASSUME FetchFails PROVE AnswerInv'
  BY <1>14 DEF FetchFails, Idle
<1>15. ASSUME RewriteFails PROVE AnswerInv'
  BY <1>15 DEF RewriteFails, Idle
<1>16. ASSUME Restart PROVE AnswerInv'
  BY <1>16 DEF Restart, Started, Idle
<1>17. ASSUME Cease PROVE AnswerInv'
  BY <1>17 DEF Cease
<1>18. CASE UNCHANGED vars
  BY <1>18 DEF vars, meta
<1> QED
  BY <1>1, <1>2, <1>3, <1>4, <1>5, <1>6, <1>7, <1>8, <1>9, <1>10, <1>11, <1>12, <1>13, <1>14, <1>15, <1>16, <1>17, <1>18 DEF Next, Worker

\* ... the tasks, ...
LEMMA TaskNext == NodeInv /\ [Next]_vars => TaskInv' /\ PullPending'
<1> SUFFICES ASSUME NodeInv, [Next]_vars PROVE TaskInv' /\ PullPending'
  OBVIOUS
<1> USE WorkerTypes, NodeMetaAssumption
    DEF NodeInv, TaskInv, PullPending, TypeOK, meta
<1>1. ASSUME WriteTables PROVE TaskInv' /\ PullPending'
  BY <1>1 DEF WriteTables
<1>2. ASSUME WriteEpoch PROVE TaskInv' /\ PullPending'
  BY <1>2 DEF WriteEpoch
<1>3. ASSUME NEW m \in Meta, Refresh(m) PROVE TaskInv' /\ PullPending'
  BY <1>3 DEF Refresh
<1>4. ASSUME NEW m \in Meta, Lead(m) PROVE TaskInv' /\ PullPending'
  BY <1>4 DEF Lead
<1>5. ASSUME PingCmd PROVE TaskInv' /\ PullPending'
  BY <1>5 DEF PingCmd
<1>6. ASSUME RecvPing PROVE TaskInv' /\ PullPending'
  BY <1>6 DEF RecvPing, TryUpdateEpoch, AddMetacmdTask
<1>7. ASSUME LosePing PROVE TaskInv' /\ PullPending'
  BY <1>7 DEF LosePing
<1>8. ASSUME SkipTask PROVE TaskInv' /\ PullPending'
  BY <1>8 DEF SkipTask
<1>9. ASSUME NEW m \in Meta, SendPull(m) PROVE TaskInv' /\ PullPending'
  BY <1>9 DEF SendPull
<1>10. ASSUME GetVersion PROVE TaskInv' /\ PullPending'
  BY <1>10 DEF GetVersion
<1>11. ASSUME GetTables PROVE TaskInv' /\ PullPending'
  BY <1>11 DEF GetTables
<1>12. ASSUME ParsePullResponse PROVE TaskInv' /\ PullPending'
  BY <1>12 DEF ParsePullResponse
<1>13. ASSUME FinishPullMeta PROVE TaskInv' /\ PullPending'
  BY <1>13 DEF FinishPullMeta, Idle
<1>14. ASSUME FetchFails PROVE TaskInv' /\ PullPending'
  BY <1>14 DEF FetchFails, Idle
<1>15. ASSUME RewriteFails PROVE TaskInv' /\ PullPending'
  BY <1>15 DEF RewriteFails, Idle
<1>16. ASSUME Restart PROVE TaskInv' /\ PullPending'
  BY <1>16 DEF Restart, Started, Idle
<1>17. ASSUME Cease PROVE TaskInv' /\ PullPending'
  BY <1>17 DEF Cease
<1>18. CASE UNCHANGED vars
  BY <1>18 DEF vars, meta
<1> QED
  BY <1>1, <1>2, <1>3, <1>4, <1>5, <1>6, <1>7, <1>8, <1>9, <1>10, <1>11, <1>12, <1>13, <1>14, <1>15, <1>16, <1>17, <1>18 DEF Next, Worker

\* ... and what the node makes of what it was told.
LEMMA ViewNext == NodeInv /\ [Next]_vars => ViewBacked'
<1> SUFFICES ASSUME NodeInv, [Next]_vars PROVE ViewBacked'
  OBVIOUS
<1> USE WorkerTypes, NodeMetaAssumption
    DEF NodeInv, ViewBacked, TypeOK, Epoch, meta
<1>1. ASSUME WriteTables PROVE ViewBacked'
  <2>1. PICK a \in [Table -> Assignment] : published' = Append(published, a)
    BY <1>1 DEF WriteTables
  <2>2. /\ Len(published') = Len(published) + 1
        /\ \A i \in 1..Len(published) : published'[i] = published[i]
    BY <2>1
  <2> QED
    BY <1>1, <2>2 DEF WriteTables
<1>2. ASSUME WriteEpoch PROVE ViewBacked'
  BY <1>2 DEF WriteEpoch
<1>3. ASSUME NEW m \in Meta, Refresh(m) PROVE ViewBacked'
  BY <1>3 DEF Refresh
<1>4. ASSUME NEW m \in Meta, Lead(m) PROVE ViewBacked'
  BY <1>4 DEF Lead
<1>5. ASSUME PingCmd PROVE ViewBacked'
  BY <1>5 DEF PingCmd
<1>6. ASSUME RecvPing PROVE ViewBacked'
  BY <1>6 DEF RecvPing
<1>7. ASSUME LosePing PROVE ViewBacked'
  BY <1>7 DEF LosePing
<1>8. ASSUME SkipTask PROVE ViewBacked'
  BY <1>8 DEF SkipTask
<1>9. ASSUME NEW m \in Meta, SendPull(m) PROVE ViewBacked'
  BY <1>9 DEF SendPull
<1>10. ASSUME GetVersion PROVE ViewBacked'
  BY <1>10 DEF GetVersion
<1>11. ASSUME GetTables PROVE ViewBacked'
  BY <1>11 DEF GetTables
<1>12. ASSUME ParsePullResponse PROVE ViewBacked'
  <2>1. CASE worker.answer.version <= epoch
    BY <1>12, <2>1 DEF ParsePullResponse
  <2>2. CASE ~(worker.answer.version <= epoch)
    BY <1>12, <2>2 DEF ParsePullResponse, AnswerInv, Assign
  <2> QED
    BY <2>1, <2>2
<1>13. ASSUME FinishPullMeta PROVE ViewBacked'
  BY <1>13 DEF FinishPullMeta, AnswerInv
<1>14. ASSUME FetchFails PROVE ViewBacked'
  BY <1>14 DEF FetchFails
<1>15. ASSUME RewriteFails PROVE ViewBacked'
  BY <1>15 DEF RewriteFails
<1>16. ASSUME Restart PROVE ViewBacked'
  BY <1>16 DEF Restart, Started
<1>17. ASSUME Cease PROVE ViewBacked'
  BY <1>17 DEF Cease
<1>18. CASE UNCHANGED vars
  BY <1>18 DEF vars, meta
<1> QED
  BY <1>1, <1>2, <1>3, <1>4, <1>5, <1>6, <1>7, <1>8, <1>9, <1>10, <1>11, <1>12, <1>13, <1>14, <1>15, <1>16, <1>17, <1>18 DEF Next, Worker

\* The whole invariant.
LEMMA NodeInvariant == Spec => []NodeInv
<1>1. NodeInv /\ [Next]_vars => NodeInv'
  BY TypeNext, CacheNext, AnswerNext, TaskNext, ViewNext DEF NodeInv
<1> QED
  BY <1>1, NodeInit, PTL DEF Spec

\* The node's state has its types: a role is never the mark of a partition
\* without a master.
THEOREM NodeTypes == Spec => []TypeOK
<1>1. NodeInv => TypeOK
  BY DEF NodeInv
<1> QED
  BY <1>1, NodeInvariant, PTL

\* Whatever server answers, and however late: what the node does in a table is
\* never older than the epoch it claims.
THEOREM RolesBacked == Spec => []ViewBacked
<1>1. NodeInv => ViewBacked
  BY DEF NodeInv
<1> QED
  BY <1>1, NodeInvariant, PTL

\* Whatever fails: a node that knows that it is behind has a task that pulls.
THEOREM PullScheduled == Spec => []PullPending
<1>1. NodeInv => PullPending
  BY DEF NodeInv
<1> QED
  BY <1>1, NodeInvariant, PTL
=============================================================================

-------------------------- MODULE WritePathProofs --------------------------
(* Proofs about the write path of a partition, for any clients, keys,       *)
(* values, commands and file size, any failures and any crashes.            *)
EXTENDS WritePath, WellFoundedInduction, TLAPS

-----------------------------------------------------------------------------
(* The inductive invariant.                                                *)

Pc == {"idle", "suspend", "record", "do", "end", "log"}

Cmd == [pc : Pc, req : Request \cup {NoRequest}, live : BOOLEAN, ok : BOOLEAN,
        found : SUBSET Key, over : SUBSET Key]

Save == [pc : {"idle", "created", "point", "files"}, live : BOOLEAN, items : Seq(Request)]

DataOK ==
  /\ role \in {"single", "master", "slave"} /\ pstate \in {"active", "stuck"}
  /\ waiting \in BOOLEAN
  /\ db \in Database /\ replica \in Database
  /\ cmd \in [Thread -> Cmd]
  /\ tail \in Seq(Request) /\ Len(tail) < MaxTail
  /\ save \in Save
  /\ synced \in [there : BOOLEAN, db : Database]
  /\ suspect \subseteq Key /\ torn \subseteq Key

\* How far a command can be: only a scan is at "end", only a write at "log", and
\* nobody has lost its database.  Of the keys it is about it found some and shares
\* some.
StageInv ==
  \A t \in Thread :
    /\ cmd[t].live
    /\ InState(t) => cmd[t].req \in Request
    /\ cmd[t].pc = "end" => cmd[t].req.kind \in {"deltag", "list"} /\ cmd[t].ok
    /\ cmd[t].pc = "log" => cmd[t].req.kind # "list"
    /\ cmd[t].found \subseteq cmd[t].req.keys
    /\ cmd[t].over \subseteq cmd[t].req.keys

\* state_rw_: clients work for a master, for their writes one that is not stuck,
\* the receiver works for a slave.
RoleInv ==
  /\ \A w \in Worker : InState(w) =>
       role = "master" /\ (IsWrite(cmd[w].req) => pstate # "stuck")
  /\ InState(Receiver) => role = "slave"

\* mutex_record_: two clients with the same name are not both inside.
RecordInv ==
  \A t, u \in Worker : t # u /\ HoldsRecord(t) /\ HoldsRecord(u) =>
    ExtractKey(cmd[t].req) # ExtractKey(cmd[u].req)

\* Two commands between database and binlog know of the keys they share, and those
\* keys are suspect.
OverInv ==
  \A t \in Thread : Open(t) =>
    /\ cmd[t].over \subseteq suspect
    /\ \A u \in Thread \ {t} : Open(u) => cmd[t].req.keys \cap cmd[u].req.keys \subseteq cmd[t].over

\* The keys that a command has to itself have the value it wrote, or that a scan
\* did not find.
WroteInv ==
  \A t \in Thread, k \in Key : Open(t) /\ k \in cmd[t].req.keys \ cmd[t].over =>
    /\ cmd[t].pc = "log" /\ cmd[t].ok => db[k] = cmd[t].req.value
    /\ cmd[t].pc = "end" /\ k \notin cmd[t].found => db[k] = NoValue

\* A command has written k to the database and has its item still to log.
Owed(k) == \E t \in Thread : cmd[t].pc = "log" /\ cmd[t].ok /\ k \in cmd[t].req.keys

\* Database and replica differ at a key only by an item that is still owed, and
\* the slave that began with the snapshot differs from the replica only so.
AgreeInv ==
  \A k \in Key \ (suspect \cup torn) :
    Owed(k) \/ (db[k] = replica[k] /\ (synced.there => synced.db[k] = replica[k]))

\* Who applies the items of the file once more changes nothing.
ReplayInv ==
  /\ Replay(replica, tail) = replica
  /\ save.pc = "point" => Replay(replica, save.items) = replica

IInv == /\ DataOK /\ StageInv /\ RoleInv /\ RecordInv /\ OverInv /\ WroteInv
        /\ AgreeInv /\ ReplayInv

-----------------------------------------------------------------------------
(* Replay.                                                                 *)

\* A set of numbers that has 0 and every successor has all of them.
LEMMA NatInd ==
  ASSUME NEW G, 0 \in G, \A n \in Nat : n \in G => n + 1 \in G
  PROVE  Nat \subseteq G
<1> DEFINE Bad == Nat \ G
           R == OpToRel(<, Nat)
<1> SUFFICES ASSUME Bad # {} PROVE FALSE
  OBVIOUS
<1>1. PICK n \in Bad : \A m \in Bad : ~(<<m, n>> \in R)
  <2>1. Bad \subseteq Nat
    OBVIOUS
  <2> HIDE DEF Bad
  <2> QED BY <2>1, WFMin, NatLessThanWellFounded, Zenon
<1>2. n \in Nat /\ n # 0 /\ n - 1 \in Nat /\ (n - 1) + 1 = n /\ n - 1 < n
  OBVIOUS
<1>3. n - 1 \in Bad
  BY <1>2
<1>4. <<n - 1, n>> \in R
  BY <1>2, Zenon DEF OpToRel
<1> HIDE DEF R
<1> QED BY <1>1, <1>3, <1>4

\* f has the databases after each of the first n items.
Trace(d, items, f, n) ==
  f = [i \in 0 .. n |-> IF i = 0 THEN d ELSE Effect(f[i - 1], items[i])]

LEMMA TraceExists ==
  ASSUME NEW d, NEW items, NEW n \in Nat
  PROVE  \E f : Trace(d, items, f, n)
<1> DEFINE G == {m \in Nat : \E f : Trace(d, items, f, m)}
<1>1. 0 \in G
  <2> DEFINE f == [i \in 0 .. 0 |-> d]
  <2>1. Trace(d, items, f, 0)
    BY DEF Trace
  <2> QED BY <2>1
<1>2. ASSUME NEW m \in Nat, m \in G PROVE m + 1 \in G
  <2>1. PICK f : Trace(d, items, f, m)
    BY <1>2
  <2> DEFINE last == Effect(f[m], items[m + 1])
             g == [i \in 0 .. (m + 1) |-> IF i = m + 1 THEN last ELSE f[i]]
  <2>2. \A i \in 0 .. m : f[i] = IF i = 0 THEN d ELSE Effect(f[i - 1], items[i])
    BY <2>1 DEF Trace
  <2>3. ASSUME NEW i \in 0 .. (m + 1)
        PROVE  g[i] = IF i = 0 THEN d ELSE Effect(g[i - 1], items[i])
    <3>1. CASE i = m + 1
      <4>1. m \in 0 .. (m + 1) /\ m # m + 1 /\ i # 0 /\ i - 1 = m
        BY <3>1
      <4>2. g[m] = f[m] /\ g[i] = last
        BY <3>1, <4>1
      <4> QED BY <3>1, <4>1, <4>2
    <3>2. CASE i # m + 1
      <4>1. i \in 0 .. m
        BY <3>2
      <4>2. g[i] = f[i]
        BY <3>2
      <4>3. i # 0 => i - 1 \in 0 .. (m + 1) /\ i - 1 # m + 1
        BY <4>1
      <4>4. i # 0 => g[i - 1] = f[i - 1]
        BY <4>3
      <4> QED BY <2>2, <4>1, <4>2, <4>4
    <3> QED BY <3>1, <3>2
  <2>4. g = [i \in 0 .. (m + 1) |-> g[i]]
    OBVIOUS
  <2> HIDE DEF g
  <2>5. Trace(d, items, g, m + 1)
    BY <2>3, <2>4 DEF Trace
  <2> QED BY <2>5
<1>3. Nat \subseteq G
  <2> HIDE DEF G
  <2> QED BY <1>1, <1>2, NatInd
<1> QED BY <1>3

SameItems(s, r, n) == \A i \in 1 .. n : s[i] = r[i]
SameAt(d, e, k) == d[k] = e[k]

\* The databases at a key depend on nothing but that key and the items so far.
LEMMA TraceSame ==
  ASSUME NEW d, NEW e, NEW s, NEW r, NEW f, NEW g, NEW n \in Nat, NEW b \in Nat, n <= b,
         Trace(d, s, f, n), Trace(e, r, g, b), SameItems(s, r, n)
  PROVE  \A k \in Key : SameAt(d, e, k) => SameAt(f[n], g[n], k)
<1> SUFFICES ASSUME NEW k \in Key, d[k] = e[k] PROVE f[n][k] = g[n][k]
  BY DEF SameAt
<1> DEFINE G == {m \in Nat : m <= n => f[m][k] = g[m][k]}
<1>0. /\ \A i \in 0 .. n : f[i] = IF i = 0 THEN d ELSE Effect(f[i - 1], s[i])
      /\ \A i \in 0 .. b : g[i] = IF i = 0 THEN e ELSE Effect(g[i - 1], r[i])
  BY DEF Trace
<1>1. 0 \in G
  BY <1>0
<1>2. ASSUME NEW m \in Nat, m \in G PROVE m + 1 \in G
  <2> SUFFICES ASSUME m + 1 <= n PROVE f[m + 1][k] = g[m + 1][k]
    OBVIOUS
  <2>1. /\ m <= n /\ m + 1 \in 0 .. n /\ m + 1 \in 0 .. b /\ m + 1 # 0 /\ (m + 1) - 1 = m
        /\ m + 1 \in 1 .. n
    OBVIOUS
  <2>2. f[m + 1] = Effect(f[m], s[m + 1]) /\ g[m + 1] = Effect(g[m], r[m + 1])
    BY <1>0, <2>1
  <2>3. f[m][k] = g[m][k] /\ s[m + 1] = r[m + 1]
    BY <1>2, <2>1 DEF SameItems
  <2> QED BY <2>2, <2>3 DEF Effect
<1>3. Nat \subseteq G
  <2> HIDE DEF G
  <2> QED BY <1>1, <1>2, NatInd
<1> QED BY <1>3

\* Replay is the end of a trace.
LEMMA ReplayTrace ==
  ASSUME NEW d, NEW items \in Seq(Request)
  PROVE  \E f : Trace(d, items, f, Len(items)) /\ Replay(d, items) = f[Len(items)]
<1> DEFINE f == CHOOSE f : Trace(d, items, f, Len(items))
<1>1. Trace(d, items, f, Len(items))
  BY TraceExists
<1>2. Replay(d, items) = f[Len(items)]
  BY DEF Replay, Trace
<1> QED BY <1>1, <1>2

\* What the items do to a key does not depend on the others.
LEMMA ReplayAtKey ==
  ASSUME NEW d, NEW e, NEW items \in Seq(Request), NEW k \in Key, d[k] = e[k]
  PROVE  Replay(d, items)[k] = Replay(e, items)[k]
<1>1. PICK f : Trace(d, items, f, Len(items)) /\ Replay(d, items) = f[Len(items)]
  BY ReplayTrace
<1>2. PICK g : Trace(e, items, g, Len(items)) /\ Replay(e, items) = g[Len(items)]
  BY ReplayTrace
<1>3. Len(items) \in Nat /\ Len(items) <= Len(items) /\ SameItems(items, items, Len(items))
  BY DEF SameItems
<1>4. SameAt(d, e, k)
  BY DEF SameAt
<1>5. SameAt(f[Len(items)], g[Len(items)], k)
  BY <1>1, <1>2, <1>3, <1>4, TraceSame
<1> QED BY <1>1, <1>2, <1>5 DEF SameAt

LEMMA ReplayEmpty == ASSUME NEW d PROVE Replay(d, << >>) = d
<1>1. << >> \in Seq(Request) /\ Len(<< >>) = 0
  OBVIOUS
<1>2. PICK f : Trace(d, << >>, f, 0) /\ Replay(d, << >>) = f[0]
  BY <1>1, ReplayTrace
<1> QED BY <1>2 DEF Trace

LEMMA ReplayAppend ==
  ASSUME NEW d, NEW items \in Seq(Request), NEW req \in Request
  PROVE  Replay(d, Append(items, req)) = Effect(Replay(d, items), req)
<1> DEFINE n == Len(items)
           all == Append(items, req)
<1>1. /\ all \in Seq(Request) /\ Len(all) = n + 1 /\ all[n + 1] = req /\ n \in Nat
      /\ \A i \in 1 .. n : items[i] = all[i]
  OBVIOUS
<1>2. PICK f : Trace(d, items, f, n) /\ Replay(d, items) = f[n]
  BY ReplayTrace
<1>3. PICK g : Trace(d, all, g, n + 1) /\ Replay(d, all) = g[n + 1]
  BY <1>1, ReplayTrace
<1> HIDE DEF n, all
<1>4. n <= n /\ n <= n + 1 /\ n + 1 \in Nat /\ n + 1 \in 0 .. (n + 1) /\ n + 1 # 0 /\ (n + 1) - 1 = n
  BY <1>1
<1>5. ASSUME NEW k \in Key PROVE f[n][k] = g[n][k]
  <2>1. SameItems(items, all, n)
    BY <1>1 DEF SameItems
  <2>2. SameAt(d, d, k)
    BY DEF SameAt
  <2>3. SameAt(f[n], g[n], k)
    BY <1>1, <1>2, <1>3, <1>4, <2>1, <2>2, TraceSame
  <2> QED BY <2>3 DEF SameAt
<1>6. \A i \in 0 .. (n + 1) : g[i] = IF i = 0 THEN d ELSE Effect(g[i - 1], all[i])
  BY <1>3 DEF Trace
<1>7. g[n + 1] = Effect(g[n], req)
  BY <1>1, <1>4, <1>6
<1>8. Effect(g[n], req) = Effect(f[n], req)
  BY <1>5 DEF Effect
<1> QED BY <1>2, <1>3, <1>7, <1>8 DEF all

\* A file of items that changes nothing does so with one item more.
LEMMA ReplayLogged ==
  ASSUME NEW d \in Database, NEW items \in Seq(Request), NEW req \in Request,
         Replay(d, items) = d
  PROVE  Replay(Effect(d, req), Append(items, req)) = Effect(d, req)
<1> DEFINE e == Effect(d, req)
<1>1. Replay(e, Append(items, req)) = Effect(Replay(e, items), req)
  BY ReplayAppend
<1>2. ASSUME NEW k \in Key, k \notin req.keys PROVE Replay(e, items)[k] = d[k]
  <2>1. e[k] = d[k]
    BY <1>2 DEF Effect
  <2> HIDE DEF e
  <2>2. Replay(e, items)[k] = Replay(d, items)[k]
    BY <2>1, ReplayAtKey
  <2> QED BY <2>2
<1>3. Effect(Replay(e, items), req) = e
  BY <1>2 DEF Effect
<1> QED BY <1>1, <1>3

-----------------------------------------------------------------------------
(* Requests and commands.                                                  *)

LEMMA ReqFacts ==
  ASSUME NEW req \in Request \cup {NoRequest}
  PROVE  /\ req.keys \subseteq Key /\ req.value \in Value \cup {NoValue}
         /\ req.kind \in {"deltag", "flush"} => req.value = NoValue
         /\ req.kind = "flush" => req.keys = Key /\ ExtractKey(req) = NoName
         /\ req \in Request => req.kind \in {"set", "del", "batch", "deltag", "list", "flush"}
<1>1. CASE req = NoRequest
  <2>1. req.kind = "none" /\ req.keys = {} /\ req.value = NoValue
    BY <1>1 DEF NoRequest
  <2>2. ASSUME req \in Request PROVE req.kind # "none"
    BY <2>2 DEF Request
  <2> QED BY <2>1, <2>2
<1>2. CASE req \in Request
  BY <1>2, WritePathAssumption DEF Request, ExtractKey
<1> QED BY <1>1, <1>2

LEMMA CmdFacts ==
  ASSUME DataOK, NEW t \in Thread
  PROVE  /\ cmd[t] \in Cmd /\ cmd[t].pc \in Pc /\ cmd[t].req \in Request \cup {NoRequest}
         /\ cmd[t].req.keys \subseteq Key /\ cmd[t].req.value \in Value \cup {NoValue}
         /\ cmd[t].live \in BOOLEAN /\ cmd[t].ok \in BOOLEAN
         /\ cmd[t].found \subseteq Key /\ cmd[t].over \subseteq Key
<1>1. cmd[t] \in Cmd
  BY DEF DataOK
<1> QED BY <1>1, ReqFacts DEF Cmd

LEMMA IdleFacts ==
  /\ Idle \in Cmd /\ Idle.pc = "idle" /\ Idle.req = NoRequest /\ Idle.live
  /\ Idle.found = {} /\ Idle.over = {} /\ NoRequest.keys = {} /\ NoRequest.kind = "none"
  BY DEF Idle, Cmd, Pc, NoRequest

\* A step of one command that leaves the rest of it as it was.
LEMMA AtFacts ==
  ASSUME DataOK, NEW t \in Thread, NEW p \in Pc, At(t, p)
  PROVE  /\ cmd' \in [Thread -> Cmd] /\ \A u \in Thread \ {t} : cmd'[u] = cmd[u]
         /\ cmd'[t] = [cmd[t] EXCEPT !.pc = p]
         /\ cmd'[t].pc = p /\ cmd'[t].req = cmd[t].req /\ cmd'[t].live = cmd[t].live
         /\ cmd'[t].ok = cmd[t].ok /\ cmd'[t].found = cmd[t].found /\ cmd'[t].over = cmd[t].over
<1>1. cmd[t] \in Cmd
  BY CmdFacts
<1>2. cmd'[t] = [cmd[t] EXCEPT !.pc = p] /\ \A u \in Thread \ {t} : cmd'[u] = cmd[u]
  BY DEF At, DataOK
<1>3. /\ cmd'[t].pc = p /\ cmd'[t].req = cmd[t].req /\ cmd'[t].live = cmd[t].live
      /\ cmd'[t].ok = cmd[t].ok /\ cmd'[t].found = cmd[t].found /\ cmd'[t].over = cmd[t].over
      /\ cmd'[t] \in Cmd
  BY <1>1, <1>2 DEF Cmd
<1>4. cmd' \in [Thread -> Cmd]
  BY <1>2, <1>3 DEF At, DataOK
<1> QED BY <1>2, <1>3, <1>4

\* A thread that comes to rest.
LEMMA RestFacts ==
  ASSUME DataOK, NEW t \in Thread, cmd' = [cmd EXCEPT ![t] = Idle]
  PROVE  /\ cmd' \in [Thread -> Cmd] /\ \A u \in Thread \ {t} : cmd'[u] = cmd[u]
         /\ cmd'[t] = Idle
  BY IdleFacts DEF DataOK

\* A client's command and the receiver's are never under way together, and two
\* clients that write have different names.
LEMMA Apart ==
  ASSUME DataOK, RoleInv, RecordInv, NEW t \in Thread, NEW u \in Thread \ {t},
         IsWrite(cmd[t].req), cmd[t].pc \in {"do", "end", "log"},
         IsWrite(cmd[u].req), cmd[u].pc \in {"do", "end", "log"}
  PROVE  /\ t \in Worker /\ u \in Worker
         /\ ExtractKey(cmd[t].req) # ExtractKey(cmd[u].req)
<1>1. InState(t) /\ InState(u)
  BY DEF InState
<1>2. t \in Worker /\ u \in Worker
  BY <1>1, WritePathAssumption DEF RoleInv, Thread
<1> QED BY <1>2 DEF RecordInv, HoldsRecord

\* A step of one command outside the database and the binlog.
LEMMA QuietKeeps ==
  ASSUME IInv, NEW t \in Thread, cmd' \in [Thread -> Cmd],
         \A u \in Thread \ {t} : cmd'[u] = cmd[u],
         ~Open(t), cmd[t].pc # "log", cmd'[t].pc \notin {"end", "log"},
         UNCHANGED <<state, db, log, save, marks>>
  PROVE  DataOK' /\ OverInv' /\ WroteInv' /\ AgreeInv' /\ ReplayInv'
<1> USE DEF IInv
<1>1. UNCHANGED <<role, pstate, waiting, db, tail, replica, synced, save, suspect, torn>>
  BY DEF state, log, marks
<1>2. DataOK'
  BY <1>1 DEF DataOK
<1>3. \A u \in Thread : Open(u)' <=> Open(u)
  BY DEF Open
<1>4. \A u \in Thread : Open(u) => cmd'[u] = cmd[u]
  OBVIOUS
<1>5. OverInv'
  BY <1>1, <1>3, <1>4 DEF OverInv
<1>6. WroteInv'
  BY <1>1, <1>3, <1>4 DEF WroteInv
<1>7. \A k \in Key : Owed(k) => Owed(k)'
  <2> SUFFICES ASSUME NEW k \in Key, Owed(k) PROVE Owed(k)'
    OBVIOUS
  <2>1. PICK u \in Thread : cmd[u].pc = "log" /\ cmd[u].ok /\ k \in cmd[u].req.keys
    BY DEF Owed
  <2>2. cmd'[u] = cmd[u]
    BY <2>1
  <2> QED BY <2>1, <2>2 DEF Owed
<1>8. AgreeInv'
  BY <1>1, <1>7 DEF AgreeInv
<1>9. ReplayInv'
  BY <1>1 DEF ReplayInv
<1> QED BY <1>2, <1>5, <1>6, <1>8, <1>9

-----------------------------------------------------------------------------
(* Commands begin, take their locks and end.                                *)

\* A command that begins is in StageInv, and holds nothing yet.
LEMMA BeginFacts ==
  ASSUME DataOK, NEW t \in Thread, NEW req \in Request, Begin(t, req)
  PROVE  /\ cmd' \in [Thread -> Cmd] /\ \A u \in Thread \ {t} : cmd'[u] = cmd[u]
         /\ cmd'[t].pc \in {"record", "suspend"} /\ cmd'[t].req = req /\ cmd'[t].live
         /\ cmd'[t].found = {} /\ cmd'[t].over = {}
<1> DEFINE c == [Idle EXCEPT !.pc = IF IsSuspend(req) THEN "record" ELSE "suspend", !.req = req]
<1>1. /\ c \in Cmd /\ c.pc \in {"record", "suspend"} /\ c.req = req /\ c.live
      /\ c.found = {} /\ c.over = {}
  BY DEF Idle, Cmd, Pc
<1>2. cmd' = [cmd EXCEPT ![t] = c]
  BY DEF Begin
<1> HIDE DEF c
<1> QED BY <1>1, <1>2 DEF DataOK

LEMMA BeginStep ==
  ASSUME IInv, NEW t \in Thread, NEW req \in Request, cmd[t].pc = "idle", Begin(t, req),
         UNCHANGED <<state, db, log, save, marks>>,
         IF t = Receiver THEN role = "slave"
         ELSE role = "master" /\ (IsWrite(req) => pstate # "stuck")
  PROVE  IInv'
<1> USE DEF IInv
<1>1. /\ cmd' \in [Thread -> Cmd] /\ \A u \in Thread \ {t} : cmd'[u] = cmd[u]
      /\ cmd'[t].pc \in {"record", "suspend"} /\ cmd'[t].req = req /\ cmd'[t].live
      /\ cmd'[t].found = {} /\ cmd'[t].over = {}
  BY BeginFacts
<1>2. DataOK' /\ OverInv' /\ WroteInv' /\ AgreeInv' /\ ReplayInv'
  BY <1>1, QuietKeeps DEF Open
<1>3. StageInv'
  BY <1>1 DEF StageInv, InState
<1>4. UNCHANGED <<role, pstate>>
  BY DEF state
<1>5. RoleInv'
  BY <1>1, <1>4, WritePathAssumption DEF RoleInv, InState, Thread
<1>6. RecordInv'
  BY <1>1 DEF RecordInv, HoldsRecord, Thread
<1> QED BY <1>2, <1>3, <1>5, <1>6

LEMMA LockStep ==
  ASSUME IInv, NEW t \in Thread, LockSuspend(t) \/ LockRecord(t) PROVE IInv'
<1> USE DEF IInv
<1>1. PICK p \in {"record", "do"} : At(t, p) /\ (p = "do" => LockRecord(t))
  BY DEF LockSuspend, LockRecord
<1>2. cmd[t].pc \in {"suspend", "record"} /\ UNCHANGED <<state, db, log, save, marks>>
  BY DEF LockSuspend, LockRecord
<1>3. /\ cmd' \in [Thread -> Cmd] /\ \A u \in Thread \ {t} : cmd'[u] = cmd[u]
      /\ cmd'[t].pc = p /\ cmd'[t].req = cmd[t].req /\ cmd'[t].live = cmd[t].live
      /\ cmd'[t].found = cmd[t].found /\ cmd'[t].over = cmd[t].over
  BY <1>1, AtFacts DEF Pc
<1>4. DataOK' /\ OverInv' /\ WroteInv' /\ AgreeInv' /\ ReplayInv'
  BY <1>2, <1>3, QuietKeeps DEF Open
<1>5. StageInv'
  BY <1>2, <1>3 DEF StageInv, InState
<1>6. RoleInv'
  BY <1>2, <1>3 DEF RoleInv, InState, Thread, state
<1>7. RecordInv'
  BY <1>1, <1>3 DEF RecordInv, HoldsRecord, Thread, LockRecord
<1> QED BY <1>4, <1>5, <1>6, <1>7

LEMMA EndListStep ==
  ASSUME IInv, NEW t \in Thread, EndList(t) PROVE IInv'
<1> USE DEF IInv
<1>1. /\ cmd[t].pc = "end" /\ cmd[t].req.kind = "list"
      /\ UNCHANGED <<state, db, log, save, marks>>
  BY DEF EndList
<1>2. /\ cmd' \in [Thread -> Cmd] /\ \A u \in Thread \ {t} : cmd'[u] = cmd[u]
  BY RestFacts DEF EndList
<1>3. cmd'[t] = Idle
  BY RestFacts DEF EndList
<1>4. DataOK' /\ OverInv' /\ WroteInv' /\ AgreeInv' /\ ReplayInv'
  BY <1>1, <1>2, <1>3, IdleFacts, QuietKeeps DEF Open, IsWrite
<1>5. StageInv'
  BY <1>2, <1>3, IdleFacts DEF StageInv, InState
<1>6. RoleInv'
  BY <1>1, <1>2, <1>3, IdleFacts DEF RoleInv, InState, Thread, state
<1>7. RecordInv'
  BY <1>2, <1>3, IdleFacts DEF RecordInv, HoldsRecord, Thread
<1> QED BY <1>4, <1>5, <1>6, <1>7

-----------------------------------------------------------------------------
(* Commands enter the database.                                             *)

LEMMA EnterFacts ==
  ASSUME DataOK, StageInv, RoleInv, RecordInv, NEW t \in Thread, cmd[t].pc = "do",
         NEW p \in {"log", "end"}, NEW ok \in BOOLEAN, NEW found \in SUBSET cmd[t].req.keys,
         Enter(t, p, ok, found)
  PROVE  /\ cmd' \in [Thread -> Cmd]
         /\ cmd'[t].pc = p /\ cmd'[t].req = cmd[t].req /\ cmd'[t].live = cmd[t].live
         /\ cmd'[t].ok = ok /\ cmd'[t].found = found /\ cmd'[t].over = Overlap(t)
         /\ \A u \in Thread \ {t} :
              /\ cmd'[u].pc = cmd[u].pc /\ cmd'[u].req = cmd[u].req
              /\ cmd'[u].live = cmd[u].live /\ cmd'[u].ok = cmd[u].ok
              /\ cmd'[u].found = cmd[u].found /\ cmd[u].over \subseteq cmd'[u].over
              /\ cmd'[u].over \subseteq cmd[u].over \cup (Overlap(t) \cap cmd[u].req.keys)
              /\ Open(u) /\ IsWrite(cmd[t].req) =>
                   /\ cmd[u].req.keys \cap cmd[t].req.keys \subseteq Overlap(t)
                   /\ cmd[u].req.keys \cap cmd[t].req.keys \subseteq cmd'[u].over
         /\ Overlap(t) \subseteq cmd[t].req.keys /\ suspect' = suspect \cup Overlap(t)
<1>1. Overlap(t) \subseteq cmd[t].req.keys /\ Overlap(t) \subseteq Key
  BY CmdFacts DEF Overlap
<1>2. ASSUME NEW u \in Thread \ {t}, Open(u), IsWrite(cmd[t].req)
      PROVE  cmd[u].req.keys \cap cmd[t].req.keys \subseteq Overlap(t)
  <2>1. ExtractKey(cmd[u].req) # ExtractKey(cmd[t].req)
    BY <1>2, Apart DEF Open
  <2> QED BY <1>2, <2>1 DEF Overlap
<1> DEFINE a == [cmd[t] EXCEPT !.pc = p, !.ok = ok, !.found = found, !.over = Overlap(t)]
           b(u) == [cmd[u] EXCEPT !.over = @ \cup (Overlap(t) \cap cmd[u].req.keys)]
<1>3. /\ cmd' = [u \in Thread |-> IF u = t THEN a ELSE IF Open(u) THEN b(u) ELSE cmd[u]]
      /\ suspect' = suspect \cup Overlap(t)
  BY DEF Enter
<1>4. /\ a \in Cmd /\ a.pc = p /\ a.req = cmd[t].req /\ a.live = cmd[t].live
      /\ a.ok = ok /\ a.found = found /\ a.over = Overlap(t)
  <2>1. cmd[t] \in Cmd /\ found \subseteq Key /\ p \in Pc
    BY CmdFacts DEF Pc
  <2> HIDE DEF Overlap
  <2> QED BY <1>1, <2>1 DEF Cmd
<1>5. ASSUME NEW u \in Thread
      PROVE  /\ b(u) \in Cmd /\ b(u).pc = cmd[u].pc /\ b(u).req = cmd[u].req
             /\ b(u).live = cmd[u].live /\ b(u).ok = cmd[u].ok /\ b(u).found = cmd[u].found
             /\ b(u).over = cmd[u].over \cup (Overlap(t) \cap cmd[u].req.keys)
  <2>1. cmd[u] \in Cmd
    BY CmdFacts
  <2> QED BY <1>1, <2>1 DEF Cmd
<1> HIDE DEF a, b
<1>6. cmd' \in [Thread -> Cmd]
  BY <1>3, <1>4, <1>5, CmdFacts
<1>7. cmd'[t] = a
  BY <1>3
<1>8. ASSUME NEW u \in Thread \ {t}
      PROVE  /\ cmd'[u].pc = cmd[u].pc /\ cmd'[u].req = cmd[u].req
             /\ cmd'[u].live = cmd[u].live /\ cmd'[u].ok = cmd[u].ok
             /\ cmd'[u].found = cmd[u].found /\ cmd[u].over \subseteq cmd'[u].over
             /\ cmd'[u].over \subseteq cmd[u].over \cup (Overlap(t) \cap cmd[u].req.keys)
             /\ Open(u) /\ IsWrite(cmd[t].req) =>
                  /\ cmd[u].req.keys \cap cmd[t].req.keys \subseteq Overlap(t)
                  /\ cmd[u].req.keys \cap cmd[t].req.keys \subseteq cmd'[u].over
  <2>1. CASE Open(u)
    <3>1. cmd'[u] = b(u)
      BY <1>3, <2>1
    <3> QED BY <1>2, <1>5, <2>1, <3>1
  <2>2. CASE ~Open(u)
    <3>1. cmd'[u] = cmd[u]
      BY <1>3, <2>2
    <3> QED BY <2>2, <3>1
  <2> QED BY <2>1, <2>2
<1> QED BY <1>1, <1>3, <1>4, <1>6, <1>7, <1>8

LEMMA EnterStep ==
  ASSUME IInv, NEW t \in Thread, cmd[t].pc = "do",
         NEW p \in {"log", "end"}, NEW ok \in BOOLEAN, NEW found \in SUBSET cmd[t].req.keys,
         Enter(t, p, ok, found), UNCHANGED <<state, log, save, torn>>, db' \in Database,
         p = "log" => IsWrite(cmd[t].req),
         p = "end" => cmd[t].req.kind \in {"deltag", "list"} /\ ok,
         (p = "log" /\ ok) \/ db' = db,
         \A k \in Key \ cmd[t].req.keys : db'[k] = db[k],
         p = "log" /\ ok => \A k \in cmd[t].req.keys : db'[k] = cmd[t].req.value,
         p = "end" => \A k \in cmd[t].req.keys \ found : db[k] = NoValue
  PROVE  IInv'
<1> USE DEF IInv
<1> DEFINE Lap == Overlap(t)
<1>1. /\ cmd' \in [Thread -> Cmd]
      /\ cmd'[t].pc = p /\ cmd'[t].req = cmd[t].req /\ cmd'[t].live = cmd[t].live
      /\ cmd'[t].ok = ok /\ cmd'[t].found = found /\ cmd'[t].over = Lap
      /\ Lap \subseteq cmd[t].req.keys /\ suspect' = suspect \cup Lap
  BY EnterFacts
<1>2. \A u \in Thread \ {t} :
        /\ cmd'[u].pc = cmd[u].pc /\ cmd'[u].req = cmd[u].req
        /\ cmd'[u].live = cmd[u].live /\ cmd'[u].ok = cmd[u].ok
        /\ cmd'[u].found = cmd[u].found /\ cmd[u].over \subseteq cmd'[u].over
        /\ cmd'[u].over \subseteq cmd[u].over \cup (Lap \cap cmd[u].req.keys)
        /\ Open(u) /\ IsWrite(cmd[t].req) =>
             /\ cmd[u].req.keys \cap cmd[t].req.keys \subseteq Lap
             /\ cmd[u].req.keys \cap cmd[t].req.keys \subseteq cmd'[u].over
  BY EnterFacts
<1> HIDE DEF Lap
<1>3. UNCHANGED <<role, pstate, waiting, tail, replica, synced, save, torn>>
  BY DEF state, log
<1>4. cmd[t].req.keys \subseteq Key
  BY CmdFacts
<1>5. DataOK'
  BY <1>1, <1>3, <1>4 DEF DataOK
<1>6. StageInv'
  <2> SUFFICES ASSUME NEW u \in Thread
               PROVE  /\ cmd'[u].live
                      /\ cmd'[u].pc # "idle" => cmd'[u].req \in Request
                      /\ cmd'[u].pc = "end" => cmd'[u].req.kind \in {"deltag", "list"} /\ cmd'[u].ok
                      /\ cmd'[u].pc = "log" => cmd'[u].req.kind # "list"
                      /\ cmd'[u].found \subseteq cmd'[u].req.keys
                      /\ cmd'[u].over \subseteq cmd'[u].req.keys
    BY DEF StageInv, InState
  <2>1. CASE u = t
    BY <1>1, <2>1 DEF StageInv, InState, IsWrite
  <2>2. CASE u # t
    BY <1>2, <2>2 DEF StageInv, InState
  <2> QED BY <2>1, <2>2
<1>7. \A u \in Thread : cmd'[u].req = cmd[u].req
  BY <1>1, <1>2
<1>8. RoleInv'
  BY <1>1, <1>2, <1>3, <1>7 DEF RoleInv, InState, Thread
<1>9. \A u \in Worker : HoldsRecord(u)' <=> HoldsRecord(u)
  BY <1>1, <1>2, <1>7 DEF HoldsRecord, Thread
<1>10. RecordInv'
  BY <1>7, <1>9 DEF RecordInv, Thread
<1>11. \A u \in Thread \ {t} : Open(u)' <=> Open(u)
  BY <1>2 DEF Open
<1>12. Open(t)' => IsWrite(cmd[t].req)
  BY <1>1 DEF Open
<1>13. OverInv'
  <2> SUFFICES ASSUME NEW x \in Thread, Open(x)'
               PROVE  /\ cmd'[x].over \subseteq suspect'
                      /\ \A u \in Thread \ {x} : Open(u)' =>
                           cmd'[x].req.keys \cap cmd'[u].req.keys \subseteq cmd'[x].over
    BY DEF OverInv
  <2>1. CASE x = t
    BY <1>1, <1>2, <1>11, <1>12, <2>1
  <2>2. CASE x # t
    <3>1. Open(x) /\ cmd[x].over \subseteq suspect
      BY <1>11, <2>2 DEF OverInv
    <3>2. cmd'[x].over \subseteq suspect'
      BY <1>1, <1>2, <2>2, <3>1
    <3>3. ASSUME NEW u \in Thread \ {x}, Open(u)'
          PROVE  cmd'[x].req.keys \cap cmd'[u].req.keys \subseteq cmd'[x].over
      <4>1. CASE u = t
        BY <1>1, <1>2, <1>12, <2>2, <3>1, <3>3, <4>1
      <4>2. CASE u # t
        BY <1>2, <1>11, <2>2, <3>1, <3>3, <4>2 DEF OverInv
      <4> QED BY <4>1, <4>2
    <3> QED BY <3>2, <3>3
  <2> QED BY <2>1, <2>2
<1>14. WroteInv'
  <2> SUFFICES ASSUME NEW x \in Thread, NEW k \in Key, Open(x)', k \in cmd'[x].req.keys,
                      k \notin cmd'[x].over
               PROVE  /\ cmd'[x].pc = "log" /\ cmd'[x].ok => db'[k] = cmd'[x].req.value
                      /\ cmd'[x].pc = "end" /\ k \notin cmd'[x].found => db'[k] = NoValue
    BY DEF WroteInv
  <2>1. CASE x = t
    BY <1>1, <2>1
  <2>2. CASE x # t
    <3>1. Open(x) /\ k \in cmd[x].req.keys /\ k \notin cmd[x].over
      BY <1>2, <1>11, <2>2
    <3>2. db'[k] = db[k]
      <4>1. CASE k \in cmd[t].req.keys /\ IsWrite(cmd[t].req)
        BY <1>2, <2>2, <3>1, <4>1
      <4>2. CASE k \notin cmd[t].req.keys
        BY <4>2
      <4>3. CASE ~IsWrite(cmd[t].req)
        BY <4>3
      <4> QED BY <4>1, <4>2, <4>3
    <3> QED BY <1>2, <2>2, <3>1, <3>2 DEF WroteInv
  <2> QED BY <2>1, <2>2
<1>15. AgreeInv'
  <2> SUFFICES ASSUME NEW k \in Key, k \notin suspect', k \notin torn', ~Owed(k)'
               PROVE  db'[k] = replica'[k] /\ (synced'.there => synced'.db[k] = replica'[k])
    BY DEF AgreeInv
  <2>1. k \notin suspect /\ k \notin torn
    BY <1>1, <1>3
  <2>2. ~Owed(k)
    <3> SUFFICES ASSUME NEW u \in Thread, cmd[u].pc = "log", cmd[u].ok, k \in cmd[u].req.keys
                 PROVE  FALSE
      BY DEF Owed
    <3>1. u # t
      OBVIOUS
    <3> QED BY <1>2, <3>1 DEF Owed
  <2>3. db'[k] = db[k]
    <3>1. CASE k \in cmd[t].req.keys /\ p = "log" /\ ok
      BY <1>1, <3>1 DEF Owed
    <3>2. CASE k \notin cmd[t].req.keys
      BY <3>2
    <3>3. CASE ~(p = "log" /\ ok)
      BY <3>3
    <3> QED BY <3>1, <3>2, <3>3
  <2> QED BY <1>3, <2>1, <2>2, <2>3 DEF AgreeInv
<1>16. ReplayInv'
  BY <1>3 DEF ReplayInv
<1> QED BY <1>5, <1>6, <1>8, <1>10, <1>13, <1>14, <1>15, <1>16

LEMMA EffectFacts ==
  ASSUME NEW d \in Database, NEW req \in Request \cup {NoRequest}
  PROVE  /\ Effect(d, req) \in Database
         /\ \A k \in Key : Effect(d, req)[k] = IF k \in req.keys THEN req.value ELSE d[k]
  BY ReqFacts DEF Effect, Database

LEMMA DoStep ==
  ASSUME IInv, NEW t \in Thread, Do(t) \/ DoFails(t) \/ Scan(t) PROVE IInv'
<1> USE DEF IInv
<1>0. /\ db \in Database /\ cmd[t].req \in Request \cup {NoRequest}
      /\ cmd[t].req.keys \subseteq Key /\ cmd[t].pc = "do"
  BY CmdFacts DEF DataOK, Do, DoFails, Scan
<1>1. CASE Do(t)
  <2>1. /\ db' = Effect(db, cmd[t].req) /\ Enter(t, "log", TRUE, {})
        /\ UNCHANGED <<state, log, save, torn>> /\ IsWrite(cmd[t].req)
    BY <1>1 DEF Do, IsWrite
  <2>2. /\ db' \in Database /\ \A k \in Key \ cmd[t].req.keys : db'[k] = db[k]
        /\ \A k \in cmd[t].req.keys : db'[k] = cmd[t].req.value
    BY <1>0, <2>1, EffectFacts
  <2> QED BY <1>0, <2>1, <2>2, EnterStep
<1>2. CASE DoFails(t)
  <2>1. /\ db' = db /\ Enter(t, "log", FALSE, {})
        /\ UNCHANGED <<state, log, save, torn>> /\ IsWrite(cmd[t].req)
    BY <1>2 DEF DoFails, IsWrite
  <2> QED BY <1>0, <2>1, EnterStep
<1>3. CASE Scan(t)
  <2> DEFINE found == {k \in cmd[t].req.keys : db[k] # NoValue}
  <2>1. /\ db' = db /\ Enter(t, "end", TRUE, found) /\ found \in SUBSET cmd[t].req.keys
        /\ UNCHANGED <<state, log, save, torn>> /\ cmd[t].req.kind \in {"deltag", "list"}
        /\ \A k \in cmd[t].req.keys \ found : db[k] = NoValue
    BY <1>3 DEF Scan
  <2> HIDE DEF found
  <2> QED BY <1>0, <2>1, EnterStep
<1> QED BY <1>1, <1>2, <1>3

LEMMA DeleteStep ==
  ASSUME IInv, NEW t \in Thread, DeleteFound(t) \/ DeleteFails(t) PROVE IInv'
<1> USE DEF IInv
<1>0. /\ cmd[t].pc = "end" /\ cmd[t].req.kind = "deltag"
      /\ UNCHANGED <<role, pstate, waiting, tail, replica, synced, save, suspect, torn>>
  BY DEF DeleteFound, DeleteFails, state, log, marks
<1>1. /\ cmd[t] \in Cmd /\ cmd[t].ok /\ cmd[t].live /\ db \in Database /\ cmd[t].req.value = NoValue
      /\ cmd[t].found \subseteq cmd[t].req.keys /\ cmd[t].req.keys \subseteq Key
  BY <1>0, CmdFacts, ReqFacts DEF StageInv, DataOK
<1>2. /\ cmd' \in [Thread -> Cmd] /\ \A u \in Thread \ {t} : cmd'[u] = cmd[u]
      /\ cmd'[t].pc = "log" /\ cmd'[t].req = cmd[t].req /\ cmd'[t].live = cmd[t].live
      /\ cmd'[t].found = cmd[t].found /\ cmd'[t].over = cmd[t].over
      /\ DeleteFound(t) => cmd'[t].ok = cmd[t].ok
      /\ DeleteFails(t) => cmd'[t].ok = FALSE
  <2>1. CASE At(t, "log")
    <3>1. ~DeleteFails(t)
      <4>2. cmd'[t].ok = cmd[t].ok
        BY <2>1, AtFacts DEF Pc
      <4>3. ASSUME DeleteFails(t) PROVE cmd'[t].ok = FALSE
        <5>1. cmd' = [cmd EXCEPT ![t] = [cmd[t] EXCEPT !.pc = "log", !.ok = FALSE]]
          BY <4>3 DEF DeleteFails
        <5> QED BY <1>1, <5>1 DEF DataOK, Cmd
      <4> QED BY <1>1, <4>2, <4>3
    <3> QED BY <2>1, <3>1, AtFacts DEF Pc
  <2>2. CASE DeleteFails(t)
    <3> DEFINE c == [cmd[t] EXCEPT !.pc = "log", !.ok = FALSE]
    <3>1. cmd' = [cmd EXCEPT ![t] = c]
      BY <2>2 DEF DeleteFails
    <3>2. /\ c.pc = "log" /\ c.req = cmd[t].req /\ c.live = cmd[t].live /\ c.ok = FALSE
          /\ c.found = cmd[t].found /\ c.over = cmd[t].over /\ c \in Cmd
      BY <1>1 DEF Cmd, Pc
    <3> HIDE DEF c
    <3>3. /\ cmd' \in [Thread -> Cmd] /\ \A u \in Thread \ {t} : cmd'[u] = cmd[u]
          /\ cmd'[t] = c
      BY <3>1, <3>2 DEF DataOK
    <3>4. ~DeleteFound(t)
      <4> SUFFICES ASSUME DeleteFound(t) PROVE FALSE
        OBVIOUS
      <4>1. cmd'[t].ok = cmd[t].ok
        BY AtFacts DEF DeleteFound, Pc
      <4> QED BY <1>1, <3>2, <3>3, <4>1
    <3> QED BY <3>2, <3>3, <3>4
  <2> QED BY <2>1, <2>2 DEF DeleteFound
<1>3. /\ db' \in Database
      /\ \A k \in Key : k \notin cmd[t].found => db'[k] = db[k]
      /\ DeleteFound(t) => \A k \in cmd[t].found : db'[k] = NoValue
      /\ DeleteFails(t) => db' = db
  <2>1. CASE DeleteFound(t)
    <3>1. db' = [k \in Key |-> IF k \in cmd[t].found THEN NoValue ELSE db[k]] /\ cmd[t].found \subseteq Key
      BY <1>1, <2>1 DEF DeleteFound
    <3>2. ~DeleteFails(t)
      BY <1>1, <1>2, <2>1
    <3> QED BY <1>1, <3>1, <3>2 DEF Database
  <2>2. CASE DeleteFails(t)
    <3>1. ~DeleteFound(t)
      BY <1>1, <1>2, <2>2
    <3>2. db' = db
      BY <2>2 DEF DeleteFails
    <3> QED BY <1>1, <3>1, <3>2
  <2> QED BY <2>1, <2>2
<1>4. DataOK'
  BY <1>0, <1>2, <1>3 DEF DataOK
<1>5. StageInv'
  BY <1>0, <1>2 DEF StageInv, InState
<1>6. RoleInv'
  BY <1>0, <1>2 DEF RoleInv, InState, Thread
<1>7. RecordInv'
  BY <1>0, <1>2 DEF RecordInv, HoldsRecord, Thread
<1>8. \A u \in Thread : (Open(u)' <=> Open(u)) /\ cmd'[u].req = cmd[u].req /\ cmd'[u].over = cmd[u].over
  BY <1>0, <1>2 DEF Open, IsWrite
<1>9. OverInv'
  BY <1>0, <1>8 DEF OverInv
<1>10. Open(t)
  BY <1>0 DEF Open, IsWrite
<1>11. WroteInv'
  <2> SUFFICES ASSUME NEW x \in Thread, NEW k \in Key, Open(x)', k \in cmd'[x].req.keys,
                      k \notin cmd'[x].over
               PROVE  /\ cmd'[x].pc = "log" /\ cmd'[x].ok => db'[k] = cmd'[x].req.value
                      /\ cmd'[x].pc = "end" /\ k \notin cmd'[x].found => db'[k] = NoValue
    BY DEF WroteInv
  <2>0. Open(x) /\ k \in cmd[x].req.keys /\ k \notin cmd[x].over
    BY <1>8
  <2>1. CASE x = t
    <3>1. k \notin cmd[t].found => db[k] = NoValue
      BY <1>0, <2>0, <2>1 DEF WroteInv
    <3>2. CASE DeleteFound(t)
      BY <1>1, <1>2, <1>3, <2>1, <3>1, <3>2
    <3>3. CASE DeleteFails(t)
      BY <1>2, <2>1, <3>3
    <3> QED BY <3>2, <3>3
  <2>2. CASE x # t
    <3>1. k \notin cmd[t].req.keys
      BY <1>10, <2>0, <2>2 DEF OverInv
    <3>2. db'[k] = db[k]
      BY <1>1, <1>3, <3>1
    <3> QED BY <1>2, <2>0, <2>2, <3>2 DEF WroteInv
  <2> QED BY <2>1, <2>2
<1>12. AgreeInv'
  <2> SUFFICES ASSUME NEW k \in Key, k \notin suspect', k \notin torn', ~Owed(k)'
               PROVE  db'[k] = replica'[k] /\ (synced'.there => synced'.db[k] = replica'[k])
    BY DEF AgreeInv
  <2>1. k \notin suspect /\ k \notin torn
    BY <1>0
  <2>2. ~Owed(k)
    <3> SUFFICES ASSUME NEW u \in Thread, cmd[u].pc = "log", cmd[u].ok, k \in cmd[u].req.keys
                 PROVE  FALSE
      BY DEF Owed
    <3>1. u # t
      BY <1>0
    <3> QED BY <1>2, <3>1 DEF Owed
  <2>3. db'[k] = db[k]
    <3>1. CASE k \in cmd[t].req.keys /\ DeleteFound(t)
      BY <1>1, <1>2, <3>1 DEF Owed
    <3>2. CASE k \notin cmd[t].req.keys
      BY <1>1, <1>3, <3>2
    <3>3. CASE DeleteFails(t)
      BY <1>3, <3>3
    <3> QED BY <3>1, <3>2, <3>3
  <2> QED BY <1>0, <2>1, <2>2, <2>3 DEF AgreeInv
<1>13. ReplayInv'
  BY <1>0 DEF ReplayInv
<1> QED BY <1>4, <1>5, <1>6, <1>7, <1>9, <1>11, <1>12, <1>13

\* FlushDB is alone in the database: suspend_rw_ keeps the other commands out, and
\* mutex_record_ another FlushDB.
LEMMA FlushAlone ==
  ASSUME IInv, NEW t \in Thread, FlushDb(t), NEW u \in Thread \ {t}
  PROVE  cmd[u].pc \notin {"end", "log"}
<1> USE DEF IInv
<1>1. cmd[t].pc = "do" /\ cmd[t].req.kind = "flush" /\ ~SuspendReader(u)
  BY DEF FlushDb, SuspendFree, IsSuspend
<1> SUFFICES ASSUME cmd[u].pc \in {"end", "log"} PROVE FALSE
  OBVIOUS
<1>2. cmd[u].req.kind = "flush"
  BY <1>1 DEF SuspendReader, IsSuspend
<1>3. cmd[u].req \in Request \cup {NoRequest} /\ cmd[t].req \in Request \cup {NoRequest}
  BY CmdFacts
<1>4. ExtractKey(cmd[t].req) = ExtractKey(cmd[u].req)
  BY <1>1, <1>2, <1>3, ReqFacts
<1>5. ExtractKey(cmd[t].req) # ExtractKey(cmd[u].req)
  BY <1>1, <1>2, Apart DEF IsWrite
<1> QED BY <1>4, <1>5

LEMMA FlushStep ==
  ASSUME IInv, NEW t \in Thread, FlushDb(t) PROVE IInv'
<1> USE DEF IInv
<1>0. /\ cmd[t].pc = "do" /\ cmd[t].req.kind = "flush" /\ db' = Empty
      /\ UNCHANGED <<role, pstate, waiting, tail, replica, synced, torn>>
      /\ suspect' = suspect \cup Overlap(t) /\ ChangeDb(t)
  BY DEF FlushDb, IsSuspend, ChangeDb, state, log
<1>1. /\ cmd[t] \in Cmd /\ cmd[t].live /\ cmd[t].req.value = NoValue /\ cmd[t].req.keys = Key
      /\ cmd[t].found \subseteq cmd[t].req.keys /\ cmd[t].req \in Request
  BY <1>0, CmdFacts, ReqFacts DEF StageInv, InState
<1>2. \A u \in Thread \ {t} : cmd[u].pc \notin {"end", "log"}
  BY FlushAlone
<1>3. Overlap(t) = {}
  BY <1>2 DEF Overlap, Open
<1> DEFINE c == [cmd[t] EXCEPT !.pc = "log", !.ok = TRUE, !.over = {}]
           e(u) == [cmd[u] EXCEPT !.live = @ /\ cmd[u].pc # "end"]
<1>4. /\ cmd' = [u \in Thread |-> IF u = t THEN c ELSE e(u)]
      /\ save' = [save EXCEPT !.live = @ /\ ~Saving]
  BY <1>0, <1>3 DEF ChangeDb
<1>5. /\ c \in Cmd /\ c.pc = "log" /\ c.req = cmd[t].req /\ c.live = cmd[t].live /\ c.ok = TRUE
      /\ c.found = cmd[t].found /\ c.over = {}
  BY <1>1 DEF Cmd, Pc
<1>6. ASSUME NEW u \in Thread \ {t} PROVE e(u) = cmd[u]
  <2>1. cmd[u] \in Cmd /\ cmd[u].live = TRUE /\ cmd[u].pc # "end"
    BY <1>2, CmdFacts DEF StageInv
  <2>2. (cmd[u].live /\ cmd[u].pc # "end") = TRUE
    BY <2>1
  <2>3. e(u) = [cmd[u] EXCEPT !.live = TRUE]
    BY <2>2
  <2> HIDE DEF e
  <2> QED BY <2>1, <2>3 DEF Cmd
<1> HIDE DEF c, e
<1>7. /\ cmd' \in [Thread -> Cmd] /\ \A u \in Thread \ {t} : cmd'[u] = cmd[u]
      /\ cmd'[t] = c
  BY <1>4, <1>5, <1>6, CmdFacts
<1>8. save' \in Save /\ save'.pc = save.pc /\ save'.items = save.items
  <2>1. save \in Save
    BY DEF DataOK
  <2>2. (save.live /\ ~Saving) \in BOOLEAN
    OBVIOUS
  <2> DEFINE l == (save.live /\ ~Saving)
  <2>3. save' = [save EXCEPT !.live = l]
    BY <1>4
  <2> HIDE DEF l
  <2>4. l \in BOOLEAN
    BY <2>2 DEF l
  <2> QED BY <2>1, <2>3, <2>4 DEF Save
<1>9. DataOK'
  <2>1. Empty \in Database
    BY DEF Empty, Database
  <2> QED BY <1>0, <1>3, <1>7, <1>8, <2>1 DEF DataOK
<1>10. StageInv'
  BY <1>0, <1>1, <1>5, <1>7, ZenonT(60) DEF StageInv, InState
<1>11. RoleInv'
  BY <1>0, <1>5, <1>7 DEF RoleInv, InState, Thread
<1>12. RecordInv'
  BY <1>0, <1>5, <1>7 DEF RecordInv, HoldsRecord, Thread
<1>13. \A u \in Thread \ {t} : ~Open(u)'
  BY <1>2, <1>7 DEF Open
<1>14. OverInv'
  BY <1>5, <1>7, <1>13 DEF OverInv
<1>15. \A k \in Key : db'[k] = NoValue
  BY <1>0 DEF Empty
<1>16. WroteInv'
  BY <1>1, <1>5, <1>7, <1>13, <1>15 DEF WroteInv
<1>17. \A k \in Key : Owed(k)'
  BY <1>1, <1>5, <1>7 DEF Owed
<1>18. AgreeInv'
  BY <1>17 DEF AgreeInv
<1>19. ReplayInv'
  BY <1>0, <1>8 DEF ReplayInv
<1> QED BY <1>9, <1>10, <1>11, <1>12, <1>14, <1>16, <1>18, <1>19

-----------------------------------------------------------------------------
(* Binlog::Put.                                                             *)

\* The item in the binlog, whatever it is.
LEMMA LoggedFacts ==
  ASSUME DataOK, ReplayInv, NEW req \in Request, Logged(req)
  PROVE  /\ replica' \in Database /\ synced' \in [there : BOOLEAN, db : Database]
         /\ tail' \in Seq(Request) /\ Len(tail') < MaxTail /\ save' \in Save
         /\ synced'.there = synced.there /\ ReplayInv'
         /\ \A k \in Key : k \in req.keys =>
              /\ replica'[k] = req.value
              /\ synced.there => synced'.db[k] = req.value
         /\ \A k \in Key : k \notin req.keys =>
              replica'[k] = replica[k] /\ synced'.db[k] = synced.db[k]
<1>1. /\ replica \in Database /\ synced \in [there : BOOLEAN, db : Database]
      /\ tail \in Seq(Request) /\ Len(tail) < MaxTail /\ save \in Save
  BY DEF DataOK
<1>2. /\ replica' = Effect(replica, req)
      /\ synced' = IF synced.there THEN [synced EXCEPT !.db = Effect(synced.db, req)]
                   ELSE synced
  BY DEF Logged
<1>3. Effect(replica, req) \in Database /\ Effect(synced.db, req) \in Database
  BY <1>1, EffectFacts
<1>4. /\ synced' \in [there : BOOLEAN, db : Database] /\ synced'.there = synced.there
      /\ synced'.db = IF synced.there THEN Effect(synced.db, req) ELSE synced.db
  BY <1>1, <1>2, <1>3
<1>5. /\ \A k \in Key : Effect(replica, req)[k] = IF k \in req.keys THEN req.value ELSE replica[k]
      /\ \A k \in Key : Effect(synced.db, req)[k] = IF k \in req.keys THEN req.value ELSE synced.db[k]
  BY <1>1, EffectFacts
<1>6. \/ Len(tail) < MaxTail - 1 /\ tail' = Append(tail, req)
      \/ tail' = << >>
  BY DEF Logged
<1>7. tail' \in Seq(Request) /\ Len(tail') < MaxTail
  <2>1. MaxTail \in Nat /\ MaxTail > 0 /\ Len(tail) \in Nat
    BY <1>1, WritePathAssumption
  <2>2. CASE Len(tail) < MaxTail - 1 /\ tail' = Append(tail, req)
    <3>1. Append(tail, req) \in Seq(Request) /\ Len(Append(tail, req)) = Len(tail) + 1
      BY <1>1
    <3> QED BY <2>1, <2>2, <3>1
  <2>3. CASE tail' = << >>
    <3>1. << >> \in Seq(Request) /\ Len(<< >>) = 0
      OBVIOUS
    <3> QED BY <2>1, <2>3, <3>1
  <2> QED BY <1>6, <2>2, <2>3
<1>8. Replay(replica', tail') = replica'
  <2>1. CASE tail' = Append(tail, req)
    BY <1>1, <1>2, <2>1, ReplayLogged DEF ReplayInv
  <2>2. CASE tail' = << >>
    BY <2>2, ReplayEmpty
  <2> QED BY <1>6, <2>1, <2>2
<1> DEFINE items == IF save.pc = "point" THEN Append(save.items, req) ELSE save.items
<1>9. save.items \in Seq(Request) /\ items \in Seq(Request)
  BY <1>1 DEF Save
<1>10. save' = [save EXCEPT !.items = items]
  BY DEF Logged
<1>11. save.pc = "point" => items = Append(save.items, req)
  OBVIOUS
<1> HIDE DEF items
<1>12. save' \in Save /\ save'.pc = save.pc /\ save'.items = items
  BY <1>1, <1>9, <1>10 DEF Save
<1>13. save'.pc = "point" => Replay(replica', save'.items) = replica'
  <2> SUFFICES ASSUME save.pc = "point" PROVE Replay(replica', save'.items) = replica'
    BY <1>12
  <2>1. Replay(replica, save.items) = replica
    BY DEF ReplayInv
  <2>2. Replay(Effect(replica, req), Append(save.items, req)) = Effect(replica, req)
    BY <1>1, <1>9, <2>1, ReplayLogged
  <2> QED BY <1>2, <1>11, <1>12, <2>2
<1>14. ReplayInv'
  BY <1>8, <1>13 DEF ReplayInv
<1> QED BY <1>2, <1>3, <1>4, <1>5, <1>7, <1>12, <1>14

LEMMA PutStep ==
  ASSUME IInv, NEW t \in Thread, Put(t) PROVE IInv'
<1> USE DEF IInv
<1> DEFINE req == cmd[t].req
           clean == IF cmd[t].ok THEN req.keys \ cmd[t].over ELSE {}
           items == cmd[t].ok \/ t = Receiver
<1>0. /\ cmd[t].pc = "log"
      /\ IF items THEN Logged(req) ELSE UNCHANGED <<log, save>>
      /\ suspect' = suspect \ clean
      /\ torn' = IF t = Receiver /\ ~cmd[t].ok THEN torn \cup req.keys ELSE torn \ clean
      /\ cmd' = [cmd EXCEPT ![t] = Idle]
      /\ UNCHANGED <<role, pstate, waiting, db>>
  BY DEF Put, state
<1>1. /\ cmd[t] \in Cmd /\ req \in Request /\ req.keys \subseteq Key /\ Open(t)
      /\ cmd[t].over \subseteq suspect /\ clean \subseteq req.keys
  BY <1>0, CmdFacts DEF StageInv, InState, Open, IsWrite, OverInv
<1>2. cmd' \in [Thread -> Cmd] /\ \A u \in Thread \ {t} : cmd'[u] = cmd[u]
  BY <1>0, RestFacts
<1>3. cmd'[t] = Idle
  BY <1>0, RestFacts
<1>4. /\ replica' \in Database /\ synced' \in [there : BOOLEAN, db : Database]
      /\ tail' \in Seq(Request) /\ Len(tail') < MaxTail /\ save' \in Save
      /\ synced'.there = synced.there /\ ReplayInv'
      /\ items => \A k \in Key : k \in req.keys =>
           replica'[k] = req.value /\ (synced.there => synced'.db[k] = req.value)
      /\ \A k \in Key : ~items \/ k \notin req.keys =>
           replica'[k] = replica[k] /\ synced'.db[k] = synced.db[k]
  <2>1. CASE items
    <3>1. Logged(req)
      BY <1>0, <2>1
    <3> HIDE DEF req
    <3> QED BY <1>1, <2>1, <3>1, LoggedFacts
  <2>2. CASE ~items
    <3>1. UNCHANGED <<tail, replica, synced, save>>
      BY <1>0, <2>2 DEF log
    <3>2. ReplayInv'
      BY <3>1 DEF ReplayInv
    <3> QED BY <2>2, <3>1, <3>2 DEF DataOK
  <2> QED BY <2>1, <2>2
<1>5. DataOK'
  BY <1>0, <1>1, <1>2, <1>4 DEF DataOK
<1>6. StageInv'
  BY <1>2, <1>3, IdleFacts DEF StageInv, InState
<1>7. RoleInv'
  BY <1>0, <1>2, <1>3, IdleFacts DEF RoleInv, InState, Thread
<1>8. RecordInv'
  BY <1>2, <1>3, IdleFacts DEF RecordInv, HoldsRecord, Thread
<1>9. ~Open(t)' /\ \A u \in Thread \ {t} : Open(u)' <=> Open(u)
  BY <1>2, <1>3, IdleFacts DEF Open
<1>10. OverInv'
  <2> SUFFICES ASSUME NEW x \in Thread \ {t}, Open(x)
               PROVE  /\ cmd'[x].over \subseteq suspect'
                      /\ \A u \in Thread \ {x} : Open(u)' =>
                           cmd'[x].req.keys \cap cmd'[u].req.keys \subseteq cmd'[x].over
    BY <1>9 DEF OverInv
  <2>1. ASSUME NEW k \in cmd[x].over PROVE k \in suspect'
    <3>1. k \in suspect /\ k \in cmd[x].req.keys
      BY DEF OverInv, StageInv
    <3>2. k \in req.keys => k \in cmd[t].over
      BY <1>1, <3>1 DEF OverInv
    <3> QED BY <1>0, <3>1, <3>2
  <2>2. ASSUME NEW u \in Thread \ {x}, Open(u)'
        PROVE  cmd'[x].req.keys \cap cmd'[u].req.keys \subseteq cmd'[x].over
    <3>1. u # t /\ Open(u)
      BY <1>9, <2>2
    <3>2. cmd'[x] = cmd[x] /\ cmd'[u] = cmd[u]
      BY <1>2, <3>1
    <3> QED BY <3>1, <3>2 DEF OverInv
  <2> QED BY <1>2, <2>1, <2>2
<1>11. WroteInv'
  <2> SUFFICES ASSUME NEW x \in Thread \ {t}, NEW k \in Key, Open(x),
                      k \in cmd'[x].req.keys \ cmd'[x].over
               PROVE  /\ cmd'[x].pc = "log" /\ cmd'[x].ok => db'[k] = cmd'[x].req.value
                      /\ cmd'[x].pc = "end" /\ k \notin cmd'[x].found => db'[k] = NoValue
    BY <1>9 DEF WroteInv
  <2>1. cmd'[x] = cmd[x]
    BY <1>2
  <2> QED BY <1>0, <2>1 DEF WroteInv
<1>12. AgreeInv'
  <2> SUFFICES ASSUME NEW k \in Key, k \notin suspect', k \notin torn', ~Owed(k)'
               PROVE  db'[k] = replica'[k] /\ (synced'.there => synced'.db[k] = replica'[k])
    BY DEF AgreeInv
  <2>1. CASE k \in clean
    <3>1. cmd[t].ok /\ k \in req.keys /\ k \notin cmd[t].over
      BY <2>1
    <3>2. db[k] = req.value
      BY <1>0, <1>1, <3>1 DEF WroteInv
    <3> QED BY <1>0, <1>4, <3>1, <3>2
  <2>2. CASE k \notin clean
    <3>1. k \notin suspect /\ k \notin torn
      BY <1>0, <2>2
    <3>2. k \in req.keys => ~items
      <4> SUFFICES ASSUME k \in req.keys, items PROVE FALSE
        OBVIOUS
      <4>1. CASE cmd[t].ok
        BY <1>1, <2>2, <3>1, <4>1
      <4>2. CASE ~cmd[t].ok
        BY <1>0, <4>2
      <4> QED BY <4>1, <4>2
    <3>3. ~Owed(k)
      <4> SUFFICES ASSUME NEW u \in Thread, cmd[u].pc = "log", cmd[u].ok, k \in cmd[u].req.keys
                   PROVE  FALSE
        BY DEF Owed
      <4>1. u # t
        BY <3>2
      <4>2. cmd'[u] = cmd[u]
        BY <1>2, <4>1
      <4> QED BY <4>2 DEF Owed
    <3> QED BY <1>0, <1>4, <3>1, <3>2, <3>3 DEF AgreeInv
  <2> QED BY <2>1, <2>2
<1> QED BY <1>4, <1>5, <1>6, <1>7, <1>8, <1>10, <1>11, <1>12

-----------------------------------------------------------------------------
(* Checkpoints, updates, crashes.                                           *)

LEMMA ReplayType ==
  ASSUME NEW d \in Database, NEW items \in Seq(Request)
  PROVE  Replay(d, items) \in Database
<1> DEFINE n == Len(items)
<1>1. PICK f : Trace(d, items, f, n) /\ Replay(d, items) = f[n]
  BY ReplayTrace
<1>2. n \in Nat /\ \A i \in 1 .. n : items[i] \in Request
  OBVIOUS
<1>3. \A i \in 0 .. n : f[i] = IF i = 0 THEN d ELSE Effect(f[i - 1], items[i])
  BY <1>1 DEF Trace
<1> HIDE DEF n
<1> DEFINE G == {m \in Nat : m <= n => f[m] \in Database}
<1>4. 0 \in G
  BY <1>2, <1>3
<1>5. ASSUME NEW m \in Nat, m \in G PROVE m + 1 \in G
  <2> SUFFICES ASSUME m + 1 <= n PROVE f[m + 1] \in Database
    OBVIOUS
  <2>1. m <= n /\ m + 1 \in 0 .. n /\ m + 1 \in 1 .. n /\ m + 1 # 0 /\ (m + 1) - 1 = m
    BY <1>2
  <2>2. f[m + 1] = Effect(f[m], items[m + 1])
    BY <1>3, <2>1
  <2>3. f[m] \in Database /\ items[m + 1] \in Request
    BY <1>2, <1>5, <2>1
  <2> QED BY <2>2, <2>3, EffectFacts
<1>6. Nat \subseteq G
  <2> HIDE DEF G
  <2> QED BY <1>4, <1>5, NatInd
<1>7. n \in G
  BY <1>2, <1>6
<1> QED BY <1>1, <1>2, <1>7

LEMMA SaveFacts == /\ NoSave \in Save /\ NoSave.pc = "idle"
                   /\ [NoSave EXCEPT !.pc = "created"] \in Save
                   /\ [NoSave EXCEPT !.pc = "created"].pc = "created"
                   /\ NoSnapshot \in [there : BOOLEAN, db : Database]
                   /\ NoSnapshot.there = FALSE /\ Empty \in Database
<1>1. Empty \in Database
  BY DEF Empty, Database
<1>2. << >> \in Seq(Request)
  OBVIOUS
<1>3. NoSave \in Save /\ NoSave.pc = "idle"
  BY <1>2 DEF NoSave, Save
<1>4. /\ [NoSave EXCEPT !.pc = "created"] \in Save
      /\ [NoSave EXCEPT !.pc = "created"].pc = "created"
  BY <1>2 DEF NoSave, Save
<1>5. NoSnapshot \in [there : BOOLEAN, db : Database] /\ NoSnapshot.there = FALSE
  BY <1>1 DEF NoSnapshot
<1> QED BY <1>1, <1>3, <1>4, <1>5

\* A step of the checkpoint alone.
LEMMA SaveKeeps ==
  ASSUME IInv, UNCHANGED <<role, pstate, waiting, db, cmd, tail, replica, suspect, torn>>,
         save' \in Save, synced' \in [there : BOOLEAN, db : Database],
         save'.pc = "point" => Replay(replica, save'.items) = replica,
         \A k \in Key \ (suspect \cup torn) : ~Owed(k) /\ synced'.there =>
           synced'.db[k] = replica[k]
  PROVE  IInv'
<1> USE DEF IInv
<1>1. DataOK'
  BY DEF DataOK
<1>2. StageInv' /\ RoleInv' /\ RecordInv'
  BY DEF StageInv, RoleInv, RecordInv, HoldsRecord, InState
<1>3. OverInv' /\ WroteInv'
  BY DEF OverInv, WroteInv, Open
<1>4. \A k \in Key : Owed(k)' <=> Owed(k)
  BY DEF Owed
<1>5. AgreeInv'
  BY <1>4 DEF AgreeInv
<1>6. ReplayInv'
  BY DEF ReplayInv
<1> QED BY <1>1, <1>2, <1>3, <1>5, <1>6

LEMMA SaveStep ==
  ASSUME IInv, CreateCheckpoint \/ RunBgsave PROVE IInv'
<1> USE DEF IInv
<1>0. save \in Save /\ synced \in [there : BOOLEAN, db : Database] /\ tail \in Seq(Request)
  BY DEF DataOK
<1>1. CASE CreateCheckpoint
  <2>1. /\ UNCHANGED <<role, pstate, waiting, db, cmd, tail, replica, suspect, torn>>
        /\ save' \in {NoSave, [NoSave EXCEPT !.pc = "created"]} /\ synced' = NoSnapshot
    BY <1>1 DEF CreateCheckpoint, state, marks
  <2>2. save' \in Save /\ save'.pc # "point" /\ synced' \in [there : BOOLEAN, db : Database]
        /\ ~synced'.there
    BY <2>1, SaveFacts
  <2> QED BY <2>1, <2>2, SaveKeeps
<1>2. CASE GetPoint
  <2>1. /\ UNCHANGED <<role, pstate, waiting, db, cmd, tail, replica, synced, suspect, torn>>
        /\ save' = [save EXCEPT !.pc = "point", !.items = tail]
    BY <1>2 DEF GetPoint, state, log, marks
  <2>2. save' \in Save /\ save'.items = tail
    BY <1>0, <2>1 DEF Save
  <2>3. Replay(replica, save'.items) = replica
    BY <2>2 DEF ReplayInv
  <2> QED BY <1>0, <2>1, <2>2, <2>3, SaveKeeps DEF AgreeInv
<1>3. CASE GetCheckpointFiles
  <2>1. /\ UNCHANGED <<role, pstate, waiting, db, cmd, tail, replica, suspect, torn>>
        /\ save.pc = "point" /\ save' = [save EXCEPT !.pc = "files", !.items = << >>]
        /\ synced' = [there |-> TRUE, db |-> Replay(db, save.items)]
    BY <1>3 DEF GetCheckpointFiles, state, marks
  <2>2. << >> \in Seq(Request) /\ save.items \in Seq(Request)
    BY <1>0 DEF Save
  <2>3. save' \in Save /\ save'.pc # "point"
    BY <1>0, <2>1, <2>2 DEF Save
  <2>4. Replay(db, save.items) \in Database
    BY <2>2, ReplayType DEF DataOK
  <2>5. synced' \in [there : BOOLEAN, db : Database] /\ synced'.db = Replay(db, save.items)
    BY <2>1, <2>4
  <2>6. ASSUME NEW k \in Key \ (suspect \cup torn), ~Owed(k)
        PROVE  synced'.db[k] = replica[k]
    <3>1. db[k] = replica[k]
      BY <2>6 DEF AgreeInv
    <3>2. Replay(db, save.items)[k] = Replay(replica, save.items)[k]
      BY <2>2, <3>1, ReplayAtKey
    <3>3. Replay(replica, save.items) = replica
      BY <2>1 DEF ReplayInv
    <3> QED BY <2>5, <3>2, <3>3
  <2> QED BY <2>1, <2>3, <2>5, <2>6, SaveKeeps
<1>4. CASE EndCheckpoint
  <2>1. /\ UNCHANGED <<role, pstate, waiting, db, cmd, tail, replica, suspect, torn>>
        /\ save' = NoSave /\ (synced' = synced \/ synced' = NoSnapshot)
    BY <1>4 DEF EndCheckpoint, state, marks
  <2>2. save' \in Save /\ save'.pc # "point"
    BY <2>1, SaveFacts
  <2>3. synced' \in [there : BOOLEAN, db : Database] /\ (synced'.there => synced' = synced)
    BY <1>0, <2>1, SaveFacts
  <2> QED BY <2>1, <2>2, <2>3, SaveKeeps DEF AgreeInv
<1> QED BY <1>1, <1>2, <1>3, <1>4 DEF RunBgsave

\* state_rw_ is written only when nobody is inside.
LEMMA UpdateStep ==
  ASSUME IInv, WantUpdate \/ AnyUpdate PROVE IInv'
<1> USE DEF IInv
<1>1. /\ UNCHANGED <<db, cmd, tail, replica, synced, save, suspect, torn>>
      /\ waiting' \in BOOLEAN
      /\ role' \in {"single", "master", "slave"} /\ pstate' \in {"active", "stuck"}
      /\ UNCHANGED <<role, pstate>> \/ \A t \in Thread : ~InState(t)
  BY DEF WantUpdate, AnyUpdate, Update, log, marks, DataOK
<1>2. DataOK'
  BY <1>1 DEF DataOK
<1>3. StageInv' /\ RecordInv'
  BY <1>1 DEF StageInv, RecordInv, HoldsRecord, InState
<1>4. RoleInv'
  BY <1>1 DEF RoleInv, InState, Thread
<1>5. OverInv' /\ WroteInv'
  BY <1>1 DEF OverInv, WroteInv, Open
<1>6. AgreeInv'
  BY <1>1 DEF AgreeInv, Owed
<1>7. ReplayInv'
  BY <1>1 DEF ReplayInv
<1> QED BY <1>2, <1>3, <1>4, <1>5, <1>6, <1>7

\* All threads at rest.
AtRest == cmd = [t \in Thread |-> Idle]

RestInv == /\ cmd \in [Thread -> Cmd]
           /\ StageInv /\ RoleInv /\ RecordInv /\ OverInv /\ WroteInv

LEMMA AllIdle == AtRest => RestInv
<1> SUFFICES ASSUME AtRest PROVE RestInv
  OBVIOUS
<1>1. cmd \in [Thread -> Cmd] /\ \A t \in Thread : cmd[t] = Idle
  BY IdleFacts DEF AtRest
<1>2. \A t \in Thread : ~Open(t) /\ ~InState(t) /\ cmd[t].pc # "log"
  BY <1>1, IdleFacts DEF Open, InState
<1>3. StageInv
  BY <1>1, <1>2, IdleFacts DEF StageInv
<1>4. RoleInv /\ RecordInv
  BY <1>1, <1>2, IdleFacts DEF RoleInv, RecordInv, HoldsRecord, Thread
<1>5. OverInv /\ WroteInv
  BY <1>2 DEF OverInv, WroteInv
<1> QED BY <1>1, <1>3, <1>4, <1>5 DEF RestInv

\* What was owed is torn; there is no snapshot.
LEMMA CrashStep ==
  ASSUME IInv, Crash PROVE IInv'
<1> USE DEF IInv
<1>1. /\ UNCHANGED <<db, tail, replica, suspect>> /\ role' = "single" /\ pstate' = "active"
      /\ waiting' = FALSE /\ save' = NoSave /\ synced' = NoSnapshot
      /\ AtRest'
  BY DEF Crash, AtRest
<1>2. torn' = torn \cup UNION {cmd[t].req.keys :
                              t \in {u \in Thread : cmd[u].pc = "log" /\ cmd[u].ok}}
  BY DEF Crash
<1>3. torn' \subseteq Key /\ \A k \in Key \ torn' : k \notin torn /\ ~Owed(k)
  BY <1>2, CmdFacts DEF Owed, DataOK
<1>4. RestInv'
  BY <1>1, AllIdle, PTL
<1>5. DataOK'
  BY <1>1, <1>3, <1>4, SaveFacts DEF DataOK, RestInv
<1>6. AgreeInv'
  BY <1>1, <1>3, SaveFacts DEF AgreeInv
<1>7. ReplayInv'
  BY <1>1, SaveFacts DEF ReplayInv
<1> QED BY <1>4, <1>5, <1>6, <1>7 DEF RestInv

LEMMA InitIInv == Init => IInv
<1> SUFFICES ASSUME Init PROVE IInv
  OBVIOUS
<1>1. RestInv
  BY AllIdle DEF Init, AtRest
<1>2. << >> \in Seq(Request) /\ Len(<< >>) = 0 /\ 0 < MaxTail
  BY WritePathAssumption
<1>3. DataOK
  BY <1>1, <1>2, SaveFacts DEF Init, DataOK, RestInv
<1>4. AgreeInv
  BY SaveFacts DEF Init, AgreeInv
<1>5. ReplayInv
  BY ReplayEmpty, SaveFacts DEF Init, ReplayInv
<1> QED BY <1>1, <1>3, <1>4, <1>5 DEF IInv, RestInv

LEMMA NextIInv == IInv /\ [Next]_vars => IInv'
<1> SUFFICES ASSUME IInv, [Next]_vars PROVE IInv'
  OBVIOUS
<1>1. ASSUME NEW req \in Request, DoBinlogCommand(req) PROVE IInv'
  <2>1. Receiver \in Thread
    BY DEF Thread
  <2> QED BY <1>1, <2>1, BeginStep DEF DoBinlogCommand
<1>2. ASSUME NEW req \in Request, NEW w \in Worker, DoCommand(w, req) PROVE IInv'
  <2>1. w \in Thread /\ w # Receiver
    BY WritePathAssumption DEF Thread
  <2> QED BY <1>2, <2>1, BeginStep DEF DoCommand
<1>3. ASSUME NEW t \in Thread, Step(t) PROVE IInv'
  BY <1>3, LockStep, DoStep, DeleteStep, EndListStep, FlushStep, PutStep DEF Step
<1>4. CASE UNCHANGED vars
  <2>1. UNCHANGED <<role, pstate, waiting, db, cmd, tail, replica, synced, save, suspect, torn>>
    BY <1>4 DEF vars, state, log, marks
  <2>2. save \in Save /\ synced \in [there : BOOLEAN, db : Database]
    BY DEF IInv, DataOK
  <2> QED BY <2>1, <2>2, SaveKeeps DEF IInv, AgreeInv, ReplayInv
<1> QED BY <1>1, <1>2, <1>3, <1>4, SaveStep, UpdateStep, CrashStep DEF Next

LEMMA Invariance == Spec => []IInv
  BY InitIInv, NextIInv, PTL DEF Spec

-----------------------------------------------------------------------------
(* The theorems.                                                            *)

\* The write path keeps its types: the stages of commands and checkpoints, the
\* keys a command found and shares, and a file of items below its bound.
THEOREM WritePathTypes == Spec => []TypeOK
<1>1. IInv => TypeOK
  <2> SUFFICES ASSUME IInv PROVE TypeOK
    OBVIOUS
  <2>1. synced.db \in Database /\ save.pc \in {"idle", "created", "point", "files"}
    BY DEF IInv, DataOK, Save
  <2>2. ASSUME NEW t \in Thread
        PROVE  /\ cmd[t].pc \in Pc /\ cmd[t].req \in Request \cup {NoRequest}
               /\ cmd[t].found \subseteq cmd[t].req.keys
               /\ cmd[t].over \subseteq cmd[t].req.keys
    BY CmdFacts DEF IInv, StageInv
  <2> QED BY <2>1, <2>2 DEF IInv, DataOK, TypeOK, Pc
<1> QED BY <1>1, Invariance, PTL

\* A key that no command works on, and that is neither suspect nor torn, is not owed.
LEMMA NotOwed ==
  ASSUME IInv, NEW k \in Key \ Busy PROVE ~Owed(k)
  BY DEF IInv, StageInv, Owed, Busy, Open, IsWrite

\* DoCommand and DoBinlogCommand bring the writes of a key to the database and to
\* the binlog in one order: a slave that has applied the binlog has the master's
\* value of every key, unless it is in work, its last write overlapped with one
\* under another record lock, or a crash or a failed item came between.
THEOREM OrderKept == Spec => []OrderAgrees
<1>1. IInv => OrderAgrees
  BY NotOwed DEF IInv, AgreeInv, OrderAgrees
<1> QED BY <1>1, Invariance, PTL

\* RunBgsave: whoever begins with the snapshot and applies the binlog from the start
\* of the file of its point, items that the snapshot has already included, comes to
\* the same as one that followed all the time.
THEOREM SnapshotsServe == Spec => []SnapshotServes
<1>1. IInv => SnapshotServes
  BY NotOwed DEF IInv, AgreeInv, SnapshotServes
<1> QED BY <1>1, Invariance, PTL

\* FlushDB never deletes the database under the iterator of a scan: suspend_rw_ keeps
\* it out until the scan is done.
THEOREM IteratorsKept == Spec => []IteratorsLive
<1>1. IInv => IteratorsLive
  BY DEF IInv, StageInv, IteratorsLive
<1> QED BY <1>1, Invariance, PTL

\* Update of role_ or pstate_ waits for the commands that passed the checks: once a
\* partition is stuck or no master no client's write is under way.
THEOREM StuckStaysQuiet == Spec => []StuckIsQuiet
<1>1. IInv => StuckIsQuiet
  BY DEF IInv, RoleInv, StuckIsQuiet
<1> QED BY <1>1, Invariance, PTL
=============================================================================

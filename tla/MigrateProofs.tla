--------------------------- MODULE MigrateProofs ---------------------------
(***************************************************************************)
(* What is registered can be loaded: the head never names a diff item that *)
(* floyd does not have, for any servers, items and failures; and refer_    *)
(* counts the items that are out.                                          *)
(***************************************************************************)
EXTENDS Migrate, FiniteSetTheorems, TLAPS

\* Registers and their operations have their fields, and who leads led last.
Shape ==
  /\ mem = [s \in Server |-> mem[s]]
  /\ \A s \in Server : mem[s] = [keys |-> mem[s].keys, refer |-> mem[s].refer,
                                 exist |-> mem[s].exist]
  /\ op = [s \in Server |-> op[s]]
  /\ \A s \in Server : op[s] = [pc |-> op[s].pc, todo |-> op[s].todo]
  /\ leader \in Server \cup {NoServer}
  /\ Leading => leader = last
  /\ relic \in BOOLEAN

\* A register operation is of the server that led last.
OpOfLast == \A s \in Server : s # last => op[s].pc = "idle"

\* What its register lists is in floyd: the head it writes next is made of that
\* list.
KeysHaveItems == \A s \in Server : s = last => mem[s].keys \subseteq items

\* An item that Erase is about to delete is named neither by the head nor by
\* the register.
ItemForgotten ==
  \A s \in Server :
    op[s].pc = "item" => op[s].todo \cap (head.keys \cup mem[s].keys) = {}

\* While Cancel deletes the items there is no head.
CancelHeadless ==
  \A s \in Server : op[s].pc \in {"cancel", "finish"} => head.keys = {}

\* Until a register brings items, or an operation, over from an earlier term.
OneTerm ==
  /\ OpOfLast
  /\ KeysHaveItems
  /\ ItemForgotten
  /\ CancelHeadless
  /\ head.keys \subseteq items

IInv == Shape /\ (~relic => OneTerm)

-----------------------------------------------------------------------------
\* Nothing is registered at first.
LEMMA InitIInv == Init => IInv
<1> SUFFICES ASSUME Init PROVE IInv
  OBVIOUS
<1>1. head.keys = {} /\ \A s \in Server : op[s].pc = "idle" /\ mem[s].keys = {}
  BY DEF Init, NoOp, NoHead, Fresh
<1>2. Shape
  BY DEF Init, Shape, Fresh, NoOp, Leading
<1>3. OneTerm
  BY <1>1 DEF OneTerm, OpOfLast, KeysHaveItems, ItemForgotten, CancelHeadless
<1> QED
  BY <1>2, <1>3 DEF IInv

\* A step of the threads that changes at most refer_ keeps the invariant.
LEMMA ReferOnly ==
  ASSUME IInv, UNCHANGED <<head, items, last, op, relic>>,
         leader' \in {leader, NoServer},
         \/ UNCHANGED mem
         \/ leader \in Server /\ \E r : mem' = [mem EXCEPT ![leader].refer = r]
  PROVE  IInv'
<1>1. Shape' /\ \A s \in Server : mem'[s].keys = mem[s].keys
  <2>1. CASE UNCHANGED mem
    BY <2>1 DEF IInv, Shape, Leading
  <2>2. CASE leader \in Server /\ \E r : mem' = [mem EXCEPT ![leader].refer = r]
    <3> PICK r : mem' = [mem EXCEPT ![leader].refer = r]
      BY <2>2
    <3> QED
      BY <2>2 DEF IInv, Shape, Leading
  <2> QED
    BY <2>1, <2>2
<1>2. OneTerm => OneTerm'
  BY <1>1 DEF OneTerm, OpOfLast, KeysHaveItems, ItemForgotten, CancelHeadless
<1> QED
  BY <1>1, <1>2 DEF IInv

\* PutN changes at most refer_.
LEMMA PutNRefer ==
  ASSUME NEW n, Leading, IInv, mem' = PutN(n)
  PROVE  \/ UNCHANGED mem
         \/ leader \in Server /\ \E r : mem' = [mem EXCEPT ![leader].refer = r]
BY DEF PutN, Leading, IInv, Shape

-----------------------------------------------------------------------------
(* The register's operations.                                              *)

\* An operation is under way at the register of the server that led last.
LEMMA BusyLast ==
  ASSUME IInv, ~relic, NEW s \in Server, op[s].pc # "idle"
  PROVE  s = last
BY DEF IInv, OneTerm, OpOfLast

\* A step of an operation of server s, which leaves m in memory and o to be done.
LEMMA OperationStep ==
  ASSUME IInv, NEW s \in Server, NEW m, NEW o, UNCHANGED <<leader, last>>,
         m = [keys |-> m.keys, refer |-> m.refer, exist |-> m.exist],
         o = [pc |-> o.pc, todo |-> o.todo],
         mem' = [mem EXCEPT ![s] = m], op' = [op EXCEPT ![s] = o],
         relic' \in BOOLEAN,
         ~relic' => /\ ~relic /\ s = last
                    /\ m.keys \cup head'.keys \subseteq items'
                    /\ o.pc = "item" => o.todo \cap (head'.keys \cup m.keys) = {}
                    /\ o.pc \in {"cancel", "finish"} => head'.keys = {}
  PROVE  IInv'
<1>1. /\ mem'[s] = m /\ op'[s] = o
      /\ \A u \in Server : u # s => mem'[u] = mem[u] /\ op'[u] = op[u]
  BY DEF IInv, Shape
<1>2. Shape'
  BY <1>1 DEF IInv, Shape, Leading
<1>3. ASSUME ~relic' PROVE OneTerm'
  <2>1. \A u \in Server : u # s => op'[u].pc = "idle"
    BY <1>1, <1>3 DEF IInv, OneTerm, OpOfLast
  <2>2. OpOfLast' /\ KeysHaveItems'
    BY <1>1, <1>3, <2>1 DEF OpOfLast, KeysHaveItems
  <2>3. ItemForgotten' /\ CancelHeadless'
    BY <1>1, <1>3, <2>1 DEF ItemForgotten, CancelHeadless
  <2> QED
    BY <1>3, <2>2, <2>3 DEF OneTerm
<1> QED
  BY <1>2, <1>3 DEF IInv

\* The records that the operations leave.
LEMMA Fields ==
  /\ NoOp = [pc |-> NoOp.pc, todo |-> NoOp.todo] /\ NoOp.pc = "idle"
  /\ NoHead.keys = {} /\ Fresh.keys = {}
  /\ Fresh = [keys |-> Fresh.keys, refer |-> Fresh.refer, exist |-> Fresh.exist]
BY DEF NoOp, NoHead, Fresh

\* Init only starts.
LEMMA InitMigrateIInv ==
  ASSUME IInv, NEW s \in Server, NEW D, InitMigrate(s, D)
  PROVE  IInv'
<1> DEFINE o == [pc |-> "init", todo |-> D]
<1>1. /\ op' = [op EXCEPT ![s] = o] /\ mem' = [mem EXCEPT ![s] = mem[s]]
      /\ UNCHANGED <<head, items, leader, last>> /\ relic' = (relic \/ s # last)
  BY DEF InitMigrate, Commanded, terms, IInv, Shape
<1>2. o = [pc |-> o.pc, todo |-> o.todo] /\ o.pc = "init"
  OBVIOUS
<1> HIDE DEF o
<1>3. mem[s] = [keys |-> mem[s].keys, refer |-> mem[s].refer, exist |-> mem[s].exist]
      /\ relic' \in BOOLEAN
  BY <1>1 DEF IInv, Shape
<1>4. ~relic' => ~relic /\ s = last /\ mem[s].keys \cup head'.keys \subseteq items'
  BY <1>1 DEF IInv, OneTerm, KeysHaveItems
<1> QED
  BY <1>1, <1>2, <1>3, <1>4, OperationStep

\* An item is in floyd before it is in the list.
LEMMA InitItemIInv ==
  ASSUME IInv, NEW s \in Server, NEW d, InitItem(s, d)
  PROVE  IInv'
<1>1. /\ UNCHANGED <<head, leader, last, relic>> /\ op[s].pc = "init"
      /\ items \subseteq items' /\ relic' \in BOOLEAN
  BY DEF InitItem, terms, IInv, Shape
<1>2. ~relic => s = last /\ mem[s].keys \cup head.keys \subseteq items
  BY <1>1, BusyLast DEF IInv, OneTerm, KeysHaveItems
<1>3. CASE /\ items' = items \cup {d}
           /\ mem' = [mem EXCEPT ![s].keys = @ \cup {d}]
           /\ op' = [op EXCEPT ![s].todo = @ \ {d}]
  <2> DEFINE m == [mem[s] EXCEPT !.keys = @ \cup {d}]
             o == [op[s] EXCEPT !.todo = @ \ {d}]
  <2>1. mem' = [mem EXCEPT ![s] = m] /\ op' = [op EXCEPT ![s] = o]
    BY <1>3 DEF IInv, Shape
  <2>2. /\ m = [keys |-> m.keys, refer |-> m.refer, exist |-> m.exist]
        /\ m.keys = mem[s].keys \cup {d}
        /\ o = [pc |-> o.pc, todo |-> o.todo] /\ o.pc = "init"
    <3> DEFINE r == mem[s]
               q == op[s]
    <3>1. /\ r = [keys |-> r.keys, refer |-> r.refer, exist |-> r.exist]
          /\ q = [pc |-> q.pc, todo |-> q.todo] /\ q.pc = "init"
      BY <1>1 DEF IInv, Shape
    <3> HIDE DEF r, q
    <3>2. /\ [r EXCEPT !.keys = @ \cup {d}]
               = [keys |-> r.keys \cup {d}, refer |-> r.refer, exist |-> r.exist]
          /\ [q EXCEPT !.todo = @ \ {d}] = [pc |-> "init", todo |-> q.todo \ {d}]
      BY <3>1
    <3>3. /\ m = [keys |-> r.keys \cup {d}, refer |-> r.refer, exist |-> r.exist]
          /\ o = [pc |-> "init", todo |-> q.todo \ {d}]
      BY <3>2 DEF r, q
    <3> HIDE DEF m, o
    <3> QED
      BY <3>3 DEF r
  <2> HIDE DEF m, o
  <2>3. ~relic => m.keys \cup head'.keys \subseteq items'
    BY <1>1, <1>2, <1>3, <2>2
  <2> QED
    BY <1>1, <1>2, <2>1, <2>2, <2>3, OperationStep
<1>4. CASE op' = [op EXCEPT ![s] = NoOp] /\ UNCHANGED mem
  <2>1. mem' = [mem EXCEPT ![s] = mem[s]]
        /\ mem[s] = [keys |-> mem[s].keys, refer |-> mem[s].refer, exist |-> mem[s].exist]
    BY <1>4 DEF IInv, Shape
  <2>2. ~relic => mem[s].keys \cup head'.keys \subseteq items'
    BY <1>1, <1>2
  <2> QED
    BY <1>1, <1>2, <1>4, <2>1, <2>2, Fields, OperationStep
<1> QED
  BY <1>3, <1>4 DEF InitItem

\* The head that Init writes is the list.
LEMMA InitHeadIInv ==
  ASSUME IInv, NEW s \in Server, InitHead(s)
  PROVE  IInv'
<1>1. /\ UNCHANGED <<items, leader, last, relic>> /\ op[s].pc = "init"
      /\ head'.keys \in {head.keys, mem[s].keys} /\ op' = [op EXCEPT ![s] = NoOp]
      /\ relic' \in BOOLEAN
  BY DEF InitHead, terms, IInv, Shape
<1>2. ~relic => s = last /\ mem[s].keys \cup head'.keys \subseteq items'
  BY <1>1, BusyLast DEF IInv, OneTerm, KeysHaveItems
<1>3. PICK m : /\ m = [keys |-> m.keys, refer |-> m.refer, exist |-> m.exist]
               /\ mem' = [mem EXCEPT ![s] = m] /\ m.keys = mem[s].keys
  <2>1. CASE UNCHANGED mem
    BY <2>1 DEF IInv, Shape
  <2>2. CASE mem' = [mem EXCEPT ![s].exist = TRUE]
    <3>1. ASSUME NEW r, r = [keys |-> r.keys, refer |-> r.refer, exist |-> r.exist], NEW t
          PROVE  [r EXCEPT !.exist = t] = [keys |-> r.keys, refer |-> r.refer, exist |-> t]
      BY <3>1
    <3>2. mem' = [mem EXCEPT ![s] = [mem[s] EXCEPT !.exist = TRUE]]
      BY <2>2 DEF IInv, Shape
    <3>3. [mem[s] EXCEPT !.exist = TRUE]
            = [keys |-> mem[s].keys, refer |-> mem[s].refer, exist |-> TRUE]
      BY <3>1 DEF IInv, Shape
    <3> DEFINE m == [keys |-> mem[s].keys, refer |-> mem[s].refer, exist |-> TRUE]
    <3>4. mem' = [mem EXCEPT ![s] = m]
      BY <3>2, <3>3
    <3>5. m.keys = mem[s].keys /\ m = [keys |-> m.keys, refer |-> m.refer, exist |-> m.exist]
      OBVIOUS
    <3> HIDE DEF m
    <3> QED
      BY <3>4, <3>5
  <2> QED
    BY <2>1, <2>2 DEF InitHead
<1> QED
  BY <1>1, <1>2, <1>3, Fields, OperationStep

\* The head is deleted before anything else; m lists what the register lists.
LEMMA CancelWithoutLockIInv ==
  ASSUME IInv, NEW s \in Server, UNCHANGED <<items, leader, last>>,
         relic' \in BOOLEAN, ~relic' => ~relic /\ s = last,
         NEW m, m = [keys |-> mem[s].keys, refer |-> m.refer, exist |-> m.exist],
         NEW pc, pc \in {"cancel", "finish"}, CancelWithoutLock(s, m, pc)
  PROVE  IInv'
<1>1. /\ mem' = [mem EXCEPT ![s] = m] /\ head'.keys \in {head.keys, {}}
      /\ m.keys = mem[s].keys
  BY Fields DEF CancelWithoutLock
<1>2. ~relic' => m.keys \cup head'.keys \subseteq items'
  BY <1>1 DEF IInv, OneTerm, KeysHaveItems
<1>3. CASE op' = [op EXCEPT ![s] = NoOp]
  BY <1>1, <1>2, <1>3, Fields, OperationStep
<1>4. CASE head' = NoHead /\ op' = [op EXCEPT ![s] = [pc |-> pc, todo |-> {}]]
  <2> DEFINE o == [pc |-> pc, todo |-> {}]
  <2>1. o = [pc |-> o.pc, todo |-> o.todo] /\ o.todo = {} /\ op' = [op EXCEPT ![s] = o]
    BY <1>4
  <2> HIDE DEF o
  <2> QED
    BY <1>1, <1>2, <1>4, <2>1, Fields, OperationStep
<1> QED
  BY <1>3, <1>4 DEF CancelWithoutLock

\* Items go only when no head names them.
LEMMA CancelItemsIInv ==
  ASSUME IInv, NEW s \in Server, CancelItems(s)
  PROVE  IInv'
<1>1. /\ UNCHANGED <<head, leader, last, relic>> /\ relic' \in BOOLEAN
      /\ op[s].pc \in {"cancel", "finish"}
      /\ mem' = [mem EXCEPT ![s] = Fresh] /\ op' = [op EXCEPT ![s] = NoOp]
  BY DEF CancelItems, terms, IInv, Shape
<1>2. ~relic => s = last /\ head.keys = {}
  BY <1>1, BusyLast DEF IInv, OneTerm, CancelHeadless
<1> QED
  BY <1>1, <1>2, Fields, OperationStep

\* Cancel on command.
LEMMA CancelIInv ==
  ASSUME IInv, NEW s \in Server, Cancel(s)
  PROVE  IInv'
<1>1. /\ UNCHANGED <<items, leader, last>> /\ relic' = (relic \/ s # last)
      /\ CancelWithoutLock(s, mem[s], "cancel")
  BY DEF Cancel, Commanded, terms
<1>2. /\ mem[s] = [keys |-> mem[s].keys, refer |-> mem[s].refer, exist |-> mem[s].exist]
      /\ relic' \in BOOLEAN
  BY <1>1 DEF IInv, Shape
<1> QED
  BY <1>1, <1>2, CancelWithoutLockIInv

\* The item that Erase deletes is not missed.
LEMMA EraseItemIInv ==
  ASSUME IInv, NEW s \in Server, EraseItem(s)
  PROVE  IInv'
<1>1. /\ UNCHANGED <<head, mem, leader, last, relic>> /\ relic' \in BOOLEAN
      /\ op[s].pc = "item" /\ op' = [op EXCEPT ![s] = NoOp]
      /\ items' \in {items, items \ op[s].todo}
  BY DEF EraseItem, terms, IInv, Shape
<1>2. mem' = [mem EXCEPT ![s] = mem[s]]
      /\ mem[s] = [keys |-> mem[s].keys, refer |-> mem[s].refer, exist |-> mem[s].exist]
  BY <1>1 DEF IInv, Shape
<1>3. ~relic => s = last /\ mem[s].keys \cup head'.keys \subseteq items'
  <2> SUFFICES ASSUME ~relic PROVE s = last /\ mem[s].keys \cup head'.keys \subseteq items'
    OBVIOUS
  <2>1. s = last /\ mem[s].keys \cup head.keys \subseteq items
    BY <1>1, BusyLast DEF IInv, OneTerm, KeysHaveItems
  <2>2. op[s].todo \cap (head.keys \cup mem[s].keys) = {}
    BY <1>1 DEF IInv, OneTerm, ItemForgotten
  <2> QED
    BY <1>1, <2>1, <2>2
<1> QED
  BY <1>1, <1>2, <1>3, Fields, OperationStep

\* The head that Erase writes is the list without the item.
LEMMA EraseHeadIInv ==
  ASSUME IInv, leader \in Server, Leading, UNCHANGED <<leader, last, relic>>,
         NEW d, EraseHead(d)
  PROVE  IInv'
<1> DEFINE keys == me.keys \ {d}
           a == [keys |-> keys, refer |-> Minus(me.refer, 1), exist |-> me.exist]
           b == [me EXCEPT !.refer = Minus(@, 1)]
           o == [pc |-> "item", todo |-> {d}]
<1>1. /\ UNCHANGED items /\ relic' \in BOOLEAN /\ head'.keys \in {head.keys, keys}
      /\ me = mem[leader] /\ leader = last
  BY DEF EraseHead, IInv, Shape, me
<1>2. \/ op' = [op EXCEPT ![leader] = NoOp] /\ mem' = [mem EXCEPT ![leader] = b]
      \/ /\ op' = [op EXCEPT ![leader] = o] /\ mem' = [mem EXCEPT ![leader] = a]
         /\ head'.keys = keys
  <2>1. mem' = [mem EXCEPT ![leader].refer = Minus(@, 1)] => mem' = [mem EXCEPT ![leader] = b]
    BY <1>1 DEF IInv, Shape
  <2> QED
    BY <2>1 DEF EraseHead
<1>3. /\ a = [keys |-> a.keys, refer |-> a.refer, exist |-> a.exist] /\ a.keys = keys
      /\ b = [keys |-> b.keys, refer |-> b.refer, exist |-> b.exist] /\ b.keys = me.keys
      /\ o = [pc |-> o.pc, todo |-> o.todo] /\ o.pc = "item" /\ o.todo = {d}
  BY <1>1 DEF IInv, Shape
<1>4. ~relic => me.keys \cup head'.keys \subseteq items'
  BY <1>1 DEF IInv, OneTerm, KeysHaveItems
<1>5. d \notin keys /\ keys \subseteq me.keys
  OBVIOUS
<1> HIDE DEF a, b, o, keys
<1>6. CASE op' = [op EXCEPT ![leader] = NoOp] /\ mem' = [mem EXCEPT ![leader] = b]
  BY <1>1, <1>3, <1>4, <1>6, Fields, OperationStep
<1>7. CASE /\ op' = [op EXCEPT ![leader] = o] /\ mem' = [mem EXCEPT ![leader] = a]
           /\ head'.keys = keys
  <2>1. ~relic => /\ a.keys \cup head'.keys \subseteq items'
                  /\ o.todo \cap (head'.keys \cup a.keys) = {}
    BY <1>3, <1>4, <1>5, <1>7
  <2> QED
    BY <1>1, <1>3, <1>7, <2>1, OperationStep
<1> QED
  BY <1>2, <1>6, <1>7

\* Erase, as the update thread calls it.
LEMMA FinishItemIInv ==
  ASSUME IInv, NEW d, FinishItem(d)
  PROVE  IInv'
<1>1. /\ leader \in Server /\ Leading /\ UNCHANGED <<leader, last, relic>> /\ Erase(d)
      /\ me = mem[leader] /\ leader = last /\ relic' \in BOOLEAN
  BY DEF IInv, Shape, FinishItem, Unlocked, Leading, terms, me
<1>2. CASE UNCHANGED <<head, items, mem, op>>
  BY <1>1, <1>2, ReferOnly
<1>3. CASE CancelWithoutLock(leader, [me EXCEPT !.refer = Minus(@, 1)], "finish")
           /\ UNCHANGED items
  <2> DEFINE m == [me EXCEPT !.refer = Minus(@, 1)]
  <2>1. m = [keys |-> mem[leader].keys, refer |-> m.refer, exist |-> m.exist]
    BY <1>1 DEF IInv, Shape
  <2>2. CancelWithoutLock(leader, m, "finish") /\ UNCHANGED items
    BY <1>3
  <2> HIDE DEF m
  <2> QED
    BY <1>1, <2>1, <2>2, CancelWithoutLockIInv
<1>4. CASE EraseHead(d)
  BY <1>1, <1>4, EraseHeadIInv
<1> QED
  BY <1>1, <1>2, <1>3, <1>4 DEF Erase

-----------------------------------------------------------------------------
(* Leaders come and go.                                                    *)

\* Load adds what the head names, which is in floyd.
LEMMA BecomeLeaderIInv ==
  ASSUME IInv, NEW s \in Server, BecomeLeader(s)
  PROVE  IInv'
<1>1. UNCHANGED <<head, items, op>> /\ leader' = s /\ last' = s /\ op[s] = NoOp
  BY DEF BecomeLeader, threads
<1>2. Shape' /\ mem'[s].keys \subseteq mem[s].keys \cup head.keys
  <2>1. CASE UNCHANGED mem
    BY <1>1, <2>1 DEF IInv, Shape, BecomeLeader, Leading
  <2>2. CASE mem' = [mem EXCEPT ![s] = [keys |-> @.keys \cup head.keys,
                                        exist |-> TRUE, refer |-> 0]]
    BY <1>1, <2>2 DEF IInv, Shape, BecomeLeader, Leading
  <2> QED
    BY <2>1, <2>2 DEF BecomeLeader, Load
<1>3. ASSUME ~relic' PROVE OneTerm'
  <2>1. /\ ~relic /\ mem[s].keys \subseteq head.keys /\ OneTerm
        /\ \A t \in Server : op[t].pc = "idle"
    BY <1>1, <1>3, Fields DEF BecomeLeader, IInv, Shape
  <2>2. \A t \in Server : op'[t].pc = "idle"
    BY <1>1, <2>1
  <2>3. OpOfLast' /\ ItemForgotten' /\ CancelHeadless'
    BY <2>2 DEF OpOfLast, ItemForgotten, CancelHeadless
  <2>4. KeysHaveItems' /\ (head.keys \subseteq items)'
    BY <1>1, <1>2, <2>1 DEF OneTerm, KeysHaveItems
  <2> QED
    BY <2>3, <2>4 DEF OneTerm
<1> QED
  BY <1>2, <1>3 DEF IInv

\* A leader that resigns leaves the register as it is, in the middle of a command too.
LEMMA ResignIInv ==
  ASSUME IInv, Resign
  PROVE  IInv'
<1>1. /\ UNCHANGED <<head, items, last, op, relic>> /\ leader' = NoServer
      /\ Leading /\ mem' = PutN(Total(worker.batch))
  BY DEF Resign
<1> QED
  BY <1>1, PutNRefer, ReferOnly

\* A crash, in the middle of an operation too, leaves floyd as it is.
LEMMA CrashIInv ==
  ASSUME IInv, NEW s \in Server, Crash(s)
  PROVE  IInv'
<1>1. /\ UNCHANGED <<head, items, last, relic>> /\ leader' \in {leader, NoServer}
      /\ mem' = [mem EXCEPT ![s] = Fresh] /\ op' = [op EXCEPT ![s] = NoOp]
  BY DEF Crash
<1>2. /\ mem'[s] = Fresh /\ op'[s].pc = "idle" /\ Fresh.keys = {}
      /\ \A u \in Server : u # s => mem'[u] = mem[u] /\ op'[u] = op[u]
  BY <1>1, Fields DEF IInv, Shape
<1>3. Shape'
  BY <1>1, <1>2, Fields DEF IInv, Shape, Leading
<1>4. OneTerm => OneTerm'
  BY <1>1, <1>2 DEF OneTerm, OpOfLast, KeysHaveItems, ItemForgotten, CancelHeadless
<1> QED
  BY <1>1, <1>3, <1>4 DEF IInv

-----------------------------------------------------------------------------
\* What the three threads do otherwise changes at most refer_.
LEMMA ThreadsRefer ==
  ASSUME IInv,
         \/ Timer
         \/ Cron
         \/ UpdateFunc \/ ApplyOk \/ ApplyLost \/ ApplyFails
  PROVE  IInv'
<1>1. CASE GetN
  <2>1. UNCHANGED <<head, items, leader, last, op, relic>> /\ leader \in Server
    BY <1>1 DEF GetN, Unlocked, Leading, IInv, Shape, terms
  <2>2. \E r : mem' = [mem EXCEPT ![leader].refer = r]
    BY <1>1 DEF GetN
  <2> QED
    BY <2>1, <2>2, ReferOnly
<1>2. CASE ProcessMigrate
  BY <1>2, ReferOnly DEF ProcessMigrate, terms
<1>3. CASE ProcessDone
  <2>1. /\ UNCHANGED <<head, items, leader, last, op, relic>>
        /\ Leading /\ mem' = PutN(proc.remain)
    BY <1>3 DEF ProcessDone, Unlocked, terms
  <2> QED
    BY <2>1, PutNRefer, ReferOnly
<1>4. ASSUME NEW d \in Diff, ConditionMet(d) PROVE IInv'
  BY <1>4, ReferOnly DEF ConditionMet, terms
<1>5. ASSUME NEW d \in Diff, RecoverWhenError(d) PROVE IInv'
  <2>1. /\ UNCHANGED <<head, items, leader, last, op, relic>>
        /\ Leading /\ mem' = PutN(1)
    BY <1>5 DEF RecoverWhenError, Unlocked, terms
  <2> QED
    BY <2>1, PutNRefer, ReferOnly
<1>6. CASE ConditionActive
  BY <1>6, ReferOnly DEF ConditionActive, terms
<1>7. CASE UpdateFunc \/ ApplyOk \/ ApplyFails
  BY <1>7, ReferOnly DEF UpdateFunc, ApplyOk, ApplyFails, terms
<1>8. CASE ApplyLost
  <2>1. /\ UNCHANGED <<head, items, leader, last, op, relic>>
        /\ Leading /\ mem' = PutN(Total(worker.batch))
    BY <1>8 DEF ApplyLost, Unlocked, terms
  <2> QED
    BY <2>1, PutNRefer, ReferOnly
<1> QED
  BY <1>1, <1>2, <1>3, <1>4, <1>5, <1>6, <1>7, <1>8 DEF Timer, Cron

\* Every step keeps the invariant.
LEMMA NextIInv == IInv /\ [Next]_vars => IInv'
<1> SUFFICES ASSUME IInv, [Next]_vars PROVE IInv'
  OBVIOUS
<1>1. ASSUME NEW s \in Server, NEW D \in Request, InitMigrate(s, D) PROVE IInv'
  BY <1>1, InitMigrateIInv
<1>2. ASSUME NEW s \in Server, Cancel(s) PROVE IInv'
  BY <1>2, CancelIInv
<1>3. ASSUME NEW s \in Server, Register(s) PROVE IInv'
  BY <1>3, InitItemIInv, InitHeadIInv, CancelItemsIInv, EraseItemIInv DEF Register
<1>4. ASSUME NEW d \in Diff, FinishItem(d) PROVE IInv'
  BY <1>4, FinishItemIInv
<1>5. CASE Timer \/ Cron \/ UpdateFunc \/ ApplyOk \/ ApplyLost \/ ApplyFails
  BY <1>5, ThreadsRefer
<1>6. CASE Resign
  BY <1>6, ResignIInv
<1>7. ASSUME NEW s \in Server, BecomeLeader(s) \/ Crash(s) PROVE IInv'
  BY <1>7, BecomeLeaderIInv, CrashIInv
<1>8. CASE UNCHANGED vars
  BY <1>8, ReferOnly DEF vars
<1> QED
  BY <1>1, <1>2, <1>3, <1>4, <1>5, <1>6, <1>7, <1>8 DEF Next, Update

\* Whatever call of floyd fails and wherever a server crashes in Init, Erase or
\* Cancel of ZPMetaMigrateRegister, the head names only items that floyd has,
\* so that Load finds them, unless a leader began with items of an earlier term
\* or a command of an earlier leader ran into its term.
THEOREM RegisterLoadable == Spec => []HeadHasItems
<1>1. IInv => HeadHasItems
  BY DEF IInv, OneTerm, HeadHasItems
<1> QED
  BY InitIInv, NextIInv, <1>1, PTL DEF Spec

-----------------------------------------------------------------------------
(* How many handovers there are.                                            *)

LEMMA TotalType ==
  ASSUME NEW f \in Count
  PROVE  IsFiniteSet(Copies(f)) /\ Total(f) \in Nat
<1>1. IsFiniteSet(1 .. MaxCopies)
  BY FS_Interval, MigrateAssumption
<1>2. IsFiniteSet(Diff \X (1 .. MaxCopies))
  BY <1>1, FS_Product, MigrateAssumption
<1>3. Copies(f) \in SUBSET (Diff \X (1 .. MaxCopies))
  BY DEF Copies
<1>4. IsFiniteSet(Copies(f))
  BY <1>2, <1>3, FS_Subset
<1> QED BY <1>4, FS_CardinalityType DEF Total

LEMMA TotalNone == None \in Count /\ Total(None) = 0
<1>1. None \in Count
  BY MigrateAssumption DEF None, Count
<1>2. Copies(None) = {}
  <2> SUFFICES ASSUME NEW p \in Diff \X (1 .. MaxCopies), p[2] <= None[p[1]] PROVE FALSE
    BY DEF Copies
  <2> QED BY DEF None
<1> QED BY <1>1, <1>2, FS_EmptySet DEF Total

\* No copies: no item.
LEMMA TotalZero ==
  ASSUME NEW f \in Count, Total(f) = 0, NEW d \in Diff
  PROVE  f[d] = 0
<1>1. Copies(f) = {}
  BY TotalType, FS_EmptySet DEF Total
<1>2. f[d] \in 0 .. MaxCopies
  BY DEF Count
<1> SUFFICES ASSUME f[d] # 0 PROVE FALSE
  OBVIOUS
<1>3. <<d, 1>> \in Copies(f)
  BY <1>2, MigrateAssumption DEF Copies
<1> QED BY <1>1, <1>3

LEMMA TotalPlus ==
  ASSUME NEW f \in Count, NEW d \in Diff, f[d] < MaxCopies
  PROVE  /\ [f EXCEPT ![d] = @ + 1] \in Count
         /\ Total([f EXCEPT ![d] = @ + 1]) = Total(f) + 1
<1> DEFINE g == [f EXCEPT ![d] = @ + 1]
           c == <<d, f[d] + 1>>
<1>1. f[d] \in 0 .. MaxCopies /\ f[d] + 1 \in 1 .. MaxCopies
  BY MigrateAssumption DEF Count
<1>2. g \in Count /\ g[d] = f[d] + 1 /\ \A e \in Diff \ {d} : g[e] = f[e]
  BY <1>1 DEF Count
<1> HIDE DEF g
<1>3. Copies(g) = Copies(f) \cup {c}
  <2>1. ASSUME NEW e \in Diff, NEW n \in 1 .. MaxCopies
        PROVE  n <= g[e] <=> n <= f[e] \/ <<e, n>> = c
    <3>1. CASE e = d
      BY <1>1, <1>2, <3>1
    <3>2. CASE e # d
      BY <1>2, <3>2
    <3> QED BY <3>1, <3>2
  <2>2. c \in Diff \X (1 .. MaxCopies)
    BY <1>1
  <2> HIDE DEF c
  <2>3. \A p \in Diff \X (1 .. MaxCopies) : p = <<p[1], p[2]>> /\ p[1] \in Diff /\ p[2] \in 1 .. MaxCopies
    OBVIOUS
  <2>4. \A p \in Diff \X (1 .. MaxCopies) : p[2] <= g[p[1]] <=> p[2] <= f[p[1]] \/ p = c
    BY <2>1, <2>3
  <2> QED BY <2>2, <2>4 DEF Copies
<1>4. c \notin Copies(f)
  BY <1>1 DEF Copies
<1>5. Cardinality(Copies(f) \cup {c}) = Cardinality(Copies(f)) + 1
  <2> HIDE DEF c
  <2> QED BY <1>4, TotalType, FS_AddElement
<1>6. Total(g) = Total(f) + 1
  BY <1>3, <1>5 DEF Total
<1> QED BY <1>2, <1>6 DEF g

LEMMA TotalMinus ==
  ASSUME NEW f \in Count, NEW d \in Diff, f[d] > 0
  PROVE  /\ [f EXCEPT ![d] = @ - 1] \in Count
         /\ Total([f EXCEPT ![d] = @ - 1]) = Total(f) - 1 /\ Total(f) > 0
<1> DEFINE g == [f EXCEPT ![d] = @ - 1]
<1>1. f[d] \in 1 .. MaxCopies
  BY DEF Count
<1>2. g \in Count /\ g[d] = f[d] - 1 /\ \A e \in Diff \ {d} : g[e] = f[e]
  BY <1>1, MigrateAssumption DEF Count
<1>3. f = [g EXCEPT ![d] = @ + 1]
  <2> HIDE DEF g
  <2> DEFINE h == [g EXCEPT ![d] = @ + 1]
  <2>1. h = [e \in Diff |-> h[e]] /\ f = [e \in Diff |-> f[e]]
    BY <1>2 DEF Count
  <2>2. h[d] = g[d] + 1 /\ \A e \in Diff \ {d} : h[e] = g[e]
    BY <1>2 DEF Count
  <2> HIDE DEF h
  <2>3. \A e \in Diff : h[e] = f[e]
    BY <1>1, <1>2, <2>2
  <2>4. h = f
    BY <2>1, <2>3
  <2> QED BY <2>4 DEF h
<1>4. g[d] < MaxCopies
  BY <1>1, <1>2, MigrateAssumption
<1> HIDE DEF g
<1>5. Total(f) = Total(g) + 1
  BY <1>2, <1>3, <1>4, TotalPlus
<1>6. Total(g) \in Nat /\ Total(f) \in Nat
  BY <1>2, TotalType
<1>7. Total(g) = Total(f) - 1 /\ Total(f) > 0
  BY <1>5, <1>6
<1> QED BY <1>2, <1>7 DEF g

LEMMA MinusFacts ==
  ASSUME NEW r \in -MinRefer .. Cardinality(Diff), NEW n \in Nat
  PROVE  /\ Minus(r, n) \in -MinRefer .. Cardinality(Diff)
         /\ r >= n => Minus(r, n) = r - n
<1>1. MinRefer \in Nat /\ Cardinality(Diff) \in Nat
  BY MigrateAssumption, FS_CardinalityType
<1>2. CASE r - n >= -MinRefer
  <2>1. Minus(r, n) = r - n
    BY <1>1, <1>2 DEF Minus, Max
  <2> QED BY <1>1, <1>2, <2>1
<1>3. CASE ~(r - n >= -MinRefer)
  <2>1. Minus(r, n) = -MinRefer
    BY <1>1, <1>3 DEF Minus, Max
  <2> QED BY <1>1, <1>3, <2>1
<1> QED BY <1>2, <1>3

-----------------------------------------------------------------------------
(* The inductive invariant of the counts.                                   *)

Mem == [keys : SUBSET Diff, exist : BOOLEAN, refer : -MinRefer .. Cardinality(Diff)]

Op == [pc : {"idle", "init", "item", "cancel", "finish"}, todo : SUBSET Diff]

\* What a register has in floyd and in memory: a migration that exists has items,
\* a head lists some, and one that does not exist has none out.  Init has no
\* migration yet, and at its end items.
RegisterOK ==
  /\ head \in [there : BOOLEAN, keys : SUBSET Diff]
  /\ items \subseteq Diff
  /\ mem \in [Server -> Mem]
  /\ leader \in Server \cup {NoServer} /\ last \in Server \cup {NoServer}
  /\ served \subseteq Server
  /\ op \in [Server -> Op]
  /\ odd \in BOOLEAN /\ relic \in BOOLEAN
  /\ head.keys # {} <=> head.there
  /\ \A s \in Server : IF mem[s].exist THEN mem[s].keys # {} ELSE mem[s].refer = 0
  /\ \A s \in Server : op[s].pc = "init" =>
       ~mem[s].exist /\ (op[s].todo # {} \/ mem[s].keys # {})

\* What the threads have: the items that the timer has left to look at are among
\* those it has to put back, and there is room for the condition that is half done.
ThreadsOK ==
  /\ proc \in [todo : SUBSET Diff, remain : 0 .. Cardinality(Diff)]
  /\ proc.remain >= Cardinality(proc.todo)
  /\ waiting \in Count /\ pending \in Count
  /\ half \in Diff \cup {NoDiff}
  /\ half # NoDiff => waiting[half] < MaxCopies
  /\ worker \in [pc : {"idle", "apply", "erase"}, batch : Count]
  /\ stuck \in BOOLEAN

\* Without a leader the threads rest.
RestOK ==
  leader = NoServer =>
    /\ proc = NoProc /\ half = NoDiff
    /\ waiting = None /\ pending = None /\ worker = Sleeping

\* How often an item is out.
OutAt(d) == waiting[d] + pending[d] + worker.batch[d] + (IF d \in proc.todo THEN 1 ELSE 0)

\* refer_ counts what is out, also while an operation of the register is under way,
\* and that is listed; it is out once.
CountInv ==
  Leading /\ ~odd /\ ~relic =>
    /\ \A d \in Diff : OutAt(d) <= 1
    /\ me.exist => me.refer = InFlight /\ \A d \in Diff : OutAt(d) > 0 => d \in me.keys

CInv == RegisterOK /\ ThreadsOK /\ RestOK /\ CountInv

-----------------------------------------------------------------------------

LEMMA ThreadFacts ==
  ASSUME ThreadsOK
  PROVE  /\ proc.todo \subseteq Diff /\ proc.remain \in Nat /\ IsFiniteSet(proc.todo)
         /\ Total(waiting) \in Nat /\ Total(pending) \in Nat /\ Total(worker.batch) \in Nat
         /\ worker.batch \in Count /\ InFlight \in Nat
         /\ \A d \in Diff : /\ waiting[d] \in Nat /\ pending[d] \in Nat /\ worker.batch[d] \in Nat
                            /\ OutAt(d) \in Nat
<1>1. proc.todo \in SUBSET Diff /\ proc.remain \in Nat /\ worker.batch \in Count
  BY MigrateAssumption, FS_CardinalityType DEF ThreadsOK
<1>2. IsFiniteSet(proc.todo)
  BY <1>1, FS_Subset, MigrateAssumption
<1>3. Total(waiting) \in Nat /\ Total(pending) \in Nat /\ Total(worker.batch) \in Nat
  BY <1>1, TotalType DEF ThreadsOK
<1>4. InFlight \in Nat
  BY <1>1, <1>3 DEF InFlight
<1>5. ASSUME NEW d \in Diff
      PROVE  /\ waiting[d] \in Nat /\ pending[d] \in Nat /\ worker.batch[d] \in Nat
             /\ OutAt(d) \in Nat
  <2>1. waiting[d] \in Nat /\ pending[d] \in Nat /\ worker.batch[d] \in Nat
    BY <1>1, MigrateAssumption DEF ThreadsOK, Count
  <2> QED BY <2>1 DEF OutAt
<1> QED BY <1>1, <1>2, <1>3, <1>4, <1>5

Counted == InFlight \in Nat /\ \A d \in Diff : OutAt(d) \in Nat

LEMMA ThreadsCounted == ThreadsOK => Counted
  BY ThreadFacts DEF Counted

\* Nothing is in flight: no item is out.
LEMMA NothingOut ==
  ASSUME ThreadsOK, InFlight = 0, NEW d \in Diff PROVE OutAt(d) = 0
<1>1. proc.remain = 0 /\ Total(waiting) = 0 /\ Total(pending) = 0 /\ Total(worker.batch) = 0
  <2>1. /\ proc.remain \in Nat /\ Total(waiting) \in Nat /\ Total(pending) \in Nat
        /\ Total(worker.batch) \in Nat
    BY ThreadFacts
  <2>2. ASSUME NEW a \in Nat, NEW b \in Nat, NEW c \in Nat, NEW e \in Nat, a + b + c + e = 0
        PROVE  a = 0 /\ b = 0 /\ c = 0 /\ e = 0
    BY <2>2
  <2>3. proc.remain + Total(waiting) + Total(pending) + Total(worker.batch) = 0
    BY DEF InFlight
  <2> QED BY <2>1, <2>2, <2>3
<1>2. waiting[d] = 0 /\ pending[d] = 0 /\ worker.batch[d] = 0
  BY <1>1, ThreadFacts, TotalZero DEF ThreadsOK
<1>3. proc.todo = {}
  <2>1. Cardinality(proc.todo) = 0
    BY <1>1, ThreadFacts, FS_CardinalityType DEF ThreadsOK
  <2> QED BY <2>1, ThreadFacts, FS_EmptySet
<1> QED BY <1>2, <1>3 DEF OutAt

\* The threads at rest.
LEMMA RestFacts ==
  ASSUME proc = NoProc, half = NoDiff, waiting = None, pending = None, worker = Sleeping,
         stuck \in BOOLEAN
  PROVE  ThreadsOK /\ InFlight = 0
<1>1. None \in Count /\ Total(None) = 0 /\ Cardinality({}) = 0 /\ Cardinality(Diff) \in Nat
  BY TotalNone, FS_EmptySet, FS_CardinalityType, MigrateAssumption
<1>2. proc.todo = {} /\ proc.remain = 0 /\ worker.batch = None /\ worker.pc = "idle"
  BY DEF NoProc, Sleeping
<1>3. proc \in [todo : SUBSET Diff, remain : 0 .. Cardinality(Diff)]
  BY <1>1 DEF NoProc
<1>4. worker \in [pc : {"idle", "apply", "erase"}, batch : Count]
  BY <1>1 DEF Sleeping
<1>5. proc.remain >= Cardinality(proc.todo)
  BY <1>1, <1>2
<1>6. ThreadsOK
  BY <1>1, <1>3, <1>4, <1>5 DEF ThreadsOK
<1>7. InFlight = 0
  BY <1>1, <1>2 DEF InFlight
<1> QED BY <1>6, <1>7

LEMMA MemFacts ==
  ASSUME RegisterOK, Leading
  PROVE  /\ leader \in Server /\ me \in Mem /\ me.keys \subseteq Diff /\ me.exist \in BOOLEAN
         /\ me.refer \in -MinRefer .. Cardinality(Diff) /\ me.refer \in Int
         /\ me = [keys |-> me.keys, exist |-> me.exist, refer |-> me.refer]
<1>1. leader \in Server
  BY DEF RegisterOK, Leading
<1>2. me \in Mem
  BY <1>1 DEF RegisterOK, me
<1>3. MinRefer \in Nat /\ Cardinality(Diff) \in Nat
  BY FS_CardinalityType, MigrateAssumption
<1> QED BY <1>1, <1>2, <1>3 DEF Mem

\* PutN brings refer_ down, if a migration exists.
LEMMA PutNFacts ==
  ASSUME RegisterOK, Leading, NEW n \in Nat, mem' = PutN(n)
  PROVE  /\ mem' \in [Server -> Mem] /\ \A s \in Server \ {leader} : mem'[s] = mem[s]
         /\ mem'[leader].keys = me.keys /\ mem'[leader].exist = me.exist
         /\ mem'[leader].refer = IF me.exist THEN Minus(me.refer, n) ELSE me.refer
<1>0. leader \in Server /\ me \in Mem /\ mem \in [Server -> Mem]
  BY MemFacts DEF RegisterOK
<1>1. CASE me.exist
  <2> DEFINE m == [me EXCEPT !.refer = Minus(me.refer, n)]
  <2>1. mem' = [mem EXCEPT ![leader] = m]
    BY <1>1 DEF PutN, me
  <2>2. Minus(me.refer, n) \in -MinRefer .. Cardinality(Diff)
    BY MemFacts, MinusFacts
  <2>3. m \in Mem /\ m.keys = me.keys /\ m.exist = me.exist /\ m.refer = Minus(me.refer, n)
    BY <1>0, <2>2 DEF Mem
  <2> HIDE DEF m
  <2>4. mem'[leader] = m /\ mem' \in [Server -> Mem] /\ \A s \in Server \ {leader} : mem'[s] = mem[s]
    BY <1>0, <2>1, <2>3
  <2> QED BY <1>1, <2>3, <2>4
<1>2. CASE ~me.exist
  <2>1. mem' = mem /\ mem'[leader] = me
    BY <1>2 DEF PutN, me
  <2> QED BY <1>0, <1>2, <2>1
<1> QED BY <1>1, <1>2

PutBack(n) == mem' = PutN(n) \/ (n = 0 /\ UNCHANGED mem)

\* The threads move items on, or put n of them back.
LEMMA ThreadStep ==
  ASSUME CInv, Leading, UNCHANGED <<head, items, terms, op, relic>>, ThreadsOK',
         NEW n \in Nat, PutBack(n),
         odd' \in BOOLEAN, odd => odd',
         ~odd' => /\ InFlight = InFlight' + n
                  /\ \A d \in Diff : OutAt(d)' <= OutAt(d)
  PROVE  CInv'
<1> USE DEF CInv
<1>1. /\ mem' \in [Server -> Mem] /\ \A s \in Server \ {leader} : mem'[s] = mem[s]
      /\ me'.keys = me.keys /\ me'.exist = me.exist
      /\ me'.refer = IF me.exist THEN Minus(me.refer, n) ELSE me.refer
  <2>1. CASE mem' = PutN(n)
    BY <2>1, PutNFacts DEF me, terms
  <2>2. CASE n = 0 /\ UNCHANGED mem
    <3>1. me' = me /\ me.refer >= 0 => Minus(me.refer, 0) = me.refer
      BY <2>2, MemFacts, MinusFacts DEF me, terms
    <3>2. Minus(me.refer, 0) = me.refer
      <4>1. MinRefer \in Nat /\ Cardinality(Diff) \in Nat
        BY FS_CardinalityType, MigrateAssumption
      <4>2. me.refer \in Int /\ me.refer >= -MinRefer
        BY <4>1, MemFacts
      <4> QED BY <4>1, <4>2 DEF Minus, Max
    <3>3. me' = me
      BY <2>2 DEF me, terms
    <3> QED BY <2>2, <3>2, <3>3 DEF RegisterOK
  <2> QED BY <2>1, <2>2 DEF PutBack
<1>2. leader \in Server /\ mem[leader] = me /\ mem'[leader] = me'
  BY MemFacts DEF me, terms
<1>3. RegisterOK'
  <2>1. ASSUME NEW s \in Server
        PROVE  /\ mem'[s].exist = mem[s].exist /\ mem'[s].keys = mem[s].keys
               /\ IF mem'[s].exist THEN mem'[s].keys # {} ELSE mem'[s].refer = 0
    <3>1. CASE s = leader
      BY <1>1, <1>2, <3>1 DEF RegisterOK
    <3>2. CASE s # leader
      BY <1>1, <3>2 DEF RegisterOK
    <3> QED BY <3>1, <3>2
  <2> QED BY <1>1, <2>1 DEF RegisterOK, terms
<1>4. leader' = leader /\ RestOK'
  BY DEF RestOK, Leading, terms
<1>5. CountInv'
  <2> SUFFICES ASSUME ~odd', ~relic
               PROVE  /\ \A d \in Diff : OutAt(d)' <= 1
                      /\ me'.exist => /\ me'.refer = InFlight'
                                      /\ \A d \in Diff : OutAt(d)' > 0 => d \in me'.keys
    BY <1>4 DEF CountInv, Leading
  <2>1. \A d \in Diff : OutAt(d) <= 1
    BY <1>4 DEF CountInv
  <2>2. InFlight' \in Nat /\ \A d \in Diff : OutAt(d)' \in Nat
    <3>1. Counted'
      BY ThreadsCounted, PTL
    <3> QED BY <3>1 DEF Counted
  <2>3. \A d \in Diff : OutAt(d) \in Nat
    BY ThreadFacts
  <2>4. \A d \in Diff : OutAt(d)' <= 1 /\ (OutAt(d)' > 0 => OutAt(d) > 0)
    BY <2>1, <2>2, <2>3
  <2>5. ASSUME me'.exist PROVE me'.refer = InFlight'
    <3>1. me.refer = InFlight /\ me.exist
      BY <1>1, <2>5 DEF CountInv
    <3>2. Minus(me.refer, n) = me.refer - n
      BY <2>2, <3>1, MemFacts, MinusFacts
    <3>3. InFlight = InFlight' + n /\ me'.refer = me.refer - n
      BY <1>1, <3>1, <3>2
    <3>4. ASSUME NEW a \in Nat, NEW b, b = a + n PROVE b - n = a
      BY <3>4
    <3>5. InFlight - n = InFlight'
      BY <2>2, <3>3, <3>4
    <3> QED BY <3>1, <3>3, <3>5
  <2>6. me'.exist => \A d \in Diff : OutAt(d) > 0 => d \in me'.keys
    BY <1>1 DEF CountInv
  <2> QED BY <2>4, <2>5, <2>6
<1> QED BY <1>3, <1>4, <1>5

-----------------------------------------------------------------------------
(* The threads.                                                             *)

\* One item less to look at.
LEMMA TodoLess ==
  ASSUME ThreadsOK, NEW d \in proc.todo
  PROVE  /\ proc.remain \in 1 .. Cardinality(Diff) /\ proc.todo \ {d} \in SUBSET Diff
         /\ Cardinality(proc.todo \ {d}) = Cardinality(proc.todo) - 1
         /\ Cardinality(proc.todo) \in Nat /\ d \in Diff
         /\ proc.remain >= Cardinality(proc.todo)
<1>1. IsFiniteSet(proc.todo) /\ proc.todo \subseteq Diff /\ proc.remain \in Nat
  BY ThreadFacts
<1>2. Cardinality(proc.todo) \in Nat /\ Cardinality(proc.todo \ {d}) = Cardinality(proc.todo) - 1
  BY <1>1, FS_CardinalityType, FS_RemoveElement
<1>3. IsFiniteSet(proc.todo \ {d})
  BY <1>1, FS_RemoveElement
<1>4. Cardinality(proc.todo \ {d}) \in Nat
  BY <1>3, FS_CardinalityType
<1>5. proc.remain \in 0 .. Cardinality(Diff) /\ proc.remain >= Cardinality(proc.todo)
  BY DEF ThreadsOK
<1>6. Cardinality(Diff) \in Nat
  BY FS_CardinalityType, MigrateAssumption
<1>7. proc.remain \in 1 .. Cardinality(Diff)
  BY <1>2, <1>4, <1>5, <1>6
<1> QED BY <1>1, <1>2, <1>5, <1>7

LEMMA ProcessMigrateCInv ==
  ASSUME CInv, ProcessMigrate PROVE CInv'
<1> USE DEF CInv
<1>0. /\ Leading /\ UNCHANGED <<head, items, terms, op, relic, mem, half, worker, stuck, odd>>
  BY DEF ProcessMigrate
<1>1. ASSUME ThreadsOK', InFlight' = InFlight, \A d \in Diff : OutAt(d)' <= OutAt(d)
      PROVE  CInv'
  <2>1. InFlight' = InFlight + 0 /\ InFlight = InFlight' + 0
    BY <1>1, ThreadFacts
  <2>2. odd' \in BOOLEAN /\ (odd => odd')
    BY <1>0 DEF RegisterOK
  <2>3. PutBack(0)
    BY <1>0 DEF PutBack
  <2> QED BY <1>0, <1>1, <2>1, <2>2, <2>3, ThreadStep
<1>2. ASSUME NEW d \in Diff, PassOver(d) PROVE CInv'
  <2>1. /\ d \in proc.todo /\ proc' = [proc EXCEPT !.todo = proc.todo \ {d}]
        /\ UNCHANGED <<waiting, pending>>
    BY <1>2 DEF PassOver
  <2>2. proc'.todo = proc.todo \ {d} /\ proc'.remain = proc.remain
        /\ proc' \in [todo : SUBSET Diff, remain : 0 .. Cardinality(Diff)]
    BY <2>1 DEF ThreadsOK
  <2>3. proc'.remain >= Cardinality(proc'.todo)
    <3>1. proc.remain \in Nat
      BY ThreadFacts
    <3> QED BY <2>1, <2>2, <3>1, TodoLess
  <2>4. ThreadsOK'
    BY <1>0, <2>1, <2>2, <2>3 DEF ThreadsOK
  <2>5. InFlight' = InFlight
    BY <1>0, <2>1, <2>2 DEF InFlight
  <2>6. \A e \in Diff : OutAt(e)' <= OutAt(e)
    BY <1>0, <2>1, <2>2, ThreadFacts DEF OutAt
  <2> QED BY <1>1, <2>4, <2>5, <2>6
<1>3. CASE BreakOff
  <2>1. proc' = [proc EXCEPT !.todo = {}] /\ UNCHANGED <<waiting, pending>>
    BY <1>3 DEF BreakOff
  <2>2. proc'.todo = {} /\ proc'.remain = proc.remain
        /\ proc' \in [todo : SUBSET Diff, remain : 0 .. Cardinality(Diff)]
    BY <2>1 DEF ThreadsOK
  <2>3. proc'.remain >= Cardinality(proc'.todo)
    <3>1. proc.remain \in Nat /\ Cardinality({}) = 0
      BY ThreadFacts, FS_EmptySet
    <3> QED BY <2>2, <3>1
  <2>4. ThreadsOK'
    BY <1>0, <2>1, <2>2, <2>3 DEF ThreadsOK
  <2>5. InFlight' = InFlight
    BY <1>0, <2>1, <2>2 DEF InFlight
  <2>6. \A e \in Diff : OutAt(e)' <= OutAt(e)
    BY <1>0, <2>1, <2>2, ThreadFacts DEF OutAt
  <2> QED BY <1>1, <2>4, <2>5, <2>6
<1>4. ASSUME NEW d \in Diff, HandoverNow(d) PROVE CInv'
  <2>1. /\ d \in proc.todo /\ pending[d] < MaxCopies
        /\ proc' = [todo |-> proc.todo \ {d}, remain |-> proc.remain - 1]
        /\ pending' = [pending EXCEPT ![d] = @ + 1] /\ UNCHANGED waiting
    BY <1>4 DEF HandoverNow
  <2>2. proc'.todo = proc.todo \ {d} /\ proc'.remain = proc.remain - 1
    BY <2>1
  <2>3. /\ proc' \in [todo : SUBSET Diff, remain : 0 .. Cardinality(Diff)]
        /\ proc'.remain >= Cardinality(proc'.todo)
    <3>1. Cardinality(Diff) \in Nat
      BY FS_CardinalityType, MigrateAssumption
    <3>2. d \in proc.todo
      BY <2>1
    <3>3. /\ proc.remain \in 1 .. Cardinality(Diff) /\ proc.todo \ {d} \in SUBSET Diff
          /\ Cardinality(proc.todo \ {d}) = Cardinality(proc.todo) - 1
          /\ Cardinality(proc.todo) \in Nat /\ proc.remain >= Cardinality(proc.todo)
      BY <3>2, TodoLess
    <3>4. proc' = [todo |-> proc.todo \ {d}, remain |-> proc.remain - 1]
      BY <2>1
    <3> QED BY <2>2, <3>1, <3>3, <3>4
  <2>4. pending' \in Count /\ Total(pending') = Total(pending) + 1
    BY <2>1, TotalPlus DEF ThreadsOK
  <2>5. ThreadsOK'
    BY <1>0, <2>1, <2>3, <2>4 DEF ThreadsOK
  <2>6. InFlight' = InFlight
    <3>1. InFlight' = proc'.remain + Total(waiting) + Total(pending') + Total(worker.batch)
      BY <1>0, <2>1 DEF InFlight
    <3>2. ASSUME NEW a \in Nat, NEW b \in Nat, NEW c \in Nat, NEW e \in Nat
          PROVE  (a - 1) + b + (c + 1) + e = a + b + c + e
      OBVIOUS
    <3>3. /\ proc.remain \in Nat /\ Total(waiting) \in Nat /\ Total(pending) \in Nat
          /\ Total(worker.batch) \in Nat
      BY ThreadFacts
    <3> QED BY <2>2, <2>4, <3>1, <3>2, <3>3 DEF InFlight
  <2>7. ASSUME NEW e \in Diff PROVE OutAt(e)' <= OutAt(e)
    <3>1. pending'[e] = IF e = d THEN pending[e] + 1 ELSE pending[e]
      BY <2>1 DEF ThreadsOK, Count
    <3>2. waiting[e] \in Nat /\ pending[e] \in Nat /\ worker.batch[e] \in Nat
      BY ThreadFacts
    <3> QED BY <1>0, <2>1, <2>2, <3>1, <3>2 DEF OutAt
  <2> QED BY <1>1, <2>5, <2>6, <2>7
<1>5. ASSUME NEW d \in Diff, WaitToHandover(d) PROVE CInv'
  <2>1. /\ d \in proc.todo /\ waiting[d] + (IF half = d THEN 1 ELSE 0) < MaxCopies
        /\ proc' = [todo |-> proc.todo \ {d}, remain |-> proc.remain - 1]
        /\ waiting' = [waiting EXCEPT ![d] = @ + 1] /\ UNCHANGED pending
    BY <1>5 DEF WaitToHandover
  <2>2. proc'.todo = proc.todo \ {d} /\ proc'.remain = proc.remain - 1
    BY <2>1
  <2>3. /\ proc' \in [todo : SUBSET Diff, remain : 0 .. Cardinality(Diff)]
        /\ proc'.remain >= Cardinality(proc'.todo)
    <3>1. Cardinality(Diff) \in Nat
      BY FS_CardinalityType, MigrateAssumption
    <3>2. d \in proc.todo
      BY <2>1
    <3>3. /\ proc.remain \in 1 .. Cardinality(Diff) /\ proc.todo \ {d} \in SUBSET Diff
          /\ Cardinality(proc.todo \ {d}) = Cardinality(proc.todo) - 1
          /\ Cardinality(proc.todo) \in Nat /\ proc.remain >= Cardinality(proc.todo)
      BY <3>2, TodoLess
    <3>4. proc' = [todo |-> proc.todo \ {d}, remain |-> proc.remain - 1]
      BY <2>1
    <3> QED BY <2>2, <3>1, <3>3, <3>4
  <2>4. waiting' \in Count /\ Total(waiting') = Total(waiting) + 1
    <3>1. waiting[d] < MaxCopies
      BY <2>1, ThreadFacts, MigrateAssumption
    <3> QED BY <2>1, <3>1, TotalPlus DEF ThreadsOK
  <2>5. half # NoDiff => waiting'[half] < MaxCopies
    <3>1. waiting[d] \in Nat /\ MaxCopies \in Nat
      BY ThreadFacts, MigrateAssumption
    <3> QED BY <2>1, <3>1 DEF ThreadsOK, Count
  <2>6. ThreadsOK'
    BY <1>0, <2>1, <2>3, <2>4, <2>5 DEF ThreadsOK
  <2>7. InFlight' = InFlight
    <3>1. InFlight' = proc'.remain + Total(waiting') + Total(pending) + Total(worker.batch)
      BY <1>0, <2>1 DEF InFlight
    <3>2. ASSUME NEW a \in Nat, NEW b \in Nat, NEW c \in Nat, NEW e \in Nat
          PROVE  (a - 1) + (b + 1) + c + e = a + b + c + e
      OBVIOUS
    <3>3. /\ proc.remain \in Nat /\ Total(waiting) \in Nat /\ Total(pending) \in Nat
          /\ Total(worker.batch) \in Nat
      BY ThreadFacts
    <3> QED BY <2>2, <2>4, <3>1, <3>2, <3>3 DEF InFlight
  <2>8. ASSUME NEW e \in Diff PROVE OutAt(e)' <= OutAt(e)
    <3>1. waiting'[e] = IF e = d THEN waiting[e] + 1 ELSE waiting[e]
      BY <2>1 DEF ThreadsOK, Count
    <3>2. waiting[e] \in Nat /\ pending[e] \in Nat /\ worker.batch[e] \in Nat
      BY ThreadFacts
    <3> QED BY <1>0, <2>1, <2>2, <3>1, <3>2 DEF OutAt
  <2> QED BY <1>1, <2>6, <2>7, <2>8
<1> QED BY <1>2, <1>3, <1>4, <1>5 DEF ProcessMigrate

\* What is left is put back.
LEMMA ProcessDoneCInv ==
  ASSUME CInv, ProcessDone PROVE CInv'
<1> USE DEF CInv
<1>0. /\ Leading /\ UNCHANGED <<head, items, terms, op, relic, waiting, half, pending, worker, stuck, odd>>
      /\ proc.todo = {} /\ mem' = PutN(proc.remain) /\ proc' = NoProc
  BY DEF ProcessDone, Unlocked
<1>1. proc'.todo = {} /\ proc'.remain = 0
  BY <1>0 DEF NoProc
<1>2. ThreadsOK'
  <2>1. Cardinality({}) = 0 /\ Cardinality(Diff) \in Nat
    BY FS_EmptySet, FS_CardinalityType, MigrateAssumption
  <2>2. proc' \in [todo : SUBSET Diff, remain : 0 .. Cardinality(Diff)]
    BY <1>0, <2>1 DEF NoProc
  <2> QED BY <1>0, <1>1, <2>1, <2>2 DEF ThreadsOK
<1>3. InFlight = InFlight' + proc.remain /\ proc.remain \in Nat
  <2>1. InFlight' = 0 + Total(waiting) + Total(pending) + Total(worker.batch)
    BY <1>0, <1>1 DEF InFlight
  <2>2. ASSUME NEW a \in Nat, NEW b \in Nat, NEW c \in Nat, NEW e \in Nat
        PROVE  a + b + c + e = (0 + b + c + e) + a
    OBVIOUS
  <2>3. /\ proc.remain \in Nat /\ Total(waiting) \in Nat /\ Total(pending) \in Nat
        /\ Total(worker.batch) \in Nat
    BY ThreadFacts
  <2> QED BY <2>1, <2>2, <2>3 DEF InFlight
<1>4. \A e \in Diff : OutAt(e)' <= OutAt(e)
  BY <1>0, <1>1, ThreadFacts DEF OutAt
<1>5. odd' \in BOOLEAN /\ (odd => odd')
  BY <1>0 DEF RegisterOK
<1>6. PutBack(proc.remain)
  BY DEF ProcessDone, PutBack
<1>7. UNCHANGED <<head, items, terms, op, relic>> /\ Leading
  BY <1>0
<1> QED BY <1>2, <1>3, <1>4, <1>5, <1>6, <1>7, ThreadStep

\* The handover is pending and no longer waited for.
LEMMA ConditionMetCInv ==
  ASSUME CInv, NEW d \in Diff, ConditionMet(d) PROVE CInv'
<1> USE DEF CInv
<1>0. /\ Leading /\ UNCHANGED <<head, items, mem, terms, op, relic, proc, worker, stuck, odd>>
      /\ waiting[d] > 0 /\ pending[d] < MaxCopies /\ half' = d
      /\ pending' = [pending EXCEPT ![d] = @ + 1] /\ waiting' = [waiting EXCEPT ![d] = @ - 1]
  BY DEF ConditionMet
<1>1. /\ pending' \in Count /\ Total(pending') = Total(pending) + 1
      /\ waiting' \in Count /\ Total(waiting') = Total(waiting) - 1
  BY <1>0, TotalPlus, TotalMinus DEF ThreadsOK
<1>2. waiting[d] \in 0 .. MaxCopies /\ waiting'[d] = waiting[d] - 1
  BY <1>0 DEF ThreadsOK, Count
<1>3. ThreadsOK'
  BY <1>0, <1>1, <1>2, MigrateAssumption DEF ThreadsOK
<1>4. InFlight = InFlight' + 0
  <2>1. InFlight' = proc.remain + Total(waiting') + Total(pending') + Total(worker.batch)
    BY <1>0 DEF InFlight
  <2>2. ASSUME NEW a \in Nat, NEW b \in Nat, NEW c \in Nat, NEW e \in Nat
        PROVE  a + b + c + e = (a + (b - 1) + (c + 1) + e) + 0
    OBVIOUS
  <2>3. /\ proc.remain \in Nat /\ Total(waiting) \in Nat /\ Total(pending) \in Nat
        /\ Total(worker.batch) \in Nat
    BY ThreadFacts
  <2> QED BY <1>1, <2>1, <2>2, <2>3 DEF InFlight
<1>5. ASSUME NEW e \in Diff PROVE OutAt(e)' <= OutAt(e)
  <2>1. /\ pending'[e] = IF e = d THEN pending[e] + 1 ELSE pending[e]
        /\ waiting'[e] = IF e = d THEN waiting[e] - 1 ELSE waiting[e]
    BY <1>0 DEF ThreadsOK, Count
  <2>2. waiting[e] \in Nat /\ pending[e] \in Nat /\ worker.batch[e] \in Nat
    BY ThreadFacts
  <2> QED BY <1>0, <2>1, <2>2 DEF OutAt
<1>6. odd' \in BOOLEAN /\ (odd => odd')
  BY <1>0 DEF RegisterOK
<1>7. PutBack(0)
  BY <1>0 DEF PutBack
<1> QED BY <1>0, <1>3, <1>4, <1>5, <1>6, <1>7, ThreadStep

LEMMA ConditionActiveCInv ==
  ASSUME CInv, ConditionActive PROVE CInv'
<1> USE DEF CInv
<1>0. /\ UNCHANGED <<head, items, mem, terms, op, relic, proc, pending, worker, stuck>>
      /\ half # NoDiff /\ half' = NoDiff
      /\ IF stuck THEN odd' = TRUE /\ waiting' = [waiting EXCEPT ![half] = @ + 1]
         ELSE UNCHANGED <<odd, waiting>>
  BY DEF ConditionActive
<1>1. Leading
  BY <1>0 DEF RestOK, Leading
<1>2. half \in Diff /\ waiting[half] < MaxCopies
  BY <1>0 DEF ThreadsOK
<1>3. waiting' \in Count
  BY <1>0, <1>2, TotalPlus DEF ThreadsOK
<1>4. ThreadsOK'
  BY <1>0, <1>3 DEF ThreadsOK
<1>5. odd' \in BOOLEAN /\ (odd => odd')
  BY <1>0 DEF RegisterOK
<1>6. ~odd' => InFlight = InFlight' + 0 /\ \A e \in Diff : OutAt(e)' <= OutAt(e)
  <2> SUFFICES ASSUME ~odd' PROVE InFlight = InFlight' + 0 /\ \A e \in Diff : OutAt(e)' <= OutAt(e)
    OBVIOUS
  <2>1. waiting' = waiting
    BY <1>0
  <2>2. InFlight' = InFlight /\ \A e \in Diff : OutAt(e)' = OutAt(e)
    BY <1>0, <2>1 DEF InFlight, OutAt
  <2> QED BY <2>2, ThreadFacts
<1>7. PutBack(0)
  BY <1>0 DEF PutBack
<1> QED BY <1>0, <1>1, <1>4, <1>5, <1>6, <1>7, ThreadStep

LEMMA RecoverWhenErrorCInv ==
  ASSUME CInv, NEW d \in Diff, RecoverWhenError(d) PROVE CInv'
<1> USE DEF CInv
<1>0. /\ Leading /\ UNCHANGED <<head, items, terms, op, relic, proc, half, pending, worker, stuck>>
      /\ half = NoDiff /\ waiting[d] > 0 /\ mem' = PutN(1)
      /\ IF stuck THEN odd' = TRUE /\ UNCHANGED waiting
         ELSE waiting' = [waiting EXCEPT ![d] = @ - 1] /\ UNCHANGED odd
  BY DEF RecoverWhenError, Unlocked
<1>1. odd' \in BOOLEAN /\ (odd => odd')
  BY <1>0 DEF RegisterOK
<1>9. PutBack(1)
  BY DEF RecoverWhenError, PutBack
<1>2. CASE stuck
  <2>1. ThreadsOK'
    BY <1>0, <1>2 DEF ThreadsOK
  <2>2. odd'
    BY <1>0, <1>2
  <2> QED BY <1>0, <1>1, <1>9, <2>1, <2>2, ThreadStep
<1>3. CASE ~stuck
  <2>0. waiting' = [waiting EXCEPT ![d] = @ - 1]
    BY <1>0, <1>3
  <2>1. waiting' \in Count /\ Total(waiting') = Total(waiting) - 1
    BY <1>0, <2>0, TotalMinus DEF ThreadsOK
  <2>2. ThreadsOK'
    BY <1>0, <2>1 DEF ThreadsOK
  <2>3. InFlight = InFlight' + 1
    <3>1. InFlight' = proc.remain + Total(waiting') + Total(pending) + Total(worker.batch)
      BY <1>0 DEF InFlight
    <3>2. ASSUME NEW a \in Nat, NEW b \in Nat, NEW c \in Nat, NEW e \in Nat
          PROVE  a + b + c + e = (a + (b - 1) + c + e) + 1
      OBVIOUS
    <3>3. /\ proc.remain \in Nat /\ Total(waiting) \in Nat /\ Total(pending) \in Nat
          /\ Total(worker.batch) \in Nat
      BY ThreadFacts
    <3> QED BY <2>1, <3>1, <3>2, <3>3 DEF InFlight
  <2>4. ASSUME NEW e \in Diff PROVE OutAt(e)' <= OutAt(e)
    <3>1. waiting'[e] = IF e = d THEN waiting[e] - 1 ELSE waiting[e]
      BY <2>0 DEF ThreadsOK, Count
    <3>2. waiting[e] \in Nat /\ pending[e] \in Nat /\ worker.batch[e] \in Nat
      BY ThreadFacts
    <3> QED BY <1>0, <3>1, <3>2 DEF OutAt
  <2> QED BY <1>0, <1>1, <1>9, <2>2, <2>3, <2>4, ThreadStep
<1> QED BY <1>2, <1>3

\* The update thread takes the handovers, applies them or puts them all back.
LEMMA UpdateCInv ==
  ASSUME CInv, UpdateFunc \/ ApplyFails \/ ApplyOk \/ ApplyLost PROVE CInv'
<1> USE DEF CInv
<1>0. /\ worker \in [pc : {"idle", "apply", "erase"}, batch : Count] /\ pending \in Count
      /\ proc.remain \in Nat /\ Total(waiting) \in Nat /\ Total(pending) \in Nat
      /\ Total(worker.batch) \in Nat /\ InFlight \in Nat
      /\ \A e \in Diff : waiting[e] \in Nat /\ pending[e] \in Nat /\ worker.batch[e] \in Nat
  BY ThreadFacts DEF ThreadsOK
<1>1. CASE UpdateFunc
  <2>1. /\ Leading /\ UNCHANGED <<head, items, mem, terms, op, relic, proc, waiting, half, stuck, odd>>
        /\ worker = Sleeping /\ worker' = [pc |-> "apply", batch |-> pending] /\ pending' = None
    BY <1>1 DEF UpdateFunc
  <2>2. worker.batch = None /\ worker'.batch = pending
    BY <2>1 DEF Sleeping
  <2>3. ThreadsOK'
    BY <1>0, <2>1, TotalNone DEF ThreadsOK
  <2>4. InFlight = InFlight' + 0
    <3>1. InFlight' = proc.remain + Total(waiting) + 0 + Total(pending)
      BY <2>1, <2>2, TotalNone DEF InFlight
    <3>2. InFlight = proc.remain + Total(waiting) + Total(pending) + 0
      BY <2>2, TotalNone DEF InFlight
    <3>3. ASSUME NEW a \in Nat, NEW b \in Nat, NEW c \in Nat
          PROVE  a + b + c + 0 = (a + b + 0 + c) + 0
      OBVIOUS
    <3> QED BY <1>0, <3>1, <3>2, <3>3
  <2>5. ASSUME NEW e \in Diff PROVE OutAt(e)' <= OutAt(e)
    <3>1. worker.batch[e] = 0 /\ pending'[e] = 0
      BY <2>1, <2>2 DEF None
    <3>2. waiting[e] \in Nat /\ pending[e] \in Nat
      BY <1>0
    <3> QED BY <2>1, <2>2, <3>1, <3>2 DEF OutAt
  <2>6. odd' \in BOOLEAN /\ (odd => odd')
    BY <2>1 DEF RegisterOK
  <2>7. PutBack(0)
    BY <2>1 DEF PutBack
  <2> QED BY <2>1, <2>3, <2>4, <2>5, <2>6, <2>7, ThreadStep
<1>2. CASE ApplyFails \/ ApplyOk
  <2>1. /\ UNCHANGED <<head, items, mem, terms, op, relic, proc, waiting, half, pending, odd>>
        /\ worker.pc = "apply" /\ stuck' \in BOOLEAN
        /\ worker' = worker \/ worker' = [worker EXCEPT !.pc = "erase"]
    BY <1>2 DEF ApplyFails, ApplyOk
  <2>2. Leading
    BY <2>1 DEF RestOK, Leading, Sleeping
  <2>3. /\ worker' \in [pc : {"idle", "apply", "erase"}, batch : Count]
        /\ worker'.batch = worker.batch
    BY <1>0, <2>1
  <2>4. ThreadsOK'
    BY <2>1, <2>3 DEF ThreadsOK
  <2>5. InFlight' = InFlight /\ \A e \in Diff : OutAt(e)' = OutAt(e)
    BY <2>1, <2>3 DEF InFlight, OutAt
  <2>6. InFlight = InFlight' + 0 /\ \A e \in Diff : OutAt(e)' <= OutAt(e)
    BY <1>0, <2>5, ThreadFacts
  <2>7. odd' \in BOOLEAN /\ (odd => odd')
    BY <2>1 DEF RegisterOK
  <2>8. PutBack(0)
    BY <2>1 DEF PutBack
  <2> QED BY <2>1, <2>2, <2>4, <2>6, <2>7, <2>8, ThreadStep
<1>3. CASE ApplyLost
  <2>1. /\ Leading /\ UNCHANGED <<head, items, terms, op, relic, proc, waiting, half, pending, odd>>
        /\ mem' = PutN(Total(worker.batch)) /\ worker' = Sleeping /\ stuck' = FALSE
    BY <1>3 DEF ApplyLost, Unlocked
  <2>2. worker'.batch = None /\ worker' \in [pc : {"idle", "apply", "erase"}, batch : Count]
    BY <2>1, TotalNone DEF Sleeping
  <2>3. ThreadsOK'
    BY <2>1, <2>2 DEF ThreadsOK
  <2>4. InFlight = InFlight' + Total(worker.batch)
    <3>1. InFlight' = proc.remain + Total(waiting) + Total(pending) + 0
      BY <2>1, <2>2, TotalNone DEF InFlight
    <3>3. ASSUME NEW a \in Nat, NEW b \in Nat, NEW c \in Nat, NEW e \in Nat
          PROVE  a + b + c + e = (a + b + c + 0) + e
      OBVIOUS
    <3> QED BY <1>0, <3>1, <3>3 DEF InFlight
  <2>5. ASSUME NEW e \in Diff PROVE OutAt(e)' <= OutAt(e)
    <3>1. worker'.batch[e] = 0
      BY <2>2 DEF None
    <3>2. waiting[e] \in Nat /\ pending[e] \in Nat /\ worker.batch[e] \in Nat
      BY <1>0
    <3> QED BY <2>1, <3>1, <3>2 DEF OutAt
  <2>6. odd' \in BOOLEAN /\ (odd => odd')
    BY <2>1 DEF RegisterOK
  <2>7. PutBack(Total(worker.batch))
    BY <1>3 DEF ApplyLost, PutBack
  <2> QED BY <1>0, <2>1, <2>3, <2>4, <2>5, <2>6, <2>7, ThreadStep
<1> QED BY <1>1, <1>2, <1>3

\* GetN takes items out when none is, or is odd.
LEMMA GetNCInv ==
  ASSUME CInv, GetN PROVE CInv'
<1> USE DEF CInv
<1>0. /\ Leading /\ me.exist /\ proc = NoProc
      /\ UNCHANGED <<head, items, terms, op, waiting, half, pending, worker, stuck, relic>>
  BY DEF GetN, Unlocked
<1>1. PICK D \in SUBSET (me.keys \cap items) :
        /\ D # {}
        /\ mem' = [mem EXCEPT ![leader].refer = Cardinality(D)]
        /\ proc' = [todo |-> D, remain |-> Cardinality(D)]
        /\ odd' = (odd \/ InFlight # 0)
  BY DEF GetN
<1>2. leader \in Server /\ me \in Mem /\ mem \in [Server -> Mem]
  BY <1>0, MemFacts DEF RegisterOK
<1>3. D \in SUBSET Diff /\ IsFiniteSet(D) /\ Cardinality(D) \in 0 .. Cardinality(Diff)
      /\ Cardinality(D) \in Nat
  <2>1. D \in SUBSET Diff
    BY <1>0, MemFacts
  <2> QED BY <2>1, FS_Subset, FS_CardinalityType, MigrateAssumption
<1> DEFINE m == [me EXCEPT !.refer = Cardinality(D)]
<1>4. m \in Mem /\ m.keys = me.keys /\ m.exist = me.exist /\ m.refer = Cardinality(D)
  <2>1. Cardinality(D) \in -MinRefer .. Cardinality(Diff)
    BY <1>3, MigrateAssumption, FS_CardinalityType
  <2> QED BY <1>2, <2>1 DEF Mem
<1>5. mem' = [mem EXCEPT ![leader] = m]
  BY <1>1 DEF me
<1> HIDE DEF m
<1>6. me' = m /\ mem' \in [Server -> Mem] /\ \A s \in Server \ {leader} : mem'[s] = mem[s]
  BY <1>0, <1>2, <1>4, <1>5 DEF me, terms
<1>7. RegisterOK'
  <2>1. ASSUME NEW s \in Server
        PROVE  /\ mem'[s].exist = mem[s].exist /\ mem'[s].keys = mem[s].keys
               /\ IF mem'[s].exist THEN mem'[s].keys # {} ELSE mem'[s].refer = 0
    <3>1. CASE s = leader
      <4>1. mem'[s] = m
        BY <1>0, <1>6, <3>1 DEF me, terms
      <4> QED BY <1>0, <1>2, <1>4, <4>1, <3>1 DEF RegisterOK, me
    <3>2. CASE s # leader
      BY <1>6, <3>2 DEF RegisterOK
    <3> QED BY <3>1, <3>2
  <2>2. odd' \in BOOLEAN
    BY <1>1
  <2> QED BY <1>0, <1>6, <2>1, <2>2 DEF RegisterOK, terms
<1>8. proc'.todo = D /\ proc'.remain = Cardinality(D)
  BY <1>1
<1>9. ThreadsOK'
  BY <1>0, <1>1, <1>3, <1>8 DEF ThreadsOK
<1>10. leader' = leader /\ RestOK'
  BY <1>0 DEF RestOK, Leading, terms
<1>11. CountInv'
  <2> SUFFICES ASSUME ~odd', ~relic
               PROVE  /\ \A d \in Diff : OutAt(d)' <= 1
                      /\ me'.refer = InFlight' /\ \A d \in Diff : OutAt(d)' > 0 => d \in me'.keys
    BY <1>0, <1>10 DEF CountInv
  <2>1. InFlight = 0
    BY <1>1
  <2>2. \A d \in Diff : OutAt(d) = 0
    BY <2>1, NothingOut
  <2>3. proc.todo = {} /\ proc.remain = 0
    BY <1>0 DEF NoProc
  <2>4. ASSUME NEW d \in Diff PROVE OutAt(d)' = IF d \in D THEN 1 ELSE 0
    <3>1. waiting[d] \in Nat /\ pending[d] \in Nat /\ worker.batch[d] \in Nat
      BY ThreadFacts
    <3>2. waiting[d] + pending[d] + worker.batch[d] = 0
      BY <2>2, <2>3, <3>1 DEF OutAt
    <3> QED BY <1>0, <1>8, <3>1, <3>2 DEF OutAt
  <2>5. InFlight' = Cardinality(D)
    <3>1. InFlight' = Cardinality(D) + Total(waiting) + Total(pending) + Total(worker.batch)
      BY <1>0, <1>8 DEF InFlight
    <3>2. Total(waiting) \in Nat /\ Total(pending) \in Nat /\ Total(worker.batch) \in Nat
      BY ThreadFacts
    <3>3. 0 + Total(waiting) + Total(pending) + Total(worker.batch) = 0
      BY <2>1, <2>3 DEF InFlight
    <3>4. ASSUME NEW a \in Nat, NEW b \in Nat, NEW c \in Nat, NEW e \in Nat, 0 + b + c + e = 0
          PROVE  a + b + c + e = a
      BY <3>4
    <3> QED BY <1>3, <3>1, <3>2, <3>3, <3>4
  <2> QED BY <1>4, <1>6, <2>4, <2>5
<1> QED BY <1>7, <1>9, <1>10, <1>11

-----------------------------------------------------------------------------
(* The register.                                                            *)

\* Server s has m in memory, and o to do.
LEMMA RegisterSet ==
  ASSUME RegisterOK, NEW s \in Server, NEW m \in Mem, NEW o \in Op,
         mem' = [mem EXCEPT ![s] = m], op' = [op EXCEPT ![s] = o], UNCHANGED terms,
         head' \in [there : BOOLEAN, keys : SUBSET Diff], head'.keys # {} <=> head'.there,
         items' \subseteq Diff, odd' \in BOOLEAN, relic' \in BOOLEAN,
         IF m.exist THEN m.keys # {} ELSE m.refer = 0,
         o.pc = "init" => ~m.exist /\ (o.todo # {} \/ m.keys # {})
  PROVE  /\ RegisterOK' /\ mem'[s] = m
         /\ \A u \in Server \ {s} : mem'[u] = mem[u]
<1>1. /\ mem' \in [Server -> Mem] /\ mem'[s] = m
      /\ \A u \in Server \ {s} : mem'[u] = mem[u]
  BY DEF RegisterOK
<1>2. /\ op' \in [Server -> Op] /\ op'[s] = o
      /\ \A u \in Server \ {s} : op'[u] = op[u]
  BY DEF RegisterOK
<1>3. ASSUME NEW u \in Server
      PROVE  /\ IF mem'[u].exist THEN mem'[u].keys # {} ELSE mem'[u].refer = 0
             /\ op'[u].pc = "init" =>
                  ~mem'[u].exist /\ (op'[u].todo # {} \/ mem'[u].keys # {})
  <2>1. CASE u = s
    BY <1>1, <1>2, <2>1
  <2>2. CASE u # s
    BY <1>1, <1>2, <2>2 DEF RegisterOK
  <2> QED BY <2>1, <2>2
<1>4. /\ leader' \in Server \cup {NoServer} /\ last' \in Server \cup {NoServer}
      /\ served' \subseteq Server
  BY DEF RegisterOK, terms
<1> QED BY <1>1, <1>2, <1>3, <1>4 DEF RegisterOK

\* An operation of the register of s while the threads stay as they are.  It is
\* the leader's register that counts.
LEMMA RegisterStep ==
  ASSUME CInv, NEW s \in Server, UNCHANGED <<terms, threads>>, RegisterOK',
         odd => odd', relic => relic', \A u \in Server \ {s} : mem'[u] = mem[u],
         s = leader /\ ~odd' /\ ~relic' /\ mem'[s].exist =>
           mem'[s].refer = InFlight /\ \A d \in Diff : OutAt(d) > 0 => d \in mem'[s].keys
  PROVE  CInv'
<1> USE DEF CInv
<1>1. UNCHANGED <<leader, proc, waiting, half, pending, worker, stuck>>
  BY DEF threads, terms
<1>2. ThreadsOK'
  BY <1>1 DEF ThreadsOK
<1>3. RestOK'
  BY <1>1 DEF RestOK
<1>4. InFlight' = InFlight /\ \A d \in Diff : OutAt(d)' = OutAt(d)
  BY <1>1 DEF InFlight, OutAt
<1>5. Leading => leader \in Server
  BY DEF RegisterOK, Leading
<1>6. Leading /\ s # leader => me' = me
  BY <1>1, <1>5 DEF me
<1>7. s = leader => me' = mem'[s]
  BY <1>1 DEF me
<1>8. CountInv'
  BY <1>1, <1>4, <1>6, <1>7 DEF CountInv, Leading
<1> QED BY <1>2, <1>3, <1>8

\* The register of a server, and what the leader's counts.
LEMMA RegisterFacts ==
  ASSUME CInv, NEW s \in Server
  PROVE  /\ mem[s] \in Mem /\ mem[s].keys \subseteq Diff /\ mem = [mem EXCEPT ![s] = mem[s]]
         /\ IF mem[s].exist THEN mem[s].keys # {} ELSE mem[s].refer = 0
         /\ head \in [there : BOOLEAN, keys : SUBSET Diff] /\ (head.keys # {} <=> head.there)
         /\ items \subseteq Diff /\ odd \in BOOLEAN /\ relic \in BOOLEAN
         /\ s = leader /\ ~odd /\ ~relic /\ mem[s].exist =>
              mem[s].refer = InFlight /\ \A d \in Diff : OutAt(d) > 0 => d \in mem[s].keys
         /\ NoOp \in Op /\ NoOp.pc = "idle"
         /\ NoHead \in [there : BOOLEAN, keys : SUBSET Diff] /\ ~NoHead.there /\ NoHead.keys = {}
         /\ Fresh \in Mem /\ Fresh.exist = FALSE /\ Fresh.refer = 0
<1>1. /\ mem[s] \in Mem /\ mem = [mem EXCEPT ![s] = mem[s]]
      /\ IF mem[s].exist THEN mem[s].keys # {} ELSE mem[s].refer = 0
      /\ head \in [there : BOOLEAN, keys : SUBSET Diff] /\ (head.keys # {} <=> head.there)
      /\ items \subseteq Diff /\ odd \in BOOLEAN /\ relic \in BOOLEAN
  BY DEF CInv, RegisterOK
<1>2. mem[s].keys \subseteq Diff
  BY <1>1 DEF Mem
<1>3. s = leader => Leading /\ me = mem[s]
  BY MigrateAssumption DEF Leading, me
<1>4. s = leader /\ ~odd /\ ~relic /\ mem[s].exist =>
        mem[s].refer = InFlight /\ \A d \in Diff : OutAt(d) > 0 => d \in mem[s].keys
  BY <1>3 DEF CInv, CountInv
<1>5. NoOp \in Op /\ NoOp.pc = "idle"
  BY DEF NoOp, Op
<1>6. NoHead \in [there : BOOLEAN, keys : SUBSET Diff] /\ ~NoHead.there /\ NoHead.keys = {}
  BY DEF NoHead
<1>7. Fresh \in Mem /\ Fresh.exist = FALSE /\ Fresh.refer = 0
  BY MigrateAssumption, FS_CardinalityType DEF Fresh, Mem
<1> QED BY <1>1, <1>2, <1>4, <1>5, <1>6, <1>7

LEMMA InitMigrateCInv ==
  ASSUME CInv, NEW s \in Server, NEW D \in Request, InitMigrate(s, D) PROVE CInv'
<1> DEFINE o == [pc |-> "init", todo |-> D]
<1>1. /\ ~mem[s].exist /\ op' = [op EXCEPT ![s] = o] /\ relic' = (relic \/ s # last)
      /\ UNCHANGED <<head, items, mem, terms, threads, odd>>
  BY DEF InitMigrate, Commanded
<1>2. o \in Op /\ o.pc = "init" /\ o.todo # {}
  BY DEF Op, Request
<1> HIDE DEF o
<1>3. relic' \in BOOLEAN /\ (relic => relic') /\ (odd => odd')
  BY <1>1, RegisterFacts
<1>4. /\ RegisterOK' /\ mem'[s] = mem[s]
      /\ \A u \in Server \ {s} : mem'[u] = mem[u]
  BY <1>1, <1>2, <1>3, RegisterFacts, RegisterSet DEF CInv
<1>5. s = leader /\ ~odd' /\ ~relic' /\ mem'[s].exist =>
        mem'[s].refer = InFlight /\ \A d \in Diff : OutAt(d) > 0 => d \in mem'[s].keys
  BY <1>1, <1>4
<1> QED BY <1>1, <1>3, <1>4, <1>5, RegisterStep

LEMMA InitItemCInv ==
  ASSUME CInv, NEW s \in Server, NEW d \in Diff, InitItem(s, d) PROVE CInv'
<1>1. /\ op[s].pc = "init" /\ d \in op[s].todo /\ UNCHANGED <<head, terms, threads, odd, relic>>
      /\ items' \in {items, items \cup {d}}
  BY DEF InitItem
<1>2. ~mem[s].exist /\ mem[s].refer = 0 /\ items' \subseteq Diff /\ op[s] \in Op
  BY <1>1, RegisterFacts DEF CInv, RegisterOK
<1>3. CASE /\ mem' = [mem EXCEPT ![s].keys = @ \cup {d}]
           /\ op' = [op EXCEPT ![s].todo = @ \ {d}]
  <2> DEFINE m == [mem[s] EXCEPT !.keys = @ \cup {d}]
             o == [op[s] EXCEPT !.todo = @ \ {d}]
  <2>1. mem' = [mem EXCEPT ![s] = m] /\ op' = [op EXCEPT ![s] = o]
    BY <1>3 DEF CInv, RegisterOK
  <2>2. m \in Mem /\ m.keys = mem[s].keys \cup {d} /\ ~m.exist /\ m.refer = 0
    BY <1>2, RegisterFacts DEF Mem
  <2>3. o \in Op
    BY <1>2 DEF Op
  <2> HIDE DEF m, o
  <2>4. /\ RegisterOK' /\ mem'[s] = m
        /\ \A u \in Server \ {s} : mem'[u] = mem[u]
    BY <1>1, <1>2, <2>1, <2>2, <2>3, RegisterFacts, RegisterSet DEF CInv
  <2> QED BY <1>1, <2>2, <2>4, RegisterStep
<1>4. CASE op' = [op EXCEPT ![s] = NoOp] /\ UNCHANGED mem
  <2>1. mem' = [mem EXCEPT ![s] = mem[s]]
    BY <1>4, RegisterFacts
  <2>2. /\ RegisterOK' /\ mem'[s] = mem[s]
        /\ \A u \in Server \ {s} : mem'[u] = mem[u]
    BY <1>1, <1>2, <1>4, <2>1, RegisterFacts, RegisterSet DEF CInv
  <2> QED BY <1>1, <1>2, <2>2, RegisterStep
<1> QED BY <1>3, <1>4 DEF InitItem

\* The migration exists from now on: none of its items is out.
LEMMA InitHeadCInv ==
  ASSUME CInv, NEW s \in Server, InitHead(s) PROVE CInv'
<1> DEFINE h == [there |-> TRUE, keys |-> mem[s].keys]
<1>1. /\ op[s].pc = "init" /\ op[s].todo = {} /\ op' = [op EXCEPT ![s] = NoOp]
      /\ UNCHANGED <<items, terms, threads, relic>> /\ head' \in {head, h}
  BY DEF InitHead
<1>2. ~mem[s].exist /\ mem[s].refer = 0 /\ mem[s].keys # {} /\ items' \subseteq Diff
  BY <1>1, RegisterFacts DEF CInv, RegisterOK
<1>3. h \in [there : BOOLEAN, keys : SUBSET Diff] /\ (h.keys # {} <=> h.there)
  BY <1>2, RegisterFacts
<1> HIDE DEF h
<1>4. head' \in [there : BOOLEAN, keys : SUBSET Diff] /\ (head'.keys # {} <=> head'.there)
  BY <1>1, <1>3, RegisterFacts
<1>5. CASE mem' = [mem EXCEPT ![s].exist = TRUE] /\ odd' = (odd \/ InFlight # 0)
  <2> DEFINE m == [mem[s] EXCEPT !.exist = TRUE]
  <2>1. mem' = [mem EXCEPT ![s] = m]
    BY <1>5 DEF CInv, RegisterOK
  <2>2. m \in Mem /\ m.keys = mem[s].keys /\ m.exist = TRUE /\ m.refer = 0
    BY <1>2, RegisterFacts DEF Mem
  <2> HIDE DEF m
  <2>3. odd' \in BOOLEAN /\ (odd => odd') /\ (~odd' => InFlight = 0)
    BY <1>5, RegisterFacts
  <2>4. /\ RegisterOK' /\ mem'[s] = m
        /\ \A u \in Server \ {s} : mem'[u] = mem[u]
    BY <1>1, <1>2, <1>4, <2>1, <2>2, <2>3, RegisterFacts, RegisterSet DEF CInv
  <2>5. InFlight = 0 => \A d \in Diff : ~(OutAt(d) > 0)
    BY NothingOut DEF CInv
  <2> QED BY <1>1, <2>2, <2>3, <2>4, <2>5, RegisterStep
<1>6. CASE UNCHANGED <<mem, odd>>
  <2>1. mem' = [mem EXCEPT ![s] = mem[s]] /\ odd' \in BOOLEAN
    BY <1>6, RegisterFacts
  <2>2. /\ RegisterOK' /\ mem'[s] = mem[s]
        /\ \A u \in Server \ {s} : mem'[u] = mem[u]
    BY <1>1, <1>2, <1>4, <2>1, RegisterFacts, RegisterSet DEF CInv
  <2> QED BY <1>1, <1>2, <1>6, <2>2, RegisterStep
<1> QED BY <1>5, <1>6 DEF InitHead

\* CancelWithoutLock, with a register m that has the items of this one.
LEMMA CancelFacts ==
  ASSUME CInv, NEW s \in Server, mem[s].exist, NEW m \in Mem, m.exist, m.keys = mem[s].keys,
         NEW pc \in {"cancel", "finish"}, CancelWithoutLock(s, m, pc),
         UNCHANGED <<items, terms, odd>>, relic' \in BOOLEAN
  PROVE  /\ RegisterOK' /\ mem'[s] = m
         /\ \A u \in Server \ {s} : mem'[u] = mem[u]
<1> DEFINE o == [pc |-> pc, todo |-> {}]
<1>1. mem' = [mem EXCEPT ![s] = m] /\ head' \in {head, NoHead}
  BY DEF CancelWithoutLock
<1>2. o \in Op /\ o.pc # "init"
  BY DEF Op
<1>3. op' = [op EXCEPT ![s] = NoOp] \/ op' = [op EXCEPT ![s] = o]
  BY DEF CancelWithoutLock
<1> HIDE DEF o
<1>4. PICK q \in Op : q.pc # "init" /\ op' = [op EXCEPT ![s] = q]
  BY <1>2, <1>3, RegisterFacts
<1>5. head' \in [there : BOOLEAN, keys : SUBSET Diff] /\ (head'.keys # {} <=> head'.there)
  BY <1>1, RegisterFacts
<1>6. m.keys # {} /\ items' \subseteq Diff /\ odd' \in BOOLEAN
  BY RegisterFacts
<1> QED BY <1>1, <1>4, <1>5, <1>6, RegisterSet DEF CInv

LEMMA CancelCInv ==
  ASSUME CInv, NEW s \in Server, Cancel(s) PROVE CInv'
<1>1. /\ mem[s].exist /\ CancelWithoutLock(s, mem[s], "cancel")
      /\ UNCHANGED <<items, terms, threads, odd>> /\ relic' = (relic \/ s # last)
  BY DEF Cancel, Commanded
<1>2. mem[s] \in Mem /\ relic' \in BOOLEAN /\ (relic => relic') /\ (odd => odd')
  BY <1>1, RegisterFacts
<1>3. /\ RegisterOK' /\ mem'[s] = mem[s]
      /\ \A u \in Server \ {s} : mem'[u] = mem[u]
  BY <1>1, <1>2, CancelFacts
<1>4. s = leader /\ ~odd' /\ ~relic' /\ mem'[s].exist =>
        mem'[s].refer = InFlight /\ \A d \in Diff : OutAt(d) > 0 => d \in mem'[s].keys
  BY <1>1, <1>2, <1>3, RegisterFacts
<1> QED BY <1>1, <1>2, <1>3, <1>4, RegisterStep

\* What is left: no migration.
LEMMA CancelItemsCInv ==
  ASSUME CInv, NEW s \in Server, CancelItems(s) PROVE CInv'
<1>1. /\ mem' = [mem EXCEPT ![s] = Fresh] /\ op' = [op EXCEPT ![s] = NoOp]
      /\ UNCHANGED <<head, terms, threads, odd, relic>>
  BY DEF CancelItems
<1>2. items' \subseteq Diff
  BY RegisterFacts DEF CancelItems
<1>3. /\ RegisterOK' /\ mem'[s] = Fresh
      /\ \A u \in Server \ {s} : mem'[u] = mem[u]
  BY <1>1, <1>2, RegisterFacts, RegisterSet DEF CInv
<1> QED BY <1>1, <1>3, RegisterFacts, RegisterStep

LEMMA EraseItemCInv ==
  ASSUME CInv, NEW s \in Server, EraseItem(s) PROVE CInv'
<1>1. /\ op' = [op EXCEPT ![s] = NoOp] /\ UNCHANGED <<head, mem, terms, threads, odd, relic>>
      /\ items' \in {items, items \ op[s].todo}
  BY DEF EraseItem
<1>2. mem' = [mem EXCEPT ![s] = mem[s]] /\ items' \subseteq Diff
  BY <1>1, RegisterFacts
<1>3. /\ RegisterOK' /\ mem'[s] = mem[s]
      /\ \A u \in Server \ {s} : mem'[u] = mem[u]
  BY <1>1, <1>2, RegisterFacts, RegisterSet DEF CInv
<1>4. s = leader /\ ~odd' /\ ~relic' /\ mem'[s].exist =>
        mem'[s].refer = InFlight /\ \A d \in Diff : OutAt(d) > 0 => d \in mem'[s].keys
  BY <1>1, <1>3, RegisterFacts
<1> QED BY <1>1, <1>3, <1>4, RegisterStep

\* Erase of an item that is listed takes one from refer_, whatever floyd answers.
LEMMA EraseFacts ==
  ASSUME CInv, Leading, NEW d \in Diff, Erase(d), UNCHANGED <<terms, relic, odd>>
  PROVE  /\ RegisterOK' /\ me'.exist = me.exist
         /\ me.keys \ {d} \subseteq me'.keys
         /\ me.exist /\ d \in me.keys => me'.refer = Minus(me.refer, 1)
<1>0. /\ me \in Mem /\ me.refer \in -MinRefer .. Cardinality(Diff) /\ me.keys \subseteq Diff
      /\ leader \in Server /\ me = mem[leader]
  BY MemFacts DEF CInv, me
<1>1. Minus(me.refer, 1) \in -MinRefer .. Cardinality(Diff)
  BY <1>0, MinusFacts
<1>5. me' = mem'[leader]
  BY DEF me, terms
<1>2. CASE ~me.exist \/ d \notin me.keys
  <2>1. UNCHANGED <<head, items, mem, op>>
    BY <1>2 DEF Erase
  <2>2. me' = me
    BY <1>0, <1>5, <2>1
  <2>3. RegisterOK'
    BY <2>1 DEF CInv, RegisterOK, terms
  <2> QED BY <1>2, <2>2, <2>3
<1>3. CASE me.exist /\ me.keys = {d}
  <2> DEFINE m == [me EXCEPT !.refer = Minus(me.refer, 1)]
  <2>1. CancelWithoutLock(leader, m, "finish") /\ UNCHANGED items
    BY <1>3 DEF Erase
  <2>2. m \in Mem /\ m.keys = me.keys /\ m.exist = me.exist /\ m.refer = Minus(me.refer, 1)
    BY <1>0, <1>1 DEF Mem
  <2> HIDE DEF m
  <2>3. relic' \in BOOLEAN /\ mem[leader].exist /\ m.exist /\ m.keys = mem[leader].keys
    BY <1>0, <1>3, <2>2, RegisterFacts
  <2>4. RegisterOK' /\ me' = m
    BY <1>0, <1>5, <2>1, <2>2, <2>3, CancelFacts
  <2> QED BY <2>2, <2>4
<1>4. CASE me.exist /\ d \in me.keys /\ me.keys # {d}
  <2>0. EraseHead(d)
    BY <1>4 DEF Erase
  <2> DEFINE less == [there |-> TRUE, keys |-> me.keys \ {d}]
             a == [keys |-> me.keys \ {d}, refer |-> Minus(me.refer, 1), exist |-> me.exist]
             b == [me EXCEPT !.refer = Minus(me.refer, 1)]
             o == [pc |-> "item", todo |-> {d}]
  <2>1. /\ head' \in {head, less} /\ UNCHANGED items
        /\ op' = [op EXCEPT ![leader] = NoOp] \/ op' = [op EXCEPT ![leader] = o]
        /\ mem' = [mem EXCEPT ![leader] = a] \/ mem' = [mem EXCEPT ![leader] = b]
    BY <1>0, <2>0 DEF EraseHead
  <2>2. /\ a \in Mem /\ a.keys = me.keys \ {d} /\ a.exist = me.exist /\ a.refer = Minus(me.refer, 1)
        /\ b \in Mem /\ b.keys = me.keys /\ b.exist = me.exist /\ b.refer = Minus(me.refer, 1)
        /\ o \in Op /\ o.pc = "item"
    BY <1>0, <1>1 DEF Mem, Op
  <2>3. me.keys \ {d} # {}
    BY <1>4
  <2>4. less.there = TRUE /\ less.keys = me.keys \ {d} /\ less \in [there : BOOLEAN, keys : SUBSET Diff]
    BY <1>0
  <2> HIDE DEF a, b, less, o
  <2>5. PICK m \in {a, b} : mem' = [mem EXCEPT ![leader] = m]
    BY <2>1
  <2>6. PICK q \in Op : q.pc # "init" /\ op' = [op EXCEPT ![leader] = q]
    BY <1>0, <2>1, <2>2, RegisterFacts
  <2>7. head' \in [there : BOOLEAN, keys : SUBSET Diff] /\ (head'.keys # {} <=> head'.there)
    BY <1>0, <2>1, <2>3, <2>4, RegisterFacts
  <2>8. /\ m \in Mem /\ m.exist /\ m.keys # {} /\ items' \subseteq Diff
        /\ odd' \in BOOLEAN /\ relic' \in BOOLEAN
    BY <1>0, <1>4, <2>1, <2>2, <2>3, RegisterFacts
  <2>9. RegisterOK' /\ me' = m
    BY <1>0, <1>5, <2>5, <2>6, <2>7, <2>8, RegisterSet DEF CInv
  <2> QED BY <2>2, <2>9
<1> QED BY <1>2, <1>3, <1>4

\* A handover is done: its item, which is listed and out once, is counted no more.
LEMMA FinishItemCInv ==
  ASSUME CInv, NEW d \in Diff, FinishItem(d) PROVE CInv'
<1> USE DEF CInv
<1> DEFINE rest == [worker.batch EXCEPT ![d] = 0]
<1>0. /\ Leading /\ worker.batch[d] > 0 /\ Erase(d)
      /\ worker' = IF rest = None THEN Sleeping ELSE [worker EXCEPT !.batch = rest]
      /\ UNCHANGED <<terms, leader, proc, waiting, half, pending, stuck, odd, relic>>
  BY DEF FinishItem, Unlocked, terms
<1>1. /\ worker \in [pc : {"idle", "apply", "erase"}, batch : Count] /\ worker.batch \in Count
      /\ worker.batch[d] \in Nat
  BY ThreadFacts DEF ThreadsOK
<1>2. rest \in Count /\ rest[d] = 0 /\ \A e \in Diff \ {d} : rest[e] = worker.batch[e]
  BY <1>1, MigrateAssumption DEF Count
<1>3. worker.batch[d] = 1 => rest = [worker.batch EXCEPT ![d] = @ - 1]
  BY <1>1 DEF Count
<1> HIDE DEF rest
<1>4. worker' \in [pc : {"idle", "apply", "erase"}, batch : Count] /\ worker'.batch = rest
  <2>1. CASE rest = None
    BY <1>0, <1>2, <2>1 DEF Sleeping
  <2>2. CASE rest # None
    BY <1>0, <1>1, <1>2, <2>2
  <2> QED BY <2>1, <2>2
<1>5. ThreadsOK'
  BY <1>0, <1>4 DEF ThreadsOK
<1>6. /\ RegisterOK' /\ me'.exist = me.exist /\ me.keys \ {d} \subseteq me'.keys
      /\ me.exist /\ d \in me.keys => me'.refer = Minus(me.refer, 1)
  BY <1>0, EraseFacts
<1>7. RestOK'
  BY <1>0 DEF RestOK, Leading
<1>8. CountInv'
  <2> SUFFICES ASSUME ~odd, ~relic
               PROVE  /\ \A e \in Diff : OutAt(e)' <= 1
                      /\ me'.exist => /\ me'.refer = InFlight'
                                      /\ \A e \in Diff : OutAt(e)' > 0 => e \in me'.keys
    BY <1>0 DEF CountInv
  <2>0. \A e \in Diff : waiting[e] \in Nat /\ pending[e] \in Nat /\ worker.batch[e] \in Nat
    BY ThreadFacts
  <2>1. \A e \in Diff : OutAt(e) <= 1
    BY <1>0 DEF CountInv
  <2>2. worker.batch[d] = 1 /\ OutAt(d) = 1
    BY <1>0, <1>1, <2>0, <2>1 DEF OutAt
  <2>3. OutAt(d)' = 0
    <3>1. OutAt(d)' = waiting[d] + pending[d] + 0 + (IF d \in proc.todo THEN 1 ELSE 0)
      BY <1>0, <1>2, <1>4 DEF OutAt
    <3>2. waiting[d] + pending[d] + 1 + (IF d \in proc.todo THEN 1 ELSE 0) = 1
      BY <2>2 DEF OutAt
    <3> QED BY <2>0, <3>1, <3>2
  <2>4. \A e \in Diff \ {d} : OutAt(e)' = OutAt(e)
    BY <1>0, <1>2, <1>4 DEF OutAt
  <2>5. \A e \in Diff : OutAt(e)' <= 1
    BY <2>1, <2>3, <2>4
  <2>6. InFlight' = InFlight - 1 /\ InFlight \in Nat /\ InFlight >= 1
    <3>1. Total(rest) = Total(worker.batch) - 1 /\ Total(worker.batch) > 0
      BY <1>0, <1>1, <1>3, <2>2, TotalMinus
    <3>2. InFlight' = proc.remain + Total(waiting) + Total(pending) + Total(rest)
      BY <1>0, <1>4 DEF InFlight
    <3>3. /\ proc.remain \in Nat /\ Total(waiting) \in Nat /\ Total(pending) \in Nat
          /\ Total(worker.batch) \in Nat /\ InFlight \in Nat
      BY ThreadFacts
    <3>4. ASSUME NEW a \in Nat, NEW b \in Nat, NEW c \in Nat, NEW e \in Nat, e > 0
          PROVE  a + b + c + (e - 1) = (a + b + c + e) - 1 /\ a + b + c + e >= 1
      BY <3>4
    <3> QED BY <3>1, <3>2, <3>3, <3>4 DEF InFlight
  <2>7. ASSUME me'.exist PROVE me'.refer = InFlight' /\ \A e \in Diff : OutAt(e)' > 0 => e \in me'.keys
    <3>1. me.exist /\ me.refer = InFlight /\ \A e \in Diff : OutAt(e) > 0 => e \in me.keys
      BY <1>0, <1>6, <2>7 DEF CountInv
    <3>2. d \in me.keys
      BY <2>2, <3>1
    <3>3. Minus(me.refer, 1) = me.refer - 1
      BY <1>0, <2>6, <3>1, MemFacts, MinusFacts
    <3>4. me'.refer = InFlight'
      BY <1>6, <2>6, <3>1, <3>2, <3>3
    <3>5. \A e \in Diff : OutAt(e)' > 0 => e \in me'.keys
      BY <1>6, <2>3, <2>4, <3>1
    <3> QED BY <3>4, <3>5
  <2> QED BY <2>5, <2>7
<1> QED BY <1>5, <1>6, <1>7, <1>8

-----------------------------------------------------------------------------
(* Leaders come and go.                                                     *)

\* A leader begins with nothing out, and with refer_ at 0 unless it has kept items.
LEMMA BecomeLeaderCInv ==
  ASSUME CInv, NEW s \in Server, BecomeLeader(s) PROVE CInv'
<1> USE DEF CInv
<1>1. /\ leader = NoServer /\ leader' = s /\ Load(s) /\ odd' = FALSE
      /\ last' = s /\ served' = served \cup {s} /\ op[s] = NoOp
      /\ relic' \in BOOLEAN /\ (~relic' => ~relic /\ mem[s].keys \subseteq head.keys)
      /\ UNCHANGED <<head, items, op, proc, waiting, half, pending, worker, stuck>>
  BY DEF BecomeLeader, threads, RegisterOK
<1>2. ThreadsOK' /\ InFlight' = InFlight /\ \A d \in Diff : OutAt(d)' = OutAt(d)
  BY <1>1 DEF ThreadsOK, InFlight, OutAt
<1>3. InFlight = 0
  BY <1>1, RestFacts DEF RestOK, ThreadsOK
<1>4. \A d \in Diff : OutAt(d) = 0
  BY <1>3, NothingOut
<1>5. s # NoServer
  BY MigrateAssumption
<1>6. mem[s] \in Mem /\ mem[s].keys \subseteq Diff /\ mem \in [Server -> Mem]
  BY DEF RegisterOK, Mem
<1>7. /\ mem' \in [Server -> Mem] /\ \A u \in Server \ {s} : mem'[u] = mem[u]
      /\ mem'[s].exist => mem'[s].keys # {}
      /\ mem'[s].refer = 0 \/ (mem'[s] = mem[s] /\ ~head.there)
  <2>1. CASE head.there
    <3> DEFINE m == [keys |-> mem[s].keys \cup head.keys, exist |-> TRUE, refer |-> 0]
    <3>1. mem' = [mem EXCEPT ![s] = m]
      BY <1>1, <2>1 DEF Load
    <3>2. head.keys # {} /\ head.keys \subseteq Diff
      BY <2>1 DEF RegisterOK
    <3>3. m \in Mem /\ m.keys # {} /\ m.refer = 0
      BY <1>6, <3>2, MigrateAssumption, FS_CardinalityType DEF Mem
    <3> HIDE DEF m
    <3> QED BY <1>6, <3>1, <3>3
  <2>2. CASE ~head.there
    BY <1>1, <1>6, <2>2 DEF Load, RegisterOK
  <2> QED BY <2>1, <2>2
<1>8. RegisterOK'
  <2>1. ASSUME NEW u \in Server
        PROVE  /\ IF mem'[u].exist THEN mem'[u].keys # {} ELSE mem'[u].refer = 0
               /\ op[u].pc = "init" =>
                    ~mem'[u].exist /\ (op[u].todo # {} \/ mem'[u].keys # {})
    <3>1. CASE u = s
      BY <1>1, <1>7, <3>1 DEF RegisterOK, NoOp
    <3>2. CASE u # s
      BY <1>7, <3>2 DEF RegisterOK
    <3> QED BY <3>1, <3>2
  <2> QED BY <1>1, <1>7, <2>1 DEF RegisterOK
<1>9. RestOK'
  BY <1>1, <1>5 DEF RestOK
<1>10. CountInv'
  <2> SUFFICES ASSUME ~relic', me'.exist PROVE me'.refer = 0
    BY <1>2, <1>3, <1>4 DEF CountInv
  <2>1. me' = mem'[s] /\ mem[s].keys \subseteq head.keys
    BY <1>1 DEF me
  <2>2. ASSUME mem'[s] = mem[s], ~head.there PROVE FALSE
    BY <1>7, <2>1, <2>2 DEF RegisterOK
  <2> QED BY <1>7, <2>1, <2>2
<1> QED BY <1>2, <1>8, <1>9, <1>10

AtRest == /\ leader = NoServer /\ proc = NoProc /\ half = NoDiff
          /\ waiting = None /\ pending = None /\ worker = Sleeping /\ stuck = FALSE

LEMMA AtRestFacts == AtRest => ThreadsOK /\ RestOK /\ CountInv
  BY RestFacts DEF AtRest, RestOK, CountInv, Leading

\* The leader stops: the threads come to rest.
LEMMA StopCInv ==
  ASSUME CInv, AtRest', RegisterOK' PROVE CInv'
<1>1. (ThreadsOK /\ RestOK /\ CountInv)'
  BY AtRestFacts, PTL
<1> QED BY <1>1 DEF CInv

LEMMA ResignCInv ==
  ASSUME CInv, Resign PROVE CInv'
<1> USE DEF CInv
<1>1. /\ AtRest' /\ Leading /\ UNCHANGED <<head, items, last, served, op, odd, relic>>
      /\ mem' = PutN(Total(worker.batch))
  BY DEF Resign, AtRest
<1>2. Total(worker.batch) \in Nat
  BY ThreadFacts
<1>3. /\ mem' \in [Server -> Mem] /\ \A s \in Server \ {leader} : mem'[s] = mem[s]
      /\ mem'[leader].keys = me.keys /\ mem'[leader].exist = me.exist
      /\ mem'[leader].refer = IF me.exist THEN Minus(me.refer, Total(worker.batch)) ELSE me.refer
  BY <1>1, <1>2, PutNFacts
<1>4. ASSUME NEW s \in Server
      PROVE  /\ mem'[s].exist = mem[s].exist /\ mem'[s].keys = mem[s].keys
             /\ IF mem'[s].exist THEN mem'[s].keys # {} ELSE mem'[s].refer = 0
  BY <1>3 DEF RegisterOK, me
<1>5. RegisterOK'
  BY <1>1, <1>3, <1>4 DEF RegisterOK, AtRest
<1> QED BY <1>1, <1>5, StopCInv

LEMMA CrashCInv ==
  ASSUME CInv, NEW s \in Server, Crash(s) PROVE CInv'
<1> USE DEF CInv
<1>1. /\ mem' = [mem EXCEPT ![s] = Fresh] /\ op' = [op EXCEPT ![s] = NoOp]
      /\ UNCHANGED <<head, items, last, odd, relic>> /\ leader' \in {leader, NoServer}
      /\ served' \subseteq served
  BY DEF Crash
<1>2. /\ mem'[s] = Fresh /\ op'[s].pc = "idle"
      /\ \A u \in Server \ {s} : mem'[u] = mem[u] /\ op'[u] = op[u]
      /\ mem' \in [Server -> Mem] /\ op' \in [Server -> Op]
  BY <1>1, RegisterFacts DEF RegisterOK
<1>3. ASSUME NEW u \in Server
      PROVE  /\ IF mem'[u].exist THEN mem'[u].keys # {} ELSE mem'[u].refer = 0
             /\ op'[u].pc = "init" =>
                  ~mem'[u].exist /\ (op'[u].todo # {} \/ mem'[u].keys # {})
  <2>1. CASE u = s
    BY <1>2, <2>1, RegisterFacts
  <2>2. CASE u # s
    BY <1>2, <2>2 DEF RegisterOK
  <2> QED BY <2>1, <2>2
<1>4. RegisterOK'
  BY <1>1, <1>2, <1>3 DEF RegisterOK
<1>5. CASE s = leader
  <2>1. AtRest'
    BY <1>5 DEF Crash, AtRest
  <2> QED BY <1>4, <2>1, StopCInv
<1>6. CASE s # leader
  <2>1. UNCHANGED <<leader, proc, waiting, half, pending, worker, stuck>>
    BY <1>6 DEF Crash, threads
  <2>2. Leading => me' = me
    BY <1>2, <1>6, <2>1 DEF RegisterOK, me, Leading
  <2>3. ThreadsOK' /\ RestOK' /\ InFlight' = InFlight /\ \A d \in Diff : OutAt(d)' = OutAt(d)
    BY <2>1 DEF ThreadsOK, RestOK, InFlight, OutAt
  <2>4. CountInv'
    BY <1>1, <2>1, <2>2, <2>3 DEF CountInv, Leading
  <2> QED BY <1>4, <2>3, <2>4
<1> QED BY <1>5, <1>6

LEMMA InitCInv == Init => CInv
<1> SUFFICES ASSUME Init PROVE CInv
  OBVIOUS
<1>1. ThreadsOK /\ RestOK /\ CountInv
  BY AtRestFacts DEF Init, AtRest
<1>2. Fresh \in Mem /\ Fresh.exist = FALSE /\ Fresh.refer = 0
  BY MigrateAssumption, FS_CardinalityType DEF Fresh, Mem
<1>3. NoOp \in Op /\ NoOp.pc = "idle"
  BY DEF NoOp, Op
<1>4. RegisterOK
  BY <1>2, <1>3 DEF Init, RegisterOK, NoHead
<1> QED BY <1>1, <1>4 DEF CInv

LEMMA NextCInv == CInv /\ [Next]_vars => CInv'
<1> SUFFICES ASSUME CInv, [Next]_vars PROVE CInv'
  OBVIOUS
<1>1. ASSUME NEW s \in Server, Register(s) PROVE CInv'
  BY <1>1, InitItemCInv, InitHeadCInv, CancelItemsCInv, EraseItemCInv DEF Register
<1>2. CASE Timer
  BY <1>2, GetNCInv, ProcessMigrateCInv, ProcessDoneCInv DEF Timer
<1>3. CASE Cron
  BY <1>3, ConditionMetCInv, RecoverWhenErrorCInv, ConditionActiveCInv DEF Cron
<1>4. CASE Update \/ ApplyFails
  BY <1>4, UpdateCInv, FinishItemCInv DEF Update
<1>5. CASE UNCHANGED vars
  <2>1. UNCHANGED <<head, items, mem, leader, last, served, op, odd, relic, proc, waiting,
                    half, pending, worker, stuck>>
    BY <1>5 DEF vars
  <2>2. me' = me
    BY <2>1 DEF me
  <2>3. RegisterOK' /\ ThreadsOK' /\ RestOK'
    BY <2>1, <2>2 DEF CInv, RegisterOK, ThreadsOK, RestOK
  <2>4. InFlight' = InFlight /\ \A d \in Diff : OutAt(d)' = OutAt(d)
    BY <2>1 DEF InFlight, OutAt
  <2>5. CountInv'
    BY <2>1, <2>2, <2>4 DEF CInv, CountInv, Leading
  <2> QED BY <2>3, <2>5 DEF CInv
<1> QED BY <1>1, <1>2, <1>3, <1>4, <1>5, InitMigrateCInv, CancelCInv, ResignCInv,
           BecomeLeaderCInv, CrashCInv DEF Next

\* The register, the timer, the cron and the update thread keep their types: refer_
\* within its bound, the copies of an item within theirs.
THEOREM MigrateTypes == Spec => []TypeOK
<1>1. CInv => TypeOK
  BY DEF CInv, RegisterOK, ThreadsOK, TypeOK, Mem, Op
<1> QED BY <1>1, InitCInv, NextCInv, PTL DEF Spec

\* ZPMetaMigrateRegister counts right: refer_ is the number of items that GetN handed
\* out and no PutN or Erase brought back, and none of them is out twice, however the
\* timer, the cron, the update thread, failing floyd calls and crashes of any number
\* of servers interleave; unless a migration was cancelled or an update refused while
\* items were out, or a leader kept items of an earlier term, or a command of an earlier
\* leader ran into its term.
THEOREM ItemsCounted == Spec => []OutCounted
<1>1. CInv => OutCounted
  BY DEF CInv, CountInv, OutCounted, RefersInFlight, OutOnce, OutAt, Unlocked
<1> QED BY <1>1, InitCInv, NextCInv, PTL DEF Spec
=============================================================================

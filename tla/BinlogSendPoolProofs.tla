------------------------ MODULE BinlogSendPoolProofs ------------------------
(* Proofs of the safety of the send-task pool, for any number of names,     *)
(* addresses, senders and workers.                                          *)
EXTENDS BinlogPurge, SequenceTheorems, WellFoundedInduction, TLAPS

Elems(s) == {s[i] : i \in DOMAIN s}
Inj(s) == \A i, j \in DOMAIN s : s[i] = s[j] => i = j

-----------------------------------------------------------------------------
(* What the list operations do to a list without duplicates.                *)

\* push_back of a task that is not in the list keeps it free of duplicates.
LEMMA AppendFacts ==
  ASSUME NEW T, NEW s \in Seq(T), NEW t \in T, Inj(s), t \notin Elems(s)
  PROVE  /\ Append(s, t) \in Seq(T)
         /\ Inj(Append(s, t))
         /\ Elems(Append(s, t)) = Elems(s) \cup {t}
<1> DEFINE r == Append(s, t)
<1>1. /\ r \in Seq(T) /\ Len(r) = Len(s) + 1 /\ DOMAIN r = 1 .. Len(s) + 1
      /\ \A i \in 1 .. Len(s) : r[i] = s[i]
      /\ r[Len(s) + 1] = t /\ Len(s) \in Nat /\ DOMAIN s = 1 .. Len(s)
  OBVIOUS
<1> HIDE DEF r
<1>2. Elems(r) = Elems(s) \cup {t}
  <2>1. ASSUME NEW x \in Elems(r) PROVE x \in Elems(s) \cup {t}
    BY <1>1, <2>1 DEF Elems
  <2>2. ASSUME NEW x \in Elems(s) PROVE x \in Elems(r)
    BY <1>1, <2>2 DEF Elems
  <2>3. t \in Elems(r)
    BY <1>1 DEF Elems
  <2> QED BY <2>1, <2>2, <2>3
<1>3. Inj(r)
  <2> SUFFICES ASSUME NEW i \in DOMAIN r, NEW j \in DOMAIN r, r[i] = r[j] PROVE i = j
    BY DEF Inj
  <2>1. CASE i \in 1 .. Len(s) /\ j \in 1 .. Len(s)
    BY <1>1, <2>1 DEF Inj
  <2>2. CASE i = Len(s) + 1 /\ j \in 1 .. Len(s)
    BY <1>1, <2>2 DEF Elems
  <2>3. CASE j = Len(s) + 1 /\ i \in 1 .. Len(s)
    BY <1>1, <2>3 DEF Elems
  <2> QED BY <1>1, <2>1, <2>2, <2>3
<1> QED BY <1>1, <1>2, <1>3 DEF r

\* pop_front removes the first task and nothing else.
LEMMA TailFacts ==
  ASSUME NEW T, NEW s \in Seq(T), s # <<>>, Inj(s)
  PROVE  /\ Head(s) \in Elems(s)
         /\ Head(s) \in T
         /\ Tail(s) \in Seq(T)
         /\ Inj(Tail(s))
         /\ Elems(Tail(s)) = Elems(s) \ {Head(s)}
<1> DEFINE r == Tail(s)
<1>1. /\ r \in Seq(T) /\ Len(r) = Len(s) - 1 /\ DOMAIN r = 1 .. Len(s) - 1
      /\ \A i \in 1 .. Len(s) - 1 : r[i] = s[i + 1]
      /\ Len(s) \in Nat \ {0} /\ DOMAIN s = 1 .. Len(s)
      /\ Head(s) = s[1] /\ Head(s) \in T
  OBVIOUS
<1> HIDE DEF r
<1>2. Elems(r) = Elems(s) \ {Head(s)}
  <2>1. ASSUME NEW x \in Elems(r) PROVE x \in Elems(s) /\ x # Head(s)
    <3>1. PICK i \in 1 .. Len(s) - 1 : x = s[i + 1]
      BY <1>1, <2>1 DEF Elems
    <3>2. i + 1 \in DOMAIN s /\ 1 \in DOMAIN s /\ i + 1 # 1
      BY <1>1
    <3> QED BY <1>1, <3>1, <3>2 DEF Elems, Inj
  <2>2. ASSUME NEW x \in Elems(s), x # Head(s) PROVE x \in Elems(r)
    <3>1. PICK i \in 1 .. Len(s) : x = s[i]
      BY <1>1, <2>2 DEF Elems
    <3>2. i # 1
      BY <1>1, <2>2, <3>1
    <3>3. i - 1 \in 1 .. Len(s) - 1 /\ r[i - 1] = s[i]
      BY <1>1, <3>2
    <3> QED BY <1>1, <3>1, <3>3 DEF Elems
  <2> QED BY <2>1, <2>2
<1>3. Inj(r)
  BY <1>1, SMTT(30) DEF Inj
<1>4. Head(s) \in Elems(s)
  BY <1>1 DEF Elems
<1> QED BY <1>1, <1>2, <1>3, <1>4 DEF r

\* The length of the part of a list behind position k.
LEMMA SubSeqLen ==
  ASSUME NEW T, NEW s \in Seq(T), NEW k \in 1 .. Len(s)
  PROVE  Len(SubSeq(s, k + 1, Len(s))) = Len(s) - k
<1> DEFINE m == k + 1
<1>1. m \in 1 .. Len(s) + 1 /\ Len(s) \in 0 .. Len(s)
  OBVIOUS
<1> HIDE DEF m
<1>2. Len(SubSeq(s, m, Len(s))) = IF m <= Len(s) THEN Len(s) - m + 1 ELSE 0
  BY <1>1
<1>3. Len(SubSeq(s, m, Len(s))) = Len(s) - k
  BY <1>2 DEF m
<1> QED BY <1>3 DEF m

\* erase removes the task it is given and nothing else.
LEMMA EraseFacts ==
  ASSUME NEW T, NEW s \in Seq(T), NEW t \in Elems(s), Inj(s)
  PROVE  /\ Erase(s, t) \in Seq(T)
         /\ Inj(Erase(s, t))
         /\ Elems(Erase(s, t)) = Elems(s) \ {t}
<1> DEFINE k == CHOOSE i \in DOMAIN s : s[i] = t
           r == Erase(s, t)
<1>1. k \in 1 .. Len(s) /\ s[k] = t /\ DOMAIN s = 1 .. Len(s) /\ Len(s) \in Nat
  BY DEF Elems
<1> HIDE DEF k
<1>2. r = SubSeq(s, 1, k - 1) \o SubSeq(s, k + 1, Len(s))
  BY DEF r, k, Erase, RemoveAt
<1> HIDE DEF r
<1> DEFINE p == SubSeq(s, 1, k - 1)
           q == SubSeq(s, k + 1, Len(s))
<1>3. p \in Seq(T) /\ Len(p) = k - 1 /\ \A i \in 1 .. k - 1 : p[i] = s[i]
  <2>1. p \in Seq(T)
    BY <1>1
  <2>2. Len(p) = k - 1
    BY <1>1
  <2>3. \A i \in 1 .. k - 1 : p[i] = s[i]
    BY <1>1
  <2> QED BY <2>1, <2>2, <2>3
<1>4. q \in Seq(T) /\ Len(q) = Len(s) - k /\ \A i \in 1 .. Len(s) - k : q[i] = s[k + i]
  <2>1. q \in Seq(T)
    BY <1>1
  <2>2. Len(q) = Len(s) - k
    BY <1>1, SubSeqLen
  <2>3. \A i \in 1 .. Len(s) - k : q[i] = s[k + i]
    BY <1>1
  <2> QED BY <2>1, <2>2, <2>3
<1> HIDE DEF p, q
<1>5. /\ r \in Seq(T) /\ Len(r) = Len(s) - 1 /\ DOMAIN r = 1 .. Len(s) - 1
      /\ \A i \in 1 .. Len(s) - 1 : r[i] = IF i < k THEN s[i] ELSE s[i + 1]
  <2>1. /\ p \o q \in Seq(T)
        /\ Len(p \o q) = Len(p) + Len(q)
        /\ \A i \in 1 .. Len(p) + Len(q) : (p \o q)[i] =
                     IF i <= Len(p) THEN p[i] ELSE q[i - Len(p)]
    BY <1>3, <1>4, ConcatProperties, Zenon
  <2>2. r = p \o q
    BY <1>2 DEF p, q
  <2>3. /\ r \in Seq(T) /\ Len(r) = Len(p) + Len(q)
        /\ \A i \in 1 .. Len(p) + Len(q) : r[i] =
                     IF i <= Len(p) THEN p[i] ELSE q[i - Len(p)]
    BY <2>1, <2>2
  <2>4. DOMAIN r = 1 .. Len(r)
    BY <2>3
  <2>5. \A i \in 1 .. Len(s) - 1 : r[i] = IF i < k THEN s[i] ELSE s[i + 1]
    <3> SUFFICES ASSUME NEW i \in 1 .. Len(s) - 1
                 PROVE  r[i] = IF i < k THEN s[i] ELSE s[i + 1]
      OBVIOUS
    <3>1. i \in 1 .. Len(p) + Len(q)
      BY <1>1, <1>3, <1>4
    <3>2. CASE i < k
      BY <1>1, <1>3, <2>3, <3>1, <3>2
    <3>3. CASE ~(i < k)
      <4>1. i - Len(p) \in 1 .. Len(s) - k /\ ~(i <= Len(p)) /\ k + (i - Len(p)) = i + 1
        BY <1>1, <1>3, <3>3
      <4>2. r[i] = q[i - Len(p)]
        BY <2>3, <3>1, <4>1
      <4>3. q[i - Len(p)] = s[k + (i - Len(p))]
        BY <1>4, <4>1
      <4> QED BY <4>1, <4>2, <4>3, <3>3
    <3> QED BY <3>2, <3>3
  <2> QED BY <1>1, <1>3, <1>4, <2>3, <2>4, <2>5
<1>6. Inj(r)
  <2> SUFFICES ASSUME NEW i \in 1 .. Len(s) - 1, NEW j \in 1 .. Len(s) - 1, r[i] = r[j]
               PROVE  i = j
    BY <1>5 DEF Inj
  <2> DEFINE up(x) == IF x < k THEN x ELSE x + 1
  <2>1. up(i) \in DOMAIN s /\ up(j) \in DOMAIN s
    BY <1>1
  <2>2. r[i] = s[up(i)] /\ r[j] = s[up(j)]
    BY <1>5
  <2>3. up(i) = up(j)
    BY <2>1, <2>2 DEF Inj
  <2> QED BY <1>1, <2>3
<1>7. Elems(r) = Elems(s) \ {t}
  <2>1. ASSUME NEW x \in Elems(r) PROVE x \in Elems(s) /\ x # t
    <3>1. PICK i \in 1 .. Len(s) - 1 : x = r[i]
      BY <1>5, <2>1 DEF Elems
    <3>2. PICK j \in 1 .. Len(s) : x = s[j] /\ j # k
      BY <1>1, <1>5, <3>1
    <3> QED BY <1>1, <3>2 DEF Elems, Inj
  <2>2. ASSUME NEW x \in Elems(s), x # t PROVE x \in Elems(r)
    <3>1. PICK i \in 1 .. Len(s) : x = s[i] /\ i # k
      BY <1>1, <2>2 DEF Elems
    <3>2. CASE i < k
      <4>1. i \in DOMAIN r /\ r[i] = x
        BY <1>1, <1>5, <3>1, <3>2
      <4> QED BY <4>1 DEF Elems
    <3>3. CASE i > k
      <4>1. i - 1 \in DOMAIN r /\ r[i - 1] = x
        BY <1>1, <1>5, <3>1, <3>3
      <4> QED BY <4>1 DEF Elems
    <3> QED BY <1>1, <3>1, <3>2, <3>3
  <2> QED BY <2>1, <2>2
<1> QED BY <1>5, <1>6, <1>7 DEF r

-----------------------------------------------------------------------------
(* The inductive invariant: the four properties of the pool, and what the   *)
(* locals of AddNewTask are between its steps.                              *)

CallOK ==
  \A w \in Worker : adder[w] # NoCall =>
    /\ adder[w].sequence < MaxSequence
    /\ adder[w].pc # "create" => adder[w].task \in Task
    /\ adder[w].added => adder[w].pc = "log"
    /\ adder[w].pc # "create" /\ ~adder[w].added =>
         object[adder[w].task] # Freed /\ object[adder[w].task].name = adder[w].name

IInv == TypeOK /\ SingleOwner /\ OwnedIffLive /\ IndexAgrees /\ CallOK

\* The pool starts empty, with no call in progress.
LEMMA InitIInv == Init => IInv
<1> SUFFICES ASSUME Init PROVE IInv
  OBVIOUS
<1> USE ConstantsAssumption DEF Init
<1>1. TypeOK
  BY DEF TypeOK, Sequence
<1>2. SingleOwner
  BY DEF SingleOwner, Waiting, Holds
<1>3. OwnedIffLive
  BY DEF OwnedIffLive, Owned, Waiting, Holds, Live
<1>4. IndexAgrees
  BY DEF IndexAgrees, TaskExist
<1>5. CallOK
  BY DEF CallOK
<1> QED BY <1>1, <1>2, <1>3, <1>4, <1>5 DEF IInv

\* Starting a call touches only the worker's own locals.
LEMMA StepAddNewTask ==
  ASSUME IInv, NEW w \in Worker, NEW n \in Name, NEW f \in Filenum, AddNewTask(w, n, f)
  PROVE  IInv'
<1> USE ConstantsAssumption DEF AddNewTask, IInv
<1>1. TypeOK'
  BY DEF TypeOK, Call, Sequence, Filenum
<1>2. \A v \in Worker, t \in Task : Holds(v, t)' <=> Holds(v, t)
  BY DEF TypeOK, Holds
<1>3. SingleOwner'
  BY <1>2 DEF SingleOwner, Waiting
<1>4. OwnedIffLive'
  BY <1>2 DEF OwnedIffLive, Owned, Waiting, Live
<1>5. IndexAgrees'
  BY DEF IndexAgrees, Indexed, HandleOK, TaskExist, Waiting
<1>6. CallOK'
  BY DEF CallOK, TypeOK, Sequence
<1> QED BY <1>1, <1>3, <1>4, <1>5, <1>6

\* A Create that fails leaves no task behind.
LEMMA StepCreateFails ==
  ASSUME IInv, NEW w \in Worker, CreateFails(w)
  PROVE  IInv'
<1> USE ConstantsAssumption DEF CreateFails, At, IInv
<1>1. TypeOK'
  BY DEF TypeOK, Call, Sequence, CallOK
<1>2. \A v \in Worker, t \in Task : Holds(v, t)' <=> Holds(v, t)
  BY DEF TypeOK, Holds
<1>3. SingleOwner'
  BY <1>2 DEF SingleOwner, Waiting
<1>4. OwnedIffLive'
  BY <1>2 DEF OwnedIffLive, Owned, Waiting, Live
<1>5. IndexAgrees'
  BY DEF IndexAgrees, Indexed, HandleOK, TaskExist, Waiting
<1>6. CallOK'
  BY DEF CallOK, TypeOK
<1> QED BY <1>1, <1>3, <1>4, <1>5, <1>6

\* Create takes an address nobody owns; the worker becomes its owner.
LEMMA StepCreate ==
  ASSUME IInv, NEW w \in Worker, Create(w)
  PROVE  IInv'
<1> USE ConstantsAssumption DEF At, IInv
<1>1. PICK t \in Task \ Live :
        /\ object' = [object EXCEPT ![t] =
             [name |-> adder[w].name, sequence |-> adder[w].sequence,
              filenum |-> adder[w].filenum]]
        /\ adder' = [adder EXCEPT ![w].pc = "exist", ![w].task = t]
  BY DEF Create
<1>2. /\ adder[w] # NoCall /\ adder[w].pc = "create" /\ adder[w] \in Call
      /\ next_sequence' = adder[w].sequence + 1
      /\ UNCHANGED <<tasks, task_ptrs, hand, latest>> /\ twins' \subseteq Name
  BY DEF Create, TypeOK, Call
<1>3. object'[t] \in Object /\ object'[t].name = adder[w].name
  BY <1>1, <1>2 DEF TypeOK, Call, Object
<1>4. TypeOK'
  <2>1. object' \in [Task -> Object \cup {Freed}]
    BY <1>1, <1>3 DEF TypeOK
  <2>2. next_sequence' \in Sequence
    BY <1>2 DEF Sequence, CallOK, Call
  <2>3. adder' \in [Worker -> Call \cup {NoCall}]
    BY <1>1, <1>2 DEF TypeOK, Call
  <2> QED BY <1>2, <2>1, <2>2, <2>3 DEF TypeOK
<1>5. /\ \A v \in Worker \ {w}, x \in Task : Holds(v, x)' <=> Holds(v, x)
      /\ \A x \in Task : ~Holds(w, x) /\ (Holds(w, x)' <=> x = t)
  <2>1. /\ adder'[w] # NoCall /\ adder'[w].pc = "exist" /\ adder'[w].task = t
        /\ adder'[w].added = adder[w].added /\ ~adder[w].added
    BY <1>1, <1>2 DEF TypeOK, Call, CallOK
  <2>2. \A v \in Worker \ {w} : adder'[v] = adder[v]
    BY <1>1 DEF TypeOK
  <2> QED BY <1>2, <2>1, <2>2 DEF Holds
<1>6. /\ t \notin Waiting /\ \A s \in Sender : hand[s] # t
      /\ \A v \in Worker : ~Holds(v, t)
  <2>1. t \in Task /\ t \notin Live
    BY <1>1
  <2> QED BY <2>1, Zenon DEF OwnedIffLive, Owned
<1>7. SingleOwner'
  BY <1>2, <1>5, <1>6 DEF SingleOwner, Waiting
<1>8. OwnedIffLive'
  <2>1. \A x \in Task : x \in Live' <=> x \in Live \/ x = t
    BY <1>1, <1>3 DEF Live, TypeOK
  <2>2. Waiting' = Waiting /\ hand' = hand
    BY <1>2 DEF Waiting
  <2>3. ASSUME NEW x \in Task
        PROVE  (\E v \in Worker : Holds(v, x)') <=> (\E v \in Worker : Holds(v, x)) \/ x = t
    BY <1>5
  <2> QED BY <2>1, <2>2, <2>3, Zenon DEF OwnedIffLive, Owned
<1>9. \A x \in Live : object'[x] = object[x]
  BY <1>1 DEF TypeOK, Live
<1>10. IndexAgrees'
  <2>1. \A x \in Waiting : x \in Live
    BY DEF OwnedIffLive, Owned, Waiting, TypeOK
  <2>2. \A s \in Sender : hand[s] # NoTask => hand[s] \in Live
    BY DEF OwnedIffLive, Owned, TypeOK
  <2>3. Waiting' = Waiting
    BY <1>2 DEF Waiting
  <2> QED BY <1>2, <1>9, <2>1, <2>2, <2>3 DEF IndexAgrees, Indexed, HandleOK, TaskExist, Waiting
<1>11. CallOK'
  <2> SUFFICES ASSUME NEW v \in Worker, adder'[v] # NoCall
               PROVE  /\ adder'[v].sequence < MaxSequence
                      /\ adder'[v].pc # "create" => adder'[v].task \in Task
                      /\ adder'[v].added => adder'[v].pc = "log"
                      /\ adder'[v].pc # "create" /\ ~adder'[v].added =>
                           /\ object'[adder'[v].task] # Freed
                           /\ object'[adder'[v].task].name = adder'[v].name
    BY DEF CallOK
  <2>1. CASE v = w
    BY <1>1, <1>2, <1>3, <2>1 DEF CallOK, TypeOK, Call
  <2>2. CASE v # w
    <3>1. adder'[v] = adder[v]
      BY <1>1, <2>2 DEF TypeOK
    <3> QED BY <1>9, <3>1 DEF CallOK, Live
  <2> QED BY <2>1, <2>2
<1> QED BY <1>4, <1>7, <1>8, <1>10, <1>11

\* TaskExist only reads.
LEMMA StepCheckExist ==
  ASSUME IInv, NEW w \in Worker, CheckExist(w)
  PROVE  IInv'
<1> USE ConstantsAssumption DEF CheckExist, At, IInv
<1>1. TypeOK'
  BY DEF TypeOK, Call
<1>2. \A v \in Worker, t \in Task : Holds(v, t)' <=> Holds(v, t)
  BY DEF TypeOK, Holds, Call
<1>3. SingleOwner'
  BY <1>2 DEF SingleOwner, Waiting
<1>4. OwnedIffLive'
  BY <1>2 DEF OwnedIffLive, Owned, Waiting, Live
<1>5. IndexAgrees'
  BY DEF IndexAgrees, Indexed, HandleOK, TaskExist, Waiting
<1>6. CallOK'
  BY DEF CallOK, TypeOK, Call
<1> QED BY <1>1, <1>3, <1>4, <1>5, <1>6

\* Every task in the list, or in a sender's hand, is allocated.
LEMMA OwnedAreLive ==
  ASSUME IInv
  PROVE  /\ Waiting \subseteq Live
         /\ \A s \in Sender : hand[s] # NoTask => hand[s] \in Live
         /\ \A w \in Worker, t \in Task : Holds(w, t) => t \in Live
         /\ Waiting = Elems(tasks) /\ Waiting \subseteq Task /\ Inj(tasks)
         /\ \A t \in Live : object[t] \in Object
<1> USE DEF IInv
<1>1. Waiting = Elems(tasks) /\ Waiting \subseteq Task
  BY DEF Waiting, Elems, TypeOK
<1>2. Inj(tasks)
  BY DEF SingleOwner, Inj
<1>3. Waiting \subseteq Live
  BY <1>1 DEF OwnedIffLive, Owned
<1>4. \A s \in Sender : hand[s] # NoTask => hand[s] \in Live
  BY DEF OwnedIffLive, Owned, TypeOK
<1>5. \A w \in Worker, t \in Task : Holds(w, t) => t \in Live
  BY DEF OwnedIffLive, Owned
<1>6. \A t \in Live : object[t] \in Object
  BY DEF Live, TypeOK
<1> QED BY <1>1, <1>2, <1>3, <1>4, <1>5, <1>6

\* RemoveTask deletes a waiting task, leaves a fetched-out one to its sender,
\* and keeps the list, the index and the heap in agreement.
LEMMA RemoveTaskKeeps ==
  ASSUME IInv, NEW n \in Name, RemoveTask(n), hand' = hand,
         \A v \in Worker, t \in Task : Holds(v, t)' <=> Holds(v, t)
  PROVE  /\ tasks' \in Seq(Task)
         /\ task_ptrs' \in [Name -> Handle \cup {NoHandle}]
         /\ object' \in [Task -> Object \cup {Freed}]
         /\ latest' \in [Name -> Task \cup {NoTask}]
         /\ SingleOwner' /\ OwnedIffLive' /\ IndexAgrees'
         /\ \A v \in Worker, t \in Task : Holds(v, t) => object'[t] = object[t]
<1> USE ConstantsAssumption DEF IInv
<1>0. CASE ~TaskExist(n)
  <2>1. UNCHANGED <<tasks, task_ptrs, object, latest>>
    BY <1>0 DEF RemoveTask
  <2>2. Waiting' = Waiting /\ Live' = Live
    BY <2>1 DEF Waiting, Live
  <2>3. SingleOwner'
    BY <2>1, <2>2 DEF SingleOwner
  <2>4. OwnedIffLive'
    BY <2>1, <2>2 DEF OwnedIffLive, Owned
  <2>5. IndexAgrees'
    BY <2>1, <2>2 DEF IndexAgrees, Indexed, HandleOK, TaskExist
  <2> QED BY <2>1, <2>3, <2>4, <2>5 DEF TypeOK
<1>1. CASE TaskExist(n) /\ task_ptrs[n].iter = NoTask
  <2>1. /\ UNCHANGED <<tasks, object>>
        /\ task_ptrs' = [task_ptrs EXCEPT ![n] = NoHandle]
        /\ latest' = [latest EXCEPT ![n] = NoTask]
    BY <1>1 DEF RemoveTask
  <2>2. Waiting' = Waiting /\ Live' = Live
    BY <2>1 DEF Waiting, Live
  <2>3. SingleOwner'
    BY <2>1, <2>2 DEF SingleOwner
  <2>4. OwnedIffLive'
    BY <2>1, <2>2 DEF OwnedIffLive, Owned
  <2>5. IndexAgrees'
    <3>1. \A m \in Name : TaskExist(m)' <=> TaskExist(m) /\ m # n
      BY <2>1 DEF TaskExist, TypeOK
    <3>2. \A m \in Name : m # n => task_ptrs'[m] = task_ptrs[m]
      BY <2>1 DEF TypeOK
    <3>3. \A i \in DOMAIN tasks : object[tasks[i]].name # n /\ object[tasks[i]].name \in Name
      <4>1. \A i \in DOMAIN tasks : tasks[i] \in Task /\ object[tasks[i]] \in Object
        BY OwnedAreLive DEF Waiting
      <4> QED BY <1>1, <4>1 DEF IndexAgrees, Indexed, Object
    <3> QED BY <2>1, <2>2, <3>1, <3>2, <3>3 DEF IndexAgrees, Indexed, HandleOK
  <2>6. task_ptrs' \in [Name -> Handle \cup {NoHandle}] /\ latest' \in [Name -> Task \cup {NoTask}]
    BY <2>1 DEF TypeOK
  <2> QED BY <2>1, <2>3, <2>4, <2>5, <2>6 DEF TypeOK
<1>2. CASE TaskExist(n) /\ task_ptrs[n].iter # NoTask
  <2> DEFINE t == task_ptrs[n].iter
  <2>1. /\ tasks' = Erase(tasks, t)
        /\ object' = [object EXCEPT ![t] = Freed]
        /\ task_ptrs' = [task_ptrs EXCEPT ![n] = NoHandle]
        /\ latest' = [latest EXCEPT ![n] = NoTask]
    BY <1>2 DEF RemoveTask
  <2>2. t \in Waiting /\ object[t].name = n
    BY <1>2 DEF IndexAgrees, HandleOK
  <2>a. t \in Task
    BY <2>2, OwnedAreLive
  <2> HIDE DEF t
  <2>3. tasks' \in Seq(Task) /\ Inj(tasks') /\ Elems(tasks') = Elems(tasks) \ {t}
    BY <2>1, <2>2, OwnedAreLive, EraseFacts DEF TypeOK
  <2>4. Waiting' = Waiting \ {t}
    BY <2>3, OwnedAreLive DEF Waiting, Elems
  <2>5. Live' = Live \ {t}
    BY <2>1 DEF Live, TypeOK
  <2>6. /\ \A s \in Sender : hand[s] # t
        /\ \A v \in Worker : ~Holds(v, t)
    <3>1. t # NoTask
      BY <2>a
    <3> QED BY <2>2, <2>a, <3>1 DEF SingleOwner
  <2>7. \A x \in Task \ {t} : object'[x] = object[x]
    BY <2>1 DEF TypeOK
  <2>8. SingleOwner'
    BY <2>3, <2>4 DEF SingleOwner, Inj
  <2>9. OwnedIffLive'
    BY <2>4, <2>5, <2>6 DEF OwnedIffLive, Owned
  <2>10. IndexAgrees'
    <3>1. \A m \in Name : TaskExist(m)' <=> TaskExist(m) /\ m # n
      BY <2>1 DEF TaskExist, TypeOK
    <3>2. \A m \in Name : m # n => task_ptrs'[m] = task_ptrs[m]
      BY <2>1 DEF TypeOK
    <3>3. \A x \in Waiting' : Indexed(x)'
      <4> SUFFICES ASSUME NEW x \in Waiting' PROVE Indexed(x)'
        OBVIOUS
      <4>1. x \in Waiting /\ x # t /\ x \in Live /\ object'[x] = object[x] /\ object[x] \in Object
        BY <2>4, <2>7, OwnedAreLive
      <4>2. TaskExist(object[x].name) /\ task_ptrs[object[x].name].iter = x
        BY <4>1 DEF IndexAgrees, Indexed, Waiting
      <4>3. object[x].name # n
        BY <4>1, <4>2 DEF t
      <4> QED BY <4>1, <4>2, <4>3, <3>1, <3>2 DEF Object, Indexed
    <3>4. \A m \in Name : TaskExist(m)' => HandleOK(m)'
      <4> SUFFICES ASSUME NEW m \in Name, TaskExist(m), m # n PROVE HandleOK(m)'
        BY <3>1
      <4>a. task_ptrs'[m] = task_ptrs[m]
        BY <3>2
      <4>1. CASE task_ptrs[m].iter # NoTask
        <5>1. /\ task_ptrs[m].iter \in Waiting /\ object[task_ptrs[m].iter].name = m
              /\ object[task_ptrs[m].iter].sequence = task_ptrs[m].sequence
          BY <4>1 DEF IndexAgrees, HandleOK
        <5>2. task_ptrs[m].iter # t /\ task_ptrs[m].iter \in Task
          BY <2>2, <5>1, OwnedAreLive
        <5> QED BY <2>4, <2>7, <4>1, <4>a, <5>1, <5>2 DEF HandleOK
      <4>2. CASE task_ptrs[m].iter = NoTask
        <5>1. PICK s \in Sender : /\ hand[s] # NoTask
                                  /\ object[hand[s]].name = m
                                  /\ object[hand[s]].sequence = task_ptrs[m].sequence
          BY <4>2 DEF IndexAgrees, HandleOK
        <5>2. object'[hand[s]] = object[hand[s]]
          BY <2>6, <2>7, <5>1 DEF TypeOK
        <5> QED BY <4>2, <4>a, <5>1, <5>2 DEF HandleOK
      <4> QED BY <4>1, <4>2
    <3> QED BY <3>3, <3>4 DEF IndexAgrees, Waiting
  <2>11. /\ task_ptrs' \in [Name -> Handle \cup {NoHandle}]
         /\ latest' \in [Name -> Task \cup {NoTask}]
         /\ object' \in [Task -> Object \cup {Freed}]
    BY <2>1 DEF TypeOK
  <2> QED BY <2>3, <2>6, <2>7, <2>8, <2>9, <2>10, <2>11
<1> QED BY <1>0, <1>1, <1>2

\* The forced removal inside AddNewTask.
LEMMA StepRemoveOld ==
  ASSUME IInv, NEW w \in Worker, RemoveOld(w)
  PROVE  IInv'
<1> USE ConstantsAssumption DEF At, IInv
<1>1. /\ adder[w] # NoCall /\ adder[w].pc = "remove" /\ adder[w] \in Call
      /\ RemoveTask(adder[w].name) /\ UNCHANGED <<hand, next_sequence, twins>>
      /\ adder' = [adder EXCEPT ![w].pc = "add"]
  BY DEF RemoveOld, TypeOK
<1>2. \A v \in Worker, t \in Task : Holds(v, t)' <=> Holds(v, t)
  BY <1>1 DEF TypeOK, Holds, Call
<1>3. adder[w].name \in Name
  BY <1>1 DEF Call
<1>4. /\ tasks' \in Seq(Task)
      /\ task_ptrs' \in [Name -> Handle \cup {NoHandle}]
      /\ object' \in [Task -> Object \cup {Freed}]
      /\ latest' \in [Name -> Task \cup {NoTask}]
      /\ SingleOwner' /\ OwnedIffLive' /\ IndexAgrees'
      /\ \A v \in Worker, t \in Task : Holds(v, t) => object'[t] = object[t]
  BY <1>1, <1>2, <1>3, RemoveTaskKeeps
<1>5. adder' \in [Worker -> Call \cup {NoCall}]
  BY <1>1 DEF TypeOK, Call
<1>6. TypeOK'
  BY <1>1, <1>4, <1>5 DEF TypeOK
<1>7. CallOK'
  BY <1>1, <1>4 DEF CallOK, TypeOK, Holds, Call
<1> QED BY <1>4, <1>6, <1>7

\* The removal of a slave's task when the partition's slaves change.
LEMMA StepRemoveBinlogSendTask ==
  ASSUME IInv, NEW n \in Name, RemoveBinlogSendTask(n)
  PROVE  IInv'
<1> USE ConstantsAssumption DEF IInv
<1>1. RemoveTask(n) /\ UNCHANGED <<next_sequence, hand, adder, twins>>
  BY DEF RemoveBinlogSendTask
<1>2. \A v \in Worker, t \in Task : Holds(v, t)' <=> Holds(v, t)
  BY <1>1 DEF Holds
<1>4. /\ tasks' \in Seq(Task)
      /\ task_ptrs' \in [Name -> Handle \cup {NoHandle}]
      /\ object' \in [Task -> Object \cup {Freed}]
      /\ latest' \in [Name -> Task \cup {NoTask}]
      /\ SingleOwner' /\ OwnedIffLive' /\ IndexAgrees'
      /\ \A v \in Worker, t \in Task : Holds(v, t) => object'[t] = object[t]
  BY <1>1, <1>2, RemoveTaskKeeps
<1>6. TypeOK'
  BY <1>1, <1>4 DEF TypeOK
<1>7. CallOK'
  BY <1>1, <1>4 DEF CallOK, TypeOK, Holds, Call
<1> QED BY <1>4, <1>6, <1>7

\* AddTask hands the worker's task over to the list, or leaves it with the
\* worker when another task has taken the name.
LEMMA StepAddTask ==
  ASSUME IInv, NEW w \in Worker, AddTask(w)
  PROVE  IInv'
<1> USE ConstantsAssumption DEF At, IInv
<1> DEFINE n == adder[w].name
           t == adder[w].task
<1>1. /\ adder[w] # NoCall /\ adder[w].pc = "add" /\ adder[w] \in Call
      /\ UNCHANGED <<next_sequence, object, hand, twins>>
      /\ n \in Name /\ t \in Task /\ ~adder[w].added
      /\ object[t] # Freed /\ object[t].name = n /\ object[t] \in Object
      /\ Holds(w, t)
  <2>1. /\ adder[w] # NoCall /\ adder[w].pc = "add" /\ adder[w] \in Call
        /\ UNCHANGED <<next_sequence, object, hand, twins>>
    BY DEF AddTask, TypeOK
  <2>2. n \in Name /\ t \in Task /\ ~adder[w].added
    BY <2>1 DEF Call, CallOK
  <2>3. object[t] # Freed /\ object[t].name = n
    BY <2>1, <2>2 DEF CallOK
  <2>4. object[t] \in Object
    BY <2>2, <2>3 DEF TypeOK
  <2> QED BY <2>1, <2>2, <2>3, <2>4 DEF Holds
<1>2. CASE TaskExist(n)
  <2>1. adder' = [adder EXCEPT ![w].pc = "log"] /\ UNCHANGED <<tasks, task_ptrs, latest>>
    BY <1>2 DEF AddTask
  <2>2. \A v \in Worker, x \in Task : Holds(v, x)' <=> Holds(v, x)
    BY <1>1, <2>1 DEF TypeOK, Holds, Call
  <2>3. TypeOK'
    BY <1>1, <2>1 DEF TypeOK, Call
  <2>4. SingleOwner'
    BY <1>1, <2>1, <2>2 DEF SingleOwner, Waiting
  <2>5. OwnedIffLive'
    BY <1>1, <2>1, <2>2 DEF OwnedIffLive, Owned, Waiting, Live
  <2>6. IndexAgrees'
    BY <1>1, <2>1 DEF IndexAgrees, Indexed, HandleOK, TaskExist, Waiting
  <2>7. CallOK'
    BY <1>1, <2>1 DEF CallOK, TypeOK, Call
  <2> QED BY <2>3, <2>4, <2>5, <2>6, <2>7
<1>3. CASE ~TaskExist(n)
  <2>1. /\ tasks' = Append(tasks, t)
        /\ task_ptrs' = [task_ptrs EXCEPT ![n] =
             [iter |-> t, sequence |-> object[t].sequence, filenum_snap |-> object[t].filenum]]
        /\ latest' = [latest EXCEPT ![n] = t]
        /\ adder' = [adder EXCEPT ![w].pc = "log", ![w].added = TRUE]
    BY <1>3 DEF AddTask
  <2>2. t \notin Waiting /\ (\A s \in Sender : hand[s] # t)
        /\ (\A v \in Worker : Holds(v, t) => v = w)
    BY <1>1 DEF SingleOwner
  <2>3. tasks' \in Seq(Task) /\ Inj(tasks') /\ Waiting' = Waiting \cup {t}
    <3>1. tasks' \in Seq(Task) /\ Inj(tasks') /\ Elems(tasks') = Elems(tasks) \cup {t}
      BY <1>1, <2>1, <2>2, OwnedAreLive, AppendFacts DEF TypeOK
    <3> QED BY <3>1 DEF Waiting, Elems
  <2>4. /\ \A v \in Worker \ {w}, x \in Task : Holds(v, x)' <=> Holds(v, x)
        /\ \A x \in Task : ~Holds(w, x)' /\ (Holds(w, x) <=> x = t)
    <3>1. \A v \in Worker \ {w} : adder'[v] = adder[v]
      BY <2>1 DEF TypeOK
    <3>2. adder'[w].added
      BY <1>1, <2>1 DEF TypeOK, Call
    <3> QED BY <1>1, <3>1, <3>2 DEF Holds
  <2>5. TypeOK'
    <3>1. task_ptrs' \in [Name -> Handle \cup {NoHandle}]
      BY <1>1, <2>1 DEF TypeOK, Handle, Object
    <3>2. adder' \in [Worker -> Call \cup {NoCall}]
      BY <1>1, <2>1 DEF TypeOK, Call
    <3>3. latest' \in [Name -> Task \cup {NoTask}]
      BY <1>1, <2>1 DEF TypeOK
    <3> QED BY <1>1, <2>3, <3>1, <3>2, <3>3 DEF TypeOK
  <2>6. SingleOwner'
    BY <1>1, <2>2, <2>3, <2>4 DEF SingleOwner, Inj
  <2>7. OwnedIffLive'
    <3>1. Live' = Live
      BY <1>1 DEF Live
    <3>2. ASSUME NEW x \in Task PROVE Owned(x)' <=> Owned(x)
      BY <1>1, <2>3, <2>4 DEF Owned
    <3> QED BY <3>1, <3>2 DEF OwnedIffLive
  <2>8. IndexAgrees'
    <3>1. \A m \in Name : TaskExist(m)' <=> TaskExist(m) \/ m = n
      <4>1. task_ptrs'[n] \in Handle
        BY <1>1, <2>1 DEF TypeOK, Handle, Object
      <4> QED BY <1>1, <2>1, <4>1 DEF TaskExist, TypeOK
    <3>2. \A m \in Name : m # n => task_ptrs'[m] = task_ptrs[m]
      BY <2>1 DEF TypeOK
    <3>3. task_ptrs'[n].iter = t /\ task_ptrs'[n].sequence = object[t].sequence
      BY <1>1, <2>1 DEF TypeOK
    <3>4. \A x \in Waiting' : Indexed(x)'
      <4> SUFFICES ASSUME NEW x \in Waiting' PROVE Indexed(x)'
        OBVIOUS
      <4>1. CASE x = t
        BY <1>1, <3>1, <3>3, <4>1 DEF Indexed
      <4>2. CASE x \in Waiting
        <5>1. Indexed(x) /\ object[x] \in Object
          BY <4>2, OwnedAreLive DEF IndexAgrees, Waiting
        <5>2. object[x].name # n /\ object[x].name \in Name
          BY <1>3, <5>1 DEF Indexed, Object
        <5> QED BY <1>1, <3>1, <3>2, <5>1, <5>2 DEF Indexed
      <4> QED BY <2>3, <4>1, <4>2
    <3>5. \A m \in Name : TaskExist(m)' => HandleOK(m)'
      <4> SUFFICES ASSUME NEW m \in Name, TaskExist(m)' PROVE HandleOK(m)'
        OBVIOUS
      <4>1. CASE m = n
        BY <1>1, <2>3, <3>3, <4>1 DEF HandleOK
      <4>2. CASE m # n
        <5>1. TaskExist(m) /\ HandleOK(m) /\ task_ptrs'[m] = task_ptrs[m]
          BY <3>1, <3>2, <4>2 DEF IndexAgrees
        <5> QED BY <1>1, <2>3, <5>1 DEF HandleOK
      <4> QED BY <4>1, <4>2
    <3> QED BY <3>4, <3>5 DEF IndexAgrees, Waiting
  <2>9. CallOK'
    BY <1>1, <2>1 DEF CallOK, TypeOK, Call
  <2> QED BY <2>5, <2>6, <2>7, <2>8, <2>9
<1> QED BY <1>2, <1>3

\* The end of AddNewTask: a task that was not added is deleted by its owner.
LEMMA StepLogAdded ==
  ASSUME IInv, NEW w \in Worker, LogAdded(w)
  PROVE  IInv'
<1> USE ConstantsAssumption DEF At, IInv
<1> DEFINE t == adder[w].task
<1>1. /\ adder[w] # NoCall /\ adder[w].pc = "log" /\ adder[w] \in Call
      /\ UNCHANGED <<tasks, task_ptrs, next_sequence, hand, latest, twins>>
      /\ adder' = [adder EXCEPT ![w] = NoCall]
      /\ object' = IF adder[w].added THEN object ELSE [object EXCEPT ![t] = Freed]
      /\ t \in Task
  BY DEF LogAdded, TypeOK, CallOK
<1>2. Waiting' = Waiting
  BY <1>1 DEF Waiting
<1>3. \A v \in Worker \ {w} : adder'[v] = adder[v]
  BY <1>1 DEF TypeOK
<1>4. /\ \A v \in Worker \ {w}, x \in Task : Holds(v, x)' <=> Holds(v, x)
      /\ \A x \in Task : ~Holds(w, x)' /\ (Holds(w, x) <=> x = t /\ ~adder[w].added)
  BY <1>1, <1>3 DEF Holds, TypeOK
<1>5. TypeOK'
  BY <1>1 DEF TypeOK
<1>6. SingleOwner'
  BY <1>1, <1>2, <1>4 DEF SingleOwner
<1>7. CASE adder[w].added
  <2>1. object' = object
    BY <1>1, <1>7
  <2>2. OwnedIffLive'
    BY <1>1, <1>2, <1>4, <1>7, <2>1 DEF OwnedIffLive, Owned, Live
  <2>3. IndexAgrees'
    BY <1>1, <1>2, <2>1 DEF IndexAgrees, Indexed, HandleOK, TaskExist
  <2>4. CallOK'
    BY <1>1, <1>3, <2>1 DEF CallOK, TypeOK
  <2> QED BY <1>5, <1>6, <2>2, <2>3, <2>4
<1>8. CASE ~adder[w].added
  <2>1. object' = [object EXCEPT ![t] = Freed]
    BY <1>1, <1>8
  <2>2. Holds(w, t)
    BY <1>4, <1>1, <1>8
  <2>3. /\ t \notin Waiting /\ (\A s \in Sender : hand[s] # t)
        /\ \A v \in Worker \ {w} : ~Holds(v, t)
    BY <1>1, <2>2 DEF SingleOwner
  <2>4. Live' = Live \ {t}
    BY <2>1 DEF Live, TypeOK
  <2>5. \A x \in Task \ {t} : object'[x] = object[x]
    BY <2>1 DEF TypeOK
  <2>6. OwnedIffLive'
    <3>1. ASSUME NEW x \in Task PROVE Owned(x)' <=> Owned(x) /\ x # t
      BY <1>1, <1>2, <1>4, <1>8, <2>3 DEF Owned
    <3> QED BY <2>4, <3>1 DEF OwnedIffLive
  <2>7. IndexAgrees'
    <3>1. \A i \in DOMAIN tasks : tasks[i] \in Task \ {t}
      BY <2>3 DEF Waiting, TypeOK
    <3>2. \A s \in Sender : hand[s] # NoTask => hand[s] \in Task \ {t}
      BY <2>3 DEF TypeOK
    <3>3. Waiting \subseteq Task \ {t}
      BY <2>3, OwnedAreLive
    <3>4. ASSUME NEW x \in Waiting' PROVE Indexed(x)'
      <4>1. x \in Waiting /\ x \in Task \ {t} /\ Indexed(x)
        BY <1>2, <3>3 DEF IndexAgrees, Waiting
      <4>2. object'[x] = object[x]
        BY <2>5, <4>1
      <4> QED BY <1>1, <4>1, <4>2 DEF Indexed, TaskExist
    <3>5. ASSUME NEW n \in Name, TaskExist(n)' PROVE HandleOK(n)'
      <4>1. HandleOK(n)
        BY <1>1, <3>5 DEF IndexAgrees, TaskExist
      <4> QED BY <1>1, <1>2, <2>5, <3>2, <3>3, <4>1 DEF HandleOK
    <3> QED BY <3>4, <3>5 DEF IndexAgrees, Waiting
  <2>8. CallOK'
    <3> SUFFICES ASSUME NEW v \in Worker \ {w}, adder[v] # NoCall,
                        adder[v].pc # "create", ~adder[v].added
                 PROVE  object'[adder[v].task] = object[adder[v].task]
      BY <1>1, <1>3 DEF CallOK, TypeOK
    <3>1. adder[v].task \in Task /\ Holds(v, adder[v].task)
      BY DEF CallOK, Holds
    <3> QED BY <2>3, <2>5, <3>1
  <2> QED BY <1>5, <1>6, <2>6, <2>7, <2>8
<1> QED BY <1>7, <1>8

\* FetchOut moves the first task from the list to the sender's hand.
LEMMA StepFetchOut ==
  ASSUME IInv, NEW s \in Sender, FetchOut(s)
  PROVE  IInv'
<1> USE ConstantsAssumption DEF IInv
<1> DEFINE t == Head(tasks)
           n == object[t].name
<1>1. /\ hand[s] = NoTask /\ tasks # <<>> /\ tasks' = Tail(tasks)
      /\ hand' = [hand EXCEPT ![s] = t]
      /\ UNCHANGED <<next_sequence, object, adder, latest, twins>>
  BY DEF FetchOut
<1>2. /\ t \in Waiting /\ t \in Task /\ tasks' \in Seq(Task) /\ Inj(tasks')
      /\ Elems(tasks') = Elems(tasks) \ {t}
  BY <1>1, TailFacts, OwnedAreLive DEF TypeOK
<1>3. Waiting' = Waiting \ {t}
  BY <1>2 DEF Waiting, Elems
<1>4. Indexed(t) /\ object[t] \in Object /\ n \in Name
  BY <1>2, OwnedAreLive DEF IndexAgrees, Waiting, Object
<1>5. task_ptrs' = [task_ptrs EXCEPT ![n] = [task_ptrs[n] EXCEPT !.iter = NoTask]]
  BY <1>4 DEF FetchOut, Indexed
<1>6. task_ptrs[n] \in Handle /\ task_ptrs[n].iter = t /\ HandleOK(n)
  BY <1>4 DEF Indexed, TaskExist, TypeOK, IndexAgrees
<1>7. /\ task_ptrs'[n] \in Handle /\ task_ptrs'[n].iter = NoTask
      /\ task_ptrs'[n].sequence = task_ptrs[n].sequence
      /\ \A m \in Name : m # n => task_ptrs'[m] = task_ptrs[m]
  BY <1>4, <1>5, <1>6 DEF TypeOK, Handle
<1> HIDE DEF t, n
<1>8. hand'[s] = t /\ \A r \in Sender : r # s => hand'[r] = hand[r]
  BY <1>1 DEF TypeOK
<1>9. TypeOK'
  <2>1. task_ptrs' \in [Name -> Handle \cup {NoHandle}]
    BY <1>4, <1>5, <1>7 DEF TypeOK
  <2>2. hand' \in [Sender -> Task \cup {NoTask}]
    BY <1>1, <1>2 DEF TypeOK
  <2> QED BY <1>1, <1>2, <2>1, <2>2 DEF TypeOK
<1>10. \A v \in Worker, x \in Task : Holds(v, x)' <=> Holds(v, x)
  BY <1>1 DEF Holds
<1>11. \A r \in Sender : hand[r] # t
  BY <1>2 DEF SingleOwner
<1>12. SingleOwner'
  <2>1. \A v \in Worker : ~Holds(v, t)
    BY <1>2 DEF SingleOwner
  <2>2. \A i, j \in DOMAIN tasks' : tasks'[i] = tasks'[j] => i = j
    BY <1>2 DEF Inj
  <2>3. ASSUME NEW q \in Sender, hand'[q] # NoTask
        PROVE  hand'[q] \notin Waiting' /\ \A r \in Sender : hand'[r] = hand'[q] => r = q
    BY <1>3, <1>8, <1>11, <2>3 DEF SingleOwner
  <2>4. ASSUME NEW v \in Worker, NEW x \in Task, Holds(v, x)'
        PROVE  /\ x \notin Waiting'
               /\ \A r \in Sender : hand'[r] # x
               /\ \A u \in Worker : Holds(u, x)' => u = v
    BY <1>3, <1>8, <1>10, <2>1, <2>4 DEF SingleOwner
  <2> QED BY <2>2, <2>3, <2>4 DEF SingleOwner
<1>13. OwnedIffLive'
  <2>1. ASSUME NEW x \in Task PROVE Owned(x)' <=> Owned(x)
    BY <1>1, <1>2, <1>3, <1>8, <1>10 DEF Owned
  <2>2. Live' = Live
    BY <1>1 DEF Live
  <2> QED BY <2>1, <2>2 DEF OwnedIffLive
<1>14. IndexAgrees'
  <2>1. \A m \in Name : TaskExist(m)' <=> TaskExist(m)
    BY <1>4, <1>6, <1>7 DEF TaskExist
  <2>2. \A x \in Waiting' : Indexed(x)'
    <3> SUFFICES ASSUME NEW x \in Waiting' PROVE Indexed(x)'
      OBVIOUS
    <3>1. x # t /\ Indexed(x) /\ object[x] \in Object
      BY <1>3, OwnedAreLive DEF IndexAgrees, Waiting
    <3>2. object[x].name # n /\ object[x].name \in Name
      BY <1>6, <3>1 DEF Indexed, Object
    <3> QED BY <1>1, <1>7, <2>1, <3>1, <3>2 DEF Indexed
  <2>3. \A m \in Name : TaskExist(m)' => HandleOK(m)'
    <3> SUFFICES ASSUME NEW m \in Name, TaskExist(m) PROVE HandleOK(m)'
      BY <2>1
    <3>1. CASE m = n
      <4>1. hand'[s] # NoTask /\ object'[hand'[s]].name = n
            /\ object'[hand'[s]].sequence = task_ptrs'[n].sequence
        BY <1>1, <1>2, <1>6, <1>7, <1>8 DEF HandleOK, n
      <4> QED BY <1>7, <3>1, <4>1 DEF HandleOK
    <3>2. CASE m # n
      <4>1. HandleOK(m) /\ task_ptrs'[m] = task_ptrs[m]
        BY <1>7, <3>2 DEF IndexAgrees
      <4>2. CASE task_ptrs[m].iter # NoTask
        <5>1. task_ptrs[m].iter # t
          BY <3>2, <4>1, <4>2 DEF HandleOK, n
        <5> QED BY <1>1, <1>3, <4>1, <4>2, <5>1 DEF HandleOK
      <4>3. CASE task_ptrs[m].iter = NoTask
        <5>1. PICK r \in Sender : /\ hand[r] # NoTask /\ object[hand[r]].name = m
                                  /\ object[hand[r]].sequence = task_ptrs[m].sequence
          BY <4>1, <4>3 DEF HandleOK
        <5>2. hand'[r] = hand[r]
          BY <1>1, <1>8, <5>1
        <5> QED BY <1>1, <4>1, <4>3, <5>1, <5>2 DEF HandleOK
      <4> QED BY <4>2, <4>3
    <3> QED BY <3>1, <3>2
  <2> QED BY <2>2, <2>3 DEF IndexAgrees, Waiting
<1>15. CallOK'
  BY <1>1 DEF CallOK
<1> QED BY <1>9, <1>12, <1>13, <1>14, <1>15

\* A sender that rolls its task to the next file changes only that field.
LEMMA StepRollToNextFile ==
  ASSUME IInv, NEW s \in Sender, RollToNextFile(s)
  PROVE  IInv'
<1> USE ConstantsAssumption DEF IInv
<1>1. /\ hand[s] # NoTask /\ hand[s] \in Task /\ hand[s] \in Live
      /\ object[hand[s]].filenum < MaxFilenum
      /\ object' = [object EXCEPT ![hand[s]].filenum = @ + 1]
      /\ UNCHANGED <<tasks, task_ptrs, next_sequence, hand, adder, latest, twins>>
  BY OwnedAreLive DEF RollToNextFile, TypeOK
<1>2. object[hand[s]] \in Object
  BY <1>1, OwnedAreLive
<1>3. /\ object'[hand[s]] \in Object
      /\ object'[hand[s]].name = object[hand[s]].name
      /\ object'[hand[s]].sequence = object[hand[s]].sequence
      /\ \A x \in Task : x # hand[s] => object'[x] = object[x]
  BY <1>1, <1>2 DEF TypeOK, Object, Filenum
<1>4. \A x \in Task : /\ object'[x] # Freed <=> object[x] # Freed
                      /\ object'[x].name = object[x].name
                      /\ object'[x].sequence = object[x].sequence
  BY <1>1, <1>2, <1>3
<1>5. TypeOK'
  <2>1. object' \in [Task -> Object \cup {Freed}]
    BY <1>1, <1>3 DEF TypeOK
  <2> QED BY <1>1, <2>1 DEF TypeOK
<1>6. Waiting' = Waiting /\ Live' = Live
  BY <1>1, <1>4 DEF Waiting, Live
<1>7. \A v \in Worker, x \in Task : Holds(v, x)' <=> Holds(v, x)
  BY <1>1 DEF Holds
<1>8. SingleOwner'
  BY <1>1, <1>6, <1>7 DEF SingleOwner
<1>9. OwnedIffLive'
  BY <1>1, <1>6, <1>7 DEF OwnedIffLive, Owned
<1>10. IndexAgrees'
  <2>1. ASSUME NEW x \in Waiting' PROVE Indexed(x)'
    <3>1. x \in Task /\ Indexed(x)
      BY <1>6, OwnedAreLive DEF IndexAgrees, Waiting
    <3> QED BY <1>1, <1>4, <3>1 DEF Indexed, TaskExist
  <2>2. ASSUME NEW n \in Name, TaskExist(n)' PROVE HandleOK(n)'
    <3>1. HandleOK(n)
      BY <1>1, <2>2 DEF IndexAgrees, TaskExist
    <3>2. Waiting \subseteq Task /\ \A r \in Sender : hand[r] # NoTask => hand[r] \in Task
      BY OwnedAreLive DEF TypeOK
    <3> QED BY <1>1, <1>4, <1>6, <3>1, <3>2 DEF HandleOK
  <2> QED BY <2>1, <2>2 DEF IndexAgrees, Waiting
<1>11. CallOK'
  BY <1>1, <1>4 DEF CallOK
<1> QED BY <1>5, <1>8, <1>9, <1>10, <1>11

\* PutBack returns an expected task to the list and deletes any other.
LEMMA StepPutBack ==
  ASSUME IInv, NEW s \in Sender, PutBack(s)
  PROVE  IInv'
<1> USE ConstantsAssumption DEF IInv
<1> DEFINE t == hand[s]
           n == object[t].name
<1>1. /\ t # NoTask /\ hand' = [hand EXCEPT ![s] = NoTask]
      /\ UNCHANGED <<next_sequence, adder, latest, twins>>
  BY DEF PutBack
<1>2. t \in Task /\ t \in Live /\ object[t] \in Object /\ n \in Name
  BY <1>1, OwnedAreLive DEF TypeOK, Object
<1>3. /\ t \notin Waiting /\ (\A r \in Sender : r # s => hand[r] # t)
      /\ \A v \in Worker : ~Holds(v, t)
  BY <1>1, <1>2 DEF SingleOwner
<1>4. hand'[s] = NoTask /\ \A r \in Sender : r # s => hand'[r] = hand[r]
  BY <1>1 DEF TypeOK
<1>5. hand' \in [Sender -> Task \cup {NoTask}]
  BY <1>1 DEF TypeOK
<1>6. \A v \in Worker, x \in Task : Holds(v, x)' <=> Holds(v, x)
  BY <1>1 DEF Holds
<1>7. CASE Expected(t)
  <2>1. /\ tasks' = Append(tasks, t) /\ object' = object
        /\ task_ptrs' = [task_ptrs EXCEPT ![n].iter = t,
                                          ![n].filenum_snap = object[t].filenum]
        /\ task_ptrs[n] # NoHandle /\ task_ptrs[n].iter = NoTask
        /\ task_ptrs[n].sequence = object[t].sequence
    BY <1>7 DEF PutBack, Expected
  <2>2. task_ptrs[n] \in Handle
    BY <1>2, <2>1 DEF TypeOK
  <2>3. /\ task_ptrs'[n] \in Handle /\ task_ptrs'[n].iter = t
        /\ task_ptrs'[n].sequence = object[t].sequence
        /\ \A m \in Name : m # n => task_ptrs'[m] = task_ptrs[m]
    BY <1>2, <2>1, <2>2 DEF TypeOK, Handle, Object
  <2>4. task_ptrs' \in [Name -> Handle \cup {NoHandle}]
    BY <1>2, <2>1, <2>3 DEF TypeOK
  <2> HIDE DEF t, n
  <2>5. tasks' \in Seq(Task) /\ Inj(tasks') /\ Waiting' = Waiting \cup {t}
    <3>1. tasks' \in Seq(Task) /\ Inj(tasks') /\ Elems(tasks') = Elems(tasks) \cup {t}
      BY <1>2, <1>3, <2>1, OwnedAreLive, AppendFacts DEF TypeOK
    <3> QED BY <3>1 DEF Waiting, Elems
  <2>6. TypeOK'
    BY <1>1, <1>5, <2>1, <2>4, <2>5 DEF TypeOK
  <2>7. SingleOwner'
    <3>1. \A i, j \in DOMAIN tasks' : tasks'[i] = tasks'[j] => i = j
      BY <2>5 DEF Inj
    <3>2. ASSUME NEW q \in Sender, hand'[q] # NoTask
          PROVE  hand'[q] \notin Waiting' /\ \A r \in Sender : hand'[r] = hand'[q] => r = q
      BY <1>3, <1>4, <2>5, <3>2 DEF SingleOwner
    <3>3. ASSUME NEW v \in Worker, NEW x \in Task, Holds(v, x)'
          PROVE  /\ x \notin Waiting'
                 /\ \A r \in Sender : hand'[r] # x
                 /\ \A u \in Worker : Holds(u, x)' => u = v
      BY <1>3, <1>4, <1>6, <2>5, <3>3 DEF SingleOwner
    <3> QED BY <3>1, <3>2, <3>3 DEF SingleOwner
  <2>8. OwnedIffLive'
    <3>1. ASSUME NEW x \in Task PROVE Owned(x)' <=> Owned(x)
      BY <1>1, <1>2, <1>4, <1>6, <2>5 DEF Owned, t
    <3>2. Live' = Live
      BY <2>1 DEF Live
    <3> QED BY <3>1, <3>2 DEF OwnedIffLive
  <2>9. IndexAgrees'
    <3>1. \A m \in Name : TaskExist(m)' <=> TaskExist(m)
      BY <1>2, <2>1, <2>2, <2>3 DEF TaskExist
    <3>2. ASSUME NEW x \in Waiting' PROVE Indexed(x)'
      <4>1. CASE x = t
        BY <1>2, <2>1, <2>3, <3>1, <4>1 DEF Indexed, TaskExist, n
      <4>2. CASE x \in Waiting
        <5>1. Indexed(x) /\ object[x] \in Object /\ x \in Task
          BY <4>2, OwnedAreLive DEF IndexAgrees, Waiting
        <5>2. object[x].name # n /\ object[x].name \in Name
          BY <2>1, <5>1 DEF Indexed, Object
        <5> QED BY <2>1, <2>3, <3>1, <5>1, <5>2 DEF Indexed
      <4> QED BY <2>5, <3>2, <4>1, <4>2
    <3>3. ASSUME NEW m \in Name, TaskExist(m) PROVE HandleOK(m)'
      <4>1. CASE m = n
        BY <1>2, <2>1, <2>3, <2>5, <4>1 DEF HandleOK, n
      <4>2. CASE m # n
        <5>1. HandleOK(m) /\ task_ptrs'[m] = task_ptrs[m]
          BY <2>3, <3>3, <4>2 DEF IndexAgrees
        <5>2. CASE task_ptrs[m].iter # NoTask
          BY <2>1, <2>5, <5>1, <5>2 DEF HandleOK
        <5>3. CASE task_ptrs[m].iter = NoTask
          <6>1. PICK r \in Sender : /\ hand[r] # NoTask /\ object[hand[r]].name = m
                                    /\ object[hand[r]].sequence = task_ptrs[m].sequence
            BY <5>1, <5>3 DEF HandleOK
          <6>2. hand'[r] = hand[r]
            BY <1>4, <4>2, <6>1 DEF n, t
          <6> QED BY <2>1, <5>1, <5>3, <6>1, <6>2 DEF HandleOK
        <5> QED BY <5>2, <5>3
      <4> QED BY <4>1, <4>2
    <3> QED BY <3>1, <3>2, <3>3 DEF IndexAgrees, Waiting
  <2>10. CallOK'
    BY <1>1, <2>1 DEF CallOK
  <2> QED BY <2>6, <2>7, <2>8, <2>9, <2>10
<1>8. CASE ~Expected(t)
  <2>1. UNCHANGED <<tasks, task_ptrs>> /\ object' = [object EXCEPT ![t] = Freed]
    BY <1>8 DEF PutBack
  <2>2. \A x \in Task \ {t} : object'[x] = object[x]
    BY <2>1 DEF TypeOK
  <2>3. Waiting' = Waiting /\ Live' = Live \ {t}
    BY <2>1 DEF Waiting, Live, TypeOK
  <2>4. TypeOK'
    BY <1>1, <1>5, <2>1 DEF TypeOK
  <2>5. SingleOwner'
    BY <1>4, <1>6, <2>1, <2>3 DEF SingleOwner
  <2>6. OwnedIffLive'
    <3>1. ASSUME NEW x \in Task PROVE Owned(x)' <=> Owned(x) /\ x # t
      BY <1>1, <1>3, <1>4, <1>6, <2>3 DEF Owned
    <3> QED BY <2>3, <3>1 DEF OwnedIffLive
  <2>7. IndexAgrees'
    <3>1. ASSUME NEW x \in Waiting' PROVE Indexed(x)'
      <4>1. x \in Task \ {t} /\ Indexed(x)
        BY <1>3, <2>3, OwnedAreLive DEF IndexAgrees, Waiting
      <4> QED BY <2>1, <2>2, <4>1 DEF Indexed, TaskExist
    <3>2. ASSUME NEW m \in Name, TaskExist(m)' PROVE HandleOK(m)'
      <4>1. TaskExist(m) /\ HandleOK(m) /\ task_ptrs'[m] = task_ptrs[m]
        BY <2>1, <3>2 DEF IndexAgrees, TaskExist
      <4>2. CASE task_ptrs[m].iter # NoTask
        <5>1. task_ptrs[m].iter \in Waiting /\ task_ptrs[m].iter \in Task \ {t}
          BY <1>3, <4>1, <4>2, OwnedAreLive DEF HandleOK
        <5> QED BY <2>2, <2>3, <4>1, <4>2, <5>1 DEF HandleOK
      <4>3. CASE task_ptrs[m].iter = NoTask
        <5>1. PICK r \in Sender : /\ hand[r] # NoTask /\ object[hand[r]].name = m
                                  /\ object[hand[r]].sequence = task_ptrs[m].sequence
          BY <4>1, <4>3 DEF HandleOK
        <5>2. r # s
          BY <1>8, <4>1, <4>3, <5>1 DEF Expected, TaskExist
        <5>3. hand'[r] = hand[r] /\ hand[r] \in Task \ {t}
          BY <1>3, <1>4, <5>1, <5>2 DEF TypeOK
        <5> QED BY <2>2, <4>1, <4>3, <5>1, <5>3 DEF HandleOK
      <4> QED BY <4>2, <4>3
    <3> QED BY <3>1, <3>2 DEF IndexAgrees, Waiting
  <2>8. CallOK'
    <3> SUFFICES ASSUME NEW v \in Worker, adder[v] # NoCall,
                        adder[v].pc # "create", ~adder[v].added
                 PROVE  object'[adder[v].task] = object[adder[v].task]
      BY <1>1 DEF CallOK
    <3>1. adder[v].task \in Task /\ Holds(v, adder[v].task)
      BY DEF CallOK, Holds
    <3> QED BY <1>3, <2>2, <3>1
  <2> QED BY <2>4, <2>5, <2>6, <2>7, <2>8
<1> QED BY <1>7, <1>8

-----------------------------------------------------------------------------
\* Every step of the pool preserves the inductive invariant.
LEMMA NextIInv == IInv /\ [Next]_pool => IInv'
<1> SUFFICES ASSUME IInv, [Next]_pool PROVE IInv'
  OBVIOUS
<1>1. ASSUME NEW w \in Worker, NEW n \in Name, NEW f \in Filenum, AddNewTask(w, n, f)
      PROVE  IInv'
  BY <1>1, StepAddNewTask
<1>2. ASSUME NEW w \in Worker, AddStep(w) PROVE IInv'
  BY <1>2, StepCreateFails, StepCreate, StepCheckExist, StepRemoveOld, StepAddTask,
     StepLogAdded DEF AddStep
<1>3. ASSUME NEW n \in Name, RemoveBinlogSendTask(n) PROVE IInv'
  BY <1>3, StepRemoveBinlogSendTask
<1>4. ASSUME NEW s \in Sender, FetchOut(s) \/ RollToNextFile(s) \/ PutBack(s) PROVE IInv'
  BY <1>4, StepFetchOut, StepRollToNextFile, StepPutBack
<1>5. CASE UNCHANGED pool
  BY <1>5 DEF IInv, pool, TypeOK, SingleOwner, OwnedIffLive, Owned, IndexAgrees, Indexed,
     HandleOK, TaskExist, CallOK, Waiting, Live, Holds
<1> QED BY <1>1, <1>2, <1>3, <1>4, <1>5 DEF Next

\* However many workers and senders use the pool, and even though next_sequence_
\* is raced for: no task has two owners, and a task is allocated exactly while it
\* is owned.
THEOREM PoolSafety == Spec => [](TypeOK /\ TaskOwned)
<1>1. IInv => TypeOK /\ TaskOwned
  BY DEF IInv, TaskOwned
<1> QED BY <1>1, InitIInv, NextIInv, PTL DEF Spec

\* And task_ptrs_ agrees with tasks_ after every critical section: no iterator
\* dangles, and no name waits for a task that nobody will put back.
THEOREM IndexKept == Spec => []IndexAgrees
<1>1. IInv => IndexAgrees
  BY DEF IInv
<1> QED BY <1>1, InitIInv, NextIInv, PTL DEF Spec

-----------------------------------------------------------------------------
(* The pool among the partition's threads: BinlogPurge.                     *)

\* The partition's threads use the pool by its operations alone.
LEMMA PurgeUsesPool == [PurgeNext]_vars => [Next]_pool
<1> SUFFICES ASSUME PurgeNext PROVE Next \/ UNCHANGED pool
  BY DEF vars
<1>1. ASSUME NEW w \in Worker,
             \/ \E n \in Name, f \in Filenum : SlaveAskSync(w, n, f)
             \/ CreateOpens(w) \/ AddTaskStep(w)
      PROVE  Next
  BY <1>1 DEF SlaveAskSync, CreateOpens, AddTaskStep, Next, AddStep
<1>2. ASSUME NEW s \in Sender, FetchOut(s) \/ PutBack(s) \/ RollIfNext(s) PROVE Next
  BY <1>2 DEF RollIfNext, Next
<1>3. ASSUME NEW n \in Name, CleanSlaves(n) PROVE Next \/ UNCHANGED pool
  BY <1>3 DEF CleanSlaves, Next
<1>4. ASSUME \/ MaybeRoll \/ PurgeFiles \/ ExamineFile \/ PurgeDone \/ CouldPurge \/ DeleteFile
             \/ (\E r \in Role, S \in SUBSET Name : Update(r, S)) \/ ChangeRole \/ SendTrySync
             \/ \E f \in Filenum : SetBinlogOffsetWithLock(f) \/ TryUpdateMasterOffset(f)
      PROVE  UNCHANGED pool
  BY <1>4 DEF MaybeRoll, PurgeFiles, ExamineFile, PurgeDone, CouldPurge, DeleteFile, Update,
              ChangeRole, SendTrySync, SetBinlogOffsetWithLock, TryUpdateMasterOffset
<1> QED BY <1>1, <1>2, <1>3, <1>4 DEF PurgeNext

\* Every behaviour of the partition is one of the pool.
THEOREM PurgeImplementsPool == PurgeSpec => Spec
<1>1. PurgeInit => Init
  BY DEF PurgeInit
<1> QED BY <1>1, PurgeUsesPool, PTL DEF PurgeSpec, Spec

\* The smallest of some numbers.
LEMMA FirstFacts ==
  ASSUME NEW S \in SUBSET Nat, S # {}
  PROVE  First(S) \in S /\ \A g \in S : First(S) <= g
<1> DEFINE R == OpToRel(<, Nat)
<1>1. PICK f \in S : \A g \in S : ~(<<g, f>> \in R)
  BY WFMin, NatLessThanWellFounded, Zenon
<1>2. ASSUME NEW g \in S PROVE f <= g
  <2>1. f \in Nat /\ g \in Nat
    OBVIOUS
  <2>2. ~(g < f)
    BY <1>1, <2>1, Zenon DEF OpToRel
  <2> HIDE DEF R
  <2> QED BY <2>1, <2>2
<1> HIDE DEF R
<1> QED BY <1>2 DEF First

\* The locks: Update has state_rw_ to itself, and a purge that looks at a file has
\* one to look at.
Locks ==
  /\ updater # NoUpdate =>
       updater.pc = "clean" /\ purger = Idle /\ \A w \in Worker : adder[w] = NoCall
  /\ purger.pc \in {"could", "delete"} => purger.binlogs # {}
  /\ purger.pc = "idle" => purger = Idle

LEMMA LockFacts == NoUpdate.pc = "idle" /\ NoUpdate.todo = {} /\ Idle.pc = "idle"
  BY DEF NoUpdate, Idle

LEMMA LocksStep ==
  ASSUME PurgeTypeOK, Locks, [PurgeNext]_vars PROVE Locks'
<1> USE LockFacts
<1>1. ASSUME NEW w \in Worker, NEW n \in Name, NEW f \in Filenum, SlaveAskSync(w, n, f)
      PROVE  Locks'
  BY <1>1 DEF SlaveAskSync, ReadState, partition, Locks
<1>2. ASSUME NEW w \in Worker, CreateOpens(w) \/ AddTaskStep(w) PROVE Locks'
  <2>1. UNCHANGED <<updater, purger>> /\ adder[w] # NoCall
    BY <1>2 DEF CreateOpens, AddTaskStep, partition, Create, CreateFails, CheckExist,
                RemoveOld, AddTask, LogAdded, At
  <2> QED BY <2>1 DEF Locks
<1>3. ASSUME NEW s \in Sender, ((FetchOut(s) \/ PutBack(s)) /\ UNCHANGED partition) \/ RollIfNext(s)
      PROVE  Locks'
  BY <1>3 DEF RollIfNext, FetchOut, PutBack, RollToNextFile, partition, Locks
<1>4. ASSUME NEW n \in Name, CleanSlaves(n) PROVE Locks'
  <2>1. /\ updater' = [updater EXCEPT !.todo = @ \ {n}] /\ UNCHANGED <<purger, adder>>
        /\ updater # NoUpdate
    BY <1>4 DEF CleanSlaves, RemoveBinlogSendTask, pool
  <2>2. updater'.pc = updater.pc
    BY <2>1 DEF PurgeTypeOK
  <2> QED BY <2>1, <2>2 DEF Locks
<1>5. ASSUME MaybeRoll \/ SendTrySync PROVE Locks'
  BY <1>5 DEF MaybeRoll, SendTrySync, pool, Locks
<1>6. CASE PurgeFiles
  BY <1>6 DEF PurgeFiles, ReadState, pool, Locks
<1>7. CASE ExamineFile
  <2>1. purger'.pc = "could" /\ purger'.binlogs = purger.binlogs
    BY <1>7 DEF ExamineFile, PurgeTypeOK
  <2> QED BY <1>7, <2>1 DEF ExamineFile, pool, Locks
<1>8. CASE PurgeDone
  BY <1>8 DEF PurgeDone, pool, Locks
<1>9. CASE CouldPurge
  <2>1. purger' \in {Idle, [purger EXCEPT !.pc = "delete"]}
    BY <1>9 DEF CouldPurge
  <2>2. purger' = Idle \/ (purger'.pc = "delete" /\ purger'.binlogs = purger.binlogs)
    BY <2>1 DEF PurgeTypeOK
  <2> QED BY <1>9, <2>2 DEF CouldPurge, pool, Locks
<1>10. CASE DeleteFile
  <2>1. purger'.pc = "examine"
    BY <1>10 DEF DeleteFile
  <2> QED BY <1>10, <2>1 DEF DeleteFile, pool, Locks
<1>11. ASSUME NEW r \in Role, NEW S \in SUBSET Name, Update(r, S) PROVE Locks'
  <2>1. updater'.pc = "clean"
    BY <1>11 DEF Update
  <2> QED BY <1>11, <2>1 DEF Update, WriteState, pool, Locks
<1>12. CASE ChangeRole
  BY <1>12 DEF ChangeRole, pool, Locks
<1>13. ASSUME NEW f \in Filenum, SetBinlogOffsetWithLock(f) \/ TryUpdateMasterOffset(f)
       PROVE  Locks'
  BY <1>13 DEF SetBinlogOffsetWithLock, TryUpdateMasterOffset, pool, Locks
<1>14. CASE UNCHANGED vars
  BY <1>14 DEF vars, pool, partition, Locks
<1> QED BY <1>1, <1>2, <1>3, <1>4, <1>5, <1>6, <1>7, <1>8, <1>9, <1>10, <1>11, <1>12, <1>13,
           <1>14 DEF PurgeNext

LEMMA PurgeTypeInit == PurgeInit => PurgeTypeOK
<1> SUFFICES ASSUME PurgeInit PROVE PurgeTypeOK
  OBVIOUS
<1>1. TypeOK
  BY InitIInv DEF PurgeInit, IInv
<1>2. 0 \in Filenum /\ 0 \in 0 .. MaxFilenum + 1
  BY ConstantsAssumption DEF Filenum
<1>3. Idle \in [pc: {"idle", "examine", "could", "delete"}, binlogs: SUBSET Filenum]
  BY DEF Idle
<1>4. NoUpdate \in [pc: {"idle", "clean"}, todo: SUBSET Name, role: Role] /\ "master" \in Role
  BY DEF NoUpdate, Role
<1> QED BY <1>1, <1>2, <1>3, <1>4 DEF PurgeInit, PurgeTypeOK

LEMMA ProducerTypes ==
  ASSUME PurgeTypeOK, NEW f \in Filenum, SetProducerStatus(f)
  PROVE  files' \subseteq Filenum /\ pro_num' \in Filenum /\ purged_index' \in 0..MaxFilenum + 1
  BY ConstantsAssumption DEF PurgeTypeOK, SetProducerStatus, Filenum

LEMMA PurgeTypeStep ==
  ASSUME PurgeTypeOK, IInv, Locks, [PurgeNext]_vars PROVE PurgeTypeOK'
<1> USE LockFacts, ConstantsAssumption
<1>0. TypeOK'
  BY PurgeUsesPool, NextIInv DEF IInv
<1>1. ASSUME UNCHANGED partition PROVE PurgeTypeOK'
  BY <1>0, <1>1 DEF partition, PurgeTypeOK
<1>2. ASSUME NEW w \in Worker,
             \/ \E n \in Name, f \in Filenum : SlaveAskSync(w, n, f)
             \/ CreateOpens(w) \/ AddTaskStep(w)
      PROVE  PurgeTypeOK'
  BY <1>1, <1>2 DEF SlaveAskSync, CreateOpens, AddTaskStep
<1>3. ASSUME NEW s \in Sender, ((FetchOut(s) \/ PutBack(s)) /\ UNCHANGED partition) \/ RollIfNext(s)
      PROVE  PurgeTypeOK'
  BY <1>1, <1>3 DEF RollIfNext
<1>4. ASSUME NEW n \in Name, CleanSlaves(n) PROVE PurgeTypeOK'
  <2>1. updater' \in [pc: {"idle", "clean"}, todo: SUBSET Name, role: Role]
    BY <1>4 DEF CleanSlaves, PurgeTypeOK
  <2> QED BY <1>0, <1>4, <2>1 DEF CleanSlaves, PurgeTypeOK
<1>5. CASE MaybeRoll
  BY <1>0, <1>5 DEF MaybeRoll, PurgeTypeOK, Filenum
<1>6. CASE SendTrySync
  BY <1>0, <1>6 DEF SendTrySync, PurgeTypeOK
<1>7. CASE PurgeFiles
  BY <1>0, <1>7 DEF PurgeFiles, PurgeTypeOK
<1>8. CASE ExamineFile
  BY <1>0, <1>8 DEF ExamineFile, PurgeTypeOK
<1>9. CASE PurgeDone
  BY <1>0, <1>9 DEF PurgeDone, PurgeTypeOK, Idle
<1>10. CASE CouldPurge
  <2>1. purger.binlogs \in SUBSET Nat /\ purger.binlogs # {} /\ purger.binlogs \subseteq Filenum
    BY <1>10 DEF CouldPurge, Locks, PurgeTypeOK, Filenum
  <2>2. First(purger.binlogs) \in Filenum
    BY <2>1, FirstFacts
  <2>3. purged_index' \in 0..MaxFilenum + 1
    BY <1>10, <2>2 DEF CouldPurge, PurgeTypeOK, Filenum
  <2>4. purger' \in {Idle, [purger EXCEPT !.pc = "delete"]}
    BY <1>10 DEF CouldPurge
  <2>5. purger' \in [pc: {"idle", "examine", "could", "delete"}, binlogs: SUBSET Filenum]
    BY <2>4 DEF PurgeTypeOK, Idle
  <2> QED BY <1>0, <1>10, <2>3, <2>5 DEF CouldPurge, PurgeTypeOK
<1>11. CASE DeleteFile
  <2>1. purger' \in [pc: {"idle", "examine", "could", "delete"}, binlogs: SUBSET Filenum]
    BY <1>11 DEF DeleteFile, PurgeTypeOK
  <2>2. files' \subseteq Filenum /\ faults' \subseteq Fault
    BY <1>11 DEF DeleteFile, PurgeTypeOK, Fault
  <2> QED BY <1>0, <1>11, <2>1, <2>2 DEF DeleteFile, PurgeTypeOK
<1>12. ASSUME NEW r \in Role, NEW S \in SUBSET Name, Update(r, S) PROVE PurgeTypeOK'
  <2>1. updater' \in [pc: {"idle", "clean"}, todo: SUBSET Name, role: Role]
    BY <1>12 DEF Update, PurgeTypeOK
  <2> QED BY <1>0, <1>12, <2>1 DEF Update, PurgeTypeOK
<1>13. CASE ChangeRole
  <2>1. /\ files' \subseteq Filenum /\ pro_num' \in Filenum /\ purged_index' \in 0..MaxFilenum + 1
        /\ faults' \subseteq Fault
    <3>1. CASE updater.role = "single"
      <4>1. 0 \in Filenum /\ {"trash"} \subseteq Fault
        BY DEF Filenum, Fault
      <4>2. CloseLog
        BY <1>13, <3>1 DEF ChangeRole
      <4> QED BY <4>1, <4>2 DEF CloseLog, PurgeTypeOK
    <3>2. CASE updater.role # "single" /\ role # "single"
      BY <1>13, <3>2 DEF ChangeRole, Open, PurgeTypeOK
    <3>3. CASE updater.role # "single" /\ role = "single"
      <4>1. files # {} => First(files) \in Filenum
        <5>1. files \in SUBSET Nat /\ files \subseteq Filenum
          BY DEF PurgeTypeOK, Filenum
        <5> QED BY <5>1, FirstFacts
      <4>2. Filenum \subseteq 0 .. MaxFilenum + 1
        BY DEF Filenum
      <4>3. CheckBinlogFiles /\ files' = files \cup {pro_num} /\ UNCHANGED <<pro_num, faults>>
        BY <1>13, <3>3 DEF ChangeRole, Open
      <4> QED BY <4>1, <4>2, <4>3 DEF CheckBinlogFiles, PurgeTypeOK
    <3> QED BY <3>1, <3>2, <3>3
  <2>2. NoUpdate \in [pc: {"idle", "clean"}, todo: SUBSET Name, role: Role] /\ role' \in Role
    BY <1>13 DEF ChangeRole, NoUpdate, Role, PurgeTypeOK
  <2> QED BY <1>0, <1>13, <2>1, <2>2 DEF ChangeRole, PurgeTypeOK
<1>14. ASSUME NEW f \in Filenum, SetBinlogOffsetWithLock(f) PROVE PurgeTypeOK'
  <2>1. faults' \subseteq Fault
    BY <1>14 DEF SetBinlogOffsetWithLock, PurgeTypeOK, Fault
  <2> QED BY <1>0, <1>14, <2>1, ProducerTypes DEF SetBinlogOffsetWithLock, PurgeTypeOK
<1>15. ASSUME NEW f \in Filenum, TryUpdateMasterOffset(f) PROVE PurgeTypeOK'
  BY <1>0, <1>15, ProducerTypes DEF TryUpdateMasterOffset, PurgeTypeOK
<1>16. CASE UNCHANGED vars
  BY <1>1, <1>16 DEF vars
<1> QED BY <1>2, <1>3, <1>4, <1>5, <1>6, <1>7, <1>8, <1>9, <1>10, <1>11, <1>12, <1>13,
           <1>14, <1>15, <1>16 DEF PurgeNext

-----------------------------------------------------------------------------
(* The log is complete from purged_index_ on, and the purge goes forward.   *)

\* Without faults the files are those from purged_index_ to the one being written,
\* and the one that the purge is about to delete; the purge has a list of the
\* oldest of them.
Oldest == IF purger.pc = "delete" THEN purged_index - 1 ELSE purged_index

FilesInv ==
  faults = {} =>
    /\ purged_index <= pro_num /\ 0 <= Oldest
    /\ files = Oldest .. pro_num
    /\ purger.pc # "idle" =>
         \E k \in Filenum : k <= pro_num /\ purger.binlogs = Oldest .. k
    /\ purger.pc = "could" => purged_index < pro_num

\* The first of a list of files that starts at a.
LEMMA FirstOfInterval ==
  ASSUME NEW a \in Nat, NEW k \in Nat, a .. k # {}
  PROVE  First(a .. k) = a /\ (a .. k) \ {a} = (a + 1) .. k
<1>1. a .. k \in SUBSET Nat /\ a \in a .. k
  OBVIOUS
<1>2. First(a .. k) \in a .. k /\ \A g \in a .. k : First(a .. k) <= g
  BY <1>1, FirstFacts
<1>3. First(a .. k) = a
  BY <1>1, <1>2
<1> QED BY <1>3

\* SetProducerStatus leaves a log without holes when no purge is under way.
LEMMA ProducerKeepsFiles ==
  ASSUME PurgeTypeOK, FilesInv, faults = {}, purger = Idle, NEW f \in Filenum,
         SetProducerStatus(f)
  PROVE  purged_index' <= pro_num' /\ 0 <= purged_index' /\ files' = purged_index' .. pro_num'
<1>1. /\ purged_index \in Nat /\ pro_num \in Nat /\ f \in Nat
      /\ purged_index <= pro_num /\ files = purged_index .. pro_num
  BY LockFacts DEF PurgeTypeOK, Filenum, FilesInv, Oldest
<1>2. CASE pro_num < f
  BY <1>1, <1>2 DEF SetProducerStatus
<1>3. CASE f < purged_index
  BY <1>1, <1>3 DEF SetProducerStatus
<1>4. CASE purged_index <= f /\ f <= pro_num
  BY <1>1, <1>4 DEF SetProducerStatus
<1> QED BY <1>1, <1>2, <1>3, <1>4

LEMMA FilesStep ==
  ASSUME PurgeTypeOK, IInv, Locks, FilesInv, [PurgeNext]_vars PROVE FilesInv'
<1> USE LockFacts, ConstantsAssumption
<1>0. SUFFICES ASSUME faults' = {} PROVE FilesInv'
  BY DEF FilesInv
<1>1. ASSUME UNCHANGED <<files, pro_num, purged_index, purger, faults>> PROVE FilesInv'
  BY <1>1 DEF FilesInv, Oldest
<1>2. ASSUME NEW w \in Worker,
             \/ \E n \in Name, f \in Filenum : SlaveAskSync(w, n, f)
             \/ CreateOpens(w) \/ AddTaskStep(w)
      PROVE  FilesInv'
  BY <1>1, <1>2 DEF SlaveAskSync, CreateOpens, AddTaskStep, partition
<1>3. ASSUME NEW s \in Sender, ((FetchOut(s) \/ PutBack(s)) /\ UNCHANGED partition) \/ RollIfNext(s)
      PROVE  FilesInv'
  BY <1>1, <1>3 DEF RollIfNext, partition
<1>4. ASSUME NEW n \in Name, CleanSlaves(n) PROVE FilesInv'
  BY <1>1, <1>4 DEF CleanSlaves
<1>5. ASSUME NEW r \in Role, NEW S \in SUBSET Name, Update(r, S) PROVE FilesInv'
  BY <1>1, <1>5 DEF Update
<1>6. CASE SendTrySync
  BY <1>1, <1>6 DEF SendTrySync
<1>7. /\ purged_index \in Nat /\ pro_num \in Nat /\ purged_index \in Int
  BY DEF PurgeTypeOK, Filenum
<1>8. CASE MaybeRoll
  <2>1. /\ pro_num' = pro_num + 1 /\ files' = files \cup {pro_num + 1} /\ Oldest' = Oldest
        /\ UNCHANGED <<purged_index, purger, faults>>
    BY <1>8 DEF MaybeRoll, Oldest
  <2>2. Oldest \in Int /\ (purged_index <= pro_num => Oldest <= pro_num)
    BY <1>7 DEF Oldest
  <2> HIDE DEF Oldest
  <2>3. \A k \in Filenum : k <= pro_num => k <= pro_num'
    BY <1>7, <2>1 DEF Filenum
  <2>4. files = Oldest .. pro_num /\ purged_index <= pro_num => files' = Oldest .. pro_num'
    BY <1>7, <2>1, <2>2
  <2> QED BY <1>0, <1>7, <2>1, <2>3, <2>4 DEF FilesInv
<1>9. CASE PurgeFiles
  BY <1>0, <1>7, <1>9 DEF PurgeFiles, FilesInv, Oldest, Idle, PurgeTypeOK
<1>10. CASE ExamineFile
  <2>1. /\ purger.pc = "examine" /\ purger'.pc = "could" /\ purger'.binlogs = purger.binlogs
        /\ purger.binlogs # {} /\ First(purger.binlogs) < pro_num
        /\ UNCHANGED <<files, pro_num, purged_index, faults>>
    BY <1>10 DEF ExamineFile, PurgeTypeOK
  <2>2. PICK k \in Filenum : k <= pro_num /\ purger.binlogs = purged_index .. k
    BY <1>0, <2>1 DEF FilesInv, Oldest
  <2>3. purged_index < pro_num
    BY <1>7, <2>1, <2>2, FirstOfInterval DEF Filenum
  <2> QED BY <1>0, <2>1, <2>3 DEF FilesInv, Oldest
<1>11. CASE PurgeDone
  BY <1>0, <1>7, <1>11 DEF PurgeDone, FilesInv, Oldest
<1>12. CASE CouldPurge
  <2>1. /\ purger.pc = "could" /\ purger.binlogs # {}
        /\ UNCHANGED <<files, pro_num, faults>>
    BY <1>12 DEF CouldPurge, Locks
  <2>2. PICK k \in Filenum : k <= pro_num /\ purger.binlogs = purged_index .. k
    BY <1>0, <2>1 DEF FilesInv, Oldest
  <2>3. First(purger.binlogs) = purged_index /\ purged_index < pro_num
    BY <1>0, <1>7, <2>1, <2>2, FirstOfInterval DEF Filenum, FilesInv
  <2>4. CASE purger' = Idle /\ UNCHANGED purged_index
    BY <1>0, <2>1, <2>4 DEF FilesInv, Oldest
  <2>5. CASE purger' = [purger EXCEPT !.pc = "delete"] /\ purged_index' = purged_index + 1
    <3>1. purger'.pc = "delete" /\ purger'.binlogs = purger.binlogs
      BY <2>5 DEF PurgeTypeOK
    <3>2. Oldest' = purged_index /\ files = purged_index .. pro_num
      BY <1>0, <1>7, <2>1, <2>5, <3>1 DEF Oldest, FilesInv
    <3> QED BY <1>7, <2>1, <2>2, <2>3, <2>5, <3>1, <3>2 DEF FilesInv
  <2> QED BY <1>12, <2>3, <2>4, <2>5 DEF CouldPurge
<1>13. CASE DeleteFile
  <2> DEFINE f == First(purger.binlogs)
  <2>1. /\ purger.pc = "delete" /\ purger.binlogs # {} /\ faults = {}
        /\ purger'.pc = "examine" /\ purger'.binlogs = purger.binlogs \ {f}
        /\ files' = files \ {f} /\ UNCHANGED <<pro_num, purged_index, faults>>
    BY <1>0, <1>13 DEF DeleteFile, Locks
  <2>2. purged_index - 1 \in Nat /\ files = (purged_index - 1) .. pro_num
    BY <1>7, <2>1 DEF FilesInv, Oldest
  <2>3. PICK k \in Filenum : k <= pro_num /\ purger.binlogs = (purged_index - 1) .. k
    BY <2>1 DEF FilesInv, Oldest
  <2>4. /\ f = purged_index - 1
        /\ purger'.binlogs = purged_index .. k
    <3> DEFINE a == purged_index - 1
    <3>1. a \in Nat /\ k \in Nat /\ a + 1 = purged_index /\ purger.binlogs = a .. k
      BY <1>7, <2>2, <2>3 DEF Filenum
    <3> HIDE DEF a
    <3>2. First(a .. k) = a /\ (a .. k) \ {a} = (a + 1) .. k
      BY <2>1, <3>1, FirstOfInterval
    <3> QED BY <2>1, <3>1, <3>2 DEF a
  <2> HIDE DEF f
  <2>5. files' = purged_index .. pro_num
    BY <1>7, <2>1, <2>2, <2>4
  <2> QED BY <1>7, <2>1, <2>3, <2>4, <2>5 DEF FilesInv, Oldest
<1>14. CASE ChangeRole
  <2>1. purger = Idle /\ UNCHANGED purger
    BY <1>14 DEF ChangeRole, Locks
  <2>2. CASE faults = {}
    <3>1. files = purged_index .. pro_num /\ purged_index <= pro_num
      BY <2>1, <2>2 DEF FilesInv, Oldest
    <3>2. First(files) = purged_index /\ files # {} /\ files \cup {pro_num} = files
      BY <1>7, <3>1, FirstOfInterval, SMTT(30)
    <3>3. UNCHANGED <<files, pro_num, purged_index, faults>>
      BY <1>0, <1>14, <2>2, <3>2 DEF ChangeRole, CloseLog, Open, CheckBinlogFiles
    <3> QED BY <1>1, <2>1, <3>3
  <2>3. CASE faults # {}
    BY <1>0, <1>14, <2>3 DEF ChangeRole, CloseLog, Open
  <2> QED BY <2>2, <2>3
<1>15. ASSUME NEW f \in Filenum, SetBinlogOffsetWithLock(f) PROVE FilesInv'
  <2>1. faults = {} /\ purger = Idle /\ purger' = Idle
    BY <1>0, <1>15 DEF SetBinlogOffsetWithLock
  <2> QED BY <1>15, <2>1, ProducerKeepsFiles DEF SetBinlogOffsetWithLock, FilesInv, Oldest
<1>16. ASSUME NEW f \in Filenum, TryUpdateMasterOffset(f) PROVE FilesInv'
  <2>1. faults = {} /\ purger = Idle /\ purger' = Idle
    BY <1>0, <1>16 DEF TryUpdateMasterOffset, WriteState
  <2> QED BY <1>16, <2>1, ProducerKeepsFiles DEF TryUpdateMasterOffset, FilesInv, Oldest
<1>17. CASE UNCHANGED vars
  BY <1>1, <1>17 DEF vars, partition
<1> QED BY <1>2, <1>3, <1>4, <1>5, <1>6, <1>8, <1>9, <1>10, <1>11, <1>12, <1>13, <1>14,
           <1>15, <1>16, <1>17 DEF PurgeNext

-----------------------------------------------------------------------------
(* Only a master's slaves have tasks.                                       *)

\* A sender takes no name out of the index and adds none.
LEMMA SenderKeepsIndex ==
  ASSUME IInv, NEW s \in Sender, FetchOut(s) \/ PutBack(s) \/ RollToNextFile(s)
  PROVE  /\ \A n \in Name : TaskExist(n)' <=> TaskExist(n)
         /\ \A n \in Name : TaskExist(n) => task_ptrs'[n].sequence = task_ptrs[n].sequence
         /\ UNCHANGED <<next_sequence, adder, latest, twins>>
<1> USE ConstantsAssumption DEF IInv
<1>1. CASE FetchOut(s)
  <2> DEFINE t == Head(tasks)
             n == object[t].name
  <2>1. tasks # <<>> /\ UNCHANGED <<next_sequence, adder, latest, twins>>
    BY <1>1 DEF FetchOut
  <2>2. t \in Waiting /\ t \in Task
    BY <2>1, TailFacts, OwnedAreLive DEF TypeOK
  <2>3. Indexed(t) /\ object[t] \in Object /\ n \in Name
    BY <2>2, OwnedAreLive DEF IndexAgrees, Waiting, Object
  <2>4. task_ptrs' = [task_ptrs EXCEPT ![n] = [task_ptrs[n] EXCEPT !.iter = NoTask]]
    BY <1>1, <2>3 DEF FetchOut, Indexed
  <2>5. task_ptrs[n] \in Handle
    BY <2>3 DEF Indexed, TaskExist, TypeOK
  <2>6. /\ task_ptrs'[n] \in Handle
        /\ task_ptrs'[n].sequence = task_ptrs[n].sequence
        /\ \A m \in Name : m # n => task_ptrs'[m] = task_ptrs[m]
    BY <2>3, <2>4, <2>5 DEF TypeOK, Handle
  <2> HIDE DEF t, n
  <2> QED BY <2>1, <2>3, <2>5, <2>6 DEF TaskExist
<1>2. CASE PutBack(s)
  <2> DEFINE t == hand[s]
             n == object[t].name
  <2>1. t # NoTask /\ UNCHANGED <<next_sequence, adder, latest, twins>>
    BY <1>2 DEF PutBack
  <2>2. t \in Task /\ t \in Live /\ object[t] \in Object /\ n \in Name
    BY <2>1, OwnedAreLive DEF TypeOK, Object
  <2>3. CASE Expected(t)
    <3>1. /\ task_ptrs' = [task_ptrs EXCEPT ![n].iter = t,
                                            ![n].filenum_snap = object[t].filenum]
          /\ task_ptrs[n] # NoHandle
      BY <1>2, <2>3 DEF PutBack, Expected
    <3>2. task_ptrs[n] \in Handle
      BY <2>2, <3>1 DEF TypeOK
    <3>3. /\ task_ptrs'[n] \in Handle /\ task_ptrs'[n].sequence = task_ptrs[n].sequence
          /\ \A m \in Name : m # n => task_ptrs'[m] = task_ptrs[m]
      BY <2>2, <3>1, <3>2 DEF TypeOK, Handle, Object
    <3> HIDE DEF t, n
    <3> QED BY <2>1, <2>2, <3>2, <3>3 DEF TaskExist
  <2>4. CASE ~Expected(t)
    BY <1>2, <2>1, <2>4 DEF PutBack, TaskExist
  <2> QED BY <2>3, <2>4
<1>3. CASE RollToNextFile(s)
  BY <1>3 DEF RollToNextFile, TaskExist
<1> QED BY <1>1, <1>2, <1>3

\* RemoveTask takes one name out of the index.
LEMMA RemoveDropsName ==
  ASSUME IInv, NEW n \in Name, RemoveTask(n)
  PROVE  /\ \A m \in Name : TaskExist(m)' <=> TaskExist(m) /\ m # n
         /\ \A m \in Name \ {n} : task_ptrs'[m] = task_ptrs[m] /\ latest'[m] = latest[m]
  BY ConstantsAssumption DEF RemoveTask, TaskExist, IInv, TypeOK

\* The steps of AddNewTask add no name but that of the call.
LEMMA AdderKeepsIndex ==
  ASSUME IInv, NEW w \in Worker, AddStep(w)
  PROVE  /\ adder[w] # NoCall /\ adder[w].name \in Name
         /\ \A m \in Name : TaskExist(m)' => TaskExist(m) \/ m = adder[w].name
         /\ \A v \in Worker : v # w => adder'[v] = adder[v]
         /\ adder'[w] # NoCall => adder'[w].name = adder[w].name
         /\ hand' = hand
<1> USE ConstantsAssumption DEF At, IInv
<1>1. adder[w] # NoCall /\ adder[w] \in Call /\ adder[w].name \in Name
  BY DEF AddStep, CreateFails, Create, CheckExist, RemoveOld, AddTask, LogAdded, TypeOK, Call
<1>2. CASE CreateFails(w)
  BY <1>1, <1>2 DEF CreateFails, TaskExist, TypeOK
<1>3. CASE Create(w)
  BY <1>1, <1>3 DEF Create, TaskExist, TypeOK, Call
<1>4. CASE CheckExist(w)
  BY <1>1, <1>4 DEF CheckExist, TaskExist, TypeOK, Call
<1>5. CASE RemoveOld(w)
  <2>1. \A m \in Name : TaskExist(m)' => TaskExist(m)
    BY <1>1, <1>5, RemoveDropsName DEF RemoveOld
  <2> QED BY <1>1, <1>5, <2>1 DEF RemoveOld, TypeOK, Call
<1>6. CASE AddTask(w)
  <2>1. \A m \in Name : m # adder[w].name => task_ptrs'[m] = task_ptrs[m]
    BY <1>6 DEF AddTask, TypeOK
  <2>2. /\ \A v \in Worker : v # w => adder'[v] = adder[v]
        /\ adder'[w].name = adder[w].name /\ hand' = hand
    BY <1>1, <1>6 DEF AddTask, TypeOK, Call
  <2> QED BY <1>1, <2>1, <2>2 DEF TaskExist
<1>7. CASE LogAdded(w)
  BY <1>1, <1>7 DEF LogAdded, TaskExist, TypeOK
<1> QED BY <1>2, <1>3, <1>4, <1>5, <1>6, <1>7 DEF AddStep

\* Calls of AddNewTask are for slaves of a master; during Update the tasks are for
\* slaves that will be cleaned or that stay.
TasksInv ==
  /\ \A w \in Worker : adder[w] # NoCall => role = "master" /\ adder[w].name \in slave_nodes
  /\ \A n \in Name : TaskExist(n) =>
       /\ role = "master"
       /\ updater = NoUpdate => n \in slave_nodes
       /\ updater # NoUpdate =>
            n \in updater.todo \/ (n \in slave_nodes /\ updater.role = "master")

LEMMA TasksStep ==
  ASSUME PurgeTypeOK, IInv, Locks, TasksInv, [PurgeNext]_vars PROVE TasksInv'
<1> USE LockFacts, ConstantsAssumption
<1>1. ASSUME UNCHANGED <<role, slave_nodes, updater, adder, task_ptrs>> PROVE TasksInv'
  BY <1>1 DEF TasksInv, TaskExist
<1>2. ASSUME NEW w \in Worker, NEW n \in Name, NEW f \in Filenum, SlaveAskSync(w, n, f)
      PROVE  TasksInv'
  <2>1. /\ role = "master" /\ n \in slave_nodes
        /\ UNCHANGED <<role, slave_nodes, updater, task_ptrs>>
        /\ \A v \in Worker : adder'[v] = adder[v] \/ adder'[v].name = n
    BY <1>2 DEF SlaveAskSync, AddNewTask, partition, PurgeTypeOK, TypeOK
  <2> QED BY <2>1 DEF TasksInv, TaskExist
<1>3. ASSUME NEW w \in Worker, CreateOpens(w) \/ AddTaskStep(w) PROVE TasksInv'
  <2>1. AddStep(w) /\ UNCHANGED <<role, slave_nodes, updater>>
    BY <1>3 DEF CreateOpens, AddTaskStep, AddStep, partition
  <2>2. updater = NoUpdate
    BY <2>1, AdderKeepsIndex DEF Locks
  <2> QED BY <2>1, <2>2, AdderKeepsIndex DEF TasksInv
<1>4. ASSUME NEW s \in Sender, ((FetchOut(s) \/ PutBack(s)) /\ UNCHANGED partition) \/ RollIfNext(s)
      PROVE  TasksInv'
  <2>1. /\ FetchOut(s) \/ PutBack(s) \/ RollToNextFile(s)
        /\ UNCHANGED <<role, slave_nodes, updater>>
    BY <1>4 DEF RollIfNext, partition
  <2> QED BY <2>1, SenderKeepsIndex DEF TasksInv
<1>5. ASSUME NEW n \in Name, CleanSlaves(n) PROVE TasksInv'
  <2>1. /\ n \in updater.todo /\ updater # NoUpdate
        /\ UNCHANGED <<role, slave_nodes, adder>>
    BY <1>5 DEF CleanSlaves, RemoveBinlogSendTask, pool
  <2>2. /\ updater'.pc = "clean" /\ updater'.role = updater.role
        /\ updater'.todo = updater.todo \ {n}
    BY <1>5, <2>1 DEF CleanSlaves, Locks, PurgeTypeOK
  <2>3. \A m \in Name : TaskExist(m)' => TaskExist(m) /\ m # n
    <3>1. CASE TaskExist(n)
      BY <1>5, <3>1, RemoveDropsName DEF CleanSlaves, RemoveBinlogSendTask
    <3>2. CASE ~TaskExist(n)
      BY <1>5, <3>2 DEF CleanSlaves, pool, TaskExist
    <3> QED BY <3>1, <3>2
  <2>4. updater' # NoUpdate
    BY <2>2
  <2> QED BY <2>1, <2>2, <2>3, <2>4 DEF TasksInv
<1>6. ASSUME NEW r \in Role, NEW S \in SUBSET Name, Update(r, S) PROVE TasksInv'
  <2>1. /\ updater = NoUpdate /\ UNCHANGED <<role, adder, task_ptrs>>
        /\ \A w \in Worker : adder[w] = NoCall
        /\ slave_nodes' = S /\ updater'.pc = "clean" /\ updater'.role = r
        /\ role = "master" => updater'.todo = IF r # "master" THEN slave_nodes \cup S
                                              ELSE slave_nodes \ S
    BY <1>6 DEF Update, WriteState, pool
  <2>2. updater' # NoUpdate
    BY <2>1
  <2> QED BY <2>1, <2>2 DEF TasksInv, TaskExist
<1>7. CASE ChangeRole
  <2>1. /\ updater # NoUpdate /\ updater.todo = {} /\ updater' = NoUpdate
        /\ role' = updater.role /\ UNCHANGED <<slave_nodes, adder, task_ptrs>>
    BY <1>7 DEF ChangeRole, pool
  <2>2. \A w \in Worker : adder[w] = NoCall
    BY <2>1 DEF Locks
  <2> QED BY <2>1, <2>2 DEF TasksInv, TaskExist
<1>8. ASSUME \/ MaybeRoll \/ PurgeFiles \/ ExamineFile \/ PurgeDone \/ CouldPurge \/ DeleteFile
             \/ SendTrySync
             \/ \E f \in Filenum : SetBinlogOffsetWithLock(f) \/ TryUpdateMasterOffset(f)
      PROVE  TasksInv'
  <2>1. UNCHANGED <<role, slave_nodes, updater, adder, task_ptrs>>
    BY <1>8 DEF MaybeRoll, PurgeFiles, ExamineFile, PurgeDone, CouldPurge, DeleteFile,
                SendTrySync, SetBinlogOffsetWithLock, TryUpdateMasterOffset, pool
  <2> QED BY <1>1, <2>1
<1>9. CASE UNCHANGED vars
  BY <1>1, <1>9 DEF vars, partition, pool
<1> QED BY <1>2, <1>3, <1>4, <1>5, <1>6, <1>7, <1>8, <1>9 DEF PurgeNext

-----------------------------------------------------------------------------
PInv == PurgeTypeOK /\ IInv /\ Locks /\ FilesInv /\ TasksInv

LEMMA PurgeInduction == PurgeSpec => []PInv
<1>1. PurgeInit => PInv
  <2> SUFFICES ASSUME PurgeInit PROVE PInv
    OBVIOUS
  <2>1. PurgeTypeOK /\ IInv
    BY PurgeTypeInit, InitIInv DEF PurgeInit
  <2>2. Locks
    BY LockFacts DEF PurgeInit, Locks
  <2>3. FilesInv
    BY LockFacts DEF PurgeInit, FilesInv, Oldest
  <2>4. TasksInv
    BY DEF PurgeInit, Init, TasksInv, TaskExist
  <2> QED BY <2>1, <2>2, <2>3, <2>4 DEF PInv
<1>2. PInv /\ [PurgeNext]_vars => PInv'
  <2> SUFFICES ASSUME PInv, [PurgeNext]_vars PROVE PInv'
    OBVIOUS
  <2>1. IInv'
    BY PurgeUsesPool, NextIInv DEF PInv
  <2> QED BY <2>1, PurgeTypeStep, LocksStep, FilesStep, TasksStep DEF PInv
<1> QED BY <1>1, <1>2, PTL DEF PurgeSpec

\* For any slaves, workers and senders and any order of rolls, purges, role
\* changes and producer resets, the log has every file from purged_index_ to the
\* one being written, unless a file could not be unlinked, a late fallback was
\* applied or the data went to the trash.
THEOREM LogKeptComplete == PurgeSpec => []LogComplete
<1>1. PInv => LogComplete
  <2> SUFFICES ASSUME PInv, faults = {} PROVE NoHole
    BY DEF LogComplete
  <2>1. /\ purged_index \in Nat /\ pro_num \in Nat /\ purged_index <= pro_num
        /\ files = Oldest .. pro_num
    BY ConstantsAssumption DEF PInv, FilesInv, PurgeTypeOK, Filenum
  <2>2. Oldest \in Int /\ Oldest <= purged_index
    BY <2>1 DEF Oldest
  <2> HIDE DEF Oldest
  <2> QED BY <2>1, <2>2 DEF NoHole
<1> QED BY <1>1, PurgeInduction, PTL

\* Once Update has returned nothing is queued for a node that is no slave of this
\* partition, or by a node that is no master, however many calls of AddNewTask and
\* fetched-out tasks the Update met.
THEOREM TasksForSlavesOnly == PurgeSpec => []TasksOnlyForSlaves
<1>1. PInv => TasksOnlyForSlaves
  BY DEF PInv, TasksInv, TasksOnlyForSlaves
<1> QED BY <1>1, PurgeInduction, PTL

\* While a node stays master purged_index_ never goes back, as long as every file
\* that is given up is deleted and no late fallback is applied.
THEOREM PurgeForward == PurgeSpec => PurgeOnlyForward
<1>1. PInv /\ [PurgeNext]_vars =>
        [faults' = {} /\ role = "master" /\ role' = "master"
           => purged_index <= purged_index']_vars
  <2> SUFFICES ASSUME PInv, PurgeNext, faults' = {}, role = "master", role' = "master"
               PROVE  purged_index <= purged_index'
    BY DEF vars
  <2> USE DEF PInv
  <2>1. purged_index \in Nat
    BY ConstantsAssumption DEF PurgeTypeOK
  <2>2. CASE CouldPurge
    <3>1. faults = {} /\ purger.pc = "could" /\ purger.binlogs # {}
      BY <2>2 DEF CouldPurge, Locks
    <3>2. PICK k \in Filenum : purger.binlogs = purged_index .. k
      BY <3>1 DEF FilesInv, Oldest
    <3>3. First(purger.binlogs) = purged_index
      BY <2>1, <3>1, <3>2, FirstOfInterval, ConstantsAssumption DEF Filenum
    <3> QED BY <2>1, <2>2, <3>3 DEF CouldPurge
  <2>3. ASSUME purged_index' = purged_index PROVE purged_index <= purged_index'
    BY <2>1, <2>3
  <2>4. ASSUME \/ MaybeRoll \/ PurgeFiles \/ ExamineFile \/ PurgeDone \/ DeleteFile
               \/ (\E r \in Role, S \in SUBSET Name : Update(r, S)) \/ SendTrySync
               \/ (\E n \in Name : CleanSlaves(n))
        PROVE  purged_index' = purged_index
    BY <2>4 DEF MaybeRoll, PurgeFiles, ExamineFile, PurgeDone, DeleteFile, Update, SendTrySync,
                CleanSlaves
  <2>5. ASSUME NEW w \in Worker,
               \/ \E n \in Name, f \in Filenum : SlaveAskSync(w, n, f)
               \/ CreateOpens(w) \/ AddTaskStep(w)
        PROVE  purged_index' = purged_index
    BY <2>5 DEF SlaveAskSync, CreateOpens, AddTaskStep, partition
  <2>6. ASSUME NEW s \in Sender,
               ((FetchOut(s) \/ PutBack(s)) /\ UNCHANGED partition) \/ RollIfNext(s)
        PROVE  purged_index' = purged_index
    BY <2>6 DEF RollIfNext, partition
  <2>7. CASE ChangeRole
    BY <2>3, <2>7 DEF ChangeRole, Open
  <2>8. ASSUME NEW f \in Filenum, SetBinlogOffsetWithLock(f) \/ TryUpdateMasterOffset(f)
        PROVE  FALSE
    BY <2>8 DEF SetBinlogOffsetWithLock, TryUpdateMasterOffset
  <2> QED BY <2>2, <2>3, <2>4, <2>5, <2>6, <2>7, <2>8 DEF PurgeNext
<1> QED BY <1>1, PurgeInduction, PTL DEF PurgeSpec, PurgeOnlyForward

-----------------------------------------------------------------------------
(* The task under a name is the last one added, as long as the race for      *)
(* next_sequence_ has not given two tasks of the name one sequence.          *)

\* Until then a name's sequences tell its tasks apart, the index agrees with the
\* last task added, and a name without a task has no last one.
SeqInv ==
  /\ \A t, u \in Live :
       /\ object[t].name = object[u].name /\ object[t].name \notin twins
       /\ object[t].sequence = object[u].sequence
       => t = u
  /\ \A n \in Name \ twins : TaskExist(n) =>
       /\ latest[n] \in Live
       /\ object[latest[n]].name = n
       /\ object[latest[n]].sequence = task_ptrs[n].sequence
       /\ task_ptrs[n].filenum_snap <= object[latest[n]].filenum
  /\ \A n \in Name : ~TaskExist(n) => latest[n] = NoTask

\* The last task added is in the list, or in the hand of a sender.
LEMMA LatestOwned ==
  ASSUME IInv, SeqInv, NEW n \in Name \ twins, TaskExist(n)
  PROVE  /\ latest[n] \in Live /\ latest[n] \in Task /\ task_ptrs[n] \in Handle
         /\ task_ptrs[n].iter # NoTask => task_ptrs[n].iter = latest[n] /\ latest[n] \in Waiting
         /\ task_ptrs[n].iter = NoTask =>
              \E s \in Sender : hand[s] # NoTask /\ hand[s] = latest[n]
<1> USE DEF IInv
<1>1. /\ latest[n] \in Live /\ latest[n] \in Task /\ HandleOK(n) /\ task_ptrs[n] \in Handle
      /\ object[latest[n]].name = n /\ object[latest[n]].sequence = task_ptrs[n].sequence
  BY DEF SeqInv, Live, IndexAgrees, TaskExist, TypeOK
<1>2. CASE task_ptrs[n].iter # NoTask
  <2>1. /\ task_ptrs[n].iter \in Waiting /\ task_ptrs[n].iter \in Live
        /\ object[task_ptrs[n].iter].name = n
        /\ object[task_ptrs[n].iter].sequence = task_ptrs[n].sequence
    BY <1>1, <1>2, OwnedAreLive DEF HandleOK
  <2> QED BY <1>1, <1>2, <2>1 DEF SeqInv
<1>3. CASE task_ptrs[n].iter = NoTask
  <2>1. PICK s \in Sender : /\ hand[s] # NoTask /\ object[hand[s]].name = n
                            /\ object[hand[s]].sequence = task_ptrs[n].sequence
    BY <1>1, <1>3 DEF HandleOK
  <2>2. hand[s] \in Live
    BY <2>1, OwnedAreLive
  <2>3. hand[s] = latest[n]
    BY <1>1, <2>1, <2>2 DEF SeqInv
  <2> QED BY <1>1, <1>3, <2>1, <2>3
<1> QED BY <1>2, <1>3

LEMMA SeqTypes ==
  ASSUME IInv
  PROVE  /\ \A t \in Live : object[t] \in Object /\ t \in Task
         /\ \A t \in Live : object[t].filenum \in Nat /\ object[t].name \in Name
         /\ \A n \in Name : TaskExist(n) => task_ptrs[n].filenum_snap \in Nat
<1> USE ConstantsAssumption DEF IInv
<1>1. \A t \in Live : object[t] \in Object /\ t \in Task
  BY DEF TypeOK, Live
<1>2. \A t \in Live : object[t].filenum \in Nat /\ object[t].name \in Name
  BY <1>1 DEF Object, Filenum
<1>3. \A n \in Name : TaskExist(n) => task_ptrs[n] \in Handle
  BY DEF TypeOK, TaskExist
<1>4. \A n \in Name : TaskExist(n) => task_ptrs[n].filenum_snap \in Nat
  BY <1>3 DEF Handle, Filenum
<1> QED BY <1>1, <1>2, <1>4

\* RemoveTask keeps the sequences apart and the other names as they are.
LEMMA RemoveKeepsSeq ==
  ASSUME IInv, SeqInv, NEW n \in Name, RemoveTask(n), UNCHANGED <<hand, twins>>
  PROVE  /\ Live' \subseteq Live /\ \A t \in Live' : object'[t] = object[t]
         /\ \A m \in Name : TaskExist(m)' => TaskExist(m)
         /\ \A m \in Name \ twins : TaskExist(m)' =>
              /\ m # n /\ task_ptrs'[m] = task_ptrs[m]
              /\ latest'[m] = latest[m] /\ latest[m] \in Live'
         /\ SeqInv'
<1> USE DEF IInv
<1>1. CASE ~TaskExist(n)
  <2>1. UNCHANGED <<tasks, task_ptrs, object, latest>>
    BY <1>1 DEF RemoveTask
  <2>2. SeqInv'
    BY <2>1 DEF SeqInv, Live, TaskExist
  <2> QED BY <1>1, <2>1, <2>2 DEF Live, TaskExist, SeqInv
<1>2. CASE TaskExist(n)
  <2>1. /\ Live' \subseteq Live /\ \A t \in Live' : object'[t] = object[t]
        /\ \A t \in Live : object[t].name # n => t \in Live'
    <3>1. CASE task_ptrs[n].iter = NoTask
      BY <1>2, <3>1 DEF RemoveTask, Live
    <3>2. CASE task_ptrs[n].iter # NoTask
      <4>1. object' = [object EXCEPT ![task_ptrs[n].iter] = Freed]
        BY <1>2, <3>2 DEF RemoveTask
      <4>2. object[task_ptrs[n].iter].name = n /\ task_ptrs[n].iter \in Task
        BY <1>2, <3>2, OwnedAreLive DEF IndexAgrees, HandleOK
      <4> QED BY <4>1, <4>2 DEF Live, TypeOK
    <3> QED BY <3>1, <3>2
  <2>2. /\ \A m \in Name : TaskExist(m)' <=> TaskExist(m) /\ m # n
        /\ \A m \in Name \ {n} : task_ptrs'[m] = task_ptrs[m] /\ latest'[m] = latest[m]
    BY RemoveDropsName
  <2>3. \A m \in Name \ twins : TaskExist(m)' => latest[m] \in Live'
    BY <2>1, <2>2 DEF SeqInv
  <2>4. latest'[n] = NoTask
    BY <1>2 DEF RemoveTask, TypeOK
  <2>5. SeqInv'
    <3>1. \A t, u \in Live' :
            /\ object'[t].name = object'[u].name /\ object'[t].name \notin twins'
            /\ object'[t].sequence = object'[u].sequence
            => t = u
      BY <2>1 DEF SeqInv
    <3>2. \A m \in Name \ twins' : TaskExist(m)' =>
            /\ latest'[m] \in Live'
            /\ object'[latest'[m]].name = m
            /\ object'[latest'[m]].sequence = task_ptrs'[m].sequence
            /\ task_ptrs'[m].filenum_snap <= object'[latest'[m]].filenum
      BY <2>1, <2>2, <2>3 DEF SeqInv
    <3>3. \A m \in Name : ~TaskExist(m)' => latest'[m] = NoTask
      BY <2>2, <2>4 DEF SeqInv
    <3> QED BY <3>1, <3>2, <3>3 DEF SeqInv
  <2> QED BY <2>1, <2>2, <2>3, <2>5
<1> QED BY <1>1, <1>2

LEMMA SeqAdder ==
  ASSUME IInv, SeqInv, NEW w \in Worker, AddStep(w) PROVE SeqInv'
<1> USE ConstantsAssumption DEF At, IInv
<1>1. adder[w] # NoCall /\ adder[w] \in Call /\ adder[w].name \in Name
  BY AdderKeepsIndex DEF TypeOK
<1>2. CASE CreateFails(w) \/ CheckExist(w)
  <2>1. UNCHANGED <<task_ptrs, object, latest, twins>>
    BY <1>2 DEF CreateFails, CheckExist
  <2> QED BY <2>1 DEF SeqInv, Live, TaskExist
<1>3. CASE Create(w)
  <2> DEFINE n == adder[w].name
             q == adder[w].sequence
  <2>1. PICK t \in Task \ Live :
          object' = [object EXCEPT ![t] =
            [name |-> adder[w].name, sequence |-> adder[w].sequence,
             filenum |-> adder[w].filenum]]
    BY <1>3 DEF Create
  <2>2. /\ UNCHANGED <<task_ptrs, latest>> /\ twins \subseteq twins'
        /\ Numbered(n, q) => n \in twins'
    BY <1>3 DEF Create
  <2>3. Live' \subseteq Live \cup {t} /\ \A x \in Live : x # t /\ object'[x] = object[x] /\ x \in Live'
    BY <2>1 DEF Live, TypeOK
  <2>4. object'[t].name = n /\ object'[t].sequence = q
    BY <2>1 DEF TypeOK
  <2> HIDE DEF n, q
  <2>5. ASSUME NEW x \in Live, n \notin twins'
        PROVE  ~(object[x].name = n /\ object[x].sequence = q)
    BY <2>2, <2>5 DEF Numbered
  <2>6. ASSUME NEW x \in Live', NEW y \in Live', object'[x].name = object'[y].name,
               object'[x].name \notin twins', object'[x].sequence = object'[y].sequence
        PROVE  x = y
    <3>1. CASE x \in Live /\ y \in Live
      BY <2>2, <2>3, <2>6, <3>1 DEF SeqInv
    <3>2. CASE x \in Live /\ y = t
      BY <2>3, <2>4, <2>5, <2>6, <3>2
    <3>3. CASE x = t /\ y \in Live
      BY <2>3, <2>4, <2>5, <2>6, <3>3
    <3> QED BY <2>3, <3>1, <3>2, <3>3
  <2>7. \A m \in Name \ twins' : TaskExist(m)' =>
          /\ latest'[m] \in Live'
          /\ object'[latest'[m]].name = m
          /\ object'[latest'[m]].sequence = task_ptrs'[m].sequence
          /\ task_ptrs'[m].filenum_snap <= object'[latest'[m]].filenum
    BY <2>2, <2>3 DEF SeqInv, TaskExist
  <2>8. \A m \in Name : ~TaskExist(m)' => latest'[m] = NoTask
    BY <2>2 DEF SeqInv, TaskExist
  <2> QED BY <2>6, <2>7, <2>8 DEF SeqInv
<1>4. CASE RemoveOld(w)
  BY <1>1, <1>4, RemoveKeepsSeq DEF RemoveOld
<1>5. CASE AddTask(w)
  <2> DEFINE n == adder[w].name
             t == adder[w].task
  <2>1. UNCHANGED <<object, twins>> /\ Live' = Live
    BY <1>5 DEF AddTask, Live
  <2>2. CASE TaskExist(n)
    <3>1. UNCHANGED <<task_ptrs, latest>>
      BY <1>5, <2>2 DEF AddTask
    <3> QED BY <2>1, <3>1 DEF SeqInv, TaskExist
  <2>3. CASE ~TaskExist(n)
    <3>1. /\ task_ptrs' = [task_ptrs EXCEPT ![n] =
               [iter |-> t, sequence |-> object[t].sequence,
                filenum_snap |-> object[t].filenum]]
          /\ latest' = [latest EXCEPT ![n] = t]
      BY <1>5, <2>3 DEF AddTask
    <3>2. t \in Task /\ t \in Live /\ object[t].name = n
      BY <1>5 DEF AddTask, CallOK, Live
    <3>3. /\ latest'[n] = t /\ task_ptrs'[n] # NoHandle
          /\ task_ptrs'[n].sequence = object[t].sequence
          /\ task_ptrs'[n].filenum_snap = object[t].filenum
          /\ \A m \in Name : m # n => task_ptrs'[m] = task_ptrs[m] /\ latest'[m] = latest[m]
      <4>1. object[t] \in Object
        BY <3>2, SeqTypes
      <4>2. [iter |-> t, sequence |-> object[t].sequence,
             filenum_snap |-> object[t].filenum] \in Handle
        BY <3>2, <4>1 DEF Handle, Object
      <4> QED BY <1>1, <3>1, <4>2 DEF TypeOK
    <3> HIDE DEF n, t
    <3>4. object[t].filenum <= object[t].filenum
      BY <3>2, SeqTypes
    <3> QED BY <2>1, <3>2, <3>3, <3>4 DEF SeqInv, TaskExist
  <2> QED BY <2>2, <2>3
<1>6. CASE LogAdded(w)
  <2>1. /\ UNCHANGED <<task_ptrs, latest, twins>>
        /\ object' = IF adder[w].added THEN object
                     ELSE [object EXCEPT ![adder[w].task] = Freed]
    BY <1>6 DEF LogAdded
  <2>2. CASE adder[w].added
    BY <2>1, <2>2 DEF SeqInv, Live, TaskExist
  <2>3. CASE ~adder[w].added
    <3> DEFINE t == adder[w].task
    <3>1. t \in Task /\ Holds(w, t)
      BY <1>1, <1>6, <2>3 DEF LogAdded, CallOK, Holds
    <3>2. Live' = Live \ {t} /\ \A x \in Live' : object'[x] = object[x]
      BY <2>1, <2>3, <3>1 DEF Live, TypeOK
    <3>3. t \notin Waiting /\ \A s \in Sender : hand[s] # t
      BY <3>1 DEF SingleOwner
    <3>4. \A n \in Name \ twins : TaskExist(n) => latest[n] # t
      BY <3>3, LatestOwned
    <3> HIDE DEF t
    <3> QED BY <2>1, <3>2, <3>4 DEF SeqInv, TaskExist
  <2> QED BY <2>2, <2>3
<1> QED BY <1>2, <1>3, <1>4, <1>5, <1>6 DEF AddStep

LEMMA SeqSender ==
  ASSUME IInv, SeqInv, NEW s \in Sender, FetchOut(s) \/ PutBack(s) \/ RollToNextFile(s)
  PROVE  SeqInv'
<1> USE ConstantsAssumption DEF IInv
<1>1. /\ UNCHANGED <<latest, twins>>
      /\ \A n \in Name : TaskExist(n)' <=> TaskExist(n)
      /\ \A n \in Name : TaskExist(n) => task_ptrs'[n].sequence = task_ptrs[n].sequence
  BY SenderKeepsIndex
\* It is enough that no object changes its name or sequence or is a name's last
\* task and freed, and that the snapshots stay below.
<1>2. ASSUME /\ Live' \subseteq Live
             /\ \A t \in Live' : /\ object'[t].sequence = object[t].sequence
                                 /\ object'[t].name = object[t].name
             /\ \A n \in Name \ twins : TaskExist(n) =>
                  /\ latest[n] \in Live'
                  /\ task_ptrs'[n].filenum_snap <= object'[latest[n]].filenum
      PROVE  SeqInv'
  <2>1. \A t, u \in Live' :
          /\ object'[t].name = object'[u].name /\ object'[t].name \notin twins'
          /\ object'[t].sequence = object'[u].sequence
          => t = u
    BY <1>1, <1>2 DEF SeqInv
  <2>2. \A n \in Name \ twins' : TaskExist(n)' =>
          /\ latest'[n] \in Live'
          /\ object'[latest'[n]].name = n
          /\ object'[latest'[n]].sequence = task_ptrs'[n].sequence
          /\ task_ptrs'[n].filenum_snap <= object'[latest'[n]].filenum
    BY <1>1, <1>2 DEF SeqInv
  <2>3. \A n \in Name : ~TaskExist(n)' => latest'[n] = NoTask
    BY <1>1 DEF SeqInv
  <2> QED BY <2>1, <2>2, <2>3 DEF SeqInv
<1>3. CASE FetchOut(s)
  <2> DEFINE t == Head(tasks)
             n == object[t].name
  <2>1. tasks # <<>> /\ UNCHANGED object
    BY <1>3 DEF FetchOut
  <2>2. t \in Waiting /\ t \in Task
    BY <2>1, TailFacts, OwnedAreLive DEF TypeOK
  <2>3. Indexed(t) /\ object[t] \in Object /\ n \in Name
    BY <2>2, OwnedAreLive DEF IndexAgrees, Waiting, Object
  <2>4. task_ptrs' = [task_ptrs EXCEPT ![n] = [task_ptrs[n] EXCEPT !.iter = NoTask]]
    BY <1>3, <2>3 DEF FetchOut, Indexed
  <2>5. task_ptrs[n] \in Handle
    BY <2>3 DEF Indexed, TaskExist, TypeOK
  <2>6. /\ task_ptrs'[n].filenum_snap = task_ptrs[n].filenum_snap
        /\ \A m \in Name : m # n => task_ptrs'[m] = task_ptrs[m]
    BY <2>3, <2>4, <2>5 DEF TypeOK, Handle
  <2> HIDE DEF t, n
  <2> QED BY <1>2, <2>1, <2>6 DEF SeqInv, Live
<1>4. CASE RollToNextFile(s)
  <2>1. /\ hand[s] \in Live /\ hand[s] \in Task /\ object[hand[s]] \in Object
        /\ object' = [object EXCEPT ![hand[s]].filenum = @ + 1] /\ UNCHANGED task_ptrs
    BY <1>4, OwnedAreLive DEF RollToNextFile, TypeOK
  <2>2. \A x \in Task : x # hand[s] => object'[x] = object[x]
    BY <2>1 DEF TypeOK
  <2>3. /\ object'[hand[s]].name = object[hand[s]].name
        /\ object'[hand[s]].sequence = object[hand[s]].sequence
        /\ object'[hand[s]].filenum = object[hand[s]].filenum + 1
        /\ object'[hand[s]] \in Object
    BY <1>4, <2>1 DEF TypeOK, Object, Filenum, RollToNextFile
  <2>4. Live' = Live
    BY <2>1, <2>2, <2>3 DEF Live
  <2>5. \A x \in Live : object'[x].filenum \in Nat /\ object[x].filenum <= object'[x].filenum
    BY <2>1, <2>2, <2>3, SeqTypes
  <2>6. \A n \in Name \ twins : TaskExist(n) =>
          task_ptrs[n].filenum_snap <= object'[latest[n]].filenum
    <3> SUFFICES ASSUME NEW n \in Name \ twins, TaskExist(n)
                 PROVE  task_ptrs[n].filenum_snap <= object'[latest[n]].filenum
      OBVIOUS
    <3>1. latest[n] \in Live /\ task_ptrs[n].filenum_snap <= object[latest[n]].filenum
      BY DEF SeqInv
    <3> QED BY <2>5, <3>1, SeqTypes
  <2>7. \A x \in Live : x \in Task
    BY SeqTypes
  <2> QED BY <1>2, <2>1, <2>2, <2>3, <2>4, <2>6, <2>7 DEF SeqInv
<1>5. CASE PutBack(s)
  <2> DEFINE t == hand[s]
             n == object[t].name
  <2>1. t # NoTask
    BY <1>5 DEF PutBack
  <2>2. t \in Task /\ t \in Live /\ object[t] \in Object /\ n \in Name /\ t \notin Waiting
    BY <2>1, OwnedAreLive DEF TypeOK, Object, SingleOwner
  <2>3. CASE Expected(t)
    <3>1. /\ UNCHANGED object
          /\ task_ptrs' = [task_ptrs EXCEPT ![n].iter = t,
                                            ![n].filenum_snap = object[t].filenum]
          /\ task_ptrs[n] # NoHandle /\ task_ptrs[n].sequence = object[t].sequence
      BY <1>5, <2>3 DEF PutBack, Expected
    <3>2. task_ptrs[n] \in Handle
      BY <2>2, <3>1 DEF TypeOK
    <3>3. /\ task_ptrs'[n].filenum_snap = object[t].filenum
          /\ \A m \in Name : m # n => task_ptrs'[m] = task_ptrs[m]
      BY <2>2, <3>1, <3>2 DEF TypeOK, Handle
    <3>4. n \notin twins => latest[n] = t
      BY <2>2, <3>1 DEF SeqInv, TaskExist
    <3>5. object[t].filenum <= object[t].filenum
      BY <2>2, SeqTypes
    <3> HIDE DEF t, n
    <3> QED BY <1>2, <3>1, <3>3, <3>4, <3>5 DEF SeqInv, Live
  <2>4. CASE ~Expected(t)
    <3>1. object' = [object EXCEPT ![t] = Freed] /\ UNCHANGED task_ptrs
      BY <1>5, <2>4 DEF PutBack
    <3>2. Live' = Live \ {t} /\ \A x \in Live' : object'[x] = object[x]
      BY <2>2, <3>1 DEF Live, TypeOK
    <3>3. ASSUME NEW m \in Name \ twins, TaskExist(m), latest[m] = t PROVE FALSE
      <4>1. m = n /\ task_ptrs[m].sequence = object[t].sequence
        BY <3>3 DEF SeqInv
      <4>2. task_ptrs[m].iter = NoTask
        BY <2>2, <3>3, LatestOwned
      <4> QED BY <2>4, <3>3, <4>1, <4>2 DEF Expected, TaskExist
    <3> HIDE DEF t, n
    <3> QED BY <1>2, <3>1, <3>2, <3>3 DEF SeqInv
  <2> QED BY <2>3, <2>4
<1> QED BY <1>3, <1>4, <1>5

LEMMA SeqStep ==
  ASSUME IInv, SeqInv, [Next]_pool PROVE SeqInv'
<1>1. ASSUME NEW w \in Worker, NEW n \in Name, NEW f \in Filenum, AddNewTask(w, n, f)
      PROVE  SeqInv'
  <2>1. UNCHANGED <<task_ptrs, object, latest, twins>>
    BY <1>1 DEF AddNewTask
  <2> QED BY <2>1 DEF SeqInv, Live, TaskExist
<1>2. ASSUME NEW w \in Worker, AddStep(w) PROVE SeqInv'
  BY <1>2, SeqAdder
<1>3. ASSUME NEW n \in Name, RemoveBinlogSendTask(n) PROVE SeqInv'
  BY <1>3, RemoveKeepsSeq DEF RemoveBinlogSendTask
<1>4. ASSUME NEW s \in Sender, FetchOut(s) \/ RollToNextFile(s) \/ PutBack(s) PROVE SeqInv'
  BY <1>4, SeqSender
<1>5. CASE UNCHANGED pool
  BY <1>5 DEF pool, SeqInv, Live, TaskExist
<1> QED BY <1>1, <1>2, <1>3, <1>4, <1>5 DEF Next

LEMMA SeqInduction == Spec => [](IInv /\ SeqInv)
<1>1. Init => SeqInv
  BY DEF Init, SeqInv, Live, TaskExist
<1>2. IInv /\ SeqInv /\ [Next]_pool => IInv' /\ SeqInv'
  BY NextIInv, SeqStep
<1> QED BY <1>1, <1>2, InitIInv, PTL DEF Spec

\* "use squence to distinguish task with same name" holds for any number of
\* names, senders, workers and tasks and however calls of AddNewTask overlap, and
\* with it what the purge and the log line of AddNewTask rely on: what waits under
\* a name is the last task added, a task that AddNewTask still reads is alive
\* unless another call has replaced it, and TaskFilenum tells no file later than
\* the one the last task reads.  The one way to lose it for a name is that the race
\* for next_sequence_ gives two allocated tasks of that name one sequence.
THEOREM CurrentTaskKept == Spec => []CurrentTask
<1>1. IInv /\ SeqInv => CurrentTask
  <2> SUFFICES ASSUME IInv, SeqInv PROVE CurrentTask
    OBVIOUS
  <2>1. LatestWins
    BY LatestOwned DEF LatestWins
  <2>2. SnapshotIsLowerBound
    <3> SUFFICES ASSUME NEW n \in Name \ twins, TaskExist(n)
                 PROVE  latest[n] \in Live /\ TaskFilenum(n) <= object[latest[n]].filenum
      BY DEF SnapshotIsLowerBound
    <3>1. latest[n] \in Live /\ object[latest[n]].filenum \in Nat
      BY LatestOwned, SeqTypes
    <3>2. task_ptrs[n].filenum_snap <= object[latest[n]].filenum
      BY DEF SeqInv
    <3>3. CASE task_ptrs[n].iter = NoTask
      BY <3>1, <3>2, <3>3 DEF TaskFilenum
    <3>4. CASE task_ptrs[n].iter # NoTask
      BY <3>1, <3>4, LatestOwned DEF TaskFilenum
    <3> QED BY <3>3, <3>4
  <2>3. LoggedTaskAlive
    <3> SUFFICES ASSUME NEW w \in Worker, At(w, "log"), adder[w].name \notin twins,
                        latest[adder[w].name] = adder[w].task
                 PROVE  adder[w].task \in Live
      BY DEF LoggedTaskAlive
    <3>1. adder[w].task \in Task /\ adder[w].name \in Name
      BY DEF At, IInv, CallOK, TypeOK, Call
    <3>2. TaskExist(adder[w].name)
      BY <3>1, ConstantsAssumption DEF SeqInv
    <3> QED BY <3>1, <3>2 DEF SeqInv
  <2> QED BY <2>1, <2>2, <2>3 DEF CurrentTask
<1> QED BY <1>1, SeqInduction, PTL

-----------------------------------------------------------------------------
(* The file that the current task of a slave reads is there.                *)

\* Without faults the file that a slave asked for, and the file that its current
\* task reads, lie between purged_index_ and the file being written.
ReadInv ==
  faults = {} =>
    /\ \A w \in Worker : adder[w] # NoCall =>
         purged_index <= adder[w].filenum /\ adder[w].filenum <= pro_num
    /\ \A w \in Worker, t \in Task : Holds(w, t) => object[t].filenum = adder[w].filenum
    /\ \A n \in Name \ twins : TaskExist(n) =>
         purged_index <= object[latest[n]].filenum /\ object[latest[n]].filenum <= pro_num

LEMMA ReadAdder ==
  ASSUME PInv, SeqInv, ReadInv, IInv', SeqInv', NEW w \in Worker, AddStep(w),
         UNCHANGED partition
  PROVE  ReadInv'
<1> USE ConstantsAssumption DEF PInv, IInv, At
<1>0. SUFFICES ASSUME faults = {} PROVE ReadInv'
  BY DEF ReadInv, partition
<1>1. UNCHANGED <<purged_index, pro_num, faults>>
  BY DEF partition
<1>2. adder[w] # NoCall /\ adder[w] \in Call /\ adder[w].name \in Name
  BY AdderKeepsIndex DEF TypeOK
<1>3. \A v \in Worker : v # w => adder'[v] = adder[v]
  BY <1>2, AdderKeepsIndex
\* The file that a call asks for stays, so what is left are the tasks that the
\* workers own and the last tasks of the names.
<1>4. ASSUME /\ adder'[w] # NoCall => adder'[w].filenum = adder[w].filenum
             /\ \A v \in Worker, t \in Task : Holds(v, t)' =>
                  object'[t].filenum = adder'[v].filenum
             /\ \A n \in Name \ twins' : TaskExist(n)' =>
                  /\ purged_index <= object'[latest'[n]].filenum
                  /\ object'[latest'[n]].filenum <= pro_num
      PROVE  ReadInv'
  <2>1. \A v \in Worker : adder'[v] # NoCall =>
          purged_index <= adder'[v].filenum /\ adder'[v].filenum <= pro_num
    BY <1>0, <1>2, <1>3, <1>4 DEF ReadInv
  <2> QED BY <1>1, <1>4, <2>1 DEF ReadInv
<1>5. CASE CreateFails(w)
  <2>1. adder'[w] = NoCall /\ UNCHANGED <<task_ptrs, object, latest, twins>>
    BY <1>5 DEF CreateFails, TypeOK
  <2> QED BY <1>0, <1>1, <1>3, <2>1 DEF ReadInv, Holds, TaskExist
<1>6. CASE Create(w)
  <2>1. PICK t \in Task \ Live :
          /\ object' = [object EXCEPT ![t] =
               [name |-> adder[w].name, sequence |-> adder[w].sequence,
                filenum |-> adder[w].filenum]]
          /\ adder' = [adder EXCEPT ![w].pc = "exist", ![w].task = t]
    BY <1>6 DEF Create
  <2>2. UNCHANGED <<task_ptrs, latest>> /\ twins \subseteq twins'
    BY <1>6 DEF Create
  <2>3. adder'[w].filenum = adder[w].filenum /\ adder'[w].task = t
    BY <1>2, <2>1 DEF TypeOK, Call
  <2>4. object'[t].filenum = adder[w].filenum /\ \A x \in Live : object'[x] = object[x]
    BY <2>1 DEF TypeOK, Live
  <2>5. \A n \in Name \ twins' : TaskExist(n)' =>
          /\ purged_index <= object'[latest'[n]].filenum
          /\ object'[latest'[n]].filenum <= pro_num
    BY <1>0, <2>2, <2>4 DEF SeqInv, ReadInv, TaskExist
  <2>6. ASSUME NEW v \in Worker, NEW x \in Task, Holds(v, x)'
        PROVE  object'[x].filenum = adder'[v].filenum
    <3>1. CASE v = w
      BY <2>3, <2>4, <2>6, <3>1 DEF Holds
    <3>2. CASE v # w
      <4>1. Holds(v, x) /\ adder'[v] = adder[v]
        BY <1>3, <2>6, <3>2 DEF Holds
      <4> QED BY <1>0, <2>4, <4>1, OwnedAreLive DEF ReadInv
    <3> QED BY <3>1, <3>2
  <2> QED BY <1>4, <2>3, <2>5, <2>6
<1>7. CASE CheckExist(w)
  <2>1. /\ adder'[w].filenum = adder[w].filenum /\ adder'[w].task = adder[w].task
        /\ adder'[w].added = adder[w].added /\ adder[w].pc # "create"
        /\ UNCHANGED <<task_ptrs, object, latest, twins>>
    BY <1>2, <1>7 DEF CheckExist, TypeOK, Call
  <2> QED BY <1>0, <1>1, <1>2, <1>3, <2>1 DEF ReadInv, Holds, TaskExist
<1>8. CASE RemoveOld(w)
  <2>1. /\ adder'[w].filenum = adder[w].filenum /\ adder'[w].task = adder[w].task
        /\ adder'[w].added = adder[w].added /\ adder[w].pc # "create"
        /\ RemoveTask(adder[w].name) /\ UNCHANGED <<hand, twins>>
    BY <1>2, <1>8 DEF RemoveOld, TypeOK, Call
  <2>2. /\ \A t \in Live' : object'[t] = object[t]
        /\ \A m \in Name : TaskExist(m)' => TaskExist(m)
        /\ \A m \in Name \ twins : TaskExist(m)' => latest'[m] = latest[m] /\ latest[m] \in Live'
    BY <1>2, <2>1, RemoveKeepsSeq
  <2>3. \A v \in Worker, t \in Task : Holds(v, t)' => t \in Live'
    BY DEF OwnedIffLive, Owned
  <2>4. \A v \in Worker, t \in Task : Holds(v, t)' => Holds(v, t) /\ adder'[v].filenum = adder[v].filenum
    BY <1>2, <1>3, <2>1 DEF Holds
  <2>5. \A v \in Worker, t \in Task : Holds(v, t)' => object'[t].filenum = adder'[v].filenum
    BY <1>0, <2>2, <2>3, <2>4 DEF ReadInv
  <2>6. \A n \in Name \ twins' : TaskExist(n)' =>
          /\ purged_index <= object'[latest'[n]].filenum
          /\ object'[latest'[n]].filenum <= pro_num
    BY <1>0, <2>1, <2>2 DEF ReadInv
  <2> QED BY <1>4, <2>1, <2>5, <2>6
<1>9. CASE AddTask(w)
  <2> DEFINE n == adder[w].name
             t == adder[w].task
  <2>1. /\ UNCHANGED <<object, twins>> /\ adder'[w].filenum = adder[w].filenum
        /\ adder'[w].task = t /\ adder[w].pc = "add" /\ ~adder[w].added
    BY <1>2, <1>9 DEF AddTask, TypeOK, Call, CallOK
  <2>2. t \in Task /\ Holds(w, t)
    BY <1>2, <2>1 DEF CallOK, Holds
  <2>3. \A m \in Name : TaskExist(m)' => latest'[m] = t \/ (TaskExist(m) /\ latest'[m] = latest[m])
    BY <1>9 DEF AddTask, TypeOK, TaskExist
  <2>4. \A v \in Worker, x \in Task : Holds(v, x)' => Holds(v, x) /\ adder'[v].filenum = adder[v].filenum
    BY <1>2, <1>3, <2>1 DEF Holds
  <2>5. object[t].filenum = adder[w].filenum
    BY <1>0, <2>2 DEF ReadInv
  <2> HIDE DEF n, t
  <2>6. \A m \in Name \ twins' : TaskExist(m)' =>
          /\ purged_index <= object'[latest'[m]].filenum
          /\ object'[latest'[m]].filenum <= pro_num
    BY <1>0, <1>2, <2>1, <2>3, <2>5 DEF ReadInv
  <2>7. \A v \in Worker, x \in Task : Holds(v, x)' => object'[x].filenum = adder'[v].filenum
    BY <1>0, <2>1, <2>4 DEF ReadInv
  <2> QED BY <1>4, <2>1, <2>6, <2>7
<1>10. CASE LogAdded(w)
  <2>1. adder'[w] = NoCall /\ UNCHANGED <<task_ptrs, latest, twins>>
    BY <1>10 DEF LogAdded, TypeOK
  <2>2. \A x \in Live' : object'[x] = object[x]
    BY <1>10 DEF LogAdded, Live, TypeOK
  <2>3. \A n \in Name \ twins' : TaskExist(n)' => latest'[n] \in Live'
    BY DEF SeqInv
  <2>4. \A v \in Worker, x \in Task : Holds(v, x)' => x \in Live'
    BY DEF OwnedIffLive, Owned
  <2>5. \A v \in Worker, x \in Task : Holds(v, x)' => Holds(v, x) /\ adder'[v] = adder[v]
    BY <1>3, <2>1 DEF Holds
  <2>6. \A v \in Worker, x \in Task : Holds(v, x)' => object'[x].filenum = adder'[v].filenum
    BY <1>0, <2>2, <2>4, <2>5 DEF ReadInv
  <2>7. \A n \in Name \ twins' : TaskExist(n)' =>
          /\ purged_index <= object'[latest'[n]].filenum
          /\ object'[latest'[n]].filenum <= pro_num
    BY <1>0, <2>1, <2>2, <2>3 DEF ReadInv, TaskExist
  <2> QED BY <1>4, <2>1, <2>6, <2>7
<1> QED BY <1>5, <1>6, <1>7, <1>8, <1>9, <1>10 DEF AddStep

\* What a sender does moves the current task of a name only to a file that is
\* there, and CleanSlaves takes names away.
LEMMA ReadSender ==
  ASSUME PInv, SeqInv, ReadInv, IInv', SeqInv', NEW s \in Sender, UNCHANGED partition,
         FetchOut(s) \/ PutBack(s) \/ (RollToNextFile(s) /\ object[hand[s]].filenum + 1 \in files)
  PROVE  ReadInv'
<1> USE ConstantsAssumption DEF PInv, IInv
<1>0. SUFFICES ASSUME faults = {} PROVE ReadInv'
  BY DEF ReadInv, partition
<1>1. /\ UNCHANGED <<purged_index, pro_num, faults, adder, latest, twins>>
      /\ \A n \in Name : TaskExist(n)' <=> TaskExist(n)
  BY SenderKeepsIndex DEF partition
<1>2. \A w \in Worker, t \in Task : Holds(w, t)' <=> Holds(w, t)
  BY <1>1 DEF Holds
<1>3. CASE FetchOut(s)
  BY <1>0, <1>1, <1>2, <1>3 DEF ReadInv, FetchOut
<1>4. CASE PutBack(s)
  <2>1. \A x \in Live' : object'[x] = object[x]
    BY <1>4 DEF PutBack, Live, TypeOK
  <2>2. \A n \in Name \ twins : TaskExist(n) => latest[n] \in Live'
    BY <1>1 DEF SeqInv
  <2>3. \A v \in Worker, t \in Task : Holds(v, t)' => t \in Live'
    BY DEF OwnedIffLive, Owned
  <2> QED BY <1>0, <1>1, <1>2, <2>1, <2>2, <2>3 DEF ReadInv
<1>5. CASE RollToNextFile(s) /\ object[hand[s]].filenum + 1 \in files
  <2> DEFINE t == hand[s]
  <2>1. /\ t \in Task /\ t \in Live /\ object[t] \in Object
        /\ object' = [object EXCEPT ![t].filenum = @ + 1]
    BY <1>5, OwnedAreLive DEF RollToNextFile, TypeOK
  <2>2. \A x \in Task : x # t => object'[x] = object[x]
    BY <2>1 DEF TypeOK
  <2>3. object'[t].filenum = object[t].filenum + 1 /\ object[t].filenum \in Nat
    BY <2>1 DEF TypeOK, Object, Filenum
  <2>4. object[t].filenum + 1 <= pro_num
    <3>1. files \subseteq Oldest .. pro_num
      BY <1>0 DEF FilesInv
    <3>2. Oldest \in Int /\ pro_num \in Int
      BY DEF PurgeTypeOK, Filenum, Oldest
    <3> HIDE DEF Oldest
    <3> QED BY <1>5, <2>3, <3>1, <3>2
  <2>5. \A w \in Worker : ~Holds(w, t)
    BY <2>1 DEF SingleOwner
  <2>6. \A w \in Worker, x \in Task : Holds(w, x)' => object'[x].filenum = adder'[w].filenum
    BY <1>0, <1>1, <1>2, <2>2, <2>5 DEF ReadInv
  <2>7. purged_index \in Nat
    BY DEF PurgeTypeOK
  <2>8. \A n \in Name \ twins : TaskExist(n) => latest[n] \in Task
    BY DEF SeqInv, Live
  <2> HIDE DEF t
  <2>9. ASSUME NEW n \in Name \ twins, TaskExist(n)
        PROVE  purged_index <= object'[latest[n]].filenum /\ object'[latest[n]].filenum <= pro_num
    <3>1. purged_index <= object[latest[n]].filenum /\ object[latest[n]].filenum <= pro_num
      BY <1>0, <2>9 DEF ReadInv
    <3>2. CASE latest[n] = t
      BY <2>3, <2>4, <2>7, <3>1, <3>2
    <3>3. CASE latest[n] # t
      BY <2>2, <2>8, <2>9, <3>1, <3>3
    <3> QED BY <3>2, <3>3
  <2> QED BY <1>0, <1>1, <2>6, <2>9 DEF ReadInv
<1> QED BY <1>3, <1>4, <1>5

LEMMA ReadStep ==
  ASSUME PInv, PInv', SeqInv, SeqInv', ReadInv, [PurgeNext]_vars PROVE ReadInv'
<1> USE LockFacts, ConstantsAssumption DEF PInv
<1>0. SUFFICES ASSUME faults' = {} PROVE ReadInv'
  BY DEF ReadInv
<1>1. ASSUME UNCHANGED <<purged_index, pro_num, faults, pool>> PROVE ReadInv'
  BY <1>1 DEF pool, ReadInv, Holds, TaskExist
<1>2. ASSUME NEW w \in Worker, NEW n \in Name, NEW f \in Filenum, SlaveAskSync(w, n, f)
      PROVE  ReadInv'
  <2>1. /\ f <= pro_num /\ purged_index <= f
        /\ UNCHANGED <<purged_index, pro_num, faults, task_ptrs, object, latest, twins>>
        /\ adder'[w].filenum = f /\ adder'[w].pc = "create"
        /\ \A v \in Worker : v # w => adder'[v] = adder[v]
    BY <1>2 DEF SlaveAskSync, AddNewTask, partition, IInv, TypeOK
  <2> QED BY <2>1 DEF ReadInv, Holds, TaskExist
<1>3. ASSUME NEW w \in Worker, CreateOpens(w) \/ AddTaskStep(w) PROVE ReadInv'
  <2>1. AddStep(w) /\ UNCHANGED partition
    BY <1>3 DEF CreateOpens, AddTaskStep, AddStep
  <2> QED BY <2>1, ReadAdder
<1>4. ASSUME NEW s \in Sender, ((FetchOut(s) \/ PutBack(s)) /\ UNCHANGED partition) \/ RollIfNext(s)
      PROVE  ReadInv'
  BY <1>4, ReadSender DEF RollIfNext
<1>5. ASSUME NEW n \in Name, CleanSlaves(n) PROVE ReadInv'
  <2>1. UNCHANGED <<purged_index, pro_num, faults>>
    BY <1>5 DEF CleanSlaves
  <2>2. CASE TaskExist(n)
    <3>1. /\ RemoveTask(n) /\ UNCHANGED <<hand, adder, twins>>
          /\ \A w \in Worker : adder[w] = NoCall
      BY <1>5, <2>2 DEF CleanSlaves, RemoveBinlogSendTask
    <3>2. /\ \A t \in Live' : object'[t] = object[t]
          /\ \A m \in Name : TaskExist(m)' => TaskExist(m)
          /\ \A m \in Name \ twins : TaskExist(m)' => latest'[m] = latest[m] /\ latest[m] \in Live'
      BY <3>1, RemoveKeepsSeq
    <3> QED BY <2>1, <3>1, <3>2 DEF ReadInv, Holds
  <2>3. CASE ~TaskExist(n)
    BY <1>1, <1>5, <2>1, <2>3 DEF CleanSlaves
  <2> QED BY <2>2, <2>3
<1>6. ASSUME \/ PurgeFiles \/ ExamineFile \/ PurgeDone \/ SendTrySync
             \/ \E r \in Role, S \in SUBSET Name : Update(r, S)
      PROVE  ReadInv'
  BY <1>1, <1>6 DEF PurgeFiles, ExamineFile, PurgeDone, SendTrySync, Update
<1>7. CASE DeleteFile
  <2>1. UNCHANGED <<purged_index, pro_num, faults, pool>>
    BY <1>0, <1>7 DEF DeleteFile
  <2> QED BY <1>1, <2>1
<1>8. purged_index \in Nat /\ pro_num \in Nat
  BY DEF PurgeTypeOK, Filenum
<1>9. /\ \A w \in Worker : adder[w] # NoCall => adder[w].filenum \in Nat
      /\ \A n \in Name \ twins : TaskExist(n) => object[latest[n]].filenum \in Nat
  <2>1. \A w \in Worker : adder[w] # NoCall => adder[w].filenum \in Nat
    BY DEF IInv, TypeOK, Call, Filenum
  <2> QED BY <2>1, SeqTypes DEF SeqInv
<1>10. CASE MaybeRoll
  <2>1. pro_num' = pro_num + 1 /\ UNCHANGED <<purged_index, faults, pool>>
    BY <1>10 DEF MaybeRoll
  <2>2. \A x \in Nat : x <= pro_num => x <= pro_num'
    BY <1>8, <2>1
  <2> QED BY <1>9, <2>1, <2>2 DEF ReadInv, pool, Holds, TaskExist
<1>11. CASE CouldPurge
  <2> DEFINE f == First(purger.binlogs)
  <2>1. /\ purger.pc = "could" /\ \A w \in Worker : adder[w] = NoCall
        /\ UNCHANGED <<pro_num, faults, pool>> /\ faults = {}
    BY <1>0, <1>11 DEF CouldPurge, WritePurgedIndex
  <2>2. CASE NeededBySlave(f)
    BY <1>1, <1>11, <2>1, <2>2 DEF CouldPurge
  <2>3. CASE ~NeededBySlave(f)
    <3>1. purged_index' = f + 1
      BY <1>11, <2>3 DEF CouldPurge
    <3>2. f \in Nat
      <4>1. purger.binlogs \in SUBSET Nat /\ purger.binlogs # {}
        BY <2>1 DEF Locks, PurgeTypeOK, Filenum
      <4> QED BY <4>1, FirstFacts
    <3>3. ASSUME NEW n \in Name \ twins, TaskExist(n) PROVE f + 1 <= object[latest[n]].filenum
      <4>1. updater = NoUpdate /\ n \in slave_nodes
        BY <2>1, <3>3 DEF Locks, TasksInv
      <4>2. latest[n] \in Live /\ object[latest[n]].filenum \in Nat
        BY <1>9, <3>3 DEF SeqInv
      <4>3. TaskFilenum(n) \in Nat /\ TaskFilenum(n) <= object[latest[n]].filenum
        <5>1. CASE task_ptrs[n].iter = NoTask
          BY <3>3, <5>1, SeqTypes DEF TaskFilenum, SeqInv
        <5>2. CASE task_ptrs[n].iter # NoTask
          BY <3>3, <4>2, <5>2, LatestOwned DEF TaskFilenum
        <5> QED BY <5>1, <5>2
      <4>4. ~(f >= TaskFilenum(n))
        BY <2>3, <4>1 DEF NeededBySlave
      <4> HIDE DEF f
      <4> QED BY <3>2, <4>2, <4>3, <4>4
    <3> HIDE DEF f
    <3>4. \A n \in Name \ twins' : TaskExist(n)' =>
            purged_index' <= object'[latest'[n]].filenum /\ object'[latest'[n]].filenum <= pro_num'
      BY <2>1, <3>1, <3>3 DEF ReadInv, pool, TaskExist
    <3> QED BY <2>1, <3>4 DEF ReadInv, pool, Holds
  <2> QED BY <2>2, <2>3
<1>12. CASE ChangeRole
  <2>1. purger = Idle
    BY <1>12 DEF ChangeRole, Locks
  <2>2. faults = {}
    BY <1>0, <1>12 DEF ChangeRole, CloseLog, Open
  <2>3. files = purged_index .. pro_num /\ purged_index <= pro_num
    BY <2>1, <2>2 DEF FilesInv, Oldest
  <2>4. First(files) = purged_index /\ files # {}
    BY <1>8, <2>3, FirstOfInterval, SMTT(30)
  <2>5. UNCHANGED <<pro_num, purged_index, faults, pool>>
    BY <1>0, <1>12, <2>2, <2>4 DEF ChangeRole, CloseLog, Open, CheckBinlogFiles
  <2> QED BY <1>1, <2>5
<1>13. ASSUME NEW f \in Filenum, SetBinlogOffsetWithLock(f) \/ TryUpdateMasterOffset(f)
       PROVE  ReadInv'
  <2>1. role = "slave" /\ UNCHANGED pool
    BY <1>0, <1>13 DEF SetBinlogOffsetWithLock, TryUpdateMasterOffset
  <2>2. (\A w \in Worker : adder[w] = NoCall) /\ \A n \in Name : ~TaskExist(n)
    BY <2>1 DEF TasksInv
  <2> QED BY <2>1, <2>2 DEF ReadInv, pool, Holds, TaskExist
<1>14. CASE UNCHANGED vars
  BY <1>1, <1>14 DEF vars, partition
<1> QED BY <1>2, <1>3, <1>4, <1>5, <1>6, <1>7, <1>10, <1>11, <1>12, <1>13, <1>14 DEF PurgeNext

LEMMA ReadInduction == PurgeSpec => [](PInv /\ SeqInv /\ ReadInv)
<1>1. PurgeInit => ReadInv
  BY DEF PurgeInit, Init, ReadInv, Holds, TaskExist
<1>2. PInv /\ PInv' /\ SeqInv /\ SeqInv' /\ ReadInv /\ [PurgeNext]_vars => ReadInv'
  BY ReadStep
<1> QED BY <1>1, <1>2, PurgeInduction, PurgeImplementsPool, SeqInduction, PTL DEF PurgeSpec

\* For any number of slaves, workers, senders and files the file that the current
\* task of a slave reads is there and stays: CouldPurge sees no adder and no task
\* at or before the file it gives up, and a slave that asks is measured against
\* purged_index_ before its task is made.  Calls of AddNewTask may overlap; only a
\* slave of which two tasks have got one sequence is left out.
THEOREM TaskFilesKept == PurgeSpec => []TaskFileKept
<1>1. PInv /\ SeqInv /\ ReadInv => TaskFileKept
  <2> SUFFICES ASSUME PInv, SeqInv, ReadInv, faults = {}, NEW n \in Name \ twins,
                      TaskExist(n)
               PROVE  /\ object[latest[n]].filenum \in files
                      /\ purged_index <= object[latest[n]].filenum
    BY DEF TaskFileKept
  <2> DEFINE f == object[latest[n]].filenum
  <2>1. purged_index <= f /\ f <= pro_num
    BY DEF ReadInv
  <2>2. files = Oldest .. pro_num
    BY DEF PInv, FilesInv
  <2>3. purged_index \in Nat /\ pro_num \in Nat
    BY ConstantsAssumption DEF PInv, PurgeTypeOK, Filenum
  <2>4. Oldest \in Int /\ Oldest <= purged_index
    BY <2>3 DEF Oldest
  <2>5. f \in Nat
    BY SeqTypes DEF PInv, SeqInv
  <2> HIDE DEF f, Oldest
  <2>6. f \in files
    BY <2>1, <2>2, <2>3, <2>4, <2>5
  <2> QED BY <2>1, <2>6 DEF f
<1> QED BY <1>1, ReadInduction, PTL

\* The pool of a partition keeps to CurrentTask as the pool alone does, for any
\* number of workers whose calls of AddNewTask overlap.
THEOREM PurgeKeepsCurrentTask == PurgeSpec => []CurrentTask
  BY PurgeImplementsPool, CurrentTaskKept, PTL
=============================================================================

-------------------------- MODULE MetaUpdateProofs --------------------------
(* Proofs about the meta servers' update of the tables, for any servers,    *)
(* nodes, tables and bounds, any failing floyd calls and any crashes.       *)
EXTENDS MetaUpdate, FiniteSetTheorems, WellFoundedInduction, TLAPS

-----------------------------------------------------------------------------
(* Induction, without an operator as a parameter.                          *)

\* A set of numbers that has 0 and every successor has all of them.
LEMMA NatInd ==
  ASSUME NEW G, 0 \in G, \A n \in Nat : n \in G => n + 1 \in G
  PROVE  Nat \subseteq G
<1> DEFINE Bad == Nat \ G
           R == OpToRel(<, Nat)
<1> SUFFICES ASSUME Bad # {} PROVE FALSE
  OBVIOUS
<1>1. PICK n \in Bad : \A m \in Bad : ~(<<m, n>> \in R)
  <2>1. Bad \subseteq Nat
    OBVIOUS
  <2> HIDE DEF Bad
  <2> QED BY <2>1, WFMin, NatLessThanWellFounded, Zenon
<1>2. n \in Nat /\ n # 0 /\ n - 1 \in Nat /\ (n - 1) + 1 = n /\ n - 1 < n
  OBVIOUS
<1>3. n - 1 \in Bad
  BY <1>2
<1>4. <<n - 1, n>> \in R
  BY <1>2, Zenon DEF OpToRel
<1> HIDE DEF R
<1> QED BY <1>1, <1>3, <1>4

\* A finite set of integers has a largest element.
LEMMA FiniteMax ==
  ASSUME NEW S \in SUBSET Int, IsFiniteSet(S), S # {}
  PROVE  \E m \in S : \A x \in S : x <= m
<1> DEFINE Bad == {U \in SUBSET S : U # {} /\ ~\E m \in U : \A x \in U : x <= m}
           R == StrictSubsetOrdering(S)
<1> SUFFICES ASSUME Bad # {} PROVE FALSE
  OBVIOUS
<1>1. IsWellFoundedOn(R, SUBSET S)
  <2>1. IsWellFoundedOn(R, FiniteSubsetsOf(S))
    BY FS_StrictSubsetOrderingWellFounded, Zenon
  <2>2. FiniteSubsetsOf(S) = SUBSET S
    BY FS_FiniteSubsetsOfFinite, Zenon
  <2> QED BY <2>1, <2>2
<1>2. PICK U \in Bad : \A V \in Bad : ~(<<V, U>> \in R)
  <2>1. Bad \subseteq SUBSET S
    OBVIOUS
  <2> HIDE DEF Bad, R
  <2> QED BY <1>1, <2>1, WFMin, Zenon
<1>3. PICK x \in U : TRUE
  OBVIOUS
<1>4. U \ {x} \notin Bad
  <2>1. U \ {x} \in SUBSET S /\ U \in SUBSET S /\ U \ {x} # U
    OBVIOUS
  <2>2. <<U \ {x}, U>> \in R
    BY <2>1 DEF StrictSubsetOrdering
  <2> QED BY <1>2, <2>2
<1>5. CASE U \ {x} = {}
  BY <1>3, <1>5
<1>6. CASE U \ {x} # {}
  <2>1. PICK m \in U \ {x} : \A y \in U \ {x} : y <= m
    BY <1>4, <1>6
  <2>2. x \in Int /\ m \in Int
    OBVIOUS
  <2>3. CASE x <= m
    BY <1>3, <2>1, <2>3
  <2>4. CASE m <= x
    <3>1. \A y \in U : y <= x
      BY <2>1, <2>2, <2>4
    <3> QED BY <3>1
  <2> QED BY <2>2, <2>3, <2>4
<1> QED BY <1>5, <1>6

-----------------------------------------------------------------------------
(* Lists of slaves.                                                        *)

Inj(s) == \A i, j \in DOMAIN s : s[i] = s[j] => i = j

\* A slave that is appended to a list in which it was not.
LEMMA AppendFacts ==
  ASSUME NEW T, NEW s \in Seq(T), NEW t \in T
  PROVE  /\ Append(s, t) \in Seq(T)
         /\ Range(Append(s, t)) = Range(s) \cup {t}
         /\ Inj(s) /\ t \notin Range(s) => Inj(Append(s, t))
<1> DEFINE r == Append(s, t)
<1>1. /\ r \in Seq(T) /\ Len(r) = Len(s) + 1 /\ DOMAIN r = 1 .. Len(s) + 1
      /\ \A i \in 1 .. Len(s) : r[i] = s[i]
      /\ r[Len(s) + 1] = t /\ Len(s) \in Nat /\ DOMAIN s = 1 .. Len(s)
  OBVIOUS
<1> HIDE DEF r
<1>2. Range(r) = Range(s) \cup {t}
  <2>1. ASSUME NEW x \in Range(r) PROVE x \in Range(s) \cup {t}
    BY <1>1, <2>1 DEF Range
  <2>2. ASSUME NEW x \in Range(s) PROVE x \in Range(r)
    BY <1>1, <2>2 DEF Range
  <2>3. t \in Range(r)
    BY <1>1 DEF Range
  <2> QED BY <2>1, <2>2, <2>3
<1>3. ASSUME Inj(s), t \notin Range(s) PROVE Inj(r)
  <2> SUFFICES ASSUME NEW i \in DOMAIN r, NEW j \in DOMAIN r, r[i] = r[j] PROVE i = j
    BY DEF Inj
  <2>1. CASE i \in 1 .. Len(s) /\ j \in 1 .. Len(s)
    BY <1>1, <1>3, <2>1 DEF Inj
  <2>2. CASE i = Len(s) + 1 /\ j \in 1 .. Len(s)
    BY <1>1, <1>3, <2>2 DEF Range
  <2>3. CASE j = Len(s) + 1 /\ i \in 1 .. Len(s)
    BY <1>1, <1>3, <2>3 DEF Range
  <2> QED BY <1>1, <2>1, <2>2, <2>3
<1> QED BY <1>1, <1>2, <1>3 DEF r

\* The slaves that the loop of DeleteSlave has copied after i rounds.
Copied(s, n, f, k) ==
  f = [i \in 0..k |-> IF i = 0 THEN << >>
                      ELSE IF s[i] = n THEN f[i - 1] ELSE Append(f[i - 1], s[i])]

LEMMA CopiedExists ==
  ASSUME NEW T, NEW s \in Seq(T), NEW n, NEW k \in 0..Len(s)
  PROVE  \E f : Copied(s, n, f, k)
<1> DEFINE G == {m \in Nat : \E f : Copied(s, n, f, m)}
<1>1. 0 \in G
  <2> DEFINE f == [i \in 0..0 |-> << >>]
  <2>1. Copied(s, n, f, 0)
    BY DEF Copied
  <2> QED BY <2>1
<1>2. ASSUME NEW m \in Nat, m \in G PROVE m + 1 \in G
  <2>1. PICK f : Copied(s, n, f, m)
    BY <1>2
  <2> DEFINE last == IF s[m + 1] = n THEN f[m] ELSE Append(f[m], s[m + 1])
             g == [i \in 0..(m + 1) |-> IF i = m + 1 THEN last ELSE f[i]]
  <2>2. /\ \A i \in 0..m : f[i] = IF i = 0 THEN << >>
                             ELSE IF s[i] = n THEN f[i - 1] ELSE Append(f[i - 1], s[i])
    BY <2>1 DEF Copied
  <2>3. ASSUME NEW i \in 0..(m + 1)
        PROVE  g[i] = IF i = 0 THEN << >>
                      ELSE IF s[i] = n THEN g[i - 1] ELSE Append(g[i - 1], s[i])
    <3>1. CASE i = m + 1
      <4>1. m \in 0..(m + 1) /\ m # m + 1 /\ i # 0 /\ i - 1 = m
        BY <3>1
      <4>2. g[m] = f[m] /\ g[i] = last
        BY <3>1, <4>1
      <4> QED BY <3>1, <4>1, <4>2
    <3>2. CASE i \in 0..m
      <4>1. i # m + 1 /\ (i # 0 => i - 1 \in 0..m /\ i - 1 # m + 1 /\ i - 1 \in 0..(m + 1))
        BY <3>2
      <4>2. g[i] = f[i] /\ (i # 0 => g[i - 1] = f[i - 1])
        BY <4>1
      <4> HIDE DEF g
      <4> QED BY <2>2, <3>2, <4>2
    <3> QED BY <3>1, <3>2
  <2>4. Copied(s, n, g, m + 1)
    <3>1. DOMAIN g = 0..(m + 1) /\ g = [i \in 0..(m + 1) |-> g[i]]
      OBVIOUS
    <3> HIDE DEF g
    <3> QED BY <2>3, <3>1 DEF Copied
  <2> QED BY <2>4
<1>3. Nat \subseteq G
  <2> HIDE DEF G
  <2> QED BY <1>1, <1>2, NatInd
<1> QED BY <1>3

\* DeleteSlave copies the slaves but one.
LEMMA WithoutFacts ==
  ASSUME NEW T, NEW s \in Seq(T), NEW n
  PROVE  /\ Without(s, n) \in Seq(T)
         /\ Range(Without(s, n)) = Range(s) \ {n}
         /\ Inj(s) => Inj(Without(s, n))
<1> DEFINE f == CHOOSE f : Copied(s, n, f, Len(s))
           Upto(m) == {s[i] : i \in 1..m}
           Good(m) == /\ f[m] \in Seq(T)
                      /\ Range(f[m]) = Upto(m) \ {n}
                      /\ Inj(s) => Inj(f[m])
           G == {m \in Nat : m <= Len(s) => Good(m)}
<1>1. Len(s) \in Nat /\ DOMAIN s = 1..Len(s) /\ Len(s) \in 0..Len(s)
  OBVIOUS
<1>2. Copied(s, n, f, Len(s))
  BY <1>1, CopiedExists, Zenon
<1>3. Without(s, n) = f[Len(s)]
  BY DEF Without, Copied
<1> HIDE DEF f
<1>4. \A i \in 0..Len(s) : f[i] = IF i = 0 THEN << >>
                             ELSE IF s[i] = n THEN f[i - 1] ELSE Append(f[i - 1], s[i])
  BY <1>2 DEF Copied
<1>5. 0 \in G
  <2>1. f[0] = << >>
    BY <1>1, <1>4
  <2>2. << >> \in Seq(T) /\ Range(<< >>) = {} /\ Inj(<< >>)
    BY DEF Range, Inj
  <2>3. Upto(0) = {}
    OBVIOUS
  <2> QED BY <2>1, <2>2, <2>3
<1>6. ASSUME NEW m \in Nat, m \in G PROVE m + 1 \in G
  <2> SUFFICES ASSUME m + 1 <= Len(s) PROVE Good(m + 1)
    OBVIOUS
  <2>1. Good(m) /\ m + 1 \in 0..Len(s) /\ m + 1 # 0 /\ (m + 1) - 1 = m /\ m + 1 \in DOMAIN s
    BY <1>1, <1>6
  <2>2. f[m + 1] = IF s[m + 1] = n THEN f[m] ELSE Append(f[m], s[m + 1])
    BY <1>4, <2>1
  <2>3. Upto(m + 1) = Upto(m) \cup {s[m + 1]}
    OBVIOUS
  <2>4. CASE s[m + 1] = n
    BY <2>1, <2>2, <2>3, <2>4
  <2>5. CASE s[m + 1] # n
    <3>1. Inj(s) => s[m + 1] \notin Upto(m)
      <4> SUFFICES ASSUME Inj(s), NEW i \in 1..m, s[i] = s[m + 1] PROVE FALSE
        OBVIOUS
      <4>1. i \in DOMAIN s /\ i # m + 1
        BY <1>1, <2>1
      <4> QED BY <2>1, <4>1 DEF Inj
    <3>2. f[m + 1] = Append(f[m], s[m + 1]) /\ s[m + 1] \in T
      BY <2>1, <2>2, <2>5
    <3> HIDE DEF Upto
    <3>3. /\ f[m + 1] \in Seq(T)
          /\ Range(f[m + 1]) = Range(f[m]) \cup {s[m + 1]}
          /\ Inj(f[m]) /\ s[m + 1] \notin Range(f[m]) => Inj(f[m + 1])
      BY <2>1, <3>2, AppendFacts
    <3> QED BY <2>1, <2>3, <2>5, <3>1, <3>3
  <2> QED BY <2>4, <2>5
<1>7. Good(Len(s))
  <2> HIDE DEF Good
  <2>1. G = {m \in Nat : m <= Len(s) => Good(m)}
    OBVIOUS
  <2> HIDE DEF G
  <2>2. Len(s) \in G
    BY <1>1, <1>5, <1>6, NatInd
  <2> QED BY <1>1, <2>1, <2>2
<1>8. Upto(Len(s)) = Range(s)
  BY <1>1 DEF Range
<1> QED BY <1>3, <1>7, <1>8

-----------------------------------------------------------------------------
(* The operations on a partition keep it well-formed.                       *)

Fine(p) == p \in Partition /\ WellFormed(p)

\* A partition in its parts.
LEMMA PartitionFacts ==
  ASSUME NEW p \in Partition
  PROVE  /\ p.master \in Node \cup {NoNode} /\ p.slaves \in Seq(Node) /\ p.state \in PState
         /\ p = [master |-> p.master, slaves |-> p.slaves, state |-> p.state]
         /\ WellFormed(p) <=> Inj(p.slaves) /\ p.master \notin Range(p.slaves)
         /\ Range(p.slaves) \subseteq Node
<1>1. /\ p.master \in Node \cup {NoNode} /\ p.slaves \in Seq(Node) /\ p.state \in PState
      /\ p = [master |-> p.master, slaves |-> p.slaves, state |-> p.state]
  BY DEF Partition
<1>2. Range(p.slaves) \subseteq Node
  BY <1>1 DEF Range
<1> QED BY <1>1, <1>2 DEF WellFormed, Inj

Part(m, s, t) == [master |-> m, slaves |-> s, state |-> t]

\* A partition made of a master and other slaves.
LEMMA PartFine ==
  ASSUME NEW m \in Node \cup {NoNode}, NEW s \in Seq(Node), NEW t \in PState,
         Inj(s), m \notin Range(s)
  PROVE  Fine(Part(m, s, t)) /\ Part(m, s, t).master = m /\ Part(m, s, t).slaves = s
  BY DEF Fine, Part, Partition, WellFormed, Inj

\* Changing a partition's fields makes such a partition.
LEMMA ExceptPart ==
  ASSUME NEW p \in Partition, NEW m, NEW s
  PROVE  /\ [p EXCEPT !.slaves = s] = Part(p.master, s, p.state)
         /\ [p EXCEPT !.master = m, !.slaves = s] = Part(m, s, p.state)
<1>1. p = Part(p.master, p.slaves, p.state)
  BY PartitionFacts DEF Part
<1>2. [p EXCEPT !.slaves = s] = Part(p.master, s, p.state)
  BY <1>1 DEF Part
<1>3. [p EXCEPT !.master = m, !.slaves = s] = Part(m, s, p.state)
  <2> DEFINE q == [p EXCEPT !.master = m, !.slaves = s]
  <2>1. q = [f \in DOMAIN p |-> q[f]] /\ DOMAIN p = {"master", "slaves", "state"}
    BY <1>1 DEF Part
  <2>2. q["master"] = m /\ q["slaves"] = s /\ q["state"] = p.state
    BY <2>1
  <2> HIDE DEF q
  <2> QED BY <2>1, <2>2 DEF Part
<1> QED BY <1>2, <1>3

LEMMA AddSlaveFine ==
  ASSUME NEW p, Fine(p), NEW n \in Node PROVE Fine(AddSlave(p, n).part)
<1> p \in Partition /\ WellFormed(p)
  BY DEF Fine
<1>1. CASE n \in Members(p)
  BY <1>1 DEF AddSlave, Result
<1>2. CASE n \notin Members(p)
  <2>1. n # p.master /\ n \notin Range(p.slaves)
    BY <1>2, NodeAssumption DEF Members
  <2>2. /\ Append(p.slaves, n) \in Seq(Node) /\ Inj(Append(p.slaves, n))
        /\ p.master \notin Range(Append(p.slaves, n))
    BY <2>1, PartitionFacts, AppendFacts
  <2>3. AddSlave(p, n).part = Part(p.master, Append(p.slaves, n), p.state)
    BY <1>2, ExceptPart DEF AddSlave, Result
  <2>4. p.master \in Node \cup {NoNode} /\ p.state \in PState
    BY PartitionFacts
  <2>5. Fine(Part(p.master, Append(p.slaves, n), p.state))
    BY <2>2, <2>4, PartFine, Zenon
  <2> QED BY <2>3, <2>5
<1> QED BY <1>1, <1>2

LEMMA DeleteSlaveFine ==
  ASSUME NEW p, Fine(p), NEW n \in Node PROVE Fine(DeleteSlave(p, n).part)
<1> USE DEF Fine
<1>1. CASE n = p.master
  BY <1>1 DEF DeleteSlave, Result
<1>2. CASE n # p.master
  <2>1. /\ Without(p.slaves, n) \in Seq(Node) /\ Inj(Without(p.slaves, n))
        /\ p.master \notin Range(Without(p.slaves, n))
    BY PartitionFacts, WithoutFacts
  <2>2. DeleteSlave(p, n).part = Part(p.master, Without(p.slaves, n), p.state)
    BY <1>2, ExceptPart DEF DeleteSlave, Result
  <2>3. p.master \in Node \cup {NoNode} /\ p.state \in PState
    BY PartitionFacts
  <2> QED BY <2>1, <2>2, <2>3, PartFine
<1> QED BY <1>1, <1>2

\* The slave becomes master; the old master, if there is one, takes its place.
LEMMA PromoteFine ==
  ASSUME NEW p, Fine(p), NEW i \in DOMAIN p.slaves
  PROVE  Fine(Promote(p, i)) /\ Promote(p, i).master = p.slaves[i]
<1> DEFINE old == p.slaves
           N == Len(old)
<1>1. /\ p \in Partition /\ old \in Seq(Node) /\ Inj(old) /\ p.master \notin Range(old)
      /\ DOMAIN old = 1..N /\ N \in Nat /\ i \in 1..N /\ old[i] \in Node
      /\ p.master \in Node \cup {NoNode} /\ p.state \in PState
      /\ \A k \in 1..N : old[k] \in Node /\ old[k] # p.master
  BY PartitionFacts DEF Fine, Range
<1>2. CASE p.master # NoNode
  <2> DEFINE new == [old EXCEPT ![i] = p.master]
  <2>1. /\ new \in Seq(Node) /\ DOMAIN new = 1..N
        /\ \A k \in 1..N : new[k] = IF k = i THEN p.master ELSE old[k]
    BY <1>1, <1>2
  <2> HIDE DEF new
  <2>2. Inj(new)
    BY <1>1, <2>1 DEF Inj
  <2>3. old[i] \notin Range(new)
    BY <1>1, <2>1 DEF Inj, Range
  <2>4. Promote(p, i) = Part(old[i], new, p.state)
    BY <1>1, <1>2, ExceptPart DEF Promote, new
  <2> QED BY <1>1, <2>1, <2>2, <2>3, <2>4, PartFine
<1>3. CASE p.master = NoNode
  <2> DEFINE long == [old EXCEPT ![i] = Last(old)]
             new == Front(long)
  <2>1. /\ long \in Seq(Node) /\ DOMAIN long = 1..N /\ Len(long) = N
        /\ \A k \in 1..N : long[k] = IF k = i THEN old[N] ELSE old[k]
    BY <1>1 DEF Last
  <2> HIDE DEF long
  <2>2. /\ new \in Seq(Node) /\ DOMAIN new = 1..N - 1
        /\ \A k \in 1..N - 1 : new[k] = IF k = i THEN old[N] ELSE old[k]
    BY <1>1, <2>1 DEF Front
  <2>3. Promote(p, i) = Part(old[i], new, p.state)
    BY <1>1, <1>3, ExceptPart DEF Promote, new, long
  <2> HIDE DEF new
  <2> DEFINE from(k) == IF k = i THEN N ELSE k
  <2>4. \A k \in 1..N - 1 : from(k) \in 1..N /\ from(k) # i /\ new[k] = old[from(k)]
    BY <1>1, <2>2
  <2>5. \A k, l \in 1..N - 1 : from(k) = from(l) => k = l
    BY <1>1
  <2> HIDE DEF from, old
  <2>6. Inj(new)
    BY <1>1, <2>2, <2>4, <2>5 DEF Inj
  <2>7. old[i] \notin Range(new)
    BY <1>1, <2>2, <2>4 DEF Inj, Range
  <2> QED BY <1>1, <2>2, <2>3, <2>6, <2>7, PartFine DEF old
<1> QED BY <1>2, <1>3

LEMMA SetMasterFine ==
  ASSUME NEW p, Fine(p), NEW n \in Node PROVE Fine(SetMaster(p, n).part)
<1>1. CASE n = p.master
  BY <1>1, PartitionFacts DEF SetMaster, Result, Fine
<1>2. CASE n # p.master /\ n \in Range(p.slaves)
  <2> DEFINE i == CHOOSE i \in DOMAIN p.slaves : p.slaves[i] = n
  <2>1. i \in DOMAIN p.slaves
    BY <1>2 DEF Range
  <2>2. SetMaster(p, n).part = Promote(p, i)
    BY <1>2 DEF SetMaster, Result
  <2> HIDE DEF i
  <2> QED BY <2>1, <2>2, PromoteFine
<1>3. CASE n # p.master /\ n \notin Range(p.slaves)
  BY <1>3 DEF SetMaster, Result
<1> QED BY <1>1, <1>2, <1>3

LEMMA HandoverFine ==
  ASSUME NEW p, Fine(p), NEW l \in Node, NEW r \in Node
  PROVE  Fine(Handover(p, l, r).part)
<1>1. CASE l # p.master
  BY <1>1, DeleteSlaveFine DEF Handover
<1>2. CASE l = p.master
  <2>1. Fine(SetMaster(p, r).part)
    BY SetMasterFine
  <2>2. Fine(DeleteSlave(SetMaster(p, r).part, l).part)
    BY <2>1, DeleteSlaveFine
  <2> QED BY <1>2, <2>1, <2>2 DEF Handover
<1> QED BY <1>1, <1>2

LEMMA ChangePStateFine ==
  ASSUME NEW p, Fine(p), NEW s \in PState PROVE Fine(ChangePState(p, s).part)
  BY DEF ChangePState, Result, Fine, Partition, WellFormed

\* The loop of the election ends with a slave that is up.
LEMMA MaxSlaveUp ==
  ASSUME NEW p \in Partition, NEW up, NEW off \in [Node -> Nat],
         Range(p.slaves) \cap up # {}
  PROVE  MaxSlave(p, up, off) \in DOMAIN p.slaves /\ p.slaves[MaxSlave(p, up, off)] \in up
<1> DEFINE Seen(j) == GetNodeOffset(off, p.slaves[j], j - 1)
           cand == {j \in DOMAIN p.slaves : p.slaves[j] \in up}
           best == {j \in cand : \A k \in cand : Seen(k) <= Seen(j)}
           all == {Seen(j) : j \in cand}
<1>1. p.slaves \in Seq(Node) /\ DOMAIN p.slaves = 1..Len(p.slaves) /\ Len(p.slaves) \in Nat
  BY PartitionFacts
<1>2. \A j \in cand : Seen(j) \in Int /\ j \in Int
  BY <1>1 DEF GetNodeOffset
<1>3. cand # {} /\ all # {}
  BY DEF Range
<1>4. IsFiniteSet(1..Len(p.slaves)) /\ IsFiniteSet(cand)
  <2>1. IsFiniteSet(1..Len(p.slaves))
    BY <1>1, FS_Interval
  <2>2. cand \in SUBSET (1..Len(p.slaves))
    BY <1>1
  <2> QED BY <2>1, <2>2, FS_Subset
<1>5. best \subseteq cand
  OBVIOUS
<1>6. MaxSlave(p, up, off) = Max(best)
  BY DEF MaxSlave
<1> HIDE DEF Seen
<1>7. best # {}
  <2>1. IsFiniteSet(all)
    <3> HIDE DEF cand
    <3> DEFINE f == [j \in cand |-> Seen(j)]
    <3>1. f \in [cand -> all] /\ \A y \in all : \E x \in cand : f[x] = y
      OBVIOUS
    <3> HIDE DEF f, all
    <3>2. f \in Surjection(cand, all)
      BY <3>1 DEF Surjection
    <3> QED BY <1>4, <3>2, FS_Surjection
  <2>2. all \in SUBSET Int
    BY <1>2
  <2>3. PICK m \in all : \A x \in all : x <= m
    <3> HIDE DEF all
    <3> QED BY <1>3, <2>1, <2>2, FiniteMax
  <2> QED BY <2>3
<1>8. PICK j \in best : \A k \in best : k <= j
  <2>1. best \in SUBSET Int /\ best \in SUBSET cand
    BY <1>2
  <2> HIDE DEF best, cand
  <2>2. IsFiniteSet(best)
    BY <1>4, <2>1, FS_Subset
  <2> QED BY <1>7, <2>1, <2>2, FiniteMax
<1>9. Max(best) \in best
  <2>1. \A k \in best : j >= k
    BY <1>2, <1>8
  <2> HIDE DEF best
  <2> QED BY <1>8, <2>1 DEF Max
<1> QED BY <1>5, <1>6, <1>9

\* The partition p, with the nodes up, has been through an election.
Settled(p, up) ==
  \/ p.master \in up
  \/ p.master = NoNode /\ Range(p.slaves) \cap up = {}

\* The election ends with a master that is up, or without one when nobody is.
LEMMA RefreshPartitionFine ==
  ASSUME NEW p, Fine(p), NEW up \in SUBSET Node, NEW off \in [Node -> Nat]
  PROVE  /\ Fine(RefreshPartition(p, up, off))
         /\ Settled(RefreshPartition(p, up, off), up)
<1>1. CASE p.master \in up
  BY <1>1 DEF RefreshPartition, Settled
<1>2. CASE p.master \notin up /\ Range(p.slaves) \cap up # {}
  <2> DEFINE i == MaxSlave(p, up, off)
  <2>1. i \in DOMAIN p.slaves /\ p.slaves[i] \in up
    BY <1>2, MaxSlaveUp DEF Fine
  <2>2. RefreshPartition(p, up, off) = Promote(p, i)
    BY <1>2 DEF RefreshPartition
  <2> HIDE DEF i
  <2> QED BY <2>1, <2>2, PromoteFine DEF Settled
<1>3. CASE p.master \notin up /\ Range(p.slaves) \cap up = {} /\ p.master = NoNode
  BY <1>3 DEF RefreshPartition, Settled
<1>4. CASE p.master \notin up /\ Range(p.slaves) \cap up = {} /\ p.master # NoNode
  <2> DEFINE s == Append(p.slaves, p.master)
  <2>1. /\ p \in Partition /\ p.slaves \in Seq(Node) /\ p.master \in Node
        /\ Inj(p.slaves) /\ p.master \notin Range(p.slaves) /\ Range(p.slaves) \subseteq Node
    BY <1>4, PartitionFacts DEF Fine
  <2>2. s \in Seq(Node) /\ Inj(s) /\ Range(s) = Range(p.slaves) \cup {p.master}
    BY <2>1, AppendFacts
  <2>3. RefreshPartition(p, up, off) = Part(NoNode, s, p.state) /\ p.state \in PState
    BY <1>4, <2>1 DEF RefreshPartition, Part, Partition
  <2> HIDE DEF s
  <2>4. NoNode \notin Range(s)
    BY <2>1, <2>2, NodeAssumption
  <2>5. /\ Fine(Part(NoNode, s, p.state))
        /\ Part(NoNode, s, p.state).master = NoNode /\ Part(NoNode, s, p.state).slaves = s
    BY <2>2, <2>3, <2>4, PartFine
  <2> QED BY <1>4, <2>2, <2>3, <2>5 DEF Settled
<1> QED BY <1>1, <1>2, <1>3, <1>4

-----------------------------------------------------------------------------
(* The inductive invariant.                                                *)

\* What a server would load now.
Current == IF floyd.listed THEN floyd.part ELSE NoTable

\* The epochs of the servers, of reads under way and of the worker's snapshot
\* are at most that of floyd; the leader lags by one at most.
EpochInv ==
  /\ floyd.epoch >= -1
  /\ \A s \in Server : cache[s].epoch <= floyd.epoch
  /\ \A s \in Server : reader[s].pc # "idle" => reader[s].epoch <= floyd.epoch
  /\ leader # NoServer =>
       /\ reader[leader].pc = "idle"
       /\ floyd.epoch <= cache[leader].epoch + 1
  /\ worker.pc # "idle" =>
       /\ leader # NoServer
       /\ worker.epoch < MaxEpoch
       /\ worker.epoch <= floyd.epoch /\ floyd.epoch <= worker.epoch + 1
       /\ worker.pc # "infos" \/ ~worker.changed => worker.epoch = cache[leader].epoch
       /\ worker.pc \in {"refresh", "infos"} /\ worker.changed =>
            floyd.epoch = worker.epoch + 1
       /\ worker.pc = "infos" /\ worker.changed => cache[leader].epoch = floyd.epoch
  /\ worker.pc = "idle" => worker = Sleeping
  /\ worker.pc \notin {"idle", "tasks"} => worker.todo = << >>
  /\ stop => deque = << >>

\* What is published under an epoch is in floyd before the epoch is.
StampInv ==
  /\ floyd.liststamp >= floyd.epoch
  /\ floyd.listed => floyd.stamp >= floyd.epoch /\ floyd.part # NoTable
  /\ worker.pc \in {"list", "nodes", "epoch"} /\ worker.changed /\ worker.table # NoTable =>
       floyd.stamp >= worker.epoch + 1 /\ floyd.part # NoTable
  /\ worker.pc \in {"nodes", "epoch"} /\ worker.changed =>
       floyd.liststamp >= worker.epoch + 1 /\ floyd.listed = (worker.table # NoTable)
  /\ \A s \in Server : reader[s].pc = "table" =>
       floyd.stamp >= reader[s].epoch /\ reader[s].stamp >= reader[s].epoch
  /\ CacheNotOlder

\* A change is being written and its epoch is not.
Unpublished ==
  Applying /\ worker.changed /\ floyd.epoch = worker.epoch

\* Unless an Apply was cut off: who has the epoch of floyd has its table, and the
\* worker's snapshot differs from floyd only by what it has noted as changed.
StepInv ==
  ~partial =>
    /\ ~Unpublished => \A s \in Server :
         /\ cache[s].epoch = floyd.epoch => cache[s].table = Current
         /\ reader[s].pc = "table" /\ reader[s].epoch = floyd.epoch => floyd.listed
    /\ leader # NoServer /\ ~Applying => cache[leader].epoch = floyd.epoch
    /\ worker.pc = "infos" => cache[leader].epoch = floyd.epoch
    /\ Applying /\ ~worker.changed => floyd.epoch = worker.epoch
    /\ worker.pc # "idle" /\ ~worker.changed => worker.table = Current
    /\ Applying /\ worker.changed =>
         /\ /\ worker.pc \in {"list", "nodes", "epoch"} \/ floyd.epoch = worker.epoch + 1
            /\ worker.table # NoTable
            => floyd.part = worker.table
         /\ worker.pc \in {"nodes", "epoch"} \/ floyd.epoch = worker.epoch + 1 =>
              floyd.listed = (worker.table # NoTable)

\* The same for the nodes that are up.
NodesInv ==
  ~partial /\ leader # NoServer =>
    /\ ~Applying => UpIn(infos) = UpIn(floyd.nodes)
    /\ Applying /\ ~worker.nchanged => UpIn(infos) = UpIn(floyd.nodes)
    /\ worker.pc # "idle" /\ ~worker.nchanged => UpIn(worker.nodes) = UpIn(floyd.nodes)
    /\ worker.pc \in {"epoch", "refresh", "infos"} /\ worker.nchanged =>
         floyd.nodes = worker.nodes

ElectedInv ==
  /\ Applying /\ worker.table # NoTable => Settled(worker.table, UpIn(worker.nodes))
  /\ MasterUp

IInv == TypeOK /\ EpochInv /\ StampInv /\ StepInv /\ NodesInv /\ ElectedInv /\ PartitionOK

-----------------------------------------------------------------------------
(* The operations of the loop of ApplyUpdates on the snapshot.              *)

\* A snapshot that has or has not a table, and if so a well-formed one.
GoodSnap(w) == w \in Worker /\ (w.table = NoTable \/ Fine(w.table))

\* v is w after a task: what has changed is noted.
Noted(w, v) ==
  /\ v.pc = w.pc /\ v.todo = w.todo /\ v.epoch = w.epoch
  /\ w.changed => v.changed
  /\ ~v.changed => v.table = w.table
  /\ w.nchanged => v.nchanged
  /\ ~v.nchanged => UpIn(v.nodes) = UpIn(w.nodes)

LEMMA NodeTaskNoted ==
  ASSUME NEW w, GoodSnap(w), NEW n \in Node, NEW loaded
  PROVE  /\ GoodSnap(UpNode(w, n)) /\ Noted(w, UpNode(w, n))
         /\ GoodSnap(DownNode(w, n)) /\ Noted(w, DownNode(w, n))
         /\ GoodSnap(RemoveNodes(w, n, loaded)) /\ Noted(w, RemoveNodes(w, n, loaded))
<1> USE DEF GoodSnap, Noted, Worker, NodeState, UpIn
<1>1. GoodSnap(UpNode(w, n)) /\ Noted(w, UpNode(w, n))
  BY DEF UpNode
<1>2. GoodSnap(DownNode(w, n)) /\ Noted(w, DownNode(w, n))
  BY DEF DownNode
<1>3. GoodSnap(RemoveNodes(w, n, loaded)) /\ Noted(w, RemoveNodes(w, n, loaded))
  BY DEF RemoveNodes
<1> QED BY <1>1, <1>2, <1>3

LEMMA TableTaskNoted ==
  ASSUME NEW w, GoodSnap(w), NEW p \in FirstTable
  PROVE  /\ GoodSnap(AddTable(w, p)) /\ Noted(w, AddTable(w, p))
         /\ GoodSnap(RemoveTable(w)) /\ Noted(w, RemoveTable(w))
<1> USE DEF GoodSnap, Noted, Worker
<1>1. Fine(p)
  BY UpdateAssumption DEF Fine
<1>2. GoodSnap(AddTable(w, p)) /\ Noted(w, AddTable(w, p))
  BY <1>1 DEF AddTable, Fine
<1>3. GoodSnap(RemoveTable(w)) /\ Noted(w, RemoveTable(w))
  BY DEF RemoveTable
<1> QED BY <1>2, <1>3

LEMMA OnTableNoted ==
  ASSUME NEW w, GoodSnap(w), NEW t \in Task,
         t.op \in {"AddSlave", "RemoveSlave", "SetMaster", "Handover", "SetState"}
  PROVE  GoodSnap(OnTable(w, t)) /\ Noted(w, OnTable(w, t))
<1>1. CASE w.table = NoTable
  BY <1>1 DEF OnTable, GoodSnap, Noted, Worker
<1>2. CASE w.table # NoTable
  <2> DEFINE r == CASE t.op = "AddSlave" -> AddSlave(w.table, t.node)
                    [] t.op = "RemoveSlave" -> DeleteSlave(w.table, t.node)
                    [] t.op = "SetMaster" -> SetMaster(w.table, t.node)
                    [] t.op = "Handover" -> Handover(w.table, t.left, t.right)
                    [] t.op = "SetState" -> ChangePState(w.table, t.state)
  <2>0. Fine(w.table)
    BY <1>2 DEF GoodSnap
  <2>1. Fine(r.part)
    <3>1. CASE t.op = "AddSlave"
      <4>1. t.node \in Node
        BY <3>1 DEF Task
      <4> QED BY <2>0, <3>1, <4>1, AddSlaveFine
    <3>2. CASE t.op = "RemoveSlave"
      <4>1. t.node \in Node
        BY <3>2 DEF Task
      <4> QED BY <2>0, <3>2, <4>1, DeleteSlaveFine
    <3>3. CASE t.op = "SetMaster"
      <4>1. t.node \in Node
        BY <3>3 DEF Task
      <4> QED BY <2>0, <3>3, <4>1, SetMasterFine
    <3>4. CASE t.op = "Handover"
      <4>1. t.left \in Node /\ t.right \in Node
        BY <3>4 DEF Task
      <4> QED BY <2>0, <3>4, <4>1, HandoverFine
    <3>5. CASE t.op = "SetState"
      <4>1. t.state \in PState
        BY <3>5 DEF Task
      <4> QED BY <2>0, <3>5, <4>1, ChangePStateFine
    <3> QED BY <3>1, <3>2, <3>3, <3>4, <3>5
  <2>2. OnTable(w, t) = [w EXCEPT !.table = r.part, !.changed = @ \/ r.part # w.table,
                                  !.succ = @ \/ r.status = "ok"]
    BY <1>2 DEF OnTable
  <2> HIDE DEF r
  <2> QED BY <2>1, <2>2 DEF GoodSnap, Noted, Worker, Fine
<1> QED BY <1>1, <1>2

\* One round of the loop keeps the snapshot and notes what it changes.
LEMMA TaskFacts ==
  ASSUME TypeOK, PartitionOK, ApplyTask
  PROVE  /\ GoodSnap(worker') /\ worker'.pc = "tasks"
         /\ worker'.todo = Tail(worker.todo) /\ worker'.epoch = worker.epoch
         /\ worker.changed => worker'.changed
         /\ ~worker'.changed => worker'.table = worker.table
         /\ worker.nchanged => worker'.nchanged
         /\ ~worker'.nchanged => UpIn(worker'.nodes) = UpIn(worker.nodes)
<1> DEFINE t == Head(worker.todo)
           w == [worker EXCEPT !.todo = Tail(@)]
<1>1. worker \in Worker /\ worker.todo \in Seq(Task) /\ worker.todo # << >>
  BY DEF ApplyTask, TypeOK, Worker
<1>2. t \in Task /\ Tail(worker.todo) \in Seq(Task)
  BY <1>1
<1>3. /\ GoodSnap(w) /\ w.pc = "tasks" /\ w.todo = Tail(worker.todo)
      /\ w.epoch = worker.epoch /\ w.changed = worker.changed /\ w.table = worker.table
      /\ w.nchanged = worker.nchanged /\ w.nodes = worker.nodes
  BY <1>1, <1>2 DEF ApplyTask, PartitionOK, GoodSnap, Worker, Fine
<1>4. worker' = CASE t.op = "UpNode" -> UpNode(w, t.node)
                  [] t.op = "DownNode" -> DownNode(w, t.node)
                  [] t.op = "RemoveNodes" ->
                       RemoveNodes(w, t.node, Loads(cache[leader].table))
                  [] t.op = "AddTable" -> AddTable(w, t.part)
                  [] t.op = "RemoveTable" -> RemoveTable(w)
                  [] OTHER -> OnTable(w, t)
  BY DEF ApplyTask
<1> HIDE DEF t, w
<1>5. GoodSnap(worker') /\ Noted(w, worker')
  <2>1. CASE t.op \in {"UpNode", "DownNode", "RemoveNodes"}
    <3>1. t.node \in Node
      BY <1>2, <2>1 DEF Task
    <3>2. CASE t.op = "UpNode"
      <4>1. worker' = UpNode(w, t.node)
        BY <1>4, <3>2
      <4> QED BY <1>3, <3>1, <4>1, NodeTaskNoted
    <3>3. CASE t.op = "DownNode"
      <4>1. worker' = DownNode(w, t.node)
        BY <1>4, <3>3
      <4> QED BY <1>3, <3>1, <4>1, NodeTaskNoted
    <3>4. CASE t.op = "RemoveNodes"
      <4>1. worker' = RemoveNodes(w, t.node, Loads(cache[leader].table))
        BY <1>4, <3>4
      <4> QED BY <1>3, <3>1, <4>1, NodeTaskNoted
    <3> QED BY <2>1, <3>2, <3>3, <3>4
  <2>2. CASE t.op = "AddTable"
    <3>1. t.part \in FirstTable
      BY <1>2, <2>2 DEF Task
    <3>2. worker' = AddTable(w, t.part)
      BY <1>4, <2>2
    <3> QED BY <1>3, <3>1, <3>2, TableTaskNoted
  <2>3. CASE t.op = "RemoveTable"
    <3>1. worker' = RemoveTable(w)
      BY <1>4, <2>3
    <3> QED BY <1>3, <3>1 DEF RemoveTable, GoodSnap, Noted, Worker
  <2>4. CASE t.op \in {"AddSlave", "RemoveSlave", "SetMaster", "Handover", "SetState"}
    <3>1. worker' = OnTable(w, t)
      BY <1>4, <2>4
    <3> QED BY <1>2, <1>3, <2>4, <3>1, OnTableNoted
  <2>5. t.op \in {"UpNode", "DownNode", "RemoveNodes", "AddSlave", "RemoveSlave",
                  "SetMaster", "Handover", "SetState", "AddTable", "RemoveTable"}
    BY <1>2 DEF Task
  <2> QED BY <2>1, <2>2, <2>3, <2>4, <2>5
<1> QED BY <1>3, <1>5 DEF Noted

\* The election leaves a snapshot whose table is settled.
LEMMA ElectFacts ==
  ASSUME TypeOK, PartitionOK, RefreshTableWithNodeAlive
  PROVE  /\ GoodSnap(worker') /\ worker'.pc = "table" /\ worker'.todo = << >>
         /\ worker'.epoch = worker.epoch
         /\ worker.changed => worker'.changed
         /\ ~worker'.changed => worker'.table = worker.table
         /\ worker'.nodes = worker.nodes /\ worker'.nchanged = worker.nchanged
         /\ worker'.table # NoTable => Settled(worker'.table, UpIn(worker'.nodes))
         /\ behind' \in BOOLEAN
<1> DEFINE up == UpIn(worker.nodes)
<1>1. /\ worker \in Worker /\ worker.todo = << >> /\ worker.pc = "tasks"
      /\ GoodSnap(worker) /\ up \in SUBSET Node
  BY DEF RefreshTableWithNodeAlive, TypeOK, PartitionOK, GoodSnap, Fine, UpIn, Worker
<1>2. CASE worker.table = NoTable \/ worker.table.master \in up
  BY <1>1, <1>2 DEF RefreshTableWithNodeAlive, GoodSnap, Worker, Settled, TypeOK
<1>3. CASE worker.table # NoTable /\ worker.table.master \notin up
  <2>1. PICK off \in Reported :
          /\ worker' = [worker EXCEPT !.pc = "table", !.changed = TRUE,
                                      !.table = RefreshPartition(worker.table, up, off)]
          /\ behind' = (behind \/ PassedOver(worker.table,
                                    RefreshPartition(worker.table, up, off), up, off))
    BY <1>1, <1>3 DEF RefreshTableWithNodeAlive
  <2>2. off \in [Node -> Nat] /\ Fine(worker.table)
    BY <1>1, <1>3, UpdateAssumption DEF Reported, GoodSnap
  <2> DEFINE q == RefreshPartition(worker.table, up, off)
  <2>3. Fine(q) /\ Settled(q, up)
    BY <1>1, <2>2, RefreshPartitionFine
  <2>4. worker' = [worker EXCEPT !.pc = "table", !.changed = TRUE, !.table = q]
    BY <2>1
  <2>5. behind' \in BOOLEAN
    BY <2>1
  <2> HIDE DEF q, up
  <2> QED BY <1>1, <2>3, <2>4, <2>5 DEF GoodSnap, Worker, Fine, up
<1> QED BY <1>2, <1>3

-----------------------------------------------------------------------------
(* Every step keeps the types.                                              *)

\* What a call of Apply leaves in floyd, key by key.
LEMMA WrittenFields ==
  ASSUME TypeOK
  PROVE  /\ Written.epoch = IF worker.pc = "epoch" /\ worker.changed
                            THEN worker.epoch + 1 ELSE floyd.epoch
         /\ Written.listed = IF worker.pc = "list" /\ worker.changed
                             THEN worker.table # NoTable ELSE floyd.listed
         /\ Written.liststamp = IF worker.pc = "list" /\ worker.changed
                                THEN worker.epoch + 1 ELSE floyd.liststamp
         /\ Written.part = IF worker.pc = "table" /\ worker.changed /\ worker.table # NoTable
                           THEN worker.table ELSE floyd.part
         /\ Written.stamp = IF worker.pc = "table" /\ worker.changed /\ worker.table # NoTable
                            THEN worker.epoch + 1 ELSE floyd.stamp
         /\ Written.nodes = IF worker.pc = "nodes" /\ worker.nchanged
                            THEN worker.nodes ELSE floyd.nodes
<1> USE DEF TypeOK, Floyd, Worker, Written
<1>1. CASE worker.pc = "table"
  BY <1>1
<1>2. CASE worker.pc = "list"
  BY <1>2
<1>3. CASE worker.pc = "nodes"
  BY <1>3
<1>4. CASE worker.pc = "epoch"
  BY <1>4
<1>5. CASE worker.pc \in {"idle", "tasks", "refresh", "infos"}
  BY <1>5
<1> QED BY <1>1, <1>2, <1>3, <1>4, <1>5

LEMMA WrittenType ==
  ASSUME TypeOK, EpochInv, worker.pc # "idle" PROVE Written \in Floyd
<1>1. worker.epoch + 1 \in Epoch /\ worker.table \in Partition \cup {NoTable}
      /\ worker.nodes \in [Node -> NodeState]
  BY UpdateAssumption DEF TypeOK, EpochInv, Worker, Epoch
<1> USE DEF TypeOK, Floyd, Worker, Written
<1>2. CASE worker.pc = "table"
  BY <1>1, <1>2
<1>3. CASE worker.pc = "list"
  BY <1>1, <1>3
<1>4. CASE worker.pc = "nodes"
  BY <1>1, <1>4
<1>5. CASE worker.pc = "epoch"
  BY <1>1, <1>5
<1>6. CASE worker.pc \in {"idle", "tasks", "refresh", "infos"}
  BY <1>6
<1> QED BY <1>2, <1>3, <1>4, <1>5, <1>6

\* What LoadMetaInfo brings.
LEMMA LoadedType ==
  ASSUME TypeOK, NEW e \in Epoch PROVE Loaded(e) \in Cache
  BY DEF TypeOK, Floyd, Loaded, Cache, MinStamp

LEMMA SleepingType == Sleeping \in Worker /\ NotReading \in Reader /\ Uninitialed \in Cache
<1>1. -2 \in Epoch
  BY UpdateAssumption DEF Epoch
<1>2. NoNodes \in [Node -> NodeState]
  BY DEF NoNodes, NodeState
<1>3. << >> \in Seq(Task)
  OBVIOUS
<1> QED BY <1>1, <1>2, <1>3 DEF Sleeping, Worker, NotReading, Reader, Uninitialed, Cache

LEMMA TypeInit == Init => TypeOK
<1> SUFFICES ASSUME Init PROVE TypeOK
  OBVIOUS
<1>1. -1 \in Epoch /\ -2 \in Epoch /\ 0 \in 0..MaxFaults
  BY UpdateAssumption DEF Epoch
<1>2. NoNodes \in [Node -> NodeState]
  BY DEF NoNodes, NodeState
<1>3. floyd \in Floyd
  BY <1>1, <1>2 DEF Init, Floyd
<1>4. << >> \in Seq(Task) /\ Len(<< >>) = 0
  OBVIOUS
<1>5. cache \in [Server -> Cache] /\ reader \in [Server -> Reader] /\ worker \in Worker
  BY SleepingType DEF Init
<1>6. deque \in Seq(Task) /\ Len(deque) <= MaxTasks + 1 /\ faults \in 0..MaxFaults
  BY <1>1, <1>4, UpdateAssumption DEF Init
<1>7. {stop, partial, behind} \subseteq BOOLEAN
  BY DEF Init
<1> QED BY <1>2, <1>3, <1>5, <1>6, <1>7 DEF Init, TypeOK

\* The leader's Refresh brings a cache.
LEMMA RefreshedType ==
  ASSUME TypeOK, NEW c \in Cache PROVE Refreshed(c) \in Cache
<1>1. floyd.epoch \in Epoch
  BY DEF TypeOK, Floyd
<1> QED BY <1>1, LoadedType DEF Refreshed

LEMMA TypeStep ==
  ASSUME TypeOK, EpochInv, PartitionOK, [Next]_vars
  PROVE  TypeOK'
<1> USE UpdateAssumption
<1>1. ASSUME NEW s \in Server, ReadVersion(s) PROVE TypeOK'
  <2>1. -2 \in Epoch /\ floyd.epoch \in Epoch
    BY DEF TypeOK, Floyd, Epoch
  <2>2. [pc |-> "list", epoch |-> floyd.epoch, stamp |-> -2] \in Reader
    BY <2>1 DEF Reader
  <2> QED BY <1>1, <2>2 DEF ReadVersion, TypeOK
<1>2. ASSUME NEW s \in Server, ReadList(s) PROVE TypeOK'
  <2>1. floyd.liststamp \in Epoch /\ reader[s] \in Reader /\ reader[s].epoch \in Epoch
    BY DEF TypeOK, Floyd, Reader
  <2>2. [reader[s] EXCEPT !.pc = "table", !.stamp = floyd.liststamp] \in Reader
    BY <2>1 DEF Reader
  <2>3. CASE floyd.listed
    <3>1. reader' = [reader EXCEPT ![s] = [reader[s] EXCEPT !.pc = "table",
                                             !.stamp = floyd.liststamp]]
      BY <1>2, <2>1, <2>3 DEF ReadList, TypeOK
    <3>2. reader' \in [Server -> Reader]
      BY <2>2, <3>1 DEF TypeOK
    <3> QED BY <1>2, <2>3, <3>2 DEF ReadList, TypeOK
  <2>4. CASE ~floyd.listed
    <3>1. cache' \in [Server -> Cache] /\ reader' \in [Server -> Reader]
      BY <1>2, <2>1, <2>4, LoadedType, SleepingType DEF ReadList, TypeOK
    <3> QED BY <1>2, <3>1 DEF ReadList, TypeOK
  <2> QED BY <2>3, <2>4
<1>3. ASSUME NEW s \in Server, ReadTable(s) PROVE TypeOK'
  <2>1. [epoch |-> reader[s].epoch, table |-> floyd.part,
         stamp |-> MinStamp(floyd.stamp, reader[s].stamp)] \in Cache
    BY DEF TypeOK, Floyd, Reader, Cache, MinStamp
  <2> QED BY <1>3, <2>1, SleepingType DEF ReadTable, TypeOK
<1>4. ASSUME NEW s \in Server, ReadFails(s) PROVE TypeOK'
  BY <1>4, SleepingType DEF ReadFails, TypeOK, Fault
<1>5. ASSUME NEW s \in Server, BecomeLeader(s) PROVE TypeOK'
  <2>1. cache' \in [Server -> Cache] /\ infos' \in [Node -> NodeState]
    BY <1>5, RefreshedType DEF BecomeLeader, TypeOK, Floyd
  <2>2. deque' \in Seq(Task) /\ Len(deque') <= MaxTasks + 1
    <3>1. [op |-> "SetState", state |-> "ACTIVE"] \in Task
      BY NodeAssumption DEF Task
    <3>2. deque' = << >> \/ deque' = << [op |-> "SetState", state |-> "ACTIVE"] >>
      BY <1>5 DEF BecomeLeader, ActiveAllPartition
    <3> DEFINE t == [op |-> "SetState", state |-> "ACTIVE"]
    <3> HIDE DEF t
    <3>3. /\ << >> \in Seq(Task) /\ Len(<< >>) = 0
          /\ << t >> \in Seq(Task) /\ Len(<< t >>) = 1
      BY <3>1 DEF t
    <3>4. deque' = << >> \/ deque' = << t >>
      BY <3>2 DEF t
    <3>5. deque' \in Seq(Task) /\ Len(deque') \in {0, 1}
      BY <3>3, <3>4, Zenon
    <3>6. MaxTasks \in Nat
      OBVIOUS
    <3>7. \A k \in {0, 1} : k <= MaxTasks + 1
      BY <3>6
    <3> QED BY <3>5, <3>7, Zenon
  <2> QED BY <1>5, <2>1, <2>2 DEF BecomeLeader, TypeOK
<1>6. ASSUME NEW s \in Server, Crash(s) PROVE TypeOK'
  <2>1. NoNodes \in [Node -> NodeState] /\ << >> \in Seq(Task) /\ Len(<< >>) = 0
    BY DEF NoNodes, NodeState
  <2>2. CASE s = leader
    BY <1>6, <2>1, <2>2, SleepingType DEF Crash, TypeOK, Fault
  <2>3. CASE s # leader
    BY <1>6, <2>3, SleepingType DEF Crash, TypeOK, Fault
  <2> QED BY <2>2, <2>3
<1>7. ASSUME NEW t \in Task, PendingUpdate(t) PROVE TypeOK'
  <2>1. worker.todo \in Seq(Task)
    BY DEF TypeOK, Worker
  <2>2. Len(deque) \in Nat /\ Len(worker.todo) \in Nat /\ Append(deque, t) \in Seq(Task)
        /\ Len(Append(deque, t)) = Len(deque) + 1
    BY <2>1 DEF TypeOK
  <2> QED BY <1>7, <2>2 DEF PendingUpdate, TypeOK
<1>8. ASSUME NEW n \in Node, UpdateNodeInfo(n) PROVE TypeOK'
  BY <1>8 DEF UpdateNodeInfo, TypeOK, NodeState
<1>9. CASE UpdateFunc
  <2>1. leader \in Server /\ cache[leader] \in Cache
    BY <1>9 DEF UpdateFunc, TypeOK
  <2>2. worker' \in Worker
    BY <1>9, <2>1, SleepingType DEF UpdateFunc, GetSnapshot, TypeOK, Cache, Worker
  <2> QED BY <1>9, <2>2 DEF UpdateFunc, TypeOK
<1>10. CASE ApplyTask
  BY <1>10, TaskFacts DEF ApplyTask, TypeOK, GoodSnap
<1>11. CASE DiscardTasks
  BY <1>11, SleepingType DEF DiscardTasks, TypeOK
<1>12. CASE RefreshTableWithNodeAlive
  BY <1>12, ElectFacts DEF RefreshTableWithNodeAlive, TypeOK, GoodSnap
<1>13. CASE ApplyWrite
  <2>1. floyd' \in Floyd
    BY <1>13, WrittenType DEF ApplyWrite
  <2>2. worker' \in Worker
    BY <1>13 DEF ApplyWrite, TypeOK, Worker, After
  <2> QED BY <1>13, <2>1, <2>2 DEF ApplyWrite, TypeOK
<1>14. CASE ApplyRefresh
  <2>1. leader \in Server
    BY <1>14 DEF ApplyRefresh, EpochInv, TypeOK
  <2>2. cache' \in [Server -> Cache]
    BY <1>14, <2>1, RefreshedType DEF ApplyRefresh, TypeOK
  <2>3. worker' \in Worker
    BY <1>14 DEF ApplyRefresh, TypeOK, Worker
  <2> QED BY <1>14, <2>2, <2>3 DEF ApplyRefresh, TypeOK
<1>15. CASE ApplyDone
  BY <1>15, SleepingType DEF ApplyDone, TypeOK, Floyd
<1>16. CASE ApplyFails
  <2>1. floyd' \in Floyd
    BY <1>16, WrittenType DEF ApplyFails, Applying, TypeOK
  <2>2. [worker EXCEPT !.pc = "table", !.stuck = TRUE] \in Worker
    BY DEF TypeOK, Worker
  <2>3. worker' \in Worker /\ partial' \in BOOLEAN
    BY <1>16, <2>2, SleepingType DEF ApplyFails, TypeOK
  <2>4. faults' \in 0..MaxFaults
    BY <1>16 DEF ApplyFails, TypeOK, Fault
  <2>5. {stop, behind} \subseteq BOOLEAN
    BY DEF TypeOK
  <2> QED BY <1>16, <2>1, <2>3, <2>4, <2>5 DEF ApplyFails, TypeOK
<1>17. CASE Abandon
  BY <1>17 DEF Abandon, TypeOK
<1>18. CASE Resign
  BY <1>18 DEF Resign, TypeOK, NoNodes, NodeState
<1>19. CASE UNCHANGED vars
  BY <1>19 DEF vars, TypeOK
<1> QED BY <1>1, <1>2, <1>3, <1>4, <1>5, <1>6, <1>7, <1>8, <1>9, <1>10, <1>11, <1>12,
           <1>13, <1>14, <1>15, <1>16, <1>17, <1>18, <1>19 DEF Next

-----------------------------------------------------------------------------
(* Every step keeps the epochs in order.                                    *)

LEMMA Ints ==
  ASSUME TypeOK
  PROVE  /\ floyd.epoch \in Int /\ floyd.stamp \in Int /\ floyd.liststamp \in Int
         /\ worker.epoch \in Int /\ floyd.listed \in BOOLEAN
         /\ worker.changed \in BOOLEAN /\ worker.nchanged \in BOOLEAN
         /\ \A s \in Server : /\ cache[s].epoch \in Int /\ cache[s].stamp \in Int
                              /\ cache[s].epoch >= -2
                              /\ reader[s].epoch \in Int /\ reader[s].stamp \in Int
  BY DEF TypeOK, Floyd, Worker, Cache, Reader, Epoch

LEMMA SleepingFields ==
  /\ Sleeping.pc = "idle" /\ Sleeping.todo = << >> /\ Sleeping.table = NoTable
  /\ Sleeping.changed = FALSE /\ NotReading.pc = "idle"
  /\ Uninitialed.epoch = -2 /\ Uninitialed.table = NoTable
  BY DEF Sleeping, NotReading, Uninitialed

LEMMA RefreshedFields ==
  ASSUME TypeOK, NEW c \in Cache
  PROVE  /\ Refreshed(c).epoch = floyd.epoch
         /\ floyd.epoch # c.epoch =>
              /\ Refreshed(c).table = Current
              /\ floyd.liststamp >= floyd.epoch /\ (floyd.listed => floyd.stamp >= floyd.epoch)
                 => Refreshed(c).stamp >= floyd.epoch
         /\ floyd.epoch = c.epoch => Refreshed(c) = c
<1> USE Ints
<1>1. CASE floyd.epoch = c.epoch
  BY <1>1 DEF Refreshed
<1>2. CASE floyd.epoch # c.epoch
  BY <1>2 DEF Refreshed, Loaded, Current, MinStamp
<1> QED BY <1>1, <1>2

LEMMA EpochInit == Init => EpochInv
  BY SleepingFields, UpdateAssumption DEF Init, EpochInv, Uninitialed, NotReading

LEMMA EpochStep ==
  ASSUME TypeOK, EpochInv, PartitionOK, [Next]_vars
  PROVE  EpochInv'
<1> USE Ints, SleepingFields
<1>1. ASSUME NEW s \in Server, ReadVersion(s) PROVE EpochInv'
  BY <1>1 DEF ReadVersion, EpochInv, TypeOK
<1>2. ASSUME NEW s \in Server, ReadList(s) PROVE EpochInv'
  <2>1. s # leader
    BY <1>2, UpdateAssumption DEF ReadList, EpochInv
  <2>2. CASE floyd.listed
    <3>1. \A x \in Server : reader'[x].epoch = reader[x].epoch
                            /\ (x # s => reader'[x].pc = reader[x].pc)
      BY <1>2, <2>2 DEF ReadList, TypeOK, Reader
    <3> QED BY <1>2, <2>1, <2>2, <3>1 DEF ReadList, EpochInv, TypeOK
  <2>3. CASE ~floyd.listed
    <3>1. Loaded(reader[s].epoch).epoch = reader[s].epoch
      BY DEF Loaded
    <3> QED BY <1>2, <2>1, <2>3, <3>1 DEF ReadList, EpochInv, TypeOK
  <2> QED BY <2>2, <2>3
<1>3. ASSUME NEW s \in Server, ReadTable(s) PROVE EpochInv'
  <2>1. s # leader
    BY <1>3, UpdateAssumption DEF ReadTable, EpochInv
  <2> QED BY <1>3, <2>1 DEF ReadTable, EpochInv, TypeOK
<1>4. ASSUME NEW s \in Server, ReadFails(s) PROVE EpochInv'
  BY <1>4 DEF ReadFails, EpochInv, TypeOK, Fault
<1>5. ASSUME NEW s \in Server, BecomeLeader(s) PROVE EpochInv'
  <2>1. cache'[s].epoch = floyd.epoch /\ \A x \in Server \ {s} : cache'[x] = cache[x]
    BY <1>5, RefreshedFields DEF BecomeLeader, TypeOK
  <2>2. worker.pc = "idle"
    BY <1>5 DEF BecomeLeader, EpochInv
  <2> QED BY <1>5, <2>1, <2>2 DEF BecomeLeader, EpochInv, TypeOK
<1>6. ASSUME NEW s \in Server, Crash(s) PROVE EpochInv'
  <2>1. CASE s = leader
    BY <1>6, <2>1 DEF Crash, EpochInv, TypeOK, Fault
  <2>2. CASE s # leader
    BY <1>6, <2>2 DEF Crash, EpochInv, TypeOK, Fault
  <2> QED BY <2>1, <2>2
<1>7. ASSUME NEW t \in Task, PendingUpdate(t) PROVE EpochInv'
  BY <1>7 DEF PendingUpdate, EpochInv
<1>8. ASSUME NEW n \in Node, UpdateNodeInfo(n) PROVE EpochInv'
  BY <1>8 DEF UpdateNodeInfo, EpochInv
<1>9. CASE UpdateFunc
  <2>1. leader \in Server
    BY <1>9 DEF UpdateFunc, TypeOK
  <2>2. worker'.pc = "tasks" /\ worker'.epoch = cache[leader].epoch /\ ~worker'.changed
    BY <1>9 DEF UpdateFunc, GetSnapshot, Sleeping
  <2> QED BY <1>9, <2>1, <2>2, UpdateAssumption, SMTT(30) DEF UpdateFunc, EpochInv
<1>10. CASE ApplyTask
  BY <1>10, TaskFacts DEF ApplyTask, EpochInv
<1>11. CASE DiscardTasks
  BY <1>11 DEF DiscardTasks, EpochInv
<1>12. CASE RefreshTableWithNodeAlive
  BY <1>12, ElectFacts DEF RefreshTableWithNodeAlive, EpochInv
<1>13. CASE ApplyWrite
  <2>1. leader \in Server
    BY <1>13 DEF ApplyWrite, EpochInv, TypeOK
  <2>2. /\ worker'.pc = After(worker.pc) /\ worker'.epoch = worker.epoch
        /\ worker'.changed = worker.changed /\ worker'.todo = worker.todo
        /\ worker'.pc # "idle"
    BY <1>13 DEF ApplyWrite, TypeOK, Worker, After
  <2>3. floyd'.epoch = IF worker.pc = "epoch" /\ worker.changed
                       THEN worker.epoch + 1 ELSE floyd.epoch
    BY <1>13, WrittenFields DEF ApplyWrite
  <2> QED BY <1>13, <2>1, <2>2, <2>3 DEF ApplyWrite, EpochInv, After
<1>14. CASE ApplyRefresh
  <2>1. leader \in Server
    BY <1>14 DEF ApplyRefresh, EpochInv, TypeOK
  <2>2. /\ worker'.pc = "infos" /\ worker'.epoch = worker.epoch
        /\ worker'.changed = worker.changed /\ worker'.todo = worker.todo
    BY <1>14 DEF ApplyRefresh, TypeOK, Worker
  <2>3. CASE worker.changed
    <3>1. cache'[leader].epoch = floyd.epoch /\ \A x \in Server \ {leader} : cache'[x] = cache[x]
      BY <1>14, <2>1, <2>3, RefreshedFields DEF ApplyRefresh, TypeOK
    <3> QED BY <1>14, <2>1, <2>2, <2>3, <3>1 DEF ApplyRefresh, EpochInv
  <2>4. CASE ~worker.changed
    BY <1>14, <2>1, <2>2, <2>4 DEF ApplyRefresh, EpochInv
  <2> QED BY <2>3, <2>4
<1>15. CASE ApplyDone
  BY <1>15 DEF ApplyDone, EpochInv, TypeOK
<1>16. CASE ApplyFails
  <2>1. leader \in Server
    BY <1>16 DEF ApplyFails, Applying, EpochInv, TypeOK
  <2>2. \/ floyd'.epoch = floyd.epoch
        \/ worker.pc = "epoch" /\ worker.changed /\ floyd'.epoch = worker.epoch + 1
    <3>1. floyd' = floyd \/ floyd' = Written
      BY <1>16 DEF ApplyFails
    <3> QED BY <3>1, WrittenFields
  <2>3. CASE worker' = [worker EXCEPT !.pc = "table", !.stuck = TRUE]
             /\ cache[leader].epoch = worker.epoch
    <3>1. /\ worker'.pc = "table" /\ worker'.epoch = worker.epoch
          /\ worker'.changed = worker.changed /\ worker'.todo = worker.todo
      BY <2>3 DEF TypeOK, Worker
    <3> QED BY <1>16, <2>1, <2>2, <2>3, <3>1 DEF ApplyFails, Applying, EpochInv
  <2>4. CASE worker' = Sleeping
    BY <1>16, <2>1, <2>2, <2>4 DEF ApplyFails, Applying, EpochInv
  <2> QED BY <1>16, <2>3, <2>4 DEF ApplyFails
<1>17. CASE Abandon
  BY <1>17 DEF Abandon, EpochInv
<1>18. CASE Resign
  BY <1>18 DEF Resign, EpochInv
<1>19. CASE UNCHANGED vars
  BY <1>19 DEF vars, EpochInv
<1> QED BY <1>1, <1>2, <1>3, <1>4, <1>5, <1>6, <1>7, <1>8, <1>9, <1>10, <1>11, <1>12,
           <1>13, <1>14, <1>15, <1>16, <1>17, <1>18, <1>19 DEF Next

-----------------------------------------------------------------------------
(* Every step keeps the partitions well-formed.                             *)

LEMMA PartitionInit == Init => PartitionOK
  BY SleepingFields DEF Init, PartitionOK

\* What a server loads is what is in floyd.
LEMMA LoadedFields ==
  ASSUME TypeOK, NEW e
  PROVE  /\ Loaded(e).epoch = e /\ Loaded(e).table = Current
         /\ Current = NoTable \/ Current = floyd.part
         /\ floyd.liststamp >= floyd.epoch /\ (floyd.listed => floyd.stamp >= floyd.epoch)
            => Loaded(e).stamp >= floyd.epoch
  BY Ints DEF Loaded, Current, MinStamp

LEMMA PartitionStep ==
  ASSUME TypeOK, EpochInv, PartitionOK, [Next]_vars
  PROVE  PartitionOK'
<1> USE SleepingFields
<1>1. ASSUME NEW s \in Server, ReadVersion(s) PROVE PartitionOK'
  BY <1>1 DEF ReadVersion, PartitionOK
<1>2. ASSUME NEW s \in Server, ReadList(s) PROVE PartitionOK'
  <2>1. \A x \in Server : cache'[x] = cache[x] \/ cache'[x].table \in {NoTable, floyd.part}
    BY <1>2, LoadedFields DEF ReadList, TypeOK
  <2> QED BY <1>2, <2>1 DEF ReadList, PartitionOK
<1>3. ASSUME NEW s \in Server, ReadTable(s) PROVE PartitionOK'
  <2>1. \A x \in Server : cache'[x] = cache[x] \/ cache'[x].table = floyd.part
    BY <1>3 DEF ReadTable, TypeOK
  <2> QED BY <1>3, <2>1 DEF ReadTable, PartitionOK
<1>4. ASSUME NEW s \in Server, ReadFails(s) PROVE PartitionOK'
  BY <1>4 DEF ReadFails, PartitionOK
<1>5. ASSUME NEW s \in Server, BecomeLeader(s) PROVE PartitionOK'
  <2>1. \A x \in Server : cache'[x] = cache[x] \/ cache'[x].table \in {NoTable, floyd.part}
    BY <1>5, LoadedFields DEF BecomeLeader, Refreshed, TypeOK
  <2> QED BY <1>5, <2>1 DEF BecomeLeader, PartitionOK
<1>6. ASSUME NEW s \in Server, Crash(s) PROVE PartitionOK'
  BY <1>6 DEF Crash, PartitionOK, TypeOK
<1>7. ASSUME NEW t \in Task, PendingUpdate(t) PROVE PartitionOK'
  BY <1>7 DEF PendingUpdate, PartitionOK
<1>8. ASSUME NEW n \in Node, UpdateNodeInfo(n) PROVE PartitionOK'
  BY <1>8 DEF UpdateNodeInfo, PartitionOK
<1>9. CASE UpdateFunc
  <2>1. leader \in Server
    BY <1>9 DEF UpdateFunc, TypeOK
  <2>2. worker'.table = cache[leader].table
    BY <1>9, SMTT(30) DEF UpdateFunc, GetSnapshot, Sleeping
  <2> QED BY <1>9, <2>1, <2>2 DEF UpdateFunc, PartitionOK
<1>10. CASE ApplyTask
  BY <1>10, TaskFacts DEF ApplyTask, PartitionOK, GoodSnap, Fine
<1>11. CASE DiscardTasks
  BY <1>11 DEF DiscardTasks, PartitionOK
<1>12. CASE RefreshTableWithNodeAlive
  BY <1>12, ElectFacts DEF RefreshTableWithNodeAlive, PartitionOK, GoodSnap, Fine
<1>13. CASE ApplyWrite
  <2>1. worker'.table = worker.table
    BY <1>13 DEF ApplyWrite, TypeOK, Worker
  <2>2. floyd'.part \in {floyd.part, worker.table}
    BY <1>13, WrittenFields DEF ApplyWrite
  <2> QED BY <1>13, <2>1, <2>2 DEF ApplyWrite, PartitionOK
<1>14. CASE ApplyRefresh
  <2>1. leader \in Server
    BY <1>14 DEF ApplyRefresh, EpochInv, TypeOK
  <2>2. worker'.table = worker.table
    BY <1>14 DEF ApplyRefresh, TypeOK, Worker
  <2>3. \A x \in Server : cache'[x] = cache[x] \/ cache'[x].table \in {NoTable, floyd.part}
    BY <1>14, <2>1, LoadedFields DEF ApplyRefresh, Refreshed, TypeOK
  <2> QED BY <1>14, <2>2, <2>3 DEF ApplyRefresh, PartitionOK
<1>15. CASE ApplyDone
  BY <1>15 DEF ApplyDone, PartitionOK
<1>16. CASE ApplyFails
  <2>1. worker'.table \in {worker.table, NoTable}
    BY <1>16 DEF ApplyFails, TypeOK, Worker
  <2>2. floyd' = floyd \/ floyd' = Written
    BY <1>16 DEF ApplyFails
  <2>3. floyd'.part \in {floyd.part, worker.table}
    BY <2>2, WrittenFields
  <2> QED BY <1>16, <2>1, <2>3 DEF ApplyFails, PartitionOK
<1>17. CASE Abandon
  BY <1>17 DEF Abandon, PartitionOK
<1>18. CASE Resign
  BY <1>18 DEF Resign, PartitionOK
<1>19. CASE UNCHANGED vars
  BY <1>19 DEF vars, PartitionOK
<1> QED BY <1>1, <1>2, <1>3, <1>4, <1>5, <1>6, <1>7, <1>8, <1>9, <1>10, <1>11, <1>12,
           <1>13, <1>14, <1>15, <1>16, <1>17, <1>18, <1>19 DEF Next

-----------------------------------------------------------------------------
(* Every step keeps the stamps: what is published is not older than its     *)
(* epoch.                                                                   *)

LEMMA StampInit == Init => StampInv
<1> SUFFICES ASSUME Init PROVE StampInv
  OBVIOUS
<1>1. /\ floyd.epoch = -1 /\ floyd.liststamp = -1 /\ floyd.listed = FALSE
      /\ worker.pc = "idle"
      /\ \A s \in Server : cache[s].epoch = -2 /\ reader[s].pc = "idle"
  BY SleepingFields DEF Init
<1> QED BY <1>1 DEF StampInv, CacheNotOlder

LEMMA StampStep ==
  ASSUME TypeOK, EpochInv, PartitionOK, StampInv, [Next]_vars
  PROVE  StampInv'
<1> USE Ints, SleepingFields
<1>1. ASSUME NEW s \in Server, ReadVersion(s) PROVE StampInv'
  BY <1>1 DEF ReadVersion, StampInv, CacheNotOlder, TypeOK
<1>2. ASSUME NEW s \in Server, ReadList(s) PROVE StampInv'
  <2>0. reader[s].epoch <= floyd.epoch
    BY <1>2 DEF ReadList, EpochInv
  <2>1. CASE floyd.listed
    <3>1. /\ reader'[s].pc = "table" /\ reader'[s].epoch = reader[s].epoch
          /\ reader'[s].stamp = floyd.liststamp
          /\ \A x \in Server \ {s} : reader'[x] = reader[x]
          /\ UNCHANGED <<floyd, cache, worker>>
      BY <1>2, <2>1 DEF ReadList, TypeOK, Reader
    <3>2. ASSUME NEW x \in Server, reader'[x].pc = "table"
          PROVE  floyd.stamp >= reader'[x].epoch /\ reader'[x].stamp >= reader'[x].epoch
      <4>1. CASE x = s
        BY <2>0, <2>1, <3>1, <4>1 DEF StampInv
      <4>2. CASE x # s
        BY <3>1, <3>2, <4>2 DEF StampInv
      <4> QED BY <4>1, <4>2
    <3> QED BY <3>1, <3>2 DEF StampInv, CacheNotOlder
  <2>2. CASE ~floyd.listed
    <3>1. /\ cache'[s].epoch = reader[s].epoch /\ cache'[s].stamp >= floyd.epoch
          /\ cache'[s].stamp \in Int
          /\ \A x \in Server \ {s} : cache'[x] = cache[x] /\ reader'[x] = reader[x]
          /\ reader'[s].pc = "idle"
          /\ UNCHANGED <<floyd, worker>>
      BY <1>2, <2>2, LoadedFields DEF ReadList, TypeOK, StampInv, Loaded
    <3> QED BY <2>0, <3>1, SMTT(30) DEF StampInv, CacheNotOlder
  <2> QED BY <2>1, <2>2
<1>3. ASSUME NEW s \in Server, ReadTable(s) PROVE StampInv'
  <2>1. /\ cache'[s].epoch = reader[s].epoch /\ cache'[s].stamp >= reader[s].epoch
        /\ \A x \in Server \ {s} : cache'[x] = cache[x] /\ reader'[x] = reader[x]
        /\ reader'[s].pc = "idle"
    BY <1>3 DEF ReadTable, TypeOK, StampInv, MinStamp
  <2> QED BY <1>3, <2>1 DEF ReadTable, StampInv, CacheNotOlder
<1>4. ASSUME NEW s \in Server, ReadFails(s) PROVE StampInv'
  BY <1>4 DEF ReadFails, StampInv, CacheNotOlder, TypeOK
<1>5. ASSUME NEW s \in Server, BecomeLeader(s) PROVE StampInv'
  <2>1. /\ \A x \in Server \ {s} : cache'[x] = cache[x]
        /\ cache'[s].epoch > -2 => cache'[s].stamp >= cache'[s].epoch
    BY <1>5, RefreshedFields DEF BecomeLeader, TypeOK, StampInv, CacheNotOlder
  <2> QED BY <1>5, <2>1 DEF BecomeLeader, StampInv, CacheNotOlder
<1>6. ASSUME NEW s \in Server, Crash(s) PROVE StampInv'
  BY <1>6 DEF Crash, StampInv, CacheNotOlder, TypeOK
<1>7. ASSUME NEW t \in Task, PendingUpdate(t) PROVE StampInv'
  BY <1>7 DEF PendingUpdate, StampInv, CacheNotOlder
<1>8. ASSUME NEW n \in Node, UpdateNodeInfo(n) PROVE StampInv'
  BY <1>8 DEF UpdateNodeInfo, StampInv, CacheNotOlder
<1>9. CASE UpdateFunc
  <2>1. worker'.pc = "tasks"
    BY <1>9, SMTT(30) DEF UpdateFunc, GetSnapshot, Sleeping
  <2> QED BY <1>9, <2>1 DEF UpdateFunc, StampInv, CacheNotOlder
<1>10. CASE ApplyTask
  BY <1>10, TaskFacts DEF ApplyTask, StampInv, CacheNotOlder
<1>11. CASE DiscardTasks
  BY <1>11 DEF DiscardTasks, StampInv, CacheNotOlder
<1>12. CASE RefreshTableWithNodeAlive
  BY <1>12, ElectFacts DEF RefreshTableWithNodeAlive, StampInv, CacheNotOlder
<1>13. CASE ApplyWrite
  <2>1. /\ worker'.pc = After(worker.pc) /\ worker'.epoch = worker.epoch
        /\ worker'.changed = worker.changed /\ worker'.table = worker.table
    BY <1>13 DEF ApplyWrite, TypeOK, Worker
  <2>2. floyd' = Written
    BY <1>13 DEF ApplyWrite
  <2>3. floyd.epoch <= worker.epoch + 1
    BY <1>13 DEF ApplyWrite, EpochInv
  <2>4. \A s \in Server : reader[s].pc = "table" => reader[s].epoch <= worker.epoch + 1
    BY <2>3 DEF EpochInv
  <2>5. CASE worker.pc = "table"
    BY <1>13, <2>1, <2>2, <2>3, <2>4, <2>5, WrittenFields
       DEF ApplyWrite, StampInv, CacheNotOlder, After
  <2>6. CASE worker.pc = "list"
    BY <1>13, <2>1, <2>2, <2>3, <2>4, <2>6, WrittenFields
       DEF ApplyWrite, StampInv, CacheNotOlder, After
  <2>7. CASE worker.pc = "nodes"
    BY <1>13, <2>1, <2>2, <2>7, WrittenFields
       DEF ApplyWrite, StampInv, CacheNotOlder, After
  <2>8. CASE worker.pc = "epoch"
    BY <1>13, <2>1, <2>2, <2>8, WrittenFields
       DEF ApplyWrite, StampInv, CacheNotOlder, After
  <2> QED BY <1>13, <2>5, <2>6, <2>7, <2>8 DEF ApplyWrite
<1>14. CASE ApplyRefresh
  <2>1. leader \in Server
    BY <1>14 DEF ApplyRefresh, EpochInv, TypeOK
  <2>2. worker'.pc = "infos"
    BY <1>14 DEF ApplyRefresh, TypeOK, Worker
  <2>3. \A x \in Server : cache'[x].epoch > -2 => cache'[x].stamp >= cache'[x].epoch
    <3>1. CASE worker.changed
      <4>1. \A x \in Server : cache'[x] = IF x = leader THEN Refreshed(cache[leader])
                                          ELSE cache[x]
        BY <1>14, <2>1, <3>1 DEF ApplyRefresh, TypeOK
      <4>2. cache[leader] \in Cache
        BY <2>1 DEF TypeOK
      <4>3. Refreshed(cache[leader]).epoch > -2
            => Refreshed(cache[leader]).stamp >= Refreshed(cache[leader]).epoch
        BY <2>1, <4>2, RefreshedFields DEF StampInv, CacheNotOlder
      <4> QED BY <4>1, <4>3 DEF StampInv, CacheNotOlder
    <3>2. CASE ~worker.changed
      BY <1>14, <3>2 DEF ApplyRefresh, StampInv, CacheNotOlder
    <3> QED BY <3>1, <3>2
  <2> QED BY <1>14, <2>2, <2>3 DEF ApplyRefresh, StampInv, CacheNotOlder
<1>15. CASE ApplyDone
  BY <1>15 DEF ApplyDone, StampInv, CacheNotOlder
<1>16. CASE ApplyFails
  <2>1. worker'.pc \in {"table", "idle"}
    BY <1>16 DEF ApplyFails, TypeOK, Worker
  <2>2. floyd' = floyd \/ floyd' = Written
    BY <1>16 DEF ApplyFails
  <2>3. floyd.epoch <= worker.epoch + 1
    BY <1>16 DEF ApplyFails, Applying, EpochInv
  <2>4. \A s \in Server : reader[s].pc = "table" => reader[s].epoch <= worker.epoch + 1
    BY <2>3 DEF EpochInv
  <2>5. CASE floyd' = floyd
    BY <1>16, <2>1, <2>5 DEF ApplyFails, StampInv, CacheNotOlder
  <2>6. CASE floyd' = Written
    BY <1>16, <2>1, <2>3, <2>4, <2>6, WrittenFields DEF ApplyFails, StampInv, CacheNotOlder
  <2> QED BY <2>2, <2>5, <2>6
<1>17. CASE Abandon
  BY <1>17 DEF Abandon, StampInv, CacheNotOlder
<1>18. CASE Resign
  BY <1>18 DEF Resign, StampInv, CacheNotOlder
<1>19. CASE UNCHANGED vars
  BY <1>19 DEF vars, StampInv, CacheNotOlder
<1> QED BY <1>1, <1>2, <1>3, <1>4, <1>5, <1>6, <1>7, <1>8, <1>9, <1>10, <1>11, <1>12,
           <1>13, <1>14, <1>15, <1>16, <1>17, <1>18, <1>19 DEF Next

-----------------------------------------------------------------------------
(* Every step keeps the caches and the snapshot in step with floyd.         *)

LEMMA StepInit == Init => StepInv
<1> SUFFICES ASSUME Init PROVE StepInv
  OBVIOUS
<1>1. /\ floyd.epoch = -1 /\ leader = NoServer /\ worker.pc = "idle"
      /\ \A s \in Server : cache[s].epoch = -2 /\ reader[s].pc = "idle"
  BY SleepingFields DEF Init
<1> QED BY <1>1 DEF StepInv, Applying

LEMMA StepStep ==
  ASSUME TypeOK, EpochInv, PartitionOK, StepInv, [Next]_vars
  PROVE  StepInv'
<1> USE Ints, SleepingFields
<1>0. partial => partial'
  BY DEF Next, ReadVersion, ReadList, ReadTable, ReadFails, BecomeLeader, Crash, PendingUpdate,
         UpdateNodeInfo, UpdateFunc, ApplyTask, DiscardTasks, RefreshTableWithNodeAlive,
         ApplyWrite, ApplyRefresh, ApplyDone, ApplyFails, Abandon, Resign, vars
<1> SUFFICES ASSUME ~partial, ~partial' PROVE StepInv'
  BY <1>0 DEF StepInv
<1>1. ASSUME NEW s \in Server, ReadVersion(s) PROVE StepInv'
  BY <1>1 DEF ReadVersion, StepInv, Unpublished, Applying, Current, TypeOK
<1>2. ASSUME NEW s \in Server, ReadList(s) PROVE StepInv'
  <2>1. /\ s # leader /\ UNCHANGED <<floyd, worker, leader>>
        /\ leader # NoServer => leader \in Server \ {s}
        /\ worker.pc # "idle" => leader # NoServer
    BY <1>2, UpdateAssumption DEF ReadList, EpochInv, TypeOK
  <2>2. CASE floyd.listed
    <3>1. /\ reader'[s].pc = "table" /\ reader'[s].epoch = reader[s].epoch
          /\ \A x \in Server \ {s} : reader'[x] = reader[x]
          /\ UNCHANGED cache
      BY <1>2, <2>2 DEF ReadList, TypeOK, Reader
    <3> QED BY <2>1, <2>2, <3>1 DEF StepInv, Unpublished, Applying, Current
  <2>3. CASE ~floyd.listed
    <3>1. /\ cache'[s].epoch = reader[s].epoch /\ cache'[s].table = Current
          /\ \A x \in Server \ {s} : cache'[x] = cache[x] /\ reader'[x] = reader[x]
          /\ reader'[s].pc = "idle"
      BY <1>2, <2>3, LoadedFields DEF ReadList, TypeOK
    <3> QED BY <2>1, <3>1 DEF StepInv, Unpublished, Applying, Current
  <2> QED BY <2>2, <2>3
<1>3. ASSUME NEW s \in Server, ReadTable(s) PROVE StepInv'
  <2>1. /\ s # leader /\ UNCHANGED <<floyd, worker, leader>>
        /\ leader # NoServer => leader \in Server \ {s}
        /\ worker.pc # "idle" => leader # NoServer
    BY <1>3, UpdateAssumption DEF ReadTable, EpochInv, TypeOK
  <2>2. /\ cache'[s].epoch = reader[s].epoch /\ cache'[s].table = floyd.part
        /\ \A x \in Server \ {s} : cache'[x] = cache[x] /\ reader'[x] = reader[x]
        /\ reader'[s].pc = "idle" /\ reader[s].pc = "table"
    BY <1>3 DEF ReadTable, TypeOK
  <2> QED BY <2>1, <2>2 DEF StepInv, Unpublished, Applying, Current
<1>4. ASSUME NEW s \in Server, ReadFails(s) PROVE StepInv'
  <2>1. \A x \in Server : reader'[x] = reader[x] \/ reader'[x].pc = "idle"
    BY <1>4 DEF ReadFails, TypeOK
  <2> QED BY <1>4, <2>1 DEF ReadFails, StepInv, Unpublished, Applying, Current
<1>5. ASSUME NEW s \in Server, BecomeLeader(s) PROVE StepInv'
  <2>1. /\ \A x \in Server \ {s} : cache'[x] = cache[x]
        /\ cache'[s].epoch = floyd.epoch
        /\ cache'[s] = cache[s] \/ cache'[s].table = Current
    BY <1>5, RefreshedFields DEF BecomeLeader, TypeOK
  <2>2. worker.pc = "idle" /\ leader' = s /\ UNCHANGED <<floyd, worker, reader>>
    BY <1>5 DEF BecomeLeader, EpochInv
  <2> QED BY <2>1, <2>2 DEF StepInv, Unpublished, Applying, Current
<1>6. ASSUME NEW s \in Server, Crash(s) PROVE StepInv'
  <2>1. /\ cache'[s].epoch = -2 /\ reader'[s].pc = "idle" /\ UNCHANGED floyd
        /\ \A x \in Server \ {s} : cache'[x] = cache[x] /\ reader'[x] = reader[x]
    BY <1>6 DEF Crash, TypeOK
  <2>2. floyd.epoch # -2
    BY DEF EpochInv
  <2>3. CASE s = leader
    <3>1. worker'.pc = "idle" /\ leader' = NoServer /\ ~Applying
      BY <1>6, <2>3 DEF Crash
    <3> QED BY <2>1, <2>2, <3>1 DEF StepInv, Unpublished, Applying, Current
  <2>4. CASE s # leader
    <3>1. UNCHANGED <<worker, leader>>
      BY <1>6, <2>4 DEF Crash
    <3>2. leader # NoServer => leader \in Server \ {s}
      BY <2>4 DEF TypeOK
    <3>3. worker.pc # "idle" => leader # NoServer
      BY DEF EpochInv
    <3> QED BY <2>1, <2>2, <3>1, <3>2, <3>3 DEF StepInv, Unpublished, Applying, Current
  <2> QED BY <2>3, <2>4
<1>7. ASSUME NEW t \in Task, PendingUpdate(t) PROVE StepInv'
  BY <1>7 DEF PendingUpdate, StepInv, Unpublished, Applying, Current
<1>8. ASSUME NEW n \in Node, UpdateNodeInfo(n) PROVE StepInv'
  BY <1>8 DEF UpdateNodeInfo, StepInv, Unpublished, Applying, Current
<1>9. CASE UpdateFunc
  <2>1. leader \in Server
    BY <1>9 DEF UpdateFunc, TypeOK
  <2>2. worker'.pc = "tasks" /\ worker'.table = cache[leader].table /\ ~worker'.changed
    BY <1>9 DEF UpdateFunc, GetSnapshot, Sleeping
  <2>3. cache[leader].table = Current
    BY <1>9, <2>1 DEF UpdateFunc, StepInv, Unpublished, Applying
  <2> QED BY <1>9, <2>1, <2>2, <2>3 DEF UpdateFunc, StepInv, Unpublished, Applying, Current
<1>10. CASE ApplyTask
  <2>1. worker.pc = "tasks" /\ UNCHANGED <<floyd, cache, reader, leader>>
    BY <1>10 DEF ApplyTask
  <2> QED BY <1>10, <2>1, TaskFacts DEF StepInv, Unpublished, Applying, Current
<1>11. CASE DiscardTasks
  BY <1>11 DEF DiscardTasks, StepInv, Unpublished, Applying, Current
<1>12. CASE RefreshTableWithNodeAlive
  <2>1. worker.pc = "tasks" /\ UNCHANGED <<floyd, cache, reader, leader>>
    BY <1>12 DEF RefreshTableWithNodeAlive
  <2>2. floyd.epoch = worker.epoch
    BY <2>1 DEF StepInv, Applying, EpochInv
  <2> QED BY <1>12, <2>1, <2>2, ElectFacts DEF StepInv, Unpublished, Applying, Current
<1>13. CASE ApplyWrite
  <2>1. /\ worker'.pc = After(worker.pc) /\ worker'.epoch = worker.epoch
        /\ worker'.changed = worker.changed /\ worker'.table = worker.table
    BY <1>13 DEF ApplyWrite, TypeOK, Worker
  <2>2. floyd' = Written /\ UNCHANGED <<cache, reader, leader>>
    BY <1>13 DEF ApplyWrite
  <2>3. \A s \in Server :
          /\ cache[s].epoch <= floyd.epoch
          /\ reader[s].pc = "table" => reader[s].epoch <= floyd.epoch
    BY DEF EpochInv
  <2>4. floyd.epoch = worker.epoch \/ floyd.epoch = worker.epoch + 1
    BY <1>13 DEF ApplyWrite, EpochInv
  <2>5. CASE worker.pc = "table"
    BY <2>1, <2>2, <2>4, <2>5, WrittenFields DEF StepInv, Unpublished, Applying, Current, After
  <2>6. CASE worker.pc = "list"
    BY <2>1, <2>2, <2>4, <2>6, WrittenFields DEF StepInv, Unpublished, Applying, Current, After
  <2>7. CASE worker.pc = "nodes"
    BY <2>1, <2>2, <2>4, <2>7, WrittenFields DEF StepInv, Unpublished, Applying, Current, After
  <2>8. CASE worker.pc = "epoch"
    BY <2>1, <2>2, <2>3, <2>4, <2>8, WrittenFields
       DEF StepInv, Unpublished, Applying, Current, After
  <2> QED BY <1>13, <2>5, <2>6, <2>7, <2>8 DEF ApplyWrite
<1>14. CASE ApplyRefresh
  <2>1. leader \in Server /\ worker.pc = "refresh" /\ UNCHANGED <<floyd, reader, leader>>
    BY <1>14 DEF ApplyRefresh, EpochInv, TypeOK
  <2>2. /\ worker'.pc = "infos" /\ worker'.epoch = worker.epoch
        /\ worker'.changed = worker.changed /\ worker'.table = worker.table
    BY <1>14 DEF ApplyRefresh, TypeOK, Worker
  <2>3. worker.epoch = cache[leader].epoch /\ (worker.changed => floyd.epoch = worker.epoch + 1)
    BY <2>1 DEF EpochInv
  <2>4. CASE worker.changed
    <3>1. /\ \A x \in Server \ {leader} : cache'[x] = cache[x]
          /\ cache'[leader].epoch = floyd.epoch
          /\ cache'[leader] = cache[leader] \/ cache'[leader].table = Current
      BY <1>14, <2>1, <2>4, RefreshedFields DEF ApplyRefresh, TypeOK
    <3> QED BY <2>1, <2>2, <2>3, <2>4, <3>1 DEF StepInv, Unpublished, Applying, Current
  <2>5. CASE ~worker.changed
    <3>1. cache' = cache
      BY <1>14, <2>5 DEF ApplyRefresh
    <3> QED BY <2>1, <2>2, <2>3, <2>5, <3>1 DEF StepInv, Unpublished, Applying, Current
  <2> QED BY <2>4, <2>5
<1>15. CASE ApplyDone
  <2>1. worker.pc = "infos" /\ worker'.pc = "idle" /\ UNCHANGED <<floyd, cache, reader, leader>>
    BY <1>15 DEF ApplyDone
  <2>2. ~Unpublished
    BY <2>1 DEF Unpublished, EpochInv
  <2> QED BY <2>1, <2>2 DEF StepInv, Unpublished, Applying, Current
<1>16. CASE ApplyFails
  <2>1. /\ worker' = [worker EXCEPT !.pc = "table", !.stuck = TRUE]
        /\ cache[leader].epoch = worker.epoch /\ Applying
        /\ UNCHANGED <<cache, reader, leader>>
    BY <1>16 DEF ApplyFails
  <2>2. /\ worker'.pc = "table" /\ worker'.epoch = worker.epoch
        /\ worker'.changed = worker.changed /\ worker'.table = worker.table
    BY <2>1 DEF TypeOK, Worker
  <2>3. floyd' = floyd \/ floyd' = Written
    BY <1>16 DEF ApplyFails
  <2>4. \A s \in Server :
          /\ cache[s].epoch <= floyd.epoch
          /\ reader[s].pc = "table" => reader[s].epoch <= floyd.epoch
    BY DEF EpochInv
  <2>5. floyd.epoch = worker.epoch \/ floyd.epoch = worker.epoch + 1
    BY <2>1 DEF Applying, EpochInv
  <2>6. CASE floyd' = floyd
    BY <2>1, <2>2, <2>5, <2>6 DEF StepInv, Unpublished, Applying, Current
  <2>7. CASE floyd' = Written
    BY <2>1, <2>2, <2>4, <2>5, <2>7, WrittenFields DEF StepInv, Unpublished, Applying, Current
  <2> QED BY <2>3, <2>6, <2>7
<1>17. CASE Abandon
  BY <1>17 DEF Abandon, StepInv, Unpublished, Applying, Current
<1>18. CASE Resign
  BY <1>18 DEF Resign, StepInv, Unpublished, Applying, Current
<1>19. CASE UNCHANGED vars
  BY <1>19 DEF vars, StepInv, Unpublished, Applying, Current
<1> QED BY <1>1, <1>2, <1>3, <1>4, <1>5, <1>6, <1>7, <1>8, <1>9, <1>10, <1>11, <1>12,
           <1>13, <1>14, <1>15, <1>16, <1>17, <1>18, <1>19, SMTT(30) DEF Next

-----------------------------------------------------------------------------
(* Every step keeps the nodes in step, and the elected masters.             *)

LEMMA NodesStep ==
  ASSUME TypeOK, EpochInv, PartitionOK, NodesInv, [Next]_vars
  PROVE  NodesInv'
<1> USE SleepingFields
<1>0. partial => partial'
  BY DEF Next, ReadVersion, ReadList, ReadTable, ReadFails, BecomeLeader, Crash, PendingUpdate,
         UpdateNodeInfo, UpdateFunc, ApplyTask, DiscardTasks, RefreshTableWithNodeAlive,
         ApplyWrite, ApplyRefresh, ApplyDone, ApplyFails, Abandon, Resign, vars
<1> SUFFICES ASSUME ~partial, ~partial', leader' # NoServer PROVE NodesInv'
  BY <1>0 DEF NodesInv
<1>1. ASSUME NEW s \in Server,
             ReadVersion(s) \/ ReadList(s) \/ ReadTable(s) \/ ReadFails(s)
      PROVE  NodesInv'
  <2>1. UNCHANGED <<floyd, worker, leader, infos>>
    BY <1>1 DEF ReadVersion, ReadList, ReadTable, ReadFails
  <2> QED BY <2>1 DEF NodesInv, Applying, UpIn
<1>2. ASSUME NEW s \in Server, BecomeLeader(s) PROVE NodesInv'
  <2>1. worker.pc = "idle" /\ infos' = floyd.nodes /\ UNCHANGED <<floyd, worker>>
    BY <1>2 DEF BecomeLeader, EpochInv
  <2> QED BY <2>1 DEF NodesInv, Applying, UpIn
<1>3. ASSUME NEW s \in Server, Crash(s) PROVE NodesInv'
  BY <1>3 DEF Crash, NodesInv, Applying, UpIn
<1>4. ASSUME NEW t \in Task, PendingUpdate(t) PROVE NodesInv'
  BY <1>4 DEF PendingUpdate, NodesInv, Applying, UpIn
<1>5. ASSUME NEW n \in Node, UpdateNodeInfo(n) PROVE NodesInv'
  <2>1. UpIn(infos') = UpIn(infos) /\ UNCHANGED <<floyd, worker, leader>>
    BY <1>5 DEF UpdateNodeInfo, UpIn, TypeOK
  <2> HIDE DEF UpIn
  <2> QED BY <2>1 DEF NodesInv, Applying
<1>6. CASE UpdateFunc
  <2>1. /\ worker.pc = "idle" /\ worker'.pc = "tasks" /\ worker'.nodes = infos
        /\ UNCHANGED <<floyd, leader, infos>>
    BY <1>6 DEF UpdateFunc, GetSnapshot, Sleeping
  <2> QED BY <2>1 DEF NodesInv, Applying
<1>7. CASE ApplyTask
  <2>1. worker.pc = "tasks" /\ UNCHANGED <<floyd, leader, infos>>
    BY <1>7 DEF ApplyTask
  <2> QED BY <1>7, <2>1, TaskFacts DEF NodesInv, Applying
<1>8. CASE DiscardTasks
  BY <1>8 DEF DiscardTasks, NodesInv, Applying
<1>9. CASE RefreshTableWithNodeAlive
  <2>1. worker.pc = "tasks" /\ UNCHANGED <<floyd, leader, infos>>
    BY <1>9 DEF RefreshTableWithNodeAlive
  <2> QED BY <1>9, <2>1, ElectFacts DEF NodesInv, Applying
<1>10. CASE ApplyWrite
  <2>1. /\ worker'.pc = After(worker.pc) /\ worker'.nodes = worker.nodes
        /\ worker'.nchanged = worker.nchanged
        /\ worker.pc \in {"table", "list", "nodes", "epoch"}
        /\ UNCHANGED <<leader, infos>>
    BY <1>10 DEF ApplyWrite, TypeOK, Worker
  <2>2. floyd'.nodes = IF worker.pc = "nodes" /\ worker.nchanged
                       THEN worker.nodes ELSE floyd.nodes
    BY <1>10, WrittenFields DEF ApplyWrite
  <2> QED BY <2>1, <2>2 DEF NodesInv, Applying, After
<1>11. CASE ApplyRefresh
  <2>1. /\ worker.pc = "refresh" /\ worker'.pc = "infos" /\ worker'.nodes = worker.nodes
        /\ worker'.nchanged = worker.nchanged
        /\ UNCHANGED <<floyd, leader, infos>>
    BY <1>11 DEF ApplyRefresh, TypeOK, Worker
  <2> QED BY <2>1 DEF NodesInv, Applying
<1>12. CASE ApplyDone
  <2>1. /\ worker.pc = "infos" /\ worker'.pc = "idle" /\ UNCHANGED <<floyd, leader>>
        /\ infos' = IF worker.nchanged THEN floyd.nodes ELSE infos
    BY <1>12 DEF ApplyDone
  <2> QED BY <2>1 DEF NodesInv, Applying
<1>13. CASE ApplyFails
  <2>1. /\ worker' = [worker EXCEPT !.pc = "table", !.stuck = TRUE]
        /\ Applying /\ UNCHANGED <<leader, infos>>
    BY <1>13 DEF ApplyFails
  <2>2. /\ worker'.pc = "table" /\ worker'.nodes = worker.nodes
        /\ worker'.nchanged = worker.nchanged
    BY <2>1 DEF TypeOK, Worker
  <2>3. floyd' = floyd \/ floyd' = Written
    BY <1>13 DEF ApplyFails
  <2>4. worker.nchanged \/ floyd'.nodes = floyd.nodes
    BY <2>3, WrittenFields
  <2> QED BY <2>1, <2>2, <2>4 DEF NodesInv, Applying
<1>14. CASE Abandon
  BY <1>14 DEF Abandon, NodesInv, Applying
<1>15. CASE Resign
  BY <1>15 DEF Resign
<1>16. CASE UNCHANGED vars
  BY <1>16 DEF vars, NodesInv, Applying
<1> QED BY <1>1, <1>2, <1>3, <1>4, <1>5, <1>6, <1>7, <1>8, <1>9, <1>10, <1>11, <1>12,
           <1>13, <1>14, <1>15, <1>16, SMTT(30) DEF Next

\* At the end of an Apply that was not cut off, floyd has the table that the
\* election left and the nodes it went by.
LEMMA DoneSettled ==
  ASSUME TypeOK, EpochInv, StampInv, StepInv, NodesInv, ElectedInv,
         worker.pc = "infos", ~partial, floyd.listed
  PROVE  Settled(floyd.part, UpIn(floyd.nodes))
<1> USE Ints
<1>1. leader # NoServer /\ Applying
  BY DEF EpochInv, Applying
<1>2. floyd.part = worker.table /\ worker.table # NoTable
  <2>1. CASE worker.changed
    <3>1. floyd.epoch = worker.epoch + 1
      BY <2>1 DEF EpochInv
    <3> QED BY <1>1, <2>1, <3>1 DEF StepInv
  <2>2. CASE ~worker.changed
    BY <1>1, <2>2 DEF StepInv, StampInv, Current
  <2> QED BY <2>1, <2>2
<1>3. UpIn(floyd.nodes) = UpIn(worker.nodes)
  BY <1>1 DEF NodesInv
<1> QED BY <1>1, <1>2, <1>3 DEF ElectedInv

LEMMA ElectedStep ==
  ASSUME TypeOK, EpochInv, PartitionOK, StampInv, StepInv, NodesInv, ElectedInv, [Next]_vars
  PROVE  ElectedInv'
<1> USE SleepingFields
<1>0. ElectedInv <=>
        /\ Applying /\ worker.table # NoTable => Settled(worker.table, UpIn(worker.nodes))
        /\ floyd.listed /\ ~Applying /\ ~partial => Settled(floyd.part, UpIn(floyd.nodes))
  BY DEF ElectedInv, MasterUp, Settled
<1>1. ASSUME UNCHANGED <<floyd, worker, partial>> PROVE ElectedInv'
  BY <1>1 DEF ElectedInv, MasterUp, Applying, Settled, UpIn
<1>2. ASSUME UNCHANGED <<floyd, partial>>, ~Applying, ~Applying' PROVE ElectedInv'
  BY <1>2 DEF ElectedInv, MasterUp, Settled, UpIn
<1>3. ASSUME NEW s \in Server,
             \/ ReadVersion(s) \/ ReadList(s) \/ ReadTable(s) \/ ReadFails(s)
             \/ BecomeLeader(s)
      PROVE  ElectedInv'
  BY <1>1, <1>3 DEF ReadVersion, ReadList, ReadTable, ReadFails, BecomeLeader
<1>4. ASSUME NEW s \in Server, Crash(s) PROVE ElectedInv'
  <2>1. CASE s = leader
    <3>1. worker'.pc = "idle" /\ floyd' = floyd /\ partial' = (partial \/ Applying)
      BY <1>4, <2>1 DEF Crash
    <3> QED BY <3>1 DEF ElectedInv, MasterUp, Applying, UpIn
  <2>2. CASE s # leader
    BY <1>1, <1>4, <2>2 DEF Crash
  <2> QED BY <2>1, <2>2
<1>5. ASSUME NEW t \in Task, PendingUpdate(t) PROVE ElectedInv'
  BY <1>1, <1>5 DEF PendingUpdate
<1>6. ASSUME NEW n \in Node, UpdateNodeInfo(n) PROVE ElectedInv'
  BY <1>1, <1>6 DEF UpdateNodeInfo
<1>7. CASE UpdateFunc
  <2>1. worker'.pc = "tasks"
    BY <1>7 DEF UpdateFunc, GetSnapshot, Sleeping
  <2> QED BY <1>2, <1>7, <2>1 DEF UpdateFunc, Applying
<1>8. CASE ApplyTask
  <2>1. worker'.pc = "tasks"
    BY <1>8, TaskFacts
  <2> QED BY <1>2, <1>8, <2>1 DEF ApplyTask, Applying
<1>9. CASE DiscardTasks
  BY <1>2, <1>9 DEF DiscardTasks, Applying
<1>10. CASE RefreshTableWithNodeAlive
  BY <1>10, ElectFacts DEF ElectedInv, MasterUp, Applying
<1>11. ASSUME Applying, worker'.pc \notin {"idle", "tasks"}, worker'.table = worker.table,
              worker'.nodes = worker.nodes
       PROVE  ElectedInv'
  BY <1>11 DEF ElectedInv, MasterUp, Applying, UpIn, Settled
<1>12. CASE ApplyWrite
  <2>1. /\ worker'.pc \in {"list", "nodes", "epoch", "refresh"}
        /\ worker'.table = worker.table /\ worker'.nodes = worker.nodes
    BY <1>12 DEF ApplyWrite, TypeOK, Worker, After
  <2> QED BY <1>11, <1>12, <2>1 DEF ApplyWrite, Applying
<1>13. CASE ApplyRefresh
  <2>1. worker'.pc = "infos" /\ worker'.table = worker.table /\ worker'.nodes = worker.nodes
    BY <1>13 DEF ApplyRefresh, TypeOK, Worker
  <2> QED BY <1>11, <1>13, <2>1 DEF ApplyRefresh, Applying
<1>14. CASE ApplyDone
  <2>1. worker.pc = "infos" /\ worker'.pc = "idle" /\ UNCHANGED <<floyd, partial>>
    BY <1>14 DEF ApplyDone
  <2>2. floyd.listed /\ ~partial => Settled(floyd.part, UpIn(floyd.nodes))
    BY <2>1, DoneSettled
  <2> QED BY <2>1, <2>2 DEF ElectedInv, MasterUp, Applying, Settled, UpIn
<1>15. CASE ApplyFails
  <2>1. CASE worker' = [worker EXCEPT !.pc = "table", !.stuck = TRUE]
    <3>1. worker'.pc = "table" /\ worker'.table = worker.table /\ worker'.nodes = worker.nodes
      BY <2>1 DEF TypeOK, Worker
    <3> QED BY <1>11, <1>15, <3>1 DEF ApplyFails
  <2>2. CASE worker' = Sleeping /\ partial'
    BY <2>2 DEF ElectedInv, MasterUp, Applying
  <2> QED BY <1>15, <2>1, <2>2 DEF ApplyFails
<1>16. CASE Abandon
  BY <1>1, <1>16 DEF Abandon
<1>17. CASE Resign
  BY <1>1, <1>17 DEF Resign
<1>18. CASE UNCHANGED vars
  BY <1>1, <1>18 DEF vars
<1> QED BY <1>3, <1>4, <1>5, <1>6, <1>7, <1>8, <1>9, <1>10, <1>12, <1>13, <1>14, <1>15,
           <1>16, <1>17, <1>18 DEF Next

-----------------------------------------------------------------------------
(* The theorems.                                                           *)

LEMMA UpdateInduction == Spec => []IInv
<1>1. Init => IInv
  <2>1. Init => NodesInv
    BY DEF Init, NodesInv
  <2>2. Init => ElectedInv
    BY SleepingFields DEF Init, ElectedInv, MasterUp, Applying
  <2> QED BY <2>1, <2>2, TypeInit, EpochInit, PartitionInit, StampInit, StepInit DEF IInv
<1>2. IInv /\ [Next]_vars => IInv'
  BY TypeStep, EpochStep, PartitionStep, StampStep, StepStep, NodesStep, ElectedStep DEF IInv
<1> QED BY <1>1, <1>2, PTL DEF Spec

\* Every variable of the meta servers keeps its type, whatever fails.
THEOREM UpdateTypes == Spec => []TypeOK
<1>1. IInv => TypeOK
  BY DEF IInv
<1> QED BY <1>1, UpdateInduction, PTL

\* No node ever has two places in a partition, in floyd, in a cache or in the
\* snapshot of the update thread: for any number of nodes, of tasks in a batch and
\* of slaves, through AddSlave, DeleteSlave, SetMaster, Handover and every election.
THEOREM PartitionsWellFormed == Spec => []PartitionOK
<1>1. IInv => PartitionOK
  BY DEF IInv
<1> QED BY <1>1, UpdateInduction, PTL

\* The LOG(FATAL) of Refresh is never reached: no server has an epoch that is
\* larger than floyd's, although Apply is retried and leaders crash and change.
THEOREM EpochNeverFallsBack == Spec => []NoEpochFallback
<1>1. IInv => NoEpochFallback
  BY DEF IInv, EpochInv, NoEpochFallback
<1> QED BY <1>1, UpdateInduction, PTL

\* What any server hands out under an epoch is at least as new as the epoch: the
\* order of the writes of Apply and of the reads of Refresh is enough, for any
\* interleaving of them.
THEOREM CachesNotOlder == Spec => []CacheNotOlder
<1>1. IInv => CacheNotOlder
  BY DEF IInv, StampInv
<1> QED BY <1>1, UpdateInduction, PTL

\* Unless an Apply was cut off, the cache that the leader takes its next snapshot
\* from has all that is in floyd, retries of Apply included.
THEOREM LeaderKeepsInStep == Spec => []LeaderInStep
<1>1. IInv => LeaderInStep
  <2> SUFFICES ASSUME IInv, leader # NoServer, ~Applying, ~partial
               PROVE  cache[leader].epoch = floyd.epoch /\ cache[leader].table = Current
    BY DEF LeaderInStep, Current
  <2>1. leader \in Server /\ cache[leader].epoch = floyd.epoch /\ ~Unpublished
    BY DEF IInv, TypeOK, StepInv, Unpublished
  <2> QED BY <2>1 DEF IInv, StepInv
<1> QED BY <1>1, UpdateInduction, PTL

\* Unless an Apply was cut off, every update leaves a master that is up, or no
\* master when no node of the partition is up.
THEOREM MastersUp == Spec => []MasterUp
<1>1. IInv => MasterUp
  BY DEF IInv, ElectedInv
<1> QED BY <1>1, UpdateInduction, PTL
=============================================================================

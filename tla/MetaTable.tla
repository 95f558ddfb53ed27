------------------------------ MODULE MetaTable ------------------------------
(***************************************************************************)
(* What the meta server does to the description of a partition: the        *)
(* operations of ZPMetaInfoStoreSnap on one ZPMeta::Partitions message      *)
(* (src/meta/zp_meta_info_store.cc).  The slaves are a repeated field, so   *)
(* their order matters: the election in RefreshTableWithNodeAlive goes by   *)
(* it.  An operation yields the Status it returns and the partition after   *)
(* it; it sets table_changed_ exactly when it changes the partition.        *)
(***************************************************************************)
EXTENDS Naturals, Sequences, SequencesExt, FiniteSetsExt

CONSTANTS
  Node,     \* the data nodes, "ip:port"
  NoNode,   \* the empty master, ip "" and port 0
  PState    \* the states of a partition: ACTIVE and STUCK, SLOWDOWN

ASSUME NodeAssumption == NoNode \notin Node /\ "ACTIVE" \in PState

Partition == [master : Node \cup {NoNode}, slaves : Seq(Node), state : PState]

Result(s, p) == [status |-> s, part |-> p]

Members(p) == Range(p.slaves) \cup ({p.master} \ {NoNode})

-----------------------------------------------------------------------------
\* Mutant of AddSlave: only the master is looked at.
AddSlaveTwice(p, n) ==
  Result("ok", IF n = p.master THEN p ELSE [p EXCEPT !.slaves = Append(@, n)])

AddSlave(p, n) ==
  Result("ok", IF n \in Members(p) THEN p
               ELSE [p EXCEPT !.slaves = Append(@, n)])

\* The slaves other than n, copied one after the other.
Without(slaves, n) ==
  LET copied[i \in 0..Len(slaves)] ==
        IF i = 0 THEN << >>
        ELSE IF slaves[i] = n THEN copied[i - 1]
        ELSE Append(copied[i - 1], slaves[i])
  IN copied[Len(slaves)]

\* InvalidArgument: the node is the master.
DeleteSlave(p, n) ==
  IF n = p.master
  THEN Result("invalid", p)
  ELSE Result("ok", [p EXCEPT !.slaves = Without(@, n)])

\* The i-th slave becomes master.  The old master takes its place in the list,
\* or the last slave does when there is no old master.
Promote(p, i) ==
  LET old == p.slaves
      new == IF p.master # NoNode
             THEN [old EXCEPT ![i] = p.master]
             ELSE Front([old EXCEPT ![i] = Last(old)])
  IN [p EXCEPT !.master = old[i], !.slaves = new]

SetMaster(p, n) ==
  CASE n = p.master -> Result("ok", p)
    [] n \in Range(p.slaves) ->
         Result("ok", Promote(p, CHOOSE i \in DOMAIN p.slaves : p.slaves[i] = n))
    [] OTHER -> Result("notfound", p)

\* From left to right: left leaves, and right is master if left was.
Handover(p, left, right) ==
  IF left # p.master
  THEN DeleteSlave(p, left)
  ELSE LET s == SetMaster(p, right)
       IN IF s.status = "ok" THEN DeleteSlave(s.part, left) ELSE s

ChangePState(p, s) == Result("ok", [p EXCEPT !.state = s])

-----------------------------------------------------------------------------
(* The election.  up is the set of nodes that are up, off the offset of each *)
(* node in partition 0, the only one here: a node has no offset for another. *)

GetNodeOffset(off, n, partition_id) == IF partition_id = 0 THEN off[n] ELSE 0

\* The slave that the loop ends with: >= prefers the later of two.  The loop
\* asks for the offset in partition j, the index of the slave.
MaxSlave(p, up, off) ==
  LET Seen(j) == GetNodeOffset(off, p.slaves[j], j - 1)
      cand == {j \in DOMAIN p.slaves : p.slaves[j] \in up}
  IN Max({j \in cand : \A k \in cand : Seen(k) <= Seen(j)})

\* Mutant of RefreshPartition: the master stays when no slave can replace it.
RefreshKeepsMaster(p, up, off) ==
  IF p.master \in up \/ Range(p.slaves) \cap up = {} THEN p
  ELSE Promote(p, MaxSlave(p, up, off))

\* One partition of RefreshTableWithNodeAlive.
RefreshPartition(p, up, off) ==
  CASE p.master \in up -> p
    [] p.master \notin up /\ Range(p.slaves) \cap up # {} ->
         Promote(p, MaxSlave(p, up, off))
    [] OTHER ->
         IF p.master = NoNode THEN p
         ELSE [p EXCEPT !.master = NoNode, !.slaves = Append(@, p.master)]

\* No node has two places in a partition.
WellFormed(p) ==
  /\ \A i, j \in DOMAIN p.slaves : p.slaves[i] = p.slaves[j] => i = j
  /\ p.master \notin Range(p.slaves)
=============================================================================

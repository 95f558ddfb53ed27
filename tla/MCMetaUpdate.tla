---------------------------- MODULE MCMetaUpdate ----------------------------
EXTENDS MetaUpdate, TLC

CONSTANTS n1, n2, n3

Active(m, s) == [master |-> m, slaves |-> s, state |-> "ACTIVE"]

AnyPair == {Active(m, << >>) : m \in Node}
           \cup {Active(p[1], <<p[2]>>) : p \in {q \in Node \X Node : q[1] # q[2]}}
AllThree == {Active(n1, <<n2, n3>>)}

Symmetry == Permutations(Server) \cup Permutations(Node)
=============================================================================

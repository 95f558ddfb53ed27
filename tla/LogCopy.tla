------------------------------ MODULE LogCopy ------------------------------
(***************************************************************************)
(* What replication promises of one slave, abstractly.  The original grows *)
(* at its end.  The copy takes over the item of the original that is at    *)
(* the copy's own end, and no other, or gives up its end and starts a file *)
(* afresh.  Once the copy is spoilt nothing is promised of it.              *)
(***************************************************************************)
EXTENDS LogFiles

VARIABLES original, end, copy, copy_end, spoilt

vars == <<original, end, copy, copy_end, spoilt>>

Init ==
  /\ original = EmptyLog /\ end = Start(0)
  /\ copy = EmptyLog /\ copy_end = Start(0)
  /\ spoilt = FALSE

Grow(i) ==
  /\ After(end, i) \in Point
  /\ original' = Write(original, end, i)
  /\ end' = After(end, i)
  /\ UNCHANGED <<copy, copy_end, spoilt>>

TakeOver ==
  LET i == ItemAt(original, copy_end) IN
  /\ i # NoItem
  /\ copy' = Write(copy, copy_end, i)
  /\ copy_end' = After(copy_end, i)
  /\ UNCHANGED <<original, end, spoilt>>

StartAfresh(f) ==
  /\ f <= end.filenum
  /\ copy' = CutAt(copy, copy_end, f)
  /\ copy_end' = Start(f)
  /\ UNCHANGED <<original, end, spoilt>>

\* From here on the copy may be anything.
Spoil ==
  /\ spoilt' = TRUE
  /\ UNCHANGED <<original, end>>

Next ==
  \/ \E i \in Item : Grow(i)
  \/ TakeOver
  \/ \E f \in Filenum : StartAfresh(f)
  \/ Spoil

Spec == Init /\ [][Next]_vars
=============================================================================

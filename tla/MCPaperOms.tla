----------------------------- MODULE MCPaperOms -----------------------------
(* Instances of PaperOms small enough for TLC.                              *)
EXTENDS PaperOms, TLC

CONSTANTS o1, o2

OneOrder == {o1}
TwoOrders == {o1, o2}

QtyTwo == [o \in {o1} |-> 2]
QtyOneOne == [o \in {o1, o2} |-> 1]
QtyTwoOne == [o \in {o1, o2} |-> IF o = o1 THEN 2 ELSE 1]
=============================================================================

---------------------------- MODULE MCLiveKernel ----------------------------
(* Instances of LiveKernel small enough for TLC.                            *)
EXTENDS LiveKernel, TLC

CONSTANTS o1, o2, o3, a1, a2, a3

OneOrder == {o1}
TwoOrders == {o1, o2}
ThreeOrders == {o1, o2, o3}
OneLot == [o \in Orders |-> 1]

OneApproval == {a1}
TwoApprovals == {a1, a2}
ThreeApprovals == {a1, a2, a3}
BindsInTurn == [a \in Approvals |-> CASE a = a1 -> o1 [] a = a2 -> o2 [] a = a3 -> o3]

(* The orders are alike, and each comes with its own approval.              *)
Alike ==
    {[x \in ThreeOrders \union ThreeApprovals |->
        IF x \in ThreeOrders THEN p[x]
        ELSE CHOOSE a \in ThreeApprovals : BindsInTurn[a] = p[BindsInTurn[x]]] :
      p \in Permutations(ThreeOrders)}
=============================================================================

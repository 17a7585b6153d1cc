----------------------------- MODULE OrderLedger -----------------------------
(***************************************************************************)
(* What the durable OMS promises, with nothing of how it keeps it.          *)
(*                                                                         *)
(* An order is booked in the ledger before the venue ever sees it, is sent  *)
(* to the venue at most once, and the executions the venue makes of it are  *)
(* entered in the ledger at most once each.  The ledger only grows: no      *)
(* crash, failed write or late message takes an entry back.                 *)
(***************************************************************************)
CONSTANTS
    Orders,         \* the orders that may be booked
    Fills           \* the executions the venue may make

VARIABLES
    booked,         \* the orders in the ledger
    sent,           \* the orders handed to the venue
    executed,       \* the executions the venue has made, with their order
    entered         \* the executions in the ledger

ledgerVars == <<booked, sent, executed, entered>>

LedgerTypeOK ==
    /\ booked \subseteq Orders
    /\ sent \subseteq booked
    /\ executed \subseteq Fills
    /\ entered \subseteq executed

Init ==
    /\ booked = {}
    /\ sent = {}
    /\ executed = {}
    /\ entered = {}

Book(o) ==
    /\ o \notin booked
    /\ booked' = booked \union {o}
    /\ UNCHANGED <<sent, executed, entered>>

Send(o) ==
    /\ o \in booked \ sent
    /\ sent' = sent \union {o}
    /\ UNCHANGED <<booked, executed, entered>>

Execute(x) ==
    /\ x \notin executed
    /\ x.order \in sent
    /\ executed' = executed \union {x}
    /\ UNCHANGED <<booked, sent, entered>>

Enter(x) ==
    /\ x \in executed \ entered
    /\ entered' = entered \union {x}
    /\ UNCHANGED <<booked, sent, executed>>

Next ==
    \/ \E o \in Orders : Book(o) \/ Send(o)
    \/ \E x \in Fills : Execute(x) \/ Enter(x)

Spec == Init /\ [][Next]_ledgerVars
=============================================================================

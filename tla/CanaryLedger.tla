---------------------------- MODULE CanaryLedger ----------------------------
(***************************************************************************)
(* What the controlled-live kernel promises about its mandate, with nothing *)
(* of how it keeps it: an order enters the ledger against one approval that *)
(* names it and has authorized nothing before, no more than MaxOrders ever  *)
(* enter, and only a booked order is sent, once.  Nothing given or spent is *)
(* ever taken back.                                                         *)
(***************************************************************************)
EXTENDS Naturals, FiniteSets

CONSTANTS
    Orders,         \* the orders that may be booked
    Approvals,      \* the approvals that may be given
    Binds,          \* the order each approval names
    MaxOrders       \* the number of orders the mandate allows for

VARIABLES
    given,          \* the approvals given so far
    spent,          \* those that have authorized an order
    booked,         \* the orders in the ledger
    sent            \* the orders handed to the venue

canaryVars == <<given, spent, booked, sent>>

Init ==
    /\ given = {}
    /\ spent = {}
    /\ booked = {}
    /\ sent = {}

Approve(a) ==
    /\ a \notin given
    /\ given' = given \union {a}
    /\ UNCHANGED <<spent, booked, sent>>

Book(a) ==
    /\ a \in given \ spent
    /\ Binds[a] \notin booked
    /\ Cardinality(booked) < MaxOrders
    /\ spent' = spent \union {a}
    /\ booked' = booked \union {Binds[a]}
    /\ UNCHANGED <<given, sent>>

Send(o) ==
    /\ o \in booked \ sent
    /\ sent' = sent \union {o}
    /\ UNCHANGED <<given, spent, booked>>

Next ==
    \/ \E a \in Approvals : Approve(a) \/ Book(a)
    \/ \E o \in Orders : Send(o)

Spec == Init /\ [][Next]_canaryVars
=============================================================================

---------------------------- MODULE OperatorRoutes ----------------------------
(***************************************************************************)
(* The trading API (services/trading-api/src/main.rs): concurrent calls of  *)
(* operators against the PAPER route and the controlled-LIVE kill-switch    *)
(* route, each one service behind a lock.  A handler first authorizes its   *)
(* session and takes the time, both without that lock, and only then waits  *)
(* for it; what it does under the lock is one step.  Logins, revocations,   *)
(* the clock and a restart of the process come in between.                  *)
(*                                                                         *)
(* The services are abstracted to what a caller can tell, and a session to  *)
(* its end: PaperOms, LiveKernel and Identity model them in full.           *)
(***************************************************************************)
EXTENDS Naturals, FiniteSets

CONSTANTS Operators, Grants,    \* the permissions of each operator's roles
          CallOf,               \* each call: [rpc, by, route, on]; on is a scope or an order
          Scenarios,            \* bound: the calls that come in, a set of sets
          Orders, Covers,       \* the orders each kill-switch scope covers
          SessionSeconds,
          MaxTime, MaxStarts    \* bounds: the clock and restarts of the process

VARIABLES time, starts,
          expires,      \* when each operator's session ends, 0 without a valid one
          calls,        \* how far each call is, and the time it was authorized
          memory,       \* what each service holds
          healthy,      \* no append of the service has failed since the start
          connected,    \* the PAPER broker session
          journal,      \* the last record of each service's journal
          halted,       \* history: switches answered for, with no release journaled since
          sent,         \* history: submissions to the PAPER broker
          held          \* history: who had a session at which time

routeVars == <<time, starts, expires, calls, memory, healthy, connected, journal, halted, sent,
               held>>
callVars == <<time, starts, expires, held>>

Routes == {"PAPER", "LIVE"}
Permission(rpc) ==
    CASE rpc \in {"ACTIVATE", "RELEASE"} -> "KillSwitchOperate"
      [] rpc \in {"SUBMIT", "CANCEL"} -> "PaperTrade"
      [] OTHER -> "RiskPolicyManage"

NoOrder == [state |-> "NONE", by |-> "nobody"]
Opened == [switches |-> {}, orders |-> [o \in Orders |-> NoOrder], operations |-> {}]

(* main, with both routes on new journals.                                  *)
RoutesInit ==
    /\ time = 1 /\ starts = 1
    /\ expires = [p \in Operators |-> 0]
    /\ \E called \in Scenarios : calls = [c \in called |-> [at |-> "NEW", now |-> 0]]
    /\ memory = [r \in Routes |-> Opened] /\ journal = memory
    /\ healthy = [r \in Routes |-> TRUE] /\ connected = TRUE
    /\ halted = {} /\ sent = {} /\ held = {}

-----------------------------------------------------------------------------
(* begin_operator_login and complete_operator_login; revoke_operator_session. *)
Login(p) ==
    /\ expires[p] = 0
    /\ expires' = [expires EXCEPT ![p] = time + SessionSeconds]
    /\ held' = held \union {<<p, time>>}
    /\ UNCHANGED <<time, starts, calls, memory, healthy, connected, journal, halted, sent>>

Revoke(p) ==
    /\ expires[p] # 0
    /\ expires' = [expires EXCEPT ![p] = 0]
    /\ UNCHANGED <<time, starts, calls, memory, healthy, connected, journal, halted, sent, held>>

TimePasses ==
    /\ time < MaxTime
    /\ time' = time + 1
    /\ expires' = [p \in Operators |-> IF time < expires[p] THEN expires[p] ELSE 0]
    /\ held' = held \union {<<p, time + 1>> : p \in {q \in Operators : time < expires[q]}}
    /\ UNCHANGED <<starts, calls, memory, healthy, connected, journal, halted, sent>>

(* authorize, with the permission the handler asks for.                     *)
Authorized(call) ==
    time <= expires[call.by] /\ Permission(call.rpc) \in Grants[call.by]

(* The first half of every write handler; now is the time it will record.   *)
(* A call that is denied has changed nothing.                               *)
Authorize(c) ==
    /\ calls[c].at = "NEW" /\ Authorized(CallOf[c])
    /\ calls' = [calls EXCEPT ![c] = [at |-> "WAITING", now |-> time]]
    /\ UNCHANGED <<callVars, memory, healthy, connected, journal, halted, sent>>

-----------------------------------------------------------------------------
(* Under the lock.                                                          *)
Holds(c, rpcs) == calls[c].at = "WAITING" /\ CallOf[c].rpc \in rpcs
Answer(c, answer) == calls' = [calls EXCEPT ![c] = [at |-> answer, now |-> 0]]

(* An append that reports a failure may have reached the file all the same. *)
Appends == {"WRITTEN", "LOST", "UNCERTAIN"}
OnDisk(append) == append # "LOST"

(* The service goes on with `state`, the last one it tried to append; after *)
(* a failed append it refuses everything.  The file is left at `recorded`.  *)
Leave(route, state, recorded, append) ==
    /\ memory' = [memory EXCEPT ![route] = state]
    /\ journal' = [journal EXCEPT ![route] = recorded]
    /\ healthy' = [healthy EXCEPT ![route] = append = "WRITTEN"]

(* persist, once.                                                           *)
Persist(route, state, append) ==
    Leave(route, state, IF OnDisk(append) THEN state ELSE journal[route], append)

Unmoved == UNCHANGED <<memory, healthy, journal>>

(* Faulty: the handler takes the time it journals under the lock.           *)
OperationLate(c) == [by |-> CallOf[c].by, rpc |-> CallOf[c].rpc, on |-> CallOf[c].on, at |-> time]

(* What a handler journals of its call.                                     *)
Operation(c) == [by |-> CallOf[c].by, rpc |-> CallOf[c].rpc, on |-> CallOf[c].on,
                 at |-> calls[c].now]

(* Every operation but the first checks of its own is refused once an       *)
(* append has failed (ensure_persistence_healthy, ensure_audit_healthy).    *)
Refuse(c) ==
    /\ calls[c].at = "WAITING" /\ ~healthy[CallOf[c].route]
    /\ Answer(c, "REFUSED")
    /\ UNCHANGED <<callVars, memory, healthy, connected, journal, halted, sent>>

(* operate_paper_kill_switch and operate_live_kill_switch.  A change is     *)
(* journaled with its operator; LIVE journals every activation.             *)
OperateKillSwitch(c) ==
    LET call == CallOf[c]
        state == memory[call.route]
        switches == IF call.rpc = "ACTIVATE" THEN state.switches \union {call.on}
                    ELSE state.switches \ {call.on}
        persists == \/ switches # state.switches
                    \/ call.route = "LIVE" /\ call.rpc = "ACTIVATE"
        operated == [state EXCEPT !.switches = switches,
                                  !.operations = @ \union {Operation(c)}]
        switch == {<<call.route, call.on>>}
    IN  /\ Holds(c, {"ACTIVATE", "RELEASE"}) /\ healthy[call.route]
        /\ \E append \in (IF persists THEN Appends ELSE {"WRITTEN"}) :
              /\ IF persists THEN Persist(call.route, operated, append) ELSE Unmoved
              /\ Answer(c, IF append = "WRITTEN" THEN "OK" ELSE "REFUSED")
              /\ halted' = CASE call.rpc = "RELEASE" /\ OnDisk(append) -> halted \ switch
                             [] call.rpc = "ACTIVATE" /\ append = "WRITTEN" -> halted \union switch
                             [] OTHER -> halted
        /\ UNCHANGED <<callVars, connected, sent>>

-----------------------------------------------------------------------------
Paper == memory["PAPER"]
Halts(switches, order) == \E s \in switches : order \in Covers[s]

(* What the broker makes of a call: done, or a lost session.                *)
Outcomes == {"DONE", "UNKNOWN"}

(* A service's change of order around one call to the broker: `pending` is  *)
(* durable before the call and `then` records what came of it.  A failure   *)
(* of the first append ends the operation before the call.                  *)
Unsent(c, pending) ==
    \E append \in Appends \ {"WRITTEN"} :
        /\ Persist("PAPER", pending, append)
        /\ Answer(c, "REFUSED")
        /\ UNCHANGED <<connected, sent>>

Sent(c, pending, then, outcome, append) ==
    /\ Leave("PAPER", then, IF OnDisk(append) THEN then ELSE pending, append)
    /\ connected' = (outcome = "DONE")
    /\ Answer(c, IF outcome = "DONE" /\ append = "WRITTEN" THEN "OK" ELSE "REFUSED")

(* submit_paper_order; submit_paper_combo alike.  A retry is answered from  *)
(* the record, to its submitter alone; an order a switch covers is rejected *)
(* on record.                                                               *)
RefuseOrder(c) ==
    LET call == CallOf[c]
        known == Paper.orders[call.on]
    IN  /\ Holds(c, {"SUBMIT"}) /\ healthy["PAPER"]
        /\ ~connected \/ known.state # "NONE"
        /\ Answer(c, IF connected /\ known.by = call.by THEN "OK" ELSE "REFUSED")
        /\ UNCHANGED <<callVars, memory, healthy, connected, journal, halted, sent>>

CanDecide(c) ==
    /\ Holds(c, {"SUBMIT"}) /\ healthy["PAPER"] /\ connected
    /\ Paper.orders[CallOf[c].on].state = "NONE"

RejectOrder(c) ==
    /\ CanDecide(c) /\ Halts(Paper.switches, CallOf[c].on)
    /\ \E append \in Appends :
          Persist("PAPER", Paper, append) /\ Answer(c, "REFUSED")
    /\ UNCHANGED <<callVars, connected, halted, sent>>

BookOrder(c) ==
    LET call == CallOf[c]
        Booked(state) == [Paper EXCEPT !.orders[call.on] = [state |-> state, by |-> call.by]]
        pending == Booked("PENDING_SUBMIT")
    IN  /\ CanDecide(c) /\ ~Halts(Paper.switches, call.on)
        /\ \/ Unsent(c, pending)
           \/ \E outcome \in Outcomes, append \in Appends :
                 /\ Sent(c, pending,
                         Booked(IF outcome = "DONE" THEN "ACKNOWLEDGED" ELSE "UNKNOWN"),
                         outcome, append)
                 /\ sent' = sent \union {[order |-> call.on, call |-> c, halted |-> halted]}
        /\ UNCHANGED <<callVars, halted>>

(* cancel_paper_order.  A retry of a cancellation journals nothing.         *)
CancelPaperOrder(c) ==
    LET call == CallOf[c]
        state == Paper.orders[call.on].state
        Cancelling(next) == [Paper EXCEPT !.orders[call.on].state = next,
                                          !.operations = @ \union {Operation(c)}]
        pending == Cancelling("PENDING_CANCEL")
    IN  /\ Holds(c, {"CANCEL"}) /\ healthy["PAPER"]
        /\ \/ /\ ~connected \/ state # "ACKNOWLEDGED"
              /\ Answer(c, IF connected /\ state \in {"PENDING_CANCEL", "CANCELLED"}
                           THEN "OK" ELSE "REFUSED")
              /\ Unmoved /\ UNCHANGED <<connected, sent>>
           \/ /\ connected /\ state = "ACKNOWLEDGED"
              /\ \/ Unsent(c, pending)
                 \/ Sent(c, pending, pending, "DONE", "WRITTEN") /\ UNCHANGED sent
                 \/ /\ \E append \in Appends :
                          Sent(c, pending, Cancelling("UNKNOWN"), "UNKNOWN", append)
                    /\ UNCHANGED sent
        /\ UNCHANGED <<callVars, halted>>

(* reconcile_paper_account: the broker's evidence settles what is open.     *)
Settled(order) ==
    CASE order.state \in {"PENDING_SUBMIT", "UNKNOWN"} -> [order EXCEPT !.state = "ACKNOWLEDGED"]
      [] order.state = "PENDING_CANCEL" -> [order EXCEPT !.state = "CANCELLED"]
      [] OTHER -> order

ReconcilePaperAccount(c) ==
    LET call == CallOf[c] IN
    /\ Holds(c, {"RECONCILE", "RECONNECT"}) /\ healthy["PAPER"]
    /\ \/ /\ call.rpc = "RECONCILE" /\ ~connected
          /\ Answer(c, "REFUSED")
          /\ Unmoved /\ UNCHANGED connected
       \/ \E known \in SUBSET {s.order : s \in sent}, append \in Appends :
             /\ call.rpc = "RECONNECT" \/ connected
             /\ Persist("PAPER", [Paper EXCEPT !.orders =
                    [o \in Orders |-> IF o \in known THEN Settled(Paper.orders[o])
                                      ELSE Paper.orders[o]]], append)
             /\ connected' = TRUE
             /\ Answer(c, IF append = "WRITTEN" THEN "OK" ELSE "REFUSED")
       \/ /\ call.rpc = "RECONNECT" \/ connected
          /\ \E append \in Appends : Persist("PAPER", Paper, append)
          /\ connected' = FALSE
          /\ Answer(c, "REFUSED")
    /\ UNCHANGED <<callVars, halted, sent>>

(* apply_paper_corporate_action, of a split: not across a working order, and *)
(* an action on record is answered with its receipt and changes nothing.    *)
Working == {o \in Orders : Paper.orders[o].state \notin {"NONE", "CANCELLED"}}
Applied(action) == \E op \in Paper.operations : op.rpc = "ADJUST" /\ op.on = action

ApplyPaperCorporateAction(c) ==
    LET call == CallOf[c] IN
    /\ Holds(c, {"ADJUST"}) /\ healthy["PAPER"]
    /\ \/ /\ Applied(call.on) \/ Working # {}
          /\ Answer(c, IF Applied(call.on) THEN "OK" ELSE "REFUSED")
          /\ Unmoved
       \/ /\ ~Applied(call.on) /\ Working = {}
          /\ \E append \in Appends :
                /\ Persist("PAPER", [Paper EXCEPT !.operations = @ \union {Operation(c)}], append)
                /\ Answer(c, IF append = "WRITTEN" THEN "OK" ELSE "REFUSED")
    /\ UNCHANGED <<callVars, connected, halted, sent>>

-----------------------------------------------------------------------------
(* The process ends with the calls it serves and its sessions, and main     *)
(* opens both routes from their journals; no broker session survives.       *)
Restart ==
    /\ starts < MaxStarts
    /\ starts' = starts + 1
    /\ expires' = [p \in Operators |-> 0]
    /\ calls' = [c \in DOMAIN calls |->
           IF calls[c].at = "WAITING" THEN [at |-> "REFUSED", now |-> 0] ELSE calls[c]]
    /\ memory' = journal
    /\ healthy' = [r \in Routes |-> TRUE] /\ connected' = FALSE
    /\ UNCHANGED <<time, journal, halted, sent, held>>

RoutesNext ==
    \/ \E p \in Operators : Login(p) \/ Revoke(p)
    \/ \E c \in DOMAIN calls :
          \/ Authorize(c) \/ Refuse(c)
          \/ OperateKillSwitch(c)
          \/ RefuseOrder(c) \/ RejectOrder(c) \/ BookOrder(c)
          \/ CancelPaperOrder(c) \/ ReconcilePaperAccount(c)
          \/ ApplyPaperCorporateAction(c)
    \/ TimePasses
    \/ Restart

RoutesSpec == RoutesInit /\ [][RoutesNext]_routeVars

-----------------------------------------------------------------------------
RoutesTypeOK ==
    /\ time \in 1..MaxTime /\ starts \in 1..MaxStarts
    /\ expires \in [Operators -> 0..(MaxTime + SessionSeconds)]
    /\ \A c \in DOMAIN calls :
          calls[c] \in [at : {"NEW", "WAITING", "OK", "REFUSED"}, now : 0..MaxTime]
    /\ \A record \in {memory[r] : r \in Routes} \union {journal[r] : r \in Routes} :
          /\ record.switches \subseteq DOMAIN Covers
          /\ \A o \in Orders :
                record.orders[o].state \in
                    {"NONE", "PENDING_SUBMIT", "ACKNOWLEDGED", "UNKNOWN", "PENDING_CANCEL",
                     "CANCELLED"}
    /\ healthy \in [Routes -> BOOLEAN] /\ connected \in BOOLEAN

(* A kill switch whose activation was answered stays in the journal and in  *)
(* a service that still serves, through failed appends and restarts, until  *)
(* a release is journaled; no order it covers is sent to the broker         *)
(* meanwhile, by a call authorized before it or after                       *)
(* (operate_kill_switch_as, evaluate_risk, open_durable).                   *)
HaltsAreBinding ==
    /\ \A h \in halted :
          /\ h[2] \in journal[h[1]].switches
          /\ healthy[h[1]] => h[2] \in memory[h[1]].switches
    /\ \A s \in sent : \A h \in s.halted : h[1] = "PAPER" => s.order \notin Covers[h[2]]

(* Every change on record names an operator who had a session, with the     *)
(* permission it takes, at the time on record, though the session may have  *)
(* ended before the call got the lock; an answered cancellation is on       *)
(* record (the handlers' `now`, cancel_order_attributed).                   *)
RecordsAreAuthorized ==
    /\ \A r \in Routes : \A op \in journal[r].operations :
          <<op.by, op.at>> \in held /\ Permission(op.rpc) \in Grants[op.by]
    /\ \A c \in DOMAIN calls :
          CallOf[c].rpc = "CANCEL" /\ calls[c].at = "OK" =>
              \E op \in journal["PAPER"].operations : op.rpc = "CANCEL" /\ op.on = CallOf[c].on

(* An order goes to the broker once, whatever is retried by whom and        *)
(* whatever append fails, and stays its submitter's; nobody else is         *)
(* answered for it.  A corporate action is applied once                     *)
(* (submit_intent_as, apply_corporate_action).                              *)
OrdersAreSignedOnce ==
    /\ \A op, other \in journal["PAPER"].operations :
          op.rpc = "ADJUST" /\ other.rpc = "ADJUST" /\ op.on = other.on => op = other
    /\ \A s, t \in sent : s.order = t.order => s = t
    /\ \A s \in sent : journal["PAPER"].orders[s.order].by = CallOf[s.call].by
    /\ \A c \in DOMAIN calls :
          CallOf[c].rpc = "SUBMIT" /\ calls[c].at = "OK" =>
              journal["PAPER"].orders[CallOf[c].on].by = CallOf[c].by

CommandsAreAccountable == HaltsAreBinding /\ RecordsAreAuthorized /\ OrdersAreSignedOnce
=============================================================================

----------------------------- MODULE LiveKernel -----------------------------
(***************************************************************************)
(* LiveTradingService (core/live/src/lib.rs): the controlled-live kernel.   *)
(* An order leaves it only inside the window of a canary activation, within *)
(* a fixed number of orders and a ceiling on deployed capital, and against  *)
(* an approval another person registered for exactly that order and that    *)
(* no other order has used.                                                 *)
(*                                                                         *)
(* The broker is that of PaperBroker: the live adapter speaks the same      *)
(* events, and its transport is supplied at deployment.  The intents are    *)
(* purchases of one instrument; every lot costs one unit of cash.           *)
(***************************************************************************)
EXTENDS PaperBroker, FiniteSetsExt

CONSTANTS
    Approvals,      \* the approvals people may register
    Binds,          \* the order each of them names
    NoApproval,     \* the approval of an order that does not exist
    InitialCash,    \* LiveAccount::initial_cash
    MaxDeployed,    \* LiveAccount::max_deployed_capital
    CanaryMaxOrders,\* LiveRiskPolicy::canary_max_orders
    MaxOpenOrders,  \* LiveRiskPolicy::max_open_orders
    Faults,         \* what may fail: a subset of {"JOURNAL", "TRANSPORT"}
    NoOrder         \* the order of a call that names none

ASSUME LiveAssumption ==
    /\ Binds \in [Approvals -> Orders]
    /\ NoApproval \notin Approvals
    /\ InitialCash \in Nat /\ MaxDeployed \in 0..InitialCash
    /\ CanaryMaxOrders \in Nat \ {0} /\ MaxOpenOrders \in Nat \ {0}
    /\ Faults \subseteq {"JOURNAL", "TRANSPORT"}
    /\ NoOrder \notin Orders

VARIABLES
    live,           \* the durable state as the running process holds it
    disk,           \* the state of the audit journal's last record
    healthy,        \* audit_healthy
    connected,      \* broker_connected
    session,        \* the adapter's own `connected`
    window,         \* what the activation allows at this moment
    lapsed,         \* the approvals whose time has run out
    call,           \* the running operation and how far it has come
    submits,        \* history: how often the broker was asked to submit an order
    late,           \* history: orders executed beyond what the kernel knew
                    \* when it considered them closed
    recovered       \* history: reconciled since the last restart that found
                    \* orders in the journal

vars == <<venue, executions, emitted, pending, live, disk, healthy, connected, session,
          window, lapsed, call, submits, late, recovered>>

historyVars == <<submits, late, recovered>>
clockVars == <<window, lapsed>>

-----------------------------------------------------------------------------
Windows == {"CANARY", "SHADOW", "EXPIRED"}

(* PersistentLiveState.  `approvals` is whether an approval is registered   *)
(* and has authorized an order; `incidents` are the subjects with an        *)
(* incident nobody has explained, NoOrder for the account.                  *)
PersistentState ==
    [orders : [Orders -> OrderRecord], usedApproval : [Orders -> Approvals \union {NoApproval}],
     approvals : [Approvals -> {"NONE", "OPEN", "SPENT"}], applied : SUBSET Execution,
     cash : Int, kill : BOOLEAN, incidents : SUBSET (Orders \union {NoOrder}), canary : Nat]

Stages ==
    {"idle", "submitting", "submitted", "cancelling", "replacing", "sent", "failed",
     "reconnected", "draining", "reconciling"}

Call ==
    [at : Stages, order : Orders \union {NoOrder}, answer : SubmitAnswers \union {"NONE"},
     events : Seq(Event), failed : BOOLEAN, reconnecting : BOOLEAN]

TypeOK ==
    /\ BrokerTypeOK
    /\ live \in PersistentState
    /\ disk \in PersistentState
    /\ {healthy, connected, session, recovered} \subseteq BOOLEAN
    /\ window \in Windows
    /\ lapsed \subseteq Approvals
    /\ call \in Call
    /\ submits \in [Orders -> Nat]
    /\ late \subseteq Orders

-----------------------------------------------------------------------------
Calling(stage, o) ==
    [at |-> stage, order |-> o, answer |-> "NONE", events |-> <<>>,
     failed |-> FALSE, reconnecting |-> FALSE]

Idle == Calling("idle", NoOrder)

(* ensure_audit_healthy, with no other operation running.                   *)
Ready == call.at = "idle" /\ healthy

(* require_canary_active.                                                   *)
CanaryReady == Ready /\ window = "CANARY"

BookedOrders(state) == {o \in Orders : state.orders[o].state # "NONE"}
StateOf(o) == live.orders[o].state
Exists(o) == StateOf(o) # "NONE"

(* Faulty: the record is written from the state before the operation.       *)
SaveEarly(next, up) ==
    /\ disk' = live
    /\ connected' = up
    /\ call' = next
    /\ UNCHANGED healthy

(* persist, then go on as `next` with the session `up` or not.  When the    *)
(* append fails the record may have reached the disk all the same, the      *)
(* operation ends and the session counts as lost.                           *)
Save(next, up) ==
    \/ /\ disk' = live'
       /\ connected' = up
       /\ call' = next
       /\ UNCHANGED healthy
    \/ /\ "JOURNAL" \in Faults
       /\ disk' \in {disk, live'}
       /\ healthy' = FALSE
       /\ connected' = FALSE
       /\ call' = Idle

SetOrder(o, record) == live' = [live EXCEPT !.orders[o] = record]
SetState(o, state) == SetOrder(o, [live.orders[o] EXCEPT !.state = state])

Init ==
    /\ BrokerInit
    /\ live = [orders |-> [o \in Orders |-> AbsentOrder],
               usedApproval |-> [o \in Orders |-> NoApproval],
               approvals |-> [a \in Approvals |-> "NONE"], applied |-> {},
               cash |-> InitialCash, kill |-> FALSE, incidents |-> {}, canary |-> 0]
    /\ disk = live
    /\ healthy = TRUE
    /\ connected = FALSE
    /\ session = FALSE
    /\ window \in {"CANARY", "SHADOW"}
    /\ lapsed = {}
    /\ call = Idle
    /\ submits = [o \in Orders |-> 0]
    /\ late = {}
    /\ recovered = TRUE

(* Whoever moves an order or the venue may leave an execution that is late. *)
NoteLate ==
    late' = late \union {o \in Orders : live'.orders[o].state \in Closed
                                       /\ venue'[o].filled > live'.orders[o].filled}

-----------------------------------------------------------------------------
(* Mandate                                                                  *)

(* register_approval.  It needs no activation: an approval may be given     *)
(* before the canary window opens.  Registering it again changes nothing.   *)
RegisterApproval(a) ==
    /\ Ready
    /\ live.approvals[a] = "NONE"
    /\ a \notin lapsed
    /\ live' = [live EXCEPT !.approvals[a] = "OPEN"]
    /\ Save(Idle, connected)
    /\ UNCHANGED <<brokerVars, session, clockVars, historyVars>>

(* Time passes: an open approval, or the activation, runs out.              *)
Lapse(a) ==
    /\ call.at = "idle"
    /\ live.approvals[a] = "OPEN"
    /\ a \notin lapsed
    /\ lapsed' = lapsed \union {a}
    /\ UNCHANGED <<brokerVars, live, disk, healthy, connected, session, window, call,
                   historyVars>>

Expire ==
    /\ call.at = "idle"
    /\ window # "EXPIRED"
    /\ window' = "EXPIRED"
    /\ UNCHANGED <<brokerVars, live, disk, healthy, connected, session, lapsed, call,
                   historyVars>>

(* activate_kill_switch / deactivate_kill_switch, for a scope that covers   *)
(* every order.  A release that changes nothing is not journaled.           *)
SwitchKill(active) ==
    /\ Ready
    /\ ~active => live.kill
    /\ live' = [live EXCEPT !.kill = active]
    /\ Save(Idle, connected)
    /\ UNCHANGED <<brokerVars, session, clockVars, historyVars>>

-----------------------------------------------------------------------------
(* Pre-trade risk (evaluate_risk), the rules whose inputs change over time  *)
(* and bear on purchases of one instrument.  With one unit of cash per lot  *)
(* the position limit is the capital ceiling.                               *)

(* Faulty: only orders that can be revised count as working.                *)
WorkingOrdersRevisable == {o \in Orders : StateOf(o) \in Revisable}

WorkingOrders == {o \in Orders : IsWorking(live.orders[o])}

ReservedCash == MapThenSumSet(LAMBDA o : Qty[o] - live.orders[o].filled, WorkingOrders)

DeployedCapital == IF live.cash < InitialCash THEN InitialCash - live.cash ELSE 0

(* Faulty: only an incident of the account stands in the way.               *)
ClearedDespiteIncidents ==
    /\ ~live.kill /\ NoOrder \notin live.incidents
    /\ \A o \in Orders : StateOf(o) # "UNKNOWN"

Cleared == ~live.kill /\ live.incidents = {} /\ \A o \in Orders : StateOf(o) # "UNKNOWN"

WithinCanary == live.canary < CanaryMaxOrders

WithinCapital(o) ==
    /\ Qty[o] <= live.cash - ReservedCash
    /\ DeployedCapital + ReservedCash + Qty[o] <= MaxDeployed

RiskApproves(o) ==
    /\ Cleared
    /\ WithinCanary
    /\ Cardinality(WorkingOrders) < MaxOpenOrders
    /\ WithinCapital(o)

(* What submit_canary_intent asks of the approval and the session before it *)
(* looks at risk.                                                           *)
Mandated(o, a) ==
    /\ CanaryReady
    /\ connected
    /\ ~Exists(o)
    /\ live.approvals[a] = "OPEN"
    /\ Binds[a] = o
    /\ a \notin lapsed

(* Faulty: the approval is not consumed.                                    *)
BookedUnspent(o, a) ==
    [live EXCEPT !.orders[o] = NewOrder, !.usedApproval[o] = a, !.canary = @ + 1]

(* The order is booked, its approval consumed and the canary counted.       *)
Booked(o, a) ==
    [live EXCEPT !.orders[o] = NewOrder, !.usedApproval[o] = a,
                 !.approvals[a] = "SPENT", !.canary = @ + 1]

-----------------------------------------------------------------------------
(* submit_canary_intent up to the broker call.  A retry of a known intent   *)
(* answers from the stored evidence and changes nothing.                    *)
SubmitIntent(o, a) ==
    /\ Mandated(o, a)
    /\ RiskApproves(o)
    /\ live' = Booked(o, a)
    /\ Save(Calling("submitting", o), TRUE)
    /\ UNCHANGED <<brokerVars, session, clockVars, historyVars>>

(* A refusal is journaled; the approval stays open.                         *)
RefuseIntent(o, a) ==
    /\ Mandated(o, a)
    /\ ~RiskApproves(o)
    /\ UNCHANGED live
    /\ Save(Idle, TRUE)
    /\ UNCHANGED <<brokerVars, session, clockVars, historyVars>>

CallSubmit ==
    /\ call.at = "submitting"
    /\ submits' = [submits EXCEPT ![call.order] = @ + 1]
    /\ \E answer \in SubmitAnswers :
          /\ answer = "ERROR" => "TRANSPORT" \in Faults
          /\ BrokerSubmit(call.order, answer)
          /\ call' = [call EXCEPT !.at = "submitted", !.answer = answer]
    /\ UNCHANGED <<live, disk, healthy, connected, session, clockVars, late, recovered>>

RecordSubmit ==
    /\ call.at = "submitted"
    /\ SetOrder(call.order, Answered(live.orders[call.order], call.answer))
    /\ Save(Idle, call.answer # "ERROR")
    /\ UNCHANGED <<brokerVars, session, clockVars, submits, recovered>>
    /\ NoteLate

(* record_shadow_intent: evidence of a decision, without an order.          *)
RecordShadow ==
    /\ Ready
    /\ window = "SHADOW"
    /\ UNCHANGED live
    /\ Save(Idle, connected)
    /\ UNCHANGED <<brokerVars, session, clockVars, historyVars>>

-----------------------------------------------------------------------------
(* Faulty: the venue is asked before the request is journaled.              *)
CancelOrderUnsaved(o) ==
    /\ CanaryReady
    /\ StateOf(o) \in Revisable
    /\ SetState(o, "PENDING_CANCEL")
    /\ call' = Calling("cancelling", o)
    /\ UNCHANGED <<brokerVars, disk, healthy, connected, session, clockVars, historyVars>>

(* cancel_order does not ask whether the session counts as connected.       *)
CancelOrder(o) ==
    /\ CanaryReady
    /\ StateOf(o) \in Revisable
    /\ SetState(o, "PENDING_CANCEL")
    /\ Save(Calling("cancelling", o), connected)
    /\ UNCHANGED <<brokerVars, session, clockVars, historyVars>>

(* replace_order: a lower limit for the same quantity, journaled first.     *)
ReplaceOrder(o) ==
    /\ CanaryReady
    /\ connected
    /\ Replacement
    /\ StateOf(o) \in Revisable
    /\ live.orders[o].brokerId # 0
    /\ SetOrder(o, PendingReplacement(live.orders[o]))
    /\ Save(Calling("replacing", o), TRUE)
    /\ UNCHANGED <<brokerVars, session, clockVars, historyVars>>

(* The broker calls of the two.  Without a session of its own the adapter   *)
(* refuses.                                                                 *)
CallCancel ==
    /\ call.at = "cancelling"
    /\ \/ session /\ BrokerCancel(call.order) /\ call' = [call EXCEPT !.at = "sent"]
       \/ /\ session /\ ("TRANSPORT" \in Faults \/ ~WorkingAtVenue(call.order))
          /\ BrokerCancel(call.order)
          /\ call' = [call EXCEPT !.at = "failed"]
       \/ ~session /\ UNCHANGED brokerVars /\ call' = [call EXCEPT !.at = "failed"]
    /\ UNCHANGED <<live, disk, healthy, connected, session, clockVars, historyVars>>

CallReplace ==
    /\ call.at = "replacing"
    /\ LET possible == CanBeReplaced(call.order, live.orders[call.order].brokerId)
       IN  \/ possible /\ BrokerReplace(call.order) /\ call' = [call EXCEPT !.at = "sent"]
           \/ /\ ~possible \/ "TRANSPORT" \in Faults
              /\ UNCHANGED brokerVars
              /\ call' = [call EXCEPT !.at = "failed"]
    /\ UNCHANGED <<live, disk, healthy, connected, session, clockVars, historyVars>>

RecordSent ==
    /\ call.at = "sent"
    /\ UNCHANGED live
    /\ Save(Idle, connected)
    /\ UNCHANGED <<brokerVars, session, clockVars, historyVars>>

(* Faulty: the unknown outcome is kept in memory only.                      *)
RecordFailureUnsaved ==
    /\ call.at = "failed"
    /\ SetState(call.order, "UNKNOWN")
    /\ connected' = FALSE
    /\ call' = Idle
    /\ UNCHANGED <<brokerVars, disk, healthy, session, clockVars, historyVars>>

RecordFailure ==
    /\ call.at = "failed"
    /\ SetState(call.order, "UNKNOWN")
    /\ Save(Idle, FALSE)
    /\ UNCHANGED <<brokerVars, session, clockVars, historyVars>>

-----------------------------------------------------------------------------
(* connect: the session comes up, and nothing is read from it.              *)
Connect ==
    /\ CanaryReady
    /\ UNCHANGED live
    /\ Save(Idle, TRUE)
    /\ session' = TRUE
    /\ UNCHANGED <<brokerVars, clockVars, historyVars>>

(* reconnect_and_reconcile up to its synchronize.  Evidence still queued in *)
(* the old session may be lost with it.                                     *)
Reconnect ==
    /\ CanaryReady
    /\ UNCHANGED live
    /\ Save([Idle EXCEPT !.at = "reconnected"], TRUE)
    /\ session' = TRUE
    /\ BridgeRestart \/ UNCHANGED brokerVars
    /\ UNCHANGED <<clockVars, historyVars>>

(* A connect, reconnect, poll or snapshot that fails in transport.  A       *)
(* failed connect leaves the adapter without a session as well.             *)
LoseSession ==
    /\ "TRANSPORT" \in Faults
    /\ CanaryReady \/ call.at \in {"reconnected", "reconciling"}
    /\ UNCHANGED live
    /\ Save(Idle, FALSE)
    /\ session' \in {session, FALSE}
    /\ UNCHANGED <<brokerVars, clockVars, historyVars>>

(* synchronize, called on its own or by a reconnect.                        *)
Synchronize ==
    /\ call.at = "reconnected" \/ (CanaryReady /\ connected)
    /\ pending' = <<>>
    /\ call' = [Idle EXCEPT !.at = "draining", !.events = pending,
                            !.reconnecting = call.at = "reconnected"]
    /\ UNCHANGED <<venue, executions, emitted, live, disk, healthy, connected, session,
                   clockVars, historyVars>>

(* apply_broker_event and, for an execution, apply_accounted_fill.          *)

Duplicate(e) == IsExecution(e) /\ ExecutionOf(e) \in live.applied

Applicable(e) == Duplicate(e) \/ Accepts(live.orders[e.order], e, Qty[e.order])

(* An execution that overdraws the account is an incident of the account.   *)
WithFill(state, e) ==
    [state EXCEPT !.applied = @ \union {ExecutionOf(e)},
                  !.cash = @ - e.qty,
                  !.incidents = IF state.cash < e.qty THEN @ \union {NoOrder} ELSE @]

Applied(e) ==
    IF Duplicate(e) THEN live
    ELSE LET moved == [live EXCEPT !.orders[e.order] = Resolve(@, e, Qty[e.order])]
         IN  IF IsExecution(e) THEN WithFill(moved, e) ELSE moved

(* One event of the batch: applied and journaled, or rolled back and        *)
(* remembered as an error.                                                  *)
ApplyEvent ==
    /\ call.at = "draining"
    /\ call.events # <<>>
    /\ LET e == Head(call.events)
           rest == [call EXCEPT !.events = Tail(@)]
       IN  \/ /\ Applicable(e)
              /\ live' = Applied(e)
              /\ Save(rest, connected)
           \/ /\ ~Applicable(e)
              /\ call' = [rest EXCEPT !.failed = TRUE]
              /\ UNCHANGED <<live, disk, healthy, connected>>
    /\ UNCHANGED <<brokerVars, session, clockVars, submits, recovered>>
    /\ NoteLate

(* The batch is done; a reconnect goes on to reconcile unless an event      *)
(* failed.                                                                  *)
FinishDrain ==
    /\ call.at = "draining"
    /\ call.events = <<>>
    /\ call' = IF call.reconnecting /\ ~call.failed
               THEN [call EXCEPT !.at = "reconciling"] ELSE Idle
    /\ UNCHANGED <<brokerVars, live, disk, healthy, connected, session, clockVars,
                   historyVars>>

-----------------------------------------------------------------------------
(* reconcile: the broker's snapshot against the kernel's own records.       *)
VenueSpent == MapThenSumSet(LAMBDA o : venue[o].filled, Orders)

(* Position and cash differ together: every execution moves both.           *)
Issues ==
    {o \in Orders : OrderIssues(live.orders[o], o) # {}}
        \union {s \in {NoOrder} : live.cash # InitialCash - VenueSpent}

Reconcile ==
    /\ call.at = "reconciling" \/ (CanaryReady /\ connected)
    /\ live' = [live EXCEPT !.incidents = @ \union Issues]
    /\ Save(Idle, TRUE)
    /\ recovered' = TRUE
    /\ UNCHANGED <<brokerVars, session, clockVars, submits, late>>

(* explain_incident, the last unexplained one of a subject.                 *)
ExplainIncident(subject) ==
    /\ Ready
    /\ subject \in live.incidents
    /\ live' = [live EXCEPT !.incidents = @ \ {subject}]
    /\ Save(Idle, connected)
    /\ UNCHANGED <<brokerVars, session, clockVars, historyVars>>

-----------------------------------------------------------------------------
(* restore refuses a record in which an order lacks its consumed approval   *)
(* or the canary count exceeds its bound.  Every order here buys, so no     *)
(* bucket of tax lots is left empty (AccountBooks has those that sell).     *)
Restorable(state) ==
    /\ \A o \in Orders : state.orders[o].state # "NONE" =>
          /\ RestoresOrder(state.orders[o], Qty[o])
          /\ state.usedApproval[o] # NoApproval
          /\ state.approvals[state.usedApproval[o]] = "SPENT"
          /\ Binds[state.usedApproval[o]] = o
    /\ state.canary <= CanaryMaxOrders

(* The process dies and open_durable starts one from the journal, under a   *)
(* new activation for the same configuration; no session survives.          *)
Restart ==
    /\ Restorable(disk)
    /\ live' = disk
    /\ healthy' = TRUE
    /\ connected' = FALSE
    /\ session' = FALSE
    /\ window' \in {"CANARY", "SHADOW"}
    /\ call' = Idle
    /\ recovered' = (BookedOrders(disk) = {})
    /\ BridgeRestart
    /\ UNCHANGED <<disk, lapsed, submits>>
    /\ NoteLate

-----------------------------------------------------------------------------
(* What the service does on its own once an operation has begun.            *)
ServiceStep ==
    \/ CallSubmit \/ RecordSubmit
    \/ CallCancel \/ CallReplace \/ RecordSent \/ RecordFailure
    \/ ApplyEvent \/ FinishDrain

OperatorStep ==
    \/ \E a \in Approvals :
          \/ RegisterApproval(a) \/ Lapse(a)
          \/ \E o \in Orders : SubmitIntent(o, a) \/ RefuseIntent(o, a)
    \/ \E o \in Orders : CancelOrder(o) \/ ReplaceOrder(o)
    \/ \E s \in live.incidents : ExplainIncident(s)
    \/ \E active \in BOOLEAN : SwitchKill(active)
    \/ Connect \/ Reconnect \/ LoseSession \/ Synchronize \/ Reconcile
    \/ RecordShadow \/ Expire

AtVenue(step) ==
    /\ step
    /\ UNCHANGED <<live, disk, healthy, connected, session, clockVars, call, submits,
                   recovered>>
    /\ NoteLate

VenueStep ==
    \/ \E o \in Orders :
          \/ \E n \in 1..Qty[o] : AtVenue(VenueExecute(o, n))
          \/ \E type \in Closings : AtVenue(VenueClose(o, type))
          \/ AtVenue(VenueRejectCancel(o))
          \/ AtVenue(VenueModify(o))
          \/ AtVenue(VenueReplace(o))
          \/ AtVenue(VenueRejectReplace(o))
    \/ \E x \in executions : AtVenue(EmitExecution(x))

Next == ServiceStep \/ OperatorStep \/ VenueStep \/ Restart

Spec == Init /\ [][Next]_vars

-----------------------------------------------------------------------------
(* Safety                                                                   *)

(* Between two operations the audit journal's last record is exactly what   *)
(* the process holds, on every path through every operation (persist).      *)
JournalIsCurrent == Ready => disk = live

(* In memory and in the journal, every booked order has used exactly one    *)
(* approval, the one that names it, no other approval is spent, and the     *)
(* canary count is the number of booked orders: a refusal, a crash or a     *)
(* failed append never spends one without the others.                       *)
MandateKept(state) ==
    /\ \A o \in Orders : o \in BookedOrders(state) <=> state.usedApproval[o] # NoApproval
    /\ \A o \in BookedOrders(state) : Binds[state.usedApproval[o]] = o
    /\ {a \in Approvals : state.approvals[a] = "SPENT"}
          = {state.usedApproval[o] : o \in BookedOrders(state)}
    /\ state.canary = Cardinality(BookedOrders(state))
MandateIsAccounted == MandateKept(live) /\ MandateKept(disk)

(* The venue never holds an order that is not journaled with a consumed     *)
(* approval, receives no order twice, and over all restarts never more      *)
(* orders than the canary allows for (submit_canary_intent).                *)
OrdersAtVenue == {o \in Orders : Known(o)}
VenueWithinMandate ==
    /\ \A o \in OrdersAtVenue : \E a \in Approvals : Binds[a] = o /\ disk.approvals[a] = "SPENT"
    /\ \A o \in Orders : submits[o] <= 1
    /\ Cardinality(OrdersAtVenue) <= CanaryMaxOrders

(* What the venue has bought and may still buy stays within the deployed-   *)
(* capital ceiling, through crashes, lost sessions and lost evidence,       *)
(* unless an execution surfaced after its order was taken for closed        *)
(* (evaluate_risk with total_reserved_cash).                                *)
OpenAtVenue == {o \in Orders : WorkingAtVenue(o)}
VenueWithinCapital ==
    late = {} =>
        VenueSpent + MapThenSumSet(LAMBDA o : Qty[o] - venue[o].filled, OpenAtVenue)
            <= MaxDeployed

(* The two together: number and capital.                                    *)
VenueWithinBudget == VenueWithinMandate /\ VenueWithinCapital

(* Exactly-once accounting: fills and cash are what the distinct executions *)
(* applied make them, in memory and in the journal.                         *)
FillsOf(state, o) ==
    MapThenSumSet(LAMBDA x : x.qty, {x \in state.applied : x.order = o})
Accounted(state) ==
    /\ state.applied \subseteq executions
    /\ \A o \in Orders : state.orders[o].filled = FillsOf(state, o)
    /\ state.cash = InitialCash - MapThenSumSet(LAMBDA x : x.qty, state.applied)
FillsMatchExecutions == Accounted(live) /\ Accounted(disk)

(* Mandate and account, in memory and in the journal.                       *)
BooksAreAccounted == MandateIsAccounted /\ FillsMatchExecutions

-----------------------------------------------------------------------------
(* What a step may never do                                                 *)

(* No order is booked while the journal holds an active kill switch, an     *)
(* unexplained incident or an UNKNOWN order: these survive a restart and    *)
(* bind the next process as well (evaluate_risk).                           *)
BookedOnlyWhenCleared ==
    [][\A o \in BookedOrders(disk') \ BookedOrders(disk) :
          /\ ~disk.kill /\ disk.incidents = {}
          /\ \A p \in Orders : disk.orders[p].state # "UNKNOWN"]_vars

(* Every command reaches the venue only when the journal already records    *)
(* the order as waiting for it: a submission, a cancellation and, unlike in *)
(* the PAPER service, a replacement.                                        *)
CommandsAreJournaled ==
    [][\A o \in Orders :
          /\ ~Known(o) /\ Known(o)' => disk.orders[o].state = "PENDING_SUBMIT"
          /\ "CANCEL" \in venue'[o].asked \ venue[o].asked
                => disk.orders[o].state = "PENDING_CANCEL"
          /\ call.at = "replacing" /\ call.order = o /\ venue'[o].asked # venue[o].asked
                => disk.orders[o].state = "PENDING_REPLACE"]_vars

(* After a failed append nothing reaches the journal or the venue until the *)
(* process is restarted, and the session counts as lost                     *)
(* (ensure_audit_healthy, persist).                                         *)
HaltsOnAuditFailure ==
    [][~healthy /\ ~healthy' =>
          /\ UNCHANGED <<disk, submits>>
          /\ ~connected'
          /\ \A o \in Orders : "CANCEL" \in venue'[o].asked => "CANCEL" \in venue[o].asked]_vars

(* Together: the audit journal leads every command and stops them all.      *)
JournalRulesCommands == CommandsAreJournaled /\ HaltsOnAuditFailure

(* An account that falls into overdraft carries an unexplained incident in  *)
(* the same journal record, so that no order can follow it unseen           *)
(* (apply_broker_event, record_internal_incident).                          *)
OverdraftIsIncident ==
    [][disk.cash >= 0 /\ disk'.cash < 0 => NoOrder \in disk'.incidents]_vars

(* Together: an overdraft makes an incident, and no order is booked over    *)
(* one.                                                                     *)
IncidentsBind == BookedOnlyWhenCleared /\ OverdraftIsIncident

(* The kernel keeps the mandate, with the audit journal as the ledger.      *)
Ledger ==
    INSTANCE CanaryLedger WITH
        MaxOrders <- CanaryMaxOrders,
        given <- {a \in Approvals : disk.approvals[a] # "NONE"},
        spent <- {a \in Approvals : disk.approvals[a] = "SPENT"},
        booked <- BookedOrders(disk),
        sent <- {o \in Orders : submits[o] > 0}
ImplementsCanaryLedger == Ledger!Spec

-----------------------------------------------------------------------------
(* Stated by the documentation, and not what the code does                  *)

(* "recovery always starts disconnected and requires synchronization/       *)
(* reconciliation" (docs/operations/01-foundation-threat-model.md): after a *)
(* restart with orders in the journal no order is booked before a           *)
(* reconciliation.                                                          *)
RecoveryReconciles ==
    [][BookedOrders(disk') # BookedOrders(disk) => recovered]_vars
=============================================================================

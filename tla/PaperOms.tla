------------------------------ MODULE PaperOms ------------------------------
(***************************************************************************)
(* PaperTradingService (core/paper/src/service/...): the durable PAPER OMS  *)
(* for single orders in one instrument, over the broker of PaperBroker.      *)
(*                                                                         *)
(* One operation of the service runs at a time (every operation borrows the *)
(* service mutably), but it is not atomic: it crosses the journal and the   *)
(* broker, and the process can die, the journal can fail and the venue can  *)
(* act between any two of those crossings.  `call` says where the running   *)
(* operation stands.                                                        *)
(*                                                                         *)
(* Every lot costs one unit of cash and carries no fee.                     *)
(***************************************************************************)
EXTENDS PaperBroker, FiniteSetsExt

CONSTANTS
    Sells,          \* the orders that sell; the others buy
    InitialCash,    \* PaperAccount::initial_cash
    MaxPosition,    \* risk_policy.max_position_quantity; shorts are not permitted
    MaxOpenOrders,  \* risk_policy.max_open_orders
    RequiresClean,  \* PaperBrokerAdapter::requires_clean_reconciliation
    Faults,         \* what the environment may do: a subset of FaultKinds
    NoOrder         \* the order of a call that names none

FaultKinds == {"CRASH", "JOURNAL", "TRANSPORT", "BRIDGE_RESTART", "DUPLICATE"}

ASSUME OmsAssumption ==
    /\ Sells \subseteq Orders
    /\ InitialCash \in Nat /\ MaxPosition \in Nat /\ MaxOpenOrders \in Nat
    /\ RequiresClean \in BOOLEAN
    /\ Faults \subseteq FaultKinds
    /\ NoOrder \notin Orders

VARIABLES
    oms,            \* the durable state as the running process holds it
    disk,           \* the state of the journal's last record
    healthy,        \* persistence_healthy
    connected,      \* broker_connected
    call,           \* the running operation and how far it has come
    submits,        \* history: how often the broker was asked to submit an order
    late            \* history: orders the venue executed beyond what the OMS
                    \* knew when it considered them closed

vars == <<venue, executions, emitted, pending, oms, disk, healthy, connected, call,
          submits, late>>

-----------------------------------------------------------------------------
(* What an incident is about: an order, or the account (NoOrder) when the   *)
(* position or the cash disagrees.                                          *)
Subjects == Orders \union {NoOrder}

(* PersistentPaperState: what a journal record holds.  `incidents` are the  *)
(* subjects with an incident nobody has explained: the service only ever    *)
(* asks whether there is one, and reuses it when the issue recurs.          *)
PersistentState ==
    [orders : [Orders -> OrderRecord], applied : SUBSET Execution,
     position : Int, cash : Int, kill : BOOLEAN,
     incidents : SUBSET Subjects, clean : {"NONE", "CLEAN", "DIRTY"}]

Stages ==
    {"idle", "submitting", "submitted", "cancelling", "cancel_failed",
     "replaced", "replace_failed", "draining", "reconciling"}

Call ==
    [at : Stages, order : Orders \union {NoOrder}, answer : SubmitAnswers \union {"NONE"},
     events : Seq(Event), failed : BOOLEAN, reconnecting : BOOLEAN]

TypeOK ==
    /\ BrokerTypeOK
    /\ oms \in PersistentState
    /\ disk \in PersistentState
    /\ healthy \in BOOLEAN
    /\ connected \in BOOLEAN
    /\ call \in Call
    /\ submits \in [Orders -> Nat]
    /\ late \subseteq Orders

-----------------------------------------------------------------------------
(* The running operation has come to `stage`, for order `o`.                *)
Calling(stage, o) ==
    [at |-> stage, order |-> o, answer |-> "NONE", events |-> <<>>,
     failed |-> FALSE, reconnecting |-> FALSE]

Idle == Calling("idle", NoOrder)

(* Faulty: operations go on after the journal has failed.                   *)
ReadyRegardless == call.at = "idle"

(* An operation may begin: none is running and the journal never failed     *)
(* (ensure_persistence_healthy).                                            *)
Ready == call.at = "idle" /\ healthy

StateOf(o) == oms.orders[o].state
Exists(o) == StateOf(o) # "NONE"

(* Faulty: the record is written from the state before the operation.       *)
PersistedEarly == disk' = oms /\ UNCHANGED healthy

(* persist: the whole state becomes the journal's last record.  When the    *)
(* append fails the record may have reached the disk all the same, and no   *)
(* operation is accepted until the process is restarted.                    *)
Persisted == disk' = oms' /\ UNCHANGED healthy
PersistFailed ==
    /\ "JOURNAL" \in Faults
    /\ healthy' = FALSE
    /\ disk' \in {disk, oms'}

(* Persist, then go on as `next`; a failed append ends the operation.       *)
SaveThen(next) ==
    \/ Persisted /\ call' = next
    \/ PersistFailed /\ call' = Idle

SetOrder(o, record) == oms' = [oms EXCEPT !.orders[o] = record]

SetState(o, state) == SetOrder(o, [oms.orders[o] EXCEPT !.state = state])

(* Faulty: the unknown outcome is kept in memory only.                      *)
OutcomeUnknownUnsaved(o) ==
    /\ SetState(o, "UNKNOWN")
    /\ connected' = FALSE
    /\ call' = Idle
    /\ UNCHANGED <<disk, healthy>>

(* A broker call failed in transport: its outcome is UNKNOWN and the        *)
(* session counts as lost.                                                  *)
OutcomeUnknown(o) ==
    /\ SetState(o, "UNKNOWN")
    /\ connected' = FALSE
    /\ SaveThen(Idle)

Init ==
    /\ BrokerInit
    /\ oms = [orders |-> [o \in Orders |-> AbsentOrder], applied |-> {}, position |-> 0,
              cash |-> InitialCash, kill |-> FALSE, incidents |-> {}, clean |-> "NONE"]
    /\ disk = oms
    /\ healthy = TRUE
    /\ connected = TRUE
    /\ call = Idle
    /\ submits = [o \in Orders |-> 0]
    /\ late = {}

(* Whoever moves an order or the venue may leave an execution that is late. *)
NoteLate ==
    late' = late \union {o \in Orders : oms'.orders[o].state \in Closed
                                       /\ venue'[o].filled > oms'.orders[o].filled}

-----------------------------------------------------------------------------
(* Pre-trade risk (evaluate_risk), the rules whose inputs change over time. *)
(* The limits of a single intent alone (size, notional, price collar, tick, *)
(* lot) are passed or failed once and for all; `Orders` are those it passes.*)

(* Faulty: only orders that can be revised count as working.                *)
WorkingOrdersRevisable == {o \in Orders : StateOf(o) \in Revisable}

WorkingOrders == {o \in Orders : IsWorking(oms.orders[o])}
Remaining(o) == Qty[o] - oms.orders[o].filled
Signed(o, n) == IF o \in Sells THEN -n ELSE n

ReservedCash == MapThenSumSet(Remaining, WorkingOrders \ Sells)

(* Position after the candidate and everything still working has executed.  *)
CommittedPosition(o) ==
    oms.position + Signed(o, Qty[o])
      + MapThenSumSet(LAMBDA p : Signed(p, Remaining(p)), WorkingOrders)

HasUnknownOrder == \E o \in Orders : StateOf(o) = "UNKNOWN"

(* Faulty: only acknowledged orders conflict.                               *)
ConflictsWithAcknowledged(o) ==
    \E p \in WorkingOrders : StateOf(p) = "ACKNOWLEDGED" /\ (p \in Sells) # (o \in Sells)

ConflictsWithWorkingOrder(o) == \E p \in WorkingOrders : (p \in Sells) # (o \in Sells)

(* Faulty: only the incidents of the account count.                         *)
ClearedDespiteIncidents == ~oms.kill /\ NoOrder \notin oms.incidents /\ ~HasUnknownOrder

(* No kill switch, no incident without an explanation, no outcome in doubt. *)
Cleared == ~oms.kill /\ oms.incidents = {} /\ ~HasUnknownOrder

RoomForOrder == Cardinality(WorkingOrders) < MaxOpenOrders

RiskApproves(o) ==
    /\ Cleared
    /\ ~ConflictsWithWorkingOrder(o)
    /\ RoomForOrder
    /\ CommittedPosition(o) \in 0..MaxPosition
    /\ o \in Sells \/ Qty[o] <= oms.cash - ReservedCash

(* ensure_broker_ready_for_submission.                                      *)
BrokerReady == connected /\ (RequiresClean => oms.clean = "CLEAN")

-----------------------------------------------------------------------------
(* Faulty: a retry of a known intent is submitted again.                    *)
SubmitIntentAgain(o) ==
    /\ Ready
    /\ BrokerReady
    /\ RiskApproves(o)
    /\ SetOrder(o, NewOrder)
    /\ SaveThen(Calling("submitting", o))
    /\ UNCHANGED <<brokerVars, connected, submits, late>>

(* Faulty: the broker is asked before the order is journaled.               *)
SubmitIntentUnsaved(o) ==
    /\ Ready
    /\ BrokerReady
    /\ ~Exists(o)
    /\ RiskApproves(o)
    /\ SetOrder(o, NewOrder)
    /\ call' = Calling("submitting", o)
    /\ UNCHANGED <<brokerVars, disk, healthy, connected, submits, late>>

(* submit_intent.  A retry of a known intent answers from the stored        *)
(* evidence and changes nothing.  PENDING_SUBMIT is journaled before the    *)
(* broker is asked.                                                         *)
SubmitIntent(o) ==
    /\ Ready
    /\ BrokerReady
    /\ ~Exists(o)
    /\ RiskApproves(o)
    /\ SetOrder(o, NewOrder)
    /\ SaveThen(Calling("submitting", o))
    /\ UNCHANGED <<brokerVars, connected, submits, late>>

(* A refused intent leaves only its risk evidence behind, which no later    *)
(* decision reads: the intent may be offered again.                         *)
RefuseIntent(o) ==
    /\ Ready
    /\ BrokerReady
    /\ ~Exists(o)
    /\ ~RiskApproves(o)
    /\ UNCHANGED oms
    /\ SaveThen(Idle)
    /\ UNCHANGED <<brokerVars, connected, submits, late>>

(* The broker call of submit_intent.                                        *)
CallSubmit ==
    /\ call.at = "submitting"
    /\ submits' = [submits EXCEPT ![call.order] = @ + 1]
    /\ \E answer \in SubmitAnswers :
          /\ answer = "ERROR" => "TRANSPORT" \in Faults
          /\ BrokerSubmit(call.order, answer)
          /\ call' = [call EXCEPT !.at = "submitted", !.answer = answer]
    /\ UNCHANGED <<oms, disk, healthy, connected, late>>

(* A transport error takes the session down as well.                        *)
RecordSubmit ==
    /\ call.at = "submitted"
    /\ SetOrder(call.order, Answered(oms.orders[call.order], call.answer))
    /\ connected' = (connected /\ call.answer # "ERROR")
    /\ SaveThen(Idle)
    /\ UNCHANGED <<brokerVars, submits>>
    /\ NoteLate

-----------------------------------------------------------------------------
(* Faulty: the broker is asked before the request is journaled.             *)
CancelOrderUnsaved(o) ==
    /\ Ready
    /\ connected
    /\ StateOf(o) \in Revisable
    /\ SetState(o, "PENDING_CANCEL")
    /\ call' = Calling("cancelling", o)
    /\ UNCHANGED <<brokerVars, disk, healthy, connected, submits, late>>

(* cancel_order: PENDING_CANCEL is journaled before the broker is asked.    *)
CancelOrder(o) ==
    /\ Ready
    /\ connected
    /\ StateOf(o) \in Revisable
    /\ SetState(o, "PENDING_CANCEL")
    /\ SaveThen(Calling("cancelling", o))
    /\ UNCHANGED <<brokerVars, connected, submits, late>>

(* The deterministic adapter answers the cancellation of an order it no     *)
(* longer works with an error, which counts as an unknown outcome.          *)
CallCancel ==
    /\ call.at = "cancelling"
    /\ BrokerCancel(call.order)
    /\ \/ call' = Idle
       \/ /\ "TRANSPORT" \in Faults \/ ~WorkingAtVenue(call.order)
          /\ call' = Calling("cancel_failed", call.order)
    /\ UNCHANGED <<oms, disk, healthy, connected, submits, late>>

RecordCancelFailure ==
    /\ call.at = "cancel_failed"
    /\ OutcomeUnknown(call.order)
    /\ UNCHANGED <<brokerVars, submits, late>>

(* replace_order: the broker is asked while PENDING_REPLACE is only in      *)
(* memory; the journal follows.                                             *)
ReplaceOrder(o) ==
    /\ Ready
    /\ connected
    /\ Replacement
    /\ StateOf(o) \in Revisable
    /\ oms.orders[o].brokerId # 0
    /\ SetOrder(o, PendingReplacement(oms.orders[o]))
    /\ \/ /\ CanBeReplaced(o, oms.orders[o].brokerId)
          /\ BrokerReplace(o)
          /\ call' = Calling("replaced", o)
       \/ /\ ~CanBeReplaced(o, oms.orders[o].brokerId) \/ "TRANSPORT" \in Faults
          /\ UNCHANGED brokerVars
          /\ call' = Calling("replace_failed", o)
    /\ UNCHANGED <<disk, healthy, connected, submits, late>>

RecordReplace ==
    /\ call.at = "replaced"
    /\ UNCHANGED oms
    /\ SaveThen(Idle)
    /\ UNCHANGED <<brokerVars, connected, submits, late>>

RecordReplaceFailure ==
    /\ call.at = "replace_failed"
    /\ OutcomeUnknown(call.order)
    /\ UNCHANGED <<brokerVars, submits, late>>

-----------------------------------------------------------------------------
(* Applying one drained event (apply_broker_event and, for an execution,    *)
(* apply_accounted_fill).                                                   *)

(* Faulty: execution identities are not remembered.                         *)
DuplicateForgotten(e) == FALSE

Duplicate(e) == IsExecution(e) /\ ExecutionOf(e) \in oms.applied

(* Portfolio::apply_fill refuses to sell what is not held.                  *)
NotShort(e) == oms.position + Signed(e.order, e.qty) >= 0 \/ e.order \notin Sells

Applicable(e) ==
    \/ Duplicate(e)
    \/ /\ Accepts(oms.orders[e.order], e, Qty[e.order])
       /\ IsExecution(e) => NotShort(e)

WithFill(state, e) ==
    [state EXCEPT !.applied = @ \union {ExecutionOf(e)},
                  !.position = @ + Signed(e.order, e.qty),
                  !.cash = @ - Signed(e.order, e.qty)]

Applied(e) ==
    IF Duplicate(e) THEN oms
    ELSE LET moved == [oms EXCEPT !.orders[e.order] = Resolve(@, e, Qty[e.order])]
         IN  IF IsExecution(e) THEN WithFill(moved, e) ELSE moved

-----------------------------------------------------------------------------
(* poll drains the queue; a fault may deliver its first event twice.        *)
Drained(queue) ==
    {queue} \union (IF "DUPLICATE" \in Faults /\ queue # <<>>
                     THEN {Append(queue, Head(queue))} ELSE {})

Poll(queue, reconnecting) ==
    /\ pending' = <<>>
    /\ \E batch \in Drained(queue) :
          call' = [Idle EXCEPT !.at = "draining", !.events = batch,
                               !.reconnecting = reconnecting]
    /\ UNCHANGED <<oms, disk, healthy>>

(* A poll, snapshot or reconnect that failed in transport.                  *)
SessionLost ==
    /\ "TRANSPORT" \in Faults
    /\ connected' = FALSE
    /\ UNCHANGED oms
    /\ SaveThen(Idle)
    /\ UNCHANGED <<brokerVars, submits, late>>

(* synchronize, called on its own.                                          *)
Synchronize ==
    /\ Ready
    /\ connected
    /\ Poll(pending, FALSE)
    /\ UNCHANGED <<venue, executions, emitted, connected, submits, late>>

(* One event of the batch.  An event that cannot be applied is rolled back  *)
(* and remembered as an error; the rest of the batch still runs.  Each      *)
(* applied event is journaled; a failed append abandons the rest.           *)
ApplyEvent ==
    /\ call.at = "draining"
    /\ call.events # <<>>
    /\ LET e == Head(call.events)
           rest == [call EXCEPT !.events = Tail(@)]
       IN  \/ /\ Applicable(e)
              /\ oms' = Applied(e)
              /\ SaveThen(rest)
           \/ /\ ~Applicable(e)
              /\ call' = [rest EXCEPT !.failed = TRUE]
              /\ UNCHANGED <<oms, disk, healthy>>
    /\ UNCHANGED <<brokerVars, connected, submits>>
    /\ NoteLate

(* The batch is done.  reconnect_and_reconcile goes on to reconcile unless  *)
(* an event failed, in which case it returns that error.                    *)
FinishDrain ==
    /\ call.at = "draining"
    /\ call.events = <<>>
    /\ call' = IF call.reconnecting /\ ~call.failed
               THEN [call EXCEPT !.at = "reconciling"] ELSE Idle
    /\ UNCHANGED <<brokerVars, oms, disk, healthy, connected, submits, late>>

(* Faulty: the reconnect does not re-read the executions.                   *)
ReconnectWithoutExecutions ==
    /\ Ready
    /\ connected' = TRUE
    /\ \E restarted \in {FALSE, "BRIDGE_RESTART" \in Faults} :
          Poll(IF restarted THEN <<>> ELSE pending, TRUE)
    /\ emitted' = executions
    /\ UNCHANGED <<venue, executions, submits, late>>

(* reconnect_and_reconcile up to its poll.  A reconnect re-reads the        *)
(* executions; when the bridge has to be restarted for it, the evidence     *)
(* still queued in the old process is gone.                                 *)
Reconnect ==
    /\ Ready
    /\ connected' = TRUE
    /\ \E restarted \in {FALSE, "BRIDGE_RESTART" \in Faults} :
          LET queue == IF restarted THEN <<>> ELSE pending
              unread == IF restarted THEN executions ELSE executions \ emitted
          IN  \E s \in SetToSeqs(unread) : Poll(queue \o Reports(s), TRUE)
    /\ emitted' = executions
    /\ UNCHANGED <<venue, executions, submits, late>>

(* A reconnect may fail at any time; a poll or snapshot of a live session   *)
(* that fails leaves the same state behind.                                 *)
LoseSession == Ready /\ SessionLost

-----------------------------------------------------------------------------
(* reconcile: the broker's snapshot against the OMS's own records.          *)
VenuePosition == MapThenSumSet(LAMBDA o : Signed(o, venue[o].filled), Orders)

AccountIssues ==
    {kind \in {"POSITION_QUANTITY_MISMATCH", "CASH_MISMATCH"} :
        \/ kind = "POSITION_QUANTITY_MISMATCH" /\ oms.position # VenuePosition
        \/ kind = "CASH_MISMATCH" /\ oms.cash # InitialCash - VenuePosition}

Issues ==
    {o \in Orders : OrderIssues(oms.orders[o], o) # {}}
        \union {s \in {NoOrder} : AccountIssues # {}}

(* Every issue is an incident, the one already open if it is still          *)
(* unexplained.  Whether the account was clean matters, and is kept here,   *)
(* on the routes that require it.                                           *)
Reconcile ==
    /\ healthy
    /\ connected
    /\ call.at \in {"idle", "reconciling"}
    /\ oms' = [oms EXCEPT !.incidents = @ \union Issues,
                          !.clean = IF ~RequiresClean THEN "NONE"
                                    ELSE IF Issues = {} THEN "CLEAN" ELSE "DIRTY"]
    /\ SaveThen(Idle)
    /\ UNCHANGED <<brokerVars, connected, submits, late>>

SnapshotLost == call.at = "reconciling" /\ SessionLost

(* explain_incident, the last unexplained one of a subject.                 *)
ExplainIncident(subject) ==
    /\ Ready
    /\ subject \in oms.incidents
    /\ oms' = [oms EXCEPT !.incidents = @ \ {subject}]
    /\ SaveThen(Idle)
    /\ UNCHANGED <<brokerVars, connected, submits, late>>

-----------------------------------------------------------------------------
(* activate_kill_switch / deactivate_kill_switch, for a scope that covers   *)
(* every order.  A release that changes nothing is not journaled.           *)
ActivateKillSwitch ==
    /\ Ready
    /\ oms' = [oms EXCEPT !.kill = TRUE]
    /\ SaveThen(Idle)
    /\ UNCHANGED <<brokerVars, connected, submits, late>>

DeactivateKillSwitch ==
    /\ Ready
    /\ oms.kill
    /\ oms' = [oms EXCEPT !.kill = FALSE]
    /\ SaveThen(Idle)
    /\ UNCHANGED <<brokerVars, connected, submits, late>>

-----------------------------------------------------------------------------
(* TaxLotBook::dispose keeps the instrument's bucket of lots when it takes  *)
(* the last one: only a later purchase fills it again.                      *)
EmptiedBucket(state) == state.applied # {} /\ state.position = 0

(* restore refuses a record that breaks one of these, the last by way of    *)
(* TaxLotBook::recover.                                                     *)
Restorable(state) ==
    /\ \A o \in Orders : RestoresOrder(state.orders[o], Qty[o])
    /\ state.position >= 0
    /\ ~EmptiedBucket(state)

(* The process dies and open_durable starts a new one from the journal: no  *)
(* broker session survives, and the bridge is a new process as well.  Where *)
(* the record cannot be restored the process may die too, but nothing comes *)
(* after that.                                                              *)
Restart ==
    /\ "CRASH" \in Faults
    /\ Restorable(disk)
    /\ oms' = disk
    /\ healthy' = TRUE
    /\ connected' = FALSE
    /\ call' = Idle
    /\ BridgeRestart
    /\ UNCHANGED <<disk, submits>>
    /\ NoteLate

-----------------------------------------------------------------------------
(* What the service does on its own once an operation has begun.            *)
ServiceStep ==
    \/ CallSubmit \/ RecordSubmit
    \/ CallCancel \/ RecordCancelFailure
    \/ RecordReplace \/ RecordReplaceFailure
    \/ ApplyEvent \/ FinishDrain

OperatorStep ==
    \/ \E o \in Orders : SubmitIntent(o) \/ RefuseIntent(o) \/ CancelOrder(o) \/ ReplaceOrder(o)
    \/ \E s \in oms.incidents : ExplainIncident(s)
    \/ Synchronize \/ Reconnect \/ LoseSession
    \/ Reconcile \/ SnapshotLost
    \/ ActivateKillSwitch \/ DeactivateKillSwitch

AtVenue(step) ==
    /\ step
    /\ UNCHANGED <<oms, disk, healthy, connected, call, submits>>
    /\ NoteLate

VenueStep ==
    \/ \E o \in Orders :
          \/ \E n \in 1..Qty[o] : AtVenue(VenueExecute(o, n))
          \/ \E type \in Closings : AtVenue(VenueClose(o, type))
          \/ AtVenue(VenueRejectCancel(o))
          \/ AtVenue(VenueModify(o))
          \/ AtVenue(VenueReplace(o))
          \/ AtVenue(VenueRejectReplace(o))
    \/ \E x \in executions : AtVenue(EmitExecution(x))

Next == ServiceStep \/ OperatorStep \/ VenueStep \/ Restart

Spec == Init /\ [][Next]_vars

-----------------------------------------------------------------------------
(* Safety                                                                   *)

(* Between two operations the journal's last record is exactly what the     *)
(* process holds in memory: every path through every operation, the failing *)
(* ones included, persists what it changed of the orders, the account, the  *)
(* kill switch and the incidents (persist after every mutation).            *)
JournalIsCurrent == Ready => disk = oms

(* Exactly-once accounting (execution_ids): in memory and in the journal,   *)
(* the filled quantity of an order is the sum of the distinct venue         *)
(* executions applied to it, and position and cash are what those fills     *)
(* make them, whatever was duplicated, replayed, rolled back or lost.       *)
FillsOf(state, o) ==
    MapThenSumSet(LAMBDA x : x.qty, {x \in state.applied : x.order = o})
Accounted(state) ==
    /\ state.applied \subseteq executions
    /\ \A o \in Orders : state.orders[o].filled = FillsOf(state, o)
    /\ state.position = MapThenSumSet(LAMBDA o : Signed(o, FillsOf(state, o)), Orders)
    /\ state.cash = InitialCash - state.position
FillsMatchExecutions == Accounted(oms) /\ Accounted(disk)

(* docs/01-domain/04: FILLED means the complete quantity and only that; a   *)
(* cancelled, rejected or expired order never holds all of it               *)
(* (transition_to_terminal, apply_broker_event).                            *)
FilledIsComplete ==
    \A o \in Orders : StateOf(o) = "FILLED" <=> oms.orders[o].filled = Qty[o]

(* The two together: what was executed is what the order record says.       *)
FillsAreFaithful == FillsMatchExecutions /\ FilledIsComplete

(* Pre-trade risk holds where it matters, at the venue: unless an execution *)
(* surfaced after its order was taken for closed, what the venue has bought *)
(* and may still buy is covered by the account's cash (evaluate_risk with   *)
(* total_reserved_cash), through crashes, UNKNOWN outcomes and lost         *)
(* evidence.                                                                *)
OpenAtVenue == {o \in Orders : WorkingAtVenue(o)}
Unexecuted(o) == Qty[o] - venue[o].filled
VenueWithinCash ==
    late = {} =>
        MapThenSumSet(Unexecuted, OpenAtVenue \ Sells) <= InitialCash - VenuePosition

(* The venue never works both sides of the instrument for this account, nor *)
(* more orders than max_open_orders, nor a sale of what is not held         *)
(* (conflicts_with_working_order, working_order_count,                      *)
(* breaches_position_limit), with the same exception.                       *)
VenueWithinLimits ==
    late = {} =>
        /\ \A o, p \in OpenAtVenue : (o \in Sells) = (p \in Sells)
        /\ Cardinality(OpenAtVenue) <= MaxOpenOrders
        /\ MapThenSumSet(Unexecuted, OpenAtVenue \intersect Sells) <= VenuePosition

(* Whatever the journal's last record is, restore accepts its orders and    *)
(* its position, and the whole of it unless a sale of the whole position    *)
(* has left its bucket behind: no other sequence of operations and evidence *)
(* writes a record that bars the next start (open_durable, restore).        *)
RestoresUnlessSoldOut ==
    /\ \A o \in Orders : RestoresOrder(disk.orders[o], Qty[o])
    /\ disk.position >= 0
    /\ Restorable(disk) \/ EmptiedBucket(disk)

(* Both sides, with evidence that is lost with its queue and repeated: the   *)
(* venue stays within the limits, the account is what was executed, and only *)
(* a position sold out keeps the record from being restored (evaluate_risk, *)
(* apply_accounted_fill, restore).                                          *)
SidesStayBooked == VenueWithinLimits /\ FillsMatchExecutions /\ RestoresUnlessSoldOut

(* The broker is asked at most once to submit an order, and an order the    *)
(* venue holds is in the journal: a restart neither loses nor resubmits it  *)
(* ("Persist PENDING_SUBMIT before crossing the external broker boundary"). *)
SubmittedOnce == \A o \in Orders : submits[o] <= 1
NoOrphanAtVenue == \A o \in Orders : Known(o) => disk.orders[o].state # "NONE"

-----------------------------------------------------------------------------
(* What a step may never do                                                 *)

(* In the journal a FILLED order stays so for good, and a cancelled,        *)
(* rejected or expired order leaves that state only with a new execution of *)
(* it: no acknowledgement, refusal, replacement or second closing reopens   *)
(* it (transition_to_terminal, apply_broker_event).                         *)
ReopenedOnlyByExecution ==
    [][\A o \in Orders :
          disk.orders[o].state \in Terminal /\ disk'.orders[o].state # disk.orders[o].state
             => /\ disk.orders[o].state # "FILLED"
                /\ \E x \in disk'.applied \ disk.applied : x.order = o]_vars

(* The venue learns of an order, and of its cancellation, only when the     *)
(* journal already says so (submit_intent_as, cancel_order_attributed).     *)
CommandsAreJournaled ==
    [][\A o \in Orders :
          /\ ~Known(o) /\ Known(o)' => disk.orders[o].state = "PENDING_SUBMIT"
          /\ "CANCEL" \in venue'[o].asked \ venue[o].asked
                => disk.orders[o].state = "PENDING_CANCEL"]_vars

(* After a failed append nothing more reaches the journal or the broker     *)
(* until the process is restarted (ensure_persistence_healthy).             *)
FailClosed ==
    [][~healthy /\ ~healthy' =>
          /\ UNCHANGED <<disk, submits>>
          /\ \A o \in Orders : "CANCEL" \in venue'[o].asked => "CANCEL" \in venue[o].asked]_vars

(* No order is accepted while the journal holds an active kill switch, an   *)
(* unexplained incident or an UNKNOWN order: these survive a restart and    *)
(* block the next process as well (evaluate_risk).                          *)
AcceptedOnlyWhenCleared ==
    [][\A o \in Orders :
          disk.orders[o].state = "NONE" /\ disk'.orders[o].state # "NONE"
             => /\ ~disk.kill /\ disk.incidents = {}
                /\ \A p \in Orders : disk.orders[p].state # "UNKNOWN"]_vars

(* The OMS implements the abstract ledger, with the journal as the ledger.  *)
Ledger ==
    INSTANCE OrderLedger WITH
        Fills <- PossibleExecutions,
        booked <- {o \in Orders : disk.orders[o].state # "NONE"},
        sent <- {o \in Orders : submits[o] > 0},
        executed <- executions,
        entered <- disk.applied
ImplementsLedger == Ledger!Spec

-----------------------------------------------------------------------------
(* Liveness                                                                 *)

(* An operation that has begun comes to its end.  The operator comes back   *)
(* to reconnect (the service polls nothing by itself) and restarts a        *)
(* process that has failed closed.                                          *)
ServiceProgress == WF_vars(ServiceStep \/ (call.at = "reconciling" /\ Reconcile))
OperatorDiligence == SF_vars(Reconnect) /\ WF_vars(~healthy /\ Restart)

(* The venue reports what it executed and ends every order it works: all    *)
(* orders of the bridge are DAY orders.                                     *)
VenueProgress ==
    /\ \A o \in Orders : SF_vars(\E type \in Closings : AtVenue(VenueClose(o, type)))
    /\ SF_vars(\E x \in executions : AtVenue(EmitExecution(x)))

FairSpec == Spec /\ ServiceProgress /\ OperatorDiligence /\ VenueProgress

(* A fault: a crash, a failed append, a lost session.                       *)
Fault ==
    \/ Restart
    \/ healthy /\ ~healthy'
    \/ connected /\ ~connected'
FaultsCease == <>[][~Fault]_vars

(* "Accepted intents resolve to a terminal state or explicit UNKNOWN"       *)
(* (docs/05-quality-security/01-reliability-and-testing.md): an order       *)
(* handed to the broker does not stay PENDING_SUBMIT.                       *)
Resolved(o) == StateOf(o) \in Terminal \union {"UNKNOWN"}
SubmissionResolves == \A o \in Orders : StateOf(o) = "PENDING_SUBMIT" ~> Resolved(o)

(* The same for every order that works, a reopened one included.            *)
WorkingOrderResolves == \A o \in Orders : IsWorking(oms.orders[o]) ~> Resolved(o)

(* Once faults cease, every execution the venue ever made reaches the       *)
(* journal: nothing drained and lost in a crash is lost for good            *)
(* (reconnect re-reads the executions, execution_ids drops the copies).     *)
ExecutionsReachJournal ==
    FaultsCease => \A o \in Orders : \A n \in 1..Qty[o] :
        (\E x \in executions : x.order = o /\ x.first = n)
            ~> (\E x \in disk.applied : x.order = o /\ x.first = n)

-----------------------------------------------------------------------------
(* Stated by the documentation, and not what the code does                  *)

(* "Reconcile automatically after every reconnect"                          *)
(* (docs/06-delivery/03-roadmap-and-gates.md) and "reconnect and reconcile  *)
(* before submission" (ensure_broker_ready_for_submission): the reconnect   *)
(* operation never leaves the route open for submission unless it ends with *)
(* the reconciliation.                                                      *)
ReconnectReconciles ==
    [][call.reconnecting /\ ~call'.reconnecting /\ healthy' /\ BrokerReady'
          => call.at = "reconciling"]_vars
=============================================================================

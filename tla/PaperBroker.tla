----------------------------- MODULE PaperBroker -----------------------------
(***************************************************************************)
(* The broker side of the PAPER route: what the PaperBrokerAdapter contract *)
(* (core/paper/src/broker.rs) lets an adapter and its venue do.  It is the  *)
(* envelope of the two adapters in the repository: the deterministic        *)
(* IbkrPaperAdapter (ibkr.rs) with its fault injection (fault.rs), which     *)
(* answers at once, and the official-API bridge                             *)
(* (python/ibkr-gateway/src/follon_ibkr_gateway.py), which answers through  *)
(* callbacks, reports an execution only when its commission is known, and   *)
(* forgets what it has reported when it restarts.                           *)
(*                                                                         *)
(* Quantities are counted in lots, and the lots of an order execute in      *)
(* order: an execution is named by the order, its first lot and its size.   *)
(***************************************************************************)
EXTENDS OrderLifecycle, Sequences, SequencesExt

CONSTANTS
    Orders,         \* the client order identities (OMS order ids) of the intents
    Qty,            \* the requested quantity of each order, in lots
    MaxVersion,     \* bound: broker-native identities the venue issues per order
    MaxPending,     \* bound: queued evidence beyond which the venue stays quiet
    Replacement,    \* PaperBrokerCapabilities::replacement of the route
    VenueCloses     \* the closings the venue makes on its own: rejection, expiry

ASSUME BrokerAssumption ==
    /\ Qty \in [Orders -> Nat \ {0}]
    /\ MaxVersion \in Nat \ {0}
    /\ MaxPending \in Nat
    /\ Replacement \in BOOLEAN
    /\ VenueCloses \subseteq Closed

(* Position, cash and reserves are sums over all orders.                    *)
ASSUME FinitelyManyOrders == IsFiniteSet(Orders)

(* The lots of the largest order.                                           *)
Lots == UNION {1..Qty[o] : o \in Orders}

VARIABLES
    venue,          \* the venue's record of each order; version 0 = never received
    executions,     \* every execution the venue has made
    emitted,        \* the executions the running adapter has already reported
    pending         \* evidence queued in the adapter, in arrival order

brokerVars == <<venue, executions, emitted, pending>>

VenueStates == {"NONE", "ACKNOWLEDGED", "PARTIALLY_FILLED", "FILLED"} \union Closed

VenueOrder ==
    [version : 0..MaxVersion, state : VenueStates, filled : Nat,
     asked : SUBSET {"CANCEL", "REPLACE"}]

Execution == [order : Orders, first : Nat, qty : Nat, version : Nat]

(* The executions the venue can make of an order.                           *)
PossibleExecutions ==
    {x \in [order : Orders, first : Lots, qty : Lots, version : 1..MaxVersion] :
        x.first + x.qty <= Qty[x.order] + 1}

Event == [type : EventTypes, order : Orders, version : Nat, first : Nat, qty : Nat]

BrokerTypeOK ==
    /\ venue \in [Orders -> VenueOrder]
    /\ executions \subseteq PossibleExecutions
    /\ emitted \subseteq executions
    /\ pending \in Seq(Event)

-----------------------------------------------------------------------------
Status(type, o, version) ==
    [type |-> type, order |-> o, version |-> version, first |-> 0, qty |-> 0]

Report(x) ==
    [type |-> "Execution", order |-> x.order, version |-> x.version,
     first |-> x.first, qty |-> x.qty]

ExecutionOf(e) ==
    [order |-> e.order, first |-> e.first, qty |-> e.qty, version |-> e.version]

IsExecution(e) == e.type = "Execution"

Known(o) == venue[o].version > 0
WorkingAtVenue(o) == Known(o) /\ venue[o].state \in {"ACKNOWLEDGED", "PARTIALLY_FILLED"}
Quiet == Len(pending) < MaxPending

NeverReceived == [version |-> 0, state |-> "NONE", filled |-> 0, asked |-> {}]

BrokerInit ==
    /\ venue = [o \in Orders |-> NeverReceived]
    /\ executions = {}
    /\ emitted = {}
    /\ pending = <<>>

-----------------------------------------------------------------------------
(* The venue receives the order as `state`.  A client identity it already   *)
(* holds is never accepted twice.                                           *)
Received(o, state, evidence) ==
    IF Known(o) THEN UNCHANGED brokerVars
    ELSE /\ venue' = [venue EXCEPT ![o].version = 1, ![o].state = state]
         /\ pending' = Append(pending, Status(evidence, o, 1))
         /\ UNCHANGED <<executions, emitted>>

(* submit.  A clean answer is the venue's; REJECTED is also the bridge's    *)
(* refusal before anything is sent; UNKNOWN and a transport ERROR say       *)
(* nothing of whether the venue holds the order.                            *)
SubmitAnswers == {"ACKNOWLEDGED", "REJECTED", "UNKNOWN", "ERROR"}
BrokerSubmit(o, answer) ==
    \/ answer # "REJECTED" /\ Received(o, "ACKNOWLEDGED", "Acknowledged")
    \/ answer = "REJECTED" /\ ~Known(o) /\ Received(o, "REJECTED", "Rejected")
    \/ answer # "ACKNOWLEDGED" /\ UNCHANGED brokerVars

(* cancel.  The request is passed on, or refused at once with evidence that *)
(* the order still works; a transport ERROR may follow either.              *)
BrokerCancel(o) ==
    \/ /\ venue' = [venue EXCEPT ![o].asked = @ \union {"CANCEL"}]
       /\ UNCHANGED <<executions, emitted, pending>>
    \/ /\ pending' = Append(pending, Status("CancelRejected", o, 0))
       /\ UNCHANGED <<venue, executions, emitted>>
    \/ UNCHANGED brokerVars

(* replace.  Only the version the venue works can be replaced.              *)
CanBeReplaced(o, version) ==
    venue[o].version = version /\ WorkingAtVenue(o) /\ version < MaxVersion
BrokerReplace(o) ==
    /\ venue' = [venue EXCEPT ![o].asked = @ \union {"REPLACE"}]
    /\ UNCHANGED <<executions, emitted, pending>>

(* A bridge process that is restarted has lost its queue and the memory of  *)
(* what it reported; the venue has lost nothing.                            *)
BridgeRestart ==
    /\ pending' = <<>>
    /\ emitted' = {}
    /\ UNCHANGED <<venue, executions>>

(* The reports of a sequence of executions.                                 *)
Reports(s) == [i \in DOMAIN s |-> Report(s[i])]

-----------------------------------------------------------------------------
(* queue_fill / execDetails: the venue executes some of what is left.       *)
(* Neither adapter ties this to the order's status, so an execution can     *)
(* follow a cancellation.                                                   *)
VenueExecute(o, n) ==
    /\ Known(o)
    /\ venue[o].filled + n <= Qty[o]
    /\ executions' = executions \union
          {[order |-> o, first |-> venue[o].filled + 1, qty |-> n,
            version |-> venue[o].version]}
    /\ venue' = [venue EXCEPT
          ![o].filled = @ + n,
          ![o].state = IF venue[o].filled + n = Qty[o] THEN "FILLED" ELSE "PARTIALLY_FILLED"]
    /\ UNCHANGED <<emitted, pending>>

(* _emit_execution_if_complete: an execution is reported once its           *)
(* commission is known, once per life of the adapter.                       *)
EmitExecution(x) ==
    /\ x \in executions \ emitted
    /\ Quiet
    /\ emitted' = emitted \union {x}
    /\ pending' = Append(pending, Report(x))
    /\ UNCHANGED <<venue, executions>>

(* The venue closes a working order, asked to or on its own.                *)
VenueClose(o, type) ==
    /\ WorkingAtVenue(o)
    /\ Quiet
    /\ \/ ClosingState(type) \in VenueCloses
       \/ type = "Cancelled" /\ "CANCEL" \in venue[o].asked
    /\ venue' = [venue EXCEPT ![o].state = ClosingState(type), ![o].asked = {}]
    /\ pending' = Append(pending, Status(type, o, 0))
    /\ UNCHANGED <<executions, emitted>>

(* The venue answers a cancellation it will not make.                       *)
VenueRejectCancel(o) ==
    /\ "CANCEL" \in venue[o].asked
    /\ Quiet
    /\ venue' = [venue EXCEPT ![o].asked = @ \ {"CANCEL"}]
    /\ pending' = Append(pending, Status("CancelRejected", o, 0))
    /\ UNCHANGED <<executions, emitted>>

(* A modification of the order observed at the venue (ReplaceRequested).    *)
VenueModify(o) ==
    /\ Replacement
    /\ Quiet
    /\ CanBeReplaced(o, venue[o].version)
    /\ "REPLACE" \notin venue[o].asked
    /\ venue' = [venue EXCEPT ![o].asked = @ \union {"REPLACE"}]
    /\ pending' = Append(pending, Status("ReplaceRequested", o, venue[o].version))
    /\ UNCHANGED <<executions, emitted>>

VenueReplace(o) ==
    /\ "REPLACE" \in venue[o].asked
    /\ Quiet
    /\ CanBeReplaced(o, venue[o].version)
    /\ venue' = [venue EXCEPT ![o].version = @ + 1, ![o].asked = @ \ {"REPLACE"}]
    /\ pending' = Append(pending, Status("Replaced", o, venue[o].version + 1))
    /\ UNCHANGED <<executions, emitted>>

VenueRejectReplace(o) ==
    /\ "REPLACE" \in venue[o].asked
    /\ Quiet
    /\ venue' = [venue EXCEPT ![o].asked = @ \ {"REPLACE"}]
    /\ pending' = Append(pending, Status("ReplaceRejected", o, 0))
    /\ UNCHANGED <<executions, emitted>>

-----------------------------------------------------------------------------
(* reconcile: what the broker's snapshot of one order has against `order`,  *)
(* the record an OMS keeps of it.                                           *)
IncidentKinds ==
    {"MISSING_BROKER_ORDER", "BROKER_ORDER_ID_MISMATCH", "BROKER_ORDER_VERSION_MISMATCH",
     "FILLED_QUANTITY_MISMATCH", "ORDER_STATE_MISMATCH", "UNEXPECTED_BROKER_ORDER"}

OrderIssues(order, o) ==
    LET current == order.brokerId = venue[o].version
    IN  {kind \in IncidentKinds :
           \/ kind = "MISSING_BROKER_ORDER" /\ ~Known(o) /\ IsWorking(order)
           \/ /\ Known(o) /\ order.state # "NONE"
              /\ \/ kind = "BROKER_ORDER_ID_MISMATCH" /\ ~current
                 \/ kind = "BROKER_ORDER_VERSION_MISMATCH"
                       /\ venue[o].version \notin order.versions
                 \/ kind = "FILLED_QUANTITY_MISMATCH" /\ order.filled # venue[o].filled
                 \/ kind = "ORDER_STATE_MISMATCH" /\ current /\ order.state # venue[o].state
           \/ kind = "UNEXPECTED_BROKER_ORDER" /\ Known(o) /\ order.state = "NONE"}
=============================================================================

--------------------------- MODULE OrderLifecycle ---------------------------
(***************************************************************************)
(* The life of one single order as the PAPER OMS records it: the states of *)
(* core/domain/src/lifecycle.rs, the table of legal transitions in          *)
(* core/control-plane/src/lib.rs, and what each normalized broker event     *)
(* does to one order record (core/paper/src/service/broker_events.rs).      *)
(*                                                                         *)
(* Everything here is a pure operator on one order record; the service that *)
(* owns the records, the journal and the broker is PaperOms.                *)
(***************************************************************************)
EXTENDS Integers, FiniteSets

(* CREATED, APPROVED, SUBMITTED and PENDING_RISK are passed through inside  *)
(* one handler and RISK_REJECTED orders are never stored: none of them is   *)
(* ever the state of a stored order.                                        *)
TransientStates == {"CREATED", "PENDING_RISK", "RISK_REJECTED", "APPROVED", "SUBMITTED"}

(* The order ended at the venue with part of its quantity unexecuted.       *)
Closed == {"CANCELLED", "REJECTED", "EXPIRED"}

(* PaperOrder::is_terminal, over the states a stored order can have.        *)
Terminal == Closed \union {"FILLED"}

StoredStates ==
    {"PENDING_SUBMIT", "ACKNOWLEDGED", "PARTIALLY_FILLED", "PENDING_CANCEL",
     "PENDING_REPLACE", "UNKNOWN"} \union Terminal

(* PaperOrder::working.                                                     *)
Working == StoredStates \ Terminal

OrderStates == StoredStates \union TransientStates

Revisable == {"ACKNOWLEDGED", "PARTIALLY_FILLED"}

(* is_valid_transition: the only single steps `OmsOrder::transition` takes. *)
Resolutions == {"ACKNOWLEDGED", "PARTIALLY_FILLED", "FILLED", "UNKNOWN"} \union Closed
ValidTransition(from, to) ==
    \/ from = "CREATED" /\ to \in {"APPROVED", "RISK_REJECTED"}
    \/ from = "APPROVED" /\ to = "PENDING_SUBMIT"
    \/ from = "PENDING_SUBMIT" /\ to \in {"SUBMITTED", "UNKNOWN"}
    \/ from = "SUBMITTED" /\ to \in {"ACKNOWLEDGED", "UNKNOWN"} \union Closed
    \/ /\ from \in Revisable
       /\ to \in {"FILLED", "PENDING_CANCEL", "PENDING_REPLACE", "UNKNOWN"} \union Closed
    \/ from = "ACKNOWLEDGED" /\ to = "PARTIALLY_FILLED"
    \/ from \in {"PENDING_CANCEL", "PENDING_REPLACE"} /\ to \in Resolutions
    \/ from = "UNKNOWN" /\ to \in (Resolutions \ {"UNKNOWN"}) \union {"PENDING_REPLACE"}
    \/ from \in Closed /\ to = "UNKNOWN"

-----------------------------------------------------------------------------
(* An order record.  `state` is "NONE" while the OMS has no such order.     *)
(* Broker-native identities are numbered per order in the order the venue   *)
(* issues them; 0 stands for "not known yet".  `returnState` is what a      *)
(* pending replacement goes back to, "NONE" when absent.                    *)
OrderRecord ==
    [state : StoredStates \union {"NONE"}, brokerId : Nat, versions : SUBSET Nat,
     returnState : Revisable \union {"NONE"}, filled : Nat]

AbsentOrder ==
    [state |-> "NONE", brokerId |-> 0, versions |-> {}, returnState |-> "NONE", filled |-> 0]

(* Faulty: the record is stored before it is advanced to PENDING_SUBMIT.    *)
NewOrderNotAdvanced == [AbsentOrder EXCEPT !.state = "CREATED"]

NewOrder == [AbsentOrder EXCEPT !.state = "PENDING_SUBMIT"]

IsWorking(order) == order.state \in Working

(* The evidence that ends an order at the venue.                            *)
Closings == {"Cancelled", "Rejected", "Expired"}

(* Broker evidence about one order: an acknowledgement or replacement of    *)
(* broker version `version`, an execution of `qty` lots of that version     *)
(* (first lot `first`), a closing status, or the refusal of a request.      *)
EventTypes ==
    Closings \union {"Acknowledged", "Execution", "CancelRejected",
                      "ReplaceRequested", "Replaced", "ReplaceRejected"}

(* The terminal state a closing status stands for.                          *)
ClosingState(type) ==
    CASE type = "Cancelled" -> "CANCELLED"
      [] type = "Rejected"  -> "REJECTED"
      [] type = "Expired"   -> "EXPIRED"

(* restore refuses an order record that breaks one of these.                *)
RestoresOrder(record, quantity) ==
    /\ record.brokerId # 0 => record.brokerId \in record.versions
    /\ record.filled <= quantity
    /\ record.state = "PENDING_REPLACE" => record.returnState # "NONE"

-----------------------------------------------------------------------------
(* Faulty: an UNKNOWN answer leaves the order as it was.                    *)
AnsweredIfKnown(order, answer) ==
    CASE answer = "ACKNOWLEDGED" ->
            [order EXCEPT !.state = answer, !.brokerId = 1, !.versions = {1}]
      [] answer = "REJECTED" -> [order EXCEPT !.state = answer]
      [] OTHER -> order

(* Recording the broker's answer to a submission.  A transport error is     *)
(* recorded as UNKNOWN.                                                     *)
Answered(order, answer) ==
    CASE answer = "ACKNOWLEDGED" ->
            [order EXCEPT !.state = answer, !.brokerId = 1, !.versions = {1}]
      [] answer = "ERROR" -> [order EXCEPT !.state = "UNKNOWN"]
      [] OTHER -> [order EXCEPT !.state = answer]

-----------------------------------------------------------------------------
(* transition_to_acknowledged: evidence that the venue holds the order.     *)
Acknowledge(state) ==
    IF state \in {"PENDING_SUBMIT", "SUBMITTED", "UNKNOWN"} THEN "ACKNOWLEDGED" ELSE state

(* restore_working_state.                                                   *)
WorkingState(filled) == IF filled = 0 THEN "ACKNOWLEDGED" ELSE "PARTIALLY_FILLED"

(* restore_replacement_state takes the state remembered when the            *)
(* replacement was requested; only without one does it look at the fills.   *)
Restored(order) ==
    [order EXCEPT !.state = IF order.returnState # "NONE" THEN order.returnState
                                                          ELSE WorkingState(order.filled),
                  !.returnState = "NONE"]

KnowsVersion(order, version) ==
    order.brokerId \in {0, version} \/ version \in order.versions

WithVersion(order, version) ==
    [order EXCEPT !.brokerId = IF order.brokerId = 0 THEN version ELSE order.brokerId,
                  !.versions = order.versions \union {version}]

-----------------------------------------------------------------------------
(* BrokerEvent::Acknowledged.  A late acknowledgement of an earlier version *)
(* changes nothing, and a terminal order only learns its broker identity.   *)
CanAcknowledge(order, e) == KnowsVersion(order, e.version)
AfterAcknowledge(order, e) ==
    IF order.brokerId \notin {0, e.version} THEN order
    ELSE [WithVersion(order, e.version) EXCEPT
             !.state = IF order.state \in Terminal THEN order.state
                                                   ELSE Acknowledge(order.state)]

(* BrokerEvent::Execution, once its identity is known to be new.  An        *)
(* execution of a closed order passes through UNKNOWN and reopens it.       *)
CanExecute(order, e, quantity) ==
    KnowsVersion(order, e.version) /\ order.filled + e.qty <= quantity
ExecutedState(state, complete) ==
    LET open == IF state \in Closed THEN "ACKNOWLEDGED" ELSE Acknowledge(state)
    IN  IF complete THEN "FILLED"
        ELSE IF open = "ACKNOWLEDGED" THEN "PARTIALLY_FILLED" ELSE open
AfterExecute(order, e, quantity) ==
    [WithVersion(order, e.version) EXCEPT
        !.filled = order.filled + e.qty,
        !.state = ExecutedState(order.state, order.filled + e.qty = quantity)]

(* transition_to_terminal: a later, conflicting terminal status never       *)
(* overwrites the first one, and a complete order cannot be closed.         *)
AfterClose(order, terminal) ==
    IF order.state \in Terminal THEN order ELSE [order EXCEPT !.state = terminal]
CanClose(order, terminal, quantity) ==
    AfterClose(order, terminal).state \in Closed => order.filled < quantity

(* BrokerEvent::CancelRejected.                                             *)
CanRejectCancel(order) == order.state \in {"PENDING_CANCEL", "UNKNOWN"} \union Terminal
(* Faulty: the refusal also revives an order that has ended.                *)
AfterRejectCancelAlways(order) == [order EXCEPT !.state = WorkingState(order.filled)]

AfterRejectCancel(order) ==
    IF order.state \in Terminal THEN order
    ELSE [order EXCEPT !.state = WorkingState(order.filled)]

(* BrokerEvent::ReplaceRequested, for broker version e.version.             *)
CanRequestReplace(order, e) ==
    /\ order.brokerId = e.version
    /\ order.state \in Revisable \union Terminal \union {"PENDING_REPLACE"}
PendingReplacement(order) ==
    [order EXCEPT !.state = "PENDING_REPLACE", !.returnState = order.state]
AfterRequestReplace(order) ==
    IF order.state \in Revisable THEN PendingReplacement(order) ELSE order

(* BrokerEvent::Replaced: version e.version replaces version e.version - 1. *)
(* A terminal order keeps its old identity and does not learn the new one.  *)
CanReplace(order, e) ==
    \/ /\ order.brokerId = e.version - 1
       /\ order.state \in {"PENDING_REPLACE", "UNKNOWN"} \union Terminal
    \/ order.brokerId # e.version - 1 /\ e.version \in order.versions
(* Faulty: the new identity is adopted and not added to the known versions. *)
AfterReplaceUnversioned(order, e) ==
    IF order.brokerId = e.version - 1 /\ order.state \in {"PENDING_REPLACE", "UNKNOWN"}
    THEN Restored([order EXCEPT !.brokerId = e.version])
    ELSE order

AfterReplace(order, e) ==
    IF order.brokerId = e.version - 1 /\ order.state \in {"PENDING_REPLACE", "UNKNOWN"}
    THEN Restored([order EXCEPT !.brokerId = e.version,
                                !.versions = order.versions \union {e.version}])
    ELSE order

(* BrokerEvent::ReplaceRejected.                                            *)
CanRejectReplace(order) == order.state \in {"PENDING_REPLACE", "UNKNOWN"} \union Terminal
AfterRejectReplace(order) ==
    IF order.state \in Terminal THEN order ELSE Restored(order)

-----------------------------------------------------------------------------
(* apply_broker_event on the order it names: whether the event is accepted, *)
(* and the record it leaves.  `quantity` is the order's requested quantity. *)
Accepts(order, e, quantity) ==
    /\ order.state # "NONE"
    /\ CASE e.type = "Acknowledged"     -> CanAcknowledge(order, e)
         [] e.type = "Execution"        -> CanExecute(order, e, quantity)
         [] e.type = "CancelRejected"   -> CanRejectCancel(order)
         [] e.type = "ReplaceRequested" -> CanRequestReplace(order, e)
         [] e.type = "Replaced"         -> CanReplace(order, e)
         [] e.type = "ReplaceRejected"  -> CanRejectReplace(order)
         [] OTHER                       -> CanClose(order, ClosingState(e.type), quantity)

Resolve(order, e, quantity) ==
    CASE e.type = "Acknowledged"     -> AfterAcknowledge(order, e)
      [] e.type = "Execution"        -> AfterExecute(order, e, quantity)
      [] e.type = "CancelRejected"   -> AfterRejectCancel(order)
      [] e.type = "ReplaceRequested" -> AfterRequestReplace(order)
      [] e.type = "Replaced"         -> AfterReplace(order, e)
      [] e.type = "ReplaceRejected"  -> AfterRejectReplace(order)
      [] OTHER                       -> AfterClose(order, ClosingState(e.type))
=============================================================================

--------------------------- MODULE PaperOms_proofs ---------------------------
(***************************************************************************)
(* Theorems about PaperOms, for any number of orders, any quantities, limits *)
(* and bounds, and any set of faults.                                       *)
(*                                                                         *)
(* The argument rests on one inductive invariant, Inv: the types, what the  *)
(* stage of the running operation says of its order (StageInv), how far the *)
(* journal may lag behind memory (JournalInv), and that all evidence of an  *)
(* execution, queued, drained or accounted, is of one the venue made        *)
(* (EvidenceInv).                                                           *)
(*                                                                         *)
(* The second part is about the order records and the account: what is      *)
(* booked is what was executed, every journal record can be restored, and   *)
(* an order that has ended comes back only with an execution.  It adds      *)
(* three parts to Inv: what the stage of the running operation says of its  *)
(* order's state, in memory and in the journal (CallInv); that each record  *)
(* agrees with itself (RecordsInv); and that the account is what the        *)
(* applied executions make it (AccountInv).                                 *)
(*                                                                         *)
(* The third is about the venue, which evaluate_risk never sees.            *)
(***************************************************************************)
EXTENDS PaperOms, PaperBroker_proofs

-----------------------------------------------------------------------------
(* The inductive invariant.                                                 *)

TypeInv == TypeOK /\ IsFiniteSet(executions)

StageInv ==
    /\ call.at \in {"submitting", "submitted", "cancelling", "cancel_failed",
                     "replaced", "replace_failed"}
          => call.order \in Orders /\ Exists(call.order)
    /\ call.at = "submitting" => StateOf(call.order) = "PENDING_SUBMIT"
    /\ call.at = "submitting" => submits[call.order] = 0
    /\ call.at = "submitted" => call.answer \in SubmitAnswers
    /\ call.at = "cancelling" => StateOf(call.order) = "PENDING_CANCEL"

JournalInv ==
    /\ healthy /\ call.at \notin {"replaced", "replace_failed"} => disk = oms
    /\ healthy => disk.applied = oms.applied
    /\ healthy => \A o \in Orders : disk.orders[o].state = "NONE" <=> ~Exists(o)
    /\ ~healthy => call.at = "idle"

SentInv ==
    \A o \in Orders :
        /\ submits[o] <= 1
        /\ submits[o] > 0 => disk.orders[o].state # "NONE"
        /\ Known(o) => submits[o] > 0

EvidenceInv ==
    /\ oms.applied \subseteq executions
    /\ disk.applied \subseteq executions
    /\ Genuine(pending, executions)
    /\ Genuine(call.events, executions)

Inv == TypeInv /\ StageInv /\ JournalInv /\ SentInv /\ EvidenceInv

(* poll, with its possible duplicate.                                       *)
LEMMA GenuineDrained ==
    ASSUME NEW queue \in Seq(Event), NEW made, Genuine(queue, made), NEW batch \in Drained(queue)
    PROVE  batch \in Seq(Event) /\ Genuine(batch, made)
  <1>1. CASE batch = queue
    BY <1>1
  <1>2. CASE batch # queue
    <2>1. queue # <<>> /\ batch = Append(queue, Head(queue))
      BY <1>2 DEF Drained
    <2> QED
      BY <2>1, GenuineTail, GenuineAppend
  <1> QED
    BY <1>1, <1>2

-----------------------------------------------------------------------------
(* The operations of the service.                                           *)

(* What a step leaves alone that books, sends, executes and enters nothing, *)
(* and one that enters at most one execution.                               *)
BookedUnchanged ==
    \A o \in Orders : disk'.orders[o].state = "NONE" <=> disk.orders[o].state = "NONE"

LedgerUnchanged ==
    BookedUnchanged /\ disk'.applied = disk.applied /\ UNCHANGED <<executions, submits>>

EntersAtMostOne ==
    /\ BookedUnchanged /\ UNCHANGED <<executions, submits>>
    /\ \/ disk'.applied = disk.applied
       \/ \E x \in executions : disk'.applied = disk.applied \union {x}

LEMMA CallTypes ==
    /\ Idle \in Call /\ Idle.at = "idle" /\ Idle.events = <<>>
    /\ \A at \in Stages, o \in Orders \union {NoOrder} :
          /\ Calling(at, o) \in Call
          /\ Calling(at, o).at = at /\ Calling(at, o).order = o /\ Calling(at, o).events = <<>>
  <1>1. Idle \in Call /\ Idle.at = "idle" /\ Idle.events = <<>>
    BY DEF Idle, Calling, Call, Stages
  <1>2. ASSUME NEW at \in Stages, NEW o \in Orders \union {NoOrder}
        PROVE  /\ Calling(at, o) \in Call
               /\ Calling(at, o).at = at /\ Calling(at, o).order = o
               /\ Calling(at, o).events = <<>>
    BY DEF Calling, Call
  <1> QED
    BY <1>1, <1>2

LEMMA SetOrderFacts ==
    ASSUME oms \in PersistentState, NEW o \in Orders, NEW record \in OrderRecord,
           SetOrder(o, record)
    PROVE  /\ oms' \in PersistentState
           /\ oms'.orders = [oms.orders EXCEPT ![o] = record]
           /\ oms'.applied = oms.applied
  BY DEF SetOrder, PersistentState

LEMMA SetStateFacts ==
    ASSUME oms \in PersistentState, NEW o \in Orders, NEW state \in StoredStates,
           SetState(o, state)
    PROVE  /\ oms' \in PersistentState
           /\ oms'.applied = oms.applied
           /\ oms'.orders[o].state = state
           /\ \A p \in Orders : p # o => oms'.orders[p] = oms.orders[p]
  <1> DEFINE record == [oms.orders[o] EXCEPT !.state = state]
  <1>1. oms.orders \in [Orders -> OrderRecord]
    BY DEF PersistentState
  <1>2. record \in OrderRecord /\ record.state = state
    BY <1>1 DEF OrderRecord
  <1>3. SetOrder(o, record)
    BY DEF SetState
  <1> HIDE DEF record
  <1> QED
    BY <1>1, <1>2, <1>3, SetOrderFacts

(* Most operations end by saving a state with the same orders and the same  *)
(* executions.                                                              *)
LEMMA SavedAndIdle ==
    ASSUME Inv, healthy, UNCHANGED <<brokerVars, submits>>, SaveThen(Idle),
           oms' \in PersistentState, oms'.applied = oms.applied,
           \A o \in Orders : Exists(o)' <=> Exists(o),
           connected' \in BOOLEAN, late' \subseteq Orders
    PROVE  Inv' /\ LedgerUnchanged
  <1>1. /\ healthy' \in BOOLEAN /\ call' = Idle /\ disk' \in {disk, oms'}
        /\ healthy' => disk' = oms'
    BY DEF SaveThen, Persisted, PersistFailed, Inv, TypeInv, TypeOK
  <1>2. disk' \in PersistentState
    BY <1>1 DEF Inv, TypeInv, TypeOK
  <1>3. TypeInv'
    BY <1>1, <1>2, CallTypes DEF Inv, TypeInv, TypeOK, BrokerTypeOK, brokerVars
  <1>4. StageInv'
    BY <1>1, CallTypes DEF StageInv
  <1>5. JournalInv'
    BY <1>1, CallTypes DEF JournalInv, Exists, StateOf
  <1>6. SentInv'
    BY <1>1 DEF Inv, SentInv, JournalInv, Known, brokerVars, Exists, StateOf
  <1>7. EvidenceInv'
    BY <1>1, CallTypes, GenuineEmpty DEF Inv, EvidenceInv, brokerVars
  <1>8. LedgerUnchanged
    BY <1>1 DEF Inv, JournalInv, LedgerUnchanged, BookedUnchanged, brokerVars, Exists, StateOf
  <1> QED
    BY <1>3, <1>4, <1>5, <1>6, <1>7, <1>8 DEF Inv

LEMMA SubmitIntentStep ==
    ASSUME Inv, NEW o \in Orders, SubmitIntent(o)
    PROVE  Inv'
  <1>1. NewOrder \in OrderRecord /\ NewOrder.state = "PENDING_SUBMIT"
    BY RecordStates DEF NewOrder, AbsentOrder, OrderRecord
  <1>2. /\ oms' \in PersistentState
        /\ oms'.orders = [oms.orders EXCEPT ![o] = NewOrder]
        /\ oms'.applied = oms.applied
    BY <1>1, SetOrderFacts DEF SubmitIntent, Inv, TypeInv, TypeOK
  <1>3. /\ oms'.orders[o].state = "PENDING_SUBMIT"
        /\ \A p \in Orders : p # o => oms'.orders[p] = oms.orders[p]
    BY <1>1, <1>2 DEF Inv, TypeInv, TypeOK, PersistentState
  <1>4. /\ healthy /\ disk = oms /\ ~Exists(o)
        /\ UNCHANGED <<brokerVars, connected, submits, late>>
    BY DEF SubmitIntent, Ready, Inv, JournalInv
  <1>5. submits[o] = 0
    BY <1>4 DEF Inv, SentInv, TypeInv, TypeOK, Exists, StateOf
  <1>6. /\ healthy' \in BOOLEAN /\ disk' \in {disk, oms'}
        /\ healthy' => disk' = oms' /\ call' = Calling("submitting", o)
        /\ ~healthy' => call' = Idle
    BY <1>4 DEF SubmitIntent, SaveThen, Persisted, PersistFailed
  <1>7. /\ call' \in Call /\ call'.events = <<>>
        /\ call'.at = IF healthy' THEN "submitting" ELSE "idle"
        /\ healthy' => call'.order = o
    BY <1>6, CallTypes DEF Stages
  <1>8. TypeInv'
    BY <1>2, <1>4, <1>6, <1>7 DEF Inv, TypeInv, TypeOK, BrokerTypeOK, brokerVars
  <1>9. StageInv'
    BY <1>3, <1>4, <1>5, <1>7 DEF StageInv, Exists, StateOf
  <1>10. JournalInv'
    BY <1>6, <1>7 DEF JournalInv, Exists, StateOf
  <1>11. SentInv'
    BY <1>3, <1>4, <1>5, <1>6 DEF Inv, SentInv, Known, brokerVars
  <1>12. EvidenceInv'
    BY <1>2, <1>4, <1>6, <1>7, GenuineEmpty DEF Inv, EvidenceInv, brokerVars
  <1> QED
    BY <1>8, <1>9, <1>10, <1>11, <1>12 DEF Inv

LEMMA CallSubmitStep ==
    ASSUME Inv, CallSubmit
    PROVE  Inv'
  <1> DEFINE o == call.order
  <1>1. PICK answer \in SubmitAnswers :
            /\ BrokerSubmit(o, answer)
            /\ call' = [call EXCEPT !.at = "submitted", !.answer = answer]
    BY DEF CallSubmit
  <1>2. /\ call.at = "submitting" /\ UNCHANGED <<oms, disk, healthy, connected, late>>
        /\ submits' = [submits EXCEPT ![o] = @ + 1]
    BY DEF CallSubmit
  <1>3. o \in Orders /\ Exists(o) /\ submits[o] = 0 /\ healthy /\ disk = oms
    BY <1>2 DEF Inv, StageInv, JournalInv
  <1>4. /\ call' \in Call /\ call'.at = "submitted" /\ call'.order = o
        /\ call'.answer = answer /\ call'.events = call.events
    BY <1>1 DEF Inv, TypeInv, TypeOK, Call, Stages
  <1>5. /\ submits' \in [Orders -> Nat] /\ submits'[o] = 1
        /\ \A p \in Orders : p # o => submits'[p] = submits[p]
    BY <1>2, <1>3 DEF Inv, TypeInv, TypeOK
  <1>6. /\ BrokerStepFacts /\ executions' = executions
        /\ \A p \in Orders : Known(p)' => Known(p) \/ p = o
    BY <1>1, <1>3, BrokerSubmitStep DEF Inv, TypeInv, TypeOK, EvidenceInv
  <1>7. TypeInv'
    BY <1>2, <1>4, <1>5, <1>6 DEF Inv, TypeInv, TypeOK, BrokerStepFacts
  <1>8. StageInv'
    BY <1>1, <1>2, <1>3, <1>4 DEF StageInv, Exists, StateOf
  <1>9. JournalInv'
    BY <1>2, <1>3, <1>4 DEF Inv, JournalInv, Exists, StateOf
  <1>10. SentInv'
    BY <1>2, <1>3, <1>5, <1>6 DEF Inv, SentInv, Exists, StateOf
  <1>11. EvidenceInv'
    BY <1>2, <1>4, <1>6 DEF Inv, EvidenceInv, BrokerStepFacts
  <1> QED
    BY <1>7, <1>8, <1>9, <1>10, <1>11 DEF Inv

LEMMA RecordSubmitStep ==
    ASSUME Inv, RecordSubmit
    PROVE  Inv' /\ LedgerUnchanged
  <1> DEFINE o == call.order
  <1> DEFINE record == Answered(oms.orders[o], call.answer)
  <1>1. o \in Orders /\ Exists(o) /\ call.answer \in SubmitAnswers /\ healthy
    BY DEF RecordSubmit, Inv, StageInv, JournalInv
  <1>2. oms.orders[o] \in OrderRecord
    BY <1>1 DEF Inv, TypeInv, TypeOK, PersistentState
  <1>3. record \in OrderRecord /\ record.state # "NONE"
    BY <1>1, <1>2, AnsweredIsStored
  <1>4. /\ oms' \in PersistentState
        /\ oms'.orders = [oms.orders EXCEPT ![o] = record]
        /\ oms'.applied = oms.applied
    BY <1>1, <1>3, SetOrderFacts DEF RecordSubmit, Inv, TypeInv, TypeOK
  <1>5. \A p \in Orders : Exists(p)' <=> Exists(p)
    BY <1>1, <1>3, <1>4 DEF Exists, StateOf, Inv, TypeInv, TypeOK, PersistentState
  <1>6. connected' \in BOOLEAN /\ late' \subseteq Orders
    BY DEF RecordSubmit, NoteLate, Inv, TypeInv, TypeOK
  <1> QED
    BY <1>1, <1>4, <1>5, <1>6, SavedAndIdle DEF RecordSubmit

(* A failed broker call.                                                    *)
LEMMA OutcomeUnknownStep ==
    ASSUME Inv, healthy, NEW o \in Orders, Exists(o), OutcomeUnknown(o),
           UNCHANGED <<brokerVars, submits, late>>
    PROVE  Inv' /\ LedgerUnchanged
  <1>1. /\ oms' \in PersistentState /\ oms'.applied = oms.applied
        /\ oms'.orders[o].state = "UNKNOWN"
        /\ \A p \in Orders : p # o => oms'.orders[p] = oms.orders[p]
    BY RecordStates, SetStateFacts DEF OutcomeUnknown, Inv, TypeInv, TypeOK
  <1>2. \A p \in Orders : Exists(p)' <=> Exists(p)
    BY <1>1 DEF Exists, StateOf
  <1>3. connected' \in BOOLEAN /\ late' \subseteq Orders
    BY DEF OutcomeUnknown, Inv, TypeInv, TypeOK
  <1>4. SaveThen(Idle) /\ UNCHANGED <<brokerVars, submits>>
    BY DEF OutcomeUnknown
  <1> QED
    BY <1>1, <1>2, <1>3, <1>4, SavedAndIdle

LEMMA RecordFailureStep ==
    ASSUME Inv, RecordCancelFailure \/ RecordReplaceFailure
    PROVE  Inv' /\ LedgerUnchanged
  <1>1. call.order \in Orders /\ Exists(call.order) /\ healthy
    BY DEF RecordCancelFailure, RecordReplaceFailure, Inv, StageInv, JournalInv
  <1> QED
    BY <1>1, OutcomeUnknownStep DEF RecordCancelFailure, RecordReplaceFailure

(* The operations that save without touching an order.                      *)
LEMMA OrdersUntouchedStep ==
    ASSUME Inv, healthy, UNCHANGED <<brokerVars, submits, late>>, SaveThen(Idle),
           connected' \in BOOLEAN, oms' \in PersistentState,
           oms'.orders = oms.orders, oms'.applied = oms.applied
    PROVE  Inv' /\ LedgerUnchanged
  <1>1. \A p \in Orders : Exists(p)' <=> Exists(p)
    BY DEF Exists, StateOf
  <1>2. late' \subseteq Orders
    BY DEF Inv, TypeInv, TypeOK
  <1> QED
    BY <1>1, <1>2, SavedAndIdle

LEMMA AccountStep ==
    ASSUME Inv,
           \/ \E o \in Orders : RefuseIntent(o)
           \/ \E s \in oms.incidents : ExplainIncident(s)
           \/ RecordReplace \/ LoseSession \/ SnapshotLost \/ Reconcile
           \/ ActivateKillSwitch \/ DeactivateKillSwitch
    PROVE  Inv' /\ LedgerUnchanged
  <1>1. oms \in PersistentState /\ connected \in BOOLEAN
    BY DEF Inv, TypeInv, TypeOK
  <1>2. ASSUME NEW o \in Orders, RefuseIntent(o)
        PROVE  Inv' /\ LedgerUnchanged
    BY <1>1, <1>2, OrdersUntouchedStep DEF RefuseIntent, Ready
  <1>3. ASSUME NEW s \in oms.incidents, ExplainIncident(s)
        PROVE  Inv' /\ LedgerUnchanged
    <2>1. oms' \in PersistentState /\ oms'.orders = oms.orders /\ oms'.applied = oms.applied
      BY <1>1, <1>3 DEF ExplainIncident, PersistentState
    <2> QED
      BY <1>1, <1>3, <2>1, OrdersUntouchedStep DEF ExplainIncident, Ready
  <1>4. CASE RecordReplace
    <2>1. healthy
      BY <1>4 DEF RecordReplace, Inv, JournalInv
    <2> QED
      BY <1>1, <1>4, <2>1, OrdersUntouchedStep DEF RecordReplace
  <1>5. CASE LoseSession
    BY <1>1, <1>5, OrdersUntouchedStep DEF LoseSession, SessionLost, Ready
  <1>6. CASE SnapshotLost
    <2>1. healthy
      BY <1>6 DEF SnapshotLost, Inv, JournalInv
    <2> QED
      BY <1>1, <1>6, <2>1, OrdersUntouchedStep DEF SnapshotLost, SessionLost
  <1>7. CASE Reconcile
    <2>1. Issues \subseteq Subjects
      BY DEF Issues, Subjects
    <2>2. oms' \in PersistentState /\ oms'.orders = oms.orders /\ oms'.applied = oms.applied
      BY <1>1, <1>7, <2>1 DEF Reconcile, PersistentState
    <2> QED
      BY <1>1, <1>7, <2>2, OrdersUntouchedStep DEF Reconcile
  <1>8. CASE ActivateKillSwitch
    <2>1. oms' \in PersistentState /\ oms'.orders = oms.orders /\ oms'.applied = oms.applied
      BY <1>1, <1>8 DEF ActivateKillSwitch, PersistentState
    <2> QED
      BY <1>1, <1>8, <2>1, OrdersUntouchedStep DEF ActivateKillSwitch, Ready
  <1>9. CASE DeactivateKillSwitch
    <2>1. oms' \in PersistentState /\ oms'.orders = oms.orders /\ oms'.applied = oms.applied
      BY <1>1, <1>9 DEF DeactivateKillSwitch, PersistentState
    <2> QED
      BY <1>1, <1>9, <2>1, OrdersUntouchedStep DEF DeactivateKillSwitch, Ready
  <1> QED
    BY <1>2, <1>3, <1>4, <1>5, <1>6, <1>7, <1>8, <1>9

LEMMA CancelOrderStep ==
    ASSUME Inv, NEW o \in Orders, CancelOrder(o)
    PROVE  Inv' /\ LedgerUnchanged
  <1>1. /\ oms' \in PersistentState /\ oms'.applied = oms.applied
        /\ oms'.orders[o].state = "PENDING_CANCEL"
        /\ \A p \in Orders : p # o => oms'.orders[p] = oms.orders[p]
    BY RecordStates, SetStateFacts DEF CancelOrder, Inv, TypeInv, TypeOK
  <1>2. /\ healthy /\ disk = oms /\ Exists(o)
        /\ UNCHANGED <<brokerVars, connected, submits, late>>
    BY DEF CancelOrder, Ready, Inv, JournalInv, Exists, Revisable
  <1>3. /\ healthy' \in BOOLEAN /\ disk' \in {disk, oms'}
        /\ healthy' => disk' = oms' /\ call' = Calling("cancelling", o)
        /\ ~healthy' => call' = Idle
    BY <1>2 DEF CancelOrder, SaveThen, Persisted, PersistFailed
  <1>4. /\ call' \in Call /\ call'.events = <<>>
        /\ call'.at = IF healthy' THEN "cancelling" ELSE "idle"
        /\ healthy' => call'.order = o
    BY <1>3, CallTypes DEF Stages
  <1>5. TypeInv'
    BY <1>1, <1>2, <1>3, <1>4 DEF Inv, TypeInv, TypeOK, BrokerTypeOK, brokerVars
  <1>6. StageInv'
    BY <1>1, <1>4 DEF StageInv, Exists, StateOf
  <1>7. JournalInv'
    BY <1>3, <1>4 DEF JournalInv, Exists, StateOf
  <1>8. SentInv'
    BY <1>1, <1>2, <1>3 DEF Inv, SentInv, Known, brokerVars
  <1>9. EvidenceInv'
    BY <1>1, <1>2, <1>3, <1>4, GenuineEmpty DEF Inv, EvidenceInv, brokerVars
  <1>10. LedgerUnchanged
    BY <1>1, <1>2, <1>3 DEF LedgerUnchanged, BookedUnchanged, brokerVars, Exists, StateOf
  <1> QED
    BY <1>5, <1>6, <1>7, <1>8, <1>9, <1>10 DEF Inv

LEMMA CallCancelStep ==
    ASSUME Inv, CallCancel
    PROVE  Inv' /\ LedgerUnchanged
  <1> DEFINE o == call.order
  <1>1. /\ o \in Orders /\ Exists(o) /\ healthy /\ disk = oms
        /\ call.at = "cancelling" /\ UNCHANGED <<oms, disk, healthy, connected, submits, late>>
    BY DEF CallCancel, Inv, StageInv, JournalInv
  <1>2. /\ BrokerStepFacts /\ executions' = executions
        /\ \A p \in Orders : Known(p)' <=> Known(p)
    BY <1>1, BrokerCancelStep DEF CallCancel, Inv, TypeInv, TypeOK, EvidenceInv
  <1>3. /\ call' \in Call /\ call'.events = <<>>
        /\ call'.at = "idle" \/ (call'.at = "cancel_failed" /\ call'.order = o)
    BY <1>1, CallTypes DEF CallCancel, Stages
  <1>4. TypeInv'
    BY <1>1, <1>2, <1>3 DEF Inv, TypeInv, TypeOK, BrokerStepFacts
  <1>5. StageInv'
    BY <1>1, <1>3 DEF StageInv, Exists, StateOf
  <1>6. JournalInv'
    BY <1>1, <1>3 DEF JournalInv, Exists, StateOf
  <1>7. SentInv'
    BY <1>1, <1>2 DEF Inv, SentInv
  <1>8. EvidenceInv'
    BY <1>1, <1>2, <1>3, GenuineEmpty DEF Inv, EvidenceInv, BrokerStepFacts
  <1>9. LedgerUnchanged
    BY <1>1, <1>2 DEF LedgerUnchanged, BookedUnchanged
  <1> QED
    BY <1>4, <1>5, <1>6, <1>7, <1>8, <1>9 DEF Inv

LEMMA ReplaceOrderStep ==
    ASSUME Inv, NEW o \in Orders, ReplaceOrder(o)
    PROVE  Inv' /\ LedgerUnchanged
  <1> DEFINE record == PendingReplacement(oms.orders[o])
  <1>1. /\ healthy /\ disk = oms /\ StateOf(o) \in Revisable /\ Exists(o)
        /\ UNCHANGED <<disk, healthy, connected, submits, late>>
    BY DEF ReplaceOrder, Ready, Inv, JournalInv, Exists, Revisable
  <1>2. record \in OrderRecord /\ record.state = "PENDING_REPLACE"
    BY <1>1, RecordStates
    DEF Inv, TypeInv, TypeOK, PersistentState, OrderRecord, PendingReplacement, StateOf
  <1>3. /\ oms' \in PersistentState
        /\ oms'.orders = [oms.orders EXCEPT ![o] = record]
        /\ oms'.applied = oms.applied
    BY <1>2, SetOrderFacts DEF ReplaceOrder, Inv, TypeInv, TypeOK
  <1>4. /\ oms'.orders[o].state = "PENDING_REPLACE"
        /\ \A p \in Orders : p # o => oms'.orders[p] = oms.orders[p]
    BY <1>2, <1>3 DEF Inv, TypeInv, TypeOK, PersistentState
  <1>5. /\ BrokerStepFacts /\ executions' = executions
        /\ \A p \in Orders : Known(p)' <=> Known(p)
    <2>1. CASE BrokerReplace(o)
      BY <2>1, BrokerReplaceStep DEF Inv, TypeInv, TypeOK, EvidenceInv
    <2>2. CASE UNCHANGED brokerVars
      BY <2>2, BrokerUnchanged DEF Inv, TypeInv, TypeOK, EvidenceInv, brokerVars, Known
    <2> QED
      BY <2>1, <2>2 DEF ReplaceOrder
  <1>6. /\ call' \in Call /\ call'.events = <<>> /\ call'.order = o
        /\ call'.at \in {"replaced", "replace_failed"}
    BY CallTypes DEF ReplaceOrder, Stages
  <1>7. TypeInv'
    BY <1>1, <1>3, <1>5, <1>6 DEF Inv, TypeInv, TypeOK, BrokerStepFacts
  <1>8. StageInv'
    BY <1>4, <1>6 DEF StageInv, Exists, StateOf
  <1>9. JournalInv'
    BY <1>1, <1>3, <1>4, <1>6 DEF Inv, JournalInv, Exists, StateOf
  <1>10. SentInv'
    BY <1>1, <1>5 DEF Inv, SentInv
  <1>11. EvidenceInv'
    BY <1>1, <1>3, <1>5, <1>6, GenuineEmpty DEF Inv, EvidenceInv, BrokerStepFacts
  <1>12. LedgerUnchanged
    BY <1>1, <1>5 DEF LedgerUnchanged, BookedUnchanged
  <1> QED
    BY <1>7, <1>8, <1>9, <1>10, <1>11, <1>12 DEF Inv

(* Draining: a poll takes the queue over as the batch.                      *)
LEMMA PollStep ==
    ASSUME Inv, call.at = "idle", healthy,
           NEW queue \in Seq(Event), Genuine(queue, executions), NEW reconnecting \in BOOLEAN,
           Poll(queue, reconnecting), UNCHANGED <<venue, executions, submits, late>>,
           emitted' \subseteq executions, connected' \in BOOLEAN
    PROVE  Inv' /\ LedgerUnchanged
  <1>1. PICK batch \in Drained(queue) :
            call' = [Idle EXCEPT !.at = "draining", !.events = batch,
                                 !.reconnecting = reconnecting]
    BY DEF Poll
  <1>2. batch \in Seq(Event) /\ Genuine(batch, executions)
    BY GenuineDrained
  <1>3. call' \in Call /\ call'.at = "draining" /\ call'.events = batch
    <2>1. Idle \in Call
      BY CallTypes
    <2> QED
      BY <1>1, <1>2, <2>1 DEF Call, Stages
  <1>4. pending' = <<>> /\ UNCHANGED <<oms, disk, healthy>>
    BY DEF Poll
  <1>5. TypeInv'
    BY <1>3, <1>4, GenuineEmpty DEF Inv, TypeInv, TypeOK, BrokerTypeOK
  <1>6. StageInv'
    BY <1>3 DEF StageInv
  <1>7. JournalInv'
    BY <1>3, <1>4 DEF Inv, JournalInv, Exists, StateOf
  <1>8. SentInv'
    BY <1>4 DEF Inv, SentInv, Known
  <1>9. EvidenceInv'
    BY <1>2, <1>3, <1>4, GenuineEmpty DEF Inv, EvidenceInv
  <1>10. LedgerUnchanged
    BY <1>4 DEF LedgerUnchanged, BookedUnchanged
  <1> QED
    BY <1>5, <1>6, <1>7, <1>8, <1>9, <1>10 DEF Inv

LEMMA SynchronizeStep ==
    ASSUME Inv, Synchronize
    PROVE  Inv' /\ LedgerUnchanged
  <1>1. pending \in Seq(Event) /\ Genuine(pending, executions) /\ emitted \subseteq executions
    BY DEF Inv, TypeInv, TypeOK, BrokerTypeOK, EvidenceInv
  <1>2. /\ call.at = "idle" /\ healthy /\ Poll(pending, FALSE)
        /\ UNCHANGED <<venue, executions, submits, late>>
        /\ emitted' = emitted /\ connected' = connected
    BY DEF Synchronize, Ready
  <1>3. connected \in BOOLEAN
    BY DEF Inv, TypeInv, TypeOK
  <1> QED
    BY <1>1, <1>2, <1>3, PollStep

LEMMA ReconnectStep ==
    ASSUME Inv, Reconnect
    PROVE  Inv' /\ LedgerUnchanged
  <1>1. PICK restarted \in {FALSE, "BRIDGE_RESTART" \in Faults} :
          LET queue == IF restarted THEN <<>> ELSE pending
              unread == IF restarted THEN executions ELSE executions \ emitted
          IN  \E s \in SetToSeqs(unread) : Poll(queue \o Reports(s), TRUE)
    BY DEF Reconnect
  <1> DEFINE queue == IF restarted THEN <<>> ELSE pending
  <1> DEFINE unread == IF restarted THEN executions ELSE executions \ emitted
  <1>2. PICK s \in SetToSeqs(unread) : Poll(queue \o Reports(s), TRUE)
    BY <1>1
  <1>3. queue \in Seq(Event) /\ Genuine(queue, executions)
    BY GenuineEmpty DEF Inv, TypeInv, TypeOK, BrokerTypeOK, EvidenceInv
  <1>4. /\ unread \subseteq executions /\ IsFiniteSet(executions)
        /\ executions \subseteq PossibleExecutions
    BY DEF Inv, TypeInv, TypeOK, BrokerTypeOK
  <1> HIDE DEF queue, unread
  <1>5. queue \o Reports(s) \in Seq(Event) /\ Genuine(queue \o Reports(s), executions)
    BY <1>3, <1>4, GenuineReports
  <1>6. /\ call.at = "idle" /\ healthy
        /\ UNCHANGED <<venue, executions, submits, late>>
        /\ emitted' = executions /\ connected' = TRUE
    BY DEF Reconnect, Ready
  <1> QED
    BY <1>2, <1>5, <1>6, PollStep

LEMMA WithFillFacts ==
    ASSUME NEW state \in PersistentState, NEW e,
           Signed(e.order, e.qty) \in Int, ExecutionOf(e) \in Execution
    PROVE  /\ WithFill(state, e) \in PersistentState
           /\ WithFill(state, e).orders = state.orders
           /\ WithFill(state, e).applied = state.applied \union {ExecutionOf(e)}
  <1> DEFINE applied == state.applied \union {ExecutionOf(e)}
  <1> DEFINE position == state.position + Signed(e.order, e.qty)
  <1> DEFINE cash == state.cash - Signed(e.order, e.qty)
  <1>1. applied \in SUBSET Execution
    BY DEF PersistentState
  <1>2. position \in Int /\ cash \in Int
    BY DEF PersistentState
  <1>3. WithFill(state, e) =
          [state EXCEPT !.applied = applied, !.position = position, !.cash = cash]
    BY DEF WithFill
  <1> HIDE DEF applied, position, cash
  <1>4. /\ WithFill(state, e) \in PersistentState
        /\ WithFill(state, e).orders = state.orders
        /\ WithFill(state, e).applied = applied
    BY <1>1, <1>2, <1>3 DEF PersistentState
  <1> QED
    BY <1>4 DEF applied

(* What one applied event does to the durable state.                        *)
LEMMA AppliedFacts ==
    ASSUME oms \in PersistentState, NEW e \in Event, Applicable(e),
           IsExecution(e) => ExecutionOf(e) \in executions
    PROVE  /\ Applied(e) \in PersistentState
           /\ \A p \in Orders : Applied(e).orders[p].state = "NONE" <=> ~Exists(p)
           /\ \/ Applied(e).applied = oms.applied
              \/ /\ ExecutionOf(e) \in executions
                 /\ Applied(e).applied = oms.applied \union {ExecutionOf(e)}
  <1> DEFINE o == e.order
  <1> DEFINE record == Resolve(oms.orders[o], e, Qty[o])
  <1> DEFINE moved == [oms EXCEPT !.orders[o] = record]
  <1>1. CASE Duplicate(e)
    BY <1>1 DEF Applied, Exists, StateOf
  <1>2. CASE ~Duplicate(e)
    <2>1. o \in Orders /\ Qty[o] \in Nat
      BY BrokerAssumption DEF Event
    <2>2. oms.orders[o] \in OrderRecord
      BY <2>1 DEF PersistentState
    <2>3. Accepts(oms.orders[o], e, Qty[o])
      BY <1>2 DEF Applicable
    <2>4. oms.orders[o] \in StoredOrder /\ Exists(o)
      BY <2>2, <2>3 DEF Accepts, StoredOrder, OrderRecord, Exists, StateOf
    <2>5. record \in StoredOrder
      BY <2>1, <2>3, <2>4, ResolveKeepsStored
    <2>6. record \in OrderRecord /\ record.state # "NONE"
      BY <2>5, RecordStates DEF StoredOrder
    <2> HIDE DEF record
    <2>7. /\ moved \in PersistentState /\ moved.applied = oms.applied
          /\ moved.orders = [oms.orders EXCEPT ![o] = record]
      BY <2>1, <2>6 DEF PersistentState
    <2>8. \A p \in Orders : moved.orders[p].state = "NONE" <=> ~Exists(p)
      BY <2>1, <2>4, <2>6, <2>7 DEF Exists, StateOf, PersistentState
    <2> HIDE DEF moved
    <2>9. CASE IsExecution(e)
      <3>1. Applied(e) = WithFill(moved, e)
        BY <1>2, <2>9 DEF Applied, moved, record
      <3>2. Signed(o, e.qty) \in Int
        BY DEF Signed, Event
      <3>3. ExecutionOf(e) \in Execution
        BY DEF ExecutionOf, Execution, Event
      <3>4. /\ WithFill(moved, e) \in PersistentState
            /\ WithFill(moved, e).orders = moved.orders
            /\ WithFill(moved, e).applied = moved.applied \union {ExecutionOf(e)}
        BY <2>7, <3>2, <3>3, WithFillFacts
      <3> QED
        BY <2>7, <2>8, <2>9, <3>1, <3>4
    <2>10. CASE ~IsExecution(e)
      <3>1. Applied(e) = moved
        BY <1>2, <2>10 DEF Applied, moved, record
      <3> QED
        BY <2>7, <2>8, <3>1
    <2> QED
      BY <2>9, <2>10
  <1> QED
    BY <1>1, <1>2

LEMMA ApplyEventStep ==
    ASSUME Inv, ApplyEvent
    PROVE  Inv' /\ EntersAtMostOne
  <1> DEFINE e == Head(call.events)
  <1> DEFINE rest == [call EXCEPT !.events = Tail(@)]
  <1>1. /\ call \in Call /\ call.at = "draining" /\ call.events # <<>>
        /\ UNCHANGED <<brokerVars, connected, submits>> /\ late' \subseteq Orders
    BY DEF ApplyEvent, NoteLate, Inv, TypeInv, TypeOK
  <1>2. call.events \in Seq(Event) /\ Genuine(call.events, executions)
    BY <1>1 DEF Call, Inv, EvidenceInv
  <1>3. /\ e \in Event /\ (IsExecution(e) => ExecutionOf(e) \in executions)
        /\ Tail(call.events) \in Seq(Event) /\ Genuine(Tail(call.events), executions)
    BY <1>1, <1>2, GenuineTail
  <1>4. rest \in Call /\ rest.at = "draining" /\ rest.events = Tail(call.events)
    BY <1>1, <1>3 DEF Call
  <1>5. healthy /\ disk = oms
    BY <1>1 DEF Inv, JournalInv
  <1>6. CASE Applicable(e) /\ oms' = Applied(e) /\ SaveThen(rest)
    <2>1. /\ oms' \in PersistentState
          /\ \A p \in Orders : oms'.orders[p].state = "NONE" <=> ~Exists(p)
          /\ \/ oms'.applied = oms.applied
             \/ \E x \in executions : oms'.applied = oms.applied \union {x}
          /\ oms'.applied \subseteq executions
      BY <1>3, <1>6, AppliedFacts DEF Inv, TypeInv, TypeOK, EvidenceInv
    <2>2. /\ healthy' \in BOOLEAN /\ disk' \in {disk, oms'}
          /\ healthy' => disk' = oms' /\ call' = rest
          /\ ~healthy' => call' = Idle
      BY <1>5, <1>6 DEF SaveThen, Persisted, PersistFailed
    <2> HIDE DEF rest
    <2>3. /\ call' \in Call /\ call'.at \in {"idle", "draining"}
          /\ Genuine(call'.events, executions) /\ (~healthy' => call'.at = "idle")
      BY <1>3, <1>4, <2>2, CallTypes, GenuineEmpty
    <2>4. TypeInv'
      BY <1>1, <2>1, <2>2, <2>3 DEF Inv, TypeInv, TypeOK, BrokerTypeOK, brokerVars
    <2>5. StageInv'
      BY <2>3 DEF StageInv
    <2>6. JournalInv'
      BY <2>2, <2>3 DEF JournalInv, Exists, StateOf
    <2>7. SentInv'
      BY <1>1, <1>5, <2>1, <2>2 DEF Inv, SentInv, Known, brokerVars, Exists, StateOf
    <2>8. EvidenceInv'
      BY <1>1, <2>1, <2>2, <2>3 DEF Inv, EvidenceInv, brokerVars
    <2>9. EntersAtMostOne
      BY <1>1, <1>5, <2>1, <2>2 DEF EntersAtMostOne, BookedUnchanged, brokerVars, Exists, StateOf
    <2> QED
      BY <2>4, <2>5, <2>6, <2>7, <2>8, <2>9 DEF Inv
  <1>7. CASE call' = [rest EXCEPT !.failed = TRUE] /\ UNCHANGED <<oms, disk, healthy>>
    <2>1. /\ call' \in Call /\ call'.at = "draining" /\ call'.events = Tail(call.events)
      BY <1>4, <1>7 DEF Call
    <2>2. TypeInv'
      BY <1>1, <1>7, <2>1 DEF Inv, TypeInv, TypeOK, BrokerTypeOK, brokerVars
    <2>3. StageInv'
      BY <2>1 DEF StageInv
    <2>4. JournalInv'
      BY <1>5, <1>7, <2>1 DEF JournalInv, Exists, StateOf
    <2>5. SentInv'
      BY <1>1, <1>7 DEF Inv, SentInv, Known, brokerVars
    <2>6. EvidenceInv'
      BY <1>1, <1>3, <1>7, <2>1 DEF Inv, EvidenceInv, brokerVars
    <2>7. EntersAtMostOne
      BY <1>1, <1>7 DEF EntersAtMostOne, BookedUnchanged, brokerVars
    <2> QED
      BY <2>2, <2>3, <2>4, <2>5, <2>6, <2>7 DEF Inv
  <1> QED
    BY <1>6, <1>7 DEF ApplyEvent

LEMMA FinishDrainStep ==
    ASSUME Inv, FinishDrain
    PROVE  Inv' /\ LedgerUnchanged
  <1>1. /\ call \in Call /\ call.at = "draining" /\ call.events = <<>>
        /\ UNCHANGED <<brokerVars, oms, disk, healthy, connected, submits, late>>
    BY DEF FinishDrain, Inv, TypeInv, TypeOK
  <1>2. call' \in Call /\ call'.at \in {"idle", "reconciling"} /\ call'.events = <<>>
    BY <1>1, CallTypes DEF FinishDrain, Call, Stages
  <1>3. healthy /\ disk = oms
    BY <1>1 DEF Inv, JournalInv
  <1>4. TypeInv'
    BY <1>1, <1>2 DEF Inv, TypeInv, TypeOK, BrokerTypeOK, brokerVars
  <1>5. StageInv'
    BY <1>2 DEF StageInv
  <1>6. JournalInv'
    BY <1>1, <1>2, <1>3 DEF JournalInv, Exists, StateOf
  <1>7. SentInv'
    BY <1>1 DEF Inv, SentInv, Known, brokerVars
  <1>8. EvidenceInv'
    BY <1>1, <1>2, GenuineEmpty DEF Inv, EvidenceInv, brokerVars
  <1>9. LedgerUnchanged
    BY <1>1 DEF LedgerUnchanged, BookedUnchanged, brokerVars
  <1> QED
    BY <1>4, <1>5, <1>6, <1>7, <1>8, <1>9 DEF Inv

LEMMA RestartStep ==
    ASSUME Inv, Restart
    PROVE  Inv' /\ LedgerUnchanged
  <1>1. /\ oms' = disk /\ healthy' = TRUE /\ connected' = FALSE /\ call' = Idle
        /\ pending' = <<>> /\ emitted' = {}
        /\ UNCHANGED <<venue, executions, disk, submits>> /\ late' \subseteq Orders
    BY DEF Restart, BridgeRestart, NoteLate, Inv, TypeInv, TypeOK
  <1>2. TypeInv'
    BY <1>1, CallTypes, GenuineEmpty DEF Inv, TypeInv, TypeOK, BrokerTypeOK
  <1>3. StageInv'
    BY <1>1, CallTypes DEF StageInv
  <1>4. JournalInv'
    BY <1>1 DEF JournalInv, Exists, StateOf
  <1>5. SentInv'
    BY <1>1 DEF Inv, SentInv, Known
  <1>6. EvidenceInv'
    BY <1>1, CallTypes, GenuineEmpty DEF Inv, EvidenceInv
  <1>7. LedgerUnchanged
    BY <1>1 DEF LedgerUnchanged, BookedUnchanged
  <1> QED
    BY <1>2, <1>3, <1>4, <1>5, <1>6, <1>7 DEF Inv

(* A step of the venue, between any two steps of the service.               *)
LEMMA VenueStepLemma ==
    ASSUME Inv, VenueStep
    PROVE  /\ VenueStepFacts
           /\ UNCHANGED <<oms, disk, healthy, connected, call, submits>>
           /\ late' \subseteq Orders
  <1>1. BrokerTypeOK /\ IsFiniteSet(executions) /\ Genuine(pending, executions)
    BY DEF Inv, TypeInv, TypeOK, EvidenceInv
  <1>2. late \subseteq Orders
    BY DEF Inv, TypeInv, TypeOK
  <1>3. ASSUME NEW o \in Orders, NEW n \in 1..Qty[o], AtVenue(VenueExecute(o, n))
        PROVE  /\ VenueStepFacts /\ late' \subseteq Orders
               /\ UNCHANGED <<oms, disk, healthy, connected, call, submits>>
    BY <1>1, <1>2, <1>3, VenueExecuteStep DEF AtVenue, NoteLate
  <1>4. ASSUME NEW o \in Orders, NEW type \in Closings, AtVenue(VenueClose(o, type))
        PROVE  /\ VenueStepFacts /\ late' \subseteq Orders
               /\ UNCHANGED <<oms, disk, healthy, connected, call, submits>>
    BY <1>1, <1>2, <1>4, VenueCloseStep DEF AtVenue, NoteLate
  <1>5. ASSUME NEW o \in Orders,
               \/ AtVenue(VenueRejectCancel(o)) \/ AtVenue(VenueRejectReplace(o))
               \/ AtVenue(VenueModify(o)) \/ AtVenue(VenueReplace(o))
        PROVE  /\ VenueStepFacts /\ late' \subseteq Orders
               /\ UNCHANGED <<oms, disk, healthy, connected, call, submits>>
    BY <1>1, <1>2, <1>5, VenueAnswerStep DEF AtVenue, NoteLate
  <1>6. ASSUME NEW x \in executions, AtVenue(EmitExecution(x))
        PROVE  /\ VenueStepFacts /\ late' \subseteq Orders
               /\ UNCHANGED <<oms, disk, healthy, connected, call, submits>>
    BY <1>1, <1>2, <1>6, EmitExecutionStep DEF AtVenue, NoteLate
  <1> QED
    BY <1>3, <1>4, <1>5, <1>6 DEF VenueStep

LEMMA VenueKeepsInv ==
    ASSUME Inv, VenueStep
    PROVE  Inv'
  <1>1. /\ BrokerStepFacts /\ VenueStepFacts
        /\ UNCHANGED <<oms, disk, healthy, connected, call, submits>> /\ late' \subseteq Orders
    BY VenueStepLemma DEF VenueStepFacts
  <1>2. TypeInv'
    BY <1>1 DEF Inv, TypeInv, TypeOK, BrokerStepFacts
  <1>3. StageInv'
    BY <1>1 DEF Inv, StageInv, Exists, StateOf
  <1>4. JournalInv'
    BY <1>1 DEF Inv, JournalInv, Exists, StateOf
  <1>5. SentInv'
    BY <1>1 DEF Inv, SentInv, VenueStepFacts
  <1>6. EvidenceInv'
    BY <1>1, GenuineMore DEF Inv, EvidenceInv, BrokerStepFacts
  <1> QED
    BY <1>2, <1>3, <1>4, <1>5, <1>6 DEF Inv

-----------------------------------------------------------------------------
(* The invariant holds.                                                     *)

LEMMA InitEstablishesInv == Init => Inv
  <1> SUFFICES ASSUME Init PROVE Inv
    OBVIOUS
  <1> USE DEF Init, BrokerInit
  <1>1. NeverReceived \in VenueOrder /\ NeverReceived.version = 0
    BY BrokerAssumption DEF NeverReceived, VenueOrder, VenueStates
  <1>2. AbsentOrder \in OrderRecord /\ AbsentOrder.state = "NONE"
    BY DEF AbsentOrder, OrderRecord
  <1>3. BrokerTypeOK
    BY <1>1, GenuineEmpty DEF BrokerTypeOK
  <1>4. oms \in PersistentState /\ oms.applied = {}
    BY <1>2, OmsAssumption DEF PersistentState, Subjects
  <1>5. TypeInv
    BY <1>3, <1>4, CallTypes, FS_EmptySet DEF TypeInv, TypeOK
  <1>6. StageInv
    BY CallTypes DEF StageInv
  <1>7. JournalInv
    BY DEF JournalInv, Exists, StateOf
  <1>8. SentInv
    BY <1>1 DEF SentInv, Known
  <1>9. EvidenceInv
    BY <1>4, CallTypes, GenuineEmpty DEF EvidenceInv
  <1> QED
    BY <1>5, <1>6, <1>7, <1>8, <1>9 DEF Inv

(* Every step but those that book, send, execute or enter.                  *)
OtherStep ==
    \/ RecordSubmit \/ CallCancel \/ RecordCancelFailure
    \/ RecordReplace \/ RecordReplaceFailure \/ FinishDrain
    \/ \E o \in Orders : RefuseIntent(o) \/ CancelOrder(o) \/ ReplaceOrder(o)
    \/ \E s \in oms.incidents : ExplainIncident(s)
    \/ Synchronize \/ Reconnect \/ LoseSession \/ Reconcile \/ SnapshotLost
    \/ ActivateKillSwitch \/ DeactivateKillSwitch
    \/ Restart

LEMMA StepsOfNext ==
    ASSUME Next
    PROVE  \/ \E o \in Orders : SubmitIntent(o)
           \/ CallSubmit \/ ApplyEvent \/ VenueStep \/ OtherStep
  BY DEF Next, ServiceStep, OperatorStep, OtherStep

LEMMA OtherStepKeepsLedger ==
    ASSUME Inv, OtherStep
    PROVE  Inv' /\ LedgerUnchanged
  <1>1. CASE RecordSubmit
    BY <1>1, RecordSubmitStep
  <1>2. CASE CallCancel
    BY <1>2, CallCancelStep
  <1>3. CASE RecordCancelFailure \/ RecordReplaceFailure
    BY <1>3, RecordFailureStep
  <1>4. CASE FinishDrain
    BY <1>4, FinishDrainStep
  <1>5. CASE \E o \in Orders : CancelOrder(o)
    BY <1>5, CancelOrderStep
  <1>6. CASE \E o \in Orders : ReplaceOrder(o)
    BY <1>6, ReplaceOrderStep
  <1>7. CASE Synchronize
    BY <1>7, SynchronizeStep
  <1>8. CASE Reconnect
    BY <1>8, ReconnectStep
  <1>9. CASE Restart
    BY <1>9, RestartStep
  <1>10. CASE \/ \E o \in Orders : RefuseIntent(o)
              \/ \E s \in oms.incidents : ExplainIncident(s)
              \/ RecordReplace \/ LoseSession \/ SnapshotLost \/ Reconcile
              \/ ActivateKillSwitch \/ DeactivateKillSwitch
    BY <1>10, AccountStep
  <1> QED
    BY <1>1, <1>2, <1>3, <1>4, <1>5, <1>6, <1>7, <1>8, <1>9, <1>10 DEF OtherStep

LEMMA NextKeepsInv == Inv /\ [Next]_vars => Inv'
  <1> SUFFICES ASSUME Inv, [Next]_vars PROVE Inv'
    OBVIOUS
  <1>1. CASE \E o \in Orders : SubmitIntent(o)
    BY <1>1, SubmitIntentStep
  <1>2. CASE CallSubmit
    BY <1>2, CallSubmitStep
  <1>3. CASE ApplyEvent
    BY <1>3, ApplyEventStep
  <1>4. CASE VenueStep
    BY <1>4, VenueKeepsInv
  <1>5. CASE OtherStep
    BY <1>5, OtherStepKeepsLedger
  <1>6. CASE UNCHANGED vars
    <2> USE <1>6 DEF vars
    <2>1. TypeInv'
      BY DEF Inv, TypeInv, TypeOK, BrokerTypeOK
    <2>2. StageInv' /\ JournalInv'
      BY DEF Inv, StageInv, JournalInv, Exists, StateOf
    <2>3. SentInv' /\ EvidenceInv'
      BY DEF Inv, SentInv, Known, EvidenceInv
    <2> QED
      BY <2>1, <2>2, <2>3 DEF Inv
  <1> QED
    BY <1>1, <1>2, <1>3, <1>4, <1>5, <1>6, StepsOfNext

LEMMA Invariance == Spec => []Inv
  BY InitEstablishesInv, NextKeepsInv, PTL DEF Spec

-----------------------------------------------------------------------------
(* What every reachable state satisfies.                                    *)

(* Every variable keeps its type: no sequence of operations, evidence and   *)
(* faults stores an order in a transient state or leaves an operation       *)
(* without its order (submit.rs, broker_events.rs, reconcile.rs).           *)
THEOREM TypeCorrect == Spec => []TypeOK
  <1>1. Inv => TypeOK
    BY DEF Inv, TypeInv
  <1> QED
    BY <1>1, Invariance, PTL

(* Between operations the journal's last record is the memory (persist).    *)
THEOREM JournalCurrent == Spec => []JournalIsCurrent
  <1>1. Inv => JournalIsCurrent
    BY DEF Inv, JournalInv, JournalIsCurrent, Ready
  <1> QED
    BY <1>1, Invariance, PTL

(* The broker is never asked twice to submit an order, whatever crashes,    *)
(* failed appends and retries come between (submit_intent_as).              *)
THEOREM NeverResubmitted == Spec => []SubmittedOnce
  <1>1. Inv => SubmittedOnce
    BY DEF Inv, SentInv, SubmittedOnce
  <1> QED
    BY <1>1, Invariance, PTL

(* No order is at the venue that the journal does not hold: a restart finds *)
(* every order it may have to account for (persist before submit).          *)
THEOREM NoOrphan == Spec => []NoOrphanAtVenue
  <1>1. Inv => NoOrphanAtVenue
    BY DEF Inv, SentInv, NoOrphanAtVenue
  <1> QED
    BY <1>1, Invariance, PTL

-----------------------------------------------------------------------------
(* What no step does.                                                       *)

(* No order enters the journal while the journal holds an active kill       *)
(* switch, an unexplained incident or an UNKNOWN order (evaluate_risk).     *)
THEOREM OnlyClearedAccepted == Spec => AcceptedOnlyWhenCleared
  <1> DEFINE A == \A o \in Orders :
          disk.orders[o].state = "NONE" /\ disk'.orders[o].state # "NONE"
             => /\ ~disk.kill /\ disk.incidents = {}
                /\ \A p \in Orders : disk.orders[p].state # "UNKNOWN"
  <1>1. ASSUME Inv, Next PROVE A
    <2>1. CASE \E o \in Orders : SubmitIntent(o)
      <3>1. PICK o \in Orders : SubmitIntent(o)
        BY <2>1
      <3>2. disk = oms /\ Cleared
        BY <1>1, <3>1 DEF SubmitIntent, Ready, RiskApproves, Inv, JournalInv
      <3> QED
        BY <3>2 DEF Cleared, HasUnknownOrder, StateOf
    <2>2. CASE CallSubmit
      BY <2>2 DEF CallSubmit
    <2>3. CASE ApplyEvent
      BY <1>1, <2>3, ApplyEventStep DEF EntersAtMostOne, BookedUnchanged
    <2>4. CASE VenueStep
      BY <1>1, <2>4, VenueStepLemma
    <2>5. CASE OtherStep
      BY <1>1, <2>5, OtherStepKeepsLedger DEF LedgerUnchanged, BookedUnchanged
    <2> QED
      BY <1>1, <2>1, <2>2, <2>3, <2>4, <2>5, StepsOfNext
  <1>2. Inv /\ [Next]_vars => [A]_vars
    BY <1>1
  <1> QED
    BY <1>2, Invariance, PTL DEF Spec, AcceptedOnlyWhenCleared

(* The venue learns of an order and of its cancellation only when the       *)
(* journal already says so (submit_intent_as, cancel_order_attributed).     *)
THEOREM JournaledCommands == Spec => CommandsAreJournaled
  <1> DEFINE A == \A o \in Orders :
          /\ ~Known(o) /\ Known(o)' => disk.orders[o].state = "PENDING_SUBMIT"
          /\ "CANCEL" \in venue'[o].asked \ venue[o].asked
                => disk.orders[o].state = "PENDING_CANCEL"
  <1>1. ASSUME Inv, Next PROVE A
    <2>1. CASE CallSubmit
      <3>1. /\ call.at = "submitting" /\ call.order \in Orders
            /\ disk.orders[call.order].state = "PENDING_SUBMIT"
        BY <1>1, <2>1 DEF CallSubmit, Inv, StageInv, JournalInv, StateOf
      <3>2. PICK answer \in SubmitAnswers : BrokerSubmit(call.order, answer)
        BY <2>1 DEF CallSubmit
      <3>3. \A p \in Orders :
                /\ Known(p)' => Known(p) \/ p = call.order
                /\ "CANCEL" \in venue'[p].asked => "CANCEL" \in venue[p].asked
        BY <1>1, <3>1, <3>2, BrokerSubmitStep DEF Inv, TypeInv, TypeOK, EvidenceInv
      <3> QED
        BY <3>1, <3>3
    <2>2. CASE CallCancel
      <3>1. /\ call.order \in Orders /\ disk.orders[call.order].state = "PENDING_CANCEL"
        BY <1>1, <2>2 DEF CallCancel, Inv, StageInv, JournalInv, StateOf
      <3>2. \A p \in Orders :
                /\ Known(p)' <=> Known(p)
                /\ "CANCEL" \in venue'[p].asked
                      => "CANCEL" \in venue[p].asked \/ p = call.order
        BY <1>1, <2>2, <3>1, BrokerCancelStep
        DEF CallCancel, Inv, TypeInv, TypeOK, EvidenceInv
      <3> QED
        BY <3>1, <3>2
    <2>3. CASE \E o \in Orders : ReplaceOrder(o)
      <3>1. PICK o \in Orders : BrokerReplace(o) \/ UNCHANGED brokerVars
        BY <2>3 DEF ReplaceOrder
      <3>2. CASE BrokerReplace(o)
        BY <1>1, <3>2, BrokerReplaceStep DEF Inv, TypeInv, TypeOK, EvidenceInv
      <3>3. CASE UNCHANGED brokerVars
        BY <3>3 DEF brokerVars, Known
      <3> QED
        BY <3>1, <3>2, <3>3
    <2>4. CASE VenueStep
      BY <1>1, <2>4, VenueStepLemma DEF VenueStepFacts
    <2>5. CASE UNCHANGED venue
      BY <2>5 DEF Known
    <2>6. ASSUME ~CallSubmit, ~CallCancel, ~VenueStep,
                 ~\E o \in Orders : ReplaceOrder(o)
          PROVE  UNCHANGED venue
      <3>1. CASE \E o \in Orders : SubmitIntent(o) \/ RefuseIntent(o) \/ CancelOrder(o)
        BY <3>1 DEF SubmitIntent, RefuseIntent, CancelOrder, brokerVars
      <3>2. CASE RecordSubmit \/ RecordCancelFailure \/ RecordReplace
                   \/ RecordReplaceFailure \/ ApplyEvent \/ FinishDrain
        BY <3>2 DEF RecordSubmit, RecordCancelFailure, RecordReplace, RecordReplaceFailure,
                    ApplyEvent, FinishDrain, brokerVars
      <3>3. CASE Synchronize \/ Reconnect \/ Restart
        BY <3>3 DEF Synchronize, Reconnect, Restart, BridgeRestart
      <3>4. CASE LoseSession \/ SnapshotLost
        BY <3>4 DEF LoseSession, SnapshotLost, SessionLost, brokerVars
      <3>5. CASE \/ \E s \in oms.incidents : ExplainIncident(s)
                 \/ Reconcile \/ ActivateKillSwitch \/ DeactivateKillSwitch
        BY <3>5 DEF ExplainIncident, Reconcile, ActivateKillSwitch, DeactivateKillSwitch,
                    brokerVars
      <3> QED
        BY <1>1, <2>6, <3>1, <3>2, <3>3, <3>4, <3>5 DEF Next, ServiceStep, OperatorStep
    <2> QED
      BY <2>1, <2>2, <2>3, <2>4, <2>5, <2>6
  <1>2. Inv /\ [Next]_vars => [A]_vars
    BY <1>1
  <1> QED
    BY <1>2, Invariance, PTL DEF Spec, CommandsAreJournaled

(* Once an append has failed, nothing reaches the journal or the broker     *)
(* before a restart (ensure_persistence_healthy).                           *)
THEOREM FailsClosed == Spec => FailClosed
  <1> DEFINE A ==
          ~healthy /\ ~healthy' =>
              /\ UNCHANGED <<disk, submits>>
              /\ \A o \in Orders : "CANCEL" \in venue'[o].asked => "CANCEL" \in venue[o].asked
  <1>1. ASSUME Inv, Next, ~healthy, ~healthy'
        PROVE  A
    <2>1. call.at = "idle"
      BY <1>1 DEF Inv, JournalInv
    <2>2. ~ServiceStep
      BY <2>1 DEF ServiceStep, CallSubmit, RecordSubmit, CallCancel, RecordCancelFailure,
                  RecordReplace, RecordReplaceFailure, ApplyEvent, FinishDrain
    <2>3. ~OperatorStep
      BY <1>1, <2>1
      DEF OperatorStep, SubmitIntent, RefuseIntent, CancelOrder, ReplaceOrder,
          ExplainIncident, Synchronize, Reconnect, LoseSession, Reconcile, SnapshotLost,
          ActivateKillSwitch, DeactivateKillSwitch, Ready
    <2>4. ~Restart
      BY <1>1 DEF Restart
    <2> QED
      BY <1>1, <2>2, <2>3, <2>4, VenueStepLemma DEF Next, VenueStepFacts
  <1>2. Inv /\ [Next]_vars => [A]_vars
    BY <1>1
  <1> QED
    BY <1>2, Invariance, PTL DEF Spec, FailClosed

-----------------------------------------------------------------------------
(* Refinement.                                                              *)

(* The OMS, with all its operations, evidence and faults, implements the    *)
(* ledger: its journal is the ledger.                                       *)
THEOREM OmsImplementsLedger == Spec => ImplementsLedger
  <1> DEFINE Booked == {o \in Orders : disk.orders[o].state # "NONE"}
  <1> DEFINE Sent == {o \in Orders : submits[o] > 0}
  <1>1. Init => Ledger!Init
    BY DEF Init, BrokerInit, AbsentOrder, Ledger!Init
  <1>2. ASSUME Inv, Next
        PROVE  Ledger!Next \/ UNCHANGED Ledger!ledgerVars
    <2>1. ASSUME LedgerUnchanged PROVE UNCHANGED Ledger!ledgerVars
      <3>1. Booked' = Booked /\ Sent' = Sent
        BY <2>1 DEF LedgerUnchanged, BookedUnchanged
      <3> QED
        BY <2>1, <3>1 DEF LedgerUnchanged, Ledger!ledgerVars
    <2>2. CASE \E o \in Orders : SubmitIntent(o)
      <3>1. PICK o \in Orders : SubmitIntent(o)
        BY <2>2
      <3>2. /\ healthy /\ disk = oms /\ ~Exists(o) /\ UNCHANGED <<executions, submits>>
        BY <1>2, <3>1 DEF SubmitIntent, Ready, Inv, JournalInv, brokerVars
      <3>3. NewOrder \in OrderRecord /\ NewOrder.state # "NONE"
        BY RecordStates DEF NewOrder, AbsentOrder, OrderRecord
      <3>4. /\ oms'.orders = [oms.orders EXCEPT ![o] = NewOrder]
            /\ oms'.applied = oms.applied
        BY <1>2, <3>1, <3>3, SetOrderFacts DEF SubmitIntent, Inv, TypeInv, TypeOK
      <3>5. disk' \in {disk, oms'}
        BY <3>1, <3>2 DEF SubmitIntent, SaveThen, Persisted, PersistFailed
      <3>6. oms.orders \in [Orders -> OrderRecord]
        BY <1>2 DEF Inv, TypeInv, TypeOK, PersistentState
      <3>7. CASE disk' = disk
        BY <2>1, <3>2, <3>7 DEF LedgerUnchanged, BookedUnchanged
      <3>8. CASE disk' = oms'
        <4>1. Booked' = Booked \union {o} /\ o \notin Booked
          BY <3>2, <3>3, <3>4, <3>6, <3>8 DEF Exists, StateOf
        <4>2. Sent' = Sent /\ disk'.applied = disk.applied
          BY <3>2, <3>4, <3>8
        <4> QED
          BY <3>2, <4>1, <4>2 DEF Ledger!Next, Ledger!Book
      <3> QED
        BY <3>5, <3>7, <3>8
    <2>3. CASE CallSubmit
      <3> DEFINE o == call.order
      <3>1. /\ o \in Orders /\ disk.orders[o].state # "NONE" /\ submits[o] = 0
            /\ submits \in [Orders -> Nat]
            /\ submits' = [submits EXCEPT ![o] = @ + 1] /\ UNCHANGED <<oms, disk>>
        BY <1>2, <2>3 DEF CallSubmit, Inv, TypeInv, TypeOK, StageInv, JournalInv, Exists, StateOf
      <3>2. executions' = executions
        BY <1>2, <2>3, <3>1, BrokerSubmitStep DEF CallSubmit, Inv, TypeInv, TypeOK, EvidenceInv
      <3>3. Sent' = Sent \union {o} /\ o \in Booked \ Sent /\ Booked' = Booked
        BY <3>1
      <3> QED
        BY <3>1, <3>2, <3>3 DEF Ledger!Next, Ledger!Send
    <2>4. CASE ApplyEvent
      <3>1. EntersAtMostOne /\ oms.applied \subseteq executions /\ executions \subseteq PossibleExecutions
        BY <1>2, <2>4, ApplyEventStep DEF Inv, TypeInv, TypeOK, BrokerTypeOK, EvidenceInv
      <3>2. Booked' = Booked /\ Sent' = Sent /\ executions' = executions
        BY <3>1 DEF EntersAtMostOne, BookedUnchanged
      <3>3. CASE disk'.applied = disk.applied
        BY <3>2, <3>3 DEF Ledger!ledgerVars
      <3>4. CASE disk'.applied # disk.applied
        <4>1. PICK x \in executions : disk'.applied = disk.applied \union {x}
          BY <3>1, <3>4 DEF EntersAtMostOne
        <4>2. x \in executions \ disk.applied /\ x \in PossibleExecutions
          BY <3>1, <3>4, <4>1
        <4> QED
          BY <3>2, <4>1, <4>2 DEF Ledger!Next, Ledger!Enter
      <3> QED
        BY <3>3, <3>4
    <2>5. CASE VenueStep
      <3>1. /\ VenueStepFacts /\ UNCHANGED <<disk, submits>>
        BY <1>2, <2>5, VenueStepLemma
      <3>2. Booked' = Booked /\ Sent' = Sent /\ disk'.applied = disk.applied
        BY <3>1
      <3>3. CASE executions' = executions
        BY <3>2, <3>3 DEF Ledger!ledgerVars
      <3>4. CASE executions' # executions
        <4>1. PICK x \in PossibleExecutions :
                  executions' = executions \union {x} /\ Known(x.order)
          BY <3>1, <3>4 DEF VenueStepFacts
        <4>2. x \notin executions /\ x.order \in Sent
          BY <1>2, <3>4, <4>1 DEF PossibleExecutions, Inv, SentInv
        <4> QED
          BY <3>2, <4>1, <4>2 DEF Ledger!Next, Ledger!Execute
      <3> QED
        BY <3>3, <3>4
    <2>6. CASE OtherStep
      BY <1>2, <2>1, <2>6, OtherStepKeepsLedger
    <2> QED
      BY <1>2, <2>2, <2>3, <2>4, <2>5, <2>6, StepsOfNext
  <1>3. UNCHANGED vars => UNCHANGED Ledger!ledgerVars
    BY DEF vars, Ledger!ledgerVars
  <1>4. Inv /\ [Next]_vars => [Ledger!Next]_Ledger!ledgerVars
    BY <1>2, <1>3
  <1> QED
    BY <1>1, <1>4, Invariance, PTL DEF Spec, ImplementsLedger, Ledger!Spec

-----------------------------------------------------------------------------
(* The order records and the account: the invariant.                        *)

(* replace_order has marked the order in memory and not yet in the journal. *)
Replacing(from, to, o) ==
    /\ from.orders[o].state \in Revisable
    /\ to = [from EXCEPT !.orders[o] = PendingReplacement(from.orders[o])]

CallInv ==
    /\ call.at = "submitted" => StateOf(call.order) = "PENDING_SUBMIT"
    /\ call.at = "cancel_failed" => StateOf(call.order) = "PENDING_CANCEL"
    /\ call.at \in {"replaced", "replace_failed"} => Replacing(disk, oms, call.order)
    /\ call.at # "draining" => call.events = <<>>
    /\ \A o \in Orders : disk.orders[o].state # "NONE" => Exists(o)

(* A record that agrees with itself.                                        *)
Kept(order, quantity) ==
    /\ order.filled <= quantity
    /\ order.state = "FILLED" <=> order.filled = quantity
    /\ order.state = "NONE" => order.filled = 0
    /\ order.brokerId # 0 => order.brokerId \in order.versions
    /\ order.state = "PENDING_REPLACE" => order.returnState # "NONE"

KeepsRecords(state) == \A o \in Orders : Kept(state.orders[o], Qty[o])
RecordsInv == KeepsRecords(oms) /\ KeepsRecords(disk)

SignedFills(state) == [o \in Orders |-> Signed(o, state.orders[o].filled)]

KeepsAccount(state) ==
    /\ \A o \in Orders : state.orders[o].filled = LotsIn(OfOrder(state.applied, o))
    /\ state.position = SumOf(SignedFills(state), Orders)
    /\ state.cash = InitialCash - state.position
    /\ state.position >= 0
AccountInv == KeepsAccount(oms) /\ KeepsAccount(disk)

-----------------------------------------------------------------------------
(* One order's record.                                                      *)

(* Broker evidence leaves a record that agrees with itself.                 *)
LEMMA ResolveKept ==
    ASSUME NEW order \in OrderRecord, NEW e \in Event, NEW quantity \in Nat,
           Accepts(order, e, quantity), Kept(order, quantity),
           IsExecution(e) => e.qty > 0
    PROVE  Kept(Resolve(order, e, quantity), quantity)
  <1> USE DEF OrderRecord, Event
  <1>1. /\ order.state # "NONE" /\ order.filled <= quantity
        /\ order.filled \in Nat
        /\ order.state = "FILLED" <=> order.filled = quantity
    BY DEF Accepts, Kept
  <1>2. \A filled : WorkingState(filled) \in Revisable
    BY DEF WorkingState, Revisable
  <1>3. /\ \A s \in Revisable : s # "FILLED" /\ s # "NONE" /\ s # "PENDING_REPLACE"
        /\ \A s \in Closed : s # "FILLED" /\ s # "NONE" /\ s # "PENDING_REPLACE"
    BY DEF Revisable, Closed
  <1>4. CASE e.type = "Acknowledged"
    BY <1>1, <1>4 DEF Resolve, AfterAcknowledge, WithVersion, Acknowledge, Kept
  <1>5. CASE e.type = "Execution"
    <2> DEFINE state == ExecutedState(order.state, order.filled + e.qty = quantity)
    <2>1. order.filled + e.qty <= quantity /\ e.qty > 0
      BY <1>5 DEF Accepts, CanExecute, IsExecution
    <2>2. order.state # "FILLED"
      BY <1>1, <2>1
    <2>3. /\ state = "FILLED" <=> order.filled + e.qty = quantity
          /\ state # "NONE"
          /\ state = "PENDING_REPLACE" => order.state = "PENDING_REPLACE"
      BY <1>1, <2>2 DEF ExecutedState, Acknowledge
    <2>4. /\ Resolve(order, e, quantity).filled = order.filled + e.qty
          /\ Resolve(order, e, quantity).state = state
          /\ Resolve(order, e, quantity).brokerId = WithVersion(order, e.version).brokerId
          /\ Resolve(order, e, quantity).versions = WithVersion(order, e.version).versions
          /\ Resolve(order, e, quantity).returnState = order.returnState
      BY <1>5 DEF Resolve, AfterExecute, WithVersion
    <2>5. WithVersion(order, e.version).brokerId # 0 =>
             WithVersion(order, e.version).brokerId \in WithVersion(order, e.version).versions
      BY DEF WithVersion, Kept
    <2> HIDE DEF state
    <2> QED
      BY <1>1, <2>1, <2>3, <2>4, <2>5 DEF Kept
  <1>6. CASE e.type = "CancelRejected"
    <2>1. CASE order.state \in Terminal
      BY <1>6, <2>1 DEF Resolve, AfterRejectCancel
    <2>2. CASE order.state \notin Terminal
      <3>1. Resolve(order, e, quantity) = [order EXCEPT !.state = WorkingState(order.filled)]
        BY <1>6, <2>2 DEF Resolve, AfterRejectCancel
      <3>2. order.state # "FILLED"
        BY <2>2 DEF Terminal
      <3> QED
        BY <1>1, <1>2, <1>3, <3>1, <3>2 DEF Kept
    <2> QED
      BY <2>1, <2>2
  <1>7. CASE e.type = "ReplaceRequested"
    BY <1>1, <1>3, <1>7 DEF Resolve, AfterRequestReplace, PendingReplacement, Kept
  <1>8. ASSUME NEW given \in OrderRecord, given.filled = order.filled, order.state # "FILLED",
               given.brokerId # 0 => given.brokerId \in given.versions
        PROVE  Kept(Restored(given), quantity)
    <2>1. Restored(given).state \in Revisable
      BY <1>2 DEF Restored, Revisable
    <2>2. /\ Restored(given).filled = given.filled
          /\ Restored(given).brokerId = given.brokerId
          /\ Restored(given).versions = given.versions
      BY DEF Restored
    <2> QED
      BY <1>1, <1>3, <1>8, <2>1, <2>2 DEF Kept
  <1>9. CASE e.type = "Replaced"
    <2>1. CASE order.brokerId = e.version - 1 /\ order.state \in {"PENDING_REPLACE", "UNKNOWN"}
      <3> DEFINE given == [order EXCEPT !.brokerId = e.version,
                                        !.versions = order.versions \union {e.version}]
      <3>1. Resolve(order, e, quantity) = Restored(given)
        BY <1>9, <2>1 DEF Resolve, AfterReplace
      <3>2. /\ given \in OrderRecord /\ given.filled = order.filled
            /\ given.brokerId \in given.versions
        OBVIOUS
      <3> HIDE DEF given
      <3> QED
        BY <1>8, <2>1, <3>1, <3>2
    <2>2. CASE ~(order.brokerId = e.version - 1 /\ order.state \in {"PENDING_REPLACE", "UNKNOWN"})
      BY <1>9, <2>2 DEF Resolve, AfterReplace
    <2> QED
      BY <2>1, <2>2
  <1>10. CASE e.type = "ReplaceRejected"
    <2>1. CASE order.state \in Terminal
      BY <1>10, <2>1 DEF Resolve, AfterRejectReplace
    <2>2. CASE order.state \notin Terminal
      <3>1. Resolve(order, e, quantity) = Restored(order)
        BY <1>10, <2>2 DEF Resolve, AfterRejectReplace
      <3>2. order.state # "FILLED"
        BY <2>2 DEF Terminal
      <3> QED
        BY <1>8, <3>1, <3>2 DEF Kept
    <2> QED
      BY <2>1, <2>2
  <1>11. CASE e.type \in Closings
    <2>1. ClosingState(e.type) \in Closed
      BY <1>11 DEF Closings, ClosingState, Closed
    <2>2. Resolve(order, e, quantity) = AfterClose(order, ClosingState(e.type))
      BY <1>11 DEF Closings, Resolve
    <2>3. order.state \notin Terminal => order.state # "FILLED"
      BY DEF Terminal
    <2> QED
      BY <1>1, <1>3, <2>1, <2>2, <2>3 DEF AfterClose, Kept
  <1> QED
    BY <1>4, <1>5, <1>6, <1>7, <1>9, <1>10, <1>11 DEF EventTypes

(* Only an execution takes an order out of the state in which it ended.     *)
LEMMA EndedStays ==
    ASSUME NEW order \in OrderRecord, order.state \in Terminal, NEW e \in Event, NEW quantity,
           ~IsExecution(e)
    PROVE  Resolve(order, e, quantity).state = order.state
  <1> USE DEF OrderRecord, Event
  <1>1. order.state \notin Revisable /\ order.state \notin {"PENDING_REPLACE", "UNKNOWN"}
    BY DEF Terminal, Closed, Revisable
  <1>2. CASE e.type = "Acknowledged"
    BY <1>2 DEF Resolve, AfterAcknowledge, WithVersion
  <1>3. CASE e.type = "CancelRejected"
    BY <1>3 DEF Resolve, AfterRejectCancel
  <1>4. CASE e.type = "ReplaceRequested"
    BY <1>1, <1>4 DEF Resolve, AfterRequestReplace
  <1>5. CASE e.type = "Replaced"
    BY <1>1, <1>5 DEF Resolve, AfterReplace
  <1>6. CASE e.type = "ReplaceRejected"
    BY <1>6 DEF Resolve, AfterRejectReplace
  <1>7. CASE e.type \in Closings
    <2>1. Resolve(order, e, quantity) = AfterClose(order, ClosingState(e.type))
      BY <1>7 DEF Closings, Resolve
    <2> QED
      BY <2>1 DEF AfterClose
  <1> QED
    BY <1>2, <1>3, <1>4, <1>5, <1>6, <1>7 DEF EventTypes, IsExecution

-----------------------------------------------------------------------------
(* What a step does to the durable state, in memory and in the journal.     *)

LEMMA TypesOfInv ==
    ASSUME Inv
    PROVE  /\ oms \in PersistentState /\ disk \in PersistentState
           /\ oms.orders \in [Orders -> OrderRecord] /\ disk.orders \in [Orders -> OrderRecord]
           /\ call \in Call /\ healthy \in BOOLEAN /\ late \subseteq Orders
           /\ BrokerTypeOK /\ IsFiniteSet(executions)
           /\ executions \subseteq PossibleExecutions
           /\ pending \in Seq(Event) /\ call.events \in Seq(Event)
  BY DEF Inv, TypeInv, TypeOK, BrokerTypeOK, PersistentState, Call

Saved == disk' = disk \/ (healthy /\ disk' = oms')

SameBooks ==
    /\ oms'.orders = oms.orders /\ oms'.applied = oms.applied
    /\ oms'.position = oms.position /\ oms'.cash = oms.cash

Books ==
    \E o \in Orders : ~Exists(o) /\ RiskApproves(o) /\ SetOrder(o, NewOrder)

(* What an operation may make of an order's record.                         *)
Revises(from, to) ==
    \/ from.state = "PENDING_SUBMIT" /\ \E answer \in SubmitAnswers : to = Answered(from, answer)
    \/ from.state \in Revisable /\ to = [from EXCEPT !.state = "PENDING_CANCEL"]
    \/ from.state \in Revisable /\ to = PendingReplacement(from)
    \/ /\ from.state \in {"PENDING_CANCEL", "PENDING_REPLACE"}
       /\ to = [from EXCEPT !.state = "UNKNOWN"]

RevisesOne ==
    \E o \in Orders : \E r \in OrderRecord : Revises(oms.orders[o], r) /\ SetOrder(o, r)

AppliesOne ==
    \E e \in Event :
        /\ Applicable(e) /\ oms' = Applied(e)
        /\ IsExecution(e) => ExecutionOf(e) \in executions

BookStep ==
    \/ oms' = disk /\ disk' = disk
    \/ Saved /\ SameBooks
    \/ Saved /\ healthy /\ (Books \/ RevisesOne \/ AppliesOne)

LEMMA SaveThenSaves ==
    ASSUME healthy, NEW next, SaveThen(next)
    PROVE  Saved /\ (call' = next \/ call' = Idle)
  BY DEF SaveThen, Persisted, PersistFailed, Saved

LEMMA ReplacingOrder ==
    ASSUME Inv, CallInv, call.at \in {"replaced", "replace_failed"}
    PROVE  /\ call.order \in Orders /\ healthy
           /\ oms.orders = [disk.orders EXCEPT ![call.order] =
                               PendingReplacement(disk.orders[call.order])]
           /\ StateOf(call.order) = "PENDING_REPLACE"
           /\ disk.orders[call.order].state \in Revisable
           /\ \A o \in Orders : o # call.order => oms.orders[o] = disk.orders[o]
  <1>1. call.order \in Orders /\ healthy /\ Replacing(disk, oms, call.order)
    BY DEF Inv, StageInv, JournalInv, CallInv
  <1>2. PICK o \in Orders : o = call.order
    BY <1>1
  <1>3. /\ disk \in PersistentState /\ disk.orders \in [Orders -> OrderRecord]
    BY TypesOfInv
  <1>4. oms.orders = [disk.orders EXCEPT ![o] = PendingReplacement(disk.orders[o])]
    BY <1>1, <1>2, <1>3 DEF Replacing, PersistentState
  <1>5. PendingReplacement(disk.orders[o]).state = "PENDING_REPLACE"
    BY <1>3 DEF PendingReplacement, OrderRecord
  <1> QED
    BY <1>1, <1>2, <1>3, <1>4, <1>5 DEF StateOf, Replacing

LEMMA OperationBooks ==
    ASSUME Inv, CallInv,
           \/ \E o \in Orders : SubmitIntent(o) \/ CancelOrder(o) \/ ReplaceOrder(o)
           \/ RecordSubmit \/ RecordCancelFailure \/ RecordReplaceFailure
    PROVE  Saved /\ healthy /\ (Books \/ RevisesOne)
  <1>1. /\ oms \in PersistentState /\ oms.orders \in [Orders -> OrderRecord]
    BY TypesOfInv
  <1>2. ASSUME NEW o \in Orders, SubmitIntent(o)
        PROVE  Saved /\ healthy /\ Books
    BY <1>2, SaveThenSaves DEF SubmitIntent, Ready, Books
  <1>3. ASSUME NEW o \in Orders, CancelOrder(o)
        PROVE  Saved /\ healthy /\ RevisesOne
    <2> DEFINE r == [oms.orders[o] EXCEPT !.state = "PENDING_CANCEL"]
    <2>1. r \in OrderRecord
      BY <1>1, RecordStates DEF OrderRecord
    <2>2. Saved /\ healthy /\ SetOrder(o, r)
      BY <1>3, SaveThenSaves DEF CancelOrder, Ready, SetState
    <2>3. Revises(oms.orders[o], r)
      BY <1>3 DEF CancelOrder, StateOf, Revises
    <2> HIDE DEF r
    <2> QED
      BY <2>1, <2>2, <2>3 DEF RevisesOne
  <1>4. ASSUME NEW o \in Orders, ReplaceOrder(o)
        PROVE  Saved /\ healthy /\ RevisesOne
    <2> DEFINE r == PendingReplacement(oms.orders[o])
    <2>1. StateOf(o) \in Revisable /\ disk' = disk /\ healthy /\ SetOrder(o, r)
      BY <1>4 DEF ReplaceOrder, Ready
    <2>2. r \in OrderRecord
      BY <1>1, <2>1, RecordStates DEF PendingReplacement, OrderRecord, StateOf
    <2>3. Revises(oms.orders[o], r)
      BY <2>1 DEF StateOf, Revises
    <2> HIDE DEF r
    <2> QED
      BY <2>1, <2>2, <2>3 DEF RevisesOne, Saved
  <1>5. ASSUME RecordSubmit
        PROVE  Saved /\ healthy /\ RevisesOne
    <2>1. /\ call.order \in Orders /\ call.answer \in SubmitAnswers /\ healthy
          /\ StateOf(call.order) = "PENDING_SUBMIT"
      BY <1>5 DEF RecordSubmit, Inv, StageInv, JournalInv, CallInv
    <2>2. PICK o \in Orders, answer \in SubmitAnswers : o = call.order /\ answer = call.answer
      BY <2>1
    <2>3. Saved /\ SetOrder(o, Answered(oms.orders[o], answer))
      BY <1>5, <2>1, <2>2, SaveThenSaves DEF RecordSubmit
    <2>4. Answered(oms.orders[o], answer) \in OrderRecord
      BY <1>1, AnsweredIsStored
    <2> QED
      BY <2>1, <2>2, <2>3, <2>4 DEF RevisesOne, Revises, StateOf
  <1>6. ASSUME RecordCancelFailure \/ RecordReplaceFailure
        PROVE  Saved /\ healthy /\ RevisesOne
    <2>1. /\ call.order \in Orders /\ healthy
          /\ StateOf(call.order) \in {"PENDING_CANCEL", "PENDING_REPLACE"}
      BY <1>6, ReplacingOrder
      DEF RecordCancelFailure, RecordReplaceFailure, Inv, StageInv, JournalInv, CallInv
    <2>2. PICK o \in Orders : o = call.order
      BY <2>1
    <2> DEFINE r == [oms.orders[o] EXCEPT !.state = "UNKNOWN"]
    <2>3. r \in OrderRecord
      BY <1>1, RecordStates DEF OrderRecord
    <2>4. Saved /\ SetOrder(o, r)
      BY <1>6, <2>1, <2>2, SaveThenSaves
      DEF RecordCancelFailure, RecordReplaceFailure, OutcomeUnknown, SetState
    <2>5. Revises(oms.orders[o], r)
      BY <2>1, <2>2 DEF StateOf, Revises
    <2> HIDE DEF r
    <2> QED
      BY <2>1, <2>3, <2>4, <2>5 DEF RevisesOne
  <1> QED
    BY <1>2, <1>3, <1>4, <1>5, <1>6

LEMMA ApplyEventBooks ==
    ASSUME Inv, ApplyEvent
    PROVE  Saved /\ (SameBooks \/ (healthy /\ AppliesOne))
  <1> DEFINE e == Head(call.events)
  <1>1. call.events \in Seq(Event) /\ call.events # <<>> /\ Genuine(call.events, executions)
    BY TypesOfInv DEF ApplyEvent, Inv, EvidenceInv
  <1>2. e \in Event /\ (IsExecution(e) => ExecutionOf(e) \in executions)
    BY <1>1, GenuineTail
  <1>3. healthy
    BY DEF ApplyEvent, Inv, JournalInv
  <1> HIDE DEF e
  <1>4. CASE UNCHANGED <<oms, disk, healthy>>
    BY <1>4 DEF Saved, SameBooks
  <1>5. ASSUME ~UNCHANGED <<oms, disk, healthy>>
        PROVE  Applicable(e) /\ oms' = Applied(e) /\ Saved
    BY <1>3, <1>5, SaveThenSaves DEF ApplyEvent, e
  <1> QED
    BY <1>2, <1>3, <1>4, <1>5 DEF AppliesOne

LEMMA QuietBooks ==
    ASSUME Inv,
           \/ CallSubmit \/ CallCancel \/ FinishDrain \/ VenueStep
           \/ Synchronize \/ Reconnect \/ LoseSession \/ SnapshotLost \/ Reconcile
           \/ \E o \in Orders : RefuseIntent(o)
           \/ \E s \in oms.incidents : ExplainIncident(s)
           \/ RecordReplace \/ ActivateKillSwitch \/ DeactivateKillSwitch
           \/ UNCHANGED vars
    PROVE  Saved /\ SameBooks
  <1>1. CASE CallSubmit \/ CallCancel \/ FinishDrain \/ Synchronize \/ Reconnect
             \/ UNCHANGED vars
    BY <1>1 DEF CallSubmit, CallCancel, FinishDrain, Synchronize, Reconnect, Poll, vars,
                Saved, SameBooks
  <1>2. CASE VenueStep
    BY <1>2, VenueStepLemma DEF Saved, SameBooks
  <1>3. oms \in PersistentState
    BY TypesOfInv
  <1>4. CASE LoseSession \/ SnapshotLost \/ RecordReplace \/ \E o \in Orders : RefuseIntent(o)
    <2>1. SaveThen(Idle) /\ UNCHANGED oms /\ healthy
      BY <1>4 DEF LoseSession, SnapshotLost, RecordReplace, RefuseIntent, SessionLost, Ready,
                  Inv, JournalInv
    <2> QED
      BY <2>1, SaveThenSaves DEF SameBooks
  <1>5. CASE \/ Reconcile \/ \E s \in oms.incidents : ExplainIncident(s)
             \/ ActivateKillSwitch \/ DeactivateKillSwitch
    <2>1. SaveThen(Idle) /\ healthy
      BY <1>5 DEF Reconcile, ExplainIncident, ActivateKillSwitch, DeactivateKillSwitch, Ready
    <2>2. SameBooks
      BY <1>3, <1>5
      DEF Reconcile, ExplainIncident, ActivateKillSwitch, DeactivateKillSwitch,
          PersistentState, SameBooks
    <2> QED
      BY <2>1, <2>2, SaveThenSaves
  <1> QED
    BY <1>1, <1>2, <1>4, <1>5

LEMMA NextBooks ==
    ASSUME Inv, CallInv, [Next]_vars
    PROVE  BookStep
  <1>1. CASE ApplyEvent
    BY <1>1, ApplyEventBooks DEF BookStep
  <1>2. CASE \/ \E o \in Orders : SubmitIntent(o) \/ CancelOrder(o) \/ ReplaceOrder(o)
             \/ RecordSubmit \/ RecordCancelFailure \/ RecordReplaceFailure
    BY <1>2, OperationBooks DEF BookStep
  <1>3. CASE Restart
    BY <1>3 DEF Restart, BookStep
  <1>4. CASE \/ CallSubmit \/ CallCancel \/ FinishDrain \/ VenueStep
             \/ Synchronize \/ Reconnect \/ LoseSession \/ SnapshotLost \/ Reconcile
             \/ \E o \in Orders : RefuseIntent(o)
             \/ \E s \in oms.incidents : ExplainIncident(s)
             \/ RecordReplace \/ ActivateKillSwitch \/ DeactivateKillSwitch
             \/ UNCHANGED vars
    BY <1>4, QuietBooks DEF BookStep
  <1> QED
    BY <1>1, <1>2, <1>3, <1>4, StepsOfNext DEF OtherStep

-----------------------------------------------------------------------------
(* What the running operation has done so far.                              *)

(* An applied event changes the order it names, and nothing if it is known. *)
LEMMA AppliedOrders ==
    ASSUME NEW e \in Event, oms \in PersistentState, Applicable(e)
    PROVE  \/ Duplicate(e) /\ Applied(e) = oms
           \/ /\ ~Duplicate(e) /\ e.order \in Orders
              /\ Accepts(oms.orders[e.order], e, Qty[e.order])
              /\ Applied(e).orders =
                    [oms.orders EXCEPT ![e.order] = Resolve(oms.orders[e.order], e, Qty[e.order])]
              /\ IsExecution(e) =>
                    /\ NotShort(e)
                    /\ Applied(e).applied = oms.applied \union {ExecutionOf(e)}
                    /\ Applied(e).position = oms.position + Signed(e.order, e.qty)
                    /\ Applied(e).cash = oms.cash - Signed(e.order, e.qty)
              /\ ~IsExecution(e) =>
                    /\ Applied(e).applied = oms.applied
                    /\ Applied(e).position = oms.position
                    /\ Applied(e).cash = oms.cash
  <1> DEFINE record == Resolve(oms.orders[e.order], e, Qty[e.order])
  <1> DEFINE moved == [oms EXCEPT !.orders[e.order] = record]
  <1>1. CASE Duplicate(e)
    BY <1>1 DEF Applied
  <1>2. CASE ~Duplicate(e)
    <2>1. e.order \in Orders
      BY DEF Event
    <2>2. Accepts(oms.orders[e.order], e, Qty[e.order]) /\ (IsExecution(e) => NotShort(e))
      BY <1>2 DEF Applicable
    <2>3. Applied(e) = IF IsExecution(e) THEN WithFill(moved, e) ELSE moved
      BY <1>2 DEF Applied
    <2> HIDE DEF record
    <2>4. /\ moved.orders = [oms.orders EXCEPT ![e.order] = record]
          /\ moved.applied = oms.applied /\ moved.position = oms.position
          /\ moved.cash = oms.cash
          /\ moved = [orders |-> moved.orders, applied |-> oms.applied,
                      position |-> oms.position, cash |-> oms.cash, kill |-> oms.kill,
                      incidents |-> oms.incidents, clean |-> oms.clean]
      BY DEF PersistentState
    <2> HIDE DEF moved
    <2>5. /\ WithFill(moved, e).orders = moved.orders
          /\ WithFill(moved, e).applied = moved.applied \union {ExecutionOf(e)}
          /\ WithFill(moved, e).position = moved.position + Signed(e.order, e.qty)
          /\ WithFill(moved, e).cash = moved.cash - Signed(e.order, e.qty)
      BY <2>4 DEF WithFill
    <2> QED
      BY <1>2, <2>1, <2>2, <2>3, <2>4, <2>5 DEF record
  <1> QED
    BY <1>1, <1>2

LEMMA SetOrderRecords ==
    ASSUME oms \in PersistentState, NEW o \in Orders, NEW r, SetOrder(o, r)
    PROVE  /\ oms'.orders = [oms.orders EXCEPT ![o] = r]
           /\ oms'.orders[o] = r /\ \A p \in Orders : p # o => oms'.orders[p] = oms.orders[p]
           /\ oms'.applied = oms.applied /\ oms'.position = oms.position /\ oms'.cash = oms.cash
  BY DEF SetOrder, PersistentState

(* An order that is stored stays stored.                                    *)
LEMMA StoredStays ==
    ASSUME Inv, CallInv, [Next]_vars
    PROVE  \A o \in Orders : disk'.orders[o].state # "NONE" => Exists(o)'
  <1>1. /\ oms \in PersistentState /\ oms.orders \in [Orders -> OrderRecord]
    BY TypesOfInv
  <1>2. \A o \in Orders : disk.orders[o].state # "NONE" => oms.orders[o].state # "NONE"
    BY DEF CallInv, Exists, StateOf
  <1>3. CASE oms' = disk /\ disk' = disk
    BY <1>3 DEF Exists, StateOf
  <1>4. CASE Saved /\ SameBooks
    BY <1>2, <1>4 DEF Saved, SameBooks, Exists, StateOf
  <1>5. ASSUME Saved, \A o \in Orders : oms.orders[o].state # "NONE" => oms'.orders[o].state # "NONE"
        PROVE  \A o \in Orders : disk'.orders[o].state # "NONE" => Exists(o)'
    BY <1>2, <1>5 DEF Saved, Exists, StateOf
  <1>6. CASE Saved /\ Books
    <2>1. PICK o \in Orders : ~Exists(o) /\ SetOrder(o, NewOrder)
      BY <1>6 DEF Books
    <2> QED
      BY <1>1, <1>5, <1>6, <2>1, SetOrderRecords DEF Exists, StateOf
  <1>7. CASE Saved /\ RevisesOne
    <2>1. PICK o \in Orders, r \in OrderRecord : Revises(oms.orders[o], r) /\ SetOrder(o, r)
      BY <1>7 DEF RevisesOne
    <2>2. r.state # "NONE"
      <3> oms.orders[o] \in OrderRecord
        BY <1>1
      <3> QED
        BY <2>1, AnsweredIsStored DEF Revises, PendingReplacement, OrderRecord
    <2>3. oms'.orders[o] = r /\ \A p \in Orders : p # o => oms'.orders[p] = oms.orders[p]
      BY <1>1, <2>1, SetOrderRecords
    <2>4. \A p \in Orders : oms.orders[p].state # "NONE" => oms'.orders[p].state # "NONE"
      BY <2>2, <2>3
    <2> QED
      BY <1>5, <1>7, <2>4
  <1>8. CASE Saved /\ AppliesOne
    <2>1. PICK e \in Event : /\ Applicable(e) /\ oms' = Applied(e)
                             /\ IsExecution(e) => ExecutionOf(e) \in executions
      BY <1>8 DEF AppliesOne
    <2>2. \A p \in Orders : Applied(e).orders[p].state = "NONE" <=> ~Exists(p)
      BY <1>1, <2>1, AppliedFacts
    <2> QED
      BY <1>5, <1>8, <2>1, <2>2 DEF Exists, StateOf
  <1> QED
    BY <1>3, <1>4, <1>6, <1>7, <1>8, NextBooks DEF BookStep

LEMMA InitEstablishesCall == Init => CallInv
  BY CallTypes DEF Init, CallInv, Exists, StateOf

LEMMA NextKeepsCall == Inv /\ CallInv /\ [Next]_vars => CallInv'
  <1> SUFFICES ASSUME Inv, CallInv, [Next]_vars PROVE CallInv'
    OBVIOUS
  <1> DEFINE Begun ==
          /\ call'.at \notin {"submitted", "cancel_failed", "replaced", "replace_failed"}
          /\ call'.at # "draining" => call'.events = <<>>
  <1>1. \A o \in Orders : disk'.orders[o].state # "NONE" => Exists(o)'
    BY StoredStays
  <1>2. ASSUME Begun
        PROVE  CallInv'
    BY <1>1, <1>2 DEF CallInv
  <1>3. call \in Call /\ oms \in PersistentState
    BY TypesOfInv
  <1>4. ASSUME NEW next \in {"submitting", "cancelling", "idle"},
               NEW o \in Orders \union {NoOrder}, SaveThen(Calling(next, o)) \/ SaveThen(Idle)
        PROVE  Begun
    <2>1. call' = Calling(next, o) \/ call' = Idle
      BY <1>4 DEF SaveThen
    <2>2. next \in Stages
      BY DEF Stages
    <2> QED
      BY <2>1, <2>2, CallTypes
  <1>5. CASE \/ \E o \in Orders : SubmitIntent(o) \/ CancelOrder(o) \/ RefuseIntent(o)
             \/ \E s \in oms.incidents : ExplainIncident(s)
             \/ RecordSubmit \/ RecordCancelFailure \/ RecordReplace \/ RecordReplaceFailure
             \/ LoseSession \/ SnapshotLost \/ Reconcile
             \/ ActivateKillSwitch \/ DeactivateKillSwitch
    <2>1. \/ SaveThen(Idle)
          \/ \E o \in Orders : SaveThen(Calling("submitting", o)) \/ SaveThen(Calling("cancelling", o))
      BY <1>5 DEF SubmitIntent, CancelOrder, RefuseIntent, ExplainIncident, RecordSubmit,
                  RecordCancelFailure, RecordReplace, RecordReplaceFailure, OutcomeUnknown,
                  LoseSession, SnapshotLost, SessionLost, Reconcile, ActivateKillSwitch,
                  DeactivateKillSwitch
    <2> QED
      BY <1>2, <1>4, <2>1
  <1>6. CASE CallSubmit
    <2>1. /\ call.at = "submitting" /\ call'.at = "submitted" /\ call'.order = call.order
          /\ call'.events = call.events /\ oms' = oms
      BY <1>3, <1>6 DEF CallSubmit, Call, Stages
    <2>2. StateOf(call.order) = "PENDING_SUBMIT" /\ call.events = <<>>
      BY <2>1 DEF Inv, StageInv, CallInv
    <2> QED
      BY <1>1, <2>1, <2>2 DEF CallInv, StateOf
  <1>7. CASE CallCancel
    <2>1. /\ call.at = "cancelling" /\ oms' = oms
          /\ call' = Idle \/ call' = Calling("cancel_failed", call.order)
      BY <1>7 DEF CallCancel
    <2>2. StateOf(call.order) = "PENDING_CANCEL" /\ call.order \in Orders
      BY <2>1 DEF Inv, StageInv
    <2> QED
      BY <1>1, <1>2, <2>1, <2>2, CallTypes DEF CallInv, StateOf, Stages
  <1>8. CASE \E o \in Orders : ReplaceOrder(o)
    <2>1. PICK o \in Orders : ReplaceOrder(o)
      BY <1>8
    <2>2. /\ call'.at \in {"replaced", "replace_failed"} /\ call'.order = o /\ call'.events = <<>>
      BY <2>1, CallTypes DEF ReplaceOrder, Stages
    <2>3. /\ disk = oms /\ disk' = disk /\ StateOf(o) \in Revisable
          /\ SetOrder(o, PendingReplacement(oms.orders[o]))
      BY <2>1 DEF ReplaceOrder, Ready, Inv, JournalInv
    <2>4. Replacing(disk', oms', o)
      BY <2>3 DEF Replacing, SetOrder, StateOf
    <2> QED
      BY <1>1, <2>2, <2>4 DEF CallInv
  <1>9. CASE Synchronize \/ Reconnect
    <2>1. \E queue, reconnecting, batch :
             call' = [Idle EXCEPT !.at = "draining", !.events = batch, !.reconnecting = reconnecting]
      BY <1>9 DEF Synchronize, Reconnect, Poll
    <2>2. call'.at = "draining"
      BY <2>1, CallTypes DEF Call
    <2> QED
      BY <1>2, <2>2
  <1>10. CASE ApplyEvent
    <2>1. \/ call' = Idle
          \/ call' = [call EXCEPT !.events = Tail(@)]
          \/ call' = [[call EXCEPT !.events = Tail(@)] EXCEPT !.failed = TRUE]
      BY <1>10 DEF ApplyEvent, SaveThen
    <2>2. call'.at = "draining" \/ (call'.at = "idle" /\ call'.events = <<>>)
      BY <1>3, <1>10, <2>1, CallTypes DEF ApplyEvent, Call
    <2> QED
      BY <1>2, <2>2
  <1>11. CASE FinishDrain
    <2>1. call'.at \in {"idle", "reconciling"} /\ call'.events = <<>>
      BY <1>3, <1>11, CallTypes DEF FinishDrain, Call
    <2> QED
      BY <1>2, <2>1
  <1>12. CASE VenueStep \/ UNCHANGED vars
    <2>1. UNCHANGED <<oms, disk, call>>
      BY <1>12, VenueStepLemma DEF vars
    <2> QED
      BY <2>1 DEF CallInv, Exists, StateOf
  <1>13. CASE Restart
    BY <1>2, <1>13, CallTypes DEF Restart
  <1> QED
    BY <1>5, <1>6, <1>7, <1>8, <1>9, <1>10, <1>11, <1>12, <1>13, StepsOfNext DEF OtherStep

-----------------------------------------------------------------------------
(* The records.                                                             *)

LEMMA RevisedKept ==
    ASSUME NEW from \in OrderRecord, NEW to \in OrderRecord, NEW quantity \in Nat,
           Revises(from, to), Kept(from, quantity)
    PROVE  Kept(to, quantity) /\ to.filled = from.filled
  <1> USE DEF OrderRecord
  <1>1. CASE from.state = "PENDING_SUBMIT" /\ \E answer \in SubmitAnswers : to = Answered(from, answer)
    BY <1>1 DEF SubmitAnswers, Answered, Kept
  <1>2. CASE /\ from.state \in Revisable
             /\ to = [from EXCEPT !.state = "PENDING_CANCEL"] \/ to = PendingReplacement(from)
    BY <1>2 DEF Revisable, PendingReplacement, Kept
  <1>3. CASE /\ from.state \in {"PENDING_CANCEL", "PENDING_REPLACE"}
             /\ to = [from EXCEPT !.state = "UNKNOWN"]
    BY <1>3 DEF Kept
  <1> QED
    BY <1>1, <1>2, <1>3 DEF Revises

LEMMA ExecutionsFill ==
    ASSUME BrokerTypeOK, NEW e \in Event, IsExecution(e), ExecutionOf(e) \in executions
    PROVE  e.qty > 0 /\ ExecutionOf(e) \in Execution
  BY BrokerAssumption, PossibleAreExecutions DEF BrokerTypeOK, ExecutionOf, PossibleExecutions, Lots

LEMMA InitEstablishesRecords == Init => RecordsInv
  <1> SUFFICES ASSUME Init PROVE RecordsInv
    OBVIOUS
  <1>1. /\ disk = oms
        /\ \A o \in Orders : oms.orders[o] = AbsentOrder /\ Qty[o] \in Nat /\ Qty[o] > 0
    BY BrokerAssumption DEF Init
  <1> QED
    BY <1>1 DEF RecordsInv, KeepsRecords, Kept, AbsentOrder

LEMMA NextKeepsRecords == Inv /\ CallInv /\ RecordsInv /\ [Next]_vars => RecordsInv'
  <1> SUFFICES ASSUME Inv, CallInv, RecordsInv, [Next]_vars PROVE RecordsInv'
    OBVIOUS
  <1>1. /\ oms \in PersistentState /\ oms.orders \in [Orders -> OrderRecord] /\ BrokerTypeOK
        /\ \A o \in Orders : Qty[o] \in Nat /\ Qty[o] > 0
    BY TypesOfInv, BrokerAssumption
  <1>2. CASE oms' = disk /\ disk' = disk
    BY <1>2 DEF RecordsInv
  <1>3. ASSUME Saved, KeepsRecords(oms')
        PROVE  RecordsInv'
    BY <1>3 DEF Saved, RecordsInv
  <1>4. CASE Saved /\ SameBooks
    BY <1>3, <1>4 DEF SameBooks, RecordsInv, KeepsRecords
  <1>5. CASE Saved /\ Books
    <2>1. PICK o \in Orders : SetOrder(o, NewOrder)
      BY <1>5 DEF Books
    <2>2. Kept(NewOrder, Qty[o])
      BY <1>1 DEF NewOrder, AbsentOrder, Kept
    <2>3. /\ oms'.orders[o] = NewOrder
          /\ \A p \in Orders : p # o => oms'.orders[p] = oms.orders[p]
      BY <1>1, <2>1, SetOrderRecords
    <2>4. KeepsRecords(oms')
      BY <2>2, <2>3 DEF RecordsInv, KeepsRecords
    <2> QED
      BY <1>3, <1>5, <2>4
  <1>6. CASE Saved /\ RevisesOne
    <2>1. PICK o \in Orders, r \in OrderRecord : Revises(oms.orders[o], r) /\ SetOrder(o, r)
      BY <1>6 DEF RevisesOne
    <2>2. Kept(r, Qty[o])
      BY <1>1, <2>1, RevisedKept DEF RecordsInv, KeepsRecords
    <2>3. oms'.orders[o] = r /\ \A p \in Orders : p # o => oms'.orders[p] = oms.orders[p]
      BY <1>1, <2>1, SetOrderRecords
    <2>4. KeepsRecords(oms')
      BY <2>2, <2>3 DEF RecordsInv, KeepsRecords
    <2> QED
      BY <1>3, <1>6, <2>4
  <1>7. CASE Saved /\ AppliesOne
    <2>1. PICK e \in Event : /\ Applicable(e) /\ oms' = Applied(e)
                             /\ IsExecution(e) => ExecutionOf(e) \in executions
      BY <1>7 DEF AppliesOne
    <2>2. CASE oms' = oms
      BY <1>3, <1>7, <2>2 DEF RecordsInv
    <2>3. CASE oms' # oms
      <3> DEFINE r == Resolve(oms.orders[e.order], e, Qty[e.order])
      <3>1. /\ e.order \in Orders /\ Accepts(oms.orders[e.order], e, Qty[e.order])
            /\ oms'.orders = [oms.orders EXCEPT ![e.order] = r]
        BY <1>1, <2>1, <2>3, AppliedOrders
      <3>2. Kept(oms.orders[e.order], Qty[e.order])
        BY <3>1 DEF RecordsInv, KeepsRecords
      <3>3. Kept(r, Qty[e.order])
        BY <1>1, <2>1, <3>1, <3>2, ResolveKept, ExecutionsFill
      <3> HIDE DEF r
      <3>4. \A o \in Orders : Kept(oms'.orders[o], Qty[o])
        BY <1>1, <3>1, <3>3 DEF RecordsInv, KeepsRecords
      <3> QED
        BY <1>3, <1>7, <3>4 DEF KeepsRecords
    <2> QED
      BY <2>2, <2>3
  <1> QED
    BY <1>2, <1>4, <1>5, <1>6, <1>7, NextBooks DEF BookStep

-----------------------------------------------------------------------------
(* The account.                                                             *)

LEMMA SignedNumbers ==
    ASSUME NEW state \in PersistentState
    PROVE  /\ \A o \in Orders : /\ SignedFills(state)[o] = Signed(o, state.orders[o].filled)
                                /\ SignedFills(state)[o] \in Int
                                /\ state.orders[o].filled \in Nat
           /\ IsFiniteSet(Orders) /\ InitialCash \in Int
  BY FinitelyManyOrders, OmsAssumption DEF PersistentState, OrderRecord, SignedFills, Signed

LEMMA SameFillsKeepAccount ==
    ASSUME NEW state, NEW next, KeepsAccount(state), next.applied = state.applied,
           next.position = state.position, next.cash = state.cash,
           \A o \in Orders : next.orders[o].filled = state.orders[o].filled
    PROVE  KeepsAccount(next)
  <1>1. SignedFills(next) = SignedFills(state)
    BY DEF SignedFills
  <1> QED
    BY <1>1 DEF KeepsAccount

(* apply_accounted_fill: an execution that is new is filled, and moves the  *)
(* position and the cash by the same amount.                                *)
LEMMA FillKeepsAccount ==
    ASSUME NEW state \in PersistentState, NEW next \in PersistentState, KeepsAccount(state),
           NEW x \in Execution \ state.applied, IsFiniteSet(state.applied),
           next.applied = state.applied \union {x},
           next.position = state.position + Signed(x.order, x.qty),
           next.cash = state.cash - Signed(x.order, x.qty),
           state.position + Signed(x.order, x.qty) >= 0 \/ x.order \notin Sells,
           next.orders[x.order].filled = state.orders[x.order].filled + x.qty,
           \A o \in Orders : o # x.order => next.orders[o].filled = state.orders[o].filled
    PROVE  KeepsAccount(next)
  <1> DEFINE f == SignedFills(state)
  <1> DEFINE g == SignedFills(next)
  <1>1. /\ \A o \in Orders : /\ f[o] \in Int /\ g[o] \in Int
                             /\ f[o] = Signed(o, state.orders[o].filled)
                             /\ g[o] = Signed(o, next.orders[o].filled)
                             /\ state.orders[o].filled \in Nat /\ next.orders[o].filled \in Nat
        /\ IsFiniteSet(Orders) /\ InitialCash \in Int
    BY SignedNumbers
  <1>2. x.order \in Orders /\ x.qty \in Nat /\ Signed(x.order, x.qty) \in Int
    BY DEF Execution, Signed
  <1>3. /\ state.position \in Int /\ state.cash \in Int /\ state.applied \subseteq Execution
    BY DEF PersistentState
  <1> HIDE DEF f, g
  <1>4. /\ g[x.order] = f[x.order] + Signed(x.order, x.qty)
        /\ \A o \in Orders : o # x.order => f[o] = g[o]
    <2>1. g[x.order] = f[x.order] + Signed(x.order, x.qty)
      <3>1. /\ f[x.order] = Signed(x.order, state.orders[x.order].filled)
            /\ g[x.order] = Signed(x.order, state.orders[x.order].filled + x.qty)
            /\ state.orders[x.order].filled \in Nat
        BY <1>1, <1>2
      <3> QED
        BY <1>2, <3>1 DEF Signed
    <2>2. ASSUME NEW o \in Orders, o # x.order
          PROVE  f[o] = g[o]
      BY <1>1, <2>2
    <2> QED
      BY <2>1, <2>2
  <1>5. SumOf(g, Orders) = SumOf(f, Orders) - f[x.order] + g[x.order] /\ SumOf(f, Orders) \in Int
    <2>1. \A o \in Orders : f[o] \in Int /\ g[o] \in Int /\ (o # x.order => f[o] = g[o])
      BY <1>1, <1>4
    <2>2. SumOf(g, Orders) = SumOf(f, Orders) - f[x.order] + g[x.order]
      <3>1. PICK o \in Orders : o = x.order
        BY <1>2
      <3>2. \A y \in Orders : f[y] \in Int /\ g[y] \in Int /\ (y # o => f[y] = g[y])
        BY <2>1, <3>1
      <3>3. SumOf(g, Orders) = SumOf(f, Orders) - f[o] + g[o]
        BY <3>2, FinitelyManyOrders, SumChange
      <3> QED
        BY <3>1, <3>3
    <2>3. SumOf(f, Orders) \in Int
      BY <1>1, <2>1, SumOfParts
    <2> QED
      BY <2>2, <2>3
  <1>6. state.position = SumOf(f, Orders) /\ state.position >= 0
    BY DEF KeepsAccount, f
  <1>7. next.position = SumOf(g, Orders)
    BY <1>1, <1>2, <1>4, <1>5, <1>6
  <1>8. next.position >= 0
    BY <1>2, <1>3, <1>6 DEF Signed
  <1>9. next.cash = InitialCash - next.position
    BY <1>1, <1>2, <1>3 DEF KeepsAccount
  <1>10. \A o \in Orders : next.orders[o].filled = LotsIn(OfOrder(next.applied, o))
    BY <1>2, <1>3, LotsOfOrders DEF KeepsAccount
  <1> QED
    BY <1>7, <1>8, <1>9, <1>10 DEF KeepsAccount, g

LEMMA InitEstablishesAccount == Init => AccountInv
  <1> SUFFICES ASSUME Init PROVE AccountInv
    OBVIOUS
  <1>1. /\ disk = oms /\ oms.applied = {} /\ oms.position = 0 /\ oms.cash = InitialCash
        /\ \A o \in Orders : oms.orders[o].filled = 0
    BY DEF Init, AbsentOrder
  <1>2. \A o \in Orders : OfOrder({}, o) = {}
    BY DEF OfOrder
  <1>3. LotsIn({}) = 0
    BY FS_EmptySet, LotsWith
  <1>4. SumOf(SignedFills(oms), Orders) = 0
    <2>1. \A o \in Orders : SignedFills(oms)[o] = 0
      BY <1>1 DEF SignedFills, Signed
    <2> QED
      BY <2>1, FinitelyManyOrders, SumOfZeros
  <1>5. InitialCash - 0 = InitialCash
    BY OmsAssumption
  <1> QED
    BY <1>1, <1>2, <1>3, <1>4, <1>5 DEF AccountInv, KeepsAccount

LEMMA NextKeepsAccount ==
    Inv /\ Inv' /\ CallInv /\ RecordsInv /\ AccountInv /\ [Next]_vars => AccountInv'
  <1> SUFFICES ASSUME Inv, Inv', CallInv, RecordsInv, AccountInv, [Next]_vars PROVE AccountInv'
    OBVIOUS
  <1>1. /\ oms \in PersistentState /\ oms' \in PersistentState
        /\ oms.orders \in [Orders -> OrderRecord] /\ BrokerTypeOK
        /\ IsFiniteSet(executions) /\ oms.applied \subseteq executions
        /\ KeepsAccount(oms) /\ KeepsAccount(disk)
        /\ \A o \in Orders : Qty[o] \in Nat
    BY TypesOfInv, BrokerAssumption DEF Inv, TypeInv, TypeOK, EvidenceInv, AccountInv
  <1>2. CASE oms' = disk /\ disk' = disk
    BY <1>1, <1>2 DEF AccountInv
  <1>3. ASSUME Saved, KeepsAccount(oms')
        PROVE  AccountInv'
    BY <1>1, <1>3 DEF Saved, AccountInv
  <1>4. CASE Saved /\ SameBooks
    BY <1>1, <1>3, <1>4, SameFillsKeepAccount DEF SameBooks
  <1>5. CASE Saved /\ Books
    <2>1. PICK o \in Orders : ~Exists(o) /\ SetOrder(o, NewOrder)
      BY <1>5 DEF Books
    <2>2. oms.orders[o].filled = NewOrder.filled
      BY <2>1 DEF RecordsInv, KeepsRecords, Kept, Exists, StateOf, NewOrder, AbsentOrder
    <2>3. /\ \A p \in Orders : oms'.orders[p].filled = oms.orders[p].filled
          /\ oms'.applied = oms.applied /\ oms'.position = oms.position /\ oms'.cash = oms.cash
      <3>1. /\ oms'.orders[o].filled = oms.orders[o].filled
            /\ \A p \in Orders : p # o => oms'.orders[p] = oms.orders[p]
        BY <1>1, <2>1, <2>2, SetOrderRecords
      <3>2. oms'.applied = oms.applied /\ oms'.position = oms.position /\ oms'.cash = oms.cash
        BY <1>1, <2>1, SetOrderRecords
      <3> QED
        BY <3>1, <3>2
    <2>4. KeepsAccount(oms')
      BY <1>1, <2>3, SameFillsKeepAccount
    <2> QED
      BY <1>3, <1>5, <2>4
  <1>6. CASE Saved /\ RevisesOne
    <2>1. PICK o \in Orders, r \in OrderRecord : Revises(oms.orders[o], r) /\ SetOrder(o, r)
      BY <1>6 DEF RevisesOne
    <2>2. r.filled = oms.orders[o].filled
      BY <1>1, <2>1, RevisedKept DEF RecordsInv, KeepsRecords
    <2>3. /\ \A p \in Orders : oms'.orders[p].filled = oms.orders[p].filled
          /\ oms'.applied = oms.applied /\ oms'.position = oms.position /\ oms'.cash = oms.cash
      <3>1. /\ oms'.orders[o].filled = oms.orders[o].filled
            /\ \A p \in Orders : p # o => oms'.orders[p] = oms.orders[p]
        BY <1>1, <2>1, <2>2, SetOrderRecords
      <3>2. oms'.applied = oms.applied /\ oms'.position = oms.position /\ oms'.cash = oms.cash
        BY <1>1, <2>1, SetOrderRecords
      <3> QED
        BY <3>1, <3>2
    <2>4. KeepsAccount(oms')
      BY <1>1, <2>3, SameFillsKeepAccount
    <2> QED
      BY <1>3, <1>6, <2>4
  <1>7. CASE Saved /\ AppliesOne
    <2>1. PICK e \in Event : /\ Applicable(e) /\ oms' = Applied(e)
                             /\ IsExecution(e) => ExecutionOf(e) \in executions
      BY <1>7 DEF AppliesOne
    <2>2. CASE oms' = oms
      BY <1>1, <1>3, <1>7, <2>2
    <2>3. CASE oms' # oms
      <3> DEFINE r == Resolve(oms.orders[e.order], e, Qty[e.order])
      <3>1. /\ e.order \in Orders /\ ~Duplicate(e)
            /\ oms'.orders = [oms.orders EXCEPT ![e.order] = r]
            /\ r.filled = IF IsExecution(e) THEN oms.orders[e.order].filled + e.qty
                          ELSE oms.orders[e.order].filled
        BY <1>1, <2>1, <2>3, AppliedOrders, ResolveFills
      <3> HIDE DEF r
      <3>2. /\ oms'.orders[e.order].filled = r.filled
            /\ \A o \in Orders : o # e.order => oms'.orders[o].filled = oms.orders[o].filled
        BY <1>1, <3>1
      <3>3. CASE IsExecution(e)
        <4>1. /\ ExecutionOf(e) \in Execution \ oms.applied
              /\ ExecutionOf(e).order = e.order /\ ExecutionOf(e).qty = e.qty
          BY <1>1, <2>1, <3>1, <3>3, ExecutionsFill DEF Duplicate, ExecutionOf
        <4>2. /\ NotShort(e)
              /\ oms'.applied = oms.applied \union {ExecutionOf(e)}
              /\ oms'.position = oms.position + Signed(e.order, e.qty)
              /\ oms'.cash = oms.cash - Signed(e.order, e.qty)
          BY <1>1, <2>1, <2>3, <3>3, AppliedOrders
        <4>3. IsFiniteSet(oms.applied)
          BY <1>1, FS_Subset
        <4>4. KeepsAccount(oms')
          BY <1>1, <3>1, <3>2, <3>3, <4>1, <4>2, <4>3, FillKeepsAccount DEF NotShort
        <4> QED
          BY <1>3, <1>7, <4>4
      <3>4. CASE ~IsExecution(e)
        <4>1. /\ oms'.applied = oms.applied /\ oms'.position = oms.position
              /\ oms'.cash = oms.cash
          BY <1>1, <2>1, <2>3, <3>4, AppliedOrders
        <4>2. KeepsAccount(oms')
          BY <1>1, <3>1, <3>2, <3>4, <4>1, SameFillsKeepAccount
        <4> QED
          BY <1>3, <1>7, <4>2
      <3> QED
        BY <3>3, <3>4
    <2> QED
      BY <2>2, <2>3
  <1> QED
    BY <1>2, <1>4, <1>5, <1>6, <1>7, NextBooks DEF BookStep

-----------------------------------------------------------------------------
(* What every reachable state satisfies.                                    *)

BooksInv == CallInv /\ RecordsInv /\ AccountInv

LEMMA BooksInvariance == Spec => [](Inv /\ BooksInv)
  <1>1. Init => Inv /\ BooksInv
    BY InitEstablishesInv, InitEstablishesCall, InitEstablishesRecords, InitEstablishesAccount
    DEF BooksInv
  <1>2. Inv /\ BooksInv /\ [Next]_vars => (Inv /\ BooksInv)'
    BY NextKeepsInv, NextKeepsCall, NextKeepsRecords, NextKeepsAccount DEF BooksInv
  <1> QED
    BY <1>1, <1>2, PTL DEF Spec

(* The position as PaperOms states it.                                      *)
LEMMA PositionSum ==
    ASSUME NEW state, \A o \in Orders : state.orders[o].filled = FillsOf(state, o)
    PROVE  MapThenSumSet(LAMBDA o : Signed(o, FillsOf(state, o)), Orders)
             = SumOf(SignedFills(state), Orders)
  <1> DEFINE f == SignedFills(state)
  <1> DEFINE Q(g) ==
          g = [s \in SUBSET Orders |-> IF s = {} THEN 0
                  ELSE Signed(Chosen(s), FillsOf(state, Chosen(s))) + g[s \ {Chosen(s)}]]
  <1>1. MapThenSumSet(LAMBDA o : Signed(o, FillsOf(state, o)), Orders)
          = (CHOOSE g : Q(g))[Orders]
    BY DEF MapThenSumSet, MapThenFoldSet, Chosen
  <1>2. ASSUME NEW g
        PROVE  Q(g) <=> Summing(g, f, Orders)
    <2>1. \A s \in SUBSET Orders : s # {} =>
              f[Chosen(s)] = Signed(Chosen(s), FillsOf(state, Chosen(s)))
      BY DEF Chosen, SignedFills
    <2> HIDE DEF f
    <2> QED
      BY <2>1 DEF Summing
  <1> HIDE DEF Q
  <1>3. (CHOOSE g : Q(g)) = (CHOOSE g : Summing(g, f, Orders))
    BY <1>2
  <1> QED
    BY <1>1, <1>3, SumDefinition

(* Whatever is duplicated, replayed, rolled back or lost, an order's filled *)
(* quantity is the sum of the distinct executions applied to it, position   *)
(* and cash are what those fills make them, in memory and in the journal,   *)
(* and an order is FILLED exactly when it holds its whole quantity          *)
(* (execution_ids, apply_accounted_fill, transition_to_terminal).           *)
THEOREM FillsFaithful == Spec => []FillsAreFaithful
  <1>1. ASSUME NEW state, KeepsAccount(state), state.applied \subseteq executions
        PROVE  Accounted(state)
    <2>1. \A o \in Orders : state.orders[o].filled = FillsOf(state, o)
      BY <1>1 DEF KeepsAccount, LotsIn, OfOrder, FillsOf
    <2> QED
      BY <1>1, <2>1, PositionSum DEF KeepsAccount, Accounted
  <1>2. Inv /\ BooksInv => FillsAreFaithful
    BY <1>1 DEF BooksInv, AccountInv, RecordsInv, KeepsRecords, Kept, Inv, EvidenceInv,
                FillsAreFaithful, FillsMatchExecutions, FilledIsComplete, StateOf
  <1> QED
    BY <1>2, BooksInvariance, PTL

(* restore accepts the orders and the position of whatever the journal's    *)
(* last record is, and all of it unless the position was sold out and left  *)
(* its bucket of lots empty: no other sequence of operations, evidence and  *)
(* faults bars the next start (open_durable, TaxLotBook::recover).          *)
THEOREM JournalRestorable == Spec => []RestoresUnlessSoldOut
  <1>1. Inv /\ BooksInv => RestoresUnlessSoldOut
    BY DEF BooksInv, AccountInv, RecordsInv, KeepsAccount, KeepsRecords, Kept,
           RestoresUnlessSoldOut, Restorable, RestoresOrder
  <1> QED
    BY <1>1, BooksInvariance, PTL

(* In the journal a FILLED order stays so for good, and a cancelled,        *)
(* rejected or expired one leaves that state only together with a new       *)
(* execution of it: no acknowledgement, refusal, replacement or second      *)
(* closing reopens it (transition_to_terminal, apply_broker_event).         *)
THEOREM EndedReopensByExecution == Spec => ReopenedOnlyByExecution
  <1> DEFINE A == \A o \in Orders :
          disk.orders[o].state \in Terminal /\ disk'.orders[o].state # disk.orders[o].state
             => /\ disk.orders[o].state # "FILLED"
                /\ \E x \in disk'.applied \ disk.applied : x.order = o
  <1>1. ASSUME Inv, BooksInv, [Next]_vars, NEW o \in Orders,
               disk.orders[o].state \in Terminal, disk'.orders[o].state # disk.orders[o].state
        PROVE  /\ disk.orders[o].state # "FILLED"
               /\ \E x \in disk'.applied \ disk.applied : x.order = o
    <2>1. /\ oms \in PersistentState /\ oms.orders \in [Orders -> OrderRecord] /\ BrokerTypeOK
          /\ \A p \in Orders : Qty[p] \in Nat
      BY <1>1, TypesOfInv, BrokerAssumption
    <2>2. /\ healthy /\ disk' = oms' /\ (SameBooks \/ Books \/ RevisesOne \/ AppliesOne)
      BY <1>1, NextBooks DEF BookStep, Saved, BooksInv
    <2>3. oms.orders[o] = disk.orders[o] /\ oms.applied = disk.applied
      <3>1. CASE call.at \in {"replaced", "replace_failed"}
        <4>1. disk.orders[call.order].state \notin Terminal
          BY <1>1, <3>1, ReplacingOrder DEF BooksInv, Revisable, Terminal, Closed
        <4>2. o # call.order
          BY <1>1, <4>1
        <4> QED
          BY <1>1, <2>2, <3>1, <4>2, ReplacingOrder DEF BooksInv, Inv, JournalInv
      <3>2. CASE call.at \notin {"replaced", "replace_failed"}
        BY <1>1, <2>2, <3>2 DEF Inv, JournalInv
      <3> QED
        BY <3>1, <3>2
    <2>4. oms.orders[o].state \in Terminal /\ oms'.orders[o].state # oms.orders[o].state
      BY <1>1, <2>2, <2>3
    <2>5. ~SameBooks
      BY <2>4 DEF SameBooks
    <2>6. ~Books
      <3>1. ASSUME NEW p \in Orders, ~Exists(p), SetOrder(p, NewOrder)
            PROVE  FALSE
        <4>1. oms.orders[p].state \notin Terminal
          BY <3>1 DEF Exists, StateOf, Terminal, Closed
        <4>2. o # p
          BY <2>4, <4>1
        <4>3. oms'.orders[o] = oms.orders[o]
          BY <2>1, <3>1, <4>2, SetOrderRecords
        <4> QED
          BY <2>4, <4>3
      <3> QED
        BY <3>1 DEF Books
    <2>7. ~RevisesOne
      <3>1. ASSUME NEW p \in Orders, NEW r \in OrderRecord, Revises(oms.orders[p], r),
                   SetOrder(p, r)
            PROVE  FALSE
        <4>1. oms.orders[p].state \notin Terminal
          BY <3>1 DEF Revises, Revisable, Terminal, Closed
        <4>2. o # p
          BY <2>4, <4>1
        <4>3. oms'.orders[o] = oms.orders[o]
          BY <2>1, <3>1, <4>2, SetOrderRecords
        <4> QED
          BY <2>4, <4>3
      <3> QED
        BY <3>1 DEF RevisesOne
    <2>8. PICK e \in Event : /\ Applicable(e) /\ oms' = Applied(e)
                             /\ IsExecution(e) => ExecutionOf(e) \in executions
      BY <2>2, <2>5, <2>6, <2>7 DEF AppliesOne
    <2> DEFINE r == Resolve(oms.orders[e.order], e, Qty[e.order])
    <2>9. /\ ~Duplicate(e) /\ e.order \in Orders
          /\ Accepts(oms.orders[e.order], e, Qty[e.order])
          /\ oms'.orders = [oms.orders EXCEPT ![e.order] = r]
          /\ IsExecution(e) => oms'.applied = oms.applied \union {ExecutionOf(e)}
      BY <2>1, <2>4, <2>8, AppliedOrders
    <2>10. o = e.order /\ r.state # oms.orders[o].state
      <3> HIDE DEF r
      <3> QED
        BY <2>1, <2>4, <2>9
    <2>11. IsExecution(e)
      BY <2>1, <2>4, <2>10, EndedStays
    <2>12. /\ ExecutionOf(e) \in oms'.applied \ oms.applied /\ ExecutionOf(e).order = o
      BY <2>9, <2>10, <2>11 DEF Duplicate, ExecutionOf
    <2>13. oms.orders[o].state # "FILLED"
      <3>1. /\ oms.orders[o].filled + e.qty <= Qty[o]
            /\ e.qty > 0 /\ e.qty \in Nat /\ oms.orders[o].filled \in Nat
        BY <2>1, <2>8, <2>9, <2>10, <2>11, ExecutionsFill
        DEF Accepts, CanExecute, IsExecution, Event, OrderRecord
      <3>2. oms.orders[o].state = "FILLED" => oms.orders[o].filled = Qty[o]
        BY <1>1 DEF BooksInv, RecordsInv, KeepsRecords, Kept
      <3> QED
        BY <2>1, <3>1, <3>2
    <2> QED
      BY <2>2, <2>3, <2>12, <2>13
  <1>2. Inv /\ BooksInv /\ [Next]_vars => [A]_vars
    BY <1>1
  <1> QED
    BY <1>2, BooksInvariance, PTL DEF Spec, ReopenedOnlyByExecution

-----------------------------------------------------------------------------
(***************************************************************************)
(* Pre-trade risk of PaperOms at the venue, for any number of orders on     *)
(* both sides, any quantities, limits and bounds, and any set of faults:    *)
(* while no execution surfaces after its order was taken for closed, what   *)
(* the venue holds and works stays covered by cash and by the position, on  *)
(* one side and within the number of open orders.                          *)
(*                                                                         *)
(* evaluate_risk sees only the service's own records.  WithinRisk states    *)
(* its limits over any records: the service's, in memory and in the journal *)
(* (RiskInv), and the venue's.  TrailInv says how far the first can be from *)
(* the last: a record closed too early has an execution still to come       *)
(* (BehindInv), and a closing status in the queue is no sooner there than   *)
(* the venue closed the order (QueueInv).  A batch that starts with a       *)
(* closing may deliver it once more at its end, when the venue works the    *)
(* order again; the first delivery then has already been noted as late.     *)
(***************************************************************************)

(* Closing statuses in the queue, of which a copy may follow.               *)

IsClosing(e) == e.type \in Closings

Precedes(queue, i, o) == \E j \in 1..(i - 1) : IsClosing(queue[j]) /\ queue[j].order = o

ClosingsLead(queue, unapplied, known, open) ==
    \A i \in 1..Len(queue) :
        IsClosing(queue[i]) =>
            /\ queue[i].order \in known
            /\ queue[i].order \in open =>
                  \/ Precedes(queue, i, queue[i].order)
                  \/ \E x \in unapplied : x.order = queue[i].order /\ Unreported(queue, i, x)

LEMMA LeadAppend ==
    ASSUME NEW queue \in Seq(Event), NEW e \in Event, NEW unapplied, NEW known, NEW open,
           ClosingsLead(queue, unapplied, known, open),
           IsClosing(e) => /\ e.order \in known
                           /\ e.order \in open => Precedes(queue, Len(queue) + 1, e.order)
    PROVE  ClosingsLead(Append(queue, e), unapplied, known, open)
  <1> DEFINE longer == Append(queue, e)
  <1>1. /\ Len(longer) = Len(queue) + 1 /\ longer[Len(queue) + 1] = e /\ Len(queue) \in Nat
        /\ \A i \in 1..Len(queue) : longer[i] = queue[i]
    OBVIOUS
  <1> HIDE DEF longer
  <1>2. ASSUME NEW i \in 1..Len(longer), IsClosing(longer[i])
        PROVE  /\ longer[i].order \in known
               /\ longer[i].order \in open =>
                     \/ Precedes(longer, i, longer[i].order)
                     \/ \E x \in unapplied : x.order = longer[i].order /\ Unreported(longer, i, x)
    <2>1. \A j \in 1..(i - 1) : longer[j] = queue[j]
      BY <1>1
    <2>2. \A o : Precedes(queue, i, o) => Precedes(longer, i, o)
      BY <2>1 DEF Precedes
    <2>3. CASE i = Len(queue) + 1
      BY <1>1, <1>2, <2>2, <2>3
    <2>4. CASE i \in 1..Len(queue)
      <3>1. \A x : Unreported(queue, i, x) => Unreported(longer, i, x)
        BY <2>1 DEF Unreported
      <3> QED
        BY <1>1, <1>2, <2>2, <2>4, <3>1 DEF ClosingsLead
    <2> QED
      BY <1>1, <2>3, <2>4
  <1> QED
    BY <1>2 DEF ClosingsLead, longer

(* The venue goes on: an order that works again does so by an execution     *)
(* nothing in the queue reports.                                            *)
LEMMA LeadWhileVenueMoves ==
    ASSUME NEW queue \in Seq(Event), NEW unapplied, NEW known, NEW open,
           NEW unapplied2, NEW known2, NEW open2,
           ClosingsLead(queue, unapplied, known, open),
           unapplied \subseteq unapplied2, known \subseteq known2,
           \A o \in known \intersect open2 :
              \/ o \in open
              \/ \E x \in unapplied2 :
                    x.order = o /\ \A j \in 1..Len(queue) : Unreported(queue, j, x)
    PROVE  ClosingsLead(queue, unapplied2, known2, open2)
  <1>1. ASSUME NEW i \in 1..Len(queue), IsClosing(queue[i])
        PROVE  /\ queue[i].order \in known2
               /\ queue[i].order \in open2 =>
                     \/ Precedes(queue, i, queue[i].order)
                     \/ \E x \in unapplied2 : x.order = queue[i].order /\ Unreported(queue, i, x)
    BY <1>1 DEF ClosingsLead
  <1> QED
    BY <1>1 DEF ClosingsLead

(* The first event is taken out, and applied if it is an execution.  It is  *)
(* no closing of an order the venue works.                                  *)
LEMMA LeadTail ==
    ASSUME NEW queue \in Seq(Event), queue # <<>>, NEW unapplied, NEW known, NEW open,
           ClosingsLead(queue, unapplied, known, open), NEW left,
           IsClosing(queue[1]) => queue[1].order \notin open,
           \A x \in unapplied :
              x \in left \/ (IsExecution(queue[1]) /\ ExecutionOf(queue[1]) = x)
    PROVE  ClosingsLead(Tail(queue), left, known, open)
  <1> DEFINE rest == Tail(queue)
  <1>1. /\ Len(queue) \in Nat /\ Len(queue) >= 1 /\ Len(rest) = Len(queue) - 1
        /\ \A i \in 1..Len(rest) : rest[i] = queue[i + 1] /\ i + 1 \in 1..Len(queue)
    OBVIOUS
  <1> HIDE DEF rest
  <1>2. ASSUME NEW i \in 1..Len(rest), IsClosing(rest[i])
        PROVE  /\ rest[i].order \in known
               /\ rest[i].order \in open =>
                     \/ Precedes(rest, i, rest[i].order)
                     \/ \E x \in left : x.order = rest[i].order /\ Unreported(rest, i, x)
    <2>1. /\ rest[i] = queue[i + 1] /\ i + 1 \in 1..Len(queue)
          /\ IsClosing(queue[i + 1]) /\ i \in Nat /\ i >= 1
      BY <1>1, <1>2
    <2>2. \A j \in 1..(i - 1) : rest[j] = queue[j + 1] /\ j + 1 \in 1..i
      BY <1>1, <2>1
    <2>3. ASSUME NEW x, Unreported(queue, i + 1, x)
          PROVE  /\ Unreported(rest, i, x)
                 /\ ~(IsExecution(queue[1]) /\ ExecutionOf(queue[1]) = x)
      <3>1. \A j \in 1..i : ~(IsExecution(queue[j]) /\ ExecutionOf(queue[j]) = x)
        BY <2>1, <2>3 DEF Unreported
      <3>2. 1 \in 1..i
        BY <2>1
      <3> QED
        BY <2>2, <3>1, <3>2 DEF Unreported
    <2>4. ASSUME Precedes(queue, i + 1, rest[i].order), rest[i].order \in open
          PROVE  Precedes(rest, i, rest[i].order)
      <3>1. PICK j \in 1..i : IsClosing(queue[j]) /\ queue[j].order = rest[i].order
        BY <2>1, <2>4 DEF Precedes
      <3>2. j # 1
        BY <2>4, <3>1
      <3>3. j - 1 \in 1..(i - 1) /\ rest[j - 1] = queue[j]
        BY <2>1, <2>2, <3>1, <3>2
      <3> QED
        BY <3>1, <3>3 DEF Precedes
    <2> QED
      BY <2>1, <2>3, <2>4 DEF ClosingsLead
  <1> QED
    BY <1>2 DEF ClosingsLead, rest

(* Reports of executions follow.                                            *)
LEMMA LeadReports ==
    ASSUME NEW queue \in Seq(Event), NEW more \in Seq(Event), NEW unapplied, NEW known, NEW open,
           ClosingsLead(queue, unapplied, known, open),
           \A i \in 1..Len(more) : ~IsClosing(more[i])
    PROVE  ClosingsLead(queue \o more, unapplied, known, open)
  <1> DEFINE whole == queue \o more
  <1>1. /\ Len(whole) = Len(queue) + Len(more) /\ Len(queue) \in Nat /\ Len(more) \in Nat
        /\ \A i \in 1..Len(queue) : whole[i] = queue[i]
        /\ \A i \in 1..Len(more) : whole[Len(queue) + i] = more[i]
    OBVIOUS
  <1> HIDE DEF whole
  <1>2. ASSUME NEW i \in 1..Len(whole), IsClosing(whole[i])
        PROVE  /\ whole[i].order \in known
               /\ whole[i].order \in open =>
                     \/ Precedes(whole, i, whole[i].order)
                     \/ \E x \in unapplied : x.order = whole[i].order /\ Unreported(whole, i, x)
    <2>1. i \in 1..Len(queue)
      <3>1. CASE i > Len(queue)
        <4>1. i - Len(queue) \in 1..Len(more) /\ Len(queue) + (i - Len(queue)) = i
          BY <1>1, <3>1
        <4> QED
          BY <1>1, <1>2, <4>1
      <3> QED
        BY <1>1, <3>1
    <2>2. \A j \in 1..(i - 1) : whole[j] = queue[j]
      BY <1>1, <2>1
    <2>3. \A o : Precedes(queue, i, o) => Precedes(whole, i, o)
      BY <2>2 DEF Precedes
    <2>4. \A x : Unreported(queue, i, x) => Unreported(whole, i, x)
      BY <2>2 DEF Unreported
    <2> QED
      BY <1>1, <1>2, <2>1, <2>3, <2>4 DEF ClosingsLead
  <1> QED
    BY <1>2 DEF ClosingsLead, whole

(* A fault delivers the first event once more.                              *)
LEMMA LeadDrained ==
    ASSUME NEW queue \in Seq(Event), NEW batch \in Drained(queue),
           NEW unapplied, NEW known, NEW open, ClosingsLead(queue, unapplied, known, open)
    PROVE  batch \in Seq(Event) /\ ClosingsLead(batch, unapplied, known, open)
  <1>1. CASE batch = queue
    BY <1>1
  <1>2. CASE batch # queue
    <2>1. batch = Append(queue, Head(queue)) /\ queue # <<>>
      BY <1>2 DEF Drained
    <2>2. /\ Head(queue) \in Event /\ Head(queue) = queue[1] /\ Len(queue) \in Nat
          /\ 1 \in 1..Len(queue) /\ 1 \in 1..(Len(queue) + 1 - 1)
      BY <2>1
    <2>3. IsClosing(Head(queue)) => /\ Head(queue).order \in known
                                    /\ Precedes(queue, Len(queue) + 1, Head(queue).order)
      BY <2>2 DEF ClosingsLead, Precedes
    <2> QED
      BY <2>1, <2>2, <2>3, LeadAppend
  <1> QED
    BY <1>1, <1>2

-----------------------------------------------------------------------------
(* The invariant.                                                           *)

BehindInv ==
    /\ late = {} => Behind(oms, venue) /\ Behind(disk, venue)
    /\ Noted(oms, venue, late)

OrdersAtVenue == {o \in Orders : Known(o)}
Queue == call.events \o pending
QueueInv ==
    healthy /\ late = {} =>
        ClosingsLead(Queue, executions \ oms.applied, OrdersAtVenue, OpenAtVenue)

(* A rejection about to be recorded.                                        *)
RejectInv ==
    call.at = "submitted" /\ call.answer = "REJECTED" /\ WorkingAtVenue(call.order)
        => oms.orders[call.order].filled < venue[call.order].filled

TrailInv == BehindInv /\ QueueInv /\ RejectInv

(* The limits over the orders as `held`, of which `open` may still execute. *)
(* A purchase that may still execute is charged in whole, a sale that may   *)
(* still execute is covered in whole.                                       *)
Charge(held, open) ==
    [o \in Orders |-> IF o \in Sells THEN -held[o].filled
                      ELSE IF o \in open THEN Qty[o] ELSE held[o].filled]
Cover(held, open) ==
    [o \in Orders |-> IF o \notin Sells THEN held[o].filled
                      ELSE IF o \in open THEN -Qty[o] ELSE -held[o].filled]
WithinRisk(held, open) ==
    /\ SumOf(Charge(held, open), Orders) <= InitialCash
    /\ SumOf(Cover(held, open), Orders) >= 0
    /\ \A o, p \in open : (o \in Sells) = (p \in Sells)
    /\ Cardinality(open) <= MaxOpenOrders

WorkingIn(orders) == {o \in Orders : IsWorking(orders[o])}
RecordsWithinRisk(state) == WithinRisk(state.orders, WorkingIn(state.orders))
RiskInv == late = {} => RecordsWithinRisk(oms) /\ RecordsWithinRisk(disk)

-----------------------------------------------------------------------------
(* The venue's own account holds at every step.                             *)

LEMMA InitEstablishesVenueAccount == Init => VenueAccount
  <1> SUFFICES ASSUME Init PROVE VenueAccount
    OBVIOUS
  <1>1. executions = {} /\ \A o \in Orders : venue[o].filled = 0 /\ OfOrder(executions, o) = {}
    BY DEF Init, BrokerInit, NeverReceived, OfOrder
  <1>2. LotsIn({}) = 0
    BY FS_EmptySet, LotsWith
  <1>3. \A o \in Orders : 0 <= Qty[o]
    BY BrokerAssumption
  <1>4. \A o \in Orders : ~WorkingAtVenue(o)
    BY DEF Init, BrokerInit, NeverReceived, WorkingAtVenue, Known
  <1> QED
    BY <1>1, <1>2, <1>3, <1>4 DEF VenueAccount

LEMMA VenueMovesInStep ==
    ASSUME Inv, VenueAccount, VenueStep
    PROVE  VenueOrdersMove /\ QueueMoves
  <1>1. BrokerTypeOK /\ IsFiniteSet(executions)
    BY TypesOfInv
  <1>2. ASSUME NEW o \in Orders, NEW n \in 1..Qty[o], AtVenue(VenueExecute(o, n))
        PROVE  VenueOrdersMove /\ QueueMoves
    BY <1>1, <1>2, VenueExecuteMoves DEF AtVenue
  <1>3. ASSUME NEW o \in Orders, NEW type \in Closings, AtVenue(VenueClose(o, type))
        PROVE  VenueOrdersMove /\ QueueMoves
    BY <1>1, <1>3, VenueCloseMoves DEF AtVenue
  <1>4. ASSUME NEW o \in Orders,
               \/ AtVenue(VenueRejectCancel(o)) \/ AtVenue(VenueRejectReplace(o))
               \/ AtVenue(VenueModify(o)) \/ AtVenue(VenueReplace(o))
        PROVE  VenueOrdersMove /\ QueueMoves
    BY <1>1, <1>4, VenueAnswerMoves DEF AtVenue
  <1>5. ASSUME NEW x \in executions, AtVenue(EmitExecution(x))
        PROVE  VenueOrdersMove /\ QueueMoves
    BY <1>1, <1>5, EmitMoves DEF AtVenue
  <1> QED
    BY <1>2, <1>3, <1>4, <1>5 DEF VenueStep

LEMMA CallCancelMoves ==
    ASSUME Inv, VenueAccount, CallCancel
    PROVE  /\ VenueOrdersMove /\ QueueMoves /\ executions' = executions
           /\ \A o \in Orders : Known(o)' <=> Known(o)
  <1>1. PICK o \in Orders : o = call.order
    BY DEF CallCancel, Inv, StageInv
  <1>2. BrokerCancel(o)
    BY <1>1 DEF CallCancel
  <1> QED
    BY <1>2, TypesOfInv, RequestMoves, BrokerCancelStep DEF Inv, EvidenceInv

LEMMA CallSubmitMoves ==
    ASSUME Inv, CallInv, VenueAccount, CallSubmit
    PROVE  /\ VenueOrdersMove /\ QueueMoves /\ executions' = executions
           /\ \E o \in Orders :
                 /\ o = call.order /\ ~Known(o)
                 /\ oms.orders[o].state = "PENDING_SUBMIT"
                 /\ \A p \in Orders \ {o} : ~Known(p) => ~Known(p)'
                 /\ call'.order = o
                 /\ call'.answer = "REJECTED" => ~OpenAt(venue', o)
           /\ call'.events = call.events
           /\ disk = oms /\ UNCHANGED <<oms, disk, healthy, late>>
  <1>1. PICK answer \in SubmitAnswers :
            /\ BrokerSubmit(call.order, answer)
            /\ call' = [call EXCEPT !.at = "submitted", !.answer = answer]
    BY DEF CallSubmit
  <1>2. PICK o \in Orders : o = call.order
    BY DEF CallSubmit, Inv, StageInv
  <1>3. /\ submits[o] = 0 /\ call \in Call /\ oms.orders[o].state = "PENDING_SUBMIT"
        /\ disk = oms
    BY <1>2, TypesOfInv DEF CallSubmit, Inv, StageInv, JournalInv, StateOf
  <1>4. ~Known(o)
    BY <1>3 DEF Inv, SentInv
  <1>5. BrokerSubmit(o, answer)
    BY <1>1, <1>2
  <1>6. /\ VenueOrdersMove /\ QueueMoves
        /\ answer = "REJECTED" => ~WorkingAtVenue(o)'
        /\ \A p \in Orders \ {o} : ~Known(p) => ~Known(p)'
    BY <1>4, <1>5, TypesOfInv, SubmitMoves
  <1>7. executions' = executions
    BY <1>5, TypesOfInv, BrokerSubmitStep DEF Inv, EvidenceInv
  <1>8. call'.order = o /\ call'.answer = answer /\ call'.events = call.events
    BY <1>1, <1>2, <1>3 DEF Call
  <1>9. WorkingAtVenue(o)' <=> OpenAt(venue', o)
    BY DEF WorkingAtVenue, Known, OpenAt
  <1>10. UNCHANGED <<oms, disk, healthy, late>>
    BY DEF CallSubmit
  <1> QED
    BY <1>2, <1>3, <1>4, <1>6, <1>7, <1>8, <1>9, <1>10

(* A replacement asked for leaves the venue's order as it is.               *)
VenueSame ==
    /\ executions' = executions
    /\ \A o \in Orders : /\ venue'[o].version = venue[o].version
                         /\ venue'[o].state = venue[o].state
                         /\ venue'[o].filled = venue[o].filled

LEMMA ReplaceOrderSame ==
    ASSUME Inv, NEW o \in Orders, ReplaceOrder(o)
    PROVE  VenueSame /\ pending' = pending
  <1>1. venue \in [Orders -> VenueOrder]
    BY TypesOfInv DEF BrokerTypeOK
  <1>2. CASE BrokerReplace(o)
    <2> DEFINE r == [venue[o] EXCEPT !.asked = @ \union {"REPLACE"}]
    <2>1. r.version = venue[o].version /\ r.state = venue[o].state /\ r.filled = venue[o].filled
      BY <1>1 DEF VenueOrder
    <2>2. venue' = [venue EXCEPT ![o] = r] /\ UNCHANGED <<executions, pending>>
      BY <1>2 DEF BrokerReplace
    <2> HIDE DEF r
    <2> QED
      BY <1>1, <2>1, <2>2 DEF VenueSame
  <1>3. CASE UNCHANGED brokerVars
    BY <1>3 DEF brokerVars, VenueSame
  <1> QED
    BY <1>2, <1>3 DEF ReplaceOrder

(* Only these reach the venue or are its own.                               *)
AtBroker == CallSubmit \/ CallCancel \/ VenueStep

LEMMA VenueStaysElsewhere ==
    ASSUME Inv, [Next]_vars, ~AtBroker
    PROVE  VenueSame
  <1> USE DEF brokerVars, BridgeRestart
  <1>1. CASE \E o \in Orders : ReplaceOrder(o)
    BY <1>1, ReplaceOrderSame
  <1>2. CASE ~\E o \in Orders : ReplaceOrder(o)
    <2>1. UNCHANGED <<venue, executions>>
      <3>1. CASE ServiceStep
        BY <3>1 DEF ServiceStep, AtBroker, RecordSubmit, RecordCancelFailure, RecordReplace,
                    RecordReplaceFailure, ApplyEvent, FinishDrain
      <3>2. CASE OperatorStep
        BY <1>2, <3>2
        DEF OperatorStep, SubmitIntent, RefuseIntent, CancelOrder, ExplainIncident,
            Synchronize, Reconnect, LoseSession, SessionLost, Reconcile, SnapshotLost,
            ActivateKillSwitch, DeactivateKillSwitch
      <3>3. CASE Restart
        BY <3>3 DEF Restart
      <3>4. CASE UNCHANGED vars
        BY <3>4 DEF vars
      <3> QED
        BY <3>1, <3>2, <3>3, <3>4 DEF Next, AtBroker
    <2> QED
      BY <2>1 DEF VenueSame
  <1> QED
    BY <1>1, <1>2

LEMMA NextKeepsVenueAccount == Inv /\ CallInv /\ VenueAccount /\ [Next]_vars => VenueAccount'
  <1> SUFFICES ASSUME Inv, CallInv, VenueAccount, [Next]_vars PROVE VenueAccount'
    OBVIOUS
  <1>1. CASE AtBroker
    BY <1>1, VenueMovesInStep, CallCancelMoves, CallSubmitMoves DEF AtBroker, VenueOrdersMove
  <1>2. CASE ~AtBroker
    <2>1. VenueSame
      BY <1>2, VenueStaysElsewhere
    <2>2. executions \subseteq PossibleExecutions /\ \A x \in executions : x.order \in Orders
      BY TypesOfInv DEF PossibleExecutions
    <2> QED
      BY <2>1, <2>2 DEF VenueSame, VenueAccount, WorkingAtVenue, Known, OfOrder
  <1> QED
    BY <1>1, <1>2

-----------------------------------------------------------------------------
(* Steps that leave the venue's orders as they are.                         *)

KernelMoves ==
    /\ VenueSame
    /\ late' = {} =>
          \A o \in Orders : Follows(oms.orders[o], oms'.orders[o], Qty[o], venue[o])
    /\ \A o \in Orders : oms.orders[o].filled <= oms'.orders[o].filled
    /\ disk' = disk \/ disk' = oms'
    /\ late \subseteq late' /\ Noted(oms', venue', late')
    /\ QueueInv' /\ RejectInv'

(* Of these, the ones that neither poll nor apply evidence.                 *)
StillMoves ==
    /\ VenueSame /\ oms'.applied = oms.applied
    /\ \A o \in Orders : /\ Follows(oms.orders[o], oms'.orders[o], Qty[o], venue[o])
                         /\ oms'.orders[o].filled = oms.orders[o].filled
    /\ disk' = disk \/ disk' = oms'
    /\ healthy' => healthy
    /\ Queue' = Queue
    /\ call'.at # "submitted" \/ UNCHANGED <<call, oms>>
    /\ \/ NoteLate
       \/ /\ late' = late
          /\ \A o \in Orders : \/ oms'.orders[o] = oms.orders[o]
                               \/ oms'.orders[o].state \in Working

LEMMA VenueSameOpen ==
    ASSUME VenueSame
    PROVE  /\ OrdersAtVenue' = OrdersAtVenue /\ OpenAtVenue' = OpenAtVenue
           /\ \A o \in Orders : OpenAt(venue', o) <=> OpenAt(venue, o)
           /\ \A o \in Orders : WorkingAtVenue(o)' <=> WorkingAtVenue(o)
  BY DEF VenueSame, OrdersAtVenue, OpenAtVenue, WorkingAtVenue, Known, OpenAt

LEMMA NoteLateNotes ==
    ASSUME NoteLate
    PROVE  late \subseteq late' /\ Noted(oms', venue', late')
  <1>1. ASSUME NEW o \in Orders, oms'.orders[o].state \in Closed,
               oms'.orders[o].filled < venue'[o].filled
        PROVE  venue'[o].filled > oms'.orders[o].filled
    BY <1>1
  <1> QED
    BY <1>1 DEF NoteLate, Noted

LEMMA FilledNumbers ==
    ASSUME Inv
    PROVE  \A o \in Orders :
              /\ oms.orders[o].filled \in Nat /\ disk.orders[o].filled \in Nat
              /\ venue[o].filled \in Nat /\ Qty[o] \in Nat
  BY TypesOfInv, BrokerAssumption DEF OrderRecord, BrokerTypeOK, VenueOrder

LEMMA StillIsKernelMove ==
    ASSUME Inv, TrailInv, StillMoves
    PROVE  KernelMoves
  <1>1. VenueSame /\ executions' = executions /\ oms'.applied = oms.applied
    BY DEF StillMoves, VenueSame
  <1>2. late \subseteq late'
    BY DEF StillMoves, NoteLate
  <1>3. QueueInv'
    <2> SUFFICES ASSUME healthy', late' = {}
                 PROVE  ClosingsLead(Queue', executions' \ oms'.applied, OrdersAtVenue', OpenAtVenue')
      BY DEF QueueInv
    <2>1. healthy /\ late = {} /\ Queue' = Queue
      BY <1>2 DEF StillMoves
    <2>2. ClosingsLead(Queue, executions \ oms.applied, OrdersAtVenue, OpenAtVenue)
      BY <2>1 DEF TrailInv, QueueInv
    <2> QED
      BY <1>1, <2>1, <2>2, VenueSameOpen
  <1>4. RejectInv'
    <2> SUFFICES ASSUME call'.at = "submitted", call'.answer = "REJECTED", OpenAt(venue', call'.order)
                 PROVE  oms'.orders[call'.order].filled < venue'[call'.order].filled
      BY DEF RejectInv, WorkingAtVenue, Known, OpenAt
    <2>1. UNCHANGED <<call, oms>>
      BY DEF StillMoves
    <2>2. PICK o \in Orders : o = call.order
      BY <2>1 DEF Inv, StageInv
    <2>3. OpenAt(venue, o) /\ venue'[o].filled = venue[o].filled
      BY <1>1, <2>1, <2>2, VenueSameOpen DEF VenueSame
    <2> QED
      BY <2>1, <2>2, <2>3 DEF TrailInv, RejectInv, WorkingAtVenue, Known, OpenAt
  <1>5. Noted(oms', venue', late')
    <2>1. CASE NoteLate
      BY <2>1, NoteLateNotes
    <2>2. CASE /\ late' = late
               /\ \A o \in Orders : \/ oms'.orders[o] = oms.orders[o]
                                    \/ oms'.orders[o].state \in Working
      BY <1>1, <2>2, StatesApart DEF TrailInv, BehindInv, Noted, VenueSame
    <2> QED
      BY <2>1, <2>2 DEF StillMoves
  <1>6. \A o \in Orders : oms.orders[o].filled <= oms'.orders[o].filled
    BY FilledNumbers DEF StillMoves
  <1> QED
    BY <1>2, <1>3, <1>4, <1>5, <1>6 DEF StillMoves, KernelMoves

(* Saving ends an operation or goes on with it, and queues nothing.         *)
LEMMA SavingQueuesNothing ==
    ASSUME CallInv, call.at # "draining", NEW next, SaveThen(next), next.events = <<>>,
           next.at # "submitted", pending' = pending
    PROVE  /\ Queue' = Queue /\ call'.at # "submitted"
           /\ healthy' => healthy
           /\ disk' = disk \/ disk' = oms'
  <1>1. call.events = <<>> /\ call' \in {next, Idle}
    BY DEF CallInv, SaveThen
  <1>2. call'.events = <<>> /\ call'.at # "submitted"
    BY <1>1, CallTypes
  <1> QED
    BY <1>1, <1>2 DEF Queue, SaveThen, Persisted, PersistFailed

LEMMA OrderMoves ==
    ASSUME Inv, NEW o \in Orders, NEW record \in OrderRecord, SetOrder(o, record),
           oms.orders[o].state \in Working, record.filled = oms.orders[o].filled,
           \/ record.state \in Working
           \/ /\ record.state \in Closed /\ NoteLate
              /\ OpenAt(venue, o) => oms.orders[o].filled < venue[o].filled,
           VenueSame, disk' = disk \/ disk' = oms', healthy' => healthy, Queue' = Queue,
           call'.at # "submitted", late' = late \/ NoteLate
    PROVE  StillMoves
  <1>1. /\ oms'.orders[o] = record /\ \A p \in Orders : p # o => oms'.orders[p] = oms.orders[p]
        /\ oms'.applied = oms.applied
    BY TypesOfInv, SetOrderRecords
  <1>2. ASSUME NEW p \in Orders
        PROVE  /\ Follows(oms.orders[p], oms'.orders[p], Qty[p], venue[p])
               /\ oms'.orders[p].filled = oms.orders[p].filled
    <2>1. CASE p # o
      BY <1>1, <2>1 DEF Follows
    <2>2. CASE p = o
      BY <1>1, <2>2 DEF Follows, OpenAt
    <2> QED
      BY <2>1, <2>2
  <1>3. \A p \in Orders : NoteLate \/ oms'.orders[p] = oms.orders[p]
                                   \/ oms'.orders[p].state \in Working
    BY <1>1
  <1> QED
    BY <1>1, <1>2, <1>3 DEF StillMoves

LEMMA RecordSubmitMoves ==
    ASSUME Inv, CallInv, RejectInv, RecordSubmit
    PROVE  StillMoves
  <1>1. PICK o \in Orders : o = call.order
    BY DEF RecordSubmit, Inv, StageInv
  <1> DEFINE record == Answered(oms.orders[o], call.answer)
  <1>2. /\ call.at = "submitted" /\ call.answer \in SubmitAnswers
        /\ oms.orders[o].state = "PENDING_SUBMIT" /\ oms.orders[o] \in OrderRecord
    BY <1>1, TypesOfInv DEF RecordSubmit, Inv, StageInv, CallInv, StateOf
  <1>3. record \in OrderRecord /\ record.filled = oms.orders[o].filled
    BY <1>2, AnsweredIsStored DEF Answered, OrderRecord
  <1>4. \/ record.state \in Working
        \/ record.state = "REJECTED" /\ call.answer = "REJECTED"
    BY <1>2, StatesApart DEF Answered, SubmitAnswers, OrderRecord
  <1>5. call.answer = "REJECTED" /\ OpenAt(venue, o) => oms.orders[o].filled < venue[o].filled
    BY <1>1, <1>2 DEF RejectInv, WorkingAtVenue, Known, OpenAt
  <1>6. SetOrder(o, record) /\ SaveThen(Idle) /\ UNCHANGED brokerVars /\ NoteLate
    BY <1>1 DEF RecordSubmit
  <1>7. "REJECTED" \in Closed /\ Idle.events = <<>> /\ Idle.at # "submitted"
    BY CallTypes DEF Closed
  <1>8. oms.orders[o].state \in Working
    BY <1>2, StatesApart
  <1>9. VenueSame /\ pending' = pending
    BY <1>6 DEF brokerVars, VenueSame
  <1>10. /\ Queue' = Queue /\ call'.at # "submitted" /\ (healthy' => healthy)
         /\ disk' = disk \/ disk' = oms'
    BY <1>2, <1>6, <1>7, <1>9, SavingQueuesNothing
  <1> HIDE DEF record
  <1> QED
    BY <1>3, <1>4, <1>5, <1>6, <1>7, <1>8, <1>9, <1>10, OrderMoves

LEMMA RequestMovesOrder ==
    ASSUME Inv, CallInv, NEW o \in Orders, CancelOrder(o) \/ ReplaceOrder(o)
    PROVE  StillMoves
  <1>1. /\ oms.orders[o] \in OrderRecord /\ oms.orders[o].state \in Working
        /\ late' = late /\ oms.orders[o].state \in Revisable /\ call.at = "idle"
    BY TypesOfInv, StatesApart DEF CancelOrder, ReplaceOrder, Ready, StateOf
  <1>2. CASE CancelOrder(o)
    <2> DEFINE record == [oms.orders[o] EXCEPT !.state = "PENDING_CANCEL"]
    <2> DEFINE next == Calling("cancelling", o)
    <2>1. /\ record \in OrderRecord /\ record.filled = oms.orders[o].filled
          /\ record.state = "PENDING_CANCEL"
      BY <1>1, RecordStates DEF OrderRecord
    <2>2. next.events = <<>> /\ next.at # "submitted"
      BY CallTypes DEF Stages
    <2>3. SetOrder(o, record) /\ SaveThen(next)
      BY <1>2 DEF CancelOrder, SetState
    <2>4. VenueSame /\ pending' = pending
      BY <1>2 DEF CancelOrder, brokerVars, VenueSame
    <2> HIDE DEF record, next
    <2>5. /\ Queue' = Queue /\ call'.at # "submitted" /\ (healthy' => healthy)
          /\ disk' = disk \/ disk' = oms'
      BY <1>1, <2>2, <2>3, <2>4, SavingQueuesNothing
    <2> QED
      BY <1>1, <2>1, <2>3, <2>4, <2>5, StatesApart, OrderMoves
  <1>3. CASE ReplaceOrder(o)
    <2> DEFINE record == PendingReplacement(oms.orders[o])
    <2>1. /\ record \in OrderRecord /\ record.filled = oms.orders[o].filled
          /\ record.state = "PENDING_REPLACE"
      BY <1>1, RecordStates DEF OrderRecord, PendingReplacement
    <2>2. SetOrder(o, record) /\ disk' = disk /\ healthy' = healthy
      BY <1>3 DEF ReplaceOrder
    <2>3. VenueSame /\ pending' = pending
      BY <1>3, ReplaceOrderSame
    <2>4. call'.events = <<>> /\ call'.at # "submitted"
      BY <1>3, CallTypes DEF ReplaceOrder, Stages
    <2>5. Queue' = Queue
      BY <1>1, <2>3, <2>4 DEF Queue, CallInv
    <2> HIDE DEF record
    <2> QED
      BY <1>1, <2>1, <2>2, <2>3, <2>4, <2>5, StatesApart, OrderMoves
  <1> QED
    BY <1>2, <1>3

LEMMA RecordFailureMoves ==
    ASSUME Inv, CallInv, RecordCancelFailure \/ RecordReplaceFailure
    PROVE  StillMoves
  <1>1. PICK o \in Orders : o = call.order
    BY DEF RecordCancelFailure, RecordReplaceFailure, Inv, StageInv
  <1> DEFINE record == [oms.orders[o] EXCEPT !.state = "UNKNOWN"]
  <1>2. /\ call.at # "draining" /\ oms.orders[o].state \in {"PENDING_CANCEL", "PENDING_REPLACE"}
        /\ oms.orders[o] \in OrderRecord
    BY <1>1, TypesOfInv, ReplacingOrder
    DEF RecordCancelFailure, RecordReplaceFailure, CallInv, StateOf
  <1>3. /\ record \in OrderRecord /\ record.filled = oms.orders[o].filled
        /\ record.state = "UNKNOWN"
    BY <1>2, RecordStates DEF OrderRecord
  <1>4. SetOrder(o, record) /\ SaveThen(Idle) /\ UNCHANGED brokerVars /\ late' = late
    BY <1>1 DEF RecordCancelFailure, RecordReplaceFailure, OutcomeUnknown, SetState
  <1>5. VenueSame /\ pending' = pending
    BY <1>4 DEF brokerVars, VenueSame
  <1>6. /\ Queue' = Queue /\ call'.at # "submitted" /\ (healthy' => healthy)
        /\ disk' = disk \/ disk' = oms'
    BY <1>2, <1>4, <1>5, CallTypes, SavingQueuesNothing
  <1> HIDE DEF record
  <1> QED
    BY <1>2, <1>3, <1>4, <1>5, <1>6, StatesApart, OrderMoves

(* The operations that touch no order and queue nothing.                    *)
Untouching ==
    \/ \E o \in Orders : RefuseIntent(o)
    \/ \E s \in oms.incidents : ExplainIncident(s)
    \/ RecordReplace \/ LoseSession \/ SnapshotLost \/ Reconcile
    \/ ActivateKillSwitch \/ DeactivateKillSwitch \/ FinishDrain
    \/ UNCHANGED vars

LEMMA UntouchingMoves ==
    ASSUME Inv, CallInv, Untouching
    PROVE  StillMoves
  <1>1. SameBooks
    BY QuietBooks DEF Untouching
  <1>2. late' = late /\ UNCHANGED brokerVars
    BY DEF Untouching, RefuseIntent, ExplainIncident, RecordReplace, LoseSession, SnapshotLost,
           SessionLost, Reconcile, ActivateKillSwitch, DeactivateKillSwitch, FinishDrain, vars,
           brokerVars
  <1>3. VenueSame /\ pending' = pending
    BY <1>2 DEF brokerVars, VenueSame
  <1>4. ASSUME Queue' = Queue, healthy' => healthy, disk' = disk \/ disk' = oms',
               call'.at # "submitted" \/ UNCHANGED <<call, oms>>
        PROVE  StillMoves
    BY <1>1, <1>2, <1>3, <1>4 DEF StillMoves, SameBooks, Follows
  <1>5. CASE FinishDrain
    <2>1. call \in Call /\ call.events = <<>>
      BY <1>5, TypesOfInv DEF FinishDrain
    <2>2. call'.events = <<>> /\ call'.at # "submitted"
      BY <1>5, <2>1, CallTypes DEF FinishDrain, Call
    <2> QED
      BY <1>3, <1>4, <1>5, <2>1, <2>2 DEF FinishDrain, Queue
  <1>6. CASE UNCHANGED vars
    BY <1>4, <1>6 DEF vars, Queue
  <1>7. CASE Untouching /\ ~FinishDrain /\ ~UNCHANGED vars
    <2>1. SaveThen(Idle) /\ call.at # "draining"
      BY <1>7
      DEF Untouching, RefuseIntent, ExplainIncident, RecordReplace, LoseSession, SnapshotLost,
          SessionLost, Reconcile, ActivateKillSwitch, DeactivateKillSwitch, Ready
    <2> QED
      BY <1>3, <1>4, <2>1, CallTypes, SavingQueuesNothing
  <1> QED
    BY <1>5, <1>6, <1>7

(* poll takes the queue over as the batch.                                  *)
LEMMA PollMoves ==
    ASSUME Inv, CallInv, TrailInv, Ready, NEW queue \in Seq(Event), NEW reconnecting,
           Poll(queue, reconnecting), UNCHANGED <<venue, executions, late>>,
           late = {} => ClosingsLead(queue, executions \ oms.applied, OrdersAtVenue, OpenAtVenue)
    PROVE  KernelMoves
  <1>1. PICK batch \in Drained(queue) :
            call' = [Idle EXCEPT !.at = "draining", !.events = batch,
                                 !.reconnecting = reconnecting]
    BY DEF Poll
  <1>2. call'.at = "draining" /\ call'.events = batch
    BY <1>1 DEF Idle, Calling
  <1>3. /\ pending' = <<>> /\ UNCHANGED <<oms, disk, healthy>> /\ VenueSame
        /\ executions' = executions /\ late' = late
    BY DEF Poll, VenueSame
  <1>4. QueueInv'
    <2> SUFFICES ASSUME late = {}
                 PROVE  ClosingsLead(Queue', executions \ oms.applied, OrdersAtVenue, OpenAtVenue)
      BY <1>3, VenueSameOpen DEF QueueInv
    <2>1. /\ batch \in Seq(Event)
          /\ ClosingsLead(batch, executions \ oms.applied, OrdersAtVenue, OpenAtVenue)
      BY LeadDrained
    <2>2. Queue' = batch
      BY <1>2, <1>3, <2>1 DEF Queue
    <2> QED
      BY <2>1, <2>2
  <1>5. RejectInv'
    BY <1>2 DEF RejectInv
  <1>6. Noted(oms', venue', late')
    BY <1>3 DEF TrailInv, BehindInv, Noted
  <1>7. \A o \in Orders : Follows(oms.orders[o], oms'.orders[o], Qty[o], venue[o])
    BY <1>3 DEF Follows
  <1>8. \A o \in Orders : oms.orders[o].filled <= oms'.orders[o].filled
    BY <1>3, FilledNumbers
  <1> QED
    BY <1>3, <1>4, <1>5, <1>6, <1>7, <1>8 DEF KernelMoves

LEMMA PollingMoves ==
    ASSUME Inv, CallInv, TrailInv, Synchronize \/ Reconnect
    PROVE  KernelMoves
  <1> DEFINE unapplied == executions \ oms.applied
  <1>1. /\ pending \in Seq(Event) /\ Ready /\ healthy /\ call.events = <<>>
        /\ UNCHANGED <<venue, executions, late>> /\ IsFiniteSet(executions)
        /\ executions \subseteq PossibleExecutions /\ Genuine(pending, executions)
    BY TypesOfInv DEF Synchronize, Reconnect, Ready, CallInv, Inv, EvidenceInv
  <1>2. late = {} => ClosingsLead(pending, unapplied, OrdersAtVenue, OpenAtVenue)
    <2>1. Queue = pending
      BY <1>1 DEF Queue
    <2> QED
      BY <1>1, <2>1 DEF TrailInv, QueueInv
  <1>3. CASE Synchronize
    BY <1>1, <1>2, <1>3, PollMoves DEF Synchronize
  <1>4. CASE Reconnect
    <2>1. PICK restarted \in {FALSE, "BRIDGE_RESTART" \in Faults} :
            LET queue == IF restarted THEN <<>> ELSE pending
                unread == IF restarted THEN executions ELSE executions \ emitted
            IN  \E s \in SetToSeqs(unread) : Poll(queue \o Reports(s), TRUE)
      BY <1>4 DEF Reconnect
    <2> DEFINE queue == IF restarted THEN <<>> ELSE pending
    <2> DEFINE unread == IF restarted THEN executions ELSE executions \ emitted
    <2>2. PICK s \in SetToSeqs(unread) : Poll(queue \o Reports(s), TRUE)
      BY <2>1
    <2>3. /\ queue \in Seq(Event) /\ Genuine(queue, executions) /\ unread \subseteq executions
          /\ late = {} => ClosingsLead(queue, unapplied, OrdersAtVenue, OpenAtVenue)
      BY <1>1, <1>2, GenuineEmpty DEF ClosingsLead
    <2> HIDE DEF queue, unread
    <2>4. queue \o Reports(s) \in Seq(Event)
      BY <1>1, <2>3, GenuineReports
    <2>5. Reports(s) \in Seq(Event) /\ \A i \in 1..Len(Reports(s)) : ~IsClosing(Reports(s)[i])
      <3>1. IsFiniteSet(unread) /\ Cardinality(unread) \in Nat
        BY <1>1, <2>3, FS_Subset, FS_CardinalityType
      <3>2. s \in [1..Cardinality(unread) -> unread]
        BY DEF SetToSeqs
      <3>3. \A i \in DOMAIN s : Report(s[i]) \in Event /\ Report(s[i]).type = "Execution"
        BY <1>1, <2>3, <3>2, ReportOfExecution DEF Report
      <3>4. /\ Reports(s) \in [1..Cardinality(unread) -> Event]
            /\ \A i \in 1..Cardinality(unread) : Reports(s)[i].type = "Execution"
        BY <3>2, <3>3 DEF Reports
      <3> QED
        BY <3>1, <3>4 DEF IsClosing, Closings
    <2>6. late = {} => ClosingsLead(queue \o Reports(s), unapplied, OrdersAtVenue, OpenAtVenue)
      BY <2>3, <2>5, LeadReports
    <2> QED
      BY <1>1, <2>2, <2>4, <2>6, PollMoves
  <1> QED
    BY <1>3, <1>4

-----------------------------------------------------------------------------
(* Applying an event.                                                       *)

(* Memory and journal of an account are never ahead of the venue.           *)
LEMMA AccountBehind ==
    ASSUME NEW state, KeepsAccount(state), state.applied \subseteq executions,
           IsFiniteSet(executions), executions \subseteq PossibleExecutions, VenueAccount
    PROVE  /\ \A o \in Orders : /\ state.orders[o].filled <= venue[o].filled
                                /\ state.orders[o].filled \in Nat /\ venue[o].filled \in Nat
           /\ \A x \in executions \ state.applied :
                 x.order \in Orders => state.orders[x.order].filled < venue[x.order].filled
  BY FilledBehind DEF KeepsAccount, VenueAccount

LEMMA OmsBehind ==
    ASSUME Inv, AccountInv, VenueAccount
    PROVE  /\ \A o \in Orders : oms.orders[o].filled <= venue[o].filled
           /\ \A x \in executions \ oms.applied :
                 x.order \in Orders => oms.orders[x.order].filled < venue[x.order].filled
  BY TypesOfInv, AccountBehind DEF AccountInv, Inv, EvidenceInv

(* A closing of an order the venue works is applied, and noted as late.     *)
LEMMA EarlyClosingIsLate ==
    ASSUME Inv, BooksInv, VenueAccount, NEW e \in Event, IsClosing(e), NEW o \in Orders,
           o = e.order, Known(o), oms.orders[o].filled < venue[o].filled
    PROVE  /\ Applicable(e)
           /\ oms' = Applied(e) /\ UNCHANGED venue /\ NoteLate => o \in late'
  <1> DEFINE order == oms.orders[o]
  <1>1. /\ order \in OrderRecord /\ oms \in PersistentState /\ order.filled \in Nat
        /\ venue[o].filled \in Nat /\ Qty[o] \in Nat
    BY TypesOfInv, FilledNumbers
  <1>2. order.filled < Qty[o] /\ order.state # "FILLED" /\ order.state # "NONE"
    <2>1. venue[o].filled <= Qty[o]
      BY DEF VenueAccount
    <2>2. order.filled < Qty[o]
      BY <1>1, <2>1
    <2>3. order.state # "FILLED"
      BY <1>1, <2>2 DEF BooksInv, RecordsInv, KeepsRecords, Kept
    <2>4. order.state # "NONE"
      BY DEF Inv, SentInv, BooksInv, CallInv, Exists, StateOf
    <2> QED
      BY <2>2, <2>3, <2>4
  <1>3. ~IsExecution(e) /\ e.type \in Closings
    BY DEF IsClosing, IsExecution, Closings
  <1>4. Accepts(order, e, Qty[o]) /\ Resolve(order, e, Qty[o]) = AfterClose(order, ClosingState(e.type))
    BY <1>2, <1>3 DEF Accepts, Resolve, CanClose, Closings
  <1>5. AfterClose(order, ClosingState(e.type)).state \in Closed
        /\ AfterClose(order, ClosingState(e.type)).filled = order.filled
    BY <1>1, <1>2, <1>3 DEF AfterClose, ClosingState, Closings, Closed, Terminal, OrderRecord
  <1> HIDE DEF order
  <1>6. Applicable(e)
    BY <1>3, <1>4 DEF Applicable, order
  <1>7. ASSUME oms' = Applied(e), UNCHANGED venue, NoteLate
        PROVE  o \in late'
    <2>1. ~Duplicate(e)
      BY <1>3 DEF Duplicate
    <2>2. oms'.orders = [oms.orders EXCEPT ![e.order] = Resolve(oms.orders[e.order], e, Qty[e.order])]
      BY <1>1, <1>6, <1>7, <2>1, AppliedOrders
    <2>3. oms'.orders[o] = AfterClose(order, ClosingState(e.type))
      BY <1>4, <2>2, TypesOfInv DEF order
    <2>4. oms'.orders[o].state \in Closed /\ oms'.orders[o].filled = order.filled
      BY <1>5, <2>3
    <2>5. venue'[o].filled > oms'.orders[o].filled
      BY <1>1, <1>7, <2>4 DEF order
    <2> QED
      BY <1>7, <2>4, <2>5 DEF NoteLate
  <1> QED
    BY <1>6, <1>7

LEMMA QueueHead ==
    ASSUME NEW s \in Seq(Event), NEW t \in Seq(Event), s # <<>>
    PROVE  /\ s \o t \in Seq(Event) /\ s \o t # <<>> /\ (s \o t)[1] = Head(s)
           /\ 1 \in 1..Len(s \o t) /\ Tail(s \o t) = Tail(s) \o t
  <1>1. /\ s \o t \in Seq(Event) /\ Len(s \o t) = Len(s) + Len(t)
        /\ Len(s) \in Nat /\ Len(t) \in Nat /\ Len(s) >= 1
        /\ \A i \in 1..Len(s) : (s \o t)[i] = s[i]
        /\ \A i \in 1..Len(t) : (s \o t)[Len(s) + i] = t[i]
    OBVIOUS
  <1>2. s \o t # <<>> /\ Head(s) = s[1] /\ (s \o t)[1] = Head(s)
    BY <1>1
  <1>3. Tail(s \o t) = Tail(s) \o t
    BY <1>1, <1>2
  <1> QED
    BY <1>1, <1>2, <1>3

(* What an applied event does to the records.                               *)
LEMMA AppliedFollows ==
    ASSUME Inv, BooksInv, VenueAccount, NEW e \in Event,
           IsExecution(e) => ExecutionOf(e) \in executions,
           Applicable(e), oms' = Applied(e)
    PROVE  /\ \A o \in Orders : oms.orders[o].filled <= oms'.orders[o].filled
           /\ \A x \in executions \ oms.applied :
                 x \in executions \ oms'.applied \/ (IsExecution(e) /\ ExecutionOf(e) = x)
           /\ \A o \in Orders :
                 (IsClosing(e) /\ o = e.order /\ OpenAt(venue, o)
                        => oms.orders[o].filled < venue[o].filled)
                   => Follows(oms.orders[o], oms'.orders[o], Qty[o], venue[o])
  <1>1. /\ oms \in PersistentState /\ oms.orders \in [Orders -> OrderRecord] /\ BrokerTypeOK
        /\ executions \subseteq PossibleExecutions /\ AccountInv
    BY TypesOfInv DEF BooksInv
  <1>2. CASE oms' = oms
    BY <1>2, FilledNumbers DEF Follows
  <1>3. CASE oms' # oms
    <2> DEFINE o == e.order
    <2> DEFINE r == Resolve(oms.orders[o], e, Qty[o])
    <2>1. /\ ~Duplicate(e) /\ o \in Orders /\ Accepts(oms.orders[o], e, Qty[o])
          /\ oms'.orders = [oms.orders EXCEPT ![o] = r]
          /\ oms'.applied = IF IsExecution(e) THEN oms.applied \union {ExecutionOf(e)}
                                              ELSE oms.applied
      BY <1>1, <1>3, AppliedOrders
    <2>2. /\ r.filled = IF IsExecution(e) THEN oms.orders[o].filled + e.qty
                                          ELSE oms.orders[o].filled
          /\ oms.orders[o].filled \in Nat
      BY <1>1, <2>1, ResolveFills, FilledNumbers
    <2>3. IsExecution(e) => e.qty > 0 /\ oms.orders[o].filled < venue[o].filled
      <3>1. ASSUME IsExecution(e)
            PROVE  /\ ExecutionOf(e) \in executions \ oms.applied /\ ExecutionOf(e).order = o
                   /\ e.qty > 0
        BY <1>1, <2>1, <3>1, ExecutionsFill DEF Duplicate, ExecutionOf
      <3> QED
        BY <1>1, <2>1, <3>1, OmsBehind
    <2>4. oms.orders[o].state = "FILLED" => oms.orders[o].filled = Qty[o]
      BY <2>1 DEF BooksInv, RecordsInv, KeepsRecords, Kept
    <2>5. ASSUME IsClosing(e) /\ OpenAt(venue, o) => oms.orders[o].filled < venue[o].filled
          PROVE  Follows(oms.orders[o], r, Qty[o], venue[o])
      <3>1. Qty[o] \in Nat /\ oms.orders[o] \in OrderRecord
        BY <1>1, <2>1, FilledNumbers
      <3> QED
        BY <2>1, <2>3, <2>4, <2>5, <3>1, ResolveFollows DEF IsClosing, OpenAt
    <2> HIDE DEF r, o
    <2>6. oms'.orders[o] = r /\ \A p \in Orders : p # o => oms'.orders[p] = oms.orders[p]
      BY <1>1, <2>1
    <2>7. \A p \in Orders : oms.orders[p].filled <= oms'.orders[p].filled
      <3>1. e.qty \in Nat
        BY DEF Event
      <3> QED
        BY <2>2, <2>6, <3>1, FilledNumbers
    <2>8. \A p \in Orders \ {o} : Follows(oms.orders[p], oms'.orders[p], Qty[p], venue[p])
      BY <2>6 DEF Follows
    <2> QED
      BY <2>1, <2>5, <2>6, <2>7, <2>8 DEF o
  <1> QED
    BY <1>2, <1>3

LEMMA ApplyEventMoves ==
    ASSUME Inv, BooksInv, VenueAccount, TrailInv, ApplyEvent
    PROVE  KernelMoves
  <1> DEFINE e == Head(call.events)
  <1> DEFINE rest == [call EXCEPT !.events = Tail(@)]
  <1> DEFINE unapplied == executions \ oms.applied
  <1>1. /\ call \in Call /\ call.at = "draining" /\ call.events # <<>> /\ healthy
        /\ call.events \in Seq(Event) /\ pending \in Seq(Event)
        /\ UNCHANGED <<venue, executions, pending>> /\ NoteLate
        /\ Genuine(call.events, executions)
    BY TypesOfInv DEF ApplyEvent, brokerVars, Inv, EvidenceInv, JournalInv
  <1>2. /\ e \in Event /\ (IsExecution(e) => ExecutionOf(e) \in executions)
        /\ Tail(call.events) \in Seq(Event)
    BY <1>1, GenuineTail
  <1>3. /\ Queue \in Seq(Event) /\ Queue # <<>> /\ Queue[1] = e /\ 1 \in 1..Len(Queue)
        /\ Tail(Queue) = Tail(call.events) \o pending
    BY <1>1, QueueHead DEF Queue
  <1>4. rest \in Call /\ rest.at = "draining" /\ rest.events = Tail(call.events)
    BY <1>1, <1>2 DEF Call
  <1>5. VenueSame
    BY <1>1 DEF VenueSame
  <1>6. late \subseteq late' /\ Noted(oms', venue', late')
    BY <1>1, NoteLateNotes
  <1> HIDE DEF rest, e
  <1>7. late = {} => ClosingsLead(Queue, unapplied, OrdersAtVenue, OpenAtVenue)
    BY <1>1 DEF TrailInv, QueueInv
  <1>8. ASSUME late = {}, IsClosing(e)
        PROVE  /\ e.order \in Orders /\ Known(e.order)
               /\ OpenAt(venue, e.order) => oms.orders[e.order].filled < venue[e.order].filled
    <2>1. e.order \in OrdersAtVenue /\ (e.order \in OpenAtVenue => \E x \in unapplied : x.order = e.order)
      <3>1. ~Precedes(Queue, 1, e.order)
        BY DEF Precedes
      <3> QED
        BY <1>3, <1>7, <1>8, <3>1 DEF ClosingsLead
    <2>2. e.order \in Orders /\ Known(e.order)
      BY <2>1 DEF OrdersAtVenue
    <2>3. OpenAt(venue, e.order) <=> e.order \in OpenAtVenue
      BY <2>2 DEF OpenAt, OpenAtVenue, WorkingAtVenue, Known
    <2> QED
      BY <2>1, <2>2, <2>3, OmsBehind DEF BooksInv
  <1>9. CASE Applicable(e) /\ oms' = Applied(e) /\ SaveThen(rest)
    <2>1. /\ \A o \in Orders : oms.orders[o].filled <= oms'.orders[o].filled
          /\ \A x \in unapplied :
                x \in executions \ oms'.applied \/ (IsExecution(e) /\ ExecutionOf(e) = x)
          /\ \A o \in Orders :
                (IsClosing(e) /\ o = e.order /\ OpenAt(venue, o)
                       => oms.orders[o].filled < venue[o].filled)
                  => Follows(oms.orders[o], oms'.orders[o], Qty[o], venue[o])
      BY <1>2, <1>9, AppliedFollows
    <2>2. late' = {} => \A o \in Orders : Follows(oms.orders[o], oms'.orders[o], Qty[o], venue[o])
      BY <1>6, <1>8, <2>1
    <2>3. disk' = disk \/ disk' = oms'
      BY <1>9 DEF SaveThen, Persisted, PersistFailed
    <2>4. QueueInv'
      <3> SUFFICES ASSUME healthy', late' = {}
                   PROVE  ClosingsLead(Queue', executions \ oms'.applied, OrdersAtVenue, OpenAtVenue)
        BY <1>1, <1>5, VenueSameOpen DEF QueueInv
      <3>1. call' = rest /\ late = {}
        BY <1>6, <1>9 DEF SaveThen, PersistFailed
      <3>2. Queue' = Tail(Queue)
        BY <1>1, <1>3, <1>4, <3>1 DEF Queue
      <3>3. IsClosing(e) => e.order \notin OpenAtVenue
        <4>1. ASSUME IsClosing(e), e.order \in OpenAtVenue
              PROVE  FALSE
          <5>1. PICK o \in Orders : o = e.order
            BY <1>8, <3>1, <4>1
          <5>2. Known(o) /\ oms.orders[o].filled < venue[o].filled
            BY <1>8, <3>1, <4>1, <5>1 DEF OpenAtVenue, WorkingAtVenue, Known, OpenAt
          <5>3. o \in late'
            BY <1>1, <1>2, <1>9, <4>1, <5>1, <5>2, EarlyClosingIsLate
          <5> QED
            BY <5>3
        <4> QED
          BY <4>1
      <3> QED
        BY <1>3, <1>7, <2>1, <3>1, <3>2, <3>3, LeadTail
    <2>5. RejectInv'
      BY <1>4, <1>9, CallTypes DEF RejectInv, SaveThen
    <2> QED
      BY <1>5, <1>6, <2>1, <2>2, <2>3, <2>4, <2>5 DEF KernelMoves
  <1>10. CASE ~Applicable(e) /\ call' = [rest EXCEPT !.failed = TRUE] /\ UNCHANGED <<oms, disk, healthy>>
    <2>1. /\ call'.at = "draining" /\ call'.events = Tail(call.events)
      BY <1>4, <1>10 DEF Call
    <2>2. Queue' = Tail(Queue)
      BY <1>1, <1>3, <2>1 DEF Queue
    <2>3. QueueInv'
      <3> SUFFICES ASSUME late' = {}
                   PROVE  ClosingsLead(Queue', unapplied, OrdersAtVenue, OpenAtVenue)
        BY <1>1, <1>5, <1>10, VenueSameOpen DEF QueueInv
      <3>1. late = {}
        BY <1>6
      <3>2. IsClosing(e) => e.order \notin OpenAtVenue
        <4>1. ASSUME IsClosing(e), e.order \in OpenAtVenue
              PROVE  FALSE
          <5>1. PICK o \in Orders : o = e.order
            BY <1>8, <3>1, <4>1
          <5>2. Known(o) /\ oms.orders[o].filled < venue[o].filled
            BY <1>8, <3>1, <4>1, <5>1 DEF OpenAtVenue, WorkingAtVenue, Known, OpenAt
          <5> QED
            BY <1>2, <1>10, <4>1, <5>1, <5>2, EarlyClosingIsLate
        <4> QED
          BY <4>1
      <3> QED
        BY <1>3, <1>7, <2>2, <3>1, <3>2, LeadTail
    <2>4. RejectInv'
      BY <2>1 DEF RejectInv
    <2>5. \A o \in Orders : /\ Follows(oms.orders[o], oms'.orders[o], Qty[o], venue[o])
                            /\ oms.orders[o].filled <= oms'.orders[o].filled
      BY <1>10, FilledNumbers DEF Follows
    <2> QED
      BY <1>5, <1>6, <1>10, <2>3, <2>4, <2>5 DEF KernelMoves
  <1> QED
    BY <1>9, <1>10 DEF ApplyEvent, rest, e

-----------------------------------------------------------------------------
(* What the kinds of steps keep.                                            *)

LEMMA KernelMovesKeepTrail ==
    ASSUME TrailInv, KernelMoves
    PROVE  TrailInv'
  <1>1. ASSUME late' = {}
        PROVE  Behind(oms', venue') /\ Behind(disk', venue')
    <2>1. /\ late = {} /\ VenueSame
          /\ \A o \in Orders : Follows(oms.orders[o], oms'.orders[o], Qty[o], venue[o])
      BY <1>1 DEF KernelMoves
    <2>2. Behind(oms, venue) /\ Behind(disk, venue)
      BY <2>1 DEF TrailInv, BehindInv
    <2>3. Behind(oms', venue)
      BY <2>1, <2>2, FollowsKeepsBehind
    <2>4. Behind(disk', venue)
      BY <2>2, <2>3 DEF KernelMoves
    <2> QED
      BY <2>1, <2>3, <2>4, VenueSameOpen DEF Behind, VenueSame
  <1> QED
    BY <1>1 DEF TrailInv, BehindInv, KernelMoves

VenueMoves ==
    /\ UNCHANGED <<oms, disk, healthy>> /\ call'.events = call.events
    /\ VenueOrdersMove /\ QueueMoves
    /\ \A o \in Orders : \/ Known(o) \/ ~Known(o)'
                         \/ /\ oms.orders[o].state = "PENDING_SUBMIT"
                            /\ disk.orders[o].state = "PENDING_SUBMIT"
    /\ late \subseteq late' /\ Noted(oms', venue', late')
    /\ RejectInv'

(* An order that the venue newly works has an execution nobody has seen.    *)
LEMMA OpensByExecution ==
    ASSUME Inv, Inv', AccountInv, VenueOrdersMove, UNCHANGED <<oms, disk>>,
           NEW o \in Orders, OpenAt(venue', o), ~OpenAt(venue, o), Known(o)
    PROVE  /\ \E x \in executions' \ executions : x.order = o
           /\ oms.orders[o].filled < venue'[o].filled
           /\ disk.orders[o].filled < venue'[o].filled
  <1>1. WorkingAtVenue(o)' /\ ~WorkingAtVenue(o)
    BY DEF WorkingAtVenue, Known, OpenAt
  <1>2. PICK x \in executions' \ executions : x.order = o
    BY <1>1 DEF VenueOrdersMove
  <1>3. /\ x \notin oms.applied /\ x \notin disk.applied
        /\ oms.applied \subseteq executions' /\ disk.applied \subseteq executions'
    BY <1>2 DEF Inv, EvidenceInv, VenueOrdersMove
  <1>4. /\ executions' \subseteq PossibleExecutions /\ IsFiniteSet(executions')
        /\ KeepsAccount(oms) /\ KeepsAccount(disk)
        /\ \A p \in Orders : venue'[p].filled = LotsIn(OfOrder(executions', p))
    BY DEF Inv, TypeInv, TypeOK, BrokerTypeOK, AccountInv, VenueOrdersMove, VenueAccount
  <1>5. ASSUME NEW state, KeepsAccount(state), x \notin state.applied,
               state.applied \subseteq executions'
        PROVE  state.orders[o].filled < venue'[o].filled
    BY <1>2, <1>4, <1>5, FilledBehind DEF KeepsAccount
  <1> QED
    BY <1>2, <1>3, <1>4, <1>5

LEMMA VenueMovesKeepTrail ==
    ASSUME Inv, Inv', AccountInv, TrailInv, VenueMoves
    PROVE  TrailInv'
  <1>1. \A o \in Orders : /\ Known(o) <=> venue[o].version > 0
                          /\ Known(o)' <=> venue'[o].version > 0
                          /\ WorkingAtVenue(o) <=> OpenAt(venue, o)
                          /\ WorkingAtVenue(o)' <=> OpenAt(venue', o)
    BY DEF Known, WorkingAtVenue, OpenAt
  <1>2. ASSUME NEW state \in {oms, disk}, Behind(state, venue)
        PROVE  Behind(state, venue')
    <2>1. ASSUME NEW o \in Orders, state.orders[o].state \in Closed, OpenAt(venue', o)
          PROVE  state.orders[o].filled < venue'[o].filled
      <3>1. state.orders[o].filled \in Nat /\ venue[o].filled \in Nat /\ venue'[o].filled \in Nat
        BY FilledNumbers DEF Inv, TypeInv, TypeOK, BrokerTypeOK, VenueOrder
      <3>2. CASE OpenAt(venue, o)
        BY <1>2, <2>1, <3>1, <3>2 DEF Behind, VenueMoves, VenueOrdersMove
      <3>3. CASE ~OpenAt(venue, o) /\ Known(o)
        BY <2>1, <3>3, OpensByExecution DEF VenueMoves
      <3>4. CASE ~Known(o)
        <4>1. Known(o)'
          BY <1>1, <2>1 DEF OpenAt
        <4>2. state.orders[o].state = "PENDING_SUBMIT"
          BY <3>4, <4>1 DEF VenueMoves
        <4> QED
          BY <2>1, <4>2 DEF Closed
      <3> QED
        BY <3>2, <3>3, <3>4
    <2> QED
      BY <1>2, <2>1 DEF Behind
  <1>3. BehindInv'
    <2>1. late' = {} => late = {}
      BY DEF VenueMoves
    <2> QED
      BY <1>2, <2>1 DEF TrailInv, BehindInv, VenueMoves
  <1>4. /\ call.events \in Seq(Event) /\ pending \in Seq(Event) /\ Queue \in Seq(Event)
        /\ oms.applied \subseteq executions /\ executions \subseteq executions'
    BY TypesOfInv DEF Queue, VenueMoves, VenueOrdersMove, Inv, EvidenceInv
  <1>5. \A j \in 1..Len(Queue) : IsExecution(Queue[j]) => ExecutionOf(Queue[j]) \in executions
    <2>1. Genuine(call.events, executions) /\ Genuine(pending, executions)
      BY DEF Inv, EvidenceInv
    <2> QED
      BY <1>4, <2>1 DEF Genuine, Queue
  <1>6. QueueInv'
    <2> SUFFICES ASSUME healthy', late' = {}
                 PROVE  ClosingsLead(Queue', executions' \ oms.applied, OrdersAtVenue', OpenAtVenue')
      BY DEF QueueInv, VenueMoves
    <2>1. healthy /\ late = {}
      BY DEF VenueMoves
    <2>2. ASSUME NEW o \in OrdersAtVenue \intersect OpenAtVenue'
          PROVE  \/ o \in OpenAtVenue
                 \/ \E x \in executions' \ oms.applied :
                       x.order = o /\ \A j \in 1..Len(Queue) : Unreported(Queue, j, x)
      <3>1. o \in Orders /\ Known(o) /\ OpenAt(venue', o)
        BY <1>1 DEF OrdersAtVenue, OpenAtVenue
      <3>2. CASE OpenAt(venue, o)
        BY <1>1, <3>1, <3>2 DEF OpenAtVenue
      <3>3. CASE ~OpenAt(venue, o)
        <4>1. PICK x \in executions' \ executions : x.order = o
          BY <3>1, <3>3, OpensByExecution DEF VenueMoves
        <4>2. \A j \in 1..Len(Queue) : ~(IsExecution(Queue[j]) /\ ExecutionOf(Queue[j]) = x)
          BY <1>5, <4>1
        <4>3. \A j \in 1..Len(Queue) : Unreported(Queue, j, x)
          <5>1. Len(Queue) \in Nat
            BY <1>4
          <5> QED
            BY <4>2, <5>1 DEF Unreported
        <4> QED
          BY <1>4, <4>1, <4>3
      <3> QED
        BY <3>2, <3>3
    <2>3. OrdersAtVenue \subseteq OrdersAtVenue'
      BY DEF OrdersAtVenue, VenueMoves, VenueOrdersMove
    <2>4. executions \ oms.applied \subseteq executions' \ oms.applied
      BY <1>4
    <2>5. ClosingsLead(Queue, executions \ oms.applied, OrdersAtVenue, OpenAtVenue)
      BY <2>1 DEF TrailInv, QueueInv
    <2>6. ClosingsLead(Queue, executions' \ oms.applied, OrdersAtVenue', OpenAtVenue')
      BY <1>4, <2>2, <2>3, <2>4, <2>5, LeadWhileVenueMoves
    <2>7. CASE pending' = pending
      <3>1. Queue' = Queue
        BY <2>7 DEF Queue, VenueMoves
      <3> QED
        BY <2>6, <3>1
    <2>8. CASE pending' # pending
      <3>1. PICK e \in Event :
                /\ pending' = Append(pending, e)
                /\ e.type \in Closings => Known(e.order)' /\ ~WorkingAtVenue(e.order)'
        BY <2>8 DEF VenueMoves, QueueMoves
      <3>2. Queue' = Append(Queue, e)
        <4>1. call.events \o Append(pending, e) = Append(call.events \o pending, e)
          BY <1>4, ConcatAppend
        <4> QED
          BY <3>1, <4>1 DEF Queue, VenueMoves
      <3>3. IsClosing(e) => e.order \in OrdersAtVenue' /\ e.order \notin OpenAtVenue'
        <4>1. e.order \in Orders
          BY DEF Event
        <4> QED
          BY <3>1, <4>1 DEF OrdersAtVenue, OpenAtVenue, IsClosing
      <3> QED
        BY <1>4, <2>6, <3>2, <3>3, LeadAppend
    <2> QED
      BY <2>7, <2>8
  <1> QED
    BY <1>3, <1>6 DEF TrailInv, VenueMoves

LEMMA SameExecutionsFill ==
    ASSUME VenueAccount, VenueOrdersMove, executions' = executions
    PROVE  \A o \in Orders : venue'[o].filled = venue[o].filled
  BY DEF VenueAccount, VenueOrdersMove

LEMMA CallSubmitIsVenueMove ==
    ASSUME Inv, CallInv, VenueAccount, TrailInv, CallSubmit
    PROVE  VenueMoves
  <1>1. /\ VenueOrdersMove /\ QueueMoves /\ executions' = executions
        /\ call'.events = call.events /\ disk = oms /\ UNCHANGED <<oms, disk, healthy, late>>
    BY CallSubmitMoves
  <1>2. PICK o \in Orders :
            /\ o = call.order /\ ~Known(o)
            /\ oms.orders[o].state = "PENDING_SUBMIT"
            /\ \A p \in Orders \ {o} : ~Known(p) => ~Known(p)'
            /\ call'.order = o
            /\ call'.answer = "REJECTED" => ~OpenAt(venue', o)
    BY CallSubmitMoves
  <1>3. Noted(oms', venue', late')
    BY <1>1, SameExecutionsFill DEF Noted, TrailInv, BehindInv
  <1>4. RejectInv'
    BY <1>2 DEF RejectInv, WorkingAtVenue, Known, OpenAt
  <1> QED
    BY <1>1, <1>2, <1>3, <1>4 DEF VenueMoves

LEMMA CallCancelIsVenueMove ==
    ASSUME Inv, CallInv, VenueAccount, TrailInv, CallCancel
    PROVE  VenueMoves
  <1>1. /\ VenueOrdersMove /\ QueueMoves /\ executions' = executions
        /\ \A o \in Orders : Known(o)' <=> Known(o)
    BY CallCancelMoves
  <1>2. /\ UNCHANGED <<oms, disk, healthy, late>> /\ call.events = <<>>
        /\ call' = Idle \/ call' = Calling("cancel_failed", call.order)
        /\ call.order \in Orders
    BY DEF CallCancel, CallInv, Inv, StageInv
  <1>3. call'.events = <<>> /\ call'.at # "submitted"
    BY <1>2, CallTypes DEF Stages
  <1>4. Noted(oms', venue', late')
    BY <1>1, <1>2, SameExecutionsFill DEF Noted, TrailInv, BehindInv
  <1>5. RejectInv'
    BY <1>3 DEF RejectInv
  <1> QED
    BY <1>1, <1>2, <1>3, <1>4, <1>5 DEF VenueMoves

LEMMA VenueStepIsVenueMove ==
    ASSUME Inv, Inv', AccountInv, VenueAccount, TrailInv, VenueStep
    PROVE  VenueMoves
  <1>1. VenueOrdersMove /\ QueueMoves
    BY VenueMovesInStep
  <1>2. UNCHANGED <<oms, disk, healthy, call>> /\ \A p \in Orders : Known(p)' <=> Known(p)
    BY VenueStepLemma DEF VenueStepFacts
  <1>3. NoteLate
    BY DEF VenueStep, AtVenue
  <1>4. RejectInv'
    <2> SUFFICES ASSUME call'.at = "submitted", call'.answer = "REJECTED", OpenAt(venue', call'.order)
                 PROVE  oms'.orders[call'.order].filled < venue'[call'.order].filled
      BY DEF RejectInv, WorkingAtVenue, Known, OpenAt
    <2>1. PICK o \in Orders : o = call.order /\ o = call'.order
      BY <1>2 DEF Inv, StageInv
    <2>2. Known(o)
      <3>1. Known(o)' <=> venue'[o].version > 0
        BY DEF Known
      <3> QED
        BY <1>2, <2>1, <3>1 DEF OpenAt
    <2>3. oms.orders[o].filled \in Nat /\ venue[o].filled \in Nat /\ venue'[o].filled \in Nat
      BY FilledNumbers DEF Inv, TypeInv, TypeOK, BrokerTypeOK, VenueOrder
    <2>4. CASE OpenAt(venue, o)
      <3>1. oms.orders[o].filled < venue[o].filled
        BY <1>2, <2>1, <2>4 DEF TrailInv, RejectInv, WorkingAtVenue, Known, OpenAt
      <3>2. venue[o].filled <= venue'[o].filled
        BY <1>1 DEF VenueOrdersMove
      <3> QED
        BY <1>2, <2>1, <2>3, <3>1, <3>2
    <2>5. CASE ~OpenAt(venue, o)
      BY <1>1, <1>2, <2>1, <2>2, <2>5, OpensByExecution
    <2> QED
      BY <2>4, <2>5
  <1> QED
    BY <1>1, <1>2, <1>3, <1>4, NoteLateNotes DEF VenueMoves

LEMMA SubmitIntentKeepsTrail ==
    ASSUME Inv, CallInv, TrailInv, NEW o \in Orders, SubmitIntent(o)
    PROVE  TrailInv'
  <1>1. /\ SetOrder(o, NewOrder) /\ SaveThen(Calling("submitting", o)) /\ healthy
        /\ call.at # "draining" /\ UNCHANGED <<venue, executions, pending, late>>
    BY DEF SubmitIntent, Ready, brokerVars
  <1>2. /\ oms'.orders[o] = NewOrder /\ \A p \in Orders : p # o => oms'.orders[p] = oms.orders[p]
        /\ oms'.applied = oms.applied
    BY <1>1, TypesOfInv, SetOrderRecords
  <1>3. Calling("submitting", o).events = <<>> /\ Calling("submitting", o).at # "submitted"
    BY CallTypes DEF Stages
  <1>4. /\ Queue' = Queue /\ call'.at # "submitted" /\ (healthy' => healthy)
        /\ disk' = disk \/ disk' = oms'
    BY <1>1, <1>3, SavingQueuesNothing
  <1>5. VenueSame
    BY <1>1 DEF VenueSame
  <1>6. QueueInv'
    BY <1>1, <1>2, <1>4, <1>5, VenueSameOpen DEF TrailInv, QueueInv
  <1>7. \A p \in Orders : \/ oms'.orders[p] = oms.orders[p]
                          \/ oms'.orders[p].state = "PENDING_SUBMIT"
    BY <1>2 DEF NewOrder, AbsentOrder
  <1>8. /\ Noted(oms', venue', late')
        /\ late' = {} => Behind(oms', venue') /\ Behind(disk', venue')
    BY <1>1, <1>4, <1>7 DEF TrailInv, BehindInv, Behind, Noted, Closed
  <1> QED
    BY <1>4, <1>6, <1>8 DEF TrailInv, BehindInv, RejectInv

LEMMA RestartKeepsTrail ==
    ASSUME TrailInv, Restart
    PROVE  TrailInv'
  <1>1. /\ oms' = disk /\ UNCHANGED <<disk, venue, executions>> /\ NoteLate
        /\ call' = Idle /\ pending' = <<>>
    BY DEF Restart, BridgeRestart
  <1>2. QueueInv'
    <2>1. Queue' = <<>>
      BY <1>1, CallTypes DEF Queue
    <2> QED
      BY <2>1 DEF QueueInv, ClosingsLead
  <1>3. RejectInv'
    BY <1>1, CallTypes DEF RejectInv
  <1>4. late' = {} => late = {}
    BY <1>1, NoteLateNotes
  <1> QED
    BY <1>1, <1>2, <1>3, <1>4, NoteLateNotes DEF TrailInv, BehindInv

LEMMA NextKeepsTrail ==
    ASSUME Inv, Inv', BooksInv, VenueAccount, TrailInv, [Next]_vars
    PROVE  TrailInv' /\ (KernelMoves \/ VenueMoves \/ Restart
                            \/ \E o \in Orders : SubmitIntent(o))
  <1> USE DEF BooksInv
  <1>1. ASSUME StillMoves
        PROVE  TrailInv' /\ KernelMoves
    BY <1>1, StillIsKernelMove, KernelMovesKeepTrail
  <1>2. ASSUME VenueMoves
        PROVE  TrailInv' /\ VenueMoves
    BY <1>2, VenueMovesKeepTrail
  <1>3. CASE \E o \in Orders : SubmitIntent(o)
    BY <1>3, SubmitIntentKeepsTrail
  <1>4. CASE Restart
    BY <1>4, RestartKeepsTrail
  <1>5. CASE CallSubmit
    BY <1>2, <1>5, CallSubmitIsVenueMove
  <1>6. CASE CallCancel
    BY <1>2, <1>6, CallCancelIsVenueMove
  <1>7. CASE VenueStep
    BY <1>2, <1>7, VenueStepIsVenueMove
  <1>8. CASE ApplyEvent
    BY <1>8, ApplyEventMoves, KernelMovesKeepTrail
  <1>9. CASE RecordSubmit
    BY <1>1, <1>9, RecordSubmitMoves DEF TrailInv
  <1>10. CASE RecordCancelFailure \/ RecordReplaceFailure
    BY <1>1, <1>10, RecordFailureMoves
  <1>11. CASE \E o \in Orders : CancelOrder(o) \/ ReplaceOrder(o)
    BY <1>1, <1>11, RequestMovesOrder
  <1>12. CASE Untouching
    BY <1>1, <1>12, UntouchingMoves
  <1>13. CASE Synchronize \/ Reconnect
    BY <1>13, PollingMoves, KernelMovesKeepTrail
  <1>14. CASE UNCHANGED vars
    BY <1>12, <1>14 DEF Untouching
  <1>15. CASE Next
    BY <1>3, <1>4, <1>5, <1>6, <1>7, <1>8, <1>9, <1>10, <1>11, <1>12, <1>13, <1>15
    DEF Next, ServiceStep, OperatorStep, Untouching
  <1> QED
    BY <1>14, <1>15

LEMMA InitEstablishesTrail == Init => TrailInv
  <1> SUFFICES ASSUME Init PROVE TrailInv
    OBVIOUS
  <1>1. /\ disk = oms /\ call = Idle /\ pending = <<>>
        /\ \A o \in Orders : oms.orders[o].state = "NONE"
    BY DEF Init, BrokerInit, AbsentOrder
  <1>2. BehindInv
    BY <1>1, StatesApart DEF BehindInv, Behind, Noted, Closed
  <1>3. QueueInv
    <2>1. Queue = <<>>
      BY <1>1, CallTypes DEF Queue
    <2> QED
      BY <2>1 DEF QueueInv, ClosingsLead
  <1>4. RejectInv
    BY <1>1, CallTypes DEF RejectInv
  <1> QED
    BY <1>2, <1>3, <1>4 DEF TrailInv

-----------------------------------------------------------------------------
(* The sums evaluate_risk compares, as sums of functions.                   *)

SignedHeld(held) == [o \in Orders |-> Signed(o, held[o].filled)]
SignedUnfilled(held) == [o \in Orders |-> Signed(o, Qty[o] - held[o].filled)]

LEMMA ReservedSum ==
    ASSUME NEW S \in SUBSET Orders
    PROVE  MapThenSumSet(Remaining, S) = SumOf(Unfilled(oms.orders), S)
  <1> DEFINE f == Unfilled(oms.orders)
  <1> DEFINE Q(g) ==
          g = [s \in SUBSET S |-> IF s = {} THEN 0
                  ELSE Remaining(Chosen(s)) + g[s \ {Chosen(s)}]]
  <1>1. MapThenSumSet(Remaining, S) = (CHOOSE g : Q(g))[S]
    BY DEF MapThenSumSet, MapThenFoldSet, Chosen
  <1>2. ASSUME NEW g
        PROVE  Q(g) <=> Summing(g, f, S)
    <2>1. \A s \in SUBSET S : s # {} => f[Chosen(s)] = Remaining(Chosen(s))
      BY DEF Chosen, Unfilled, Remaining
    <2> HIDE DEF f
    <2> QED
      BY <2>1 DEF Summing
  <1> HIDE DEF Q
  <1>3. (CHOOSE g : Q(g)) = (CHOOSE g : Summing(g, f, S))
    BY <1>2
  <1> QED
    BY <1>1, <1>3, SumDefinition

LEMMA UnexecutedSum ==
    ASSUME NEW S \in SUBSET Orders
    PROVE  MapThenSumSet(Unexecuted, S) = SumOf(Unfilled(venue), S)
  <1> DEFINE f == Unfilled(venue)
  <1> DEFINE Q(g) ==
          g = [s \in SUBSET S |-> IF s = {} THEN 0
                  ELSE Unexecuted(Chosen(s)) + g[s \ {Chosen(s)}]]
  <1>1. MapThenSumSet(Unexecuted, S) = (CHOOSE g : Q(g))[S]
    BY DEF MapThenSumSet, MapThenFoldSet, Chosen
  <1>2. ASSUME NEW g
        PROVE  Q(g) <=> Summing(g, f, S)
    <2>1. \A s \in SUBSET S : s # {} => f[Chosen(s)] = Unexecuted(Chosen(s))
      BY DEF Chosen, Unfilled, Unexecuted
    <2> HIDE DEF f
    <2> QED
      BY <2>1 DEF Summing
  <1> HIDE DEF Q
  <1>3. (CHOOSE g : Q(g)) = (CHOOSE g : Summing(g, f, S))
    BY <1>2
  <1> QED
    BY <1>1, <1>3, SumDefinition

LEMMA CommittedSum ==
    ASSUME NEW S \in SUBSET Orders
    PROVE  MapThenSumSet(LAMBDA p : Signed(p, Remaining(p)), S)
              = SumOf(SignedUnfilled(oms.orders), S)
  <1> DEFINE f == SignedUnfilled(oms.orders)
  <1> DEFINE Q(g) ==
          g = [s \in SUBSET S |-> IF s = {} THEN 0
                  ELSE Signed(Chosen(s), Remaining(Chosen(s))) + g[s \ {Chosen(s)}]]
  <1>1. MapThenSumSet(LAMBDA p : Signed(p, Remaining(p)), S) = (CHOOSE g : Q(g))[S]
    BY DEF MapThenSumSet, MapThenFoldSet, Chosen
  <1>2. ASSUME NEW g
        PROVE  Q(g) <=> Summing(g, f, S)
    <2>1. \A s \in SUBSET S : s # {} =>
              f[Chosen(s)] = Signed(Chosen(s), Remaining(Chosen(s)))
      BY DEF Chosen, SignedUnfilled, Remaining
    <2> HIDE DEF f
    <2> QED
      BY <2>1 DEF Summing
  <1> HIDE DEF Q
  <1>3. (CHOOSE g : Q(g)) = (CHOOSE g : Summing(g, f, S))
    BY <1>2
  <1> QED
    BY <1>1, <1>3, SumDefinition

LEMMA VenuePositionSum == VenuePosition = SumOf(SignedHeld(venue), Orders)
  <1> DEFINE f == SignedHeld(venue)
  <1> DEFINE Q(g) ==
          g = [s \in SUBSET Orders |-> IF s = {} THEN 0
                  ELSE Signed(Chosen(s), venue[Chosen(s)].filled) + g[s \ {Chosen(s)}]]
  <1>1. VenuePosition = (CHOOSE g : Q(g))[Orders]
    BY DEF VenuePosition, MapThenSumSet, MapThenFoldSet, Chosen
  <1>2. ASSUME NEW g
        PROVE  Q(g) <=> Summing(g, f, Orders)
    <2>1. \A s \in SUBSET Orders : s # {} =>
              f[Chosen(s)] = Signed(Chosen(s), venue[Chosen(s)].filled)
      BY DEF Chosen, SignedHeld
    <2> HIDE DEF f
    <2> QED
      BY <2>1 DEF Summing
  <1> HIDE DEF Q
  <1>3. (CHOOSE g : Q(g)) = (CHOOSE g : Summing(g, f, Orders))
    BY <1>2
  <1> QED
    BY <1>1, <1>3, SumDefinition

-----------------------------------------------------------------------------
(* What is charged and what is covered, against the position.               *)

LEMMA RiskNumbers ==
    ASSUME NEW held, \A o \in Orders : held[o].filled \in Nat, NEW open \in SUBSET Orders
    PROVE  /\ IsFiniteSet(Orders)
           /\ \A o \in Orders :
                 /\ Charge(held, open)[o] \in Int /\ Cover(held, open)[o] \in Int
                 /\ SignedHeld(held)[o] \in Int /\ Unfilled(held)[o] \in Int
                 /\ SignedUnfilled(held)[o] \in Int
           /\ SumOf(Charge(held, open), Orders) \in Int
           /\ SumOf(Cover(held, open), Orders) \in Int
           /\ SumOf(SignedHeld(held), Orders) \in Int
           /\ \A S \in SUBSET Orders : /\ SumOf(Unfilled(held), S) \in Int
                                       /\ SumOf(SignedUnfilled(held), S) \in Int
  <1>1. IsFiniteSet(Orders) /\ \A o \in Orders : Qty[o] \in Nat
    BY FinitelyManyOrders, BrokerAssumption
  <1>2. \A o \in Orders : Charge(held, open)[o] \in Int
    BY <1>1 DEF Charge
  <1>3. \A o \in Orders : Cover(held, open)[o] \in Int
    BY <1>1 DEF Cover
  <1>4. \A o \in Orders : SignedHeld(held)[o] \in Int
    BY DEF SignedHeld, Signed
  <1>5. \A o \in Orders : Unfilled(held)[o] \in Int
    BY <1>1 DEF Unfilled
  <1>6. \A o \in Orders : SignedUnfilled(held)[o] \in Int
    BY <1>1 DEF SignedUnfilled, Signed
  <1>7. ASSUME NEW S \in SUBSET Orders
        PROVE  IsFiniteSet(S) /\ SumOf(Unfilled(held), S) \in Int
                              /\ SumOf(SignedUnfilled(held), S) \in Int
    <2>1. IsFiniteSet(S)
      BY <1>1, FS_Subset
    <2> QED
      BY <2>1, <1>5, <1>6, SumOfParts
  <1>8. /\ SumOf(Charge(held, open), Orders) \in Int
        /\ SumOf(Cover(held, open), Orders) \in Int
        /\ SumOf(SignedHeld(held), Orders) \in Int
    BY <1>1, <1>2, <1>3, <1>4, SumOfParts
  <1> QED
    BY <1>1, <1>2, <1>3, <1>4, <1>5, <1>6, <1>7, <1>8

(* The charge is the position and what the open purchases may still buy.    *)
LEMMA ChargeSum ==
    ASSUME NEW held, \A o \in Orders : held[o].filled \in Nat, NEW open \in SUBSET Orders
    PROVE  SumOf(Charge(held, open), Orders)
             = SumOf(SignedHeld(held), Orders) + SumOf(Unfilled(held), open \ Sells)
  <1> DEFINE T == open \ Sells
  <1>1. Adds(Charge(held, open), SignedHeld(held), Unfilled(held), T, Orders)
    <2>1. ASSUME NEW o \in Orders
          PROVE  Charge(held, open)[o] = IF o \in T THEN SignedHeld(held)[o] + Unfilled(held)[o]
                                         ELSE SignedHeld(held)[o]
      BY BrokerAssumption DEF Charge, SignedHeld, Unfilled, Signed
    <2> QED
      BY <2>1, RiskNumbers DEF Adds
  <1>2. T \intersect Orders = T
    OBVIOUS
  <1> HIDE DEF T
  <1>3. SumOf(Charge(held, open), Orders)
          = SumOf(SignedHeld(held), Orders) + SumOf(Unfilled(held), T \intersect Orders)
    BY <1>1, FinitelyManyOrders, SumPlus
  <1> QED
    BY <1>2, <1>3 DEF T

(* The position is the cover and what the open sales may still sell.        *)
LEMMA CoverSum ==
    ASSUME NEW held, \A o \in Orders : held[o].filled \in Nat, NEW open \in SUBSET Orders
    PROVE  SumOf(SignedHeld(held), Orders)
             = SumOf(Cover(held, open), Orders) + SumOf(Unfilled(held), open \intersect Sells)
  <1> DEFINE T == open \intersect Sells
  <1>1. Adds(SignedHeld(held), Cover(held, open), Unfilled(held), T, Orders)
    <2>1. ASSUME NEW o \in Orders
          PROVE  SignedHeld(held)[o] = IF o \in T THEN Cover(held, open)[o] + Unfilled(held)[o]
                                       ELSE Cover(held, open)[o]
      BY BrokerAssumption DEF Cover, SignedHeld, Unfilled, Signed
    <2> QED
      BY <2>1, RiskNumbers DEF Adds
  <1>2. T \intersect Orders = T
    OBVIOUS
  <1> HIDE DEF T
  <1>3. SumOf(SignedHeld(held), Orders)
          = SumOf(Cover(held, open), Orders) + SumOf(Unfilled(held), T \intersect Orders)
    BY <1>1, FinitelyManyOrders, SumPlus
  <1> QED
    BY <1>2, <1>3 DEF T

(* With only sales open, the cover is the position once all have executed.  *)
LEMMA CoverOfSales ==
    ASSUME NEW held, \A o \in Orders : held[o].filled \in Nat, NEW open \in SUBSET Orders,
           open \subseteq Sells
    PROVE  SumOf(Cover(held, open), Orders)
             = SumOf(SignedHeld(held), Orders) + SumOf(SignedUnfilled(held), open)
  <1>1. Adds(Cover(held, open), SignedHeld(held), SignedUnfilled(held), open, Orders)
    <2>1. ASSUME NEW o \in Orders
          PROVE  Cover(held, open)[o] =
                    IF o \in open THEN SignedHeld(held)[o] + SignedUnfilled(held)[o]
                    ELSE SignedHeld(held)[o]
      BY BrokerAssumption DEF Cover, SignedHeld, SignedUnfilled, Signed
    <2> QED
      BY <2>1, RiskNumbers DEF Adds
  <1>2. open \intersect Orders = open
    OBVIOUS
  <1> QED
    BY <1>1, <1>2, FinitelyManyOrders, SumPlus

(* The limits hold all the more when orders fill, and close.                *)
Shrinks(held, open, held2, open2) ==
    /\ open2 \subseteq open
    /\ \A o \in Orders :
          /\ held[o].filled \in Nat /\ held2[o].filled \in Nat
          /\ held[o].filled <= held2[o].filled /\ held2[o].filled <= Qty[o]
          /\ o \in open \/ held2[o].filled = held[o].filled

LEMMA RiskShrinks ==
    ASSUME NEW held, NEW held2, NEW open \in SUBSET Orders, NEW open2 \in SUBSET Orders,
           Shrinks(held, open, held2, open2), WithinRisk(held, open)
    PROVE  WithinRisk(held2, open2)
  <1>1. \A o \in Orders : Charge(held2, open2)[o] <= Charge(held, open)[o]
    BY BrokerAssumption DEF Shrinks, Charge
  <1>2. \A o \in Orders : Cover(held, open)[o] <= Cover(held2, open2)[o]
    BY BrokerAssumption DEF Shrinks, Cover
  <1>3. /\ \A o \in Orders : held[o].filled \in Nat
        /\ \A o \in Orders : held2[o].filled \in Nat
        /\ open2 \subseteq open
    BY DEF Shrinks
  <1>4. /\ SumOf(Charge(held2, open2), Orders) <= SumOf(Charge(held, open), Orders)
        /\ SumOf(Charge(held2, open2), Orders) \in Int
        /\ SumOf(Charge(held, open), Orders) \in Int
    BY <1>1, <1>3, RiskNumbers, SumGrows
  <1>5. /\ SumOf(Cover(held, open), Orders) <= SumOf(Cover(held2, open2), Orders)
        /\ SumOf(Cover(held, open), Orders) \in Int
        /\ SumOf(Cover(held2, open2), Orders) \in Int
    BY <1>2, <1>3, RiskNumbers, SumGrows
  <1>6. /\ Cardinality(open2) <= Cardinality(open)
        /\ Cardinality(open2) \in Nat /\ Cardinality(open) \in Nat
    BY <1>3, FinitelyManyOrders, FS_Subset, FS_CardinalityType
  <1>7. InitialCash \in Nat /\ MaxOpenOrders \in Nat
    BY OmsAssumption
  <1> QED
    BY <1>3, <1>4, <1>5, <1>6, <1>7 DEF WithinRisk

-----------------------------------------------------------------------------
(* What the kinds of steps make of the limits.                              *)

LEMMA WorkingInOrders ==
    ASSUME NEW orders
    PROVE  WorkingIn(orders) \in SUBSET Orders
  BY DEF WorkingIn

(* While nothing surfaces late, an operation only fills and closes.         *)
LEMMA KernelMovesKeepRisk ==
    ASSUME Inv, Inv', BooksInv', TrailInv, RiskInv, KernelMoves
    PROVE  RiskInv'
  <1> SUFFICES ASSUME late' = {}
               PROVE  RecordsWithinRisk(oms') /\ RecordsWithinRisk(disk')
    BY DEF RiskInv
  <1>1. /\ late = {} /\ RecordsWithinRisk(oms) /\ RecordsWithinRisk(disk)
        /\ disk' = disk \/ disk' = oms'
    BY DEF KernelMoves, RiskInv
  <1> DEFINE held == oms.orders
  <1> DEFINE held2 == oms'.orders
  <1>2. /\ \A o \in Orders : Follows(held[o], held2[o], Qty[o], venue[o])
        /\ \A o \in Orders : held[o].filled <= held2[o].filled
        /\ Noted(oms, venue, {})
    BY <1>1 DEF KernelMoves, TrailInv, BehindInv
  <1>3. \A o \in Orders : held[o].filled \in Nat /\ held2[o].filled \in Nat
    BY TypesOfInv, FilledNumbers DEF PersistentState, OrderRecord, Inv, TypeInv, TypeOK
  <1>4. \A o \in Orders : held2[o].filled <= Qty[o]
    BY DEF BooksInv, RecordsInv, KeepsRecords, Kept
  <1>5. ASSUME NEW o \in Orders, held[o].state \notin Working
        PROVE  held2[o].state \notin Working /\ held2[o].filled = held[o].filled
    <2>1. ~(held[o].state \in Closed /\ held[o].filled < venue[o].filled)
      BY <1>2 DEF Noted
    <2> HIDE DEF held, held2
    <2> QED
      BY <1>2, <1>5, <2>1 DEF Follows
  <1>6. Shrinks(held, WorkingIn(held), held2, WorkingIn(held2))
    <2> HIDE DEF held, held2
    <2> QED
      BY <1>2, <1>3, <1>4, <1>5 DEF Shrinks, WorkingIn, IsWorking
  <1>7. WithinRisk(held, WorkingIn(held))
    BY <1>1 DEF RecordsWithinRisk
  <1> HIDE DEF held, held2
  <1>8. WithinRisk(held2, WorkingIn(held2))
    BY <1>6, <1>7, WorkingInOrders, RiskShrinks
  <1> QED
    BY <1>1, <1>8 DEF RecordsWithinRisk, held2

(* What evaluate_risk approves stays within the limits once it is booked.   *)
LEMMA SubmitIntentBooks ==
    ASSUME Inv, BooksInv, NEW o \in Orders, SubmitIntent(o)
    PROVE  /\ oms.orders[o].state = "NONE" /\ oms.orders[o].filled = 0
           /\ oms'.orders[o].state \in Working /\ oms'.orders[o].filled = 0
           /\ \A p \in Orders : p # o => oms'.orders[p] = oms.orders[p]
           /\ \A p \in Orders : oms.orders[p].filled \in Nat /\ oms'.orders[p].filled \in Nat
           /\ WorkingIn(oms'.orders) = WorkingIn(oms.orders) \union {o}
           /\ o \notin WorkingIn(oms.orders)
           /\ late' = late /\ (disk' = disk \/ disk' = oms')
  <1>1. /\ oms.orders[o].state = "NONE" /\ SetOrder(o, NewOrder)
        /\ late' = late /\ (disk' = disk \/ disk' = oms')
    BY DEF SubmitIntent, Exists, StateOf, SaveThen, Persisted, PersistFailed
  <1>2. oms.orders[o].filled = 0
    BY <1>1 DEF BooksInv, RecordsInv, KeepsRecords, Kept
  <1>3. /\ oms'.orders[o] = NewOrder /\ \A p \in Orders : p # o => oms'.orders[p] = oms.orders[p]
    BY <1>1, TypesOfInv, SetOrderRecords
  <1>4. NewOrder.state = "PENDING_SUBMIT" /\ NewOrder.filled = 0
    BY DEF NewOrder, AbsentOrder
  <1>5. oms'.orders[o].state \in Working /\ oms.orders[o].state \notin Working
    BY <1>1, <1>3, <1>4, StatesApart
  <1>6. /\ WorkingIn(oms'.orders) = WorkingIn(oms.orders) \union {o}
        /\ o \notin WorkingIn(oms.orders)
    BY <1>3, <1>5 DEF WorkingIn, IsWorking
  <1>7. \A p \in Orders : oms.orders[p].filled \in Nat /\ oms'.orders[p].filled \in Nat
    BY <1>2, <1>3, <1>4, FilledNumbers
  <1> QED
    BY <1>1, <1>2, <1>3, <1>4, <1>5, <1>6, <1>7

LEMMA BookingKeepsRisk ==
    ASSUME Inv, BooksInv, RecordsWithinRisk(oms), NEW o \in Orders, SubmitIntent(o)
    PROVE  RecordsWithinRisk(oms')
  <1> DEFINE held == oms.orders
  <1> DEFINE held2 == oms'.orders
  <1> DEFINE W == WorkingIn(held)
  <1> DEFINE W2 == WorkingIn(held2)
  <1> DEFINE position == SumOf(SignedHeld(held), Orders)
  <1>1. /\ held[o].filled = 0 /\ held2[o].filled = 0
        /\ \A p \in Orders : p # o => held2[p] = held[p]
        /\ \A p \in Orders : held[p].filled \in Nat
        /\ \A p \in Orders : held2[p].filled \in Nat
        /\ W2 = W \union {o} /\ o \notin W
    BY SubmitIntentBooks
  <1>2. WorkingOrders = W /\ W \in SUBSET Orders /\ W2 \in SUBSET Orders
    BY DEF WorkingOrders, WorkingIn
  <1>3. /\ \A p \in W : (p \in Sells) = (o \in Sells)
        /\ Cardinality(W) < MaxOpenOrders
        /\ CommittedPosition(o) \in 0..MaxPosition
        /\ o \in Sells \/ Qty[o] <= oms.cash - ReservedCash
    BY <1>2 DEF SubmitIntent, RiskApproves, ConflictsWithWorkingOrder, RoomForOrder
  <1>4. oms.position = position /\ oms.cash = InitialCash - position
    BY DEF BooksInv, AccountInv, KeepsAccount, SignedFills, SignedHeld
  <1>5. WithinRisk(held, W)
    BY DEF RecordsWithinRisk
  <1>6. Qty[o] \in Nat /\ InitialCash \in Nat /\ MaxPosition \in Nat /\ MaxOpenOrders \in Nat
    BY BrokerAssumption, OmsAssumption
  <1>7. ReservedCash = SumOf(Unfilled(held), W \ Sells)
    BY <1>2, ReservedSum DEF ReservedCash
  <1>8. MapThenSumSet(LAMBDA p : Signed(p, Remaining(p)), WorkingOrders)
          = SumOf(SignedUnfilled(held), W)
    BY <1>2, CommittedSum
  <1> HIDE DEF held, held2, W, W2, position
  <1>9. /\ position \in Int
        /\ SumOf(Charge(held, W), Orders) \in Int /\ SumOf(Cover(held, W), Orders) \in Int
        /\ SumOf(Unfilled(held), W \ Sells) \in Int /\ SumOf(SignedUnfilled(held), W) \in Int
        /\ \A p \in Orders : Charge(held, W)[p] \in Int /\ Cover(held, W)[p] \in Int
        /\ \A p \in Orders : Charge(held2, W2)[p] \in Int /\ Cover(held2, W2)[p] \in Int
    BY <1>1, <1>2, RiskNumbers DEF position
  <1>10. SumOf(Charge(held2, W2), Orders) <= InitialCash
    <2>1. \A p \in Orders : p # o => Charge(held2, W2)[p] = Charge(held, W)[p]
      BY <1>1 DEF Charge
    <2>2. Charge(held, W)[o] = 0 /\ Charge(held2, W2)[o] = IF o \in Sells THEN 0 ELSE Qty[o]
      BY <1>1 DEF Charge
    <2>3. SumOf(Charge(held2, W2), Orders)
            = SumOf(Charge(held, W), Orders) - Charge(held, W)[o] + Charge(held2, W2)[o]
      BY <1>9, <2>1, FinitelyManyOrders, SumChange
    <2>4. SumOf(Charge(held, W), Orders) = position + SumOf(Unfilled(held), W \ Sells)
      BY <1>1, <1>2, ChargeSum DEF position
    <2>5. CASE o \in Sells
      BY <1>5, <1>9, <2>2, <2>3, <2>5 DEF WithinRisk
    <2>6. CASE o \notin Sells
      <3>1. Qty[o] <= (InitialCash - position) - SumOf(Unfilled(held), W \ Sells)
        BY <1>3, <1>4, <1>7, <2>6
      <3>2. SumOf(Charge(held2, W2), Orders)
              = (position + SumOf(Unfilled(held), W \ Sells)) - 0 + Qty[o]
        BY <2>2, <2>3, <2>4, <2>6
      <3> QED
        BY <1>6, <1>9, <3>1, <3>2
    <2> QED
      BY <2>5, <2>6
  <1>11. SumOf(Cover(held2, W2), Orders) >= 0
    <2>1. \A p \in Orders : p # o => Cover(held2, W2)[p] = Cover(held, W)[p]
      BY <1>1 DEF Cover
    <2>2. Cover(held, W)[o] = 0 /\ Cover(held2, W2)[o] = IF o \in Sells THEN -Qty[o] ELSE 0
      BY <1>1 DEF Cover
    <2>3. SumOf(Cover(held2, W2), Orders)
            = SumOf(Cover(held, W), Orders) - Cover(held, W)[o] + Cover(held2, W2)[o]
      BY <1>9, <2>1, FinitelyManyOrders, SumChange
    <2>4. CASE o \notin Sells
      BY <1>5, <1>9, <2>2, <2>3, <2>4 DEF WithinRisk
    <2>5. CASE o \in Sells
      <3>1. W \subseteq Sells
        BY <1>3, <2>5
      <3>2. SumOf(Cover(held, W), Orders) = position + SumOf(SignedUnfilled(held), W)
        BY <1>1, <1>2, <3>1, CoverOfSales DEF position
      <3>3. position + (-Qty[o]) + SumOf(SignedUnfilled(held), W) \in 0..MaxPosition
        BY <1>3, <1>4, <1>8, <2>5 DEF CommittedPosition, Signed
      <3>4. SumOf(Cover(held2, W2), Orders)
              = (position + SumOf(SignedUnfilled(held), W)) - 0 + (-Qty[o])
        BY <2>2, <2>3, <2>5, <3>2
      <3> QED
        BY <1>6, <1>9, <3>3, <3>4
    <2> QED
      BY <2>4, <2>5
  <1>12. \A p, q \in W2 : (p \in Sells) = (q \in Sells)
    BY <1>1, <1>3
  <1>13. Cardinality(W2) <= MaxOpenOrders
    <2>1. IsFiniteSet(W) /\ Cardinality(W) \in Nat
      BY <1>2, FinitelyManyOrders, FS_Subset, FS_CardinalityType
    <2>2. Cardinality(W2) = Cardinality(W) + 1
      BY <1>1, <2>1, FS_AddElement
    <2> QED
      BY <1>3, <1>6, <2>1, <2>2
  <1> QED
    BY <1>10, <1>11, <1>12, <1>13 DEF RecordsWithinRisk, WithinRisk, held2, W2

LEMMA InitEstablishesRisk == Init => RiskInv
  <1> SUFFICES ASSUME Init PROVE RiskInv
    OBVIOUS
  <1> DEFINE held == oms.orders
  <1>1. /\ disk = oms
        /\ \A o \in Orders : held[o].filled = 0 /\ held[o].state = "NONE"
    BY DEF Init, AbsentOrder
  <1>2. WorkingIn(held) = {}
    BY <1>1, StatesApart DEF WorkingIn, IsWorking
  <1> HIDE DEF held
  <1>3. \A o \in Orders : Charge(held, {})[o] = 0
    BY <1>1 DEF Charge
  <1>4. \A o \in Orders : Cover(held, {})[o] = 0
    BY <1>1 DEF Cover
  <1>5. SumOf(Charge(held, {}), Orders) = 0 /\ SumOf(Cover(held, {}), Orders) = 0
    BY <1>3, <1>4, FinitelyManyOrders, SumOfZeros
  <1>6. Cardinality({}) = 0 /\ InitialCash \in Nat /\ MaxOpenOrders \in Nat
    BY FS_EmptySet, OmsAssumption
  <1>7. WithinRisk(held, WorkingIn(held))
    BY <1>2, <1>5, <1>6 DEF WithinRisk
  <1> QED
    BY <1>1, <1>7 DEF RiskInv, RecordsWithinRisk, held

LEMMA NextKeepsRisk ==
    ASSUME Inv, Inv', BooksInv, BooksInv', VenueAccount, TrailInv, RiskInv, [Next]_vars
    PROVE  RiskInv'
  <1>1. CASE KernelMoves
    BY <1>1, KernelMovesKeepRisk
  <1>2. CASE VenueMoves
    BY <1>2 DEF VenueMoves, RiskInv
  <1>3. CASE Restart
    BY <1>3, NoteLateNotes DEF Restart, RiskInv
  <1>4. CASE \E o \in Orders : SubmitIntent(o)
    <2>1. PICK o \in Orders : SubmitIntent(o)
      BY <1>4
    <2>2. /\ late' = late /\ (disk' = disk \/ disk' = oms')
          /\ RecordsWithinRisk(oms) => RecordsWithinRisk(oms')
      BY <2>1, SubmitIntentBooks, BookingKeepsRisk
    <2> QED
      BY <2>2 DEF RiskInv
  <1> QED
    BY <1>1, <1>2, <1>3, <1>4, NextKeepsTrail

-----------------------------------------------------------------------------
(* From the records to the venue.                                           *)

LEMMA RiskAtVenue ==
    ASSUME Inv, BooksInv, VenueAccount, TrailInv, RiskInv, late = {}
    PROVE  WithinRisk(venue, OpenAtVenue)
  <1> DEFINE held == oms.orders
  <1>1. /\ Behind(oms, venue) /\ Noted(oms, venue, {}) /\ WithinRisk(held, WorkingIn(held))
    BY DEF TrailInv, BehindInv, RiskInv, RecordsWithinRisk
  <1>2. \A o \in Orders : /\ held[o].filled \in Nat /\ venue[o].filled \in Nat
                          /\ Qty[o] \in Nat /\ held[o].filled <= venue[o].filled
                          /\ venue[o].filled <= Qty[o]
    BY FilledNumbers, OmsBehind DEF BooksInv, VenueAccount
  <1>3. OpenAtVenue \in SUBSET Orders /\ \A o \in OpenAtVenue : OpenAt(venue, o)
    BY DEF OpenAtVenue, WorkingAtVenue, Known, OpenAt
  <1>4. ASSUME NEW o \in Orders, held[o].state \notin Working
        PROVE  o \notin OpenAtVenue /\ venue[o].filled = held[o].filled
    <2>1. held[o].state \in StoredStates \union {"NONE"}
      BY TypesOfInv DEF OrderRecord
    <2>2. CASE held[o].state = "NONE"
      <3>1. ~Known(o)
        BY <2>2 DEF Inv, SentInv, BooksInv, CallInv, Exists, StateOf
      <3>2. venue[o].filled = 0 /\ ~OpenAt(venue, o)
        BY <3>1 DEF VenueAccount, OpenAt, Known
      <3> QED
        BY <1>2, <1>3, <3>2
    <2>3. CASE held[o].state = "FILLED"
      <3>1. held[o].filled = Qty[o]
        BY <1>1, <2>3 DEF Behind
      <3>2. WorkingAtVenue(o) => venue[o].filled < Qty[o]
        BY DEF VenueAccount
      <3> QED
        BY <1>2, <3>1, <3>2 DEF OpenAtVenue
    <2>4. CASE held[o].state \in Closed
      <3>1. ~(held[o].filled < venue[o].filled)
        BY <1>1, <2>4 DEF Noted
      <3>2. ~OpenAt(venue, o)
        BY <1>1, <2>4, <3>1 DEF Behind
      <3> QED
        BY <1>2, <1>3, <3>1, <3>2
    <2> QED
      BY <1>4, <2>1, <2>2, <2>3, <2>4, StatesApart
  <1> HIDE DEF held
  <1>5. Shrinks(held, WorkingIn(held), venue, OpenAtVenue)
    BY <1>2, <1>3, <1>4 DEF Shrinks, WorkingIn, IsWorking
  <1> QED
    BY <1>1, <1>3, <1>5, WorkingInOrders, RiskShrinks

LEMMA WithinAtVenue ==
    ASSUME Inv, BooksInv, VenueAccount, TrailInv, RiskInv
    PROVE  VenueWithinCash /\ VenueWithinLimits
  <1> SUFFICES ASSUME late = {}
               PROVE  /\ MapThenSumSet(Unexecuted, OpenAtVenue \ Sells)
                            <= InitialCash - VenuePosition
                      /\ \A o, p \in OpenAtVenue : (o \in Sells) = (p \in Sells)
                      /\ Cardinality(OpenAtVenue) <= MaxOpenOrders
                      /\ MapThenSumSet(Unexecuted, OpenAtVenue \intersect Sells)
                            <= VenuePosition
    BY DEF VenueWithinCash, VenueWithinLimits
  <1> DEFINE open == OpenAtVenue
  <1>1. /\ WithinRisk(venue, open) /\ open \in SUBSET Orders /\ InitialCash \in Nat
        /\ \A o \in Orders : venue[o].filled \in Nat
    BY RiskAtVenue, FilledNumbers, OmsAssumption DEF OpenAtVenue
  <1>2. /\ MapThenSumSet(Unexecuted, open \ Sells) = SumOf(Unfilled(venue), open \ Sells)
        /\ MapThenSumSet(Unexecuted, open \intersect Sells)
              = SumOf(Unfilled(venue), open \intersect Sells)
        /\ VenuePosition = SumOf(SignedHeld(venue), Orders)
    BY <1>1, UnexecutedSum, VenuePositionSum
  <1> HIDE DEF open
  <1>3. /\ SumOf(Charge(venue, open), Orders)
              = SumOf(SignedHeld(venue), Orders) + SumOf(Unfilled(venue), open \ Sells)
        /\ SumOf(SignedHeld(venue), Orders)
              = SumOf(Cover(venue, open), Orders)
                   + SumOf(Unfilled(venue), open \intersect Sells)
    BY <1>1, ChargeSum, CoverSum
  <1>4. /\ SumOf(SignedHeld(venue), Orders) \in Int
        /\ SumOf(Cover(venue, open), Orders) \in Int
        /\ SumOf(Unfilled(venue), open \ Sells) \in Int
        /\ SumOf(Unfilled(venue), open \intersect Sells) \in Int
    BY <1>1, RiskNumbers
  <1>5. /\ SumOf(Charge(venue, open), Orders) <= InitialCash
        /\ SumOf(Cover(venue, open), Orders) >= 0
        /\ \A o, p \in open : (o \in Sells) = (p \in Sells)
        /\ Cardinality(open) <= MaxOpenOrders
    BY <1>1 DEF WithinRisk
  <1>6. SumOf(Unfilled(venue), open \ Sells) <= InitialCash - SumOf(SignedHeld(venue), Orders)
    BY <1>1, <1>3, <1>4, <1>5
  <1>7. SumOf(Unfilled(venue), open \intersect Sells) <= SumOf(SignedHeld(venue), Orders)
    BY <1>3, <1>4, <1>5
  <1> QED
    BY <1>2, <1>5, <1>6, <1>7 DEF open

-----------------------------------------------------------------------------
(* What every reachable state satisfies.                                    *)

LEMMA VenueInvariance == Spec => []VenueAccount
  <1>1. Inv /\ BooksInv /\ VenueAccount /\ [Next]_vars => VenueAccount'
    BY NextKeepsVenueAccount DEF BooksInv
  <1> QED
    BY <1>1, InitEstablishesVenueAccount, BooksInvariance, PTL DEF Spec

LEMMA TrailInvariance == Spec => []TrailInv
  <1>1. ASSUME Inv, Inv', BooksInv, VenueAccount, TrailInv, [Next]_vars
        PROVE  TrailInv'
    BY <1>1, NextKeepsTrail
  <1> QED
    BY <1>1, InitEstablishesTrail, BooksInvariance, VenueInvariance, PTL DEF Spec

LEMMA RiskInvariance == Spec => []RiskInv
  <1>1. ASSUME Inv, Inv', BooksInv, BooksInv', VenueAccount, TrailInv, RiskInv, [Next]_vars
        PROVE  RiskInv'
    BY <1>1, NextKeepsRisk
  <1> QED
    BY <1>1, InitEstablishesRisk, BooksInvariance, VenueInvariance, TrailInvariance, PTL
    DEF Spec

(* While nothing surfaces after its order was taken for closed, cash covers *)
(* whatever the venue has bought and may still buy, through crashes, lost   *)
(* sessions and lost evidence (evaluate_risk with total_reserved_cash).     *)
THEOREM CashCoversVenue == Spec => []VenueWithinCash
  <1>1. Inv /\ BooksInv /\ VenueAccount /\ TrailInv /\ RiskInv => VenueWithinCash
    BY WithinAtVenue
  <1> QED
    BY <1>1, BooksInvariance, VenueInvariance, TrailInvariance, RiskInvariance, PTL

(* With both sides traded, the venue works one of them at a time, no more   *)
(* orders than allowed and no sale of what is not held, the account is what *)
(* was executed, and the record is one restore accepts unless the position  *)
(* was sold out (conflicts_with_working_order, working_order_count,         *)
(* breaches_position_limit, apply_accounted_fill, restore).                 *)
THEOREM SidesBooked == Spec => []SidesStayBooked
  <1>1. Inv /\ BooksInv /\ VenueAccount /\ TrailInv /\ RiskInv => VenueWithinLimits
    BY WithinAtVenue
  <1>2. VenueWithinLimits /\ FillsAreFaithful /\ RestoresUnlessSoldOut => SidesStayBooked
    BY DEF FillsAreFaithful, SidesStayBooked
  <1> QED
    BY <1>1, <1>2, BooksInvariance, VenueInvariance, TrailInvariance, RiskInvariance,
       FillsFaithful, JournalRestorable, PTL
=============================================================================

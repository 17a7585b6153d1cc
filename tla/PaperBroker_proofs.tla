-------------------------- MODULE PaperBroker_proofs --------------------------
(***************************************************************************)
(* Lemmas about one order's record and about the broker, for any service    *)
(* that keeps such records and talks to it: PaperOms and LiveKernel.        *)
(*                                                                         *)
(* Broker evidence keeps a record that of a stored order; queued evidence   *)
(* of an execution is always of one the venue made (Genuine); and what each *)
(* call to the broker and each step of its venue may change.                *)
(***************************************************************************)
EXTENDS PaperBroker, SequenceTheorems, Sums_proofs

(* An order record that is stored.                                          *)
StoredOrder == {r \in OrderRecord : r.state \in StoredStates}

-----------------------------------------------------------------------------
(* What broker evidence does to a record: it stays a record of a stored     *)
(* order (apply_broker_event).                                              *)
LEMMA RecordStates ==
    /\ Revisable \subseteq StoredStates
    /\ Terminal \subseteq StoredStates
    /\ Closed \subseteq StoredStates
    /\ {"PENDING_SUBMIT", "PENDING_CANCEL", "PENDING_REPLACE", "UNKNOWN"} \subseteq StoredStates
    /\ "NONE" \notin StoredStates
  BY DEF Revisable, Terminal, Closed, StoredStates

LEMMA ResolveKeepsStored ==
    ASSUME NEW order \in StoredOrder, NEW e \in Event, NEW quantity \in Nat,
           Accepts(order, e, quantity)
    PROVE  Resolve(order, e, quantity) \in StoredOrder
  <1> USE DEF StoredOrder, OrderRecord, Event, Revisable, Terminal, Closed, StoredStates
  <1>1. CASE e.type = "Acknowledged"
    BY <1>1 DEF Resolve, AfterAcknowledge, WithVersion, Acknowledge
  <1>2. CASE e.type = "Execution"
    <2> DEFINE state == ExecutedState(order.state, order.filled + e.qty = quantity)
    <2>1. state \in StoredStates
      BY DEF ExecutedState, Acknowledge
    <2>2. WithVersion(order, e.version) \in StoredOrder
      BY DEF WithVersion
    <2>3. Resolve(order, e, quantity) = AfterExecute(order, e, quantity)
      BY <1>2 DEF Resolve
    <2>4. order.filled + e.qty \in Nat
      OBVIOUS
    <2> HIDE DEF state
    <2>5. [WithVersion(order, e.version) EXCEPT !.filled = order.filled + e.qty,
                                                !.state = state] \in StoredOrder
      BY <2>1, <2>2, <2>4
    <2> QED
      BY <2>3, <2>5 DEF AfterExecute, state
  <1>3. CASE e.type = "CancelRejected"
    BY <1>3 DEF Resolve, AfterRejectCancel, WorkingState
  <1>4. CASE e.type = "ReplaceRequested"
    BY <1>4 DEF Resolve, AfterRequestReplace, PendingReplacement
  <1>5. CASE e.type = "Replaced"
    BY <1>5 DEF Resolve, AfterReplace, Restored, WorkingState
  <1>6. CASE e.type = "ReplaceRejected"
    BY <1>6 DEF Resolve, AfterRejectReplace, Restored, WorkingState
  <1>7. CASE e.type \in Closings
    <2>1. ClosingState(e.type) \in Closed
      BY <1>7 DEF Closings, ClosingState
    <2>2. Resolve(order, e, quantity) = AfterClose(order, ClosingState(e.type))
      BY <1>7 DEF Closings, Resolve
    <2> QED
      BY <2>1, <2>2 DEF AfterClose
  <1> QED
    BY <1>1, <1>2, <1>3, <1>4, <1>5, <1>6, <1>7 DEF EventTypes

(* Only an execution moves what is filled, by its quantity.                 *)
LEMMA ResolveFills ==
    ASSUME NEW order \in OrderRecord, NEW e \in Event, NEW quantity
    PROVE  Resolve(order, e, quantity).filled
             = IF IsExecution(e) THEN order.filled + e.qty ELSE order.filled
  <1> USE DEF OrderRecord, Event, IsExecution
  <1>1. CASE e.type = "Acknowledged"
    BY <1>1 DEF Resolve, AfterAcknowledge, WithVersion
  <1>2. CASE e.type = "Execution"
    <2>1. Resolve(order, e, quantity) = AfterExecute(order, e, quantity)
      BY <1>2 DEF Resolve
    <2> QED
      BY <1>2, <2>1 DEF AfterExecute, WithVersion
  <1>3. CASE e.type = "CancelRejected"
    BY <1>3 DEF Resolve, AfterRejectCancel
  <1>4. CASE e.type = "ReplaceRequested"
    BY <1>4 DEF Resolve, AfterRequestReplace, PendingReplacement
  <1>5. CASE e.type = "Replaced"
    BY <1>5 DEF Resolve, AfterReplace, Restored
  <1>6. CASE e.type = "ReplaceRejected"
    BY <1>6 DEF Resolve, AfterRejectReplace, Restored
  <1>7. CASE e.type \in Closings
    <2>1. Resolve(order, e, quantity) = AfterClose(order, ClosingState(e.type))
      BY <1>7 DEF Closings, Resolve
    <2> QED
      BY <1>7, <2>1 DEF AfterClose, Closings
  <1> QED
    BY <1>1, <1>2, <1>3, <1>4, <1>5, <1>6, <1>7 DEF EventTypes

(* Recording the answer to a submission (submit_intent_as).                 *)
LEMMA AnsweredIsStored ==
    ASSUME NEW order \in OrderRecord, NEW answer \in SubmitAnswers
    PROVE  Answered(order, answer) \in OrderRecord /\ Answered(order, answer).state # "NONE"
  <1> USE DEF OrderRecord
  <1>1. CASE answer = "ACKNOWLEDGED"
    <2>1. Answered(order, answer) =
            [order EXCEPT !.state = "ACKNOWLEDGED", !.brokerId = 1, !.versions = {1}]
      BY <1>1 DEF Answered
    <2>2. "ACKNOWLEDGED" \in StoredStates /\ {1} \in SUBSET Nat
      BY DEF StoredStates
    <2> QED
      BY <2>1, <2>2
  <1>2. CASE answer = "ERROR"
    BY <1>2 DEF Answered, StoredStates
  <1>3. CASE answer \in {"REJECTED", "UNKNOWN"}
    BY <1>3 DEF Answered, StoredStates, Terminal, Closed
  <1> QED
    BY <1>1, <1>2, <1>3 DEF SubmitAnswers

-----------------------------------------------------------------------------
(* Evidence: every way the code queues, drains and repeats events keeps     *)
(* them typed and genuine.                                                  *)

Genuine(events, made) ==
    \A i \in DOMAIN events : IsExecution(events[i]) => ExecutionOf(events[i]) \in made

LEMMA ReportOfExecution ==
    ASSUME NEW x \in PossibleExecutions
    PROVE  /\ Report(x) \in Event
           /\ IsExecution(Report(x))
           /\ ExecutionOf(Report(x)) = x
  <1>1. x \in Execution
    BY BrokerAssumption DEF PossibleExecutions, Execution, Lots
  <1> QED
    BY <1>1 DEF Execution, Report, Event, EventTypes, IsExecution, ExecutionOf

LEMMA StatusIsNoExecution ==
    ASSUME NEW type \in EventTypes \ {"Execution"}, NEW o \in Orders, NEW version \in Nat
    PROVE  Status(type, o, version) \in Event /\ ~IsExecution(Status(type, o, version))
  BY DEF Status, Event, EventTypes, Closings, IsExecution

LEMMA GenuineAppend ==
    ASSUME NEW events \in Seq(Event), NEW e \in Event, NEW made, Genuine(events, made),
           IsExecution(e) => ExecutionOf(e) \in made
    PROVE  Append(events, e) \in Seq(Event) /\ Genuine(Append(events, e), made)
  BY DEF Genuine

LEMMA GenuineTail ==
    ASSUME NEW events \in Seq(Event), events # <<>>, NEW made, Genuine(events, made)
    PROVE  /\ Head(events) \in Event
           /\ IsExecution(Head(events)) => ExecutionOf(Head(events)) \in made
           /\ Tail(events) \in Seq(Event)
           /\ Genuine(Tail(events), made)
  BY DEF Genuine

LEMMA GenuineMore ==
    ASSUME NEW events, NEW made, NEW more, made \subseteq more, Genuine(events, made)
    PROVE  Genuine(events, more)
  BY DEF Genuine

LEMMA GenuineEmpty ==
    ASSUME NEW made
    PROVE  <<>> \in Seq(Event) /\ Genuine(<<>>, made)
  BY DEF Genuine

LEMMA GenuineReports ==
    ASSUME NEW made, made \subseteq PossibleExecutions, IsFiniteSet(made),
           NEW unread, unread \subseteq made, NEW s \in SetToSeqs(unread),
           NEW queue \in Seq(Event), Genuine(queue, made)
    PROVE  queue \o Reports(s) \in Seq(Event) /\ Genuine(queue \o Reports(s), made)
  <1>1. IsFiniteSet(unread) /\ Cardinality(unread) \in Nat
    BY FS_Subset, FS_CardinalityType
  <1>2. s \in [1..Cardinality(unread) -> unread]
    BY DEF SetToSeqs
  <1>3. \A i \in DOMAIN s : s[i] \in PossibleExecutions /\ s[i] \in made
    BY <1>2
  <1>4. \A i \in DOMAIN s : Report(s[i]) \in Event /\ ExecutionOf(Report(s[i])) \in made
    BY <1>3, ReportOfExecution
  <1>5. Reports(s) \in [1..Cardinality(unread) -> Event]
    BY <1>2, <1>4 DEF Reports
  <1>6. Reports(s) \in Seq(Event)
    BY <1>1, <1>5
  <1>7. Genuine(Reports(s), made)
    BY <1>4 DEF Genuine, Reports
  <1> QED
    BY <1>6, <1>7 DEF Genuine

-----------------------------------------------------------------------------
(* What a set of executions adds up to.                                     *)
LotsIn(S) == MapThenSumSet(LAMBDA x : x.qty, S)

LEMMA LotsSum ==
    ASSUME NEW S
    PROVE  LotsIn(S) = SumOf([x \in S |-> x.qty], S)
  <1> DEFINE f == [x \in S |-> x.qty]
  <1> DEFINE Q(g) ==
          g = [s \in SUBSET S |-> IF s = {} THEN 0 ELSE Chosen(s).qty + g[s \ {Chosen(s)}]]
  <1>1. LotsIn(S) = (CHOOSE g : Q(g))[S]
    BY DEF LotsIn, MapThenSumSet, MapThenFoldSet, Chosen
  <1>2. ASSUME NEW g
        PROVE  Q(g) <=> Summing(g, f, S)
    <2>1. \A s \in SUBSET S : s # {} => f[Chosen(s)] = Chosen(s).qty
      BY DEF Chosen
    <2> HIDE DEF f
    <2> QED
      BY <2>1 DEF Summing
  <1> HIDE DEF Q
  <1>3. (CHOOSE g : Q(g)) = (CHOOSE g : Summing(g, f, S))
    BY <1>2
  <1> QED
    BY <1>1, <1>3, SumDefinition

LEMMA LotsWith ==
    ASSUME NEW S, IsFiniteSet(S), S \subseteq Execution
    PROVE  /\ LotsIn(S) \in Nat
           /\ LotsIn({}) = 0
           /\ \A x \in Execution \ S : LotsIn(S \union {x}) = LotsIn(S) + x.qty
  <1>1. \A T : T \subseteq Execution => \A x \in T : [y \in T |-> y.qty][x] = x.qty /\ x.qty \in Nat
    BY DEF Execution
  <1>2. LotsIn(S) \in Nat
    BY <1>1, LotsSum, SumOfNaturals
  <1>3. LotsIn({}) = 0
    <2> DEFINE f == [y \in {} |-> y.qty]
    <2>1. LotsIn({}) = SumOf(f, {})
      BY LotsSum
    <2> HIDE DEF f
    <2>2. SumOf(f, {}) = 0
      BY FS_EmptySet, SumOfParts
    <2> QED
      BY <2>1, <2>2
  <1>4. ASSUME NEW x \in Execution \ S
        PROVE  LotsIn(S \union {x}) = LotsIn(S) + x.qty
    <2> DEFINE f == [y \in S \union {x} |-> y.qty]
    <2> DEFINE g == [y \in S |-> y.qty]
    <2>1. /\ \A y \in S \union {x} : f[y] \in Int /\ f[y] = y.qty
          /\ \A y \in S : g[y] \in Int /\ g[y] = f[y]
      BY DEF Execution
    <2>2. LotsIn(S \union {x}) = SumOf(f, S \union {x}) /\ LotsIn(S) = SumOf(g, S)
      BY LotsSum
    <2> HIDE DEF f, g
    <2>3. SumOf(f, S \union {x}) = SumOf(f, S) + f[x]
      BY <2>1, SumWith
    <2>4. SumOf(f, S) = SumOf(g, S)
      BY <2>1, SumSame
    <2> QED
      BY <2>1, <2>2, <2>3, <2>4
  <1> QED
    BY <1>2, <1>3, <1>4

(* The executions of one order.                                             *)
OfOrder(S, o) == {x \in S : x.order = o}

LEMMA LotsOfOrders ==
    ASSUME NEW S, IsFiniteSet(S), S \subseteq Execution, NEW x \in Execution \ S
    PROVE  \A o \in Orders :
              LotsIn(OfOrder(S \union {x}, o))
                = IF o = x.order THEN LotsIn(OfOrder(S, o)) + x.qty ELSE LotsIn(OfOrder(S, o))
  <1>1. ASSUME NEW o \in Orders, o = x.order
        PROVE  LotsIn(OfOrder(S \union {x}, o)) = LotsIn(OfOrder(S, o)) + x.qty
    <2>1. OfOrder(S \union {x}, o) = OfOrder(S, o) \union {x}
      BY <1>1 DEF OfOrder
    <2>2. OfOrder(S, o) \subseteq S /\ x \notin OfOrder(S, o)
      BY DEF OfOrder
    <2>3. IsFiniteSet(OfOrder(S, o)) /\ OfOrder(S, o) \subseteq Execution
      BY <2>2, FS_Subset
    <2> QED
      BY <2>1, <2>2, <2>3, LotsWith
  <1>2. ASSUME NEW o \in Orders, o # x.order
        PROVE  OfOrder(S \union {x}, o) = OfOrder(S, o)
    BY <1>2 DEF OfOrder
  <1> QED
    BY <1>1, <1>2

LEMMA PossibleAreExecutions == PossibleExecutions \subseteq Execution
  BY BrokerAssumption DEF PossibleExecutions, Execution, Lots

-----------------------------------------------------------------------------
(* The broker and its venue.                                                *)

(* What the rest of the argument needs to know of a step at the broker.     *)
BrokerStepFacts ==
    /\ BrokerTypeOK'
    /\ IsFiniteSet(executions)'
    /\ executions \subseteq executions'
    /\ Genuine(pending, executions)'

LEMMA BrokerUnchanged ==
    ASSUME BrokerTypeOK, IsFiniteSet(executions), Genuine(pending, executions),
           UNCHANGED brokerVars
    PROVE  BrokerStepFacts
  BY DEF BrokerTypeOK, brokerVars, BrokerStepFacts

(* An update of one venue order and one status event.                       *)
LEMMA BrokerStatus ==
    ASSUME BrokerTypeOK, IsFiniteSet(executions), Genuine(pending, executions),
           NEW o \in Orders, NEW r \in VenueOrder,
           NEW type \in EventTypes \ {"Execution"}, NEW version \in Nat,
           venue' = [venue EXCEPT ![o] = r],
           pending' = Append(pending, Status(type, o, version)),
           UNCHANGED <<executions, emitted>>
    PROVE  BrokerStepFacts
  <1>1. venue' \in [Orders -> VenueOrder]
    BY DEF BrokerTypeOK
  <1>2. pending' \in Seq(Event) /\ Genuine(pending', executions)
    BY StatusIsNoExecution, GenuineAppend DEF BrokerTypeOK
  <1> QED
    BY <1>1, <1>2 DEF BrokerTypeOK, BrokerStepFacts

LEMMA BrokerSubmitStep ==
    ASSUME BrokerTypeOK, IsFiniteSet(executions), Genuine(pending, executions),
           NEW o \in Orders, NEW answer \in SubmitAnswers, BrokerSubmit(o, answer)
    PROVE  /\ BrokerStepFacts
           /\ executions' = executions
           /\ \A p \in Orders : Known(p)' => Known(p) \/ p = o
           /\ \A p \in Orders : "CANCEL" \in venue'[p].asked => "CANCEL" \in venue[p].asked
  <1>1. ASSUME NEW state \in VenueStates, NEW evidence \in {"Acknowledged", "Rejected"},
               Received(o, state, evidence)
        PROVE  /\ BrokerStepFacts
               /\ executions' = executions
               /\ \A p \in Orders : Known(p)' => Known(p) \/ p = o
               /\ \A p \in Orders : "CANCEL" \in venue'[p].asked => "CANCEL" \in venue[p].asked
    <2>1. CASE Known(o)
      <3>1. UNCHANGED brokerVars
        BY <1>1, <2>1 DEF Received
      <3> QED
        BY <3>1, BrokerUnchanged DEF brokerVars, Known
    <2>2. CASE ~Known(o)
      <3> DEFINE r == [venue[o] EXCEPT !.version = 1, !.state = state]
      <3>1. r \in VenueOrder /\ r.asked = venue[o].asked
        <4>1. venue[o] \in VenueOrder
          BY DEF BrokerTypeOK
        <4>2. 1 \in 0..MaxVersion
          BY BrokerAssumption
        <4> QED
          BY <4>1, <4>2 DEF VenueOrder
      <3>2. venue' = [venue EXCEPT ![o] = r]
        BY <1>1, <2>2 DEF Received, BrokerTypeOK
      <3>3. pending' = Append(pending, Status(evidence, o, 1)) /\ UNCHANGED <<executions, emitted>>
        BY <1>1, <2>2 DEF Received
      <3>4. evidence \in EventTypes \ {"Execution"}
        BY DEF EventTypes, Closings
      <3> HIDE DEF r
      <3>5. BrokerStepFacts
        BY <3>1, <3>2, <3>3, <3>4, BrokerStatus
      <3> QED
        BY <3>1, <3>2, <3>3, <3>5 DEF Known, BrokerTypeOK
    <2> QED
      BY <2>1, <2>2
  <1>2. CASE UNCHANGED brokerVars
    BY <1>2, BrokerUnchanged DEF brokerVars, Known
  <1> QED
    BY <1>1, <1>2 DEF BrokerSubmit, VenueStates, Closed

LEMMA BrokerCancelStep ==
    ASSUME BrokerTypeOK, IsFiniteSet(executions), Genuine(pending, executions),
           NEW o \in Orders, BrokerCancel(o)
    PROVE  /\ BrokerStepFacts
           /\ executions' = executions
           /\ \A p \in Orders : Known(p)' <=> Known(p)
           /\ \A p \in Orders : "CANCEL" \in venue'[p].asked => "CANCEL" \in venue[p].asked \/ p = o
  <1>1. CASE /\ venue' = [venue EXCEPT ![o].asked = @ \union {"CANCEL"}]
             /\ UNCHANGED <<executions, emitted, pending>>
    <2>1. venue' \in [Orders -> VenueOrder]
      BY <1>1 DEF BrokerTypeOK, VenueOrder
    <2> QED
      BY <1>1, <2>1 DEF BrokerTypeOK, BrokerStepFacts, Known
  <1>2. CASE /\ pending' = Append(pending, Status("CancelRejected", o, 0))
             /\ UNCHANGED <<venue, executions, emitted>>
    <2>1. pending' \in Seq(Event) /\ Genuine(pending', executions)
      BY <1>2, StatusIsNoExecution, GenuineAppend DEF BrokerTypeOK, EventTypes
    <2> QED
      BY <1>2, <2>1 DEF BrokerTypeOK, BrokerStepFacts, Known
  <1>3. CASE UNCHANGED brokerVars
    BY <1>3, BrokerUnchanged DEF brokerVars, Known
  <1> QED
    BY <1>1, <1>2, <1>3 DEF BrokerCancel

LEMMA BrokerReplaceStep ==
    ASSUME BrokerTypeOK, IsFiniteSet(executions), Genuine(pending, executions),
           NEW o \in Orders, BrokerReplace(o)
    PROVE  /\ BrokerStepFacts
           /\ executions' = executions
           /\ \A p \in Orders : Known(p)' <=> Known(p)
           /\ \A p \in Orders : "CANCEL" \in venue'[p].asked => "CANCEL" \in venue[p].asked
  <1>1. venue' \in [Orders -> VenueOrder]
    BY DEF BrokerReplace, BrokerTypeOK, VenueOrder
  <1> QED
    BY <1>1 DEF BrokerReplace, BrokerTypeOK, BrokerStepFacts, Known

(* What a step of the venue may change.                                     *)
VenueStepFacts ==
    /\ BrokerStepFacts
    /\ \A p \in Orders : Known(p)' <=> Known(p)
    /\ \A p \in Orders : "CANCEL" \in venue'[p].asked => "CANCEL" \in venue[p].asked
    /\ \/ executions' = executions
       \/ \E x \in PossibleExecutions : executions' = executions \union {x} /\ Known(x.order)

(* A status event with an update that asks for no new cancellation.         *)
LEMMA VenueStatus ==
    ASSUME BrokerTypeOK, IsFiniteSet(executions), Genuine(pending, executions),
           NEW o \in Orders, NEW r \in VenueOrder,
           r.version > 0 <=> venue[o].version > 0,
           "CANCEL" \in r.asked => "CANCEL" \in venue[o].asked,
           NEW type \in EventTypes \ {"Execution"}, NEW version \in Nat,
           venue' = [venue EXCEPT ![o] = r],
           pending' = Append(pending, Status(type, o, version)),
           UNCHANGED <<executions, emitted>>
    PROVE  VenueStepFacts
  <1>1. BrokerStepFacts
    BY BrokerStatus
  <1> QED
    BY <1>1 DEF VenueStepFacts, Known, BrokerTypeOK

LEMMA VenueExecuteStep ==
    ASSUME BrokerTypeOK, IsFiniteSet(executions), Genuine(pending, executions),
           NEW o \in Orders, NEW n \in 1..Qty[o], VenueExecute(o, n)
    PROVE  VenueStepFacts
  <1> DEFINE x == [order |-> o, first |-> venue[o].filled + 1, qty |-> n,
                   version |-> venue[o].version]
  <1>1. venue[o] \in VenueOrder /\ Qty[o] \in Nat
    BY BrokerAssumption DEF BrokerTypeOK
  <1>2. venue[o].filled \in Nat /\ venue[o].version \in 1..MaxVersion /\ n \in Nat /\ n > 0
    BY <1>1, BrokerAssumption DEF VenueExecute, Known, VenueOrder
  <1>3. x \in PossibleExecutions
    <2>1. venue[o].filled + 1 \in 1..Qty[o] /\ n \in 1..Qty[o]
      BY <1>1, <1>2 DEF VenueExecute
    <2>2. 1..Qty[o] \subseteq Lots
      BY DEF Lots
    <2>3. x.first + x.qty <= Qty[x.order] + 1
      BY <1>1, <1>2 DEF VenueExecute
    <2> QED
      BY <1>2, <2>1, <2>2, <2>3 DEF PossibleExecutions
  <1>4. executions' = executions \union {x} /\ emitted' = emitted /\ pending' = pending
    BY DEF VenueExecute
  <1>5. venue' \in [Orders -> VenueOrder]
    <2>1. venue[o].filled + n \in Nat
      BY <1>2
    <2> QED
      BY <2>1 DEF VenueExecute, BrokerTypeOK, VenueOrder, VenueStates
  <1>6. IsFiniteSet(executions)'
    BY <1>4, FS_AddElement
  <1>7. Genuine(pending, executions)'
    BY <1>4, GenuineMore
  <1>8. /\ \A p \in Orders : Known(p)' <=> Known(p)
        /\ \A p \in Orders : "CANCEL" \in venue'[p].asked => "CANCEL" \in venue[p].asked
    BY DEF VenueExecute, Known, BrokerTypeOK, VenueOrder
  <1>9. Known(x.order)
    BY DEF VenueExecute
  <1> HIDE DEF x
  <1> QED
    BY <1>3, <1>4, <1>5, <1>6, <1>7, <1>8, <1>9 DEF VenueStepFacts, BrokerStepFacts, BrokerTypeOK

LEMMA EmitExecutionStep ==
    ASSUME BrokerTypeOK, IsFiniteSet(executions), Genuine(pending, executions),
           NEW x \in executions, EmitExecution(x)
    PROVE  VenueStepFacts
  <1>1. x \in PossibleExecutions
    BY DEF BrokerTypeOK
  <1>2. pending' \in Seq(Event) /\ Genuine(pending', executions)
    BY <1>1, ReportOfExecution, GenuineAppend DEF EmitExecution, BrokerTypeOK
  <1> QED
    BY <1>2 DEF EmitExecution, BrokerTypeOK, VenueStepFacts, BrokerStepFacts, Known

LEMMA VenueCloseStep ==
    ASSUME BrokerTypeOK, IsFiniteSet(executions), Genuine(pending, executions),
           NEW o \in Orders, NEW type \in Closings, VenueClose(o, type)
    PROVE  VenueStepFacts
  <1> DEFINE r == [venue[o] EXCEPT !.state = ClosingState(type), !.asked = {}]
  <1>1. r \in VenueOrder /\ r.version = venue[o].version /\ r.asked = {}
    <2>1. venue[o] \in VenueOrder
      BY DEF BrokerTypeOK
    <2>2. ClosingState(type) \in VenueStates
      BY DEF Closings, ClosingState, VenueStates, Closed
    <2> QED
      BY <2>1, <2>2 DEF VenueOrder
  <1>2. /\ venue' = [venue EXCEPT ![o] = r]
        /\ pending' = Append(pending, Status(type, o, 0))
        /\ UNCHANGED <<executions, emitted>>
    BY DEF VenueClose, BrokerTypeOK
  <1>3. type \in EventTypes \ {"Execution"}
    BY DEF EventTypes, Closings
  <1> HIDE DEF r
  <1> QED
    BY <1>1, <1>2, <1>3, VenueStatus

LEMMA VenueAnswerStep ==
    ASSUME BrokerTypeOK, IsFiniteSet(executions), Genuine(pending, executions), NEW o \in Orders,
           \/ VenueRejectCancel(o) \/ VenueRejectReplace(o)
           \/ VenueModify(o) \/ VenueReplace(o)
    PROVE  VenueStepFacts
  <1>1. venue[o] \in VenueOrder /\ venue[o].version \in Nat
    BY DEF BrokerTypeOK, VenueOrder
  <1>2. CASE VenueRejectCancel(o)
    <2> DEFINE r == [venue[o] EXCEPT !.asked = venue[o].asked \ {"CANCEL"}]
    <2>1. r \in VenueOrder /\ r.version = venue[o].version /\ r.asked \subseteq venue[o].asked
      BY <1>1 DEF VenueOrder
    <2>2. /\ venue' = [venue EXCEPT ![o] = r]
          /\ pending' = Append(pending, Status("CancelRejected", o, 0))
          /\ UNCHANGED <<executions, emitted>>
      BY <1>2 DEF VenueRejectCancel, BrokerTypeOK
    <2> HIDE DEF r
    <2> QED
      BY <2>1, <2>2, VenueStatus DEF EventTypes
  <1>3. CASE VenueRejectReplace(o)
    <2> DEFINE r == [venue[o] EXCEPT !.asked = venue[o].asked \ {"REPLACE"}]
    <2>1. r \in VenueOrder /\ r.version = venue[o].version /\ r.asked \subseteq venue[o].asked
      BY <1>1 DEF VenueOrder
    <2>2. /\ venue' = [venue EXCEPT ![o] = r]
          /\ pending' = Append(pending, Status("ReplaceRejected", o, 0))
          /\ UNCHANGED <<executions, emitted>>
      BY <1>3 DEF VenueRejectReplace, BrokerTypeOK
    <2> HIDE DEF r
    <2> QED
      BY <2>1, <2>2, VenueStatus DEF EventTypes
  <1>4. CASE VenueModify(o)
    <2> DEFINE r == [venue[o] EXCEPT !.asked = venue[o].asked \union {"REPLACE"}]
    <2>1. /\ r \in VenueOrder /\ r.version = venue[o].version
          /\ "CANCEL" \in r.asked => "CANCEL" \in venue[o].asked
      BY <1>1 DEF VenueOrder
    <2>2. /\ venue' = [venue EXCEPT ![o] = r]
          /\ pending' = Append(pending, Status("ReplaceRequested", o, venue[o].version))
          /\ UNCHANGED <<executions, emitted>>
      BY <1>4 DEF VenueModify, BrokerTypeOK
    <2> HIDE DEF r
    <2> QED
      BY <1>1, <2>1, <2>2, VenueStatus DEF EventTypes
  <1>5. CASE VenueReplace(o)
    <2> DEFINE r == [venue[o] EXCEPT !.version = venue[o].version + 1,
                                     !.asked = venue[o].asked \ {"REPLACE"}]
    <2>1. venue[o].version + 1 \in 0..MaxVersion /\ venue[o].version > 0
      BY <1>1, <1>5, BrokerAssumption DEF VenueReplace, CanBeReplaced, WorkingAtVenue, Known, VenueOrder
    <2>2. /\ r \in VenueOrder /\ r.version = venue[o].version + 1
          /\ r.asked \subseteq venue[o].asked
      BY <1>1, <2>1 DEF VenueOrder
    <2>3. /\ venue' = [venue EXCEPT ![o] = r]
          /\ pending' = Append(pending, Status("Replaced", o, venue[o].version + 1))
          /\ UNCHANGED <<executions, emitted>>
      BY <1>5 DEF VenueReplace, BrokerTypeOK
    <2>4. venue[o].version + 1 \in Nat
      BY <1>1
    <2>5. r.version > 0 <=> venue[o].version > 0
      BY <1>1, <2>1, <2>2
    <2> HIDE DEF r
    <2> QED
      BY <2>2, <2>3, <2>4, <2>5, VenueStatus DEF EventTypes
  <1> QED
    BY <1>2, <1>3, <1>4, <1>5

-----------------------------------------------------------------------------
(* The venue's own account: what it has filled of an order is what it has   *)
(* executed of it, lot after lot, and no more than was asked for; an order   *)
(* it still works is not complete.                                          *)
VenueAccount ==
    /\ \A o \in Orders :
          /\ venue[o].filled = LotsIn(OfOrder(executions, o))
          /\ venue[o].filled <= Qty[o]
          /\ ~Known(o) => venue[o].filled = 0
          /\ WorkingAtVenue(o) => venue[o].filled < Qty[o]
    /\ \A x \in executions : x.first + x.qty <= venue[x.order].filled + 1

(* How the venue moves: fills only grow, an order works again only by an    *)
(* execution, and a closing status is queued when the order does not work.  *)
VenueOrdersMove ==
    /\ VenueAccount'
    /\ executions \subseteq executions'
    /\ \A o \in Orders :
          /\ venue[o].filled <= venue'[o].filled
          /\ Known(o) => Known(o)'
          /\ WorkingAtVenue(o)' =>
                \/ WorkingAtVenue(o)
                \/ ~Known(o)
                \/ \E x \in executions' \ executions : x.order = o

QueueMoves ==
    \/ pending' = pending
    \/ \E e \in Event :
          /\ pending' = Append(pending, e)
          /\ e.type \in Closings => Known(e.order)' /\ ~WorkingAtVenue(e.order)'

LEMMA VenueKeepsStill ==
    ASSUME VenueAccount, BrokerTypeOK, UNCHANGED <<venue, executions>>
    PROVE  VenueOrdersMove
  <1>1. VenueAccount'
    BY DEF VenueAccount, Known, WorkingAtVenue
  <1>2. \A o \in Orders : venue[o].filled \in Nat
    BY DEF BrokerTypeOK, VenueOrder
  <1> QED
    BY <1>1, <1>2 DEF VenueOrdersMove, Known, WorkingAtVenue

(* An update of one venue order that fills nothing.                         *)
LEMMA VenueRecordMoves ==
    ASSUME VenueAccount, BrokerTypeOK, NEW o \in Orders, NEW r \in VenueOrder,
           venue' = [venue EXCEPT ![o] = r], UNCHANGED executions,
           r.filled = venue[o].filled, Known(o) => r.version > 0,
           r.state \in {"ACKNOWLEDGED", "PARTIALLY_FILLED"} => WorkingAtVenue(o) \/ ~Known(o)
    PROVE  /\ VenueOrdersMove
           /\ r.state \notin {"ACKNOWLEDGED", "PARTIALLY_FILLED"} => ~WorkingAtVenue(o)'
  <1>1. venue \in [Orders -> VenueOrder] /\ \A p \in Orders : venue[p].filled \in Nat
    BY DEF BrokerTypeOK, VenueOrder
  <1>2. \A p \in Orders : venue'[p].filled = venue[p].filled /\ (Known(p) => Known(p)')
    BY <1>1 DEF Known
  <1>3. \A x \in executions : x.order \in Orders
    BY DEF BrokerTypeOK, PossibleExecutions
  <1>4. \A p \in Orders : WorkingAtVenue(p)' => WorkingAtVenue(p) \/ ~Known(p)
    BY <1>1 DEF WorkingAtVenue, Known
  <1>5. VenueAccount'
    <2>1. \A p \in Orders : Qty[p] \in Nat /\ Qty[p] > 0
      BY BrokerAssumption
    <2>2. \A p \in Orders : WorkingAtVenue(p)' => venue'[p].filled < Qty[p]
      BY <1>2, <1>4, <2>1 DEF VenueAccount
    <2> QED
      BY <1>2, <1>3, <2>2 DEF VenueAccount
  <1>6. r.state \notin {"ACKNOWLEDGED", "PARTIALLY_FILLED"} => ~WorkingAtVenue(o)'
    BY <1>1 DEF WorkingAtVenue
  <1> QED
    BY <1>1, <1>2, <1>4, <1>5, <1>6 DEF VenueOrdersMove

LEMMA VenueExecuteMoves ==
    ASSUME VenueAccount, BrokerTypeOK, IsFiniteSet(executions),
           NEW o \in Orders, NEW n \in 1..Qty[o], VenueExecute(o, n)
    PROVE  VenueOrdersMove /\ QueueMoves
  <1> DEFINE x == [order |-> o, first |-> venue[o].filled + 1, qty |-> n,
                   version |-> venue[o].version]
  <1>1. /\ venue \in [Orders -> VenueOrder] /\ Qty[o] \in Nat
        /\ \A p \in Orders : venue[p].filled \in Nat /\ venue[p].version \in Nat
    BY BrokerAssumption DEF BrokerTypeOK, VenueOrder
  <1>2. n \in Nat /\ n > 0 /\ venue[o].filled + n <= Qty[o] /\ Known(o)
    BY <1>1 DEF VenueExecute
  <1>3. executions \subseteq Execution /\ \A y \in executions : y.order \in Orders /\ y.qty > 0
    BY PossibleAreExecutions, BrokerAssumption DEF BrokerTypeOK, PossibleExecutions, Lots
  <1>4. x \in Execution /\ x.order = o /\ x.qty = n /\ x.first = venue[o].filled + 1
    BY <1>1, <1>2 DEF Execution
  <1> HIDE DEF x
  <1>5. x \notin executions
    <2>1. ASSUME x \in executions PROVE FALSE
      <3>1. x.first + x.qty <= venue[o].filled + 1
        BY <1>4, <2>1 DEF VenueAccount
      <3> QED
        BY <1>1, <1>2, <1>4, <3>1
    <2> QED
      BY <2>1
  <1>6. /\ executions' = executions \union {x} /\ pending' = pending
        /\ \A p \in Orders : p # o => venue'[p] = venue[p]
        /\ venue'[o].filled = venue[o].filled + n /\ venue'[o].version = venue[o].version
    BY <1>1 DEF VenueExecute, VenueOrder, x
  <1>7. \A p \in Orders :
            LotsIn(OfOrder(executions', p))
              = IF p = o THEN LotsIn(OfOrder(executions, p)) + n ELSE LotsIn(OfOrder(executions, p))
    BY <1>3, <1>4, <1>5, <1>6, LotsOfOrders
  <1>8. \A p \in Orders : Known(p)' <=> Known(p)
    BY <1>6 DEF Known
  <1>9. VenueAccount'
    <2>1. ASSUME NEW p \in Orders
          PROVE  /\ venue'[p].filled = LotsIn(OfOrder(executions', p))
                 /\ venue'[p].filled <= Qty[p]
                 /\ ~Known(p)' => venue'[p].filled = 0
                 /\ WorkingAtVenue(p)' => venue'[p].filled < Qty[p]
      <3>1. CASE p # o
        <4>1. venue'[p] = venue[p] /\ (WorkingAtVenue(p)' => WorkingAtVenue(p))
          BY <1>6, <1>8, <3>1 DEF WorkingAtVenue
        <4> QED
          BY <1>7, <1>8, <3>1, <4>1 DEF VenueAccount
      <3>2. CASE p = o
        <4>1. venue'[o].state = IF venue[o].filled + n = Qty[o] THEN "FILLED" ELSE "PARTIALLY_FILLED"
          BY <1>1 DEF VenueExecute, VenueOrder
        <4>2. WorkingAtVenue(o)' => venue[o].filled + n # Qty[o]
          BY <4>1 DEF WorkingAtVenue
        <4>3. /\ venue'[o].filled = LotsIn(OfOrder(executions', o))
              /\ venue'[o].filled <= Qty[o] /\ Known(o)'
          BY <1>2, <1>6, <1>7, <1>8 DEF VenueAccount
        <4>4. WorkingAtVenue(o)' => venue'[o].filled < Qty[o]
          BY <1>1, <1>2, <1>6, <4>2
        <4> QED
          BY <3>2, <4>3, <4>4
      <3> QED
        BY <3>1, <3>2
    <2>2. ASSUME NEW y \in executions'
          PROVE  y.first + y.qty <= venue'[y.order].filled + 1
      <3>1. CASE y = x
        BY <1>1, <1>2, <1>4, <1>6, <3>1
      <3>2. CASE y \in executions
        <4>1. y.first + y.qty <= venue[y.order].filled + 1 /\ y \in Execution
          BY <1>3, <3>2 DEF VenueAccount
        <4>2. venue[y.order].filled <= venue'[y.order].filled
          BY <1>1, <1>2, <1>3, <1>6, <3>2
        <4>3. /\ y.first + y.qty \in Nat /\ venue[y.order].filled \in Nat
              /\ venue'[y.order].filled \in Nat
          BY <1>1, <1>2, <1>3, <1>6, <3>2, <4>1 DEF Execution
        <4> QED
          BY <4>1, <4>2, <4>3
      <3> QED
        BY <1>6, <3>1, <3>2
    <2> QED
      BY <2>1, <2>2 DEF VenueAccount
  <1>10. \A p \in Orders : venue[p].filled <= venue'[p].filled
    BY <1>1, <1>2, <1>6
  <1>11. \A p \in Orders : WorkingAtVenue(p)' => WorkingAtVenue(p) \/ p = o
    BY <1>6, <1>8 DEF WorkingAtVenue
  <1> QED
    BY <1>4, <1>5, <1>6, <1>8, <1>9, <1>10, <1>11 DEF VenueOrdersMove, QueueMoves

LEMMA EmitMoves ==
    ASSUME VenueAccount, BrokerTypeOK, NEW x \in executions, EmitExecution(x)
    PROVE  VenueOrdersMove /\ QueueMoves
  <1>1. VenueOrdersMove
    BY VenueKeepsStill DEF EmitExecution
  <1>2. Report(x) \in Event /\ Report(x).type \notin Closings
    BY ReportOfExecution DEF BrokerTypeOK, Report, Closings
  <1> QED
    BY <1>1, <1>2 DEF EmitExecution, QueueMoves

LEMMA VenueCloseMoves ==
    ASSUME VenueAccount, BrokerTypeOK, NEW o \in Orders, NEW type \in Closings,
           VenueClose(o, type)
    PROVE  VenueOrdersMove /\ QueueMoves
  <1> DEFINE r == [venue[o] EXCEPT !.state = ClosingState(type), !.asked = {}]
  <1>1. /\ r \in VenueOrder /\ r.version = venue[o].version /\ r.filled = venue[o].filled
        /\ r.state \notin {"ACKNOWLEDGED", "PARTIALLY_FILLED"}
    <2>1. venue[o] \in VenueOrder
      BY DEF BrokerTypeOK
    <2>2. /\ ClosingState(type) \in VenueStates
          /\ ClosingState(type) \notin {"ACKNOWLEDGED", "PARTIALLY_FILLED"}
      BY DEF Closings, ClosingState, VenueStates, Closed
    <2> QED
      BY <2>1, <2>2 DEF VenueOrder
  <1>2. /\ venue' = [venue EXCEPT ![o] = r] /\ UNCHANGED executions
        /\ pending' = Append(pending, Status(type, o, 0)) /\ Known(o)
    BY DEF VenueClose, BrokerTypeOK, WorkingAtVenue
  <1>3. Status(type, o, 0) \in Event /\ Status(type, o, 0).order = o
    BY StatusIsNoExecution DEF EventTypes, Closings, Status
  <1> HIDE DEF r
  <1>4. VenueOrdersMove /\ ~WorkingAtVenue(o)'
    BY <1>1, <1>2, VenueRecordMoves DEF Known
  <1>5. Known(o)'
    BY <1>2, <1>4 DEF VenueOrdersMove
  <1> QED
    BY <1>2, <1>3, <1>4, <1>5 DEF QueueMoves

LEMMA VenueAnswerMoves ==
    ASSUME VenueAccount, BrokerTypeOK, NEW o \in Orders,
           \/ VenueRejectCancel(o) \/ VenueRejectReplace(o)
           \/ VenueModify(o) \/ VenueReplace(o)
    PROVE  VenueOrdersMove /\ QueueMoves
  <1> DEFINE r == venue'[o]
  <1>1. venue[o] \in VenueOrder /\ venue \in [Orders -> VenueOrder]
    BY DEF BrokerTypeOK
  <1>2. PICK type \in EventTypes \ Closings, version \in Nat :
            /\ type # "Execution"
            /\ pending' = Append(pending, Status(type, o, version))
            /\ UNCHANGED executions
    <2>1. {"CancelRejected", "ReplaceRejected", "ReplaceRequested", "Replaced"}
             \subseteq EventTypes \ Closings
      BY DEF EventTypes, Closings
    <2>2. venue[o].version \in Nat /\ venue[o].version + 1 \in Nat
      BY <1>1 DEF VenueOrder
    <2> QED
      BY <2>1, <2>2 DEF VenueRejectCancel, VenueRejectReplace, VenueModify, VenueReplace
  <1>3. venue' = [venue EXCEPT ![o] = r]
    BY <1>1 DEF VenueRejectCancel, VenueRejectReplace, VenueModify, VenueReplace
  <1>4. /\ r.filled = venue[o].filled /\ r.state = venue[o].state
        /\ r.version >= venue[o].version /\ r.version \in Nat
        /\ r.version > 0 => venue[o].version > 0
        /\ r \in VenueOrder
    <2>1. CASE VenueRejectCancel(o)
      BY <1>1, <2>1 DEF VenueRejectCancel, VenueOrder
    <2>2. CASE VenueRejectReplace(o)
      BY <1>1, <2>2 DEF VenueRejectReplace, VenueOrder
    <2>3. CASE VenueModify(o)
      BY <1>1, <2>3 DEF VenueModify, VenueOrder
    <2>4. CASE VenueReplace(o)
      BY <1>1, <2>4, BrokerAssumption
      DEF VenueReplace, VenueOrder, CanBeReplaced, WorkingAtVenue, Known
    <2> QED
      BY <2>1, <2>2, <2>3, <2>4
  <1> HIDE DEF r
  <1>5. VenueOrdersMove
    <2>1. Known(o) => r.version > 0
      BY <1>1, <1>4 DEF Known, VenueOrder
    <2>2. r.state \in {"ACKNOWLEDGED", "PARTIALLY_FILLED"} => WorkingAtVenue(o) \/ ~Known(o)
      BY <1>4 DEF WorkingAtVenue
    <2> QED
      BY <1>2, <1>3, <1>4, <2>1, <2>2, VenueRecordMoves
  <1>6. Status(type, o, version) \in Event /\ Status(type, o, version).type = type
    BY <1>2, StatusIsNoExecution DEF Status
  <1> QED
    BY <1>2, <1>5, <1>6 DEF QueueMoves

LEMMA SubmitMoves ==
    ASSUME VenueAccount, BrokerTypeOK, NEW o \in Orders, NEW answer \in SubmitAnswers,
           BrokerSubmit(o, answer), ~Known(o)
    PROVE  /\ VenueOrdersMove /\ QueueMoves
           /\ answer = "REJECTED" => ~WorkingAtVenue(o)'
           /\ \A p \in Orders \ {o} : ~Known(p) => ~Known(p)'
  <1>1. ASSUME NEW state \in VenueStates, NEW evidence \in {"Acknowledged", "Rejected"},
               Received(o, state, evidence), evidence = "Rejected" => state = "REJECTED"
        PROVE  /\ VenueOrdersMove /\ QueueMoves
               /\ state = "REJECTED" => ~WorkingAtVenue(o)'
               /\ \A p \in Orders \ {o} : ~Known(p) => ~Known(p)'
    <2> DEFINE r == [venue[o] EXCEPT !.version = 1, !.state = state]
    <2>1. venue[o] \in VenueOrder /\ venue \in [Orders -> VenueOrder]
      BY DEF BrokerTypeOK
    <2>2. 1 \in 0..MaxVersion
      BY BrokerAssumption
    <2>3. r \in VenueOrder /\ r.filled = venue[o].filled /\ r.version > 0 /\ r.state = state
      <3>1. r \in VenueOrder
        BY <2>1, <2>2 DEF VenueOrder
      <3>2. r.filled = venue[o].filled /\ r.version = 1 /\ r.state = state
        BY <2>1 DEF VenueOrder
      <3> QED
        BY <3>1, <3>2
    <2>4. /\ venue' = [venue EXCEPT ![o] = r] /\ UNCHANGED executions
          /\ pending' = Append(pending, Status(evidence, o, 1))
      BY <1>1, <2>1 DEF Received
    <2> HIDE DEF r
    <2>5. /\ VenueOrdersMove
          /\ r.state \notin {"ACKNOWLEDGED", "PARTIALLY_FILLED"} => ~WorkingAtVenue(o)'
      BY <2>3, <2>4, VenueRecordMoves
    <2>6. /\ Status(evidence, o, 1) \in Event
          /\ Status(evidence, o, 1).type = evidence /\ Status(evidence, o, 1).order = o
      BY StatusIsNoExecution DEF EventTypes, Closings, Status
    <2>7. Known(o)' /\ \A p \in Orders \ {o} : ~Known(p) => ~Known(p)'
      BY <2>1, <2>3, <2>4 DEF Known
    <2>8. evidence \in Closings => state = "REJECTED"
      BY <1>1 DEF Closings
    <2> QED
      BY <2>3, <2>4, <2>5, <2>6, <2>7, <2>8 DEF QueueMoves
  <1>2. CASE answer # "REJECTED" /\ Received(o, "ACKNOWLEDGED", "Acknowledged")
    BY <1>1, <1>2 DEF VenueStates
  <1>3. CASE answer = "REJECTED" /\ Received(o, "REJECTED", "Rejected")
    BY <1>1, <1>3 DEF VenueStates, Closed
  <1>4. CASE UNCHANGED brokerVars
    BY <1>4, VenueKeepsStill DEF brokerVars, QueueMoves, WorkingAtVenue, Known
  <1> QED
    BY <1>2, <1>3, <1>4 DEF BrokerSubmit

LEMMA RequestMoves ==
    ASSUME VenueAccount, BrokerTypeOK, NEW o \in Orders, BrokerCancel(o) \/ BrokerReplace(o)
    PROVE  VenueOrdersMove /\ QueueMoves
  <1>1. venue[o] \in VenueOrder /\ venue \in [Orders -> VenueOrder]
    BY DEF BrokerTypeOK
  <1>2. ASSUME NEW request \in {"CANCEL", "REPLACE"},
               venue' = [venue EXCEPT ![o].asked = @ \union {request}],
               UNCHANGED <<executions, pending>>
        PROVE  VenueOrdersMove /\ QueueMoves
    <2> DEFINE r == [venue[o] EXCEPT !.asked = venue[o].asked \union {request}]
    <2>1. /\ r \in VenueOrder /\ r.filled = venue[o].filled
          /\ r.version = venue[o].version /\ r.state = venue[o].state
      BY <1>1 DEF VenueOrder
    <2>2. venue' = [venue EXCEPT ![o] = r]
      BY <1>1, <1>2
    <2> HIDE DEF r
    <2>3. VenueOrdersMove
      BY <1>2, <2>1, <2>2, VenueRecordMoves DEF Known, WorkingAtVenue
    <2> QED
      BY <1>2, <2>3 DEF QueueMoves
  <1>3. CASE /\ venue' = [venue EXCEPT ![o].asked = @ \union {"CANCEL"}]
             /\ UNCHANGED <<executions, emitted, pending>>
    BY <1>2, <1>3
  <1>4. CASE BrokerReplace(o)
    BY <1>2, <1>4 DEF BrokerReplace
  <1>5. CASE /\ pending' = Append(pending, Status("CancelRejected", o, 0))
             /\ UNCHANGED <<venue, executions, emitted>>
    <2>1. /\ Status("CancelRejected", o, 0) \in Event
          /\ Status("CancelRejected", o, 0).type \notin Closings
      BY StatusIsNoExecution DEF EventTypes, Closings, Status
    <2> QED
      BY <1>5, <2>1, VenueKeepsStill DEF QueueMoves
  <1>6. CASE UNCHANGED brokerVars
    BY <1>6, VenueKeepsStill DEF brokerVars, QueueMoves
  <1> QED
    BY <1>3, <1>4, <1>5, <1>6 DEF BrokerCancel

-----------------------------------------------------------------------------
(* A closing status in the queue is never ahead of the venue: the order it  *)
(* names is known there, and works again only by an execution that is still *)
(* to be applied and is not reported earlier in the queue.                  *)
Unreported(queue, i, x) ==
    \A j \in 1..(i - 1) : ~(IsExecution(queue[j]) /\ ExecutionOf(queue[j]) = x)

ClosingsHold(queue, unapplied, known, open) ==
    \A i \in 1..Len(queue) :
        queue[i].type \in Closings =>
            /\ queue[i].order \in known
            /\ queue[i].order \in open =>
                  \E x \in unapplied : x.order = queue[i].order /\ Unreported(queue, i, x)

LEMMA ClosingsAppend ==
    ASSUME NEW queue \in Seq(Event), NEW e \in Event, NEW unapplied, NEW known, NEW open,
           ClosingsHold(queue, unapplied, known, open),
           e.type \in Closings => e.order \in known /\ e.order \notin open
    PROVE  ClosingsHold(Append(queue, e), unapplied, known, open)
  <1> DEFINE longer == Append(queue, e)
  <1>1. /\ Len(longer) = Len(queue) + 1 /\ longer[Len(queue) + 1] = e /\ Len(queue) \in Nat
        /\ \A i \in 1..Len(queue) : longer[i] = queue[i]
    OBVIOUS
  <1> HIDE DEF longer
  <1>2. ASSUME NEW i \in 1..Len(longer), longer[i].type \in Closings
        PROVE  /\ longer[i].order \in known
               /\ longer[i].order \in open =>
                     \E x \in unapplied : x.order = longer[i].order /\ Unreported(longer, i, x)
    <2>1. CASE i = Len(queue) + 1
      BY <1>1, <1>2, <2>1
    <2>2. CASE i \in 1..Len(queue)
      <3>1. \A j \in 1..(i - 1) : longer[j] = queue[j]
        BY <1>1, <2>2
      <3>2. \A x : Unreported(queue, i, x) => Unreported(longer, i, x)
        BY <3>1 DEF Unreported
      <3> QED
        BY <1>1, <1>2, <2>2, <3>2 DEF ClosingsHold
    <2> QED
      BY <1>1, <2>1, <2>2
  <1> QED
    BY <1>2 DEF ClosingsHold, longer

(* The venue goes on: an order that works again does so by an execution     *)
(* nothing in the queue reports.                                            *)
LEMMA ClosingsWhileVenueMoves ==
    ASSUME NEW queue \in Seq(Event), NEW unapplied, NEW known, NEW open,
           NEW unapplied2, NEW known2, NEW open2,
           ClosingsHold(queue, unapplied, known, open),
           unapplied \subseteq unapplied2, known \subseteq known2,
           \A o \in known \intersect open2 :
              \/ o \in open
              \/ \E x \in unapplied2 :
                    x.order = o /\ \A j \in 1..Len(queue) : Unreported(queue, j, x)
    PROVE  ClosingsHold(queue, unapplied2, known2, open2)
  <1>1. ASSUME NEW i \in 1..Len(queue), queue[i].type \in Closings
        PROVE  /\ queue[i].order \in known2
               /\ queue[i].order \in open2 =>
                     \E x \in unapplied2 : x.order = queue[i].order /\ Unreported(queue, i, x)
    BY <1>1 DEF ClosingsHold
  <1> QED
    BY <1>1 DEF ClosingsHold

(* The first event is taken out, and applied if it is an execution.         *)
LEMMA ClosingsTail ==
    ASSUME NEW queue \in Seq(Event), queue # <<>>, NEW unapplied, NEW known, NEW open,
           ClosingsHold(queue, unapplied, known, open), NEW left,
           \A x \in unapplied :
              x \in left \/ (IsExecution(queue[1]) /\ ExecutionOf(queue[1]) = x)
    PROVE  ClosingsHold(Tail(queue), left, known, open)
  <1> DEFINE rest == Tail(queue)
  <1>1. /\ Len(queue) \in Nat /\ Len(queue) >= 1 /\ Len(rest) = Len(queue) - 1
        /\ \A i \in 1..Len(rest) : rest[i] = queue[i + 1] /\ i + 1 \in 1..Len(queue)
    OBVIOUS
  <1> HIDE DEF rest
  <1>2. ASSUME NEW i \in 1..Len(rest), rest[i].type \in Closings
        PROVE  /\ rest[i].order \in known
               /\ rest[i].order \in open =>
                     \E x \in left : x.order = rest[i].order /\ Unreported(rest, i, x)
    <2>1. /\ rest[i] = queue[i + 1] /\ i + 1 \in 1..Len(queue)
          /\ queue[i + 1].type \in Closings /\ i \in Nat /\ i >= 1
      BY <1>1, <1>2
    <2>2. ASSUME NEW x, Unreported(queue, i + 1, x)
          PROVE  /\ Unreported(rest, i, x)
                 /\ ~(IsExecution(queue[1]) /\ ExecutionOf(queue[1]) = x)
      <3>1. \A j \in 1..i : ~(IsExecution(queue[j]) /\ ExecutionOf(queue[j]) = x)
        BY <2>1, <2>2 DEF Unreported
      <3>2. \A j \in 1..(i - 1) : rest[j] = queue[j + 1] /\ j + 1 \in 1..i
        BY <1>1, <2>1
      <3>3. 1 \in 1..i
        BY <2>1
      <3> QED
        BY <3>1, <3>2, <3>3 DEF Unreported
    <2> QED
      BY <2>1, <2>2 DEF ClosingsHold
  <1> QED
    BY <1>2 DEF ClosingsHold, rest

(* The first events are lost.                                               *)
LEMMA ClosingsSuffix ==
    ASSUME NEW first \in Seq(Event), NEW queue \in Seq(Event),
           NEW unapplied, NEW known, NEW open,
           ClosingsHold(first \o queue, unapplied, known, open), NEW left,
           \A x \in unapplied :
              \/ x \in left
              \/ \E i \in 1..Len(first) : IsExecution(first[i]) /\ ExecutionOf(first[i]) = x
    PROVE  ClosingsHold(queue, left, known, open)
  <1> DEFINE whole == first \o queue
  <1> DEFINE n == Len(first)
  <1>1. /\ n \in Nat /\ Len(queue) \in Nat /\ Len(whole) = n + Len(queue)
        /\ \A i \in 1..Len(queue) : whole[n + i] = queue[i] /\ n + i \in 1..Len(whole)
        /\ \A i \in 1..n : whole[i] = first[i]
    OBVIOUS
  <1> HIDE DEF whole, n
  <1>2. ASSUME NEW i \in 1..Len(queue), queue[i].type \in Closings
        PROVE  /\ queue[i].order \in known
               /\ queue[i].order \in open =>
                     \E x \in left : x.order = queue[i].order /\ Unreported(queue, i, x)
    <2>1. /\ whole[n + i] = queue[i] /\ n + i \in 1..Len(whole)
          /\ whole[n + i].type \in Closings /\ i \in Nat /\ i >= 1
      BY <1>1, <1>2
    <2>2. ASSUME NEW x, Unreported(whole, n + i, x)
          PROVE  /\ Unreported(queue, i, x)
                 /\ \A j \in 1..n : ~(IsExecution(first[j]) /\ ExecutionOf(first[j]) = x)
      <3>1. \A j \in 1..(n + i - 1) : ~(IsExecution(whole[j]) /\ ExecutionOf(whole[j]) = x)
        BY <1>1, <2>1, <2>2 DEF Unreported
      <3>2. \A j \in 1..(i - 1) : whole[n + j] = queue[j] /\ n + j \in 1..(n + i - 1)
        BY <1>1, <2>1
      <3>3. \A j \in 1..n : whole[j] = first[j] /\ j \in 1..(n + i - 1)
        BY <1>1, <2>1
      <3> QED
        BY <3>1, <3>2, <3>3 DEF Unreported
    <2>3. ClosingsHold(whole, unapplied, known, open)
      BY DEF whole
    <2>4. /\ queue[i].order \in known
          /\ queue[i].order \in open =>
                \E x \in unapplied : x.order = queue[i].order /\ Unreported(whole, n + i, x)
      BY <2>1, <2>3 DEF ClosingsHold
    <2> QED
      BY <2>2, <2>4 DEF n
  <1> QED
    BY <1>2 DEF ClosingsHold

-----------------------------------------------------------------------------
(* Some of the executions of an order fill at most what all of them fill,   *)
(* and less when one is missing.                                            *)
LEMMA FilledBehind ==
    ASSUME NEW made, IsFiniteSet(made), made \subseteq PossibleExecutions, NEW o,
           NEW applied \in SUBSET made
    PROVE  /\ LotsIn(OfOrder(applied, o)) <= LotsIn(OfOrder(made, o))
           /\ LotsIn(OfOrder(applied, o)) \in Nat /\ LotsIn(OfOrder(made, o)) \in Nat
           /\ \A x \in made \ applied :
                 x.order = o => LotsIn(OfOrder(applied, o)) < LotsIn(OfOrder(made, o))
  <1>1. /\ made \subseteq Execution
        /\ \A x \in made : x.qty \in Nat /\ x.qty > 0
    BY PossibleAreExecutions, BrokerAssumption DEF PossibleExecutions, Lots
  <1>2. ASSUME NEW some \in SUBSET made
        PROVE  /\ LotsIn(OfOrder(some, o)) <= LotsIn(OfOrder(made, o))
               /\ LotsIn(OfOrder(some, o)) \in Nat
               /\ IsFiniteSet(OfOrder(some, o)) /\ OfOrder(some, o) \subseteq Execution
    <2> DEFINE all == OfOrder(made, o)
    <2> DEFINE part == OfOrder(some, o)
    <2> DEFINE f == [y \in all |-> y.qty]
    <2> DEFINE g == [y \in part |-> y.qty]
    <2>1. /\ part \subseteq all /\ all \subseteq made
          /\ \A y \in all : f[y] = y.qty /\ f[y] \in Nat
          /\ \A y \in part : g[y] = f[y] /\ g[y] \in Int
      BY <1>1 DEF OfOrder
    <2>2. LotsIn(all) = SumOf(f, all) /\ LotsIn(part) = SumOf(g, part)
      BY LotsSum
    <2>3. IsFiniteSet(all) /\ IsFiniteSet(part)
      BY <2>1, FS_Subset
    <2> HIDE DEF all, part, f, g
    <2>4. SumOf(g, part) = SumOf(f, part)
      BY <2>1, <2>3, SumSame
    <2>5. SumOf(f, part) <= SumOf(f, all)
      BY <2>1, <2>3, SumOfSome
    <2>6. part \subseteq Execution
      BY <1>1, <2>1
    <2>7. LotsIn(part) \in Nat
      BY <2>3, <2>6, LotsWith
    <2> QED
      BY <2>2, <2>3, <2>4, <2>5, <2>6, <2>7 DEF all, part
  <1>3. ASSUME NEW x \in made \ applied, x.order = o
        PROVE  LotsIn(OfOrder(applied, o)) < LotsIn(OfOrder(made, o))
    <2>1. OfOrder(applied \union {x}, o) = OfOrder(applied, o) \union {x}
      BY <1>3 DEF OfOrder
    <2>2. x \in Execution \ OfOrder(applied, o)
      BY <1>1 DEF OfOrder
    <2>3. LotsIn(OfOrder(applied \union {x}, o)) = LotsIn(OfOrder(applied, o)) + x.qty
      BY <1>2, <2>1, <2>2, LotsWith
    <2>4. LotsIn(OfOrder(applied \union {x}, o)) <= LotsIn(OfOrder(made, o))
      BY <1>2
    <2> QED
      BY <1>1, <1>2, <2>3, <2>4
  <1> QED
    BY <1>2, <1>3
-----------------------------------------------------------------------------
(* How far an order's record can be from the venue's.  One that is closed   *)
(* while the venue works the order has an execution still to come.          *)
OpenAt(v, o) == v[o].version > 0 /\ v[o].state \in {"ACKNOWLEDGED", "PARTIALLY_FILLED"}

Behind(state, v) ==
    \A o \in Orders :
        /\ state.orders[o].state = "FILLED" => state.orders[o].filled = Qty[o]
        /\ state.orders[o].state \in Closed /\ OpenAt(v, o)
              => state.orders[o].filled < v[o].filled

Noted(state, v, surfaced) ==
    \A o \in Orders :
        state.orders[o].state \in Closed /\ state.orders[o].filled < v[o].filled
            => o \in surfaced

(* What one operation may do to an order's record, given the venue's.       *)
Follows(from, to, quantity, held) ==
    \/ to.state = from.state /\ to.filled = from.filled
    \/ from.state \in Working /\ to.state \in Working /\ to.filled = from.filled
    \/ /\ from.state \in Working /\ to.state \in Closed /\ to.filled = from.filled
       /\ held.version > 0 /\ held.state \in {"ACKNOWLEDGED", "PARTIALLY_FILLED"}
             => from.filled < held.filled
    \/ /\ from.state \in Working \/ (from.state \in Closed /\ from.filled < held.filled)
       /\ to.state \in Working \/ (to.state = "FILLED" /\ to.filled = quantity)

LEMMA StatesApart ==
    /\ "FILLED" \notin Working /\ "FILLED" \notin Closed /\ "NONE" \notin Working
    /\ \A s \in Closed : s \notin Working
    /\ \A s \in StoredStates : s \in Working \/ s \in Closed \/ s = "FILLED"
    /\ {"PENDING_SUBMIT", "ACKNOWLEDGED", "PARTIALLY_FILLED", "PENDING_CANCEL",
        "PENDING_REPLACE", "UNKNOWN"} \subseteq Working
    /\ Revisable \subseteq Working
  BY DEF Working, StoredStates, Terminal, Closed, Revisable

LEMMA FollowsKeepsBehind ==
    ASSUME NEW state, NEW next, NEW v, Behind(state, v),
           \A o \in Orders : Follows(state.orders[o], next.orders[o], Qty[o], v[o])
    PROVE  Behind(next, v)
  BY StatesApart DEF Behind, Follows, OpenAt

LEMMA ResolveFollows ==
    ASSUME NEW order \in OrderRecord, NEW e \in Event, NEW quantity \in Nat, NEW held,
           Accepts(order, e, quantity),
           order.state = "FILLED" => order.filled = quantity,
           IsExecution(e) => e.qty > 0 /\ order.filled < held.filled,
           e.type \in Closings =>
              (held.version > 0 /\ held.state \in {"ACKNOWLEDGED", "PARTIALLY_FILLED"}
                  => order.filled < held.filled)
    PROVE  Follows(order, Resolve(order, e, quantity), quantity, held)
  <1> USE DEF OrderRecord, Event
  <1>1. /\ order.state \in Working \union Closed \union {"FILLED"}
        /\ order.state \in Terminal <=> order.state \notin Working
    BY StatesApart DEF Accepts, Working, Terminal
  <1> DEFINE result == Resolve(order, e, quantity)
  <1>2. ~IsExecution(e) => result.filled = order.filled
    BY ResolveFills
  <1>3. \A filled : WorkingState(filled) \in Working
    BY StatesApart DEF WorkingState
  <1>4. Restored(order).state \in Working
    BY <1>3, StatesApart DEF Restored, Revisable
  <1>5. CASE e.type = "Acknowledged"
    <2>1. result.state = order.state \/ (order.state \in Working /\ result.state \in Working)
      BY <1>1, <1>5, StatesApart DEF Resolve, AfterAcknowledge, WithVersion, Acknowledge
    <2> QED
      BY <1>2, <1>5, <2>1 DEF Follows, IsExecution
  <1>6. CASE e.type = "Execution"
    <2>1. /\ order.filled + e.qty <= quantity /\ e.qty > 0 /\ order.filled < held.filled
          /\ order.state \in Working \union Closed
      BY <1>1, <1>6 DEF Accepts, CanExecute, IsExecution
    <2>2. /\ result.state = ExecutedState(order.state, order.filled + e.qty = quantity)
          /\ result.filled = order.filled + e.qty
      BY <1>6 DEF Resolve, AfterExecute, WithVersion
    <2>3. CASE order.filled + e.qty = quantity
      <3>1. result.state = "FILLED" /\ result.filled = quantity
        BY <2>2, <2>3 DEF ExecutedState
      <3> QED
        BY <2>1, <3>1 DEF Follows
    <2>4. CASE order.filled + e.qty # quantity
      <3>1. result.state \in Working
        BY <2>1, <2>2, <2>4, StatesApart DEF ExecutedState, Acknowledge
      <3> QED
        BY <2>1, <3>1 DEF Follows
    <2> QED
      BY <2>3, <2>4
  <1>7. CASE e.type = "CancelRejected"
    <2>1. result.state = order.state \/ (order.state \in Working /\ result.state \in Working)
      BY <1>1, <1>3, <1>7 DEF Resolve, AfterRejectCancel
    <2> QED
      BY <1>2, <1>7, <2>1 DEF Follows, IsExecution
  <1>8. CASE e.type = "ReplaceRequested"
    <2>1. result.state = order.state \/ (order.state \in Working /\ result.state \in Working)
      BY <1>8, StatesApart DEF Resolve, AfterRequestReplace, PendingReplacement
    <2> QED
      BY <1>2, <1>8, <2>1 DEF Follows, IsExecution
  <1>9. CASE e.type = "Replaced"
    <2>1. result.state = order.state \/ (order.state \in Working /\ result.state \in Working)
      BY <1>3, <1>9, StatesApart DEF Resolve, AfterReplace, Restored, Revisable
    <2> QED
      BY <1>2, <1>9, <2>1 DEF Follows, IsExecution
  <1>10. CASE e.type = "ReplaceRejected"
    <2>1. result.state = order.state \/ (order.state \in Working /\ result.state \in Working)
      BY <1>1, <1>4, <1>10 DEF Resolve, AfterRejectReplace
    <2> QED
      BY <1>2, <1>10, <2>1 DEF Follows, IsExecution
  <1>11. CASE e.type \in Closings
    <2>1. ClosingState(e.type) \in Closed
      BY <1>11 DEF Closings, ClosingState, Closed
    <2>2. result = AfterClose(order, ClosingState(e.type))
      BY <1>11 DEF Closings, Resolve
    <2>3. \/ result.state = order.state
          \/ order.state \in Working /\ result.state \in Closed
      BY <1>1, <2>1, <2>2 DEF AfterClose
    <2>4. ~IsExecution(e)
      BY <1>11 DEF Closings, IsExecution
    <2> QED
      BY <1>2, <1>11, <2>3, <2>4 DEF Follows
  <1> QED
    BY <1>5, <1>6, <1>7, <1>8, <1>9, <1>10, <1>11 DEF EventTypes

LEMMA ConcatAppend ==
    ASSUME NEW s \in Seq(Event), NEW t \in Seq(Event), NEW e \in Event
    PROVE  s \o Append(t, e) = Append(s \o t, e)
  <1> DEFINE left == s \o Append(t, e)
  <1> DEFINE right == Append(s \o t, e)
  <1>1. left \in Seq(Event) /\ right \in Seq(Event) /\ Len(left) = Len(right)
    OBVIOUS
  <1>2. \A i \in 1..Len(left) : left[i] = right[i]
    OBVIOUS
  <1> HIDE DEF left, right
  <1>3. left = right
    BY <1>1, <1>2
  <1> QED
    BY <1>3 DEF left, right

-----------------------------------------------------------------------------
(* What is left of some orders, given what is filled of each.               *)
Unfilled(held) == [o \in Orders |-> Qty[o] - held[o].filled]
UnfilledIn(held, S) == MapThenSumSet(LAMBDA o : Qty[o] - held[o].filled, S)

LEMMA UnfilledSum ==
    ASSUME NEW held, NEW S \in SUBSET Orders
    PROVE  UnfilledIn(held, S) = SumOf(Unfilled(held), S)
  <1> DEFINE f == Unfilled(held)
  <1> DEFINE Q(g) ==
          g = [s \in SUBSET S |-> IF s = {} THEN 0
                  ELSE Qty[Chosen(s)] - held[Chosen(s)].filled + g[s \ {Chosen(s)}]]
  <1>1. UnfilledIn(held, S) = (CHOOSE g : Q(g))[S]
    BY DEF UnfilledIn, MapThenSumSet, MapThenFoldSet, Chosen
  <1>2. ASSUME NEW g
        PROVE  Q(g) <=> Summing(g, f, S)
    <2>1. \A s \in SUBSET S : s # {} => f[Chosen(s)] = Qty[Chosen(s)] - held[Chosen(s)].filled
      BY DEF Chosen, Unfilled
    <2> HIDE DEF f
    <2> QED
      BY <2>1 DEF Summing
  <1> HIDE DEF Q
  <1>3. (CHOOSE g : Q(g)) = (CHOOSE g : Summing(g, f, S))
    BY <1>2
  <1> QED
    BY <1>1, <1>3, SumDefinition
=============================================================================

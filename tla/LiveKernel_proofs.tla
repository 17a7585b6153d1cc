-------------------------- MODULE LiveKernel_proofs --------------------------
(***************************************************************************)
(* Theorems about LiveKernel, for any number of orders and approvals, any   *)
(* quantities, limits and bounds, and any set of faults.                    *)
(*                                                                         *)
(* The argument rests on one inductive invariant, Inv: the types, what the  *)
(* stage of the running operation says of its order (StageInv), that the    *)
(* journal is behind memory only after a failed append (JournalInv), that   *)
(* what was sent is booked (SentInv), that every record of memory and       *)
(* journal keeps the mandate (MandateInv), and that all evidence of an      *)
(* execution is of one the venue made (EvidenceInv).                        *)
(* The last part adds the invariants that the capital ceiling needs.        *)
(***************************************************************************)
EXTENDS LiveKernel, PaperBroker_proofs

-----------------------------------------------------------------------------
(* The inductive invariant.                                                 *)

TypeInv == TypeOK /\ IsFiniteSet(executions)

OrderStages == {"submitting", "submitted", "cancelling", "replacing", "sent", "failed"}

(* What the running operation `c` knows of its order in `state`.            *)
Fits(c, state) ==
    /\ c.at \in OrderStages => c.order \in Orders /\ c.order \in BookedOrders(state)
    /\ c.at \in {"submitting", "submitted"} => state.orders[c.order].state = "PENDING_SUBMIT"
    /\ c.at = "submitted" => c.answer \in SubmitAnswers
    /\ c.at = "cancelling" => state.orders[c.order].state = "PENDING_CANCEL"
    /\ c.at = "replacing" => state.orders[c.order].state = "PENDING_REPLACE"
    /\ c.at \in {"sent", "failed"} => state.orders[c.order].state \in Working
    /\ c.at # "draining" => c.events = <<>>

StageInv == Fits(call, live) /\ (call.at = "submitting" => submits[call.order] = 0)

JournalInv ==
    /\ healthy => disk = live
    /\ ~healthy => call = Idle /\ ~connected

SentInv ==
    /\ BookedOrders(disk) \subseteq BookedOrders(live)
    /\ \A o \in Orders :
          /\ submits[o] <= 1
          /\ submits[o] > 0 => o \in BookedOrders(disk)
          /\ Known(o) => submits[o] > 0

WithinMandate(state) ==
    MandateKept(state) /\ IsFiniteSet(BookedOrders(state)) /\ state.canary <= CanaryMaxOrders

MandateInv == WithinMandate(live) /\ WithinMandate(disk)

EvidenceInv ==
    /\ live.applied \subseteq executions
    /\ disk.applied \subseteq executions
    /\ Genuine(pending, executions)
    /\ Genuine(call.events, executions)

Inv == TypeInv /\ StageInv /\ JournalInv /\ SentInv /\ MandateInv /\ EvidenceInv

-----------------------------------------------------------------------------
(* What the mandate consists of, and a step that leaves it alone.           *)
SameMandate(state, next) ==
    /\ BookedOrders(next) = BookedOrders(state)
    /\ next.usedApproval = state.usedApproval
    /\ next.approvals = state.approvals
    /\ next.canary = state.canary

(* What the account consists of.                                            *)
SameAccount(state, next) ==
    /\ next.applied = state.applied
    /\ next.cash = state.cash
    /\ \A o \in Orders : next.orders[o].filled = state.orders[o].filled

(* What most steps leave alone: journal and memory keep what they have, a   *)
(* restart takes memory from the journal.                                   *)
MandateUnchanged == SameMandate(disk, disk') /\ UNCHANGED submits
AccountUnchanged ==
    /\ executions \subseteq executions'
    /\ SameAccount(disk, disk') /\ BookedOrders(disk') = BookedOrders(disk)
    /\ \E state \in {live, disk} :
          SameAccount(state, live') /\ BookedOrders(live') = BookedOrders(state)

LEMMA SameMandateKept ==
    ASSUME NEW state, NEW next, SameMandate(state, next), WithinMandate(state)
    PROVE  WithinMandate(next)
  BY DEF SameMandate, WithinMandate, MandateKept

LEMMA CallTypes ==
    /\ Idle \in Call /\ Idle.at = "idle" /\ Idle.events = <<>> /\ Idle.order = NoOrder
    /\ \A at \in Stages, o \in Orders \union {NoOrder} :
          /\ Calling(at, o) \in Call
          /\ Calling(at, o).at = at /\ Calling(at, o).order = o /\ Calling(at, o).events = <<>>
  <1>1. ASSUME NEW at \in Stages, NEW o \in Orders \union {NoOrder}
        PROVE  /\ Calling(at, o) \in Call
               /\ Calling(at, o).at = at /\ Calling(at, o).order = o
               /\ Calling(at, o).events = <<>>
    BY DEF Calling, Call
  <1>2. "idle" \in Stages
    BY DEF Stages
  <1> QED
    BY <1>1, <1>2 DEF Idle

LEMMA IdleFits ==
    ASSUME NEW state
    PROVE  Fits(Idle, state)
  BY CallTypes DEF Fits, OrderStages

LEMMA SetOrderFacts ==
    ASSUME live \in PersistentState, NEW o \in Orders, NEW record \in OrderRecord,
           SetOrder(o, record)
    PROVE  /\ live' \in PersistentState
           /\ live'.orders = [live.orders EXCEPT ![o] = record]
           /\ live'.orders[o] = record
           /\ live'.applied = live.applied
           /\ Exists(o) /\ record.state # "NONE" => SameMandate(live, live')
           /\ record.filled = live.orders[o].filled => SameAccount(live, live')
  <1>1. /\ live' \in PersistentState
        /\ live'.orders = [live.orders EXCEPT ![o] = record]
        /\ live'.applied = live.applied /\ live'.cash = live.cash
        /\ live'.usedApproval = live.usedApproval /\ live'.approvals = live.approvals
        /\ live'.canary = live.canary
    BY DEF SetOrder, PersistentState
  <1>2. live.orders \in [Orders -> OrderRecord]
    BY DEF PersistentState
  <1> QED
    BY <1>1, <1>2 DEF SameMandate, SameAccount, BookedOrders, Exists, StateOf

LEMMA SetStateFacts ==
    ASSUME live \in PersistentState, NEW o \in Orders, NEW state \in StoredStates,
           Exists(o), SetState(o, state)
    PROVE  /\ live' \in PersistentState
           /\ live'.orders[o].state = state
           /\ live'.applied = live.applied
           /\ SameMandate(live, live') /\ SameAccount(live, live')
  <1> DEFINE record == [live.orders[o] EXCEPT !.state = state]
  <1>1. live.orders \in [Orders -> OrderRecord]
    BY DEF PersistentState
  <1>2. /\ record \in OrderRecord /\ record.state = state /\ record.state # "NONE"
        /\ record.filled = live.orders[o].filled
    BY <1>1, RecordStates DEF OrderRecord
  <1>3. SetOrder(o, record)
    BY DEF SetState
  <1> HIDE DEF record
  <1> QED
    BY <1>2, <1>3, SetOrderFacts

(* What a saved step leaves in the journal.                                 *)
LEMMA SaveFacts ==
    ASSUME healthy \in BOOLEAN, healthy, NEW next, NEW up, Save(next, up)
    PROVE  /\ healthy' \in BOOLEAN /\ disk' \in {disk, live'}
           /\ healthy' => disk' = live' /\ call' = next /\ connected' = up
           /\ ~healthy' => call' = Idle /\ connected' = FALSE
  BY DEF Save

(* Most operations end by saving a state that keeps the mandate as it was.  *)
LEMMA SavedStep ==
    ASSUME Inv, healthy, NEW next \in Call, NEW up \in BOOLEAN, Save(next, up),
           Fits(next, live'), next.at # "submitting", Genuine(next.events, executions),
           BrokerStepFacts, UNCHANGED <<venue, executions, submits>>,
           live' \in PersistentState, SameMandate(live, live'),
           live'.applied \subseteq executions,
           session' \in BOOLEAN, window' \in Windows, lapsed' \subseteq Approvals,
           late' \subseteq Orders, recovered' \in BOOLEAN
    PROVE  /\ Inv' /\ MandateUnchanged
           /\ SameAccount(live, live') => AccountUnchanged
  <1>1. healthy \in BOOLEAN /\ disk = live /\ live \in PersistentState
    BY DEF Inv, TypeInv, TypeOK, JournalInv
  <1>2. /\ healthy' \in BOOLEAN /\ disk' \in {disk, live'}
        /\ healthy' => disk' = live' /\ call' = next /\ connected' = up
        /\ ~healthy' => call' = Idle /\ connected' = FALSE
    BY <1>1, SaveFacts
  <1>3. disk' \in PersistentState /\ connected' \in BOOLEAN
    BY <1>1, <1>2
  <1>4. call' \in {next, Idle} /\ call' \in Call
    BY <1>2, CallTypes
  <1>5. TypeInv'
    BY <1>2, <1>3, <1>4 DEF Inv, TypeInv, TypeOK, BrokerStepFacts
  <1>6. StageInv'
    BY <1>4, IdleFits, CallTypes DEF StageInv, Fits
  <1>7. JournalInv'
    BY <1>2 DEF JournalInv
  <1>8. SameMandate(disk, disk') /\ BookedOrders(disk') \subseteq BookedOrders(live')
    BY <1>1, <1>2 DEF SameMandate
  <1>9. SentInv'
    BY <1>1, <1>8 DEF Inv, SentInv, SameMandate, Known
  <1>10. MandateInv'
    BY <1>8, SameMandateKept DEF Inv, MandateInv
  <1>11. EvidenceInv'
    BY <1>1, <1>2, <1>4, CallTypes, GenuineEmpty DEF Inv, EvidenceInv, BrokerStepFacts
  <1>12. MandateUnchanged
    BY <1>8 DEF MandateUnchanged
  <1>13. SameAccount(live, live') => AccountUnchanged
    BY <1>1, <1>2, <1>8 DEF AccountUnchanged, SameAccount, SameMandate
  <1> QED
    BY <1>5, <1>6, <1>7, <1>9, <1>10, <1>11, <1>12, <1>13 DEF Inv

(* The others save nothing and change neither memory nor journal.           *)
LEMMA QuietStep ==
    ASSUME Inv, UNCHANGED <<live, disk, healthy, connected, submits>>,
           BrokerStepFacts, \A o \in Orders : Known(o)' <=> Known(o),
           call' \in Call, Fits(call', live), call' = call \/ call'.at # "submitting",
           Genuine(call'.events, executions'), ~healthy => call' = Idle,
           session' \in BOOLEAN, window' \in Windows, lapsed' \subseteq Approvals,
           late' \subseteq Orders, recovered' \in BOOLEAN
    PROVE  Inv' /\ MandateUnchanged /\ AccountUnchanged
  <1>1. TypeInv'
    BY DEF Inv, TypeInv, TypeOK, BrokerStepFacts
  <1>2. StageInv'
    BY DEF Inv, StageInv, Fits
  <1>3. JournalInv'
    BY DEF Inv, JournalInv
  <1>4. SentInv'
    BY DEF Inv, SentInv
  <1>5. MandateInv'
    BY DEF Inv, MandateInv
  <1>6. EvidenceInv'
    BY DEF Inv, EvidenceInv, BrokerStepFacts
  <1>7. MandateUnchanged /\ AccountUnchanged
    BY DEF MandateUnchanged, AccountUnchanged, SameMandate, SameAccount, BrokerStepFacts
  <1> QED
    BY <1>1, <1>2, <1>3, <1>4, <1>5, <1>6, <1>7 DEF Inv

-----------------------------------------------------------------------------
(* The operations that book, or save without touching a venue.              *)

LEMMA TypesOfInv ==
    ASSUME Inv
    PROVE  /\ BrokerTypeOK /\ IsFiniteSet(executions) /\ Genuine(pending, executions)
           /\ live \in PersistentState /\ disk \in PersistentState
           /\ live.orders \in [Orders -> OrderRecord]
           /\ call \in Call /\ call.events \in Seq(Event)
           /\ {healthy, connected, session, recovered} \subseteq BOOLEAN
           /\ window \in Windows /\ lapsed \subseteq Approvals
           /\ submits \in [Orders -> Nat] /\ late \subseteq Orders
           /\ live.applied \subseteq executions
  BY DEF Inv, TypeInv, TypeOK, EvidenceInv, PersistentState, Call

(* What booking an order does to memory and journal.                        *)
Books(o, a) ==
    /\ o \notin BookedOrders(live) /\ live.approvals[a] = "OPEN" /\ Binds[a] = o
    /\ live.canary < CanaryMaxOrders
    /\ live'.orders = [live.orders EXCEPT ![o] = NewOrder]
    /\ live'.usedApproval = [live.usedApproval EXCEPT ![o] = a]
    /\ live'.approvals = [live.approvals EXCEPT ![a] = "SPENT"]
    /\ live'.canary = live.canary + 1
    /\ live'.applied = live.applied /\ live'.cash = live.cash
    /\ live'.orders[o].state = "PENDING_SUBMIT"
    /\ BookedOrders(live') = BookedOrders(live) \union {o}

LEMMA SubmitIntentFacts ==
    ASSUME Inv, NEW o \in Orders, NEW a \in Approvals, SubmitIntent(o, a)
    PROVE  /\ healthy /\ disk = live /\ live' \in PersistentState /\ Books(o, a)
           /\ healthy' \in BOOLEAN /\ disk' \in {disk, live'}
           /\ healthy' => disk' = live' /\ call' = Calling("submitting", o) /\ connected' = TRUE
           /\ ~healthy' => call' = Idle /\ connected' = FALSE
           /\ UNCHANGED <<brokerVars, session, window, lapsed, submits, late, recovered>>
  <1>1. NewOrder \in OrderRecord /\ NewOrder.state = "PENDING_SUBMIT"
    BY RecordStates DEF NewOrder, AbsentOrder, OrderRecord
  <1>2. /\ healthy /\ disk = live /\ ~Exists(o) /\ live.approvals[a] = "OPEN"
        /\ Binds[a] = o /\ live.canary < CanaryMaxOrders
        /\ live \in PersistentState /\ healthy \in BOOLEAN
        /\ UNCHANGED <<brokerVars, session, window, lapsed, submits, late, recovered>>
    BY TypesOfInv
    DEF SubmitIntent, Mandated, CanaryReady, Ready, RiskApproves, WithinCanary, Inv, JournalInv,
        clockVars, historyVars
  <1>3. /\ live' \in PersistentState
        /\ live'.orders = [live.orders EXCEPT ![o] = NewOrder]
        /\ live'.usedApproval = [live.usedApproval EXCEPT ![o] = a]
        /\ live'.approvals = [live.approvals EXCEPT ![a] = "SPENT"]
        /\ live'.canary = live.canary + 1
        /\ live'.applied = live.applied /\ live'.cash = live.cash
    <2> DEFINE orders == [live.orders EXCEPT ![o] = NewOrder]
    <2> DEFINE used == [live.usedApproval EXCEPT ![o] = a]
    <2> DEFINE approvals == [live.approvals EXCEPT ![a] = "SPENT"]
    <2>1. /\ orders \in [Orders -> OrderRecord]
          /\ used \in [Orders -> Approvals \union {NoApproval}]
          /\ approvals \in [Approvals -> {"NONE", "OPEN", "SPENT"}]
          /\ live.canary + 1 \in Nat
      BY <1>1, <1>2 DEF PersistentState
    <2>2. live' = [live EXCEPT !.orders = orders, !.usedApproval = used,
                               !.approvals = approvals, !.canary = live.canary + 1]
      BY DEF SubmitIntent, Booked
    <2> HIDE DEF orders, used, approvals
    <2>3. /\ live' \in PersistentState /\ live'.orders = orders /\ live'.usedApproval = used
          /\ live'.approvals = approvals /\ live'.canary = live.canary + 1
          /\ live'.applied = live.applied /\ live'.cash = live.cash
      BY <1>2, <2>1, <2>2 DEF PersistentState
    <2> QED
      BY <2>3 DEF orders, used, approvals
  <1>4. /\ live'.orders[o].state = "PENDING_SUBMIT"
        /\ BookedOrders(live') = BookedOrders(live) \union {o} /\ o \notin BookedOrders(live)
    BY <1>1, <1>2, <1>3 DEF PersistentState, BookedOrders, Exists, StateOf
  <1>5. Books(o, a)
    BY <1>2, <1>3, <1>4 DEF Books
  <1>6. /\ healthy' \in BOOLEAN /\ disk' \in {disk, live'}
        /\ healthy' => disk' = live' /\ call' = Calling("submitting", o) /\ connected' = TRUE
        /\ ~healthy' => call' = Idle /\ connected' = FALSE
    BY <1>2, SaveFacts DEF SubmitIntent
  <1> QED
    BY <1>2, <1>3, <1>5, <1>6

LEMMA SubmitIntentStep ==
    ASSUME Inv, NEW o \in Orders, NEW a \in Approvals, SubmitIntent(o, a)
    PROVE  Inv'
  <1>1. /\ healthy /\ disk = live /\ live' \in PersistentState /\ live \in PersistentState
        /\ healthy' \in BOOLEAN /\ disk' \in {disk, live'}
        /\ healthy' => disk' = live' /\ call' = Calling("submitting", o) /\ connected' = TRUE
        /\ ~healthy' => call' = Idle /\ connected' = FALSE
        /\ UNCHANGED <<brokerVars, session, window, lapsed, submits, late, recovered>>
    BY TypesOfInv, SubmitIntentFacts
  <1>2. /\ o \notin BookedOrders(live) /\ live.approvals[a] = "OPEN" /\ Binds[a] = o
        /\ live.canary < CanaryMaxOrders
    BY SubmitIntentFacts DEF Books
  <1>3. /\ live'.orders = [live.orders EXCEPT ![o] = NewOrder]
        /\ live'.usedApproval = [live.usedApproval EXCEPT ![o] = a]
        /\ live'.approvals = [live.approvals EXCEPT ![a] = "SPENT"]
        /\ live'.canary = live.canary + 1 /\ live'.applied = live.applied
    BY SubmitIntentFacts DEF Books
  <1>4. /\ live'.orders[o].state = "PENDING_SUBMIT"
        /\ BookedOrders(live') = BookedOrders(live) \union {o} /\ o \notin BookedOrders(live)
    BY SubmitIntentFacts DEF Books
  <1>5. WithinMandate(live')
    <2>1. /\ MandateKept(live) /\ IsFiniteSet(BookedOrders(live))
          /\ a \in Approvals /\ o \in Orders /\ NoApproval \notin Approvals
      BY LiveAssumption DEF Inv, MandateInv, WithinMandate
    <2>2. /\ live.usedApproval \in [Orders -> Approvals \union {NoApproval}]
          /\ live.approvals \in [Approvals -> {"NONE", "OPEN", "SPENT"}]
      BY <1>1 DEF PersistentState
    <2>3. /\ IsFiniteSet(BookedOrders(live'))
          /\ Cardinality(BookedOrders(live')) = Cardinality(BookedOrders(live)) + 1
      BY <1>4, <2>1, FS_AddElement
    <2>4. live'.canary = Cardinality(BookedOrders(live'))
      BY <1>3, <2>1, <2>3 DEF MandateKept
    <2>5. live'.canary <= CanaryMaxOrders
      BY <1>1, <1>2, <1>3, LiveAssumption DEF PersistentState
    <2>6. \A p \in Orders : p \in BookedOrders(live') <=> live'.usedApproval[p] # NoApproval
      BY <1>3, <1>4, <2>1, <2>2 DEF MandateKept
    <2>7. \A p \in BookedOrders(live') : Binds[live'.usedApproval[p]] = p
      BY <1>2, <1>3, <1>4, <2>1, <2>2 DEF MandateKept, BookedOrders
    <2>8. {b \in Approvals : live'.approvals[b] = "SPENT"}
            = {live'.usedApproval[p] : p \in BookedOrders(live')}
      <3>1. {b \in Approvals : live'.approvals[b] = "SPENT"}
              = {b \in Approvals : live.approvals[b] = "SPENT"} \union {a}
        BY <1>3, <2>2
      <3>2. {live'.usedApproval[p] : p \in BookedOrders(live')}
              = {live.usedApproval[p] : p \in BookedOrders(live)} \union {a}
        BY <1>3, <1>4, <2>2 DEF BookedOrders
      <3> QED
        BY <2>1, <3>1, <3>2 DEF MandateKept
    <2> QED
      BY <2>3, <2>4, <2>5, <2>6, <2>7, <2>8 DEF WithinMandate, MandateKept
  <1>6. submits[o] = 0
    BY <1>2, TypesOfInv DEF Inv, SentInv
  <1>7. /\ call' \in Call /\ call'.events = <<>>
        /\ call'.at = IF healthy' THEN "submitting" ELSE "idle"
        /\ healthy' => call'.order = o
    BY <1>1, CallTypes DEF Stages
  <1>8. TypeInv'
    BY <1>1, <1>7 DEF Inv, TypeInv, TypeOK, BrokerTypeOK, brokerVars
  <1>9. StageInv'
    BY <1>1, <1>4, <1>6, <1>7 DEF StageInv, Fits, OrderStages
  <1>10. JournalInv'
    BY <1>1 DEF JournalInv
  <1>11. SentInv'
    BY <1>1, <1>4 DEF Inv, SentInv, Known, brokerVars
  <1>12. MandateInv'
    BY <1>1, <1>5 DEF Inv, MandateInv
  <1>13. EvidenceInv'
    BY <1>1, <1>3, <1>7, GenuineEmpty DEF Inv, EvidenceInv, brokerVars
  <1> QED
    BY <1>8, <1>9, <1>10, <1>11, <1>12, <1>13 DEF Inv

LEMMA RegisterApprovalStep ==
    ASSUME Inv, NEW a \in Approvals, RegisterApproval(a)
    PROVE  /\ Inv' /\ AccountUnchanged /\ UNCHANGED submits
           /\ disk.approvals[a] = "NONE" /\ BookedOrders(disk') = BookedOrders(disk)
           /\ disk'.approvals \in {disk.approvals, [disk.approvals EXCEPT ![a] = "OPEN"]}
  <1>1. /\ healthy /\ disk = live /\ live.approvals[a] = "NONE"
        /\ live \in PersistentState /\ healthy \in BOOLEAN /\ connected \in BOOLEAN
        /\ UNCHANGED <<brokerVars, session, clockVars, historyVars>>
    BY TypesOfInv DEF RegisterApproval, Ready, Inv, JournalInv
  <1>2. /\ live' \in PersistentState /\ live'.orders = live.orders
        /\ live'.usedApproval = live.usedApproval /\ live'.canary = live.canary
        /\ live'.approvals = [live.approvals EXCEPT ![a] = "OPEN"]
        /\ live'.applied = live.applied /\ live'.cash = live.cash
    BY <1>1 DEF RegisterApproval, PersistentState
  <1>3. BookedOrders(live') = BookedOrders(live)
    BY <1>2 DEF BookedOrders
  <1>4. {b \in Approvals : live'.approvals[b] = "SPENT"}
          = {b \in Approvals : live.approvals[b] = "SPENT"}
    BY <1>1, <1>2 DEF PersistentState
  <1>5. WithinMandate(live')
    BY <1>2, <1>3, <1>4 DEF Inv, MandateInv, WithinMandate, MandateKept
  <1>6. /\ healthy' \in BOOLEAN /\ disk' \in {disk, live'}
        /\ healthy' => disk' = live' /\ call' = Idle /\ connected' = connected
        /\ ~healthy' => call' = Idle /\ connected' = FALSE
    BY <1>1, SaveFacts DEF RegisterApproval
  <1>7. TypeInv'
    BY <1>1, <1>2, <1>6, CallTypes
    DEF Inv, TypeInv, TypeOK, BrokerTypeOK, brokerVars, clockVars, historyVars
  <1>8. StageInv'
    BY <1>6, CallTypes, IdleFits DEF StageInv
  <1>9. JournalInv'
    BY <1>6 DEF JournalInv
  <1>10. SentInv'
    BY <1>1, <1>3, <1>6 DEF Inv, SentInv, Known, brokerVars, historyVars
  <1>11. MandateInv'
    BY <1>1, <1>5, <1>6 DEF Inv, MandateInv
  <1>12. EvidenceInv'
    BY <1>1, <1>2, <1>6, CallTypes, GenuineEmpty DEF Inv, EvidenceInv, brokerVars
  <1>13. AccountUnchanged
    BY <1>1, <1>2, <1>3, <1>6 DEF AccountUnchanged, SameAccount, brokerVars
  <1>14. UNCHANGED submits
    BY <1>1 DEF historyVars
  <1> QED
    BY <1>1, <1>2, <1>3, <1>6, <1>7, <1>8, <1>9, <1>10, <1>11, <1>12, <1>13, <1>14 DEF Inv

(* An operation that ends by saving, with nothing left to do.               *)
LEMMA SavedAndIdle ==
    ASSUME Inv, healthy, NEW up \in BOOLEAN, Save(Idle, up),
           UNCHANGED <<brokerVars, submits>>, live' \in PersistentState,
           SameMandate(live, live'), SameAccount(live, live'),
           session' \in BOOLEAN, window' \in Windows, lapsed' \subseteq Approvals,
           late' \subseteq Orders, recovered' \in BOOLEAN
    PROVE  Inv' /\ MandateUnchanged /\ AccountUnchanged
  <1>1. BrokerStepFacts /\ UNCHANGED <<venue, executions, submits>>
    BY TypesOfInv, BrokerUnchanged DEF brokerVars
  <1>2. live'.applied \subseteq executions
    BY TypesOfInv DEF SameAccount
  <1>3. Idle \in Call /\ Idle.at # "submitting" /\ Genuine(Idle.events, executions)
    BY CallTypes, GenuineEmpty
  <1>4. Fits(Idle, live')
    BY IdleFits
  <1> QED
    BY <1>1, <1>2, <1>3, <1>4, SavedStep

LEMMA RecordSubmitStep ==
    ASSUME Inv, RecordSubmit
    PROVE  Inv' /\ MandateUnchanged /\ AccountUnchanged
  <1> DEFINE o == call.order
  <1> DEFINE record == Answered(live.orders[o], call.answer)
  <1>1. /\ o \in Orders /\ o \in BookedOrders(live) /\ call.answer \in SubmitAnswers
        /\ healthy
    BY CallTypes DEF RecordSubmit, Inv, StageInv, Fits, OrderStages, JournalInv
  <1>2. live \in PersistentState /\ live.orders[o] \in OrderRecord
    BY <1>1, TypesOfInv
  <1>3. /\ record \in OrderRecord /\ record.state # "NONE"
        /\ record.filled = live.orders[o].filled
    BY <1>1, <1>2, AnsweredIsStored DEF Answered, OrderRecord
  <1> HIDE DEF record
  <1>4. SetOrder(o, record)
    BY DEF RecordSubmit, record
  <1>5. /\ live' \in PersistentState /\ SameMandate(live, live') /\ SameAccount(live, live')
    BY <1>1, <1>2, <1>3, <1>4, SetOrderFacts DEF BookedOrders, Exists, StateOf
  <1>6. /\ Save(Idle, call.answer # "ERROR")
        /\ UNCHANGED <<brokerVars, submits, session, window, lapsed, recovered>>
        /\ late' \subseteq Orders
    BY TypesOfInv DEF RecordSubmit, clockVars, NoteLate
  <1>7. (call.answer # "ERROR") \in BOOLEAN
    OBVIOUS
  <1> QED
    BY <1>1, <1>5, <1>6, <1>7, TypesOfInv, SavedAndIdle

(* The operations that save without touching an order.                      *)
LEMMA AccountStep ==
    ASSUME Inv,
           \/ \E o \in Orders, a \in Approvals : RefuseIntent(o, a)
           \/ \E s \in live.incidents : ExplainIncident(s)
           \/ \E active \in BOOLEAN : SwitchKill(active)
           \/ RecordShadow \/ RecordSent \/ Connect \/ LoseSession \/ Reconcile
    PROVE  Inv' /\ MandateUnchanged /\ AccountUnchanged
  <1> DEFINE Shape(up) ==
          /\ healthy /\ up \in BOOLEAN /\ Save(Idle, up)
          /\ UNCHANGED <<brokerVars, submits, late>>
          /\ session' \in BOOLEAN /\ window' = window /\ lapsed' = lapsed
          /\ recovered' \in BOOLEAN
  <1> DEFINE Kept ==
          live' \in PersistentState /\ SameMandate(live, live') /\ SameAccount(live, live')
  <1>1. ASSUME NEW up, Shape(up), Kept
        PROVE  Inv' /\ MandateUnchanged /\ AccountUnchanged
    BY <1>1, TypesOfInv, SavedAndIdle
  <1>2. UNCHANGED live => Kept
    BY TypesOfInv DEF SameMandate, SameAccount
  <1>3. ASSUME NEW incidents \in SUBSET (Orders \union {NoOrder}),
               live' = [live EXCEPT !.incidents = incidents]
        PROVE  Kept
    <2>1. live \in PersistentState
      BY TypesOfInv
    <2>2. /\ live' \in PersistentState /\ live'.orders = live.orders
          /\ live'.usedApproval = live.usedApproval /\ live'.approvals = live.approvals
          /\ live'.canary = live.canary /\ live'.applied = live.applied
          /\ live'.cash = live.cash
      BY <1>3, <2>1 DEF PersistentState
    <2> QED
      BY <2>2 DEF SameMandate, SameAccount, BookedOrders
  <1>4. ASSUME NEW kill \in BOOLEAN, live' = [live EXCEPT !.kill = kill]
        PROVE  Kept
    <2>1. live \in PersistentState
      BY TypesOfInv
    <2>2. /\ live' \in PersistentState /\ live'.orders = live.orders
          /\ live'.usedApproval = live.usedApproval /\ live'.approvals = live.approvals
          /\ live'.canary = live.canary /\ live'.applied = live.applied
          /\ live'.cash = live.cash
      BY <1>4, <2>1 DEF PersistentState
    <2> QED
      BY <2>2 DEF SameMandate, SameAccount, BookedOrders
  <1> HIDE DEF Kept
  <1>5. ~healthy => call.at = "idle"
    BY CallTypes DEF Inv, JournalInv
  <1>6. ASSUME NEW o \in Orders, NEW a \in Approvals, RefuseIntent(o, a)
        PROVE  Shape(TRUE) /\ Kept
    BY <1>2, <1>6, TypesOfInv
    DEF RefuseIntent, Mandated, CanaryReady, Ready, clockVars, historyVars
  <1>7. ASSUME NEW s \in live.incidents, ExplainIncident(s)
        PROVE  Shape(connected) /\ Kept
    <2>1. live.incidents \ {s} \in SUBSET (Orders \union {NoOrder})
      BY TypesOfInv DEF PersistentState
    <2>2. live' = [live EXCEPT !.incidents = live.incidents \ {s}]
      BY <1>7 DEF ExplainIncident
    <2> QED
      BY <1>3, <1>7, <2>1, <2>2, TypesOfInv DEF ExplainIncident, Ready, clockVars, historyVars
  <1>8. ASSUME NEW active \in BOOLEAN, SwitchKill(active)
        PROVE  Shape(connected) /\ Kept
    BY <1>4, <1>8, TypesOfInv DEF SwitchKill, Ready, clockVars, historyVars
  <1>9. ASSUME RecordShadow
        PROVE  Shape(connected) /\ Kept
    BY <1>2, <1>9, TypesOfInv DEF RecordShadow, Ready, clockVars, historyVars
  <1>10. ASSUME RecordSent
         PROVE  Shape(connected) /\ Kept
    BY <1>2, <1>5, <1>10, TypesOfInv DEF RecordSent, clockVars, historyVars
  <1>11. ASSUME Connect
         PROVE  Shape(TRUE) /\ Kept
    BY <1>2, <1>11, TypesOfInv DEF Connect, CanaryReady, Ready, clockVars, historyVars
  <1>12. ASSUME LoseSession
         PROVE  Shape(FALSE) /\ Kept
    BY <1>2, <1>5, <1>12, TypesOfInv DEF LoseSession, CanaryReady, Ready, clockVars, historyVars
  <1>13. ASSUME Reconcile
         PROVE  Shape(TRUE) /\ Kept
    <2>1. live.incidents \union Issues \in SUBSET (Orders \union {NoOrder})
      BY TypesOfInv DEF PersistentState, Issues
    <2>2. live' = [live EXCEPT !.incidents = live.incidents \union Issues]
      BY <1>13 DEF Reconcile
    <2> QED
      BY <1>3, <1>5, <1>13, <2>1, <2>2, TypesOfInv DEF Reconcile, CanaryReady, Ready, clockVars
  <1> HIDE DEF Shape
  <1> QED
    BY <1>1, <1>6, <1>7, <1>8, <1>9, <1>10, <1>11, <1>12, <1>13

LEMMA RecordFailureStep ==
    ASSUME Inv, RecordFailure
    PROVE  Inv' /\ MandateUnchanged /\ AccountUnchanged
  <1>1. call.order \in Orders /\ call.order \in BookedOrders(live) /\ healthy
    BY CallTypes DEF RecordFailure, Inv, StageInv, Fits, OrderStages, JournalInv
  <1>2. /\ live' \in PersistentState /\ SameMandate(live, live') /\ SameAccount(live, live')
    BY <1>1, TypesOfInv, RecordStates, SetStateFacts
    DEF RecordFailure, BookedOrders, Exists, StateOf
  <1>3. Save(Idle, FALSE) /\ UNCHANGED <<brokerVars, submits, session, window, lapsed, late, recovered>>
    BY DEF RecordFailure, clockVars, historyVars
  <1> QED
    BY <1>1, <1>2, <1>3, TypesOfInv, SavedAndIdle

(* A cancellation or replacement is journaled and goes on to the broker.    *)
LEMMA RequestStep ==
    ASSUME Inv, NEW o \in Orders, CancelOrder(o) \/ ReplaceOrder(o)
    PROVE  Inv' /\ MandateUnchanged /\ AccountUnchanged
  <1>1. /\ healthy /\ o \in BookedOrders(live) /\ Exists(o) /\ StateOf(o) \in Revisable
        /\ UNCHANGED <<brokerVars, submits, session, window, lapsed, late, recovered>>
    BY RecordStates
    DEF CancelOrder, ReplaceOrder, CanaryReady, Ready, BookedOrders, Exists, StateOf,
        clockVars, historyVars
  <1>2. BrokerStepFacts /\ UNCHANGED <<venue, executions>>
    BY <1>1, TypesOfInv, BrokerUnchanged DEF brokerVars
  <1>3. live \in PersistentState /\ live.orders[o] \in OrderRecord
    BY TypesOfInv
  <1>4. CASE CancelOrder(o)
    <2> DEFINE next == Calling("cancelling", o)
    <2>1. /\ live' \in PersistentState /\ live'.orders[o].state = "PENDING_CANCEL"
          /\ live'.applied = live.applied
          /\ SameMandate(live, live') /\ SameAccount(live, live')
      BY <1>1, <1>3, <1>4, RecordStates, SetStateFacts DEF CancelOrder
    <2>2. next \in Call /\ next.at = "cancelling" /\ next.order = o /\ next.events = <<>>
      BY CallTypes DEF Stages
    <2>3. Fits(next, live')
      BY <1>1, <2>1, <2>2 DEF Fits, SameMandate
    <2>4. Save(next, connected)
      BY <1>4 DEF CancelOrder
    <2> HIDE DEF next
    <2> QED
      BY <1>1, <1>2, <2>1, <2>2, <2>3, <2>4, TypesOfInv, GenuineEmpty, SavedStep
  <1>5. CASE ReplaceOrder(o)
    <2> DEFINE next == Calling("replacing", o)
    <2> DEFINE record == PendingReplacement(live.orders[o])
    <2>1. /\ record \in OrderRecord /\ record.state = "PENDING_REPLACE"
          /\ record.filled = live.orders[o].filled
      BY <1>1, <1>3, RecordStates DEF PendingReplacement, OrderRecord, StateOf
    <2>2. SetOrder(o, record)
      BY <1>5 DEF ReplaceOrder
    <2> HIDE DEF record
    <2>3. /\ live' \in PersistentState /\ live'.orders[o].state = "PENDING_REPLACE"
          /\ live'.applied = live.applied
          /\ SameMandate(live, live') /\ SameAccount(live, live')
      BY <1>1, <1>3, <2>1, <2>2, SetOrderFacts
    <2>4. next \in Call /\ next.at = "replacing" /\ next.order = o /\ next.events = <<>>
      BY CallTypes DEF Stages
    <2>5. Fits(next, live')
      BY <1>1, <2>3, <2>4 DEF Fits, SameMandate
    <2>6. Save(next, TRUE)
      BY <1>5 DEF ReplaceOrder
    <2> HIDE DEF next
    <2> QED
      BY <1>1, <1>2, <2>3, <2>4, <2>5, <2>6, TypesOfInv, GenuineEmpty, SavedStep
  <1> QED
    BY <1>4, <1>5

-----------------------------------------------------------------------------
(* The calls to the broker.                                                 *)

LEMMA CallSubmitStep ==
    ASSUME Inv, CallSubmit
    PROVE  Inv' /\ AccountUnchanged
  <1> DEFINE o == call.order
  <1>1. PICK answer \in SubmitAnswers :
            /\ BrokerSubmit(o, answer)
            /\ call' = [call EXCEPT !.at = "submitted", !.answer = answer]
    BY DEF CallSubmit
  <1>2. /\ call.at = "submitting"
        /\ UNCHANGED <<live, disk, healthy, connected, session, window, lapsed, late, recovered>>
        /\ submits' = [submits EXCEPT ![o] = @ + 1]
    BY DEF CallSubmit, clockVars
  <1>3. /\ o \in Orders /\ o \in BookedOrders(live) /\ submits[o] = 0 /\ healthy /\ disk = live
        /\ live.orders[o].state = "PENDING_SUBMIT" /\ call.events = <<>>
    BY <1>2, CallTypes DEF Inv, StageInv, Fits, OrderStages, JournalInv
  <1>4. /\ call' \in Call /\ call'.at = "submitted" /\ call'.order = o
        /\ call'.answer = answer /\ call'.events = <<>>
    BY <1>1, <1>3, TypesOfInv DEF Call, Stages
  <1>5. /\ submits' \in [Orders -> Nat] /\ submits'[o] = 1
        /\ \A p \in Orders : p # o => submits'[p] = submits[p]
    BY <1>2, <1>3, TypesOfInv
  <1>6. /\ BrokerStepFacts /\ executions' = executions
        /\ \A p \in Orders : Known(p)' => Known(p) \/ p = o
    BY <1>1, <1>3, TypesOfInv, BrokerSubmitStep
  <1>7. TypeInv'
    BY <1>2, <1>4, <1>5, <1>6 DEF Inv, TypeInv, TypeOK, BrokerStepFacts
  <1>8. StageInv'
    BY <1>2, <1>3, <1>4 DEF StageInv, Fits, OrderStages
  <1>9. JournalInv'
    BY <1>2, <1>3 DEF JournalInv
  <1>10. SentInv'
    BY <1>2, <1>3, <1>5, <1>6 DEF Inv, SentInv
  <1>11. MandateInv' /\ EvidenceInv'
    BY <1>2, <1>4, <1>6, GenuineEmpty DEF Inv, MandateInv, EvidenceInv, BrokerStepFacts
  <1>12. AccountUnchanged
    BY <1>2, <1>6 DEF AccountUnchanged, SameAccount
  <1> QED
    BY <1>7, <1>8, <1>9, <1>10, <1>11, <1>12 DEF Inv

LEMMA CallBrokerStep ==
    ASSUME Inv, CallCancel \/ CallReplace
    PROVE  Inv' /\ MandateUnchanged /\ AccountUnchanged
  <1> DEFINE o == call.order
  <1>1. /\ call.at \in {"cancelling", "replacing"}
        /\ UNCHANGED <<live, disk, healthy, connected, session, window, lapsed, submits, late, recovered>>
    BY DEF CallCancel, CallReplace, clockVars, historyVars
  <1>2. /\ o \in Orders /\ o \in BookedOrders(live) /\ healthy /\ call.events = <<>>
    BY <1>1, CallTypes DEF Inv, StageInv, Fits, OrderStages, JournalInv
  <1>3. BrokerCancel(o) \/ BrokerReplace(o) \/ UNCHANGED brokerVars
    BY DEF CallCancel, CallReplace
  <1>4. BrokerStepFacts /\ \A p \in Orders : Known(p)' <=> Known(p)
    <2>1. CASE BrokerCancel(o)
      BY <1>2, <2>1, TypesOfInv, BrokerCancelStep
    <2>2. CASE BrokerReplace(o)
      BY <1>2, <2>2, TypesOfInv, BrokerReplaceStep
    <2>3. CASE UNCHANGED brokerVars
      BY <2>3, TypesOfInv, BrokerUnchanged DEF brokerVars, Known
    <2> QED
      BY <1>3, <2>1, <2>2, <2>3
  <1>5. call' \in {[call EXCEPT !.at = "sent"], [call EXCEPT !.at = "failed"]}
    BY DEF CallCancel, CallReplace
  <1>6. /\ call' \in Call /\ call'.at \in {"sent", "failed"} /\ call'.order = o
        /\ call'.events = <<>>
    BY <1>2, <1>5, TypesOfInv DEF Call, Stages
  <1>7. Fits(call', live)
    <2>1. live.orders[o].state \in {"PENDING_CANCEL", "PENDING_REPLACE"}
      BY <1>1, CallTypes DEF Inv, StageInv, Fits
    <2> QED
      BY <1>2, <1>6, <2>1 DEF Fits, Working, StoredStates, Terminal, Closed
  <1>8. Genuine(call'.events, executions')
    BY <1>6, GenuineEmpty
  <1> QED
    BY <1>1, <1>2, <1>4, <1>6, <1>7, <1>8, TypesOfInv, QuietStep

-----------------------------------------------------------------------------
(* Sessions, draining, restart and time.                                    *)

LEMMA ReconnectStep ==
    ASSUME Inv, Reconnect
    PROVE  Inv' /\ MandateUnchanged /\ AccountUnchanged
  <1> DEFINE next == [Idle EXCEPT !.at = "reconnected"]
  <1>1. /\ healthy /\ live' = live /\ Save(next, TRUE) /\ session' = TRUE
        /\ BridgeRestart \/ UNCHANGED brokerVars
        /\ UNCHANGED <<submits, window, lapsed, late, recovered>>
    BY DEF Reconnect, CanaryReady, Ready, clockVars, historyVars
  <1>2. BrokerStepFacts /\ UNCHANGED <<venue, executions>>
    <2>1. CASE BridgeRestart
      BY <2>1, TypesOfInv, GenuineEmpty DEF BridgeRestart, BrokerStepFacts, BrokerTypeOK
    <2>2. CASE UNCHANGED brokerVars
      BY <2>2, TypesOfInv, BrokerUnchanged DEF brokerVars
    <2> QED
      BY <1>1, <2>1, <2>2
  <1>3. next \in Call /\ next.at = "reconnected" /\ next.events = <<>>
    BY CallTypes DEF Call, Stages
  <1>4. Fits(next, live')
    BY <1>3 DEF Fits, OrderStages
  <1>5. SameMandate(live, live') /\ SameAccount(live, live')
    BY <1>1 DEF SameMandate, SameAccount
  <1> HIDE DEF next
  <1> QED
    BY <1>1, <1>2, <1>3, <1>4, <1>5, TypesOfInv, GenuineEmpty, SavedStep

LEMMA SynchronizeStep ==
    ASSUME Inv, Synchronize
    PROVE  Inv' /\ MandateUnchanged /\ AccountUnchanged
  <1>1. /\ pending' = <<>>
        /\ call' = [Idle EXCEPT !.at = "draining", !.events = pending,
                                !.reconnecting = call.at = "reconnected"]
        /\ UNCHANGED <<venue, executions, emitted, live, disk, healthy, connected, session,
                       window, lapsed, submits, late, recovered>>
    BY DEF Synchronize, clockVars, historyVars
  <1>2. healthy
    BY CallTypes DEF Synchronize, CanaryReady, Ready, Inv, JournalInv
  <1>3. call' \in Call /\ call'.at = "draining" /\ call'.events = pending
    <2> DEFINE reconnecting == call.at = "reconnected"
    <2>1. reconnecting \in BOOLEAN /\ pending \in Seq(Event) /\ Idle \in Call
      BY CallTypes, TypesOfInv DEF BrokerTypeOK
    <2>2. call' = [Idle EXCEPT !.at = "draining", !.events = pending,
                               !.reconnecting = reconnecting]
      BY <1>1
    <2> HIDE DEF reconnecting
    <2> QED
      BY <2>1, <2>2 DEF Call, Stages
  <1>4. Fits(call', live)
    BY <1>3 DEF Fits, OrderStages
  <1>5. BrokerStepFacts /\ \A o \in Orders : Known(o)' <=> Known(o)
    BY <1>1, TypesOfInv, GenuineEmpty DEF BrokerStepFacts, BrokerTypeOK, Known
  <1>6. Genuine(call'.events, executions')
    BY <1>1, <1>3, TypesOfInv
  <1> QED
    BY <1>1, <1>2, <1>3, <1>4, <1>5, <1>6, TypesOfInv, QuietStep

LEMMA FinishDrainStep ==
    ASSUME Inv, FinishDrain
    PROVE  Inv' /\ MandateUnchanged /\ AccountUnchanged
  <1>1. /\ call.at = "draining" /\ call.events = <<>> /\ UNCHANGED brokerVars
        /\ UNCHANGED <<live, disk, healthy, connected, session, window, lapsed, submits,
                       late, recovered>>
    BY DEF FinishDrain, clockVars, historyVars
  <1>2. healthy
    BY <1>1, CallTypes DEF Inv, JournalInv
  <1>3. call' \in Call /\ call'.at \in {"idle", "reconciling"} /\ call'.events = <<>>
    <2>1. call' = Idle \/ call' = [call EXCEPT !.at = "reconciling"]
      BY DEF FinishDrain
    <2>2. CASE call' = Idle
      BY <2>2, CallTypes
    <2>3. CASE call' = [call EXCEPT !.at = "reconciling"]
      BY <1>1, <2>3, TypesOfInv DEF Call, Stages
    <2> QED
      BY <2>1, <2>2, <2>3
  <1>4. Fits(call', live)
    BY <1>3 DEF Fits, OrderStages
  <1>5. BrokerStepFacts /\ \A o \in Orders : Known(o)' <=> Known(o)
    BY <1>1, TypesOfInv, BrokerUnchanged DEF brokerVars, Known
  <1>6. Genuine(call'.events, executions')
    BY <1>3, GenuineEmpty
  <1> QED
    BY <1>1, <1>2, <1>3, <1>4, <1>5, <1>6, TypesOfInv, QuietStep

LEMMA ClockStep ==
    ASSUME Inv, Expire \/ \E a \in Approvals : Lapse(a)
    PROVE  Inv' /\ MandateUnchanged /\ AccountUnchanged
  <1>1. /\ UNCHANGED <<brokerVars, live, disk, healthy, connected, session, call, submits,
                       late, recovered>>
        /\ window' \in Windows /\ lapsed' \subseteq Approvals
    BY TypesOfInv DEF Expire, Lapse, Windows, historyVars
  <1>2. BrokerStepFacts /\ \A o \in Orders : Known(o)' <=> Known(o)
    BY <1>1, TypesOfInv, BrokerUnchanged DEF brokerVars, Known
  <1>3. Fits(call', live) /\ Genuine(call'.events, executions') /\ (~healthy => call' = Idle)
    BY <1>1 DEF Inv, StageInv, EvidenceInv, JournalInv, brokerVars
  <1> QED
    BY <1>1, <1>2, <1>3, TypesOfInv, QuietStep

LEMMA RestartStep ==
    ASSUME Inv, Restart
    PROVE  Inv' /\ MandateUnchanged /\ AccountUnchanged
  <1>1. /\ live' = disk /\ disk' = disk /\ healthy' = TRUE /\ connected' = FALSE
        /\ session' = FALSE /\ window' \in Windows /\ lapsed' = lapsed /\ call' = Idle
        /\ recovered' \in BOOLEAN /\ pending' = <<>> /\ emitted' = {}
        /\ UNCHANGED <<venue, executions, submits>> /\ late' \subseteq Orders
    BY TypesOfInv DEF Restart, BridgeRestart, NoteLate, Windows
  <1>2. TypeInv'
    BY <1>1, CallTypes, GenuineEmpty DEF Inv, TypeInv, TypeOK, BrokerTypeOK
  <1>3. StageInv'
    BY <1>1, CallTypes, IdleFits DEF StageInv
  <1>4. JournalInv'
    BY <1>1 DEF JournalInv
  <1>5. SentInv'
    BY <1>1 DEF Inv, SentInv, Known
  <1>6. MandateInv' /\ EvidenceInv'
    BY <1>1, CallTypes, GenuineEmpty DEF Inv, MandateInv, EvidenceInv
  <1>7. MandateUnchanged /\ AccountUnchanged
    BY <1>1 DEF MandateUnchanged, AccountUnchanged, SameMandate, SameAccount
  <1> QED
    BY <1>2, <1>3, <1>4, <1>5, <1>6, <1>7 DEF Inv

(* A step of the venue, between any two steps of the kernel.                *)
LEMMA VenueStepLemma ==
    ASSUME Inv, VenueStep
    PROVE  /\ VenueStepFacts /\ late' \subseteq Orders
           /\ UNCHANGED <<live, disk, healthy, connected, session, window, lapsed, call,
                          submits, recovered>>
  <1>1. BrokerTypeOK /\ IsFiniteSet(executions) /\ Genuine(pending, executions)
    BY TypesOfInv
  <1>2. /\ UNCHANGED <<live, disk, healthy, connected, session, window, lapsed, call,
                       submits, recovered>>
        /\ late' \subseteq Orders
    BY TypesOfInv DEF VenueStep, AtVenue, NoteLate, clockVars
  <1>3. ASSUME NEW o \in Orders, NEW n \in 1..Qty[o], AtVenue(VenueExecute(o, n))
        PROVE  VenueStepFacts
    BY <1>1, <1>3, VenueExecuteStep DEF AtVenue
  <1>4. ASSUME NEW o \in Orders, NEW type \in Closings, AtVenue(VenueClose(o, type))
        PROVE  VenueStepFacts
    BY <1>1, <1>4, VenueCloseStep DEF AtVenue
  <1>5. ASSUME NEW o \in Orders,
               \/ AtVenue(VenueRejectCancel(o)) \/ AtVenue(VenueRejectReplace(o))
               \/ AtVenue(VenueModify(o)) \/ AtVenue(VenueReplace(o))
        PROVE  VenueStepFacts
    BY <1>1, <1>5, VenueAnswerStep DEF AtVenue
  <1>6. ASSUME NEW x \in executions, AtVenue(EmitExecution(x))
        PROVE  VenueStepFacts
    BY <1>1, <1>6, EmitExecutionStep DEF AtVenue
  <1>7. VenueStepFacts
    BY <1>3, <1>4, <1>5, <1>6 DEF VenueStep
  <1> QED
    BY <1>2, <1>7 DEF VenueStep

LEMMA VenueKeepsInv ==
    ASSUME Inv, VenueStep
    PROVE  Inv' /\ MandateUnchanged /\ AccountUnchanged
  <1>1. /\ VenueStepFacts /\ late' \subseteq Orders
        /\ UNCHANGED <<live, disk, healthy, connected, session, window, lapsed, call, submits,
                       recovered>>
    BY VenueStepLemma
  <1>2. BrokerStepFacts /\ executions \subseteq executions'
    BY <1>1 DEF VenueStepFacts, BrokerStepFacts
  <1>3. Fits(call', live) /\ Genuine(call'.events, executions') /\ (~healthy => call' = Idle)
    BY <1>1, <1>2, GenuineMore DEF Inv, StageInv, EvidenceInv, JournalInv
  <1> QED
    BY <1>1, <1>2, <1>3, TypesOfInv, QuietStep DEF VenueStepFacts

-----------------------------------------------------------------------------
(* Broker evidence (apply_broker_event, apply_accounted_fill).              *)

LEMMA WithFillFacts ==
    ASSUME NEW state \in PersistentState, NEW e \in Event
    PROVE  /\ WithFill(state, e) \in PersistentState
           /\ WithFill(state, e).orders = state.orders
           /\ WithFill(state, e).usedApproval = state.usedApproval
           /\ WithFill(state, e).approvals = state.approvals
           /\ WithFill(state, e).canary = state.canary
           /\ WithFill(state, e).applied = state.applied \union {ExecutionOf(e)}
           /\ WithFill(state, e).cash = state.cash - e.qty
           /\ state.cash < e.qty => NoOrder \in WithFill(state, e).incidents
  <1> DEFINE applied == state.applied \union {ExecutionOf(e)}
  <1> DEFINE cash == state.cash - e.qty
  <1> DEFINE incidents ==
          IF state.cash < e.qty THEN state.incidents \union {NoOrder} ELSE state.incidents
  <1>1. applied \in SUBSET Execution
    BY DEF PersistentState, ExecutionOf, Execution, Event
  <1>2. cash \in Int
    BY DEF PersistentState, Event
  <1>3. incidents \in SUBSET (Orders \union {NoOrder})
    BY DEF PersistentState
  <1>4. state.cash < e.qty => NoOrder \in incidents
    OBVIOUS
  <1>5. WithFill(state, e) =
          [state EXCEPT !.applied = applied, !.cash = cash, !.incidents = incidents]
    BY DEF WithFill
  <1> HIDE DEF applied, cash, incidents
  <1>6. /\ WithFill(state, e) \in PersistentState
        /\ WithFill(state, e).orders = state.orders
        /\ WithFill(state, e).usedApproval = state.usedApproval
        /\ WithFill(state, e).approvals = state.approvals
        /\ WithFill(state, e).canary = state.canary
        /\ WithFill(state, e).applied = applied
        /\ WithFill(state, e).cash = cash
        /\ WithFill(state, e).incidents = incidents
    BY <1>1, <1>2, <1>3, <1>5 DEF PersistentState
  <1> QED
    BY <1>4, <1>6 DEF applied, cash

(* One lot more of an order is filled, and paid for, than `state` accounts  *)
(* for: `next` has entered the execution x.                                 *)
Enters(state, next, x) ==
    /\ next.applied = state.applied \union {x}
    /\ next.cash = state.cash - x.qty
    /\ next.orders[x.order].filled = state.orders[x.order].filled + x.qty
    /\ \A o \in Orders : o # x.order => next.orders[o].filled = state.orders[o].filled
    /\ state.cash < x.qty => NoOrder \in next.incidents

(* What one applied event does to the durable state.                        *)
LEMMA AppliedFacts ==
    ASSUME live \in PersistentState, NEW e \in Event, Applicable(e),
           IsExecution(e) => ExecutionOf(e) \in executions
    PROVE  /\ Applied(e) \in PersistentState
           /\ SameMandate(live, Applied(e))
           /\ \/ SameAccount(live, Applied(e))
              \/ \E x \in executions \ live.applied :
                    Enters(live, Applied(e), x) /\ x.order \in BookedOrders(live)
  <1> DEFINE o == e.order
  <1> DEFINE record == Resolve(live.orders[o], e, Qty[o])
  <1> DEFINE moved == [live EXCEPT !.orders[o] = record]
  <1>1. CASE Duplicate(e)
    BY <1>1 DEF Applied, SameMandate, SameAccount
  <1>2. CASE ~Duplicate(e)
    <2>1. o \in Orders /\ Qty[o] \in Nat
      BY BrokerAssumption DEF Event
    <2>2. live.orders \in [Orders -> OrderRecord] /\ live.orders[o] \in OrderRecord
      BY <2>1 DEF PersistentState
    <2>3. Accepts(live.orders[o], e, Qty[o])
      BY <1>2 DEF Applicable
    <2>4. live.orders[o] \in StoredOrder /\ live.orders[o].state # "NONE"
      BY <2>2, <2>3 DEF Accepts, StoredOrder, OrderRecord
    <2>5. record \in StoredOrder
      BY <2>1, <2>3, <2>4, ResolveKeepsStored
    <2>6. record \in OrderRecord /\ record.state # "NONE"
      BY <2>5, RecordStates DEF StoredOrder
    <2>7. record.filled = IF IsExecution(e) THEN live.orders[o].filled + e.qty
                                            ELSE live.orders[o].filled
      BY <2>2, ResolveFills
    <2> HIDE DEF record
    <2>8. /\ moved \in PersistentState /\ moved.applied = live.applied
          /\ moved.orders = [live.orders EXCEPT ![o] = record]
          /\ moved.usedApproval = live.usedApproval /\ moved.approvals = live.approvals
          /\ moved.canary = live.canary /\ moved.cash = live.cash
      BY <2>1, <2>6 DEF PersistentState
    <2>9. BookedOrders(moved) = BookedOrders(live) /\ o \in BookedOrders(live)
      BY <2>1, <2>2, <2>4, <2>6, <2>8 DEF BookedOrders
    <2>10. /\ moved.orders[o].filled = record.filled
           /\ \A p \in Orders : p # o => moved.orders[p].filled = live.orders[p].filled
      BY <2>1, <2>2, <2>8
    <2> HIDE DEF moved
    <2>11. CASE IsExecution(e)
      <3>1. Applied(e) = WithFill(moved, e)
        BY <1>2, <2>11 DEF Applied, moved, record
      <3>2. /\ WithFill(moved, e) \in PersistentState
            /\ WithFill(moved, e).orders = moved.orders
            /\ WithFill(moved, e).usedApproval = moved.usedApproval
            /\ WithFill(moved, e).approvals = moved.approvals
            /\ WithFill(moved, e).canary = moved.canary
            /\ WithFill(moved, e).applied = moved.applied \union {ExecutionOf(e)}
            /\ WithFill(moved, e).cash = moved.cash - e.qty
            /\ moved.cash < e.qty => NoOrder \in WithFill(moved, e).incidents
        BY <2>8, WithFillFacts
      <3>3. SameMandate(live, Applied(e))
        BY <2>8, <2>9, <3>1, <3>2 DEF SameMandate, BookedOrders
      <3>4. ExecutionOf(e) \in executions \ live.applied
        BY <1>2, <2>11 DEF Duplicate
      <3>5. ExecutionOf(e).order = o /\ ExecutionOf(e).qty = e.qty
        BY DEF ExecutionOf
      <3>6. Enters(live, Applied(e), ExecutionOf(e))
        BY <2>7, <2>8, <2>10, <2>11, <3>1, <3>2, <3>5 DEF Enters
      <3> QED
        BY <2>9, <3>1, <3>2, <3>3, <3>4, <3>5, <3>6
    <2>12. CASE ~IsExecution(e)
      <3>1. Applied(e) = moved
        BY <1>2, <2>12 DEF Applied, moved, record
      <3> QED
        BY <2>1, <2>7, <2>8, <2>9, <2>10, <2>12, <3>1 DEF SameMandate, SameAccount
    <2> QED
      BY <2>11, <2>12
  <1> QED
    BY <1>1, <1>2

(* What it does to memory, it does to the journal or the record is lost.    *)
EntersOne ==
    \E x \in executions \ live.applied :
        /\ Enters(live, live', x) /\ disk = live /\ disk' \in {disk, live'}
        /\ x.order \in BookedOrders(live) /\ SameMandate(live, live')
        /\ executions' = executions

LEMMA ApplyEventStep ==
    ASSUME Inv, ApplyEvent
    PROVE  Inv' /\ MandateUnchanged /\ (AccountUnchanged \/ EntersOne)
  <1> DEFINE e == Head(call.events)
  <1> DEFINE rest == [call EXCEPT !.events = Tail(@)]
  <1>1. /\ call \in Call /\ call.at = "draining" /\ call.events # <<>>
        /\ UNCHANGED <<brokerVars, submits, session, window, lapsed, recovered>>
        /\ late' \subseteq Orders
    BY TypesOfInv DEF ApplyEvent, NoteLate, clockVars
  <1>2. call.events \in Seq(Event) /\ Genuine(call.events, executions)
    BY TypesOfInv DEF Inv, EvidenceInv
  <1>3. /\ e \in Event /\ (IsExecution(e) => ExecutionOf(e) \in executions)
        /\ Tail(call.events) \in Seq(Event) /\ Genuine(Tail(call.events), executions)
    BY <1>1, <1>2, GenuineTail
  <1>4. rest \in Call /\ rest.at = "draining" /\ rest.events = Tail(call.events)
    BY <1>1, <1>3 DEF Call
  <1>5. healthy /\ disk = live
    BY <1>1, CallTypes DEF Inv, JournalInv
  <1>6. BrokerStepFacts /\ UNCHANGED <<venue, executions>>
    BY <1>1, TypesOfInv, BrokerUnchanged DEF brokerVars
  <1> HIDE DEF rest
  <1>7. CASE Applicable(e) /\ live' = Applied(e) /\ Save(rest, connected)
    <2>1. /\ live' \in PersistentState /\ SameMandate(live, live')
          /\ \/ SameAccount(live, live')
             \/ \E x \in executions \ live.applied :
                   Enters(live, live', x) /\ x.order \in BookedOrders(live)
      BY <1>3, <1>7, TypesOfInv, AppliedFacts
    <2>2. live'.applied \subseteq executions
      BY <2>1, TypesOfInv DEF SameAccount, Enters
    <2>3. Fits(rest, live') /\ Genuine(rest.events, executions)
      BY <1>3, <1>4 DEF Fits, OrderStages
    <2>4. /\ Inv' /\ MandateUnchanged
          /\ SameAccount(live, live') => AccountUnchanged
      BY <1>1, <1>4, <1>5, <1>6, <1>7, <2>1, <2>2, <2>3, TypesOfInv, SavedStep
    <2>5. disk' \in {disk, live'}
      BY <1>5, <1>7 DEF Save
    <2>6. CASE SameAccount(live, live')
      BY <2>4, <2>6
    <2>7. CASE \E x \in executions \ live.applied :
                   Enters(live, live', x) /\ x.order \in BookedOrders(live)
      BY <1>5, <1>6, <2>1, <2>4, <2>5, <2>7 DEF EntersOne
    <2> QED
      BY <2>1, <2>6, <2>7
  <1>8. CASE call' = [rest EXCEPT !.failed = TRUE] /\ UNCHANGED <<live, disk, healthy, connected>>
    <2>1. /\ call' \in Call /\ call'.at = "draining" /\ call'.events = Tail(call.events)
      BY <1>4, <1>8 DEF Call
    <2>2. Fits(call', live)
      BY <2>1 DEF Fits, OrderStages
    <2>3. \A o \in Orders : Known(o)' <=> Known(o)
      BY <1>6 DEF Known
    <2>4. Genuine(call'.events, executions')
      BY <1>3, <1>6, <2>1
    <2> QED
      BY <1>1, <1>5, <1>6, <1>8, <2>1, <2>2, <2>3, <2>4, TypesOfInv, QuietStep
  <1> QED
    BY <1>7, <1>8 DEF ApplyEvent, rest

-----------------------------------------------------------------------------
(* The invariant holds.                                                     *)

LEMMA InitEstablishesInv == Init => Inv
  <1> SUFFICES ASSUME Init PROVE Inv
    OBVIOUS
  <1> USE DEF Init, BrokerInit
  <1>1. NeverReceived \in VenueOrder /\ NeverReceived.version = 0
    BY BrokerAssumption DEF NeverReceived, VenueOrder, VenueStates
  <1>2. AbsentOrder \in OrderRecord /\ AbsentOrder.state = "NONE"
    BY DEF AbsentOrder, OrderRecord
  <1>3. BrokerTypeOK
    BY <1>1, GenuineEmpty DEF BrokerTypeOK
  <1>4. live \in PersistentState /\ live.applied = {}
    BY <1>2, LiveAssumption DEF PersistentState
  <1>5. TypeInv
    BY <1>3, <1>4, CallTypes, FS_EmptySet DEF TypeInv, TypeOK, Windows
  <1>6. StageInv
    BY CallTypes, IdleFits DEF StageInv
  <1>7. JournalInv
    BY DEF JournalInv
  <1>8. BookedOrders(live) = {}
    BY <1>2 DEF BookedOrders
  <1>9. SentInv
    BY <1>1, <1>8 DEF SentInv, Known
  <1>10. MandateInv
    <2>1. {a \in Approvals : live.approvals[a] = "SPENT"} = {}
      OBVIOUS
    <2>2. {live.usedApproval[o] : o \in BookedOrders(live)} = {}
      BY <1>8
    <2>3. IsFiniteSet(BookedOrders(live)) /\ Cardinality(BookedOrders(live)) = 0
      BY <1>8, FS_EmptySet
    <2>4. live.canary = 0 /\ 0 <= CanaryMaxOrders
      BY LiveAssumption
    <2>5. \A o \in Orders : o \in BookedOrders(live) <=> live.usedApproval[o] # NoApproval
      BY <1>8
    <2>6. \A o \in BookedOrders(live) : Binds[live.usedApproval[o]] = o
      BY <1>8
    <2>7. WithinMandate(live)
      BY <2>1, <2>2, <2>3, <2>4, <2>5, <2>6 DEF WithinMandate, MandateKept
    <2> QED
      BY <2>7 DEF MandateInv
  <1>11. EvidenceInv
    BY <1>4, CallTypes, GenuineEmpty DEF EvidenceInv
  <1> QED
    BY <1>5, <1>6, <1>7, <1>9, <1>10, <1>11 DEF Inv

(* Every step but those that book, approve, send or enter.                  *)
OtherStep ==
    \/ RecordSubmit \/ RecordFailure \/ CallCancel \/ CallReplace
    \/ \E o \in Orders : CancelOrder(o) \/ ReplaceOrder(o)
    \/ \E o \in Orders, a \in Approvals : RefuseIntent(o, a)
    \/ \E s \in live.incidents : ExplainIncident(s)
    \/ \E active \in BOOLEAN : SwitchKill(active)
    \/ RecordShadow \/ RecordSent \/ Connect \/ LoseSession \/ Reconcile
    \/ Reconnect \/ Synchronize \/ FinishDrain
    \/ Expire \/ \E a \in Approvals : Lapse(a)
    \/ VenueStep \/ Restart

LEMMA StepsOfNext ==
    ASSUME Next
    PROVE  \/ \E o \in Orders, a \in Approvals : SubmitIntent(o, a)
           \/ \E a \in Approvals : RegisterApproval(a)
           \/ CallSubmit \/ ApplyEvent \/ OtherStep
  BY DEF Next, ServiceStep, OperatorStep, OtherStep

LEMMA OtherStepKeeps ==
    ASSUME Inv, OtherStep
    PROVE  Inv' /\ MandateUnchanged /\ AccountUnchanged
  <1>1. CASE RecordSubmit
    BY <1>1, RecordSubmitStep
  <1>2. CASE RecordFailure
    BY <1>2, RecordFailureStep
  <1>3. CASE CallCancel \/ CallReplace
    BY <1>3, CallBrokerStep
  <1>4. CASE \E o \in Orders : CancelOrder(o) \/ ReplaceOrder(o)
    BY <1>4, RequestStep
  <1>5. CASE \/ \E o \in Orders, a \in Approvals : RefuseIntent(o, a)
             \/ \E s \in live.incidents : ExplainIncident(s)
             \/ \E active \in BOOLEAN : SwitchKill(active)
             \/ RecordShadow \/ RecordSent \/ Connect \/ LoseSession \/ Reconcile
    BY <1>5, AccountStep
  <1>6. CASE Reconnect
    BY <1>6, ReconnectStep
  <1>7. CASE Synchronize
    BY <1>7, SynchronizeStep
  <1>8. CASE FinishDrain
    BY <1>8, FinishDrainStep
  <1>9. CASE Expire \/ \E a \in Approvals : Lapse(a)
    BY <1>9, ClockStep
  <1>10. CASE VenueStep
    BY <1>10, VenueKeepsInv
  <1>11. CASE Restart
    BY <1>11, RestartStep
  <1> QED
    BY <1>1, <1>2, <1>3, <1>4, <1>5, <1>6, <1>7, <1>8, <1>9, <1>10, <1>11 DEF OtherStep

LEMMA NextKeepsInv == Inv /\ [Next]_vars => Inv'
  <1> SUFFICES ASSUME Inv, [Next]_vars PROVE Inv'
    OBVIOUS
  <1>1. CASE \E o \in Orders, a \in Approvals : SubmitIntent(o, a)
    BY <1>1, SubmitIntentStep
  <1>2. CASE \E a \in Approvals : RegisterApproval(a)
    BY <1>2, RegisterApprovalStep
  <1>3. CASE CallSubmit
    BY <1>3, CallSubmitStep
  <1>4. CASE ApplyEvent
    BY <1>4, ApplyEventStep
  <1>5. CASE OtherStep
    BY <1>5, OtherStepKeeps
  <1>6. CASE UNCHANGED vars
    <2> USE <1>6 DEF vars
    <2>1. BrokerStepFacts /\ \A o \in Orders : Known(o)' <=> Known(o)
      BY TypesOfInv, BrokerUnchanged DEF brokerVars, Known
    <2>2. Fits(call', live) /\ Genuine(call'.events, executions') /\ (~healthy => call' = Idle)
      BY DEF Inv, StageInv, EvidenceInv, JournalInv
    <2> QED
      BY <2>1, <2>2, TypesOfInv, QuietStep
  <1> QED
    BY <1>1, <1>2, <1>3, <1>4, <1>5, <1>6, StepsOfNext

LEMMA Invariance == Spec => []Inv
  BY InitEstablishesInv, NextKeepsInv, PTL DEF Spec

-----------------------------------------------------------------------------
(* The account: what the executions applied make it, and an order that is   *)
(* not booked has filled nothing.                                           *)
KeepsAccount(state, made) ==
    /\ state.applied \subseteq made
    /\ \A o \in Orders : state.orders[o].filled = LotsIn(OfOrder(state.applied, o))
    /\ state.cash = InitialCash - LotsIn(state.applied)
    /\ \A o \in Orders \ BookedOrders(state) : state.orders[o].filled = 0

AccountInv == KeepsAccount(live, executions) /\ KeepsAccount(disk, executions)

LEMMA AccountKept ==
    ASSUME AccountInv
    PROVE  FillsMatchExecutions
  <1>1. ASSUME NEW state, KeepsAccount(state, executions)
        PROVE  Accounted(state)
    BY <1>1 DEF KeepsAccount, Accounted, FillsOf, LotsIn, OfOrder
  <1> QED
    BY <1>1 DEF AccountInv, FillsMatchExecutions

LEMMA SameAccountKept ==
    ASSUME NEW state, NEW next, NEW made, NEW more, made \subseteq more,
           KeepsAccount(state, made), SameAccount(state, next),
           BookedOrders(next) = BookedOrders(state)
    PROVE  KeepsAccount(next, more)
  BY DEF KeepsAccount, SameAccount

LEMMA EntersKeepsAccount ==
    ASSUME NEW state, NEW next, NEW x \in Execution \ state.applied,
           state.applied \subseteq Execution, IsFiniteSet(state.applied),
           x \in executions, x.order \in BookedOrders(state),
           KeepsAccount(state, executions), Enters(state, next, x),
           BookedOrders(next) = BookedOrders(state)
    PROVE  KeepsAccount(next, executions)
  <1>1. LotsIn(state.applied) \in Nat /\ x.qty \in Nat /\ InitialCash \in Int
    BY LotsWith, LiveAssumption DEF Execution
  <1>2. next.cash = InitialCash - LotsIn(next.applied)
    <2>1. LotsIn(next.applied) = LotsIn(state.applied) + x.qty
      BY LotsWith DEF Enters
    <2> QED
      BY <1>1, <2>1 DEF KeepsAccount, Enters
  <1>3. \A o \in Orders : next.orders[o].filled = LotsIn(OfOrder(next.applied, o))
    BY LotsOfOrders DEF KeepsAccount, Enters
  <1> QED
    BY <1>2, <1>3 DEF KeepsAccount, Enters

LEMMA InitEstablishesAccount == Init => AccountInv
  <1> SUFFICES ASSUME Init PROVE AccountInv
    OBVIOUS
  <1>1. /\ disk = live /\ live.applied = {} /\ live.cash = InitialCash
        /\ \A o \in Orders : live.orders[o].filled = 0
    BY DEF Init, AbsentOrder
  <1>2. LotsIn({}) = 0 /\ InitialCash \in Int /\ \A o \in Orders : OfOrder({}, o) = {}
    BY LotsWith, FS_EmptySet, LiveAssumption DEF OfOrder
  <1> QED
    BY <1>1, <1>2 DEF AccountInv, KeepsAccount

LEMMA NextKeepsAccount == Inv /\ AccountInv /\ [Next]_vars => AccountInv'
  <1> SUFFICES ASSUME Inv, AccountInv, [Next]_vars PROVE AccountInv'
    OBVIOUS
  <1>1. CASE AccountUnchanged
    BY <1>1, SameAccountKept DEF AccountUnchanged, AccountInv
  <1>2. CASE \E o \in Orders, a \in Approvals : SubmitIntent(o, a)
    <2>1. PICK o \in Orders, a \in Approvals : SubmitIntent(o, a)
      BY <1>2
    <2>2. disk = live /\ Books(o, a) /\ disk' \in {disk, live'} /\ executions' = executions
      BY <2>1, SubmitIntentFacts DEF brokerVars
    <2>3. live.orders \in [Orders -> OrderRecord]
      BY TypesOfInv
    <2>4. live.orders[o].filled = 0 /\ NewOrder.filled = 0
      BY <2>2 DEF Books, AccountInv, KeepsAccount, NewOrder, AbsentOrder
    <2>5. \A p \in Orders : live'.orders[p].filled = live.orders[p].filled
      BY <2>2, <2>3, <2>4 DEF Books
    <2>6. KeepsAccount(live', executions)
      BY <2>2, <2>5 DEF Books, AccountInv, KeepsAccount
    <2> QED
      BY <2>2, <2>6 DEF AccountInv
  <1>3. CASE EntersOne
    <2>1. PICK x \in executions \ live.applied :
              /\ Enters(live, live', x) /\ disk = live /\ disk' \in {disk, live'}
              /\ x.order \in BookedOrders(live) /\ SameMandate(live, live')
              /\ executions' = executions
      BY <1>3 DEF EntersOne
    <2>2. /\ x \in Execution /\ live.applied \subseteq Execution
          /\ IsFiniteSet(live.applied)
      BY TypesOfInv, PossibleAreExecutions, FS_Subset DEF BrokerTypeOK
    <2>3. KeepsAccount(live', executions)
      BY <2>1, <2>2, EntersKeepsAccount DEF AccountInv, SameMandate
    <2> QED
      BY <2>1, <2>3 DEF AccountInv
  <1>4. CASE ApplyEvent
    BY <1>1, <1>3, <1>4, ApplyEventStep
  <1>5. CASE UNCHANGED vars
    BY <1>5 DEF vars, AccountInv
  <1> QED
    BY <1>1, <1>2, <1>4, <1>5, RegisterApprovalStep, CallSubmitStep, OtherStepKeeps, StepsOfNext

LEMMA AccountInvariance == Spec => []AccountInv
  BY InitEstablishesAccount, NextKeepsAccount, Invariance, PTL DEF Spec

-----------------------------------------------------------------------------
(* What every reachable state satisfies.                                    *)

(* Every variable keeps its type: the running operation always knows its    *)
(* order, and no evidence leaves a record in a state the kernel does not    *)
(* have (submit_canary_intent, apply_broker_event, open_durable).           *)
THEOREM TypeCorrect == Spec => []TypeOK
  <1>1. Inv => TypeOK
    BY DEF Inv, TypeInv
  <1> QED
    BY <1>1, Invariance, PTL

(* Between operations the audit journal's last record is the memory         *)
(* (persist).                                                               *)
THEOREM JournalCurrent == Spec => []JournalIsCurrent
  <1>1. Inv => JournalIsCurrent
    BY DEF Inv, JournalInv, JournalIsCurrent, Ready
  <1> QED
    BY <1>1, Invariance, PTL

(* Approvals, orders and the canary count agree one for one, in memory and  *)
(* in the journal (submit_canary_intent), and what is filled and spent is   *)
(* what the distinct executions make it (apply_accounted_fill), for any     *)
(* number of restarts, failed appends and repeated evidence.                *)
THEOREM BooksAccounted == Spec => []BooksAreAccounted
  <1>1. Inv /\ AccountInv => BooksAreAccounted
    BY AccountKept
    DEF Inv, MandateInv, WithinMandate, MandateIsAccounted, BooksAreAccounted
  <1> QED
    BY <1>1, Invariance, AccountInvariance, PTL

(* The venue holds no order without a spent approval in the journal, none   *)
(* twice and no more than the canary allows for (submit_canary_intent).     *)
THEOREM MandateBindsVenue == Spec => []VenueWithinMandate
  <1>1. ASSUME Inv PROVE VenueWithinMandate
    <2>1. OrdersAtVenue \subseteq BookedOrders(disk)
      BY <1>1 DEF Inv, SentInv, OrdersAtVenue
    <2>2. /\ MandateKept(disk) /\ IsFiniteSet(BookedOrders(disk))
          /\ disk.canary <= CanaryMaxOrders /\ disk.canary \in Nat
      BY <1>1, TypesOfInv DEF Inv, MandateInv, WithinMandate, PersistentState
    <2>3. Cardinality(OrdersAtVenue) <= CanaryMaxOrders
      <3>1. /\ IsFiniteSet(OrdersAtVenue)
            /\ Cardinality(OrdersAtVenue) <= Cardinality(BookedOrders(disk))
            /\ Cardinality(OrdersAtVenue) \in Nat /\ Cardinality(BookedOrders(disk)) \in Nat
        BY <2>1, <2>2, FS_Subset, FS_CardinalityType
      <3> QED
        BY <2>2, <3>1, LiveAssumption DEF MandateKept
    <2>4. ASSUME NEW o \in OrdersAtVenue
          PROVE  \E a \in Approvals : Binds[a] = o /\ disk.approvals[a] = "SPENT"
      <3>1. o \in BookedOrders(disk) /\ o \in Orders
        BY <2>1 DEF BookedOrders
      <3>2. disk.usedApproval[o] \in {a \in Approvals : disk.approvals[a] = "SPENT"}
        BY <2>2, <3>1 DEF MandateKept
      <3> QED
        BY <2>2, <3>1, <3>2 DEF MandateKept
    <2>5. \A o \in Orders : submits[o] <= 1
      BY <1>1 DEF Inv, SentInv
    <2> QED
      BY <2>3, <2>4, <2>5 DEF VenueWithinMandate
  <1> QED
    BY <1>1, Invariance, PTL

-----------------------------------------------------------------------------
(* What no step does.                                                       *)

(* No order is booked over an active kill switch, an unexplained incident   *)
(* or an UNKNOWN order in the journal, and an execution that overdraws the  *)
(* account leaves an incident in the same record (evaluate_risk,            *)
(* apply_broker_event).                                                     *)
THEOREM IncidentsBindEveryone == Spec => IncidentsBind
  <1> DEFINE A ==
          \A o \in BookedOrders(disk') \ BookedOrders(disk) :
              /\ ~disk.kill /\ disk.incidents = {}
              /\ \A p \in Orders : disk.orders[p].state # "UNKNOWN"
  <1> DEFINE B == disk.cash >= 0 /\ disk'.cash < 0 => NoOrder \in disk'.incidents
  <1>1. ASSUME Inv, Next PROVE A
    <2>1. CASE \E o \in Orders, a \in Approvals : SubmitIntent(o, a)
      <3>1. PICK o \in Orders, a \in Approvals : SubmitIntent(o, a)
        BY <2>1
      <3>2. disk = live /\ Cleared
        BY <1>1, <3>1, SubmitIntentFacts DEF SubmitIntent, RiskApproves
      <3> QED
        BY <3>2 DEF Cleared, StateOf
    <2>2. BookedOrders(disk') = BookedOrders(disk) => A
      OBVIOUS
    <2> QED
      BY <1>1, <2>1, <2>2, RegisterApprovalStep, CallSubmitStep, ApplyEventStep, OtherStepKeeps,
         StepsOfNext DEF MandateUnchanged, AccountUnchanged, SameMandate
  <1>2. ASSUME Inv, Next PROVE B
    <2>1. disk'.cash = disk.cash => B
      BY <1>2, TypesOfInv DEF PersistentState
    <2>2. AccountUnchanged => disk'.cash = disk.cash
      BY DEF AccountUnchanged, SameAccount
    <2>3. CASE \E o \in Orders, a \in Approvals : SubmitIntent(o, a)
      BY <1>2, <2>1, <2>3, SubmitIntentFacts DEF Books
    <2>4. CASE EntersOne
      <3>1. PICK x \in executions \ live.applied :
                Enters(live, live', x) /\ disk = live /\ disk' \in {disk, live'}
        BY <2>4 DEF EntersOne
      <3>2. x \in Execution /\ live.cash \in Int
        BY <1>2, TypesOfInv, PossibleAreExecutions DEF BrokerTypeOK, PersistentState
      <3> QED
        BY <3>1, <3>2 DEF Enters, Execution
    <2> QED
      BY <1>2, <2>1, <2>2, <2>3, <2>4, RegisterApprovalStep, CallSubmitStep, ApplyEventStep,
         OtherStepKeeps, StepsOfNext
  <1>3. Inv /\ [Next]_vars => [A]_vars
    BY <1>1
  <1>4. Inv /\ [Next]_vars => [B]_vars
    BY <1>2
  <1>5. Spec => BookedOnlyWhenCleared
    BY <1>3, Invariance, PTL DEF Spec, BookedOnlyWhenCleared
  <1>6. Spec => OverdraftIsIncident
    BY <1>4, Invariance, PTL DEF Spec, OverdraftIsIncident
  <1> QED
    BY <1>5, <1>6 DEF IncidentsBind

(* Every command reaches the venue only when the journal records the order  *)
(* as waiting for it, and after a failed append nothing is journaled or     *)
(* sent (submit_canary_intent, cancel_order, replace_order, persist,        *)
(* ensure_audit_healthy).                                                   *)
THEOREM JournalLeadsCommands == Spec => JournalRulesCommands
  <1> DEFINE A == \A o \in Orders :
          /\ ~Known(o) /\ Known(o)' => disk.orders[o].state = "PENDING_SUBMIT"
          /\ "CANCEL" \in venue'[o].asked \ venue[o].asked
                => disk.orders[o].state = "PENDING_CANCEL"
          /\ call.at = "replacing" /\ call.order = o /\ venue'[o].asked # venue[o].asked
                => disk.orders[o].state = "PENDING_REPLACE"
  <1> DEFINE B ==
          ~healthy /\ ~healthy' =>
              /\ UNCHANGED <<disk, submits>>
              /\ ~connected'
              /\ \A o \in Orders : "CANCEL" \in venue'[o].asked => "CANCEL" \in venue[o].asked
  <1>1. ASSUME Inv, Next PROVE A
    <2>1. call.at \in {"submitting", "cancelling", "replacing"} =>
              healthy /\ disk = live /\ call.order \in Orders
      BY <1>1, CallTypes DEF Inv, StageInv, Fits, OrderStages, JournalInv
    <2>2. /\ call.at = "submitting" => disk.orders[call.order].state = "PENDING_SUBMIT"
          /\ call.at = "cancelling" => disk.orders[call.order].state = "PENDING_CANCEL"
          /\ call.at = "replacing" => disk.orders[call.order].state = "PENDING_REPLACE"
      BY <1>1, <2>1 DEF Inv, StageInv, Fits
    <2>3. ASSUME \A p \in Orders :
                    /\ Known(p)' => Known(p)
                    /\ "CANCEL" \in venue'[p].asked => "CANCEL" \in venue[p].asked
          PROVE  A
      BY <2>2, <2>3
    <2>4. CASE CallSubmit
      <3>1. PICK answer \in SubmitAnswers : BrokerSubmit(call.order, answer)
        BY <2>4 DEF CallSubmit
      <3>2. \A p \in Orders :
                /\ Known(p)' => Known(p) \/ p = call.order
                /\ "CANCEL" \in venue'[p].asked => "CANCEL" \in venue[p].asked
        BY <1>1, <2>1, <2>4, <3>1, TypesOfInv, BrokerSubmitStep DEF CallSubmit
      <3>3. call.at = "submitting"
        BY <2>4 DEF CallSubmit
      <3> QED
        BY <2>2, <3>2, <3>3
    <2>5. CASE CallCancel
      <3>1. call.at = "cancelling"
        BY <2>5 DEF CallCancel
      <3>2. CASE BrokerCancel(call.order)
        <4>1. \A p \in Orders :
                  /\ Known(p)' <=> Known(p)
                  /\ "CANCEL" \in venue'[p].asked
                        => "CANCEL" \in venue[p].asked \/ p = call.order
          BY <1>1, <2>1, <3>1, <3>2, TypesOfInv, BrokerCancelStep
        <4> QED
          BY <2>2, <3>1, <4>1
      <3>3. CASE UNCHANGED brokerVars
        BY <2>3, <3>3 DEF brokerVars, Known
      <3> QED
        BY <2>5, <3>2, <3>3 DEF CallCancel
    <2>6. CASE CallReplace
      <3>1. CASE BrokerReplace(call.order)
        <4>1. \A p \in Orders :
                  /\ Known(p)' <=> Known(p)
                  /\ "CANCEL" \in venue'[p].asked => "CANCEL" \in venue[p].asked
          BY <1>1, <2>1, <2>6, <3>1, TypesOfInv, BrokerReplaceStep DEF CallReplace
        <4> QED
          BY <2>3, <4>1
      <3>2. CASE UNCHANGED brokerVars
        BY <2>3, <3>2 DEF brokerVars, Known
      <3> QED
        BY <2>6, <3>1, <3>2 DEF CallReplace
    <2>7. CASE VenueStep
      BY <1>1, <2>3, <2>7, VenueStepLemma DEF VenueStepFacts
    <2>8. ASSUME ~CallSubmit, ~CallCancel, ~CallReplace, ~VenueStep
          PROVE  UNCHANGED venue
      <3>1. CASE \E a \in Approvals :
                    \/ RegisterApproval(a) \/ Lapse(a)
                    \/ \E o \in Orders : SubmitIntent(o, a) \/ RefuseIntent(o, a)
        BY <3>1 DEF RegisterApproval, Lapse, SubmitIntent, RefuseIntent, brokerVars
      <3>2. CASE \E o \in Orders : CancelOrder(o) \/ ReplaceOrder(o)
        BY <3>2 DEF CancelOrder, ReplaceOrder, brokerVars
      <3>3. CASE RecordSubmit \/ RecordSent \/ RecordFailure \/ ApplyEvent \/ FinishDrain
        BY <3>3 DEF RecordSubmit, RecordSent, RecordFailure, ApplyEvent, FinishDrain, brokerVars
      <3>4. CASE Reconnect \/ Synchronize \/ Restart
        BY <3>4 DEF Reconnect, Synchronize, Restart, BridgeRestart, brokerVars
      <3>5. CASE \/ \E s \in live.incidents : ExplainIncident(s)
                 \/ \E active \in BOOLEAN : SwitchKill(active)
                 \/ Connect \/ LoseSession \/ Reconcile \/ RecordShadow \/ Expire
        BY <3>5 DEF ExplainIncident, SwitchKill, Connect, LoseSession, Reconcile, RecordShadow,
                    Expire, brokerVars
      <3> QED
        BY <1>1, <2>8, <3>1, <3>2, <3>3, <3>4, <3>5 DEF Next, ServiceStep, OperatorStep
    <2>9. CASE UNCHANGED venue
      BY <2>3, <2>9 DEF Known
    <2> QED
      BY <2>4, <2>5, <2>6, <2>7, <2>8, <2>9
  <1>2. ASSUME Inv, Next, ~healthy, ~healthy'
        PROVE  B
    <2>1. call.at = "idle" /\ ~connected
      BY <1>2, CallTypes DEF Inv, JournalInv
    <2>2. ~ServiceStep
      BY <2>1 DEF ServiceStep, CallSubmit, RecordSubmit, CallCancel, CallReplace, RecordSent,
                  RecordFailure, ApplyEvent, FinishDrain
    <2>3. ~Restart
      BY <1>2 DEF Restart
    <2>4. CASE Expire \/ \E a \in Approvals : Lapse(a)
      BY <2>1, <2>4 DEF Expire, Lapse, brokerVars, historyVars
    <2>5. ASSUME OperatorStep
          PROVE  Expire \/ \E a \in Approvals : Lapse(a)
      BY <1>2, <2>1, <2>5
      DEF OperatorStep, RegisterApproval, SubmitIntent, RefuseIntent, CancelOrder, ReplaceOrder,
          ExplainIncident, SwitchKill, Connect, Reconnect, LoseSession, Synchronize, Reconcile,
          RecordShadow, Mandated, CanaryReady, Ready
    <2>6. CASE VenueStep
      BY <1>2, <2>1, <2>6, VenueStepLemma DEF VenueStepFacts
    <2> QED
      BY <1>2, <2>2, <2>3, <2>4, <2>5, <2>6 DEF Next
  <1>3. Inv /\ [Next]_vars => [A]_vars
    BY <1>1
  <1>4. Inv /\ [Next]_vars => [B]_vars
    BY <1>2
  <1>5. Spec => CommandsAreJournaled
    BY <1>3, Invariance, PTL DEF Spec, CommandsAreJournaled
  <1>6. Spec => HaltsOnAuditFailure
    BY <1>4, Invariance, PTL DEF Spec, HaltsOnAuditFailure
  <1> QED
    BY <1>5, <1>6 DEF JournalRulesCommands

-----------------------------------------------------------------------------
(* Refinement.                                                              *)

(* The kernel, with all its operations, evidence, crashes and faults, keeps *)
(* the mandate of CanaryLedger: its audit journal is the ledger.            *)
THEOREM KernelImplementsCanaryLedger == Spec => ImplementsCanaryLedger
  <1> DEFINE Given == {a \in Approvals : disk.approvals[a] # "NONE"}
  <1> DEFINE Spent == {a \in Approvals : disk.approvals[a] = "SPENT"}
  <1> DEFINE Sent == {o \in Orders : submits[o] > 0}
  <1>1. Init => Ledger!Init
    BY DEF Init, AbsentOrder, BookedOrders, Ledger!Init
  <1>2. ASSUME Inv, Next
        PROVE  Ledger!Next \/ UNCHANGED Ledger!canaryVars
    <2>1. disk.approvals \in [Approvals -> {"NONE", "OPEN", "SPENT"}]
      BY <1>2, TypesOfInv DEF PersistentState
    <2>2. ASSUME MandateUnchanged PROVE UNCHANGED Ledger!canaryVars
      BY <2>2 DEF MandateUnchanged, SameMandate, Ledger!canaryVars
    <2>3. CASE \E o \in Orders, a \in Approvals : SubmitIntent(o, a)
      <3>1. PICK o \in Orders, a \in Approvals : SubmitIntent(o, a)
        BY <2>3
      <3>2. disk = live /\ Books(o, a) /\ disk' \in {disk, live'} /\ UNCHANGED submits
        BY <1>2, <3>1, SubmitIntentFacts
      <3>3. CASE disk' = disk
        BY <3>2, <3>3 DEF Ledger!canaryVars
      <3>4. CASE disk' = live'
        <4>1. /\ o \notin BookedOrders(disk) /\ BookedOrders(disk') = BookedOrders(disk) \union {o}
              /\ disk.approvals[a] = "OPEN" /\ Binds[a] = o
              /\ disk'.approvals = [disk.approvals EXCEPT ![a] = "SPENT"]
          BY <3>2, <3>4 DEF Books
        <4>2. Given' = Given /\ Spent' = Spent \union {a} /\ Sent' = Sent /\ a \in Given \ Spent
          BY <2>1, <3>2, <4>1
        <4>3. Cardinality(BookedOrders(disk)) < CanaryMaxOrders
          BY <1>2, <3>2 DEF Books, Inv, MandateInv, WithinMandate, MandateKept
        <4>4. Ledger!Cardinality(BookedOrders(disk)) = Cardinality(BookedOrders(disk))
          BY DEF Cardinality, Ledger!Cardinality
        <4> QED
          BY <4>1, <4>2, <4>3, <4>4 DEF Ledger!Next, Ledger!Book
      <3> QED
        BY <3>2, <3>3, <3>4
    <2>4. CASE \E a \in Approvals : RegisterApproval(a)
      <3>1. PICK a \in Approvals : RegisterApproval(a)
        BY <2>4
      <3>2. /\ disk.approvals[a] = "NONE" /\ BookedOrders(disk') = BookedOrders(disk)
            /\ disk'.approvals \in {disk.approvals, [disk.approvals EXCEPT ![a] = "OPEN"]}
            /\ UNCHANGED submits
        BY <1>2, <3>1, RegisterApprovalStep
      <3>3. CASE disk'.approvals = disk.approvals
        BY <3>2, <3>3 DEF Ledger!canaryVars
      <3>4. CASE disk'.approvals = [disk.approvals EXCEPT ![a] = "OPEN"]
        <4>1. Given' = Given \union {a} /\ a \notin Given /\ Spent' = Spent /\ Sent' = Sent
          BY <2>1, <3>2, <3>4
        <4> QED
          BY <3>2, <4>1 DEF Ledger!Next, Ledger!Approve
      <3> QED
        BY <3>2, <3>3, <3>4
    <2>5. CASE CallSubmit
      <3> DEFINE o == call.order
      <3>1. /\ o \in Orders /\ o \in BookedOrders(disk) /\ submits[o] = 0
            /\ submits \in [Orders -> Nat]
            /\ submits' = [submits EXCEPT ![o] = @ + 1] /\ UNCHANGED disk
        BY <1>2, <2>5, CallTypes, TypesOfInv
        DEF CallSubmit, Inv, StageInv, Fits, OrderStages, JournalInv
      <3>2. Sent' = Sent \union {o} /\ o \notin Sent
        BY <3>1
      <3> QED
        BY <3>1, <3>2 DEF Ledger!Next, Ledger!Send
    <2>6. CASE ApplyEvent
      BY <1>2, <2>2, <2>6, ApplyEventStep
    <2>7. CASE OtherStep
      BY <1>2, <2>2, <2>7, OtherStepKeeps
    <2> QED
      BY <1>2, <2>3, <2>4, <2>5, <2>6, <2>7, StepsOfNext
  <1>3. UNCHANGED vars => UNCHANGED Ledger!canaryVars
    BY DEF vars, Ledger!canaryVars
  <1>4. Inv /\ [Next]_vars => [Ledger!Next]_Ledger!canaryVars
    BY <1>2, <1>3
  <1> QED
    BY <1>1, <1>4, Invariance, PTL DEF Spec, ImplementsCanaryLedger, Ledger!Spec

-----------------------------------------------------------------------------
(***************************************************************************)
(* The capital ceiling of LiveKernel, for any number of orders, any         *)
(* quantities, limits and bounds, and any set of faults: what the venue has *)
(* bought and may still buy stays within max_deployed_capital.              *)
(*                                                                         *)
(* evaluate_risk sees only the kernel's own records, so the argument is     *)
(* about how far these can be from the venue.  A working order counts with  *)
(* its whole quantity; a closed one counts with what it is known to have    *)
(* filled, which must not be less than what the venue can make of it.       *)
(* BehindInv says that a record closed too early has an execution still to  *)
(* come, and that such an order is noted as late; QueueInv that a closing   *)
(* status waiting in the queue cannot create such a record without one;     *)
(* CashInv that cash is what the fills make it; CapitalInv that the orders  *)
(* as recorded stay within the ceiling, in memory and in the journal.       *)
(***************************************************************************)

BehindInv == Behind(live, venue) /\ Behind(disk, venue) /\ Noted(live, venue, late)

Queue == call.events \o pending
QueueInv == ClosingsHold(Queue, executions \ live.applied, OrdersAtVenue, OpenAtVenue)

(* A rejection about to be recorded.                                        *)
RejectInv ==
    call.at = "submitted" /\ call.answer = "REJECTED" /\ WorkingAtVenue(call.order)
        => live.orders[call.order].filled < venue[call.order].filled

FilledIn(state) == [o \in Orders |-> state.orders[o].filled]
Exposure(state) ==
    [o \in Orders |-> IF IsWorking(state.orders[o]) THEN Qty[o] ELSE state.orders[o].filled]

CashKept(state) == state.cash = InitialCash - SumOf(FilledIn(state), Orders)
CashInv == CashKept(live) /\ CashKept(disk)

Within(state) == SumOf(Exposure(state), Orders) <= MaxDeployed
CapitalInv == late = {} => Within(live) /\ Within(disk)

-----------------------------------------------------------------------------
(* The venue's own account holds at every step.                             *)

LEMMA InitEstablishesVenueAccount == Init => VenueAccount
  <1> SUFFICES ASSUME Init PROVE VenueAccount
    OBVIOUS
  <1>1. executions = {} /\ \A o \in Orders : venue[o].filled = 0 /\ OfOrder(executions, o) = {}
    BY DEF Init, BrokerInit, NeverReceived, OfOrder
  <1>2. LotsIn({}) = 0
    BY FS_EmptySet, LotsWith
  <1>3. \A o \in Orders : 0 <= Qty[o]
    BY BrokerAssumption
  <1>4. \A o \in Orders : ~WorkingAtVenue(o)
    BY DEF Init, BrokerInit, NeverReceived, WorkingAtVenue, Known
  <1> QED
    BY <1>1, <1>2, <1>3, <1>4 DEF VenueAccount

(* What a call of the kernel to the broker, or the venue, may do.           *)
LEMMA VenueMovesInStep ==
    ASSUME Inv, VenueAccount, VenueStep
    PROVE  VenueOrdersMove /\ QueueMoves
  <1>1. BrokerTypeOK /\ IsFiniteSet(executions)
    BY TypesOfInv
  <1>2. ASSUME NEW o \in Orders, NEW n \in 1..Qty[o], AtVenue(VenueExecute(o, n))
        PROVE  VenueOrdersMove /\ QueueMoves
    BY <1>1, <1>2, VenueExecuteMoves DEF AtVenue
  <1>3. ASSUME NEW o \in Orders, NEW type \in Closings, AtVenue(VenueClose(o, type))
        PROVE  VenueOrdersMove /\ QueueMoves
    BY <1>1, <1>3, VenueCloseMoves DEF AtVenue
  <1>4. ASSUME NEW o \in Orders,
               \/ AtVenue(VenueRejectCancel(o)) \/ AtVenue(VenueRejectReplace(o))
               \/ AtVenue(VenueModify(o)) \/ AtVenue(VenueReplace(o))
        PROVE  VenueOrdersMove /\ QueueMoves
    BY <1>1, <1>4, VenueAnswerMoves DEF AtVenue
  <1>5. ASSUME NEW x \in executions, AtVenue(EmitExecution(x))
        PROVE  VenueOrdersMove /\ QueueMoves
    BY <1>1, <1>5, EmitMoves DEF AtVenue
  <1> QED
    BY <1>2, <1>3, <1>4, <1>5 DEF VenueStep

LEMMA CallBrokerMoves ==
    ASSUME Inv, VenueAccount, CallCancel \/ CallReplace
    PROVE  /\ VenueOrdersMove /\ QueueMoves
           /\ \A o \in Orders : ~Known(o) => ~Known(o)'
  <1>1. call.at \in {"cancelling", "replacing"}
    BY DEF CallCancel, CallReplace
  <1>2. call.order \in Orders
    BY <1>1, CallTypes DEF Inv, StageInv, Fits, OrderStages
  <1>3. BrokerCancel(call.order) \/ BrokerReplace(call.order) \/ UNCHANGED brokerVars
    BY DEF CallCancel, CallReplace
  <1>4. CASE BrokerCancel(call.order) \/ BrokerReplace(call.order)
    <2>1. VenueOrdersMove /\ QueueMoves
      BY <1>2, <1>4, TypesOfInv, RequestMoves
    <2>2. \A o \in Orders : Known(o)' <=> Known(o)
      BY <1>2, <1>4, TypesOfInv, BrokerCancelStep, BrokerReplaceStep
    <2> QED
      BY <2>1, <2>2
  <1>5. CASE UNCHANGED brokerVars
    BY <1>5, TypesOfInv, VenueKeepsStill DEF brokerVars, QueueMoves, Known
  <1> QED
    BY <1>3, <1>4, <1>5

LEMMA CallSubmitMoves ==
    ASSUME Inv, VenueAccount, CallSubmit
    PROVE  /\ VenueOrdersMove /\ QueueMoves
           /\ \E o \in Orders :
                 /\ o = call.order /\ ~Known(o)
                 /\ live.orders[o].state = "PENDING_SUBMIT"
                 /\ \A p \in Orders \ {o} : ~Known(p) => ~Known(p)'
                 /\ call'.at = "submitted" /\ call'.order = o
                 /\ call'.answer = "REJECTED" => ~OpenAt(venue', o)
           /\ call'.events = call.events /\ call.events = <<>>
           /\ disk = live /\ UNCHANGED <<live, disk, late>>
  <1>1. PICK answer \in SubmitAnswers :
            /\ BrokerSubmit(call.order, answer)
            /\ call' = [call EXCEPT !.at = "submitted", !.answer = answer]
    BY DEF CallSubmit
  <1>2. PICK o \in Orders : o = call.order
    BY CallTypes DEF CallSubmit, Inv, StageInv, Fits, OrderStages
  <1>3. /\ submits[o] = 0 /\ disk = live /\ call \in Call
        /\ live.orders[o].state = "PENDING_SUBMIT" /\ call.events = <<>>
    BY <1>2, CallTypes, TypesOfInv DEF CallSubmit, Inv, StageInv, Fits, OrderStages, JournalInv
  <1>4. ~Known(o)
    BY <1>3 DEF Inv, SentInv
  <1>5. BrokerSubmit(o, answer)
    BY <1>1, <1>2
  <1>6. /\ VenueOrdersMove /\ QueueMoves
        /\ answer = "REJECTED" => ~WorkingAtVenue(o)'
        /\ \A p \in Orders \ {o} : ~Known(p) => ~Known(p)'
    BY <1>4, <1>5, TypesOfInv, SubmitMoves
  <1>7. /\ call'.at = "submitted" /\ call'.order = o /\ call'.answer = answer
        /\ call'.events = call.events
    BY <1>1, <1>2, <1>3 DEF Call
  <1>8. WorkingAtVenue(o)' <=> OpenAt(venue', o)
    BY DEF WorkingAtVenue, Known, OpenAt
  <1>9. UNCHANGED <<live, disk, late>>
    BY DEF CallSubmit
  <1> QED
    BY <1>2, <1>3, <1>4, <1>6, <1>7, <1>8, <1>9

(* Only these reach the venue or are its own.                               *)
AtBroker == CallSubmit \/ CallCancel \/ CallReplace \/ VenueStep

LEMMA VenueStaysElsewhere ==
    ASSUME [Next]_vars, ~AtBroker
    PROVE  UNCHANGED <<venue, executions>>
  <1> USE DEF brokerVars, BridgeRestart
  <1>1. CASE ServiceStep
    BY <1>1 DEF ServiceStep, AtBroker, RecordSubmit, RecordSent, RecordFailure, ApplyEvent,
                FinishDrain
  <1>2. CASE OperatorStep
    BY <1>2 DEF OperatorStep, RegisterApproval, Lapse, SubmitIntent, RefuseIntent, CancelOrder,
                ReplaceOrder, ExplainIncident, SwitchKill, Connect, Reconnect, LoseSession,
                Synchronize, Reconcile, RecordShadow, Expire
  <1>3. CASE Restart
    BY <1>3 DEF Restart
  <1>4. CASE UNCHANGED vars
    BY <1>4 DEF vars
  <1> QED
    BY <1>1, <1>2, <1>3, <1>4 DEF Next, AtBroker

LEMMA NextKeepsVenueAccount == Inv /\ VenueAccount /\ [Next]_vars => VenueAccount'
  <1> SUFFICES ASSUME Inv, VenueAccount, [Next]_vars PROVE VenueAccount'
    OBVIOUS
  <1>1. CASE AtBroker
    BY <1>1, VenueMovesInStep, CallBrokerMoves, CallSubmitMoves DEF AtBroker, VenueOrdersMove
  <1>2. CASE ~AtBroker
    BY <1>2, VenueStaysElsewhere, TypesOfInv, VenueKeepsStill DEF VenueOrdersMove
  <1> QED
    BY <1>1, <1>2

-----------------------------------------------------------------------------
(* Cash is what the fills make it.                                          *)

LEMMA FillsAreNumbers ==
    ASSUME NEW state \in PersistentState
    PROVE  /\ \A o \in Orders : FilledIn(state)[o] \in Int /\ FilledIn(state)[o] \in Nat
           /\ \A o \in Orders : FilledIn(state)[o] = state.orders[o].filled
           /\ IsFiniteSet(Orders) /\ InitialCash \in Int
  BY FinitelyManyOrders, LiveAssumption DEF PersistentState, OrderRecord, FilledIn

LEMMA SameFillsKeepCash ==
    ASSUME NEW state \in PersistentState, NEW next \in PersistentState, CashKept(state),
           next.cash = state.cash,
           \A o \in Orders : next.orders[o].filled = state.orders[o].filled
    PROVE  CashKept(next)
  <1>1. FilledIn(next) = FilledIn(state)
    BY DEF FilledIn
  <1> QED
    BY <1>1 DEF CashKept

LEMMA EntersKeepsCash ==
    ASSUME NEW state \in PersistentState, NEW next \in PersistentState, CashKept(state),
           NEW x \in Execution, Enters(state, next, x)
    PROVE  CashKept(next)
  <1> DEFINE f == FilledIn(state)
  <1> DEFINE g == FilledIn(next)
  <1>1. /\ \A o \in Orders : f[o] \in Int /\ g[o] \in Int
        /\ \A o \in Orders : f[o] = state.orders[o].filled /\ g[o] = next.orders[o].filled
        /\ IsFiniteSet(Orders) /\ InitialCash \in Int
    BY FillsAreNumbers
  <1>2. x.order \in Orders /\ x.qty \in Nat
    BY DEF Execution
  <1> HIDE DEF f, g
  <1>3. /\ g[x.order] = f[x.order] + x.qty
        /\ \A o \in Orders : o # x.order => f[o] = g[o]
    BY <1>1, <1>2 DEF Enters
  <1>4. SumOf(g, Orders) = SumOf(f, Orders) - f[x.order] + g[x.order]
    BY <1>1, <1>2, <1>3, SumChange
  <1>5. SumOf(f, Orders) \in Int
    BY <1>1, SumOfParts
  <1>6. next.cash = state.cash - x.qty /\ state.cash = InitialCash - SumOf(f, Orders)
    BY DEF Enters, CashKept, f
  <1>7. next.cash = InitialCash - SumOf(g, Orders)
    BY <1>1, <1>2, <1>3, <1>4, <1>5, <1>6
  <1> QED
    BY <1>7 DEF CashKept, g

LEMMA InitEstablishesCash == Init => CashInv
  <1> SUFFICES ASSUME Init PROVE CashInv
    OBVIOUS
  <1>1. /\ live \in PersistentState /\ disk = live /\ live.cash = InitialCash
        /\ \A o \in Orders : live.orders[o].filled = 0
    BY InitEstablishesInv, TypesOfInv DEF Init, AbsentOrder
  <1> DEFINE f == FilledIn(live)
  <1>2. \A o \in Orders : f[o] = 0
    BY <1>1 DEF FilledIn
  <1> HIDE DEF f
  <1>3. SumOf(f, Orders) = 0
    BY <1>2, FinitelyManyOrders, SumOfZeros
  <1>4. InitialCash - 0 = InitialCash
    BY LiveAssumption
  <1> QED
    BY <1>1, <1>3, <1>4 DEF CashInv, CashKept, f

LEMMA NextKeepsCash == Inv /\ Inv' /\ AccountInv /\ CashInv /\ [Next]_vars => CashInv'
  <1> SUFFICES ASSUME Inv, Inv', AccountInv, CashInv, [Next]_vars PROVE CashInv'
    OBVIOUS
  <1>1. /\ live \in PersistentState /\ disk \in PersistentState
        /\ live' \in PersistentState /\ disk' \in PersistentState
        /\ live.orders \in [Orders -> OrderRecord]
        /\ CashKept(live) /\ CashKept(disk)
    BY TypesOfInv DEF Inv, TypeInv, TypeOK, CashInv
  <1>2. CASE AccountUnchanged
    BY <1>1, <1>2, SameFillsKeepCash DEF AccountUnchanged, SameAccount, CashInv
  <1>3. CASE \E o \in Orders, a \in Approvals : SubmitIntent(o, a)
    <2>1. PICK o \in Orders, a \in Approvals : SubmitIntent(o, a)
      BY <1>3
    <2>2. Books(o, a) /\ disk = live /\ disk' \in {disk, live'}
      BY <2>1, SubmitIntentFacts
    <2>3. live.orders[o].filled = 0 /\ NewOrder.filled = 0
      BY <2>2 DEF Books, AccountInv, KeepsAccount, NewOrder, AbsentOrder
    <2>4. \A p \in Orders : live'.orders[p].filled = live.orders[p].filled
      BY <1>1, <2>2, <2>3 DEF Books
    <2>5. CashKept(live')
      BY <1>1, <2>2, <2>4, SameFillsKeepCash DEF Books
    <2> QED
      BY <1>1, <2>2, <2>5 DEF CashInv
  <1>4. CASE EntersOne
    <2>1. PICK x \in executions \ live.applied :
              Enters(live, live', x) /\ disk = live /\ disk' \in {disk, live'}
      BY <1>4 DEF EntersOne
    <2>2. x \in Execution
      BY TypesOfInv, PossibleAreExecutions DEF BrokerTypeOK
    <2>3. CashKept(live')
      BY <1>1, <2>1, <2>2, EntersKeepsCash
    <2> QED
      BY <1>1, <2>1, <2>3 DEF CashInv
  <1>5. CASE UNCHANGED vars
    BY <1>5 DEF vars, CashInv
  <1> QED
    BY <1>2, <1>3, <1>4, <1>5, RegisterApprovalStep, CallSubmitStep, ApplyEventStep,
       OtherStepKeeps, StepsOfNext

-----------------------------------------------------------------------------
(* How far the records can be from the venue.                               *)

(* Memory and journal of an account are never ahead of the venue.           *)
LEMMA AccountBehind ==
    ASSUME NEW state, NEW made, IsFiniteSet(made), made \subseteq PossibleExecutions,
           KeepsAccount(state, made), NEW v,
           \A o \in Orders : v[o].filled = LotsIn(OfOrder(made, o))
    PROVE  /\ \A o \in Orders : /\ state.orders[o].filled <= v[o].filled
                                /\ state.orders[o].filled \in Nat /\ v[o].filled \in Nat
           /\ \A x \in made \ state.applied :
                 x.order \in Orders => state.orders[x.order].filled < v[x.order].filled
  BY FilledBehind DEF KeepsAccount

LEMMA FollowsKeepsWithin ==
    ASSUME NEW state \in PersistentState, NEW next \in PersistentState, NEW v,
           Noted(state, v, {}), Within(state),
           \A o \in Orders : /\ Follows(state.orders[o], next.orders[o], Qty[o], v[o])
                             /\ next.orders[o].filled <= Qty[o]
    PROVE  Within(next)
  <1> DEFINE f == Exposure(next)
  <1> DEFINE g == Exposure(state)
  <1>1. ASSUME NEW o \in Orders
        PROVE  f[o] \in Int /\ g[o] \in Int /\ f[o] <= g[o]
    <2>1. /\ state.orders[o].filled \in Nat /\ next.orders[o].filled \in Nat /\ Qty[o] \in Nat
          /\ next.orders[o].filled <= Qty[o]
      BY BrokerAssumption DEF PersistentState, OrderRecord
    <2>2. /\ f[o] = IF next.orders[o].state \in Working THEN Qty[o] ELSE next.orders[o].filled
          /\ g[o] = IF state.orders[o].state \in Working THEN Qty[o] ELSE state.orders[o].filled
      BY DEF Exposure, IsWorking
    <2>3. ~(state.orders[o].state \in Closed /\ state.orders[o].filled < v[o].filled)
      BY DEF Noted
    <2> HIDE DEF f, g
    <2>4. Follows(state.orders[o], next.orders[o], Qty[o], v[o])
      OBVIOUS
    <2> QED
      BY <2>1, <2>2, <2>3, <2>4, StatesApart DEF Follows
  <1>2. IsFiniteSet(Orders) /\ MaxDeployed \in Int
    BY FinitelyManyOrders, LiveAssumption
  <1> HIDE DEF f, g
  <1>3. SumOf(f, Orders) <= SumOf(g, Orders) /\ SumOf(f, Orders) \in Int /\ SumOf(g, Orders) \in Int
    BY <1>1, <1>2, SumGrows, SumOfParts
  <1>4. SumOf(g, Orders) <= MaxDeployed
    BY DEF Within, g
  <1>5. SumOf(f, Orders) <= MaxDeployed
    BY <1>2, <1>3, <1>4
  <1> QED
    BY <1>5 DEF Within, f

-----------------------------------------------------------------------------
(* Steps that leave the venue alone.                                        *)

KernelMoves ==
    /\ UNCHANGED <<venue, executions>>
    /\ \A o \in Orders : Follows(live.orders[o], live'.orders[o], Qty[o], venue[o])
    /\ disk' = disk \/ (disk = live /\ disk' = live')
    /\ late \subseteq late' /\ Noted(live', venue', late')
    /\ QueueInv' /\ RejectInv'

(* Of these, the ones that apply no evidence.                               *)
StillMoves ==
    /\ UNCHANGED <<venue, executions>> /\ live'.applied = live.applied
    /\ \A o \in Orders : Follows(live.orders[o], live'.orders[o], Qty[o], venue[o])
    /\ disk' = disk \/ (disk = live /\ disk' = live')
    /\ \/ UNCHANGED <<call, pending, live>>
       \/ /\ call'.at # "submitted"
          /\ \/ call'.events = <<>> /\ pending' \in {pending, <<>>}
             \/ call'.events = pending /\ pending' = <<>>
    /\ \/ NoteLate
       \/ /\ late' = late
          /\ \A o \in Orders : \/ live'.orders[o] = live.orders[o]
                               \/ live'.orders[o].state \in Working

LEMMA QueueKept ==
    ASSUME Inv, QueueInv, UNCHANGED <<venue, executions>>, live'.applied = live.applied,
           \/ UNCHANGED <<call, pending>>
           \/ call'.events = <<>> /\ pending' \in {pending, <<>>}
           \/ call'.events = pending /\ pending' = <<>>
    PROVE  QueueInv'
  <1>1. pending \in Seq(Event) /\ call.events \in Seq(Event)
    BY TypesOfInv DEF BrokerTypeOK
  <1>2. Queue' \in {Queue, pending, <<>>}
    <2>1. /\ <<>> \o pending = pending /\ pending \o <<>> = pending
          /\ <<>> \o <<>> = <<>>
      BY <1>1
    <2>2. CASE UNCHANGED <<call, pending>>
      BY <2>2 DEF Queue
    <2>3. CASE call'.events = <<>> /\ pending' = pending
      BY <2>1, <2>3 DEF Queue
    <2>4. CASE call'.events = <<>> /\ pending' = <<>>
      BY <2>1, <2>4 DEF Queue
    <2>5. CASE call'.events = pending /\ pending' = <<>>
      BY <2>1, <2>5 DEF Queue
    <2> QED
      BY <2>2, <2>3, <2>4, <2>5
  <1>3. ClosingsHold(<<>>, executions \ live.applied, OrdersAtVenue, OpenAtVenue)
    BY DEF ClosingsHold
  <1>4. ClosingsHold(pending, executions \ live.applied, OrdersAtVenue, OpenAtVenue)
    BY <1>1, ClosingsSuffix DEF QueueInv, Queue
  <1>5. /\ OrdersAtVenue' = OrdersAtVenue /\ OpenAtVenue' = OpenAtVenue
        /\ (executions \ live.applied)' = executions \ live.applied
    BY DEF OrdersAtVenue, OpenAtVenue, WorkingAtVenue, Known
  <1> QED
    BY <1>2, <1>3, <1>4, <1>5 DEF QueueInv

LEMMA NoteLateNotes ==
    ASSUME NoteLate
    PROVE  late \subseteq late' /\ Noted(live', venue', late')
  <1>1. ASSUME NEW o \in Orders, live'.orders[o].state \in Closed,
               live'.orders[o].filled < venue'[o].filled
        PROVE  venue'[o].filled > live'.orders[o].filled
    BY <1>1
  <1> QED
    BY <1>1 DEF NoteLate, Noted

LEMMA StillIsKernelMove ==
    ASSUME Inv, BehindInv, QueueInv, RejectInv, StillMoves
    PROVE  KernelMoves
  <1>1. QueueInv'
    BY QueueKept DEF StillMoves
  <1>2. RejectInv'
    BY DEF StillMoves, RejectInv, WorkingAtVenue, Known
  <1>3. late \subseteq late' /\ Noted(live', venue', late')
    <2>1. CASE NoteLate
      BY <2>1, NoteLateNotes
    <2>2. CASE /\ late' = late
               /\ \A o \in Orders : \/ live'.orders[o] = live.orders[o]
                                    \/ live'.orders[o].state \in Working
      BY <2>2, StatesApart DEF StillMoves, BehindInv, Noted
    <2> QED
      BY <2>1, <2>2 DEF StillMoves
  <1> QED
    BY <1>1, <1>2, <1>3 DEF StillMoves, KernelMoves

LEMMA SavedIsStill ==
    ASSUME Inv, call.at # "idle" \/ healthy, NEW next, NEW up, Save(next, up),
           next.events = <<>>, next.at # "submitted"
    PROVE  /\ disk = live /\ disk' \in {disk, live'}
           /\ call'.events = <<>> /\ call'.at # "submitted"
  BY CallTypes DEF Inv, JournalInv, Save

(* The operations that touch no order.                                      *)
Untouching ==
    \/ \E a \in Approvals : RegisterApproval(a) \/ Lapse(a)
    \/ \E o \in Orders, a \in Approvals : RefuseIntent(o, a)
    \/ \E s \in live.incidents : ExplainIncident(s)
    \/ \E active \in BOOLEAN : SwitchKill(active)
    \/ RecordShadow \/ RecordSent \/ Connect \/ LoseSession \/ Reconcile
    \/ Reconnect \/ Synchronize \/ FinishDrain \/ Expire

LEMMA UntouchingMoves ==
    ASSUME Inv, Untouching
    PROVE  StillMoves
  <1>1. /\ live \in PersistentState /\ pending \in Seq(Event)
        /\ healthy => disk = live
        /\ Idle.events = <<>> /\ Idle.at # "submitted"
    BY TypesOfInv, CallTypes DEF BrokerTypeOK, Inv, JournalInv
  <1>2. ASSUME live'.orders = live.orders, live'.applied = live.applied, late' = late,
               UNCHANGED <<venue, executions>>,
               disk' = disk \/ (disk = live /\ disk' = live'),
               \/ UNCHANGED <<call, pending, live>>
               \/ /\ call'.at # "submitted"
                  /\ \/ call'.events = <<>> /\ pending' \in {pending, <<>>}
                     \/ call'.events = pending /\ pending' = <<>>
        PROVE  StillMoves
    BY <1>2 DEF StillMoves, Follows
  <1>3. ASSUME NEW next, NEW up, Save(next, up), next.events = <<>>, next.at # "submitted",
               call.at # "idle" \/ healthy, UNCHANGED <<venue, executions, late>>,
               pending' \in {pending, <<>>},
               live'.orders = live.orders, live'.applied = live.applied
        PROVE  StillMoves
    BY <1>2, <1>3, SavedIsStill
  <1>4. CASE \E a \in Approvals : RegisterApproval(a)
    <2>1. PICK a \in Approvals : RegisterApproval(a)
      BY <1>4
    <2>2. live'.orders = live.orders /\ live'.applied = live.applied
      BY <1>1, <2>1 DEF RegisterApproval, PersistentState
    <2> QED
      BY <1>1, <1>3, <2>1, <2>2 DEF RegisterApproval, Ready, brokerVars, historyVars
  <1>5. CASE \/ \E o \in Orders, a \in Approvals : RefuseIntent(o, a)
             \/ RecordShadow \/ RecordSent \/ Connect \/ LoseSession
    BY <1>1, <1>3, <1>5
    DEF RefuseIntent, Mandated, RecordShadow, RecordSent, Connect, LoseSession, CanaryReady,
        Ready, brokerVars, historyVars
  <1>6. CASE \E s \in live.incidents : ExplainIncident(s)
    <2>1. PICK s \in live.incidents : ExplainIncident(s)
      BY <1>6
    <2>2. live'.orders = live.orders /\ live'.applied = live.applied
      BY <1>1, <2>1 DEF ExplainIncident, PersistentState
    <2> QED
      BY <1>1, <1>3, <2>1, <2>2 DEF ExplainIncident, Ready, brokerVars, historyVars
  <1>7. CASE \E active \in BOOLEAN : SwitchKill(active)
    <2>1. PICK active \in BOOLEAN : SwitchKill(active)
      BY <1>7
    <2>2. live'.orders = live.orders /\ live'.applied = live.applied
      BY <1>1, <2>1 DEF SwitchKill, PersistentState
    <2> QED
      BY <1>1, <1>3, <2>1, <2>2 DEF SwitchKill, Ready, brokerVars, historyVars
  <1>8. CASE Reconcile
    <2>1. live'.orders = live.orders /\ live'.applied = live.applied
      BY <1>1, <1>8 DEF Reconcile, PersistentState
    <2> QED
      BY <1>1, <1>3, <1>8, <2>1 DEF Reconcile, CanaryReady, Ready, brokerVars
  <1>9. CASE Reconnect
    <2> DEFINE next == [Idle EXCEPT !.at = "reconnected"]
    <2>1. next.events = <<>> /\ next.at # "submitted"
      BY CallTypes DEF Call
    <2>2. Save(next, TRUE) /\ healthy /\ live' = live /\ UNCHANGED <<venue, executions, late>>
          /\ pending' \in {pending, <<>>}
      BY <1>9 DEF Reconnect, CanaryReady, Ready, brokerVars, historyVars, BridgeRestart
    <2> HIDE DEF next
    <2> QED
      BY <1>3, <2>1, <2>2
  <1>10. CASE Synchronize
    <2>1. call'.at # "submitted" /\ call'.events = pending
      BY <1>1, <1>10, CallTypes DEF Synchronize, Call
    <2> QED
      BY <1>2, <1>10, <2>1 DEF Synchronize, historyVars
  <1>11. CASE FinishDrain
    <2>1. call'.at # "submitted" /\ call'.events = <<>>
      BY <1>11, CallTypes, TypesOfInv DEF FinishDrain, Call
    <2> QED
      BY <1>2, <1>11, <2>1 DEF FinishDrain, historyVars, brokerVars
  <1>12. CASE Expire \/ \E a \in Approvals : Lapse(a)
    BY <1>2, <1>12 DEF Expire, Lapse, historyVars, brokerVars
  <1> QED
    BY <1>4, <1>5, <1>6, <1>7, <1>8, <1>9, <1>10, <1>11, <1>12 DEF Untouching

LEMMA OrderMoves ==
    ASSUME Inv, NEW o \in Orders, NEW record \in OrderRecord, SetOrder(o, record),
           live.orders[o].state \in Working, record.filled = live.orders[o].filled,
           \/ record.state \in Working
           \/ /\ record.state \in Closed /\ NoteLate
              /\ OpenAt(venue, o) => live.orders[o].filled < venue[o].filled,
           NEW next, NEW up, Save(next, up), next.events = <<>>, next.at # "submitted",
           call.at # "idle" \/ healthy, UNCHANGED brokerVars, late' = late \/ NoteLate
    PROVE  StillMoves
  <1>1. /\ live'.orders = [live.orders EXCEPT ![o] = record] /\ live'.applied = live.applied
        /\ live.orders \in [Orders -> OrderRecord]
    BY TypesOfInv, SetOrderFacts
  <1>2. \A p \in Orders : Follows(live.orders[p], live'.orders[p], Qty[p], venue[p])
    <2>1. ASSUME NEW p \in Orders, p # o
          PROVE  Follows(live.orders[p], live'.orders[p], Qty[p], venue[p])
      BY <1>1, <2>1 DEF Follows
    <2>2. Follows(live.orders[o], live'.orders[o], Qty[o], venue[o])
      BY <1>1 DEF Follows, OpenAt
    <2> QED
      BY <2>1, <2>2
  <1>3. \A p \in Orders : NoteLate \/ live'.orders[p] = live.orders[p]
                                   \/ live'.orders[p].state \in Working
    BY <1>1
  <1>4. UNCHANGED <<venue, executions, pending>>
    BY DEF brokerVars
  <1> QED
    BY <1>1, <1>2, <1>3, <1>4, SavedIsStill DEF StillMoves

LEMMA RecordSubmitMoves ==
    ASSUME Inv, RejectInv, RecordSubmit
    PROVE  StillMoves
  <1>1. PICK o \in Orders : o = call.order
    BY CallTypes DEF RecordSubmit, Inv, StageInv, Fits, OrderStages
  <1> DEFINE record == Answered(live.orders[o], call.answer)
  <1>2. /\ call.at = "submitted" /\ call.answer \in SubmitAnswers
        /\ live.orders[o].state = "PENDING_SUBMIT" /\ live.orders[o] \in OrderRecord
    BY <1>1, TypesOfInv DEF RecordSubmit, Inv, StageInv, Fits
  <1>3. record \in OrderRecord /\ record.filled = live.orders[o].filled
    BY <1>2, AnsweredIsStored DEF Answered, OrderRecord
  <1>4. \/ record.state \in Working
        \/ record.state = "REJECTED" /\ call.answer = "REJECTED"
    BY <1>2, StatesApart DEF Answered, SubmitAnswers, OrderRecord
  <1>5. call.answer = "REJECTED" /\ OpenAt(venue, o) => live.orders[o].filled < venue[o].filled
    BY <1>1, <1>2 DEF RejectInv, WorkingAtVenue, Known, OpenAt
  <1>6. SetOrder(o, record) /\ Save(Idle, call.answer # "ERROR")
        /\ UNCHANGED brokerVars /\ NoteLate
    BY <1>1 DEF RecordSubmit
  <1>7. "REJECTED" \in Closed /\ Idle.events = <<>> /\ Idle.at # "submitted"
    BY CallTypes DEF Closed
  <1>8. live.orders[o].state \in Working
    BY <1>2, StatesApart
  <1> HIDE DEF record
  <1> QED
    BY <1>2, <1>3, <1>4, <1>5, <1>6, <1>7, <1>8, OrderMoves

LEMMA RequestMovesOrder ==
    ASSUME Inv, NEW o \in Orders, CancelOrder(o) \/ ReplaceOrder(o)
    PROVE  StillMoves
  <1>1. /\ live.orders[o] \in OrderRecord /\ healthy /\ live.orders[o].state \in Working
        /\ late' = late /\ UNCHANGED brokerVars /\ live.orders[o].state \in Revisable
    BY TypesOfInv, StatesApart
    DEF CancelOrder, ReplaceOrder, CanaryReady, Ready, StateOf, historyVars
  <1>2. CASE CancelOrder(o)
    <2> DEFINE record == [live.orders[o] EXCEPT !.state = "PENDING_CANCEL"]
    <2> DEFINE next == Calling("cancelling", o)
    <2>1. /\ record \in OrderRecord /\ record.filled = live.orders[o].filled
          /\ record.state = "PENDING_CANCEL"
      BY <1>1, RecordStates DEF OrderRecord
    <2>2. next.events = <<>> /\ next.at # "submitted"
      BY CallTypes DEF Stages
    <2>3. SetOrder(o, record) /\ Save(next, connected)
      BY <1>2 DEF CancelOrder, SetState
    <2> HIDE DEF record, next
    <2> QED
      BY <1>1, <2>1, <2>2, <2>3, StatesApart, OrderMoves
  <1>3. CASE ReplaceOrder(o)
    <2> DEFINE record == PendingReplacement(live.orders[o])
    <2> DEFINE next == Calling("replacing", o)
    <2>1. /\ record \in OrderRecord /\ record.filled = live.orders[o].filled
          /\ record.state = "PENDING_REPLACE"
      BY <1>1, RecordStates DEF OrderRecord, PendingReplacement
    <2>2. next.events = <<>> /\ next.at # "submitted"
      BY CallTypes DEF Stages
    <2>3. SetOrder(o, record) /\ Save(next, TRUE)
      BY <1>3 DEF ReplaceOrder
    <2> HIDE DEF record, next
    <2> QED
      BY <1>1, <2>1, <2>2, <2>3, StatesApart, OrderMoves
  <1> QED
    BY <1>2, <1>3

LEMMA RecordFailureMoves ==
    ASSUME Inv, RecordFailure
    PROVE  StillMoves
  <1>1. PICK o \in Orders : o = call.order
    BY CallTypes DEF RecordFailure, Inv, StageInv, Fits, OrderStages
  <1> DEFINE record == [live.orders[o] EXCEPT !.state = "UNKNOWN"]
  <1>2. /\ call.at = "failed" /\ live.orders[o].state \in Working
        /\ live.orders[o] \in OrderRecord
    BY <1>1, TypesOfInv DEF RecordFailure, Inv, StageInv, Fits
  <1>3. /\ record \in OrderRecord /\ record.filled = live.orders[o].filled
        /\ record.state = "UNKNOWN"
    BY <1>2, RecordStates DEF OrderRecord
  <1>4. SetOrder(o, record) /\ Save(Idle, FALSE) /\ UNCHANGED brokerVars /\ late' = late
    BY <1>1 DEF RecordFailure, SetState, historyVars
  <1>5. Idle.events = <<>> /\ Idle.at # "submitted"
    BY CallTypes
  <1> HIDE DEF record
  <1> QED
    BY <1>2, <1>3, <1>4, <1>5, StatesApart, OrderMoves

-----------------------------------------------------------------------------
(* Applying an event.                                                       *)

LEMMA AppliedOrder ==
    ASSUME Inv, NEW e \in Event, Applicable(e), live' = Applied(e)
    PROVE  \/ live' = live /\ Duplicate(e)
           \/ /\ ~Duplicate(e) /\ Accepts(live.orders[e.order], e, Qty[e.order])
              /\ live'.orders = [live.orders EXCEPT
                                    ![e.order] = Resolve(live.orders[e.order], e, Qty[e.order])]
              /\ live'.applied = IF IsExecution(e) THEN live.applied \union {ExecutionOf(e)}
                                                   ELSE live.applied
  <1> DEFINE record == Resolve(live.orders[e.order], e, Qty[e.order])
  <1> DEFINE moved == [live EXCEPT !.orders[e.order] = record]
  <1>1. CASE Duplicate(e)
    BY <1>1 DEF Applied
  <1>2. CASE ~Duplicate(e)
    <2>1. /\ e.order \in Orders /\ Qty[e.order] \in Nat /\ live \in PersistentState
          /\ live.orders \in [Orders -> OrderRecord]
      BY TypesOfInv, BrokerAssumption DEF Event
    <2>2. Accepts(live.orders[e.order], e, Qty[e.order])
      BY <1>2 DEF Applicable
    <2>3. live.orders[e.order] \in StoredOrder
      BY <2>1, <2>2 DEF Accepts, StoredOrder, OrderRecord
    <2>4. record \in OrderRecord
      BY <2>1, <2>2, <2>3, ResolveKeepsStored DEF StoredOrder
    <2>5. live' = IF IsExecution(e) THEN WithFill(moved, e) ELSE moved
      BY <1>2 DEF Applied
    <2> HIDE DEF record
    <2>6. /\ moved \in PersistentState /\ moved.applied = live.applied
          /\ moved.orders = [live.orders EXCEPT ![e.order] = record]
      BY <2>1, <2>4 DEF PersistentState
    <2> HIDE DEF moved
    <2>7. /\ live'.orders = [live.orders EXCEPT ![e.order] = record]
          /\ live'.applied = IF IsExecution(e) THEN live.applied \union {ExecutionOf(e)}
                                               ELSE live.applied
      <3>1. /\ WithFill(moved, e).orders = moved.orders
            /\ WithFill(moved, e).applied = moved.applied \union {ExecutionOf(e)}
        BY <2>6, WithFillFacts
      <3> QED
        BY <2>5, <2>6, <3>1
    <2> QED
      BY <1>2, <2>2, <2>7 DEF record
  <1> QED
    BY <1>1, <1>2

LEMMA ApplyEventMoves ==
    ASSUME Inv, AccountInv, VenueAccount, BehindInv, QueueInv, ApplyEvent
    PROVE  KernelMoves
  <1> DEFINE e == Head(call.events)
  <1> DEFINE rest == [call EXCEPT !.events = Tail(@)]
  <1> DEFINE unapplied == executions \ live.applied
  <1>1. /\ call \in Call /\ call.at = "draining" /\ call.events # <<>>
        /\ call.events \in Seq(Event) /\ pending \in Seq(Event)
        /\ UNCHANGED <<venue, executions, pending>> /\ NoteLate
        /\ Genuine(call.events, executions) /\ executions \subseteq PossibleExecutions
        /\ live.orders \in [Orders -> OrderRecord] /\ IsFiniteSet(executions)
    BY TypesOfInv DEF ApplyEvent, brokerVars, Inv, EvidenceInv, BrokerTypeOK
  <1>2. /\ e \in Event /\ (IsExecution(e) => ExecutionOf(e) \in executions)
        /\ Tail(call.events) \in Seq(Event)
    BY <1>1, GenuineTail
  <1>3. /\ Queue \in Seq(Event) /\ Queue # <<>> /\ Queue[1] = e /\ 1 \in 1..Len(Queue)
        /\ Tail(Queue) = Tail(call.events) \o pending
        /\ call.events[1] = e /\ 1 \in 1..Len(call.events)
    <2>1. \A s, t \in Seq(Event) : s # <<>> =>
             /\ s \o t \in Seq(Event) /\ s \o t # <<>> /\ (s \o t)[1] = Head(s)
             /\ 1 \in 1..Len(s \o t) /\ Tail(s \o t) = Tail(s) \o t
             /\ s[1] = Head(s) /\ 1 \in 1..Len(s)
      <3> TAKE s, t \in Seq(Event)
      <3> HAVE s # <<>>
      <3>1. /\ s \o t \in Seq(Event) /\ Len(s \o t) = Len(s) + Len(t)
            /\ Len(s) \in Nat /\ Len(t) \in Nat /\ Len(s) >= 1
            /\ \A i \in 1..Len(s) : (s \o t)[i] = s[i]
            /\ \A i \in 1..Len(t) : (s \o t)[Len(s) + i] = t[i]
        OBVIOUS
      <3>2. s \o t # <<>> /\ Head(s) = s[1] /\ (s \o t)[1] = Head(s)
        BY <3>1
      <3>3. Tail(s \o t) = Tail(s) \o t
        BY <3>1, <3>2
      <3> QED
        BY <3>1, <3>2, <3>3
    <2> QED
      BY <1>1, <2>1 DEF Queue
  <1>4. rest \in Call /\ rest.at = "draining" /\ rest.events = Tail(call.events)
    BY <1>1, <1>2 DEF Call
  <1>5. healthy /\ disk = live
    BY <1>1, CallTypes DEF Inv, JournalInv
  <1>6. /\ OrdersAtVenue' = OrdersAtVenue /\ OpenAtVenue' = OpenAtVenue
        /\ \A o \in Orders : o \in OpenAtVenue <=> OpenAt(venue, o)
    BY <1>1 DEF OrdersAtVenue, OpenAtVenue, WorkingAtVenue, Known, OpenAt
  <1> HIDE DEF rest, e
  <1>7. late \subseteq late' /\ Noted(live', venue', late')
    BY <1>1, NoteLateNotes
  <1>8. CASE Applicable(e) /\ live' = Applied(e) /\ Save(rest, connected)
    <2>1. \/ live' = live /\ Duplicate(e)
          \/ /\ ~Duplicate(e) /\ Accepts(live.orders[e.order], e, Qty[e.order])
             /\ live'.orders = [live.orders EXCEPT
                                   ![e.order] = Resolve(live.orders[e.order], e, Qty[e.order])]
             /\ live'.applied = IF IsExecution(e) THEN live.applied \union {ExecutionOf(e)}
                                                  ELSE live.applied
      BY <1>2, <1>8, AppliedOrder
    <2>2. ASSUME NEW o \in Orders
          PROVE  Follows(live.orders[o], live'.orders[o], Qty[o], venue[o])
      <3>1. CASE live'.orders[o] = live.orders[o]
        BY <3>1 DEF Follows
      <3>2. CASE live'.orders[o] # live.orders[o]
        <4>1. /\ o = e.order /\ ~Duplicate(e) /\ Accepts(live.orders[o], e, Qty[o])
              /\ live'.orders[o] = Resolve(live.orders[o], e, Qty[o])
          BY <1>1, <2>1, <3>2
        <4>2. \A x \in unapplied : x.order = o => live.orders[o].filled < venue[o].filled
          <5>1. KeepsAccount(live, executions) /\ \A p \in Orders : venue[p].filled = LotsIn(OfOrder(executions, p))
            BY DEF AccountInv, VenueAccount
          <5> QED
            BY <1>1, <5>1, AccountBehind
        <4>3. IsExecution(e) => e.qty > 0 /\ live.orders[o].filled < venue[o].filled
          <5>1. ASSUME IsExecution(e)
                PROVE  /\ ExecutionOf(e) \in unapplied /\ ExecutionOf(e).order = o
                       /\ ExecutionOf(e).qty = e.qty
            BY <1>2, <4>1, <5>1 DEF Duplicate, ExecutionOf
          <5>2. \A x \in executions : x.qty > 0
            BY <1>1, BrokerAssumption DEF PossibleExecutions, Lots
          <5> QED
            BY <4>2, <5>1, <5>2
        <4>4. e.type \in Closings =>
                 (venue[o].version > 0 /\ venue[o].state \in {"ACKNOWLEDGED", "PARTIALLY_FILLED"}
                     => live.orders[o].filled < venue[o].filled)
          <5>1. e.type \in Closings /\ o \in OpenAtVenue => \E x \in unapplied : x.order = o
            BY <1>3, <4>1 DEF QueueInv, ClosingsHold
          <5> QED
            BY <1>6, <4>2, <5>1 DEF OpenAt
        <4>5. live.orders[o].state = "FILLED" => live.orders[o].filled = Qty[o]
          BY DEF BehindInv, Behind
        <4>6. Qty[o] \in Nat /\ live.orders[o] \in OrderRecord
          BY <1>1, BrokerAssumption
        <4> QED
          BY <1>2, <4>1, <4>3, <4>4, <4>5, <4>6, ResolveFollows
      <3> QED
        BY <3>1, <3>2
    <2>3. \A x \in unapplied : \/ x \in executions \ live'.applied
                               \/ IsExecution(e) /\ ExecutionOf(e) = x
      BY <2>1
    <2>4. ClosingsHold(Tail(Queue), executions \ live'.applied, OrdersAtVenue, OpenAtVenue)
      BY <1>3, <2>3, ClosingsTail DEF QueueInv
    <2>5. ClosingsHold(pending, executions \ live'.applied, OrdersAtVenue, OpenAtVenue)
      <3>1. \A x \in unapplied :
               \/ x \in executions \ live'.applied
               \/ \E i \in 1..Len(call.events) :
                     IsExecution(call.events[i]) /\ ExecutionOf(call.events[i]) = x
        BY <1>3, <2>3
      <3>2. ClosingsHold(call.events \o pending, unapplied, OrdersAtVenue, OpenAtVenue)
        BY DEF QueueInv, Queue
      <3> HIDE DEF unapplied
      <3> QED
        BY <1>1, <3>1, <3>2, ClosingsSuffix
    <2>6. /\ call' \in {rest, Idle} /\ disk' \in {disk, live'}
      BY <1>5, <1>8 DEF Save
    <2>7. Queue' \in {Tail(Queue), pending}
      <3>1. <<>> \o pending = pending
        BY <1>1
      <3> QED
        BY <1>1, <1>3, <1>4, <2>6, <3>1, CallTypes DEF Queue
    <2>8. QueueInv'
      BY <1>1, <1>6, <2>4, <2>5, <2>7 DEF QueueInv
    <2>9. RejectInv'
      BY <1>4, <2>6, CallTypes DEF RejectInv
    <2> QED
      BY <1>1, <1>5, <1>7, <2>2, <2>6, <2>8, <2>9 DEF KernelMoves
  <1>9. CASE call' = [rest EXCEPT !.failed = TRUE] /\ UNCHANGED <<live, disk>>
    <2>1. /\ call'.at = "draining" /\ call'.events = Tail(call.events)
      BY <1>4, <1>9 DEF Call
    <2>2. Queue' = Tail(Queue)
      BY <1>1, <1>3, <2>1 DEF Queue
    <2>3. ClosingsHold(Tail(Queue), unapplied, OrdersAtVenue, OpenAtVenue)
      BY <1>3, ClosingsTail DEF QueueInv
    <2>4. QueueInv'
      BY <1>1, <1>6, <1>9, <2>2, <2>3 DEF QueueInv
    <2>5. RejectInv'
      BY <2>1 DEF RejectInv
    <2>6. \A o \in Orders : Follows(live.orders[o], live'.orders[o], Qty[o], venue[o])
      BY <1>9 DEF Follows
    <2> QED
      BY <1>1, <1>7, <1>9, <2>4, <2>5, <2>6 DEF KernelMoves
  <1> QED
    BY <1>8, <1>9 DEF ApplyEvent, rest, e

-----------------------------------------------------------------------------
(* What the three kinds of steps keep.                                      *)

TrailInv == BehindInv /\ QueueInv /\ RejectInv

LEMMA KernelMovesKeepTrail ==
    ASSUME BehindInv, KernelMoves
    PROVE  TrailInv'
  <1>1. Behind(live', venue') /\ Behind(disk, venue')
    BY FollowsKeepsBehind DEF BehindInv, KernelMoves
  <1>2. Behind(disk', venue')
    BY <1>1 DEF KernelMoves
  <1> QED
    BY <1>1, <1>2 DEF TrailInv, BehindInv, KernelMoves

LEMMA KernelMovesKeepCapital ==
    ASSUME Inv, Inv', AccountInv', VenueAccount', BehindInv, CapitalInv, KernelMoves
    PROVE  CapitalInv'
  <1> SUFFICES ASSUME late' = {} PROVE Within(live') /\ Within(disk')
    BY DEF CapitalInv
  <1>1. late = {}
    BY DEF KernelMoves
  <1>2. Within(live) /\ Within(disk) /\ Noted(live, venue, {})
    BY <1>1 DEF CapitalInv, BehindInv
  <1>3. live \in PersistentState /\ live' \in PersistentState
    BY DEF Inv, TypeInv, TypeOK
  <1>4. ASSUME NEW o \in Orders
        PROVE  live'.orders[o].filled <= Qty[o]
    <2>1. executions' \subseteq PossibleExecutions /\ IsFiniteSet(executions')
      BY DEF Inv, TypeInv, TypeOK, BrokerTypeOK
    <2>2. /\ KeepsAccount(live', executions')
          /\ \A p \in Orders : venue'[p].filled = LotsIn(OfOrder(executions', p))
          /\ venue'[o].filled <= Qty[o]
      BY DEF AccountInv, VenueAccount
    <2>3. /\ live'.orders[o].filled <= venue'[o].filled
          /\ live'.orders[o].filled \in Nat /\ venue'[o].filled \in Nat /\ Qty[o] \in Nat
      BY <2>1, <2>2, AccountBehind, BrokerAssumption
    <2> QED
      BY <2>2, <2>3
  <1>5. Within(live')
    BY <1>2, <1>3, <1>4, FollowsKeepsWithin DEF KernelMoves
  <1> QED
    BY <1>2, <1>5 DEF KernelMoves

VenueMoves ==
    /\ UNCHANGED <<live, disk>> /\ call'.events = call.events
    /\ VenueOrdersMove /\ QueueMoves
    /\ \A o \in Orders : Known(o) \/ ~Known(o)' \/ live.orders[o].state = "PENDING_SUBMIT"
    /\ \A o \in Orders : Known(o) \/ ~Known(o)' \/ disk.orders[o].state = "PENDING_SUBMIT"
    /\ late \subseteq late' /\ Noted(live', venue', late')
    /\ RejectInv'

(* An order that the venue newly works has an execution nobody has seen.    *)
LEMMA OpensByExecution ==
    ASSUME Inv, Inv', AccountInv', VenueAccount', VenueOrdersMove, UNCHANGED <<live, disk>>,
           NEW o \in Orders, OpenAt(venue', o), ~OpenAt(venue, o), Known(o)
    PROVE  /\ \E x \in executions' \ executions : x.order = o
           /\ live.orders[o].filled < venue'[o].filled
           /\ disk.orders[o].filled < venue'[o].filled
  <1>1. WorkingAtVenue(o)' /\ ~WorkingAtVenue(o)
    BY DEF WorkingAtVenue, Known, OpenAt
  <1>2. PICK x \in executions' \ executions : x.order = o
    BY <1>1 DEF VenueOrdersMove
  <1>3. x \notin live.applied /\ x \notin disk.applied
    BY <1>2, TypesOfInv DEF Inv, EvidenceInv
  <1>4. /\ executions' \subseteq PossibleExecutions /\ IsFiniteSet(executions')
        /\ KeepsAccount(live, executions') /\ KeepsAccount(disk, executions')
        /\ \A p \in Orders : venue'[p].filled = LotsIn(OfOrder(executions', p))
    BY DEF Inv, TypeInv, TypeOK, BrokerTypeOK, AccountInv, VenueAccount
  <1>5. ASSUME NEW state, KeepsAccount(state, executions'), x \notin state.applied
        PROVE  state.orders[o].filled < venue'[o].filled
    BY <1>2, <1>4, <1>5, AccountBehind
  <1> QED
    BY <1>2, <1>3, <1>4, <1>5

LEMMA VenueMovesKeepTrail ==
    ASSUME Inv, Inv', AccountInv', VenueAccount', TrailInv, VenueMoves
    PROVE  TrailInv'
  <1>1. \A o \in Orders : /\ Known(o) <=> venue[o].version > 0
                          /\ Known(o)' <=> venue'[o].version > 0
                          /\ WorkingAtVenue(o) <=> OpenAt(venue, o)
                          /\ WorkingAtVenue(o)' <=> OpenAt(venue', o)
    BY DEF Known, WorkingAtVenue, OpenAt
  <1>2. ASSUME NEW state \in {live, disk}, Behind(state, venue)
        PROVE  Behind(state, venue')
    <2>1. ASSUME NEW o \in Orders, state.orders[o].state \in Closed, OpenAt(venue', o)
          PROVE  state.orders[o].filled < venue'[o].filled
      <3>1. state.orders[o].filled \in Nat /\ venue[o].filled \in Nat /\ venue'[o].filled \in Nat
        BY TypesOfInv DEF Inv, TypeInv, TypeOK, PersistentState, OrderRecord, BrokerTypeOK, VenueOrder
      <3>2. CASE OpenAt(venue, o)
        BY <1>2, <2>1, <3>1, <3>2 DEF Behind, VenueMoves, VenueOrdersMove
      <3>3. CASE ~OpenAt(venue, o) /\ Known(o)
        BY <2>1, <3>3, OpensByExecution DEF VenueMoves
      <3>4. CASE ~Known(o)
        <4>1. Known(o)'
          BY <1>1, <2>1 DEF OpenAt
        <4>2. state.orders[o].state = "PENDING_SUBMIT"
          BY <3>4, <4>1 DEF VenueMoves
        <4> QED
          BY <2>1, <4>2 DEF Closed
      <3> QED
        BY <3>2, <3>3, <3>4
    <2> QED
      BY <1>2, <2>1 DEF Behind
  <1>3. BehindInv'
    BY <1>2 DEF TrailInv, BehindInv, VenueMoves
  <1>4. /\ call.events \in Seq(Event) /\ pending \in Seq(Event) /\ Queue \in Seq(Event)
        /\ live.applied \subseteq executions /\ executions \subseteq executions'
    BY TypesOfInv DEF BrokerTypeOK, Queue, VenueMoves, VenueOrdersMove
  <1>5. \A j \in 1..Len(Queue) : IsExecution(Queue[j]) => ExecutionOf(Queue[j]) \in executions
    <2>1. Genuine(call.events, executions) /\ Genuine(pending, executions)
      BY TypesOfInv DEF Inv, EvidenceInv
    <2> QED
      BY <1>4, <2>1 DEF Genuine, Queue
  <1>6. ClosingsHold(Queue, executions' \ live.applied, OrdersAtVenue', OpenAtVenue')
    <2>1. ASSUME NEW o \in OrdersAtVenue \intersect OpenAtVenue'
          PROVE  \/ o \in OpenAtVenue
                 \/ \E x \in executions' \ live.applied :
                       x.order = o /\ \A j \in 1..Len(Queue) : Unreported(Queue, j, x)
      <3>1. o \in Orders /\ Known(o) /\ OpenAt(venue', o)
        BY <1>1 DEF OrdersAtVenue, OpenAtVenue
      <3>2. CASE OpenAt(venue, o)
        BY <1>1, <3>1, <3>2 DEF OpenAtVenue
      <3>3. CASE ~OpenAt(venue, o)
        <4>1. PICK x \in executions' \ executions : x.order = o
          BY <3>1, <3>3, OpensByExecution DEF VenueMoves
        <4>2. \A j \in 1..Len(Queue) : ~(IsExecution(Queue[j]) /\ ExecutionOf(Queue[j]) = x)
          BY <1>5, <4>1
        <4>3. \A j \in 1..Len(Queue) : Unreported(Queue, j, x)
          <5>1. Len(Queue) \in Nat
            BY <1>4
          <5> QED
            BY <4>2, <5>1 DEF Unreported
        <4> QED
          BY <1>4, <4>1, <4>3
      <3> QED
        BY <3>2, <3>3
    <2>2. OrdersAtVenue \subseteq OrdersAtVenue'
      BY DEF OrdersAtVenue, VenueMoves, VenueOrdersMove
    <2>3. executions \ live.applied \subseteq executions' \ live.applied
      BY <1>4
    <2>4. ClosingsHold(Queue, executions \ live.applied, OrdersAtVenue, OpenAtVenue)
      BY DEF TrailInv, QueueInv
    <2> QED
      BY <1>4, <2>1, <2>2, <2>3, <2>4, ClosingsWhileVenueMoves
  <1>7. QueueInv'
    <2>1. CASE pending' = pending
      <3>1. Queue' = Queue /\ live' = live
        BY <2>1 DEF Queue, VenueMoves
      <3> QED
        BY <1>6, <3>1 DEF QueueInv
    <2>2. CASE pending' # pending
      <3>1. PICK e \in Event :
                /\ pending' = Append(pending, e)
                /\ e.type \in Closings => Known(e.order)' /\ ~WorkingAtVenue(e.order)'
        BY <2>2 DEF VenueMoves, QueueMoves
      <3>2. Queue' = Append(Queue, e) /\ live' = live
        <4>1. call.events \o Append(pending, e) = Append(call.events \o pending, e)
          BY <1>4, ConcatAppend
        <4> QED
          BY <3>1, <4>1 DEF Queue, VenueMoves
      <3>3. e.type \in Closings => e.order \in OrdersAtVenue' /\ e.order \notin OpenAtVenue'
        <4>1. e.order \in Orders
          BY DEF Event
        <4> QED
          BY <3>1, <4>1 DEF OrdersAtVenue, OpenAtVenue
      <3>4. ClosingsHold(Append(Queue, e), executions' \ live.applied, OrdersAtVenue', OpenAtVenue')
        BY <1>4, <1>6, <3>3, ClosingsAppend
      <3> QED
        BY <3>2, <3>4 DEF QueueInv
    <2> QED
      BY <2>1, <2>2
  <1> QED
    BY <1>3, <1>7 DEF TrailInv, VenueMoves

LEMMA SameExecutionsFill ==
    ASSUME VenueAccount, VenueAccount', executions' = executions
    PROVE  \A o \in Orders : venue'[o].filled = venue[o].filled
  BY DEF VenueAccount

LEMMA CallSubmitIsVenueMove ==
    ASSUME Inv, VenueAccount, VenueAccount', TrailInv, CallSubmit
    PROVE  VenueMoves
  <1>1. /\ VenueOrdersMove /\ QueueMoves /\ call'.events = call.events
        /\ disk = live /\ UNCHANGED <<live, disk, late>>
    BY CallSubmitMoves
  <1>2. PICK o \in Orders :
            /\ o = call.order /\ ~Known(o)
            /\ live.orders[o].state = "PENDING_SUBMIT"
            /\ \A p \in Orders \ {o} : ~Known(p) => ~Known(p)'
            /\ call'.at = "submitted" /\ call'.order = o
            /\ call'.answer = "REJECTED" => ~OpenAt(venue', o)
    BY CallSubmitMoves
  <1>3. executions' = executions
    <2>1. PICK answer \in SubmitAnswers : BrokerSubmit(o, answer)
      BY <1>2 DEF CallSubmit
    <2> QED
      BY <2>1, TypesOfInv, BrokerSubmitStep
  <1>4. Noted(live', venue', late')
    BY <1>1, <1>3, SameExecutionsFill DEF Noted, TrailInv, BehindInv
  <1>5. RejectInv'
    BY <1>2 DEF RejectInv, WorkingAtVenue, Known, OpenAt
  <1> QED
    BY <1>1, <1>2, <1>4, <1>5 DEF VenueMoves

LEMMA CallBrokerIsVenueMove ==
    ASSUME Inv, VenueAccount, VenueAccount', TrailInv, CallCancel \/ CallReplace
    PROVE  VenueMoves
  <1>1. VenueOrdersMove /\ QueueMoves /\ \A o \in Orders : ~Known(o) => ~Known(o)'
    BY CallBrokerMoves
  <1>2. /\ UNCHANGED <<live, disk, late>> /\ call \in Call
        /\ call' \in {[call EXCEPT !.at = "sent"], [call EXCEPT !.at = "failed"]}
    BY TypesOfInv DEF CallCancel, CallReplace, historyVars
  <1>3. call'.events = call.events /\ call'.at \in {"sent", "failed"}
    BY <1>2 DEF Call
  <1>4. executions' = executions
    BY DEF CallCancel, CallReplace, BrokerCancel, BrokerReplace, brokerVars
  <1>5. Noted(live', venue', late')
    BY <1>2, <1>4, SameExecutionsFill DEF Noted, TrailInv, BehindInv
  <1>6. RejectInv'
    BY <1>3 DEF RejectInv
  <1> QED
    BY <1>1, <1>2, <1>3, <1>5, <1>6 DEF VenueMoves

LEMMA VenueStepIsVenueMove ==
    ASSUME Inv, Inv', AccountInv', VenueAccount, VenueAccount', TrailInv, VenueStep
    PROVE  VenueMoves
  <1>1. VenueOrdersMove /\ QueueMoves
    BY VenueMovesInStep
  <1>2. UNCHANGED <<live, disk, call>> /\ \A p \in Orders : Known(p)' <=> Known(p)
    BY VenueStepLemma DEF VenueStepFacts
  <1>3. NoteLate
    BY DEF VenueStep, AtVenue
  <1>4. RejectInv'
    <2> SUFFICES ASSUME call'.at = "submitted", call'.answer = "REJECTED", OpenAt(venue', call'.order)
                 PROVE  live'.orders[call'.order].filled < venue'[call'.order].filled
      BY DEF RejectInv, WorkingAtVenue, Known, OpenAt
    <2>1. PICK o \in Orders : o = call.order /\ o = call'.order
      BY <1>2, CallTypes DEF Inv, StageInv, Fits, OrderStages
    <2>2. Known(o)
      <3>1. Known(o)' <=> venue'[o].version > 0
        BY DEF Known
      <3> QED
        BY <1>2, <2>1, <3>1 DEF OpenAt
    <2>3. live.orders[o].filled \in Nat /\ venue[o].filled \in Nat /\ venue'[o].filled \in Nat
      BY TypesOfInv DEF Inv, TypeInv, TypeOK, PersistentState, OrderRecord, BrokerTypeOK, VenueOrder
    <2>4. CASE OpenAt(venue, o)
      <3>1. live.orders[o].filled < venue[o].filled
        BY <1>2, <2>1, <2>4 DEF TrailInv, RejectInv, WorkingAtVenue, Known, OpenAt
      <3>2. venue[o].filled <= venue'[o].filled
        BY <1>1 DEF VenueOrdersMove
      <3> QED
        BY <1>2, <2>1, <2>3, <3>1, <3>2
    <2>5. CASE ~OpenAt(venue, o)
      BY <1>1, <1>2, <2>1, <2>2, <2>5, OpensByExecution
    <2> QED
      BY <2>4, <2>5
  <1> QED
    BY <1>1, <1>2, <1>3, <1>4, NoteLateNotes DEF VenueMoves

-----------------------------------------------------------------------------
(* Booking and restarting.                                                  *)

LEMMA SubmitIntentKeepsTrail ==
    ASSUME Inv, TrailInv, NEW o \in Orders, NEW a \in Approvals, SubmitIntent(o, a)
    PROVE  TrailInv'
  <1>1. /\ disk = live /\ disk' \in {disk, live'} /\ Books(o, a)
        /\ UNCHANGED <<venue, executions, pending, late>>
        /\ call' \in {Calling("submitting", o), Idle}
    BY SubmitIntentFacts, TypesOfInv DEF brokerVars
  <1>2. call'.events = <<>> /\ call'.at # "submitted"
    BY <1>1, CallTypes DEF Stages
  <1>3. QueueInv'
    BY <1>1, <1>2, QueueKept DEF TrailInv, Books
  <1>4. \A p \in Orders : \/ live'.orders[p] = live.orders[p]
                          \/ live'.orders[p].state = "PENDING_SUBMIT"
    BY <1>1, TypesOfInv DEF Books
  <1>5. Behind(live', venue') /\ Noted(live', venue', late')
    BY <1>1, <1>4 DEF TrailInv, BehindInv, Behind, Noted, Closed
  <1>6. Behind(disk', venue')
    BY <1>1, <1>5 DEF TrailInv, BehindInv
  <1> QED
    BY <1>2, <1>3, <1>5, <1>6 DEF TrailInv, BehindInv, RejectInv

LEMMA RestartKeepsTrail ==
    ASSUME TrailInv, Restart
    PROVE  TrailInv'
  <1>1. /\ live' = disk /\ UNCHANGED <<disk, venue, executions>> /\ NoteLate
        /\ call' = Idle /\ pending' = <<>>
    BY DEF Restart, BridgeRestart
  <1>2. QueueInv'
    <2>1. Queue' = <<>>
      BY <1>1, CallTypes DEF Queue
    <2> QED
      BY <2>1 DEF QueueInv, ClosingsHold
  <1>3. RejectInv'
    BY <1>1, CallTypes DEF RejectInv
  <1> QED
    BY <1>1, <1>2, <1>3, NoteLateNotes DEF TrailInv, BehindInv

LEMMA NextKeepsTrail ==
    ASSUME Inv, Inv', AccountInv, AccountInv', VenueAccount, VenueAccount', TrailInv,
           [Next]_vars
    PROVE  TrailInv' /\ (KernelMoves \/ VenueMoves \/ Restart
                            \/ \E o \in Orders, a \in Approvals : SubmitIntent(o, a))
  <1>1. ASSUME StillMoves
        PROVE  TrailInv' /\ KernelMoves
    BY <1>1, StillIsKernelMove, KernelMovesKeepTrail DEF TrailInv
  <1>2. ASSUME VenueMoves
        PROVE  TrailInv' /\ VenueMoves
    BY <1>2, VenueMovesKeepTrail
  <1>3. CASE \E o \in Orders, a \in Approvals : SubmitIntent(o, a)
    BY <1>3, SubmitIntentKeepsTrail
  <1>4. CASE Restart
    BY <1>4, RestartKeepsTrail
  <1>5. CASE CallSubmit
    BY <1>2, <1>5, CallSubmitIsVenueMove
  <1>6. CASE CallCancel \/ CallReplace
    BY <1>2, <1>6, CallBrokerIsVenueMove
  <1>7. CASE VenueStep
    BY <1>2, <1>7, VenueStepIsVenueMove
  <1>8. CASE ApplyEvent
    BY <1>8, ApplyEventMoves, KernelMovesKeepTrail DEF TrailInv
  <1>9. CASE RecordSubmit
    BY <1>1, <1>9, RecordSubmitMoves DEF TrailInv
  <1>10. CASE RecordFailure
    BY <1>1, <1>10, RecordFailureMoves
  <1>11. CASE \E o \in Orders : CancelOrder(o) \/ ReplaceOrder(o)
    BY <1>1, <1>11, RequestMovesOrder
  <1>12. CASE Untouching
    BY <1>1, <1>12, UntouchingMoves
  <1>13. CASE UNCHANGED vars
    <2>1. StillMoves
      BY <1>13 DEF vars, StillMoves, Follows
    <2> QED
      BY <1>1, <2>1
  <1>14. CASE Next
    BY <1>3, <1>4, <1>5, <1>6, <1>7, <1>8, <1>9, <1>10, <1>11, <1>12, <1>14
    DEF Next, ServiceStep, OperatorStep, Untouching
  <1> QED
    BY <1>13, <1>14

LEMMA InitEstablishesTrail == Init => TrailInv
  <1> SUFFICES ASSUME Init PROVE TrailInv
    OBVIOUS
  <1>1. /\ disk = live /\ call = Idle /\ pending = <<>>
        /\ \A o \in Orders : live.orders[o].state = "NONE"
    BY DEF Init, BrokerInit, AbsentOrder
  <1>2. BehindInv
    BY <1>1, StatesApart DEF BehindInv, Behind, Noted, Closed
  <1>3. QueueInv
    <2>1. Queue = <<>>
      BY <1>1, CallTypes DEF Queue
    <2> QED
      BY <2>1 DEF QueueInv, ClosingsHold
  <1>4. RejectInv
    BY <1>1, CallTypes DEF RejectInv
  <1> QED
    BY <1>2, <1>3, <1>4 DEF TrailInv

-----------------------------------------------------------------------------
(* The sums evaluate_risk compares.                                         *)

SpentIn(held, S) == MapThenSumSet(LAMBDA o : held[o].filled, S)

LEMMA SpentSum ==
    ASSUME NEW held, NEW S \in SUBSET Orders
    PROVE  SpentIn(held, S) = SumOf([o \in Orders |-> held[o].filled], S)
  <1> DEFINE f == [o \in Orders |-> held[o].filled]
  <1> DEFINE Q(g) ==
          g = [s \in SUBSET S |-> IF s = {} THEN 0
                  ELSE held[Chosen(s)].filled + g[s \ {Chosen(s)}]]
  <1>1. SpentIn(held, S) = (CHOOSE g : Q(g))[S]
    BY DEF SpentIn, MapThenSumSet, MapThenFoldSet, Chosen
  <1>2. ASSUME NEW g
        PROVE  Q(g) <=> Summing(g, f, S)
    <2>1. \A s \in SUBSET S : s # {} => f[Chosen(s)] = held[Chosen(s)].filled
      BY DEF Chosen
    <2> HIDE DEF f
    <2> QED
      BY <2>1 DEF Summing
  <1> HIDE DEF Q
  <1>3. (CHOOSE g : Q(g)) = (CHOOSE g : Summing(g, f, S))
    BY <1>2
  <1> QED
    BY <1>1, <1>3, SumDefinition

(* With some orders counted whole and the others with what they filled, the *)
(* sum is what all filled and what the first may still.                     *)
LEMMA WholeOrFilled ==
    ASSUME NEW held, \A o \in Orders : held[o].filled \in Nat,
           NEW S \in SUBSET Orders, NEW h,
           \A o \in Orders : h[o] = IF o \in S THEN Qty[o] ELSE held[o].filled
    PROVE  /\ SumOf(h, Orders) = SpentIn(held, Orders) + UnfilledIn(held, S)
           /\ SpentIn(held, Orders) \in Nat /\ UnfilledIn(held, S) \in Int
  <1> DEFINE f == [o \in Orders |-> held[o].filled]
  <1> DEFINE g == Unfilled(held)
  <1>1. /\ \A o \in Orders : /\ f[o] \in Nat /\ f[o] \in Int /\ g[o] \in Int
                             /\ h[o] = IF o \in S THEN f[o] + g[o] ELSE f[o]
        /\ IsFiniteSet(Orders) /\ S \intersect Orders = S
    BY FinitelyManyOrders, BrokerAssumption DEF Unfilled
  <1>2. SpentIn(held, Orders) = SumOf(f, Orders) /\ UnfilledIn(held, S) = SumOf(g, S)
    BY UnfilledSum, SpentSum
  <1> HIDE DEF f, g
  <1>3. SumOf(h, Orders) = SumOf(f, Orders) + SumOf(g, S)
    <2>1. Adds(h, f, g, S, Orders)
      BY <1>1 DEF Adds
    <2>2. SumOf(h, Orders) = SumOf(f, Orders) + SumOf(g, S \intersect Orders)
      BY <2>1, FinitelyManyOrders, SumPlus
    <2> QED
      BY <1>1, <2>2
  <1>4. SumOf(f, Orders) \in Nat
    BY <1>1, SumOfNaturals
  <1>5. SumOf(g, S) \in Int
    <2>1. IsFiniteSet(S) /\ \A o \in S : g[o] \in Int
      BY <1>1, FS_Subset
    <2> QED
      BY <2>1, SumOfParts
  <1> QED
    BY <1>2, <1>3, <1>4, <1>5

LEMMA SumsOfRisk ==
    /\ ReservedCash = UnfilledIn(live.orders, WorkingOrders)
    /\ VenueSpent = SpentIn(venue, Orders)
    /\ MapThenSumSet(LAMBDA o : Qty[o] - venue[o].filled, OpenAtVenue)
          = UnfilledIn(venue, OpenAtVenue)
  BY DEF ReservedCash, VenueSpent, UnfilledIn, SpentIn

-----------------------------------------------------------------------------
(* The ceiling on the recorded orders.                                      *)

LEMMA BookingKeepsWithin ==
    ASSUME Inv, AccountInv, CashInv, NEW o \in Orders, NEW a \in Approvals, SubmitIntent(o, a)
    PROVE  Within(live')
  <1>1. /\ live \in PersistentState /\ live.orders \in [Orders -> OrderRecord]
        /\ Books(o, a) /\ RiskApproves(o) /\ live' \in PersistentState
    BY TypesOfInv, SubmitIntentFacts DEF SubmitIntent
  <1> DEFINE f == Exposure(live)
  <1> DEFINE g == Exposure(live')
  <1>2. /\ \A p \in Orders : f[p] \in Int /\ g[p] \in Int
        /\ \A p \in Orders : f[p] = IF p \in WorkingOrders THEN Qty[p]
                                    ELSE live.orders[p].filled
        /\ \A p \in Orders : live.orders[p].filled \in Nat /\ live'.orders[p].filled \in Nat
    BY <1>1, BrokerAssumption DEF Exposure, PersistentState, OrderRecord, WorkingOrders
  <1>3. f[o] = 0 /\ g[o] = Qty[o] /\ \A p \in Orders : p # o => f[p] = g[p]
    <2>1. live.orders[o].state = "NONE" /\ live.orders[o].filled = 0
      BY <1>1 DEF Books, BookedOrders, AccountInv, KeepsAccount
    <2>2. f[o] = 0
      BY <2>1, StatesApart DEF Exposure, IsWorking
    <2>3. g[o] = Qty[o]
      BY <1>1, StatesApart DEF Exposure, IsWorking, Books
    <2>4. \A p \in Orders : p # o => f[p] = g[p]
      BY <1>1 DEF Exposure, Books
    <2> QED
      BY <2>2, <2>3, <2>4
  <1>4. SumOf(f, Orders) = SpentIn(live.orders, Orders) + ReservedCash
        /\ SpentIn(live.orders, Orders) \in Nat /\ ReservedCash \in Int
    <2>1. WorkingOrders \in SUBSET Orders
      BY DEF WorkingOrders
    <2> HIDE DEF f
    <2> QED
      BY <1>2, <2>1, WholeOrFilled, SumsOfRisk
  <1>5. live.cash = InitialCash - SpentIn(live.orders, Orders)
    <2>1. SpentIn(live.orders, Orders) = SumOf(FilledIn(live), Orders)
      BY SpentSum DEF FilledIn
    <2> QED
      BY <2>1 DEF CashInv, CashKept
  <1> HIDE DEF f, g
  <1>6. SumOf(g, Orders) = SumOf(f, Orders) - f[o] + g[o]
    <2>1. \A p \in Orders : f[p] \in Int /\ g[p] \in Int /\ (p # o => f[p] = g[p])
      BY <1>2, <1>3
    <2> QED
      BY <2>1, FinitelyManyOrders, SumChange
  <1>7. DeployedCapital = SpentIn(live.orders, Orders)
    BY <1>4, <1>5, LiveAssumption DEF DeployedCapital
  <1>8. DeployedCapital + ReservedCash + Qty[o] <= MaxDeployed
    BY <1>1 DEF RiskApproves, WithinCapital
  <1>9. SumOf(g, Orders) <= MaxDeployed
    <2>1. Qty[o] \in Int /\ MaxDeployed \in Int
      BY BrokerAssumption, LiveAssumption
    <2> QED
      BY <1>3, <1>4, <1>6, <1>7, <1>8, <2>1
  <1> QED
    BY <1>9 DEF Within, g

LEMMA InitEstablishesCapital == Init => CapitalInv
  <1> SUFFICES ASSUME Init PROVE CapitalInv
    OBVIOUS
  <1>1. /\ disk = live /\ live \in PersistentState /\ CashKept(live) /\ live.cash = InitialCash
        /\ \A o \in Orders : live.orders[o].filled = 0 /\ live.orders[o].state = "NONE"
    BY InitEstablishesInv, InitEstablishesCash, TypesOfInv DEF Init, AbsentOrder, CashInv
  <1> DEFINE f == Exposure(live)
  <1> DEFINE g == FilledIn(live)
  <1>2. \A o \in Orders : f[o] \in Int /\ g[o] \in Int /\ f[o] = g[o]
    BY <1>1, StatesApart DEF Exposure, FilledIn, IsWorking
  <1>3. live.cash = InitialCash - SumOf(g, Orders)
    BY <1>1 DEF CashKept
  <1> HIDE DEF f, g
  <1>4. SumOf(f, Orders) = SumOf(g, Orders) /\ SumOf(g, Orders) \in Int
    BY <1>2, FinitelyManyOrders, SumSame, SumOfParts
  <1>5. SumOf(f, Orders) <= MaxDeployed
    BY <1>1, <1>3, <1>4, LiveAssumption
  <1> QED
    BY <1>1, <1>5 DEF CapitalInv, Within, f

LEMMA NextKeepsCapital ==
    ASSUME Inv, Inv', AccountInv, AccountInv', VenueAccount, VenueAccount', CashInv, TrailInv,
           CapitalInv, [Next]_vars
    PROVE  CapitalInv'
  <1>1. CASE KernelMoves
    BY <1>1, KernelMovesKeepCapital DEF TrailInv
  <1>2. CASE VenueMoves
    BY <1>2 DEF VenueMoves, CapitalInv
  <1>3. CASE Restart
    BY <1>3, NoteLateNotes DEF Restart, CapitalInv
  <1>4. CASE \E o \in Orders, a \in Approvals : SubmitIntent(o, a)
    <2>1. PICK o \in Orders, a \in Approvals : SubmitIntent(o, a)
      BY <1>4
    <2>2. Within(live') /\ late' = late /\ disk' \in {disk, live'}
      BY <2>1, BookingKeepsWithin, SubmitIntentFacts
    <2> QED
      BY <2>2 DEF CapitalInv
  <1> QED
    BY <1>1, <1>2, <1>3, <1>4, NextKeepsTrail

-----------------------------------------------------------------------------
(* From the records to the venue.                                           *)

LEMMA WithinAtVenue ==
    ASSUME Inv, AccountInv, VenueAccount, TrailInv, CapitalInv
    PROVE  VenueWithinCapital
  <1> SUFFICES ASSUME late = {}
               PROVE  VenueSpent + MapThenSumSet(LAMBDA o : Qty[o] - venue[o].filled, OpenAtVenue)
                         <= MaxDeployed
    BY DEF VenueWithinCapital
  <1> DEFINE f == Exposure(live)
  <1> DEFINE h == [o \in Orders |-> IF o \in OpenAtVenue THEN Qty[o] ELSE venue[o].filled]
  <1>1. /\ Within(live) /\ Behind(live, venue) /\ Noted(live, venue, {})
        /\ live.orders \in [Orders -> OrderRecord]
        /\ \A o \in Orders : /\ venue[o].filled \in Nat /\ Qty[o] \in Nat
                             /\ venue[o].filled <= Qty[o]
                             /\ o \in OpenAtVenue <=> OpenAt(venue, o)
    BY TypesOfInv, BrokerAssumption
    DEF CapitalInv, TrailInv, BehindInv, BrokerTypeOK, VenueOrder, VenueAccount, OpenAtVenue,
        WorkingAtVenue, Known, OpenAt
  <1>2. ASSUME NEW o \in Orders
        PROVE  h[o] \in Int /\ f[o] \in Int /\ h[o] <= f[o]
    <2>1. /\ live.orders[o] \in OrderRecord /\ live.orders[o].filled \in Nat
          /\ f[o] = IF live.orders[o].state \in Working THEN Qty[o] ELSE live.orders[o].filled
          /\ h[o] = IF OpenAt(venue, o) THEN Qty[o] ELSE venue[o].filled
          /\ live.orders[o].state \in StoredStates \union {"NONE"}
      BY <1>1 DEF Exposure, IsWorking, OrderRecord
    <2> HIDE DEF f, h
    <2>2. CASE live.orders[o].state \in Working
      BY <1>1, <2>1, <2>2
    <2>3. CASE live.orders[o].state = "NONE"
      <3>1. ~Known(o)
        BY <2>3 DEF Inv, SentInv, BookedOrders
      <3>2. venue[o].filled = 0 /\ ~OpenAt(venue, o)
        BY <3>1 DEF VenueAccount, OpenAt, Known
      <3> QED
        BY <1>1, <2>1, <3>2
    <2>4. CASE live.orders[o].state = "FILLED"
      <3>1. live.orders[o].filled = Qty[o]
        BY <1>1, <2>4 DEF Behind
      <3> QED
        BY <1>1, <2>1, <2>4, <3>1, StatesApart
    <2>5. CASE live.orders[o].state \in Closed
      <3>1. ~(live.orders[o].filled < venue[o].filled)
        BY <1>1, <2>5 DEF Noted
      <3>2. ~OpenAt(venue, o)
        BY <1>1, <2>5, <3>1 DEF Behind
      <3> QED
        BY <1>1, <2>1, <2>5, <3>1, <3>2, StatesApart
    <2> QED
      BY <2>1, <2>2, <2>3, <2>4, <2>5, StatesApart
  <1>3. /\ OpenAtVenue \in SUBSET Orders
        /\ \A o \in Orders : h[o] = IF o \in OpenAtVenue THEN Qty[o] ELSE venue[o].filled
    BY DEF OpenAtVenue
  <1>4. SumOf(f, Orders) <= MaxDeployed
    BY <1>1 DEF Within
  <1> HIDE DEF f, h
  <1>5. SumOf(h, Orders) = VenueSpent + UnfilledIn(venue, OpenAtVenue)
    BY <1>1, <1>3, WholeOrFilled, SumsOfRisk
  <1>6. /\ SumOf(h, Orders) <= SumOf(f, Orders)
        /\ SumOf(h, Orders) \in Int /\ SumOf(f, Orders) \in Int
    BY <1>2, FinitelyManyOrders, SumGrows, SumOfParts
  <1>7. SumOf(h, Orders) <= MaxDeployed
    BY <1>4, <1>6, LiveAssumption
  <1> QED
    BY <1>5, <1>7, SumsOfRisk

-----------------------------------------------------------------------------
(* What every reachable state satisfies.                                    *)

LEMMA VenueInvariance == Spec => []VenueAccount
  BY InitEstablishesVenueAccount, NextKeepsVenueAccount, Invariance, PTL DEF Spec

LEMMA CashInvariance == Spec => []CashInv
  BY InitEstablishesCash, NextKeepsCash, Invariance, AccountInvariance, PTL DEF Spec

LEMMA TrailInvariance == Spec => []TrailInv
  <1>1. ASSUME Inv, Inv', AccountInv, AccountInv', VenueAccount, VenueAccount', TrailInv,
               [Next]_vars
        PROVE  TrailInv'
    BY <1>1, NextKeepsTrail
  <1> QED
    BY <1>1, InitEstablishesTrail, Invariance, AccountInvariance, VenueInvariance, PTL DEF Spec

(* What the venue has bought and may still buy stays within the deployed-   *)
(* capital ceiling, through crashes, lost sessions and lost evidence, as    *)
(* long as no execution surfaces after its order was taken for closed       *)
(* (evaluate_risk with total_reserved_cash).                                *)
THEOREM CapitalBindsVenue == Spec => []VenueWithinCapital
  <1>1. ASSUME Inv, Inv', AccountInv, AccountInv', VenueAccount, VenueAccount', CashInv,
               TrailInv, CapitalInv, [Next]_vars
        PROVE  CapitalInv'
    BY <1>1, NextKeepsCapital
  <1>2. Spec => []CapitalInv
    BY <1>1, InitEstablishesCapital, Invariance, AccountInvariance, VenueInvariance,
       CashInvariance, TrailInvariance, PTL DEF Spec
  <1>3. Inv /\ AccountInv /\ VenueAccount /\ TrailInv /\ CapitalInv => VenueWithinCapital
    BY WithinAtVenue
  <1> QED
    BY <1>2, <1>3, Invariance, AccountInvariance, VenueInvariance, TrailInvariance, PTL

(* Number and capital together: over all restarts the venue never holds     *)
(* more than the canary was given (submit_canary_intent, evaluate_risk).    *)
THEOREM BudgetBindsVenue == Spec => []VenueWithinBudget
  <1>1. VenueWithinMandate /\ VenueWithinCapital => VenueWithinBudget
    BY DEF VenueWithinBudget
  <1> QED
    BY <1>1, MandateBindsVenue, CapitalBindsVenue, PTL
=============================================================================

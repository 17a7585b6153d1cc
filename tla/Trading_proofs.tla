--------------------------- MODULE Trading_proofs ----------------------------
(***************************************************************************)
(* Three components that record what was traded.                           *)
(*                                                                         *)
(* append_event for any number of writers, events, keys and aggregates:    *)
(* whatever statements the writers interleave and wherever a connection is *)
(* lost, the committed rows stay numbered without a gap and every answer   *)
(* stays true. The argument is about the rows that are inserted and not    *)
(* committed. The advisory lock leaves one writer per aggregate between    *)
(* its reading of the last number and its commit (LocksExclude), so the    *)
(* number is still the next one when it is used (NumbersAreNext); the      *)
(* unique indexes keep such rows apart from the table and from each other  *)
(* (PendingApart), so each commit adds one row, of a new event and a new   *)
(* key.                                                                    *)
(*                                                                         *)
(* Combination orders of any ratio and size: the legs stay paired, and     *)
(* every journaled record is one restore accepts (ComboInv).               *)
(*                                                                         *)
(* The desktop, for any requests, prices and instruments: what its venue   *)
(* holds follows from the phase of the command under way (InPhase), and    *)
(* the journal, which is written before anything is answered, holds every  *)
(* fill and all that receipts said (Recorded).                             *)
(***************************************************************************)
EXTENDS EventStore, ComboOrders, DesktopOrders, Sums_proofs, SequenceTheorems

-----------------------------------------------------------------------------
(* The event store.                                                         *)

EventRow == [event : Events, sequence : Nat \ {0}]

Session ==
    {Idle}
    \union [pc : {"check", "lock", "sequence"}, event : Events]
    \union [pc : {"insert", "recover", "outbox", "commit"}, event : Events,
            sequence : Nat \ {0}]

Outcome == [event : Events, kind : {"inserted", "known", "reused", "error", "lost"},
          sequence : Nat]

StoreTypes ==
    /\ domainEvents \subseteq EventRow /\ IsFiniteSet(domainEvents)
    /\ writers \in [Writers -> Session]
    /\ answers \in Seq(Outcome)

LocksExclude ==
    \A v, w \in Writers :
       v # w /\ HoldsLock(v) /\ HoldsLock(w)
          => writers[v].event.aggregate # writers[w].event.aggregate

Numbered(w) == writers[w].pc \in {"insert", "outbox", "commit"}

NumbersAreNext ==
    \A w \in Writers :
       Numbered(w) =>
          writers[w].sequence = Cardinality(RowsOf(writers[w].event.aggregate)) + 1

Pending(w) == writers[w].pc \in {"outbox", "commit"}

PendingApart ==
    \A w \in Writers :
       Pending(w) => \A r \in domainEvents \union Uncommitted(w) : ~Collides(w, r)

RaceIsLost == \A w \in Writers : writers[w].pc = "recover" => KeyRows(w) # {}

Inv ==
    /\ StoreTypes
    /\ LocksExclude /\ NumbersAreNext /\ PendingApart /\ RaceIsLost
    /\ EventsAreOrdered /\ AnswersAreTruthful

-----------------------------------------------------------------------------
(* The statements one at a time.                                            *)

(* MAX(aggregate_sequence) counts the rows of an aggregate whose numbers    *)
(* have no gap (append_event).                                              *)
LEMMA NextNumber ==
    ASSUME StoreTypes, EventsAreOrdered, NEW a \in Aggregates
    PROVE  /\ Cardinality(RowsOf(a)) \in Nat
           /\ Max({r.sequence : r \in RowsOf(a)} \union {0}) = Cardinality(RowsOf(a))
  <1> DEFINE n == Cardinality(RowsOf(a))
             S == {r.sequence : r \in RowsOf(a)} \union {0}
  <1>1. IsFiniteSet(RowsOf(a))
    BY FS_Subset DEF StoreTypes, RowsOf
  <1>2. n \in Nat
    BY <1>1, FS_CardinalityType
  <1>3. {r.sequence : r \in RowsOf(a)} = 1..n
    BY DEF EventsAreOrdered
  <1>4. S = 0..n
    BY <1>2, <1>3
  <1> HIDE DEF n, S
  <1>5. n \in S /\ \A y \in S : n >= y
    BY <1>2, <1>4
  <1>6. \A m \in S : (\A y \in S : m >= y) => m = n
    BY <1>2, <1>4
  <1>7. Max(S) = n
    BY <1>5, <1>6 DEF Max
  <1> QED BY <1>2, <1>7 DEF n, S

(* What a writer's session holds at each statement.                         *)
LEMMA SessionFields ==
    ASSUME StoreTypes, NEW w \in Writers
    PROVE  /\ writers[w] \in Session
           /\ writers[w].pc \in {"idle", "check", "lock", "sequence", "insert", "recover",
                                 "outbox", "commit"}
           /\ writers[w].pc # "idle" => writers[w].event \in Events
           /\ writers[w].pc \in {"insert", "recover", "outbox", "commit"} =>
                 writers[w] \in [pc : {"insert", "recover", "outbox", "commit"},
                                 event : Events, sequence : Nat \ {0}]
           /\ writers[w].pc \in {"check", "lock", "sequence"} =>
                 writers[w] \in [pc : {"check", "lock", "sequence"}, event : Events]
  <1>1. writers[w] \in Session
    BY DEF StoreTypes
  <1>2. CASE writers[w] = Idle
    BY <1>1, <1>2 DEF Idle
  <1>3. CASE writers[w] \in [pc : {"check", "lock", "sequence"}, event : Events]
    BY <1>1, <1>3
  <1>4. CASE writers[w] \in [pc : {"insert", "recover", "outbox", "commit"},
                             event : Events, sequence : Nat \ {0}]
    BY <1>1, <1>4
  <1> QED BY <1>1, <1>2, <1>3, <1>4 DEF Session

(* A session that only goes on to its next statement.                       *)
LEMMA GoingOn ==
    ASSUME StoreTypes, NEW w \in Writers, NEW pc, Goto(w, pc),
           \/ writers[w].pc \in {"check", "lock", "sequence"}
              /\ pc \in {"check", "lock", "sequence"}
           \/ writers[w].pc \in {"insert", "recover", "outbox", "commit"}
              /\ pc \in {"insert", "recover", "outbox", "commit"}
    PROVE  /\ writers' \in [Writers -> Session]
           /\ writers'[w].pc = pc
           /\ writers'[w].event = writers[w].event
           /\ pc \in {"insert", "recover", "outbox", "commit"} =>
                 writers'[w].sequence = writers[w].sequence
           /\ \A v \in Writers \ {w} : writers'[v] = writers[v]
  <1>1. writers \in [Writers -> Session]
    BY DEF StoreTypes
  <1>2. writers' = [writers EXCEPT ![w] = [writers[w] EXCEPT !.pc = pc]]
    BY DEF Goto
  <1>3. writers'[w] = [writers[w] EXCEPT !.pc = pc]
        /\ \A v \in Writers \ {w} : writers'[v] = writers[v]
    BY <1>1, <1>2
  <1>4. CASE writers[w].pc \in {"check", "lock", "sequence"}
    <2>1. writers[w] \in [pc : {"check", "lock", "sequence"}, event : Events]
      BY <1>4, SessionFields
    <2>2. pc \in {"check", "lock", "sequence"}
      BY <1>4
    <2>3. [writers[w] EXCEPT !.pc = pc] \in [pc : {"check", "lock", "sequence"}, event : Events]
      BY <2>1, <2>2
    <2>4. [writers[w] EXCEPT !.pc = pc] \in Session
      BY <2>3 DEF Session
    <2> QED BY <1>1, <1>2, <1>3, <2>1, <2>2, <2>4
  <1>5. CASE writers[w].pc \in {"insert", "recover", "outbox", "commit"}
    <2>1. writers[w] \in [pc : {"insert", "recover", "outbox", "commit"}, event : Events,
                          sequence : Nat \ {0}]
      BY <1>5, SessionFields
    <2>2. pc \in {"insert", "recover", "outbox", "commit"}
      BY <1>5
    <2>3. [writers[w] EXCEPT !.pc = pc]
             \in [pc : {"insert", "recover", "outbox", "commit"}, event : Events,
                  sequence : Nat \ {0}]
      BY <2>1, <2>2
    <2>4. [writers[w] EXCEPT !.pc = pc] \in Session
      BY <2>3 DEF Session
    <2> QED BY <1>1, <1>2, <1>3, <2>1, <2>2, <2>4
  <1> QED BY <1>4, <1>5
-----------------------------------------------------------------------------
(* One statement of a writer, as the invariant needs it.                    *)

(* The row the writer inserts.                                              *)
RowOf(w) == Row(writers[w].event, writers[w].sequence)

TableStep(w) ==
    \/ UNCHANGED <<domainEvents, outbox>>
    \/ /\ Pending(w) /\ writers'[w].pc = "idle"
       /\ domainEvents' = domainEvents \union {RowOf(w)}
       /\ outbox' = outbox \union {writers[w].event.id}

SessionStep(w) ==
    /\ writers' \in [Writers -> Session]
    /\ \A v \in Writers \ {w} : writers'[v] = writers[v]
    /\ HoldsLock(w)' =>
          /\ writers'[w].event = writers[w].event
          /\ \/ HoldsLock(w)
             \/ \A v \in Writers \ {w} :
                   HoldsLock(v) => writers[v].event.aggregate # writers[w].event.aggregate
    /\ Numbered(w)' =>
          /\ HoldsLock(w)
          /\ \/ Numbered(w) /\ writers'[w].sequence = writers[w].sequence
             \/ writers'[w].sequence = Cardinality(RowsOf(writers[w].event.aggregate)) + 1
    /\ Pending(w)' =>
          /\ writers'[w].sequence = writers[w].sequence
          /\ \/ Pending(w)
             \/ \A r \in domainEvents \union Uncommitted(w) : ~Collides(w, r)
    /\ writers'[w].pc = "recover" => KeyRows(w) # {}

Truthful(w, e, kind, sequence) ==
    /\ kind = "known" =>
          \E r \in domainEvents : /\ r.event.key = e.key /\ SameRequest(r.event, e)
                                  /\ r.sequence = sequence
    /\ kind = "reused" =>
          \E r \in domainEvents : r.event.key = e.key /\ ~SameRequest(r.event, e)
    /\ kind = "error" => \E r \in domainEvents : r.event.id = e.id
    /\ kind = "inserted" =>
          /\ Pending(w) /\ e = writers[w].event /\ sequence = writers[w].sequence
          /\ domainEvents' = domainEvents \union {RowOf(w)}

AnswerStep(w) ==
    \/ UNCHANGED answers
    \/ \E e \in Events, sequence \in Nat,
          kind \in {"inserted", "known", "reused", "error", "lost"} :
          /\ answers' = Append(answers, [event |-> e, kind |-> kind, sequence |-> sequence])
          /\ Truthful(w, e, kind, sequence)

Statement(w) == TableStep(w) /\ SessionStep(w) /\ AnswerStep(w)

(* A transaction that ends leaves its connection idle.                      *)
LEMMA Ending ==
    ASSUME StoreTypes, NEW w \in Writers, NEW kind, NEW sequence, Answer(w, kind, sequence)
    PROVE  writers'[w].pc = "idle" /\ SessionStep(w)
  <1>1. /\ writers \in [Writers -> Session]
        /\ writers' = [writers EXCEPT ![w] = Idle]
    BY DEF StoreTypes, Answer
  <1>2. writers'[w] = Idle /\ \A v \in Writers \ {w} : writers'[v] = writers[v]
    BY <1>1
  <1>3. writers' \in [Writers -> Session]
    BY <1>1 DEF Session
  <1>4. writers'[w].pc = "idle"
    BY <1>2 DEF Idle
  <1> QED BY <1>2, <1>3, <1>4 DEF SessionStep, HoldsLock, Numbered, Pending

(* An answer whose kind says something true of the table.                   *)
LEMMA Answering ==
    ASSUME StoreTypes, NEW w \in Writers, writers[w].pc # "idle",
           NEW kind \in {"inserted", "known", "reused", "error", "lost"},
           NEW sequence \in Nat, Answer(w, kind, sequence),
           Truthful(w, writers[w].event, kind, sequence)
    PROVE  AnswerStep(w)
  <1>1. writers[w].event \in Events
    BY SessionFields
  <1>2. answers' = Append(answers, [event |-> writers[w].event, kind |-> kind,
                                    sequence |-> sequence])
    BY DEF Answer
  <1> QED BY <1>1, <1>2 DEF AnswerStep

(* idempotent_outcome answers from the row of the key.                      *)
LEMMA Reconciling ==
    ASSUME StoreTypes, NEW w \in Writers, writers[w].pc # "idle",
           NEW row \in KeyRows(w), Reconcile(w, row)
    PROVE  SessionStep(w) /\ AnswerStep(w)
  <1>1. row \in domainEvents /\ row \in EventRow /\ row.event.key = writers[w].event.key
    BY DEF KeyRows, StoreTypes
  <1>2. CASE SameRequest(row.event, writers[w].event)
    <2>1. Answer(w, "known", row.sequence) /\ row.sequence \in Nat
      BY <1>1, <1>2 DEF Reconcile, EventRow
    <2>2. Truthful(w, writers[w].event, "known", row.sequence)
      BY <1>1, <1>2 DEF Truthful
    <2> QED BY <2>1, <2>2, Ending, Answering
  <1>3. CASE ~SameRequest(row.event, writers[w].event)
    <2>1. Answer(w, "reused", 0)
      BY <1>3 DEF Reconcile
    <2>2. Truthful(w, writers[w].event, "reused", 0)
      BY <1>1, <1>3 DEF Truthful
    <2> QED BY <2>1, <2>2, Ending, Answering
  <1> QED BY <1>2, <1>3
LEMMA Begins ==
    ASSUME Inv, NEW w \in Writers, NEW e \in Events, Begin(w, e)
    PROVE  Statement(w)
  <1>1. /\ writers \in [Writers -> Session]
        /\ writers' = [writers EXCEPT ![w] = Open(e)]
    BY DEF Inv, StoreTypes, Begin
  <1>2. writers'[w] = Open(e) /\ \A v \in Writers \ {w} : writers'[v] = writers[v]
    BY <1>1
  <1>3. Open(e) \in Session
    BY DEF Open, Session
  <1>4. writers' \in [Writers -> Session]
    BY <1>1, <1>3
  <1>5. writers'[w].pc = "check"
    BY <1>2 DEF Open
  <1>6. SessionStep(w)
    BY <1>2, <1>4, <1>5 DEF SessionStep, HoldsLock, Numbered, Pending
  <1> QED BY <1>6 DEF Begin, Statement, TableStep, AnswerStep

LEMMA PreChecks ==
    ASSUME Inv, NEW w \in Writers, PreCheck(w)
    PROVE  Statement(w)
  <1>1. StoreTypes /\ writers[w].pc = "check" /\ UNCHANGED <<domainEvents, outbox>>
    BY DEF Inv, PreCheck
  <1>2. CASE KeyRows(w) = {}
    <2>1. Goto(w, "lock") /\ UNCHANGED answers
      BY <1>2 DEF PreCheck
    <2>2. SessionStep(w)
      BY <1>1, <2>1, GoingOn DEF SessionStep, HoldsLock, Numbered, Pending
    <2> QED BY <1>1, <2>1, <2>2 DEF Statement, TableStep, AnswerStep
  <1>3. CASE KeyRows(w) # {}
    <2>1. PICK row \in KeyRows(w) : Reconcile(w, row)
      BY <1>3 DEF PreCheck
    <2> QED BY <1>1, <2>1, Reconciling DEF Statement, TableStep
  <1> QED BY <1>2, <1>3

LEMMA Locks ==
    ASSUME Inv, NEW w \in Writers, LockAggregate(w)
    PROVE  Statement(w)
  <1>1. /\ StoreTypes /\ writers[w].pc = "lock" /\ Goto(w, "sequence")
        /\ UNCHANGED <<domainEvents, outbox, answers>>
        /\ \A v \in Writers \ {w} :
              HoldsLock(v) => writers[v].event.aggregate # writers[w].event.aggregate
    BY DEF Inv, LockAggregate
  <1>2. SessionStep(w)
    BY <1>1, GoingOn DEF SessionStep, Numbered, Pending
  <1> QED BY <1>1, <1>2 DEF Statement, TableStep, AnswerStep

LEMMA AssignsSequence ==
    ASSUME Inv, NEW w \in Writers, AssignSequence(w)
    PROVE  Statement(w)
  <1> DEFINE a == writers[w].event.aggregate
             next == [pc |-> "insert", event |-> writers[w].event,
                      sequence |-> Max({r.sequence : r \in RowsOf(a)} \union {0}) + 1]
  <1>1. /\ StoreTypes /\ writers[w].pc = "sequence"
        /\ writers' = [writers EXCEPT ![w] = next]
        /\ UNCHANGED <<domainEvents, outbox, answers>>
    BY DEF Inv, AssignSequence
  <1>2. writers[w].event \in Events /\ a \in Aggregates
    BY <1>1, SessionFields DEF Events
  <1>3. /\ Cardinality(RowsOf(a)) \in Nat
        /\ Max({r.sequence : r \in RowsOf(a)} \union {0}) = Cardinality(RowsOf(a))
    BY <1>2, NextNumber DEF Inv
  <1>4. /\ next.pc = "insert" /\ next.event = writers[w].event
        /\ next.sequence = Cardinality(RowsOf(a)) + 1
        /\ next \in Session
    BY <1>2, <1>3 DEF Session
  <1>5. /\ writers'[w] = next /\ \A v \in Writers \ {w} : writers'[v] = writers[v]
        /\ writers' \in [Writers -> Session]
    <2> HIDE DEF next
    <2> QED BY <1>1, <1>4 DEF StoreTypes
  <1>6. /\ writers'[w].pc = "insert" /\ writers'[w].event = writers[w].event
        /\ writers'[w].sequence = Cardinality(RowsOf(a)) + 1
    <2> HIDE DEF next
    <2> QED BY <1>4, <1>5
  <1>7. SessionStep(w)
    BY <1>1, <1>5, <1>6 DEF SessionStep, HoldsLock, Numbered, Pending
  <1> QED BY <1>1, <1>7 DEF Statement, TableStep, AnswerStep

LEMMA Inserts ==
    ASSUME Inv, NEW w \in Writers, Insert(w)
    PROVE  Statement(w)
  <1>1. /\ StoreTypes /\ EventsAreOrdered /\ writers[w].pc = "insert"
        /\ UNCHANGED <<domainEvents, outbox>>
        /\ \A r \in Uncommitted(w) : ~Collides(w, r)
    BY DEF Inv, Insert
  <1>2. CASE \A r \in domainEvents : ~Collides(w, r)
    <2>1. Goto(w, "outbox") /\ UNCHANGED answers
      BY <1>2 DEF Insert
    <2>2. SessionStep(w)
      BY <1>1, <1>2, <2>1, GoingOn DEF SessionStep, HoldsLock, Numbered, Pending
    <2> QED BY <1>1, <2>1, <2>2 DEF Statement, TableStep, AnswerStep
  <1>3. CASE \E r \in domainEvents : SameId(w, r) \/ SameSequence(w, r)
    <2>1. Answer(w, "error", 0)
      BY <1>3 DEF Insert, AfterConflict, Collides
    <2> DEFINE a == writers[w].event.aggregate
    <2>2. a \in Aggregates /\ writers[w].sequence = Cardinality(RowsOf(a)) + 1
      <3>1. writers[w].event \in Events
        BY <1>1, SessionFields
      <3> QED BY <1>1, <3>1 DEF Events, Inv, NumbersAreNext, Numbered
    <2>3. Cardinality(RowsOf(a)) \in Nat
      BY <1>1, <2>2, NextNumber
    <2>4. \A r \in domainEvents : ~SameSequence(w, r)
      <3> SUFFICES ASSUME NEW r \in domainEvents, SameSequence(w, r) PROVE FALSE
        OBVIOUS
      <3>1. r \in RowsOf(a)
        BY DEF SameSequence, RowsOf
      <3>2. r.sequence \in 1..Cardinality(RowsOf(a))
        BY <1>1, <2>2, <3>1 DEF EventsAreOrdered
      <3> QED BY <2>2, <2>3, <3>2 DEF SameSequence
    <2>5. Truthful(w, writers[w].event, "error", 0)
      BY <1>3, <2>4 DEF Truthful, SameId
    <2> QED BY <1>1, <2>1, <2>5, Ending, Answering DEF Statement, TableStep
  <1>4. CASE /\ \E r \in domainEvents : Collides(w, r)
             /\ ~\E r \in domainEvents : SameId(w, r) \/ SameSequence(w, r)
    <2>1. Goto(w, "recover") /\ UNCHANGED answers
      BY <1>4 DEF Insert, AfterConflict
    <2>2. KeyRows(w) # {}
      BY <1>4 DEF Collides, SameKey, KeyRows
    <2>3. SessionStep(w)
      BY <1>1, <2>1, <2>2, GoingOn DEF SessionStep, HoldsLock, Numbered, Pending
    <2> QED BY <1>1, <2>1, <2>3 DEF Statement, TableStep, AnswerStep
  <1> QED BY <1>2, <1>3, <1>4

LEMMA Recovers ==
    ASSUME Inv, NEW w \in Writers, RecoverKey(w)
    PROVE  Statement(w)
  <1>1. /\ StoreTypes /\ writers[w].pc = "recover" /\ UNCHANGED <<domainEvents, outbox>>
        /\ KeyRows(w) # {}
    BY DEF Inv, RaceIsLost, RecoverKey
  <1>2. PICK row \in KeyRows(w) : Reconcile(w, row)
    BY <1>1 DEF RecoverKey
  <1> QED BY <1>1, <1>2, Reconciling DEF Statement, TableStep

LEMMA InsertsMessage ==
    ASSUME Inv, NEW w \in Writers, InsertMessage(w)
    PROVE  Statement(w)
  <1>1. /\ StoreTypes /\ writers[w].pc = "outbox" /\ Goto(w, "commit")
        /\ UNCHANGED <<domainEvents, outbox, answers>>
    BY DEF Inv, InsertMessage
  <1>2. SessionStep(w)
    BY <1>1, GoingOn DEF SessionStep, HoldsLock, Numbered, Pending
  <1> QED BY <1>1, <1>2 DEF Statement, TableStep, AnswerStep

LEMMA Commits ==
    ASSUME Inv, NEW w \in Writers, Commit(w)
    PROVE  Statement(w)
  <1>1. /\ StoreTypes /\ writers[w].pc = "commit" /\ Pending(w)
        /\ domainEvents' = domainEvents \union {RowOf(w)}
        /\ outbox' = outbox \union {writers[w].event.id}
    BY DEF Inv, Commit, Pending, RowOf
  <1>2. writers[w].sequence \in Nat
    BY <1>1, SessionFields
  <1>3. CASE Answer(w, "inserted", writers[w].sequence)
    <2>1. Truthful(w, writers[w].event, "inserted", writers[w].sequence)
      BY <1>1 DEF Truthful
    <2> QED BY <1>1, <1>2, <1>3, <2>1, Ending, Answering DEF Statement, TableStep
  <1>4. CASE Answer(w, "lost", 0)
    <2>1. Truthful(w, writers[w].event, "lost", 0)
      BY DEF Truthful
    <2> QED BY <1>1, <1>4, <2>1, Ending, Answering DEF Statement, TableStep
  <1> QED BY <1>3, <1>4 DEF Commit

LEMMA Loses ==
    ASSUME Inv, NEW w \in Writers, LoseConnection(w)
    PROVE  Statement(w)
  <1>1. /\ StoreTypes /\ writers[w].pc # "idle" /\ Answer(w, "lost", 0)
        /\ UNCHANGED <<domainEvents, outbox>>
    BY DEF Inv, LoseConnection
  <1>2. Truthful(w, writers[w].event, "lost", 0)
    BY DEF Truthful
  <1> QED BY <1>1, <1>2, Ending, Answering DEF Statement, TableStep

(* Every step is a statement of one writer.                                 *)
LEMMA NextIsAStatement ==
    ASSUME Inv, Next
    PROVE  \E w \in Writers : Statement(w)
  BY Begins, PreChecks, Locks, AssignsSequence, Inserts, Recovers, InsertsMessage,
     Commits, Loses DEF Next
-----------------------------------------------------------------------------
(* A statement keeps each part of the invariant.                            *)

LEMMA TypesKept ==
    ASSUME Inv, NEW w \in Writers, Statement(w)
    PROVE  StoreTypes'
  <1>1. StoreTypes
    BY DEF Inv
  <1>2. domainEvents' \subseteq EventRow /\ IsFiniteSet(domainEvents')
    <2>1. CASE UNCHANGED <<domainEvents, outbox>>
      BY <1>1, <2>1 DEF StoreTypes
    <2>2. CASE Pending(w) /\ domainEvents' = domainEvents \union {RowOf(w)}
      <3>1. RowOf(w) \in EventRow
        BY <1>1, <2>2, SessionFields DEF Pending, RowOf, Row, EventRow
      <3> QED BY <1>1, <2>2, <3>1, FS_AddElement DEF StoreTypes
    <2> QED BY <2>1, <2>2 DEF Statement, TableStep
  <1>3. writers' \in [Writers -> Session]
    BY DEF Statement, SessionStep
  <1>4. answers' \in Seq(Outcome)
    <2>1. CASE UNCHANGED answers
      BY <1>1, <2>1 DEF StoreTypes
    <2>2. CASE ~UNCHANGED answers
      <3>1. PICK reply \in Outcome : answers' = Append(answers, reply)
        BY <2>2 DEF Statement, AnswerStep, Outcome
      <3> QED BY <1>1, <3>1 DEF StoreTypes
    <2> QED BY <2>1, <2>2
  <1> QED BY <1>2, <1>3, <1>4 DEF StoreTypes

LEMMA LocksKept ==
    ASSUME Inv, NEW w \in Writers, Statement(w)
    PROVE  LocksExclude'
  <1>1. LocksExclude /\ SessionStep(w)
    BY DEF Inv, Statement
  <1>2. \A v \in Writers \ {w} :
           writers'[v] = writers[v] /\ (HoldsLock(v)' <=> HoldsLock(v))
    BY <1>1 DEF SessionStep, HoldsLock
  <1>3. ASSUME NEW v \in Writers \ {w}, HoldsLock(w)', HoldsLock(v)'
        PROVE  writers'[w].event.aggregate # writers'[v].event.aggregate
    BY <1>1, <1>2, <1>3 DEF SessionStep, LocksExclude
  <1>4. ASSUME NEW u \in Writers, NEW v \in Writers, u # v, HoldsLock(u)', HoldsLock(v)'
        PROVE  writers'[u].event.aggregate # writers'[v].event.aggregate
    <2>1. CASE u = w
      BY <1>3, <1>4, <2>1
    <2>2. CASE v = w
      BY <1>3, <1>4, <2>2
    <2>3. CASE u # w /\ v # w
      BY <1>1, <1>2, <1>4, <2>3 DEF LocksExclude
    <2> QED BY <2>1, <2>2, <2>3
  <1> QED BY <1>4 DEF LocksExclude

(* A commit adds a row of a new event, a new key and the next number.       *)
LEMMA CommitsAreNew ==
    ASSUME Inv, NEW w \in Writers, Pending(w)
    PROVE  /\ RowOf(w).event = writers[w].event /\ writers[w].event \in Events
           /\ RowOf(w).sequence = Cardinality(RowsOf(writers[w].event.aggregate)) + 1
           /\ \A r \in domainEvents : r.event.id # writers[w].event.id
                                      /\ r.event.key # writers[w].event.key
           /\ RowOf(w) \notin domainEvents
  <1>1. StoreTypes /\ PendingApart /\ NumbersAreNext
    BY DEF Inv
  <1>2. /\ RowOf(w).event = writers[w].event /\ RowOf(w).sequence = writers[w].sequence
        /\ writers[w].event \in Events
    BY <1>1, SessionFields DEF RowOf, Row, Pending
  <1>3. \A r \in domainEvents : r.event.id # writers[w].event.id
                                /\ r.event.key # writers[w].event.key
    BY <1>1 DEF PendingApart, Collides, SameId, SameKey
  <1>4. RowOf(w).sequence = Cardinality(RowsOf(writers[w].event.aggregate)) + 1
    BY <1>1, <1>2 DEF NumbersAreNext, Numbered, Pending
  <1> QED BY <1>2, <1>3, <1>4

(* What a statement makes of the rows of an aggregate.                      *)
LEMMA RowsAfter ==
    ASSUME Inv, NEW w \in Writers, Statement(w), NEW a \in Aggregates
    PROVE  \/ RowsOf(a)' = RowsOf(a)
           \/ /\ Pending(w) /\ a = writers[w].event.aggregate
              /\ domainEvents' = domainEvents \union {RowOf(w)}
              /\ RowsOf(a)' = RowsOf(a) \union {RowOf(w)}
              /\ Cardinality(RowsOf(a)') = Cardinality(RowsOf(a)) + 1
  <1>1. CASE UNCHANGED <<domainEvents, outbox>>
    BY <1>1 DEF RowsOf
  <1>2. CASE Pending(w) /\ domainEvents' = domainEvents \union {RowOf(w)}
    <2>1. CASE a # writers[w].event.aggregate
      BY <1>2, <2>1, CommitsAreNew DEF RowsOf
    <2>2. CASE a = writers[w].event.aggregate
      <3>1. RowsOf(a)' = RowsOf(a) \union {RowOf(w)} /\ RowOf(w) \notin RowsOf(a)
        BY <1>2, <2>2, CommitsAreNew DEF RowsOf
      <3>2. IsFiniteSet(RowsOf(a))
        BY FS_Subset DEF Inv, StoreTypes, RowsOf
      <3>3. Cardinality(RowsOf(a) \union {RowOf(w)}) = Cardinality(RowsOf(a)) + 1
        BY <3>1, <3>2, FS_AddElement
      <3> QED BY <1>2, <2>2, <3>1, <3>3
    <2> QED BY <2>1, <2>2
  <1> QED BY <1>1, <1>2 DEF Statement, TableStep

LEMMA NumbersKept ==
    ASSUME Inv, NEW w \in Writers, Statement(w)
    PROVE  NumbersAreNext'
  <1>1. StoreTypes /\ LocksExclude /\ NumbersAreNext /\ SessionStep(w)
    BY DEF Inv, Statement
  <1>2. ASSUME NEW v \in Writers, Numbered(v)',
               NEW a \in Aggregates, a = writers'[v].event.aggregate
        PROVE  writers'[v].sequence = Cardinality(RowsOf(a)') + 1
    <2>1. CASE v = w
      <3>1. /\ HoldsLock(w)' /\ HoldsLock(w) /\ a = writers[w].event.aggregate
            /\ writers'[w].pc # "idle"
        BY <1>1, <1>2, <2>1 DEF SessionStep, HoldsLock, Numbered
      <3>2. UNCHANGED domainEvents
        BY <3>1 DEF Statement, TableStep
      <3>3. RowsOf(a)' = RowsOf(a)
        BY <3>2 DEF RowsOf
      <3>4. writers'[w].sequence = Cardinality(RowsOf(a)) + 1
        BY <1>1, <1>2, <2>1, <3>1 DEF SessionStep, NumbersAreNext
      <3> QED BY <2>1, <3>3, <3>4
    <2>2. CASE v # w
      <3>1. /\ writers'[v] = writers[v] /\ Numbered(v) /\ HoldsLock(v)
            /\ a = writers[v].event.aggregate
        BY <1>1, <1>2, <2>2 DEF SessionStep, HoldsLock, Numbered
      <3>2. RowsOf(a)' = RowsOf(a)
        <4> SUFFICES ASSUME Pending(w), a = writers[w].event.aggregate PROVE FALSE
          BY RowsAfter
        <4> QED BY <1>1, <2>2, <3>1 DEF LocksExclude, HoldsLock, Pending
      <3> QED BY <1>1, <3>1, <3>2 DEF NumbersAreNext
    <2> QED BY <2>1, <2>2
  <1>3. ASSUME NEW v \in Writers, Numbered(v)'
        PROVE  writers'[v].event.aggregate \in Aggregates
    <2>1. writers'[v] \in Session
      BY DEF Statement, SessionStep
    <2>2. writers'[v].pc \in {"insert", "outbox", "commit"}
      BY <1>3 DEF Numbered
    <2> QED BY <2>1, <2>2 DEF Session, Idle, Events

  <1>4. ASSUME NEW v \in Writers, Numbered(v)'
        PROVE  (writers[v].sequence
                   = Cardinality(RowsOf(writers[v].event.aggregate)) + 1)'
    <2>1. PICK a \in Aggregates : a = writers'[v].event.aggregate
      BY <1>3, <1>4
    <2>2. RowsOf(a)' = {r \in domainEvents' : r.event.aggregate = a}
      BY DEF RowsOf
    <2>3. (RowsOf(writers[v].event.aggregate))' = {r \in domainEvents' : r.event.aggregate = a}
      BY <2>1 DEF RowsOf
    <2> QED BY <1>2, <1>4, <2>1, <2>2, <2>3
  <1> QED BY <1>4 DEF NumbersAreNext
LEMMA PendingKept ==
    ASSUME Inv, NEW w \in Writers, Statement(w)
    PROVE  PendingApart'
  <1>1. PendingApart /\ SessionStep(w)
    BY DEF Inv, Statement
  <1>2. ASSUME NEW v \in Writers, v # w
        PROVE  /\ writers'[v] = writers[v] /\ (Pending(v)' <=> Pending(v))
               /\ RowOf(v)' = RowOf(v)
               /\ \A r : Collides(v, r)' <=> Collides(v, r)
    BY <1>1, <1>2 DEF SessionStep, Pending, RowOf, Collides, SameId, SameSequence, SameKey
  <1>3. ASSUME Pending(w)'
        PROVE  /\ UNCHANGED domainEvents /\ RowOf(w)' = RowOf(w)
               /\ \A r : Collides(w, r)' <=> Collides(w, r)
               /\ Pending(w) \/ \A r \in domainEvents \union Uncommitted(w) : ~Collides(w, r)
    <2>1. /\ writers'[w].event = writers[w].event /\ writers'[w].sequence = writers[w].sequence
          /\ writers'[w].pc # "idle"
          /\ Pending(w) \/ \A r \in domainEvents \union Uncommitted(w) : ~Collides(w, r)
      BY <1>1, <1>3 DEF SessionStep, Pending, HoldsLock
    <2> QED BY <2>1 DEF Statement, TableStep, RowOf, Collides, SameId, SameSequence, SameKey
  <1>4. \A u \in Writers : Uncommitted(u) = {RowOf(v) : v \in {v \in Writers \ {u} : Pending(v)}}
    BY DEF Uncommitted, RowOf, Pending
  <1>5. \A u \in Writers :
           Uncommitted(u)' = {RowOf(v)' : v \in {v \in Writers \ {u} : Pending(v)'}}
    BY DEF Uncommitted, RowOf, Pending
  <1>6. ASSUME Pending(w)', NEW r \in domainEvents' \union Uncommitted(w)'
        PROVE  ~Collides(w, r)'
    <2>1. r \in domainEvents \union Uncommitted(w)
      BY <1>2, <1>3, <1>4, <1>5, <1>6
    <2> QED BY <1>1, <1>3, <1>6, <2>1 DEF PendingApart
  <1>7. ASSUME NEW u \in Writers, u # w, Pending(u)', NEW r \in domainEvents' \union Uncommitted(u)'
        PROVE  ~Collides(u, r)'
    <2>1. /\ Pending(u)
          /\ \A s \in domainEvents \union Uncommitted(u) : ~Collides(u, s)
          /\ Collides(u, r)' <=> Collides(u, r)
      BY <1>1, <1>2, <1>7 DEF PendingApart
    <2>2. CASE r \in domainEvents'
      <3>1. r \in domainEvents \/ (Pending(w) /\ r = RowOf(w))
        BY <2>2 DEF Statement, TableStep
      <3> QED BY <1>4, <1>7, <2>1, <3>1
    <2>3. CASE r \in Uncommitted(u)'
      <3>1. PICK v \in Writers \ {u} : Pending(v)' /\ r = RowOf(v)'
        BY <1>5, <2>3
      <3>2. CASE v # w
        BY <1>2, <1>4, <2>1, <3>1, <3>2
      <3>3. CASE v = w /\ Pending(w)
        BY <1>3, <1>4, <1>7, <2>1, <3>1, <3>3
      <3>4. CASE v = w /\ ~Pending(w)
        <4>1. r = RowOf(w) /\ \A s \in Uncommitted(w) : ~Collides(w, s)
          BY <1>3, <3>1, <3>4
        <4>2. ~Collides(w, RowOf(u))
          BY <1>4, <1>7, <2>1, <4>1
        <4> QED BY <2>1, <4>1, <4>2
             DEF Collides, SameId, SameSequence, SameKey, RowOf, Row
      <3> QED BY <3>2, <3>3, <3>4
    <2> QED BY <2>2, <2>3
  <1>8. ASSUME NEW u \in Writers, Pending(u)'
        PROVE  (\A r \in domainEvents \union Uncommitted(u) : ~Collides(u, r))'
    BY <1>6, <1>7, <1>8
  <1> QED BY <1>8 DEF PendingApart

LEMMA RacesKept ==
    ASSUME Inv, NEW w \in Writers, Statement(w)
    PROVE  RaceIsLost'
  <1>1. RaceIsLost /\ SessionStep(w) /\ domainEvents \subseteq domainEvents'
    BY DEF Inv, Statement, TableStep
  <1>2. ASSUME NEW v \in Writers, writers'[v].pc = "recover"
        PROVE  KeyRows(v)' # {}
    <2>1. writers'[v].event = writers[v].event /\ KeyRows(v) # {}
      BY <1>1, <1>2 DEF SessionStep, HoldsLock, RaceIsLost
    <2> QED BY <1>1, <2>1 DEF KeyRows
  <1> QED BY <1>2 DEF RaceIsLost

LEMMA OrderKept ==
    ASSUME Inv, NEW w \in Writers, Statement(w)
    PROVE  EventsAreOrdered'
  <1>1. EventsAreOrdered
    BY DEF Inv
  <1>2. ASSUME NEW a \in Aggregates
        PROVE  ({r.sequence : r \in RowsOf(a)} = 1..Cardinality(RowsOf(a)))'
    <2>1. CASE RowsOf(a)' = RowsOf(a)
      BY <1>1, <2>1 DEF EventsAreOrdered
    <2>2. CASE /\ Pending(w) /\ a = writers[w].event.aggregate
               /\ RowsOf(a)' = RowsOf(a) \union {RowOf(w)}
               /\ Cardinality(RowsOf(a)') = Cardinality(RowsOf(a)) + 1
      <3> DEFINE n == Cardinality(RowsOf(a))
      <3>1. RowOf(w).sequence = n + 1
        BY <2>2, CommitsAreNew
      <3>2. {r.sequence : r \in RowsOf(a)} = 1..n
        BY <1>1 DEF EventsAreOrdered
      <3>3. n \in Nat
        BY <1>1, NextNumber DEF Inv
      <3>4. {r.sequence : r \in RowsOf(a)'} = (1..n) \union {n + 1}
        BY <2>2, <3>1, <3>2
      <3>5. (1..n) \union {n + 1} = 1..(n + 1)
        BY <3>3
      <3> QED BY <2>2, <3>4, <3>5
    <2> QED BY <2>1, <2>2, RowsAfter
  <1>3. /\ (\A r, s \in domainEvents :
               r # s => r.event.id # s.event.id /\ r.event.key # s.event.key)'
        /\ (outbox = {r.event.id : r \in domainEvents})'
    <2>1. CASE UNCHANGED <<domainEvents, outbox>>
      BY <1>1, <2>1 DEF EventsAreOrdered
    <2>2. CASE /\ Pending(w)
               /\ domainEvents' = domainEvents \union {RowOf(w)}
               /\ outbox' = outbox \union {writers[w].event.id}
      BY <1>1, <2>2, CommitsAreNew DEF EventsAreOrdered
    <2> QED BY <2>1, <2>2 DEF Statement, TableStep
  <1> QED BY <1>2, <1>3 DEF EventsAreOrdered

(* What was true of the table stays true, since rows are only added; an     *)
(* "inserted" is the first of its key, since an earlier one left a row.     *)
LEMMA AnswersKept ==
    ASSUME Inv, NEW w \in Writers, Statement(w)
    PROVE  AnswersAreTruthful'
  <1> DEFINE Held(table, a) == {r \in table : r.event.key = a.event.key}
             Backed(table, a) ==
                /\ a.kind \in {"inserted", "known"} =>
                      \E r \in Held(table, a) :
                         SameRequest(r.event, a.event) /\ r.sequence = a.sequence
                /\ a.kind = "reused" =>
                      \E r \in Held(table, a) : ~SameRequest(r.event, a.event)
                /\ a.kind = "error" => \E r \in table : r.event.id = a.event.id
             Once(all, i) ==
                all[i].kind = "inserted" =>
                   \A j \in 1..Len(all) :
                      j # i /\ all[j].event.key = all[i].event.key
                         => all[j].kind # "inserted"
             Good(table, all) ==
                \A i \in 1..Len(all) : Backed(table, all[i]) /\ Once(all, i)
  <1>1. AnswersAreTruthful <=> Good(domainEvents, answers)
    BY DEF AnswersAreTruthful
  <1>2. AnswersAreTruthful' <=> Good(domainEvents', answers')
    BY DEF AnswersAreTruthful
  <1>3. domainEvents \subseteq domainEvents'
    BY DEF Statement, TableStep
  <1>4. \A a : Backed(domainEvents, a) => Backed(domainEvents', a)
    BY <1>3
  <1> HIDE DEF Backed, Once
  <1>5. \A i \in 1..Len(answers) : Backed(domainEvents, answers[i]) /\ Once(answers, i)
    BY <1>1 DEF Inv
  <1>6. CASE UNCHANGED answers
    BY <1>4, <1>5, <1>6, <1>2
  <1>7. CASE ~UNCHANGED answers
    <2>1. PICK e \in Events, sequence \in Nat,
               kind \in {"inserted", "known", "reused", "error", "lost"} :
             /\ answers' = Append(answers, [event |-> e, kind |-> kind, sequence |-> sequence])
             /\ Truthful(w, e, kind, sequence)
      BY <1>7 DEF Statement, AnswerStep
    <2> DEFINE last == [event |-> e, kind |-> kind, sequence |-> sequence]
               n == Len(answers)
    <2>2. last.event = e /\ last.kind = kind /\ last.sequence = sequence
      OBVIOUS
    <2>3. Backed(domainEvents', last)
      <3>1. CASE kind = "inserted"
        <4>1. /\ RowOf(w) \in domainEvents' /\ RowOf(w).event = e
              /\ RowOf(w).sequence = sequence
          BY <2>1, <3>1, CommitsAreNew DEF Truthful, RowOf, Row
        <4> QED BY <2>2, <3>1, <4>1 DEF Backed, SameRequest
      <3>2. CASE kind # "inserted"
        <4>1. Backed(domainEvents, last)
          BY <2>1, <2>2, <3>2 DEF Truthful, Backed
        <4> QED BY <1>4, <4>1
      <3> QED BY <3>1, <3>2
    <2> HIDE DEF last
    <2>4. /\ answers \in Seq(Outcome) /\ n \in Nat /\ Len(answers') = n + 1
          /\ answers'[n + 1] = last /\ \A i \in 1..n : answers'[i] = answers[i]
      <3>1. answers \in Seq(Outcome) /\ answers' = Append(answers, last)
        BY <2>1 DEF Inv, StoreTypes, last
      <3> QED BY <3>1
    <2>5. \A i \in 1..Len(answers') : Backed(domainEvents', answers'[i])
      BY <1>4, <1>5, <2>3, <2>4
    <2>6. ASSUME kind = "inserted", NEW i \in 1..n, answers[i].kind = "inserted"
          PROVE  answers[i].event.key # e.key
      <3>1. \E r \in domainEvents : r.event.key = answers[i].event.key
        BY <1>5, <2>6 DEF Backed
      <3>2. e = writers[w].event /\ Pending(w)
        BY <2>1, <2>6 DEF Truthful
      <3> QED BY <3>1, <3>2, CommitsAreNew
    <2>7. \A i \in 1..Len(answers') : Once(answers', i)
      <3> SUFFICES ASSUME NEW i \in 1..(n + 1), NEW j \in 1..(n + 1), i # j,
                          answers'[i].kind = "inserted",
                          answers'[j].event.key = answers'[i].event.key,
                          answers'[j].kind = "inserted"
                   PROVE  FALSE
        BY <2>4 DEF Once
      <3>1. CASE i \in 1..n /\ j \in 1..n
        BY <1>5, <2>4, <3>1 DEF Once
      <3>2. CASE i = n + 1 /\ j \in 1..n
        BY <2>2, <2>4, <2>6, <3>2
      <3>3. CASE j = n + 1 /\ i \in 1..n
        BY <2>2, <2>4, <2>6, <3>3
      <3> QED BY <2>4, <3>1, <3>2, <3>3
    <2> QED BY <1>2, <2>5, <2>7
  <1> QED BY <1>6, <1>7
-----------------------------------------------------------------------------
(* The theorem.                                                             *)

LEMMA InvInit == Init => Inv
  <1> SUFFICES ASSUME Init PROVE Inv
    OBVIOUS
  <1>1. /\ domainEvents = {} /\ outbox = {} /\ answers = <<>>
        /\ writers = [w \in Writers |-> Idle]
    BY DEF Init
  <1>2. \A w \in Writers : writers[w] = Idle /\ writers[w].pc = "idle"
    BY <1>1 DEF Idle
  <1>3. StoreTypes
    BY <1>1, FS_EmptySet DEF StoreTypes, Session
  <1>4. LocksExclude /\ NumbersAreNext /\ PendingApart /\ RaceIsLost
    BY <1>2 DEF LocksExclude, NumbersAreNext, PendingApart, RaceIsLost,
                HoldsLock, Numbered, Pending
  <1>5. EventsAreOrdered
    <2>1. \A a \in Aggregates : RowsOf(a) = {}
      BY <1>1 DEF RowsOf
    <2>2. Cardinality({}) = 0
      BY FS_EmptySet
    <2>3. \A a \in Aggregates : {r.sequence : r \in RowsOf(a)} = 1..Cardinality(RowsOf(a))
      BY <2>1, <2>2
    <2> QED BY <1>1, <2>3 DEF EventsAreOrdered
  <1>6. AnswersAreTruthful
    BY <1>1 DEF AnswersAreTruthful
  <1> QED BY <1>3, <1>4, <1>5, <1>6 DEF Inv

LEMMA InvNext == Inv /\ [Next]_eventVars => Inv'
  <1> SUFFICES ASSUME Inv, [Next]_eventVars PROVE Inv'
    OBVIOUS
  <1>1. CASE Next
    <2>1. PICK w \in Writers : Statement(w)
      BY <1>1, NextIsAStatement
    <2> QED BY <2>1, TypesKept, LocksKept, NumbersKept, PendingKept, RacesKept, OrderKept,
               AnswersKept DEF Inv
  <1>2. CASE UNCHANGED eventVars
    BY <1>2 DEF eventVars, Inv, StoreTypes, LocksExclude, NumbersAreNext, PendingApart,
                RaceIsLost, EventsAreOrdered, AnswersAreTruthful, HoldsLock, Numbered,
                Pending, RowsOf, KeyRows, Uncommitted, Collides, SameId, SameSequence, SameKey
  <1> QED BY <1>1, <1>2

(* Whatever the writers of append_event race on, and whenever a connection  *)
(* is lost: the rows of an aggregate are numbered 1..n, an event and a key  *)
(* stand for one row, every row has its outbox message, and every outcome a *)
(* caller was given is what the table holds.                                *)
THEOREM AppendsHonest == Spec => []AppendsAreHonest
  <1>1. Inv => AppendsAreHonest
    BY DEF Inv, AppendsAreHonest
  <1> QED BY <1>1, InvInit, InvNext, PTL DEF Spec

-----------------------------------------------------------------------------
(* Combination orders.                                                      *)

(* At least one whole unit is approved, of legs with signed ratios.         *)
CombosAreApproved == Units \in Nat \ {0} /\ Ratio \in [Legs -> Int]

UnitsOf == [g \in Groups |-> g.units]

Paired(c) == \A l \in Legs : c.books[l] = Ratio[l] * c.filled
Counted(c) == IsFiniteSet(c.receipts) /\ c.filled = SumOf(UnitsOf, c.receipts)
Distinct(c) ==
    \A g, h \in c.receipts : g # h => {g.id, g.fills} \intersect {h.id, h.fills} = {}

(* A combination whose evidence is refused is told by nothing but its       *)
(* state; every other one is FILLED exactly with its last unit.             *)
Stated(c) ==
    /\ c.state = "FILLED" => c.filled = Units
    /\ c.filled = Units => c.state = "FILLED" \/ (c.state = "UNKNOWN" /\ c.evidenceError)
    /\ c.state = "PARTIALLY_FILLED" => c.filled # 0
    /\ c.evidenceError => c.state \in {"UNKNOWN", "FILLED"}
    /\ c.receipts # {} => c.brokerId = 1
    /\ c.state = "NONE" => c = EmptyCombo

SoundCombo(c) == c \in ComboType /\ Paired(c) /\ Counted(c) /\ Distinct(c) /\ Stated(c)

ComboInv ==
    /\ kernel \in {"PAPER", "LIVE"} /\ refused \in BOOLEAN
    /\ comboRoute \in [connected : BOOLEAN, call : {"none", "submit", "cancel"}]
    /\ comboDisk = combo /\ SoundCombo(combo)
    /\ comboRoute.call = "submit" =>
           combo.state = "PENDING_SUBMIT" /\ combo.filled = 0
    /\ comboRoute.call = "cancel" => combo.state = "PENDING_CANCEL"
    /\ refused => combo.evidenceError \/ combo.incident
    /\ kernel = "PAPER" => ~combo.incident

-----------------------------------------------------------------------------
LEMMA ComboStates ==
    /\ StoredStates = {"PENDING_SUBMIT", "ACKNOWLEDGED", "PARTIALLY_FILLED", "PENDING_CANCEL",
                       "PENDING_REPLACE", "UNKNOWN", "CANCELLED", "REJECTED", "EXPIRED", "FILLED"}
    /\ Closed = {"CANCELLED", "REJECTED", "EXPIRED"}
    /\ Terminal = {"CANCELLED", "REJECTED", "EXPIRED", "FILLED"}
    /\ Revisable = {"ACKNOWLEDGED", "PARTIALLY_FILLED"}
    /\ \A t \in Closings : ClosingState(t) \in Closed
  BY DEF StoredStates, Closed, Terminal, Revisable, Closings, ClosingState

(* What LegsStayPaired sums.                                                *)
LEMMA ReceiptSum ==
    ASSUME NEW S \in SUBSET Groups
    PROVE  MapThenSumSet(LAMBDA g : g.units, S) = SumOf(UnitsOf, S)
  <1> DEFINE Q(s) ==
          s = [T \in SUBSET S |-> IF T = {} THEN 0 ELSE Chosen(T).units + s[T \ {Chosen(T)}]]
  <1>1. MapThenSumSet(LAMBDA g : g.units, S) = (CHOOSE s : Q(s))[S]
    BY DEF MapThenSumSet, MapThenFoldSet, Chosen
  <1>2. ASSUME NEW s
        PROVE  Q(s) <=> Summing(s, UnitsOf, S)
    <2>1. \A T \in SUBSET S : T # {} => UnitsOf[Chosen(T)] = Chosen(T).units
      BY DEF Chosen, UnitsOf
    <2> QED BY <2>1 DEF Summing
  <1> HIDE DEF Q
  <1>3. (CHOOSE s : Q(s)) = (CHOOSE s : Summing(s, UnitsOf, S))
    BY <1>2
  <1> QED BY <1>1, <1>3, SumDefinition

LEMMA ComboStarts ==
    ASSUME CombosAreApproved, ComboInit
    PROVE  ComboInv
  <1>1. EmptyCombo \in ComboType
    BY ComboStates DEF EmptyCombo, ComboType, CombosAreApproved
  <1>2. SumOf(UnitsOf, {}) = 0
    BY FS_EmptySet, SumOfParts
  <1>3. Paired(EmptyCombo)
    BY DEF Paired, EmptyCombo, CombosAreApproved
  <1>4. Counted(EmptyCombo) /\ Distinct(EmptyCombo) /\ Stated(EmptyCombo)
    BY <1>2, FS_EmptySet DEF Counted, Distinct, Stated, EmptyCombo, CombosAreApproved
  <1> QED BY <1>1, <1>3, <1>4 DEF ComboInit, ComboInv, SoundCombo, EmptyCombo

-----------------------------------------------------------------------------
(* A status says nothing of the executions.                                 *)
SameFills(c, n) ==
    /\ n \in ComboType /\ n.books = c.books /\ n.filled = c.filled /\ n.receipts = c.receipts
    /\ c.brokerId = 1 => n.brokerId = 1

LEMMA StatusSound ==
    ASSUME NEW c, SoundCombo(c), NEW n, SameFills(c, n), Stated(n)
    PROVE  SoundCombo(n)
  BY DEF SoundCombo, SameFills, Paired, Counted, Distinct

LEMMA AcknowledgeSound ==
    ASSUME NEW c, SoundCombo(c), c.state # "NONE", CombosAreApproved
    PROVE  /\ SoundCombo(AfterComboAcknowledge(c)) /\ SameFills(c, AfterComboAcknowledge(c))
           /\ AfterComboAcknowledge(c).brokerId = 1
           /\ AfterComboAcknowledge(c).evidenceError = c.evidenceError
           /\ AfterComboAcknowledge(c).incident = c.incident
           /\ AfterComboAcknowledge(c).state = IF c.evidenceError
                                                  \/ c.state \notin {"PENDING_SUBMIT", "UNKNOWN"}
                                               THEN c.state ELSE WorkingState(c.filled)
  <1> DEFINE n == AfterComboAcknowledge(c)
             state == IF c.evidenceError \/ c.state \notin {"PENDING_SUBMIT", "UNKNOWN"}
                      THEN c.state ELSE WorkingState(c.filled)
  <1>1. c \in ComboType /\ Stated(c)
    BY DEF SoundCombo
  <1>2. state \in StoredStates \union {"NONE"} /\ state # "NONE"
    BY <1>1, ComboStates DEF ComboType, WorkingState
  <1>3. n = [c EXCEPT !.brokerId = 1, !.state = state]
    BY <1>1 DEF AfterComboAcknowledge, ComboType
  <1>4. /\ c.filled = Units => state = "FILLED" \/ (state = "UNKNOWN" /\ c.evidenceError)
        /\ state = "FILLED" => c.filled = Units
        /\ state = "PARTIALLY_FILLED" => c.filled # 0
        /\ c.evidenceError => state \in {"UNKNOWN", "FILLED"}
    BY <1>1, ComboStates DEF Stated, WorkingState
  <1> HIDE DEF state
  <1>5. SameFills(c, n) /\ Stated(n)
    BY <1>1, <1>2, <1>3, <1>4 DEF SameFills, Stated, ComboType
  <1>6. n.brokerId = 1 /\ n.evidenceError = c.evidenceError /\ n.incident = c.incident
        /\ n.state = state
    BY <1>1, <1>3 DEF ComboType
  <1> HIDE DEF n
  <1>7. SoundCombo(n)
    BY <1>5, StatusSound
  <1> QED BY <1>5, <1>6, <1>7 DEF n, state

(* A status a combination knows, and evidence it refuses (synchronize).     *)
LEMMA StatesSound ==
    ASSUME NEW c, SoundCombo(c), c.state # "NONE", NEW state \in StoredStates,
           state = "FILLED" => c.state = "FILLED",
           c.filled = Units => state = c.state,
           state = "PARTIALLY_FILLED" => c.filled # 0,
           c.evidenceError => state \in {"UNKNOWN", "FILLED"}
    PROVE  SoundCombo([c EXCEPT !.state = state])
  <1>1. c \in ComboType /\ Stated(c) /\ state # "NONE"
    BY ComboStates DEF SoundCombo
  <1>2. SameFills(c, [c EXCEPT !.state = state]) /\ Stated([c EXCEPT !.state = state])
    BY <1>1 DEF SameFills, Stated, ComboType
  <1> QED BY <1>2, StatusSound

LEMMA FinishSound ==
    ASSUME NEW c, SoundCombo(c), c.state # "NONE", NEW t \in Closings
    PROVE  SoundCombo(AfterFinish(c, t))
  <1>1. CASE c.evidenceError \/ c.state \in Terminal
    BY <1>1 DEF AfterFinish
  <1>2. CASE ~(c.evidenceError \/ c.state \in Terminal)
    <2>1. ClosingState(t) \in StoredStates /\ ClosingState(t) \notin {"FILLED", "PARTIALLY_FILLED"}
      BY ComboStates
    <2>2. c.filled # Units
      BY <1>2, ComboStates DEF SoundCombo, Stated
    <2> QED BY <1>2, <2>1, <2>2, StatesSound DEF AfterFinish
  <1> QED BY <1>1, <1>2

LEMMA CancelRejectedSound ==
    ASSUME NEW c, SoundCombo(c), c.state # "NONE"
    PROVE  SoundCombo(AfterComboCancelRejected(c))
  <1>1. CASE ~c.evidenceError /\ c.state \in {"PENDING_CANCEL", "UNKNOWN"}
    <2>1. WorkingState(c.filled) \in StoredStates \ {"FILLED"}
          /\ (WorkingState(c.filled) = "PARTIALLY_FILLED" => c.filled # 0)
      BY ComboStates DEF WorkingState
    <2>2. c.filled # Units
      BY <1>1 DEF SoundCombo, Stated
    <2> QED BY <1>1, <2>1, <2>2, StatesSound DEF AfterComboCancelRejected
  <1>2. CASE ~(~c.evidenceError /\ c.state \in {"PENDING_CANCEL", "UNKNOWN"})
    BY <1>2 DEF AfterComboCancelRejected
  <1> QED BY <1>1, <1>2

LEMMA AnomalySound ==
    ASSUME NEW c, SoundCombo(c), c.state # "NONE", kernel \in {"PAPER", "LIVE"},
           kernel = "PAPER" => ~c.incident
    PROVE  /\ SoundCombo(Anomalous(c))
           /\ Anomalous(c).evidenceError \/ Anomalous(c).incident
           /\ kernel = "PAPER" => ~Anomalous(c).incident
  <1> DEFINE state == IF c.state \in {"UNKNOWN", "FILLED"} THEN c.state ELSE "UNKNOWN"
             error == kernel = "PAPER" \/ c.evidenceError
             incident == kernel = "LIVE" \/ c.incident
  <1>1. c \in ComboType /\ Stated(c)
    BY DEF SoundCombo
  <1>2. state \in StoredStates /\ state # "NONE" /\ state \in {"UNKNOWN", "FILLED"}
        /\ (state = "FILLED" => c.filled = Units)
        /\ (c.filled = Units => state = "FILLED" \/ (state = "UNKNOWN" /\ error))
    BY <1>1, ComboStates DEF Stated
  <1>3. error \in BOOLEAN /\ incident \in BOOLEAN
    BY <1>1 DEF ComboType
  <1>4. Anomalous(c) = [c EXCEPT !.state = state, !.evidenceError = error, !.incident = incident]
    BY <1>1 DEF Anomalous, ComboType
  <1>5. (error \/ incident) /\ (kernel = "PAPER" => ~incident)
    OBVIOUS
  <1> HIDE DEF state, error, incident
  <1> DEFINE n == [c EXCEPT !.state = state, !.evidenceError = error, !.incident = incident]
  <1>6. SameFills(c, n)
    BY <1>1, <1>2, <1>3 DEF SameFills, ComboType
  <1>7. Stated(n) /\ n.evidenceError = error /\ n.incident = incident
    BY <1>1, <1>2 DEF Stated, ComboType
  <1> HIDE DEF n
  <1>8. SoundCombo(n)
    BY <1>6, <1>7, StatusSound
  <1> QED BY <1>4, <1>5, <1>7, <1>8 DEF n

-----------------------------------------------------------------------------
(* An execution group, booked.                                              *)
LEMMA GroupIsNew ==
    ASSUME CombosAreApproved, NEW c, SoundCombo(c), NEW g \in Groups, Bookable(c, g)
    PROVE  /\ IsFiniteSet(c.receipts \union {g}) /\ g.units \in Nat \ {0}
           /\ c.filled \in Nat /\ c.filled + g.units \in 1..Units
           /\ c.filled + g.units = SumOf(UnitsOf, c.receipts \union {g})
           /\ \A h, i \in c.receipts \union {g} :
                 h # i => {h.id, h.fills} \intersect {i.id, i.fills} = {}
  <1>1. /\ c \in ComboType /\ IsFiniteSet(c.receipts) /\ c.receipts \subseteq Groups
        /\ c.filled = SumOf(UnitsOf, c.receipts)
    BY DEF SoundCombo, Counted, ComboType
  <1>2. g.units \in Nat \ {0} /\ c.filled \in Nat /\ c.filled + g.units \in 1..Units
    BY <1>1 DEF Groups, ComboType, Bookable, CombosAreApproved
  <1>3. \A h \in c.receipts :
           /\ {h.id, h.fills} \intersect {g.id, g.fills} = {}
           /\ {g.id, g.fills} \intersect {h.id, h.fills} = {}
    BY DEF Bookable, Used
  <1>4. g \notin c.receipts
    BY <1>3
  <1>5. \A h \in c.receipts \union {g} : UnitsOf[h] \in Int
    BY <1>1 DEF UnitsOf, Groups
  <1>6. SumOf(UnitsOf, c.receipts \union {g}) = SumOf(UnitsOf, c.receipts) + UnitsOf[g]
    BY <1>1, <1>4, <1>5, SumWith
  <1>7. UnitsOf[g] = g.units
    BY DEF UnitsOf
  <1>8. IsFiniteSet(c.receipts \union {g})
    BY <1>1, FS_AddElement
  <1>9. \A h, i \in c.receipts \union {g} :
            h # i => {h.id, h.fills} \intersect {i.id, i.fills} = {}
    BY <1>3 DEF SoundCombo, Distinct
  <1> QED BY <1>1, <1>2, <1>6, <1>7, <1>8, <1>9

LEMMA GroupSound ==
    ASSUME CombosAreApproved, NEW c, SoundCombo(c), c.state # "NONE", NEW g \in Groups,
           Bookable(c, g)
    PROVE  /\ SoundCombo(AfterGroup(c, g))
           /\ AfterGroup(c, g).evidenceError = c.evidenceError
           /\ AfterGroup(c, g).incident = c.incident
  <1> DEFINE open == IF c.state \in Closed THEN "UNKNOWN" ELSE c.state
             reopened == [c EXCEPT !.state = open]
             ack == AfterComboAcknowledge(reopened)
             known == Booked(ack, g, g.legs)
             total == c.filled + g.units
             state == IF c.evidenceError THEN known.state
                      ELSE IF total = Units THEN "FILLED"
                      ELSE IF known.state = "ACKNOWLEDGED" THEN "PARTIALLY_FILLED"
                      ELSE known.state
             held == c.receipts \union {g}
  <1>0. /\ IsFiniteSet(held) /\ total = SumOf(UnitsOf, held)
        /\ \A h, i \in held : h # i => {h.id, h.fills} \intersect {i.id, i.fills} = {}
        /\ g.units \in Nat \ {0} /\ c.filled \in Nat /\ total \in 1..Units
    BY GroupIsNew
  <1>1. c \in ComboType /\ Stated(c) /\ Paired(c) /\ c.filled \in Nat /\ c.filled # Units
        /\ total \in 1..Units
    <2>1. c \in ComboType /\ Stated(c) /\ Paired(c)
      BY DEF SoundCombo
    <2>2. c.filled # Units
      BY <1>0 DEF CombosAreApproved
    <2> QED BY <1>0, <2>1, <2>2
  <1>2. SoundCombo(reopened)
    BY <1>1, StatesSound, ComboStates DEF ComboType, Stated
  <1>3. /\ reopened.state = open /\ open # "NONE" /\ reopened.filled = c.filled
        /\ reopened.books = c.books /\ reopened.receipts = c.receipts
        /\ reopened.evidenceError = c.evidenceError /\ reopened.incident = c.incident
    BY <1>1 DEF ComboType
  <1>4. AfterGroup(c, g) = [known EXCEPT !.filled = total, !.receipts = @ \union {g},
                                         !.state = state]
    BY DEF AfterGroup
  <1> HIDE DEF reopened
  <1>5. /\ SoundCombo(ack) /\ ack \in ComboType /\ ack.filled = c.filled
        /\ ack.books = c.books /\ ack.receipts = c.receipts /\ ack.brokerId = 1
        /\ ack.evidenceError = c.evidenceError /\ ack.incident = c.incident
        /\ ack.state = IF c.evidenceError \/ open \notin {"PENDING_SUBMIT", "UNKNOWN"}
                       THEN open ELSE WorkingState(c.filled)
    BY <1>2, <1>3, AcknowledgeSound DEF SameFills, SoundCombo
  <1> HIDE DEF ack
  <1> DEFINE books == [l \in Legs |-> c.books[l] + Ratio[l] * g.units]
  <1>6. g.legs = Legs
    BY DEF Bookable
  <1>7. known = [ack EXCEPT !.books = books]
    BY <1>5, <1>6 DEF Booked
  <1>8. books \in [Legs -> Int] /\ \A l \in Legs : books[l] = Ratio[l] * total
    <2>1. ASSUME NEW l \in Legs
          PROVE  /\ c.books[l] + Ratio[l] * g.units \in Int
                 /\ c.books[l] + Ratio[l] * g.units = Ratio[l] * total
      <3>1. Ratio[l] \in Int /\ c.books[l] = Ratio[l] * c.filled /\ c.books[l] \in Int
        BY <1>1 DEF Paired, ComboType, CombosAreApproved
      <3>2. g.units \in Int /\ c.filled \in Int
        BY <1>0
      <3> QED BY <3>1, <3>2, Distributes
    <2> QED BY <2>1
  <1> HIDE DEF books, total
  <1>9. known \in ComboType /\ known.state = ack.state /\ known.receipts = c.receipts
        /\ known.books = books /\ known.brokerId = 1
        /\ known.evidenceError = c.evidenceError /\ known.incident = c.incident
    BY <1>5, <1>7, <1>8 DEF ComboType
  <1>10. /\ state \in StoredStates /\ state # "NONE"
         /\ state = "FILLED" => total = Units
         /\ total = Units => state = "FILLED" \/ (state = "UNKNOWN" /\ c.evidenceError)
         /\ c.evidenceError => state \in {"UNKNOWN", "FILLED"}
    BY <1>1, <1>3, <1>5, <1>9, ComboStates DEF Stated, WorkingState, ComboType
  <1> HIDE DEF known, state
  <1> DEFINE n == [known EXCEPT !.filled = total, !.receipts = held, !.state = state]
  <1>11. AfterGroup(c, g) = n
    BY <1>4, <1>9
  <1>12. held \in SUBSET Groups /\ held # {}
    BY <1>1 DEF ComboType
  <1>13. IsFiniteSet(held) /\ total = SumOf(UnitsOf, held)
         /\ \A h, i \in held : h # i => {h.id, h.fills} \intersect {i.id, i.fills} = {}
    BY <1>0 DEF total
  <1>14. total \in 0..Units /\ total # 0
    BY <1>1 DEF CombosAreApproved
  <1> HIDE DEF held
  <1>15. /\ n \in ComboType /\ n.state = state /\ n.filled = total /\ n.receipts = held
         /\ n.books = books /\ n.brokerId = 1
         /\ n.evidenceError = c.evidenceError /\ n.incident = c.incident
    BY <1>9, <1>10, <1>12, <1>14 DEF ComboType
  <1> HIDE DEF n
  <1>16. Paired(n) /\ Counted(n) /\ Distinct(n)
    BY <1>8, <1>13, <1>15 DEF Paired, Counted, Distinct
  <1>17. Stated(n)
    BY <1>10, <1>14, <1>15 DEF Stated
  <1> QED BY <1>11, <1>15, <1>16, <1>17 DEF SoundCombo

-----------------------------------------------------------------------------
(* Each handler leaves the invariant true.                                  *)
Same(n) == n.evidenceError = combo.evidenceError /\ n.incident = combo.incident

LEMMA StatusKeeps ==
    ASSUME ComboInv, NEW n, SoundCombo(n), Same(n), Free, Save(n),
           UNCHANGED <<kernel, comboRoute, refused>>
    PROVE  ComboInv'
  BY DEF ComboInv, Same, Save, Free

LEMMA CallsKeep ==
    ASSUME CombosAreApproved, ComboInv,
           \/ SubmitCombo \/ CancelCombo
           \/ \E a \in {"ACKNOWLEDGED", "REJECTED", "UNKNOWN", "ERROR"} : AnswerSubmit(a)
           \/ \E sent \in BOOLEAN : AnswerCancel(sent)
    PROVE  ComboInv'
  <1>1. SoundCombo(combo) /\ combo \in ComboType
    BY DEF ComboInv, SoundCombo
  <1>2. CASE SubmitCombo
    <2> DEFINE n == [combo EXCEPT !.state = "PENDING_SUBMIT"]
    <2>1. combo = EmptyCombo
      BY <1>1, <1>2 DEF SubmitCombo, SoundCombo, Stated
    <2>2. n \in ComboType /\ n.state = "PENDING_SUBMIT" /\ n.filled = 0 /\ n.receipts = {}
          /\ n.books = combo.books /\ ~n.evidenceError /\ Same(n)
      BY <1>1, <2>1, ComboStates DEF ComboType, EmptyCombo, Same
    <2>3. SameFills(combo, n)
      BY <2>1, <2>2 DEF SameFills, EmptyCombo
    <2>4. Stated(n)
      BY <2>2 DEF Stated, CombosAreApproved
    <2>5. SoundCombo(n)
      BY <1>1, <2>3, <2>4, StatusSound
    <2>6. /\ combo' = n /\ comboDisk' = n /\ UNCHANGED <<kernel, refused>>
          /\ comboRoute' = [comboRoute EXCEPT !.call = "submit"]
      BY <1>2 DEF SubmitCombo, Save
    <2> HIDE DEF n
    <2> QED BY <2>2, <2>5, <2>6 DEF ComboInv, Same
  <1>3. CASE CancelCombo
    <2> DEFINE n == [combo EXCEPT !.state = "PENDING_CANCEL"]
    <2>1. combo.state \in Revisable /\ ~combo.evidenceError /\ "PENDING_CANCEL" \in StoredStates
      BY <1>3, ComboStates DEF CancelCombo
    <2>2. combo.state # "NONE" /\ combo.filled # Units
      BY <1>1, <2>1, ComboStates DEF SoundCombo, Stated
    <2>3. SoundCombo(n)
      BY <1>1, <2>1, <2>2, StatesSound
    <2>4. n.state = "PENDING_CANCEL" /\ Same(n)
      BY <1>1 DEF ComboType, Same
    <2>5. /\ combo' = n /\ comboDisk' = n /\ UNCHANGED <<kernel, refused>>
          /\ comboRoute' = [comboRoute EXCEPT !.call = "cancel"]
      BY <1>3 DEF CancelCombo, Save
    <2> HIDE DEF n
    <2> QED BY <2>3, <2>4, <2>5 DEF ComboInv, Same
  <1>4. ASSUME NEW a \in {"ACKNOWLEDGED", "REJECTED", "UNKNOWN", "ERROR"}, AnswerSubmit(a)
        PROVE  ComboInv'
    <2>1. combo.state = "PENDING_SUBMIT" /\ combo.filled = 0 /\ combo.filled # Units
          /\ ~combo.evidenceError
      BY <1>4, <1>1 DEF AnswerSubmit, ComboInv, SoundCombo, Stated, CombosAreApproved
    <2> DEFINE n == CASE a = "ACKNOWLEDGED" -> [combo EXCEPT !.state = a, !.brokerId = 1]
                      [] a = "REJECTED"     -> [combo EXCEPT !.state = a]
                      [] OTHER              -> [combo EXCEPT !.state = "UNKNOWN"]
    <2>2. n \in ComboType /\ SameFills(combo, n) /\ Same(n)
          /\ n.state \in {"ACKNOWLEDGED", "REJECTED", "UNKNOWN"}
      BY <1>1, ComboStates DEF ComboType, SameFills, Same
    <2>3. Stated(n)
      BY <1>1, <2>1, <2>2 DEF Stated, SoundCombo, SameFills, Same, ComboType
    <2>4. SoundCombo(n)
      BY <1>1, <2>2, <2>3, StatusSound
    <2>5. /\ combo' = n /\ comboDisk' = n /\ UNCHANGED <<kernel, refused>>
          /\ comboRoute' = [connected |-> a # "ERROR", call |-> "none"]
      BY <1>4 DEF AnswerSubmit, Save
    <2> HIDE DEF n
    <2> QED BY <2>2, <2>4, <2>5 DEF ComboInv, Same
  <1>5. ASSUME NEW sent \in BOOLEAN, AnswerCancel(sent)
        PROVE  ComboInv'
    <2>1. combo.state = "PENDING_CANCEL" /\ "UNKNOWN" \in StoredStates
      BY <1>5, ComboStates DEF AnswerCancel, ComboInv
    <2> DEFINE n == IF sent THEN combo ELSE [combo EXCEPT !.state = "UNKNOWN"]
    <2>2. SoundCombo(n)
      <3>1. combo.filled # Units /\ ~combo.evidenceError
        BY <1>1, <2>1 DEF SoundCombo, Stated
      <3>2. SoundCombo([combo EXCEPT !.state = "UNKNOWN"])
        BY <1>1, <2>1, <3>1, StatesSound
      <3> QED BY <1>1, <3>2
    <2>3. Same(n)
      BY <1>1 DEF ComboType, Same
    <2>4. /\ combo' = n /\ comboDisk' = n /\ UNCHANGED <<kernel, refused>>
          /\ comboRoute' = [connected |-> sent, call |-> "none"]
      BY <1>5 DEF AnswerCancel, Save
    <2> HIDE DEF n
    <2> QED BY <2>2, <2>3, <2>4 DEF ComboInv, Same
  <1> QED BY <1>2, <1>3, <1>4, <1>5

LEMMA EvidenceKeeps ==
    ASSUME CombosAreApproved, ComboInv,
           \/ ApplyStatus(AfterComboAcknowledge(combo))
           \/ \E t \in Closings : ApplyStatus(AfterFinish(combo, t))
           \/ ApplyStatus(AfterComboCancelRejected(combo))
           \/ RefuseStatus
           \/ \E g \in Groups : ApplyGroup(g) \/ ReplayGroup(g)
           \/ \E g \in Groups : \E legs \in SUBSET Legs \ {Legs} : RefuseGroup(g, legs)
    PROVE  ComboInv'
  <1>1. SoundCombo(combo) /\ combo \in ComboType
    BY DEF ComboInv, SoundCombo
  <1>2. CASE ApplyStatus(AfterComboAcknowledge(combo))
    <2>1. combo.state # "NONE" /\ Free /\ Save(AfterComboAcknowledge(combo))
          /\ UNCHANGED <<kernel, comboRoute, refused>>
      BY <1>2 DEF ApplyStatus, Ready
    <2>2. SoundCombo(AfterComboAcknowledge(combo)) /\ Same(AfterComboAcknowledge(combo))
      BY <1>1, <2>1, AcknowledgeSound DEF Same
    <2> QED BY <2>1, <2>2, StatusKeeps
  <1>3. ASSUME NEW t \in Closings, ApplyStatus(AfterFinish(combo, t))
        PROVE  ComboInv'
    <2>1. combo.state # "NONE" /\ Free /\ Save(AfterFinish(combo, t))
          /\ UNCHANGED <<kernel, comboRoute, refused>>
      BY <1>3 DEF ApplyStatus, Ready
    <2>2. Same(AfterFinish(combo, t))
      BY <1>1 DEF AfterFinish, Same, ComboType
    <2> QED BY <1>1, <2>1, <2>2, FinishSound, StatusKeeps
  <1>4. CASE ApplyStatus(AfterComboCancelRejected(combo))
    <2>1. combo.state # "NONE" /\ Free /\ Save(AfterComboCancelRejected(combo))
          /\ UNCHANGED <<kernel, comboRoute, refused>>
      BY <1>4 DEF ApplyStatus, Ready
    <2>2. Same(AfterComboCancelRejected(combo))
      BY <1>1 DEF AfterComboCancelRejected, Same, ComboType
    <2> QED BY <1>1, <2>1, <2>2, CancelRejectedSound, StatusKeeps
  <1>5. ASSUME combo.state # "NONE", Free, Save(Anomalous(combo)),
               UNCHANGED <<kernel, comboRoute>>, refused' \in BOOLEAN
        PROVE  ComboInv'
    <2>1. /\ SoundCombo(Anomalous(combo))
          /\ Anomalous(combo).evidenceError \/ Anomalous(combo).incident
          /\ kernel = "PAPER" => ~Anomalous(combo).incident
      BY <1>1, <1>5, AnomalySound DEF ComboInv
    <2>2. combo' = Anomalous(combo) /\ comboDisk' = combo' /\ UNCHANGED <<kernel, comboRoute>>
          /\ comboRoute.call = "none"
      BY <1>5 DEF Save, Free
    <2>3. PICK n : n = Anomalous(combo)
      OBVIOUS
    <2> QED BY <1>5, <2>1, <2>2, <2>3 DEF ComboInv
  <1>6. CASE RefuseStatus
    BY <1>5, <1>6 DEF RefuseStatus, ApplyStatus, Ready, ComboInv
  <1>7. ASSUME NEW g \in Groups, ApplyGroup(g)
        PROVE  ComboInv'
    <2>1. combo.state # "NONE" /\ Free /\ Save(AfterGroup(combo, g)) /\ Bookable(combo, g)
          /\ UNCHANGED <<kernel, comboRoute, refused>>
      BY <1>7 DEF ApplyGroup, Ready
    <2>2. SoundCombo(AfterGroup(combo, g)) /\ Same(AfterGroup(combo, g))
      BY <1>1, <2>1, GroupSound DEF Same
    <2> QED BY <2>1, <2>2, StatusKeeps
  <1>8. ASSUME NEW g \in Groups, ReplayGroup(g)
        PROVE  ComboInv'
    BY <1>1, <1>8, StatusKeeps DEF ReplayGroup, Ready, Same
  <1>9. ASSUME NEW g \in Groups, NEW legs \in SUBSET Legs \ {Legs}, RefuseGroup(g, legs)
        PROVE  ComboInv'
    BY <1>5, <1>9 DEF RefuseGroup, Ready, Rollback
  <1> QED BY <1>2, <1>3, <1>4, <1>6, <1>7, <1>8, <1>9

LEMMA OthersKeep ==
    ASSUME ComboInv, ExplainAnomaly \/ RestartCombo \/ ReconnectCombo
    PROVE  ComboInv'
  <1>1. SoundCombo(combo) /\ combo \in ComboType
    BY DEF ComboInv, SoundCombo
  <1>2. CASE ExplainAnomaly
    <2> DEFINE n == [combo EXCEPT !.incident = FALSE]
    <2>1. n \in ComboType /\ SameFills(combo, n) /\ ~n.incident /\ n.state = combo.state
          /\ n.evidenceError = combo.evidenceError
      BY <1>1 DEF ComboType, SameFills
    <2>2. combo.state # "NONE"
      <3>1. EmptyCombo.incident = FALSE
        BY DEF EmptyCombo
      <3> QED BY <1>1, <1>2, <3>1 DEF ExplainAnomaly, SoundCombo, Stated
    <2>3. Stated(n)
      BY <1>1, <2>1, <2>2 DEF SoundCombo, Stated, SameFills
    <2>4. SoundCombo(n)
      BY <1>1, <2>1, <2>3, StatusSound
    <2>5. combo' = n /\ comboDisk' = n /\ refused' = FALSE /\ UNCHANGED <<kernel, comboRoute>>
          /\ comboRoute.call = "none"
      BY <1>2 DEF ExplainAnomaly, Save, Free
    <2> HIDE DEF n
    <2> QED BY <2>1, <2>4, <2>5 DEF ComboInv
  <1>3. CASE RestartCombo
    BY <1>3 DEF RestartCombo, ComboInv
  <1>4. CASE ReconnectCombo
    BY <1>4 DEF ReconnectCombo, ComboInv, Free
  <1> QED BY <1>2, <1>3, <1>4

LEMMA ComboSteps ==
    ASSUME CombosAreApproved, ComboInv, [ComboNext]_comboVars
    PROVE  ComboInv'
  <1>1. CASE UNCHANGED comboVars
    BY <1>1 DEF comboVars, ComboInv
  <1>2. CASE ComboNext
    BY <1>2, CallsKeep, EvidenceKeeps, OthersKeep DEF ComboNext
  <1> QED BY <1>1, <1>2

LEMMA ComboAgrees ==
    ASSUME CombosAreApproved, ComboInv
    PROVE  CombosAgree /\ RefusedEvidenceBlocks
  <1>1. SoundCombo(combo) /\ combo \in ComboType /\ comboDisk = combo
    BY DEF ComboInv, SoundCombo
  <1>2. combo.receipts \in SUBSET Groups
    BY <1>1 DEF ComboType
  <1>3. LegsStayPaired
    BY <1>1, <1>2, ReceiptSum DEF LegsStayPaired, SoundCombo, Paired, Counted, Distinct
  <1>4. combo.filled \in 0..Units /\ Units \in Nat \ {0}
    BY <1>1 DEF ComboType, CombosAreApproved
  <1>5. ComboAlwaysRestorable
    BY <1>1, <1>4, ComboStates DEF ComboAlwaysRestorable, SoundCombo, Stated
  <1>6. RefusedEvidenceBlocks
    BY <1>1 DEF RefusedEvidenceBlocks, ComboInv, SoundCombo, Stated
  <1> QED BY <1>3, <1>5, <1>6 DEF CombosAgree

(* Whatever evidence arrives, twice, late, truncated or under a used        *)
(* identity, and wherever a group fails: every leg holds its ratio of the   *)
(* booked units, which are those of distinct receipts, and restore accepts  *)
(* the journaled record (apply_combo_event, restore_executions); and what   *)
(* was refused keeps new orders away until it is explained                  *)
(* (has_unknown_order, unresolved_incident_count).                          *)
THEOREM CombinationsAgree ==
    ASSUME CombosAreApproved
    PROVE  ComboSpec => [](CombosAgree /\ RefusedEvidenceBlocks)
  <1>1. ComboInit => ComboInv
    BY ComboStarts
  <1>2. ComboInv /\ [ComboNext]_comboVars => ComboInv'
    BY ComboSteps
  <1>3. ComboInv => CombosAgree /\ RefusedEvidenceBlocks
    BY ComboAgrees
  <1> QED BY <1>1, <1>2, <1>3, PTL DEF ComboSpec

-----------------------------------------------------------------------------
(* The orders of the desktop.                                               *)

States == {"PENDING_SUBMIT", "ACKNOWLEDGED", "FILLED", "PENDING_CANCEL", "CANCELLED"}
PriceLimits == [kind : {"NONE", "PRICE", "DEBIT", "CREDIT"}, amount : Int]
Amounts == [Instruments -> Int]

(* There are finitely many instruments, an account begins with none, and a  *)
(* request names amounts of them or, to close it, one of them.              *)
RequestsAreFormed ==
    /\ IsFiniteSet(Instruments) /\ Flat = [i \in Instruments |-> 0]
    /\ MarkSets \subseteq Amounts
    /\ \A id \in DOMAIN Requests :
          /\ Requests[id].kind \in {"SINGLE", "COMBO", "CLOSE"}
          /\ Requests[id].deltas \in (IF Requests[id].kind = "CLOSE" THEN Instruments ELSE Amounts)
          /\ Requests[id].limit \in PriceLimits
    /\ Scenarios \subseteq [ids : SUBSET DOMAIN Requests, commands : Int, ticks : Int, starts : Int]

OrderRecords ==
    [kind : {"SINGLE", "COMBO", "CLOSE"}, deltas : Amounts, limit : PriceLimits, marks : Amounts,
     observed : Int, decided : Int, state : States]
OrderBooks == UNION {[ids -> OrderRecords] : ids \in SUBSET DOMAIN Requests}
ExecutionIds == [kind : {"NAMED"}, of : DOMAIN Requests] \union [kind : {"NUMBERED"}, of : Nat]
Journals == [orders : OrderBooks, position : Amounts, seen : SUBSET ExecutionIds]
Services == [orders : OrderBooks, position : Amounts, seen : SUBSET ExecutionIds,
             connected : BOOLEAN]
Quoted == {Nothing} \union [kind : {"MARKS"}, marks : Amounts]
VenueOrders == UNION {[ids -> States] : ids \in SUBSET DOMAIN Requests}
VenueEvents ==
    [kind : {"EXECUTION"}, id : DOMAIN Requests, marks : Amounts, execution : ExecutionIds]
      \union [kind : {"CANCELLED"}, id : DOMAIN Requests]
Venues ==
    [orders : VenueOrders, position : Amounts, executions : Nat, events : Seq(VenueEvents),
     single : Quoted, combo : Quoted]

LEMMA ArmingIs ==
    ASSUME NEW v \in Venues, NEW marks \in Amounts, NEW slot \in {"single", "combo"}
    PROVE  /\ Armed(v, slot, marks) \in Venues /\ Disarmed(v, slot) \in Venues
           /\ Armed(v, slot, marks)[slot] = [kind |-> "MARKS", marks |-> marks]
           /\ \A w \in {Armed(v, slot, marks), Disarmed(v, slot)} :
                 /\ w.orders = v.orders /\ w.position = v.position
                 /\ w.executions = v.executions /\ w.events = v.events
  <1>1. CASE slot = "single"
    <2>1. Armed(v, slot, marks) = [v EXCEPT !.single = [kind |-> "MARKS", marks |-> marks]]
          /\ Disarmed(v, slot) = [v EXCEPT !.single = Nothing]
      BY <1>1 DEF Armed, Disarmed
    <2> QED BY <1>1, <2>1 DEF Venues, Quoted
  <1>2. CASE slot = "combo"
    <2>1. Armed(v, slot, marks) = [v EXCEPT !.combo = [kind |-> "MARKS", marks |-> marks]]
          /\ Disarmed(v, slot) = [v EXCEPT !.combo = Nothing]
      BY <1>2 DEF Armed, Disarmed
    <2> QED BY <1>2, <2>1 DEF Venues, Quoted
  <1> QED BY <1>1, <1>2

-----------------------------------------------------------------------------
(* The invariant.                                                           *)

Fills == [id : DOMAIN Requests, order : OrderRecords, at : Amounts]
DeltasOn(i) == [f \in Fills |-> f.order.deltas[i]]
Ongoing == [phase : {"SUBMIT", "CANCEL", "DRAIN"}, id : DOMAIN Requests]

DesktopTypes ==
    /\ clock \in Int
    /\ limits \in [ids : SUBSET DOMAIN Requests, commands : Int, ticks : Int, starts : Int]
    /\ fills \in [made : SUBSET Fills, left : SUBSET {0}]
    /\ receipts \subseteq [id : DOMAIN Requests, status : States \union {"RISK_REJECTED"}]
    /\ command \in {Waiting, Down} \union Ongoing

(* What was filled so far.                                                  *)
FillsAreSound ==
    /\ IsFiniteSet(fills.made)
    /\ \A f \in fills.made :
          f.at = f.order.marks /\ CostIsApproved(f.order, NetPrice(f.order.deltas, f.at))
    /\ \A f, g \in fills.made : f.id = g.id => f = g

(* The journal holds what was filled and what receipts said.                *)
Recorded(r) ==
    /\ r \in Journals
    /\ \A i \in Instruments : r.position[i] = SumOf(DeltasOn(i), fills.made)
    /\ \A f \in fills.made : f.id \in DOMAIN r.orders /\ r.orders[f.id].state = "FILLED"
    /\ \A q \in receipts :
          /\ q.status \in {"FILLED", "CANCELLED"} =>
                q.id \in DOMAIN r.orders /\ r.orders[q.id].state = q.status
          /\ q.status = "ACKNOWLEDGED" =>
                /\ q.id \in DOMAIN r.orders
                /\ r.orders[q.id].state \in {"ACKNOWLEDGED", "PENDING_CANCEL", "CANCELLED"}

Unstarted == disk = Nothing /\ command = Down /\ fills.made = {} /\ receipts = {}

(* The service and the venue while the process runs and is connected.       *)
Agrees(o) ==
    /\ o \in DOMAIN venue.orders <=> o \in DOMAIN oms.orders
    /\ o \in DOMAIN oms.orders => venue.orders[o] = oms.orders[o].state
OthersAgree(id) == \A o \in DOMAIN Requests \ {id} : Agrees(o)

SeenBefore(x) ==
    /\ x.kind = "NAMED" => x.of \in DOMAIN oms.orders /\ oms.orders[x.of].state = "FILLED"
    /\ x.kind = "NUMBERED" => x.of <= venue.executions

ForClosing(id, order) ==
    /\ order.kind = Requests[id].kind
    /\ order.kind = "CLOSE" => order.deltas = Closing(Requests[id].deltas)

Quiet ==
    /\ venue.events = <<>> /\ venue.position = oms.position
    /\ \A o \in DOMAIN Requests : Agrees(o)

Submitting(id) ==
    /\ venue.events = <<>> /\ venue.position = oms.position /\ OthersAgree(id)
    /\ id \notin DOMAIN venue.orders
    /\ id \in DOMAIN oms.orders /\ oms.orders[id].state = "PENDING_SUBMIT"
    /\ ForClosing(id, oms.orders[id])
    /\ venue[Slot(oms.orders[id])] = [kind |-> "MARKS", marks |-> oms.orders[id].marks]

Cancelling(id) ==
    /\ venue.events = <<>> /\ venue.position = oms.position /\ OthersAgree(id)
    /\ id \in DOMAIN venue.orders /\ venue.orders[id] = "ACKNOWLEDGED"
    /\ id \in DOMAIN oms.orders /\ oms.orders[id].state = "PENDING_CANCEL"

FillPending(id, e) ==
    /\ venue.events = <<e>> /\ e.kind = "EXECUTION" /\ e.id = id /\ OthersAgree(id)
    /\ id \in DOMAIN venue.orders /\ venue.orders[id] = "FILLED"
    /\ id \in DOMAIN oms.orders /\ oms.orders[id].state = "ACKNOWLEDGED"
    /\ ForClosing(id, oms.orders[id])
    /\ venue.position = Moved(oms.position, oms.orders[id].deltas)
    /\ e.marks = oms.orders[id].marks /\ Marketable(oms.orders[id], e.marks)
    /\ e.execution \in ExecutionIds \ oms.seen
    /\ e.execution.kind = "NAMED" => e.execution.of = id
    /\ e.execution.kind = "NUMBERED" => e.execution.of <= venue.executions
    /\ \A q \in receipts : q.id = id => q.status # "ACKNOWLEDGED"

CancelPending(id, e) ==
    /\ venue.events = <<e>> /\ e.kind = "CANCELLED" /\ e.id = id /\ OthersAgree(id)
    /\ venue.position = oms.position
    /\ id \in DOMAIN venue.orders /\ venue.orders[id] = "CANCELLED"
    /\ id \in DOMAIN oms.orders /\ oms.orders[id].state = "PENDING_CANCEL"

InPhase ==
    /\ \A x \in oms.seen : SeenBefore(x)
    /\ \/ command = Waiting /\ Quiet
       \/ \E id \in DOMAIN Requests :
             \/ command = [phase |-> "SUBMIT", id |-> id] /\ Submitting(id)
             \/ command = [phase |-> "CANCEL", id |-> id] /\ Cancelling(id)
             \/ /\ command = [phase |-> "DRAIN", id |-> id]
                /\ \/ Quiet /\ id \in DOMAIN oms.orders
                   \/ \E e \in VenueEvents : FillPending(id, e) \/ CancelPending(id, e)

Running ==
    /\ command # Down /\ disk = Persisted(oms) /\ oms \in Services /\ venue \in Venues
    /\ IF oms.connected THEN InPhase ELSE command = Waiting

DesktopInv ==
    /\ DesktopTypes /\ FillsAreSound
    /\ Unstarted \/ Recorded(disk)
    /\ (command = Down /\ oms = NewService /\ venue = NewVenue) \/ Running

-----------------------------------------------------------------------------
LEMMA NoJournalIsNothing ==
    \A r \in Journals : r # Nothing
  <1>1. ASSUME NEW r \in Journals, r = Nothing
        PROVE  FALSE
    <2>1. DOMAIN r = {"orders", "position", "seen"}
      BY DEF Journals
    <2>2. DOMAIN r = {"kind"}
      BY <1>1 DEF Nothing
    <2> QED BY <2>1, <2>2
  <1> QED BY <1>1

LEMMA CommandsDiffer ==
    /\ Waiting # Down /\ Down.phase = "DOWN" /\ Waiting.phase = "IDLE"
    /\ \A c \in Ongoing : c # Waiting /\ c # Down
    /\ \A id, x : [phase |-> x, id |-> id].phase = x /\ [phase |-> x, id |-> id].id = id
  <1>1. Waiting.phase = "IDLE" /\ Down.phase = "DOWN"
    BY DEF Waiting, Down
  <1>2. \A c \in Ongoing : c.phase \notin {"IDLE", "DOWN"}
    BY DEF Ongoing
  <1> QED BY <1>1, <1>2

LEMMA NewServiceIs ==
    ASSUME RequestsAreFormed
    PROVE  /\ NewService \in Services /\ NewVenue \in Venues
           /\ Persisted(NewService) \in Journals
           /\ NewService.orders = NoOrders /\ NewVenue.orders = NoOrders /\ DOMAIN NoOrders = {}
           /\ NewService.position = Flat /\ NewVenue.position = Flat /\ NewVenue.events = <<>>
           /\ NewService.seen = {} /\ NewService.connected
  <1>1. DOMAIN NoOrders = {} /\ NoOrders \in [{} -> OrderRecords] /\ NoOrders \in [{} -> States]
    BY DEF NoOrders
  <1>2. NoOrders \in OrderBooks /\ NoOrders \in VenueOrders
    BY <1>1 DEF OrderBooks, VenueOrders
  <1>3. Flat \in Amounts
    BY DEF RequestsAreFormed, Amounts
  <1>4. <<>> \in Seq(VenueEvents)
    OBVIOUS
  <1> QED BY <1>1, <1>2, <1>3, <1>4
       DEF NewService, NewVenue, Persisted, Services, Venues, Journals, Quoted

LEMMA DesktopStarts ==
    ASSUME RequestsAreFormed, DesktopInit
    PROVE  DesktopInv
  <1>1. DesktopTypes
    BY DEF DesktopInit, DesktopTypes, RequestsAreFormed
  <1>2. FillsAreSound
    BY FS_EmptySet DEF DesktopInit, FillsAreSound
  <1> QED BY <1>1, <1>2 DEF DesktopInit, DesktopInv, Unstarted

-----------------------------------------------------------------------------
(* What stands when fills do not change.                                    *)
SameHistory == UNCHANGED <<clock, fills>> /\ limits' \in
    [ids : SUBSET DOMAIN Requests, commands : Int, ticks : Int, starts : Int]

LEMMA HistoryStands ==
    ASSUME DesktopInv, UNCHANGED fills
    PROVE  FillsAreSound'
  BY DEF DesktopInv, FillsAreSound

LEMMA RecordStands ==
    ASSUME DesktopInv, UNCHANGED fills, NEW r, Recorded(r), NEW s \in Journals,
           s.position = r.position,
           \A o \in DOMAIN r.orders :
              /\ o \in DOMAIN s.orders
              /\ r.orders[o].state \in {"FILLED", "CANCELLED"} => s.orders[o].state = r.orders[o].state
              /\ r.orders[o].state \in {"ACKNOWLEDGED", "PENDING_CANCEL"}
                    => s.orders[o].state \in {"ACKNOWLEDGED", "PENDING_CANCEL", "CANCELLED"},
           \A q \in receipts' \ receipts :
              /\ q.status \in {"FILLED", "CANCELLED"} =>
                    q.id \in DOMAIN s.orders /\ s.orders[q.id].state = q.status
              /\ q.status = "ACKNOWLEDGED" =>
                    /\ q.id \in DOMAIN s.orders
                    /\ s.orders[q.id].state \in {"ACKNOWLEDGED", "PENDING_CANCEL", "CANCELLED"}
    PROVE  Recorded(s)'
  <1>1. \A i \in Instruments : s.position[i] = SumOf(DeltasOn(i), fills'.made)
    BY DEF Recorded
  <1>2. \A f \in fills'.made : f.id \in DOMAIN s.orders /\ s.orders[f.id].state = "FILLED"
    BY DEF Recorded
  <1>3. ASSUME NEW q \in receipts'
        PROVE  /\ q.status \in {"FILLED", "CANCELLED"} =>
                    q.id \in DOMAIN s.orders /\ s.orders[q.id].state = q.status
               /\ q.status = "ACKNOWLEDGED" =>
                    /\ q.id \in DOMAIN s.orders
                    /\ s.orders[q.id].state \in {"ACKNOWLEDGED", "PENDING_CANCEL", "CANCELLED"}
    <2>1. CASE q \in receipts
      BY <2>1 DEF Recorded
    <2>2. CASE q \notin receipts
      BY <2>2
    <2> QED BY <2>1, <2>2
  <1> QED BY <1>1, <1>2, <1>3 DEF Recorded

(* A command that ends where it began.                                      *)
SameVenue(w) ==
    /\ w \in Venues /\ w.orders = venue.orders /\ w.position = venue.position
    /\ w.executions = venue.executions /\ w.events = venue.events

LEMMA RunsFromWaiting ==
    ASSUME DesktopInv, command # Down
    PROVE  Running /\ Recorded(disk) /\ (command = Waiting /\ oms.connected => Quiet)
  <1>1. Running /\ Recorded(disk)
    BY DEF DesktopInv, Unstarted
  <1>2. command = Waiting /\ oms.connected => Quiet
    BY <1>1, CommandsDiffer DEF Running, InPhase
  <1> QED BY <1>1, <1>2

LEMMA RestsKeep ==
    ASSUME RequestsAreFormed, DesktopInv, command = Waiting, command' = Waiting,
           UNCHANGED <<oms, disk>>, SameHistory, SameVenue(venue'),
           receipts' \subseteq receipts \union [id : DOMAIN Requests, status : {"RISK_REJECTED"}]
    PROVE  DesktopInv'
  <1>1. command # Down
    BY CommandsDiffer
  <1>2. Running /\ Recorded(disk) /\ (oms.connected => Quiet)
    BY <1>1, RunsFromWaiting
  <1>3. DesktopTypes'
    BY DEF DesktopInv, DesktopTypes, SameHistory
  <1>4. FillsAreSound'
    BY HistoryStands DEF SameHistory
  <1>5. Recorded(disk)'
    <2>1. PICK r : r = disk
      OBVIOUS
    <2>2. Recorded(r)'
      BY <1>2, <2>1, RecordStands DEF SameHistory, Recorded
    <2> QED BY <2>1, <2>2 DEF Recorded
  <1>6. oms.connected => Quiet' /\ \A x \in oms.seen : SeenBefore(x)'
    BY <1>2 DEF Running, InPhase, Quiet, Agrees, SeenBefore, SameVenue
  <1>7. Running'
    BY <1>1, <1>2, <1>6 DEF Running, InPhase, SameVenue, Persisted
  <1> QED BY <1>3, <1>4, <1>5, <1>7 DEF DesktopInv

(* A retry goes on to what the venue has to say (Takes, CancelOrder).       *)
LEMMA DrainsKeep ==
    ASSUME RequestsAreFormed, DesktopInv, command = Waiting, NEW id \in DOMAIN oms.orders,
           oms.connected, command' = [phase |-> "DRAIN", id |-> id],
           UNCHANGED <<oms, disk, receipts>>, SameHistory, SameVenue(venue')
    PROVE  DesktopInv'
  <1>1. command # Down
    BY CommandsDiffer
  <1>2. Running /\ Recorded(disk) /\ Quiet
    BY <1>1, RunsFromWaiting
  <1>0. id \in DOMAIN Requests
    BY <1>2 DEF Running, Services, OrderBooks
  <1>3. DesktopTypes'
    BY <1>0 DEF DesktopInv, DesktopTypes, SameHistory, Ongoing
  <1>4. FillsAreSound'
    BY HistoryStands DEF SameHistory
  <1>5. Recorded(disk)'
    <2>1. PICK r : r = disk
      OBVIOUS
    <2>2. Recorded(r)'
      BY <1>2, <2>1, RecordStands DEF SameHistory, Recorded
    <2> QED BY <2>1, <2>2 DEF Recorded
  <1>6. Quiet' /\ \A x \in oms.seen : SeenBefore(x)'
    BY <1>2 DEF Running, InPhase, Quiet, Agrees, SeenBefore, SameVenue
  <1>7. command' \in Ongoing /\ command' # Down
    BY <1>0, CommandsDiffer DEF Ongoing
  <1>8. InPhase'
    BY <1>0, <1>6 DEF InPhase
  <1>9. Running'
    BY <1>2, <1>7, <1>8 DEF Running, SameVenue, Persisted
  <1> QED BY <1>3, <1>4, <1>5, <1>9 DEF DesktopInv

LEMMA ProcessesKeep ==
    ASSUME RequestsAreFormed, DesktopInv, Tick \/ Start \/ Stop
    PROVE  DesktopInv'
  <1>1. CASE Tick
    <2>2. /\ UNCHANGED <<oms, disk, venue, command, receipts, fills>>
          /\ clock' \in Int
          /\ limits' \in [ids : SUBSET DOMAIN Requests, commands : Int, ticks : Int, starts : Int]
      BY <1>1 DEF Tick, DesktopInv, DesktopTypes
    <2>3. DesktopTypes' /\ FillsAreSound'
      BY <2>2, HistoryStands DEF DesktopInv, DesktopTypes
    <2>4. Recorded(disk) => Recorded(disk)'
      BY <2>2 DEF Recorded
    <2>5. InPhase => InPhase'
      <3>1. \A o : Agrees(o) <=> Agrees(o)'
        BY <2>2 DEF Agrees
      <3>2. \A x : SeenBefore(x) <=> SeenBefore(x)'
        BY <2>2 DEF SeenBefore
      <3>3. \A i : Closing(i)' = Closing(i)
        BY <2>2 DEF Closing
      <3>4. Quiet => Quiet'
        BY <2>2, <3>1 DEF Quiet
      <3>5. \A id : OthersAgree(id) => OthersAgree(id)'
        BY <3>1 DEF OthersAgree
      <3>6. \A id : Submitting(id) => Submitting(id)'
        BY <2>2, <3>3, <3>5 DEF Submitting, ForClosing
      <3>7. \A id : Cancelling(id) => Cancelling(id)'
        BY <2>2, <3>5 DEF Cancelling
      <3>8. \A id, e : CancelPending(id, e) => CancelPending(id, e)'
        BY <2>2, <3>5 DEF CancelPending
      <3>9. \A id, e : FillPending(id, e) => FillPending(id, e)'
        BY <2>2, <3>3, <3>5 DEF FillPending, ForClosing
      <3> QED BY <2>2, <3>2, <3>4, <3>6, <3>7, <3>8, <3>9 DEF InPhase
    <2>6. Running => Running'
      BY <2>2, <2>5 DEF Running, Persisted
    <2> QED BY <2>2, <2>3, <2>4, <2>6 DEF DesktopInv, Unstarted
  <1>2. CASE Start
    <2>1. /\ command = Down /\ UNCHANGED <<clock, receipts, fills>>
          /\ oms' = IF disk = Nothing THEN NewService ELSE Reopened(disk)
          /\ disk' = Persisted(oms') /\ venue' = NewVenue /\ command' = Waiting
          /\ limits' \in [ids : SUBSET DOMAIN Requests, commands : Int, ticks : Int, starts : Int]
      BY <1>2 DEF Start, DesktopInv, DesktopTypes
    <2>2. DesktopTypes' /\ FillsAreSound' /\ command' # Down
      BY <2>1, HistoryStands, CommandsDiffer DEF DesktopInv, DesktopTypes
    <2>3. CASE disk = Nothing
      <3>1. Unstarted /\ oms' = NewService
        BY <2>1, <2>3, NoJournalIsNothing DEF DesktopInv, Recorded
      <3>2. PICK r : r = Persisted(NewService)
        OBVIOUS
      <3>3. Recorded(disk)'
        <4>1. r \in Journals /\ r.position = Flat
          BY <3>2, NewServiceIs DEF Persisted
        <4>2. \A i \in Instruments : Flat[i] = 0 /\ SumOf(DeltasOn(i), {}) = 0
          BY FS_EmptySet, SumOfParts DEF RequestsAreFormed
        <4>3. disk' = r /\ fills'.made = {} /\ receipts' = {}
          BY <2>1, <3>1, <3>2 DEF Unstarted, Persisted
        <4> QED BY <4>1, <4>2, <4>3 DEF Recorded
      <3>4. Quiet'
        BY <2>1, <3>1, NewServiceIs DEF Quiet, Agrees
      <3>5. \A x \in oms'.seen : SeenBefore(x)'
        BY <3>1, NewServiceIs
      <3>6. Running'
        BY <2>1, <2>2, <3>1, <3>4, <3>5, NewServiceIs DEF Running, InPhase
      <3> QED BY <2>2, <3>3, <3>6 DEF DesktopInv
    <2>4. CASE disk # Nothing
      <3>1. Recorded(disk) /\ oms' = Reopened(disk) /\ disk \in Journals
        BY <2>1, <2>4 DEF DesktopInv, Unstarted, Recorded
      <3>2. Reopened(disk) \in Services /\ ~Reopened(disk).connected
            /\ Persisted(Reopened(disk)) = disk
        BY <3>1 DEF Reopened, Services, Journals, Persisted
      <3>3. disk' = disk
        BY <2>1, <3>1, <3>2
      <3>4. Recorded(disk)'
        BY <2>1, <3>1, <3>3 DEF Recorded
      <3>5. Running'
        BY <2>1, <2>2, <3>1, <3>2, <3>3, NewServiceIs DEF Running
      <3> QED BY <2>2, <3>4, <3>5 DEF DesktopInv
    <2> QED BY <2>3, <2>4
  <1>3. CASE Stop
    <2>1. /\ command # Down /\ command' = Down /\ oms' = NewService /\ venue' = NewVenue
          /\ UNCHANGED <<clock, disk, receipts, fills, limits>>
      BY <1>3 DEF Stop
    <2>2. Recorded(disk)
      BY <2>1, RunsFromWaiting
    <2>3. DesktopTypes' /\ FillsAreSound'
      BY <2>1, HistoryStands DEF DesktopInv, DesktopTypes
    <2>4. Recorded(disk)'
      BY <2>1, <2>2 DEF Recorded
    <2> QED BY <2>1, <2>3, <2>4 DEF DesktopInv
  <1> QED BY <1>1, <1>2, <1>3

-----------------------------------------------------------------------------
(* An order is stored before the venue is asked (Takes).                    *)

LEMMA WithIs ==
    ASSUME NEW V, NEW S, NEW orders \in [S -> V], NEW id, NEW order \in V
    PROVE  /\ With(orders, id, order) \in [S \union {id} -> V]
           /\ With(orders, id, order)[id] = order
           /\ \A o \in S \ {id} : With(orders, id, order)[o] = orders[o]
  BY DEF With

LEMMA OrderIs ==
    ASSUME RequestsAreFormed, DesktopInv, oms \in Services, NEW id \in DOMAIN Requests,
           NEW marks \in MarkSets, NEW observed \in {clock - 1, clock},
           id \notin DOMAIN oms.orders
    PROVE  /\ OrderOf(id, marks, observed) \in OrderRecords
           /\ OrderOf(id, marks, observed).state = "PENDING_SUBMIT"
           /\ OrderOf(id, marks, observed).marks = marks
           /\ OrderOf(id, marks, observed).kind = Requests[id].kind
           /\ OrderOf(id, marks, observed).deltas = DeltasOf(id)
           /\ ForClosing(id, OrderOf(id, marks, observed))
  <1>1. DeltasOf(id) \in Amounts
    <2>1. CASE Requests[id].kind = "CLOSE"
      <3>1. oms.position \in Amounts
        BY DEF Services
      <3>2. Closing(Requests[id].deltas) \in Amounts
        BY <3>1 DEF Closing, Amounts
      <3> QED BY <2>1, <3>2 DEF DeltasOf
    <2>2. CASE Requests[id].kind # "CLOSE"
      BY <2>2 DEF DeltasOf, RequestsAreFormed
    <2> QED BY <2>1, <2>2
  <1>2. DecidedAt(id) = clock /\ clock \in Int
    BY DEF DecidedAt, DesktopInv, DesktopTypes
  <1>3. marks \in Amounts /\ Requests[id].limit \in PriceLimits
        /\ Requests[id].kind \in {"SINGLE", "COMBO", "CLOSE"} /\ observed \in Int
    BY <1>2 DEF RequestsAreFormed
  <1>4. "PENDING_SUBMIT" \in States
    BY DEF States
  <1> DEFINE order == OrderOf(id, marks, observed)
  <1>5. order \in OrderRecords
    BY <1>1, <1>2, <1>3, <1>4 DEF OrderOf, OrderRecords
  <1>6. order.state = "PENDING_SUBMIT" /\ order.marks = marks /\ order.deltas = DeltasOf(id)
        /\ order.kind = Requests[id].kind
    BY DEF OrderOf
  <1> HIDE DEF order
  <1>7. ForClosing(id, order)
    BY <1>6 DEF ForClosing, DeltasOf
  <1> QED BY <1>5, <1>6, <1>7 DEF order

LEMMA StoresKeep ==
    ASSUME RequestsAreFormed, DesktopInv, command = Waiting, oms.connected,
           NEW id \in DOMAIN Requests, id \notin DOMAIN oms.orders,
           NEW order \in OrderRecords, order.state = "PENDING_SUBMIT", ForClosing(id, order),
           oms' = [oms EXCEPT !.orders = With(@, id, order)], disk' = Persisted(oms'),
           SameVenue(venue'), venue'[Slot(order)] = [kind |-> "MARKS", marks |-> order.marks],
           command' = [phase |-> "SUBMIT", id |-> id], SameHistory, UNCHANGED receipts
    PROVE  DesktopInv'
  <1>1. command # Down
    BY CommandsDiffer
  <1>2. Running /\ Recorded(disk) /\ Quiet /\ oms \in Services /\ disk = Persisted(oms)
    BY <1>1, RunsFromWaiting DEF Running
  <1> DEFINE book == With(oms.orders, id, order)
  <1>3. /\ oms.orders \in [DOMAIN oms.orders -> OrderRecords]
        /\ DOMAIN oms.orders \subseteq DOMAIN Requests
    BY <1>2 DEF Services, OrderBooks
  <1>4. /\ DOMAIN book = DOMAIN oms.orders \union {id} /\ book[id] = order
        /\ \A o \in DOMAIN oms.orders : book[o] = oms.orders[o]
        /\ book \in OrderBooks
    <2>1. book \in [DOMAIN oms.orders \union {id} -> OrderRecords] /\ book[id] = order
          /\ \A o \in DOMAIN oms.orders \ {id} : book[o] = oms.orders[o]
      BY <1>3 DEF With
    <2> HIDE DEF book
    <2> QED BY <1>3, <2>1 DEF OrderBooks
  <1>5. /\ oms'.orders = book /\ oms'.position = oms.position /\ oms'.seen = oms.seen
        /\ oms'.connected
    BY <1>2 DEF Services
  <1> HIDE DEF book
  <1>6. oms' \in Services
    BY <1>2, <1>4 DEF Services, book
  <1>7. DesktopTypes'
    BY DEF DesktopInv, DesktopTypes, SameHistory, Ongoing
  <1>8. FillsAreSound'
    BY HistoryStands DEF SameHistory
  <1>9. Recorded(disk)'
    <2>1. PICK r : r = disk
      OBVIOUS
    <2>2. PICK s : s = disk'
      OBVIOUS
    <2>3. /\ r.orders = oms.orders /\ r.position = oms.position
          /\ s.orders = book /\ s.position = oms.position /\ s \in Journals /\ Recorded(r)
      BY <1>2, <1>5, <1>6, <2>1, <2>2 DEF Persisted, Journals, Services
    <2>4. Recorded(s)'
      BY <1>4, <2>3, RecordStands DEF SameHistory
    <2> QED BY <2>2, <2>4 DEF Recorded
  <1>10. \A x \in oms.seen : SeenBefore(x)
    BY <1>2 DEF Running, InPhase
  <1>11. \A x \in oms'.seen : SeenBefore(x)'
    BY <1>4, <1>5, <1>10 DEF SeenBefore, SameVenue
  <1>12. \A i : Closing(i)' = Closing(i)
    BY <1>5 DEF Closing
  <1>13. \A o \in DOMAIN Requests : Agrees(o)
    BY <1>2 DEF Quiet
  <1>14. OthersAgree(id)'
    BY <1>4, <1>5, <1>13 DEF OthersAgree, Agrees, SameVenue
  <1>15. id \notin DOMAIN venue.orders
    BY <1>13 DEF Agrees
  <1>16. Submitting(id)'
    BY <1>2, <1>4, <1>5, <1>12, <1>14, <1>15 DEF Submitting, Quiet, SameVenue, ForClosing
  <1>17. InPhase'
    BY <1>11, <1>16 DEF InPhase
  <1>18. Running'
    <2>1. command' # Down
      BY CommandsDiffer DEF Ongoing
    <2> QED BY <1>5, <1>6, <1>17, <2>1 DEF Running, SameVenue
  <1> QED BY <1>7, <1>8, <1>9, <1>18 DEF DesktopInv

LEMMA TakesKeep ==
    ASSUME RequestsAreFormed, DesktopInv, command = Waiting, SameHistory,
           NEW id \in DOMAIN Requests, NEW marks \in MarkSets,
           NEW observed \in {clock - 1, clock}, NEW denied,
           NEW armed, NEW refusedVenue, SameVenue(armed), SameVenue(refusedVenue),
           armed[Slot(OrderOf(id, marks, observed))] = [kind |-> "MARKS", marks |-> marks],
           Takes(id, OrderOf(id, marks, observed), armed, refusedVenue, denied)
    PROVE  DesktopInv'
  <1>1. command # Down
    BY CommandsDiffer
  <1>2. oms \in Services
    BY <1>1, RunsFromWaiting DEF Running
  <1> DEFINE order == OrderOf(id, marks, observed)
  <1>3. id \notin DOMAIN oms.orders =>
           /\ order \in OrderRecords /\ order.state = "PENDING_SUBMIT"
           /\ order.marks = marks /\ ForClosing(id, order)
    BY <1>2, OrderIs
  <1>4. armed[Slot(order)] = [kind |-> "MARKS", marks |-> marks]
        /\ Takes(id, order, armed, refusedVenue, denied)
    OBVIOUS
  <1> HIDE DEF order
  <1>5. CASE Fails /\ venue' = refusedVenue /\ UNCHANGED <<oms, disk>>
    BY <1>5, RestsKeep DEF Fails
  <1>6. CASE /\ oms.connected /\ id \in DOMAIN oms.orders
             /\ command' = [phase |-> "DRAIN", id |-> id]
             /\ venue' = refusedVenue /\ UNCHANGED <<oms, disk, receipts>>
    BY <1>6, DrainsKeep
  <1>7. CASE Receives(id, "RISK_REJECTED") /\ venue' = refusedVenue /\ UNCHANGED <<oms, disk>>
    BY <1>7, RestsKeep DEF Receives
  <1>8. CASE /\ oms.connected /\ id \notin DOMAIN oms.orders
             /\ oms' = [oms EXCEPT !.orders = With(@, id, order)]
             /\ disk' = Persisted(oms') /\ venue' = armed
             /\ command' = [phase |-> "SUBMIT", id |-> id] /\ UNCHANGED receipts
    BY <1>3, <1>4, <1>8, StoresKeep
  <1> QED BY <1>4, <1>5, <1>6, <1>7, <1>8 DEF Takes

LEMMA SubmissionsKeep ==
    ASSUME RequestsAreFormed, DesktopInv, NEW id \in limits.ids, NEW marks \in MarkSets,
           NEW observed \in {clock - 1, clock}, NEW denied,
           \/ SubmitOrder(id, marks, observed, denied)
           \/ SubmitCombination(id, marks, observed, denied)
           \/ ClosePosition(id, marks, observed, denied)
    PROVE  DesktopInv'
  <1> DEFINE order == OrderOf(id, marks, observed)
             slot == Slot(order)
             armed == Armed(venue, slot, marks)
  <1>1. command = Waiting /\ SameHistory /\ id \in DOMAIN Requests
    BY DEF SubmitOrder, SubmitCombination, ClosePosition, Commands, Spends, SameHistory,
           DesktopInv, DesktopTypes
  <1>2. venue \in Venues /\ marks \in Amounts
    <2>1. command # Down
      BY <1>1, CommandsDiffer
    <2> QED BY <2>1, RunsFromWaiting DEF Running, RequestsAreFormed
  <1>3. slot \in {"single", "combo"} /\ order.kind = Requests[id].kind
    BY DEF Slot, OrderOf
  <1>4. /\ SameVenue(armed) /\ SameVenue(Disarmed(venue, slot)) /\ SameVenue(venue)
        /\ armed[slot] = [kind |-> "MARKS", marks |-> marks]
    BY <1>2, <1>3, ArmingIs DEF SameVenue
  <1>5. \/ Fails /\ UNCHANGED <<oms, disk, venue>>
        \/ Takes(id, order, armed, armed, denied)
        \/ Takes(id, order, armed, Disarmed(venue, slot), denied)
    BY <1>3 DEF SubmitOrder, SubmitCombination, ClosePosition, Slot
  <1> HIDE DEF armed
  <1>6. CASE Fails /\ UNCHANGED <<oms, disk, venue>>
    BY <1>1, <1>4, <1>6, RestsKeep DEF Fails
  <1>7. CASE Takes(id, order, armed, armed, denied)
    BY <1>1, <1>4, <1>7, TakesKeep
  <1>8. CASE Takes(id, order, armed, Disarmed(venue, slot), denied)
    BY <1>1, <1>4, <1>8, TakesKeep
  <1> QED BY <1>5, <1>6, <1>7, <1>8

-----------------------------------------------------------------------------
(* The broker answers (AskVenue, AskCancel), and a cancellation is stored   *)
(* before it is asked for (CancelOrder).                                    *)

LEMMA StateIs ==
    ASSUME NEW service \in Services, NEW id \in DOMAIN service.orders, NEW st \in States,
           NEW marked, marked = [service EXCEPT !.orders[id].state = st]
    PROVE  /\ marked \in Services /\ DOMAIN marked.orders = DOMAIN service.orders
           /\ marked.orders[id] = [service.orders[id] EXCEPT !.state = st]
           /\ marked.orders[id].state = st
           /\ \A o \in DOMAIN service.orders \ {id} : marked.orders[o] = service.orders[o]
           /\ marked.position = service.position /\ marked.seen = service.seen
           /\ marked.connected = service.connected
  <1>1. PICK ids \in SUBSET DOMAIN Requests : service.orders \in [ids -> OrderRecords]
    BY DEF Services, OrderBooks
  <1> DEFINE order == service.orders[id]
             book == [service.orders EXCEPT ![id] = [@ EXCEPT !.state = st]]
  <1>2. order \in OrderRecords
    BY <1>1
  <1>3. [order EXCEPT !.state = st] \in OrderRecords /\ [order EXCEPT !.state = st].state = st
    BY <1>2 DEF OrderRecords
  <1>4. /\ book \in [ids -> OrderRecords] /\ DOMAIN book = DOMAIN service.orders
        /\ book[id] = [order EXCEPT !.state = st]
        /\ \A o \in DOMAIN service.orders \ {id} : book[o] = service.orders[o]
    BY <1>1, <1>3
  <1>5. marked = [service EXCEPT !.orders = book]
    BY DEF Services
  <1> HIDE DEF book
  <1>6. /\ marked.orders = book /\ marked.position = service.position
        /\ marked.seen = service.seen /\ marked.connected = service.connected
        /\ marked \in Services
    BY <1>4, <1>5 DEF Services, OrderBooks
  <1> QED BY <1>3, <1>4, <1>6

LEMMA AcceptsIs ==
    ASSUME NEW v \in Venues, NEW id \in DOMAIN Requests, id \notin DOMAIN v.orders,
           v.events = <<>>, NEW order \in OrderRecords,
           v[Slot(order)] = [kind |-> "MARKS", marks |-> order.marks],
           NEW w, w = VenueAccepts(v, id, order), RequestsAreFormed
    PROVE  /\ w \in Venues /\ DOMAIN w.orders = DOMAIN v.orders \union {id}
           /\ \A o \in DOMAIN v.orders : w.orders[o] = v.orders[o]
           /\ IF Marketable(order, order.marks)
              THEN /\ w.orders[id] = "FILLED" /\ w.position = Moved(v.position, order.deltas)
                   /\ \E e \in VenueEvents :
                         /\ w.events = <<e>> /\ e.kind = "EXECUTION" /\ e.id = id
                         /\ e.marks = order.marks /\ e.execution = ExecutionId(v, id, order)
                   /\ w.executions >= v.executions
                   /\ order.kind # "COMBO" => w.executions = v.executions + 1
              ELSE /\ w.orders[id] = "ACKNOWLEDGED" /\ w.position = v.position
                   /\ w.events = <<>> /\ w.executions = v.executions
  <1> DEFINE accepted == [v EXCEPT !.orders = With(@, id, "ACKNOWLEDGED")]
             filled == VenueFills(accepted, id, order, order.marks)
             slot == Slot(order)
  <1>1. v.orders \in [DOMAIN v.orders -> States] /\ DOMAIN v.orders \subseteq DOMAIN Requests
    BY DEF Venues, VenueOrders
  <1>2. ASSUME NEW st \in States
        PROVE  /\ With(v.orders, id, st) \in VenueOrders
               /\ DOMAIN With(v.orders, id, st) = DOMAIN v.orders \union {id}
               /\ With(v.orders, id, st)[id] = st
               /\ \A o \in DOMAIN v.orders : With(v.orders, id, st)[o] = v.orders[o]
    <2> DEFINE book == With(v.orders, id, st)
    <2>1. book \in [DOMAIN v.orders \union {id} -> States] /\ book[id] = st
          /\ \A o \in DOMAIN v.orders : book[o] = v.orders[o]
      BY <1>1, <1>2 DEF With
    <2> HIDE DEF book
    <2>2. book \in VenueOrders /\ DOMAIN book = DOMAIN v.orders \union {id}
      BY <1>1, <2>1 DEF VenueOrders
    <2> QED BY <2>1, <2>2 DEF book
  <1>3. "ACKNOWLEDGED" \in States /\ "FILLED" \in States
    BY DEF States
  <1> DEFINE ab == With(v.orders, id, "ACKNOWLEDGED")
             fb == With(v.orders, id, "FILLED")
  <1>4. /\ ab \in VenueOrders /\ DOMAIN ab = DOMAIN v.orders \union {id}
        /\ ab[id] = "ACKNOWLEDGED" /\ \A o \in DOMAIN v.orders : ab[o] = v.orders[o]
    BY <1>2, <1>3
  <1>5. /\ fb \in VenueOrders /\ DOMAIN fb = DOMAIN v.orders \union {id}
        /\ fb[id] = "FILLED" /\ \A o \in DOMAIN v.orders : fb[o] = v.orders[o]
    BY <1>2, <1>3
  <1>11. With(ab, id, "FILLED") = fb
    BY DEF With
  <1> HIDE DEF ab, fb
  <1>6. /\ accepted \in Venues /\ accepted.orders = ab /\ accepted.position = v.position
        /\ accepted.events = <<>> /\ accepted.executions = v.executions
    BY <1>4 DEF Venues, ab
  <1> HIDE DEF accepted
  <1>7. slot \in {"single", "combo"}
    BY DEF Slot
  <1>8. w = Disarmed(IF Marketable(order, order.marks) THEN filled ELSE accepted, slot)
    BY DEF VenueAccepts, accepted
  <1>9. CASE ~Marketable(order, order.marks)
    <2>1. w = Disarmed(accepted, slot)
      BY <1>8, <1>9
    <2>2. order.marks \in Amounts
      BY DEF OrderRecords
    <2>3. /\ w \in Venues /\ w.orders = ab /\ w.position = v.position
          /\ w.events = <<>> /\ w.executions = v.executions
      BY <1>6, <1>7, <2>1, <2>2, ArmingIs
    <2> QED BY <1>4, <1>9, <2>3
  <1>10. CASE Marketable(order, order.marks)
    <2>1. w = Disarmed(filled, slot)
      BY <1>8, <1>10
    <2> DEFINE x == ExecutionId(accepted, id, order)
               e == [kind |-> "EXECUTION", id |-> id, marks |-> order.marks, execution |-> x]
               n == IF order.kind = "COMBO" THEN v.executions ELSE v.executions + 1
               p == Moved(v.position, order.deltas)
    <2>2. order.marks \in Amounts /\ order.deltas \in Amounts /\ v.position \in Amounts
          /\ v.executions \in Nat
      BY DEF OrderRecords, Venues
    <2>3. x \in ExecutionIds /\ x = ExecutionId(v, id, order)
      BY <1>6, <2>2 DEF ExecutionId, ExecutionIds
    <2>4. p \in Amounts
      BY <2>2 DEF Moved, Amounts
    <2> HIDE DEF x, p
    <2>5. e \in VenueEvents /\ e.kind = "EXECUTION" /\ e.id = id /\ e.marks = order.marks
          /\ e.execution = x
      BY <2>2, <2>3 DEF VenueEvents
    <2> HIDE DEF e
    <2>6. filled = [accepted EXCEPT !.orders = fb, !.position = p, !.executions = n,
                                    !.events = <<e>>]
      <3>1. Append(accepted.events, e) = <<e>>
        BY <1>6
      <3>2. With(accepted.orders, id, "FILLED") = fb
        BY <1>6, <1>11
      <3>3. Moved(accepted.position, order.deltas) = p
        BY <1>6 DEF p
      <3>4. (IF order.kind = "COMBO" THEN accepted.executions ELSE accepted.executions + 1) = n
        BY <1>6
      <3>5. e = [kind |-> "EXECUTION", id |-> id, marks |-> order.marks,
                 execution |-> ExecutionId(accepted, id, order)]
        BY DEF e, x
      <3> HIDE DEF n
      <3> QED BY <1>6, <3>1, <3>2, <3>3, <3>4, <3>5 DEF VenueFills, Venues
    <2>7. n \in Nat /\ n >= v.executions /\ (order.kind # "COMBO" => n = v.executions + 1)
      BY <2>2
    <2> HIDE DEF n, filled
    <2>8. <<e>> \in Seq(VenueEvents)
      BY <2>5
    <2>9. /\ filled \in Venues /\ filled.orders = fb /\ filled.position = p
          /\ filled.events = <<e>> /\ filled.executions = n
      BY <1>5, <1>6, <2>4, <2>6, <2>7, <2>8 DEF Venues
    <2>10. /\ w \in Venues /\ w.orders = fb /\ w.position = p
           /\ w.events = <<e>> /\ w.executions = n
      BY <1>7, <2>1, <2>2, <2>9, ArmingIs
    <2> QED BY <1>5, <1>10, <2>3, <2>5, <2>7, <2>10 DEF p
  <1> QED BY <1>9, <1>10

(* The phase tells the order a command is about.                            *)
LEMMA PhaseIs ==
    ASSUME DesktopInv, command.phase \in {"SUBMIT", "CANCEL", "DRAIN"}
    PROVE  /\ Running /\ Recorded(disk) /\ oms.connected /\ command.id \in DOMAIN Requests
           /\ command.phase = "SUBMIT" => Submitting(command.id)
           /\ command.phase = "CANCEL" => Cancelling(command.id)
           /\ command.phase = "DRAIN" =>
                 \/ Quiet /\ command.id \in DOMAIN oms.orders
                 \/ \E e \in VenueEvents : FillPending(command.id, e) \/ CancelPending(command.id, e)
           /\ \A x \in oms.seen : SeenBefore(x)
  <1>1. command # Down /\ command # Waiting
    BY CommandsDiffer
  <1>2. Running /\ Recorded(disk) /\ oms.connected /\ InPhase
    BY <1>1, RunsFromWaiting DEF Running
  <1>3. PICK id \in DOMAIN Requests :
           \/ command = [phase |-> "SUBMIT", id |-> id] /\ Submitting(id)
           \/ command = [phase |-> "CANCEL", id |-> id] /\ Cancelling(id)
           \/ /\ command = [phase |-> "DRAIN", id |-> id]
              /\ \/ Quiet /\ id \in DOMAIN oms.orders
                 \/ \E e \in VenueEvents : FillPending(id, e) \/ CancelPending(id, e)
    BY <1>1, <1>2 DEF InPhase
  <1>4. command.id = id
    BY <1>3
  <1> QED BY <1>2, <1>3, <1>4 DEF InPhase

(* The journal after a step that moves one order on and no position.        *)
LEMMA MarkKeepsRecord ==
    ASSUME DesktopInv, Running, Recorded(disk), UNCHANGED <<fills, receipts>>,
           NEW id \in DOMAIN oms.orders, NEW st \in States,
           oms' = [oms EXCEPT !.orders[id].state = st], disk' = Persisted(oms'),
           \/ oms.orders[id].state = "PENDING_SUBMIT"
           \/ /\ oms.orders[id].state \in {"ACKNOWLEDGED", "PENDING_CANCEL"}
              /\ st \in {"ACKNOWLEDGED", "PENDING_CANCEL", "CANCELLED"}
    PROVE  Recorded(disk)'
  <1>1. oms \in Services /\ disk = Persisted(oms)
    BY DEF Running
  <1>2. /\ oms' \in Services /\ DOMAIN oms'.orders = DOMAIN oms.orders
        /\ oms'.orders[id].state = st
        /\ \A o \in DOMAIN oms.orders \ {id} : oms'.orders[o] = oms.orders[o]
        /\ oms'.position = oms.position /\ oms'.seen = oms.seen
    <2>1. PICK marked : marked = oms'
      OBVIOUS
    <2>2. marked = [oms EXCEPT !.orders[id].state = st] /\ oms \in Services
      BY <1>1, <2>1
    <2>3. /\ marked \in Services /\ DOMAIN marked.orders = DOMAIN oms.orders
          /\ marked.orders[id] = [oms.orders[id] EXCEPT !.state = st]
          /\ marked.orders[id].state = st
          /\ \A o \in DOMAIN oms.orders \ {id} : marked.orders[o] = oms.orders[o]
          /\ marked.position = oms.position /\ marked.seen = oms.seen
          /\ marked.connected = oms.connected
      <3>1. id \in DOMAIN oms.orders /\ st \in States
        OBVIOUS
      <3> QED BY ONLY <2>2, <3>1, StateIs
    <2> QED BY <2>1, <2>3
  <1>3. PICK r : r = disk
    OBVIOUS
  <1>4. PICK s : s = disk'
    OBVIOUS
  <1>5. /\ r.orders = oms.orders /\ r.position = oms.position
        /\ s.orders = oms'.orders /\ s.position = oms.position /\ s \in Journals /\ Recorded(r)
    BY <1>1, <1>2, <1>3, <1>4 DEF Persisted, Journals, Services
  <1>6. \A o \in DOMAIN r.orders :
           /\ o \in DOMAIN s.orders
           /\ r.orders[o].state \in {"FILLED", "CANCELLED"} => s.orders[o].state = r.orders[o].state
           /\ r.orders[o].state \in {"ACKNOWLEDGED", "PENDING_CANCEL"}
                 => s.orders[o].state \in {"ACKNOWLEDGED", "PENDING_CANCEL", "CANCELLED"}
    BY <1>2, <1>5
  <1>7. Recorded(s)'
    BY <1>5, <1>6, RecordStands
  <1> QED BY <1>4, <1>7 DEF Recorded

LEMMA AskVenueKeeps ==
    ASSUME RequestsAreFormed, DesktopInv, AskVenue
    PROVE  DesktopInv'
  <1>1. PICK id : id = command.id
    OBVIOUS
  <1>2. PICK order : order = oms.orders[id]
    OBVIOUS
  <1>3. /\ venue' = VenueAccepts(venue, id, order)
        /\ oms' = [oms EXCEPT !.orders[id].state = "ACKNOWLEDGED"]
        /\ command' = [phase |-> "DRAIN", id |-> id] /\ disk' = Persisted(oms')
        /\ UNCHANGED <<clock, receipts, fills, limits>> /\ command.phase = "SUBMIT"
    BY <1>1, <1>2 DEF AskVenue
  <1>4. /\ Running /\ Recorded(disk) /\ oms.connected /\ id \in DOMAIN Requests /\ Submitting(id)
        /\ \A x \in oms.seen : SeenBefore(x)
    BY <1>1, <1>3, PhaseIs
  <1>5. oms \in Services /\ venue \in Venues /\ disk = Persisted(oms) /\ order \in OrderRecords
        /\ id \in DOMAIN oms.orders
    BY <1>2, <1>4 DEF Running, Submitting, Services, OrderBooks
  <1>6. "ACKNOWLEDGED" \in States
    BY DEF States
  <1>7. /\ oms' \in Services /\ DOMAIN oms'.orders = DOMAIN oms.orders
        /\ oms'.orders[id] = [order EXCEPT !.state = "ACKNOWLEDGED"]
        /\ oms'.orders[id].state = "ACKNOWLEDGED"
        /\ \A o \in DOMAIN oms.orders \ {id} : oms'.orders[o] = oms.orders[o]
        /\ oms'.position = oms.position /\ oms'.seen = oms.seen /\ oms'.connected
    <2>1. PICK marked : marked = oms'
      OBVIOUS
    <2> QED BY <1>2, <1>3, <1>4, <1>5, <1>6, <2>1, StateIs
  <1>8. /\ venue' \in Venues /\ DOMAIN venue'.orders = DOMAIN venue.orders \union {id}
        /\ \A o \in DOMAIN venue.orders : venue'.orders[o] = venue.orders[o]
        /\ IF Marketable(order, order.marks)
           THEN /\ venue'.orders[id] = "FILLED"
                /\ venue'.position = Moved(venue.position, order.deltas)
                /\ \E e \in VenueEvents :
                      /\ venue'.events = <<e>> /\ e.kind = "EXECUTION" /\ e.id = id
                      /\ e.marks = order.marks /\ e.execution = ExecutionId(venue, id, order)
                /\ venue'.executions >= venue.executions
                /\ order.kind # "COMBO" => venue'.executions = venue.executions + 1
           ELSE /\ venue'.orders[id] = "ACKNOWLEDGED" /\ venue'.position = venue.position
                /\ venue'.events = <<>> /\ venue'.executions = venue.executions
    <2>1. PICK w : w = venue'
      OBVIOUS
    <2>2. /\ id \notin DOMAIN venue.orders /\ venue.events = <<>>
          /\ venue[Slot(order)] = [kind |-> "MARKS", marks |-> order.marks]
      BY <1>2, <1>4 DEF Submitting
    <2> QED BY <1>3, <1>4, <1>5, <2>1, <2>2, AcceptsIs
  <1>9. DesktopTypes'
    BY <1>3, <1>4 DEF DesktopInv, DesktopTypes, Ongoing
  <1>10. FillsAreSound'
    BY <1>3, HistoryStands
  <1>11. Recorded(disk)'
    BY <1>3, <1>4, <1>5, <1>6, MarkKeepsRecord DEF Submitting
  <1>12. venue'.executions >= venue.executions
    BY <1>5, <1>8 DEF Venues
  <1>13. \A x \in oms'.seen : SeenBefore(x)'
    <2>1. ASSUME NEW x \in oms.seen
          PROVE  SeenBefore(x)'
      <3>1. SeenBefore(x) /\ x \in ExecutionIds
        BY <1>4, <1>5 DEF Services
      <3>2. x.kind = "NAMED" => x.of \in DOMAIN oms.orders \ {id} /\ oms.orders[x.of].state = "FILLED"
        BY <1>4, <3>1 DEF SeenBefore, Submitting
      <3>3. x.kind = "NUMBERED" => x.of <= venue'.executions
        BY <1>5, <1>8, <1>12, <3>1 DEF SeenBefore, ExecutionIds, Venues
      <3> QED BY <1>7, <3>2, <3>3 DEF SeenBefore
    <2> QED BY <1>7, <2>1
  <1>14. OthersAgree(id)'
    BY <1>4, <1>7, <1>8 DEF Submitting, OthersAgree, Agrees
  <1>15. CASE ~Marketable(order, order.marks)
    <2>1. Agrees(id)'
      BY <1>5, <1>7, <1>8, <1>15 DEF Agrees
    <2>2. Quiet'
      BY <1>4, <1>7, <1>8, <1>14, <1>15, <2>1 DEF Quiet, OthersAgree, Submitting
    <2>3. InPhase'
      BY <1>3, <1>4, <1>5, <1>7, <1>13, <2>2 DEF InPhase
    <2>4. Running'
      BY <1>3, <1>4, <1>7, <1>8, <2>3, CommandsDiffer DEF Running, Ongoing
    <2> QED BY <1>9, <1>10, <1>11, <2>4 DEF DesktopInv
  <1>16. CASE Marketable(order, order.marks)
    <2>1. PICK e \in VenueEvents :
             /\ venue'.events = <<e>> /\ e.kind = "EXECUTION" /\ e.id = id
             /\ e.marks = order.marks /\ e.execution = ExecutionId(venue, id, order)
      BY <1>8, <1>16
    <2>2. PICK filled : filled = oms'.orders[id]
      OBVIOUS
    <2>3. /\ filled.state = "ACKNOWLEDGED" /\ filled.marks = order.marks
          /\ filled.deltas = order.deltas /\ filled.kind = order.kind /\ filled.limit = order.limit
      BY <1>5, <1>7, <2>2 DEF OrderRecords
    <2>4. Marketable(filled, e.marks)
      BY <1>16, <2>1, <2>3 DEF Marketable
    <2>5. ForClosing(id, filled)'
      <3>1. ForClosing(id, order)
        BY <1>2, <1>4 DEF Submitting
      <3>2. Closing(Requests[id].deltas)' = Closing(Requests[id].deltas)
        BY <1>7 DEF Closing
      <3> QED BY <2>3, <3>1, <3>2 DEF ForClosing
    <2>6. e.execution \in ExecutionIds \ oms.seen
      <3>1. e.execution \in ExecutionIds
        BY <2>1 DEF VenueEvents
      <3>2. ASSUME e.execution \in oms.seen
            PROVE  FALSE
        <4>1. SeenBefore(e.execution)
          BY <1>4, <3>2
        <4>2. oms.orders[id].state = "PENDING_SUBMIT" /\ venue.executions \in Nat
          BY <1>4, <1>5 DEF Submitting, Venues
        <4> QED BY <2>1, <4>1, <4>2 DEF SeenBefore, ExecutionId
      <3> QED BY <3>1, <3>2
    <2>7. /\ e.execution.kind = "NAMED" => e.execution.of = id
          /\ e.execution.kind = "NUMBERED" => e.execution.of <= venue'.executions
      <3>1. venue.executions \in Nat
        BY <1>5 DEF Venues
      <3> QED BY <1>8, <1>16, <2>1, <3>1 DEF ExecutionId
    <2>8. \A q \in receipts : q.id = id => q.status # "ACKNOWLEDGED"
      <3>1. disk.orders[id].state = "PENDING_SUBMIT"
        BY <1>4, <1>5 DEF Submitting, Persisted
      <3> QED BY <1>4, <3>1 DEF Recorded
    <2>9. venue.position = oms.position
      BY <1>4 DEF Submitting
    <2>10. FillPending(id, e)'
      <3>1. venue'.position = Moved(oms'.position, filled.deltas)
        BY <1>7, <1>8, <1>16, <2>3, <2>9
      <3>2. id \in DOMAIN venue'.orders /\ venue'.orders[id] = "FILLED" /\ id \in DOMAIN oms'.orders
        BY <1>5, <1>7, <1>8, <1>16
      <3>3. e.execution \in ExecutionIds \ oms'.seen /\ receipts' = receipts
        BY <1>3, <1>7, <2>6
      <3>4. e.marks = filled.marks
        BY <2>1, <2>3
      <3> QED BY <1>14, <2>1, <2>2, <2>3, <2>4, <2>5, <2>7, <2>8, <3>1, <3>2, <3>3, <3>4
           DEF FillPending
    <2>11. InPhase'
      BY <1>3, <1>4, <1>13, <2>10 DEF InPhase
    <2>12. Running'
      BY <1>3, <1>4, <1>7, <1>8, <2>11, CommandsDiffer DEF Running, Ongoing
    <2> QED BY <1>9, <1>10, <1>11, <2>12 DEF DesktopInv
  <1> QED BY <1>15, <1>16

LEMMA CancelOrderKeeps ==
    ASSUME RequestsAreFormed, DesktopInv, NEW id \in limits.ids, CancelOrder(id)
    PROVE  DesktopInv'
  <1>1. /\ command = Waiting /\ SameHistory /\ id \in DOMAIN Requests
        /\ UNCHANGED <<clock, venue, fills>>
    BY DEF CancelOrder, Commands, Spends, SameHistory, DesktopInv, DesktopTypes
  <1>2. command # Down
    BY <1>1, CommandsDiffer
  <1>3. Running /\ Recorded(disk) /\ (oms.connected => Quiet) /\ oms \in Services /\ venue \in Venues
    BY <1>1, <1>2, RunsFromWaiting DEF Running
  <1>4. SameVenue(venue')
    BY <1>1, <1>3 DEF SameVenue
  <1>5. CASE Fails /\ UNCHANGED <<oms, disk>>
    BY <1>1, <1>4, <1>5, RestsKeep DEF Fails
  <1>6. CASE /\ oms.connected /\ id \in DOMAIN oms.orders
             /\ command' = [phase |-> "DRAIN", id |-> id] /\ UNCHANGED <<oms, disk, receipts>>
    BY <1>1, <1>4, <1>6, DrainsKeep
  <1>7. CASE /\ oms.connected /\ id \in DOMAIN oms.orders
             /\ oms.orders[id].state = "ACKNOWLEDGED"
             /\ oms' = [oms EXCEPT !.orders[id].state = "PENDING_CANCEL"]
             /\ disk' = Persisted(oms')
             /\ command' = [phase |-> "CANCEL", id |-> id] /\ UNCHANGED receipts
    <2>1. "PENDING_CANCEL" \in States
      BY DEF States
    <2>2. /\ oms' \in Services /\ DOMAIN oms'.orders = DOMAIN oms.orders
          /\ oms'.orders[id] = [oms.orders[id] EXCEPT !.state = "PENDING_CANCEL"]
          /\ oms'.orders[id].state = "PENDING_CANCEL"
          /\ \A o \in DOMAIN oms.orders \ {id} : oms'.orders[o] = oms.orders[o]
          /\ oms'.position = oms.position /\ oms'.seen = oms.seen
          /\ oms'.connected = oms.connected
      <3>1. PICK marked : marked = oms'
        OBVIOUS
      <3>2. marked = [oms EXCEPT !.orders[id].state = "PENDING_CANCEL"] /\ id \in DOMAIN oms.orders
        BY <1>7, <3>1
      <3>3. oms \in Services
        BY <1>3
      <3>4. /\ marked \in Services /\ DOMAIN marked.orders = DOMAIN oms.orders
            /\ marked.orders[id] = [oms.orders[id] EXCEPT !.state = "PENDING_CANCEL"]
            /\ marked.orders[id].state = "PENDING_CANCEL"
            /\ \A o \in DOMAIN oms.orders \ {id} : marked.orders[o] = oms.orders[o]
            /\ marked.position = oms.position /\ marked.seen = oms.seen
            /\ marked.connected = oms.connected
        BY ONLY <2>1, <3>2, <3>3, StateIs
      <3> QED BY <3>1, <3>4
    <2>3. DesktopTypes' /\ FillsAreSound'
      BY <1>1, <1>7, HistoryStands DEF SameHistory, DesktopInv, DesktopTypes, Ongoing
    <2>4. Recorded(disk)'
      BY <1>1, <1>3, <1>7, <2>1, MarkKeepsRecord
    <2>5. \A x \in oms.seen : SeenBefore(x)
      BY <1>3, <1>7 DEF Running, InPhase
    <2>6. \A x \in oms'.seen : SeenBefore(x)'
      BY <1>1, <1>7, <2>2, <2>5 DEF SeenBefore
    <2>7. \A o \in DOMAIN Requests : Agrees(o)
      BY <1>3, <1>7 DEF Quiet
    <2>8. OthersAgree(id)'
      BY <1>1, <2>2, <2>7 DEF OthersAgree, Agrees
    <2>9. id \in DOMAIN venue.orders /\ venue.orders[id] = "ACKNOWLEDGED"
      BY <1>1, <1>7, <2>7 DEF Agrees
    <2>10. venue.events = <<>> /\ venue.position = oms.position
      BY <1>3, <1>7 DEF Quiet
    <2>11. Cancelling(id)'
      BY <1>1, <1>7, <2>2, <2>8, <2>9, <2>10 DEF Cancelling
    <2>12. InPhase'
      BY <1>1, <1>7, <2>6, <2>11 DEF InPhase
    <2>13. Running'
      BY <1>1, <1>3, <1>7, <2>2, <2>12, CommandsDiffer DEF Running, Ongoing
    <2> QED BY <2>3, <2>4, <2>13 DEF DesktopInv
  <1> QED BY <1>5, <1>6, <1>7 DEF CancelOrder

LEMMA AskCancelKeeps ==
    ASSUME RequestsAreFormed, DesktopInv, AskCancel
    PROVE  DesktopInv'
  <1>1. PICK id : id = command.id
    OBVIOUS
  <1> DEFINE e == [kind |-> "CANCELLED", id |-> id]
  <1>2. /\ venue' = [venue EXCEPT !.orders[id] = "CANCELLED", !.events = Append(@, e)]
        /\ command' = [phase |-> "DRAIN", id |-> id] /\ command.phase = "CANCEL"
        /\ UNCHANGED <<clock, oms, disk, receipts, fills, limits>>
    BY <1>1 DEF AskCancel
  <1>3. /\ Running /\ Recorded(disk) /\ oms.connected /\ id \in DOMAIN Requests /\ Cancelling(id)
        /\ \A x \in oms.seen : SeenBefore(x)
    BY <1>1, <1>2, PhaseIs
  <1>4. oms \in Services /\ venue \in Venues /\ disk = Persisted(oms)
    BY <1>3 DEF Running
  <1>5. e \in VenueEvents /\ e.kind = "CANCELLED" /\ e.id = id
    BY <1>3 DEF VenueEvents
  <1> HIDE DEF e
  <1>6. PICK ids \in SUBSET DOMAIN Requests : venue.orders \in [ids -> States]
    BY <1>4 DEF Venues, VenueOrders
  <1> DEFINE book == [venue.orders EXCEPT ![id] = "CANCELLED"]
  <1>7. /\ book \in [ids -> States] /\ DOMAIN book = DOMAIN venue.orders
        /\ book[id] = "CANCELLED" /\ \A o \in DOMAIN venue.orders \ {id} : book[o] = venue.orders[o]
    BY <1>3, <1>6 DEF States, Cancelling
  <1>8. Append(venue.events, e) = <<e>>
    BY <1>3 DEF Cancelling
  <1>9. venue' = [venue EXCEPT !.orders = book, !.events = <<e>>]
    BY <1>2, <1>4, <1>8 DEF Venues
  <1> HIDE DEF book
  <1>10. <<e>> \in Seq(VenueEvents)
    BY <1>5
  <1>11. /\ venue' \in Venues /\ venue'.orders = book /\ venue'.events = <<e>>
         /\ venue'.position = venue.position /\ venue'.executions = venue.executions
    BY <1>4, <1>7, <1>9, <1>10 DEF Venues, VenueOrders
  <1>12. DesktopTypes' /\ FillsAreSound'
    BY <1>2, <1>3, HistoryStands DEF DesktopInv, DesktopTypes, Ongoing
  <1>13. Recorded(disk)'
    BY <1>2, <1>3 DEF Recorded
  <1>14. \A x \in oms'.seen : SeenBefore(x)'
    BY <1>2, <1>3, <1>11 DEF SeenBefore
  <1>15. OthersAgree(id)'
    BY <1>2, <1>3, <1>7, <1>11 DEF OthersAgree, Agrees, Cancelling
  <1>16. CancelPending(id, e)'
    BY <1>2, <1>3, <1>5, <1>7, <1>11, <1>15 DEF CancelPending, Cancelling
  <1>17. InPhase'
    BY <1>2, <1>3, <1>5, <1>14, <1>16 DEF InPhase
  <1>18. Running'
    BY <1>2, <1>3, <1>4, <1>11, <1>17, CommandsDiffer DEF Running, Ongoing, Persisted
  <1> QED BY <1>12, <1>13, <1>18 DEF DesktopInv

-----------------------------------------------------------------------------
(* What a fill costs: the venue fills within the limit of the order.        *)

CostOn(deltas, marks) == [i \in Instruments |-> deltas[i] * marks[i]]

LEMMA NetPriceIs ==
    ASSUME RequestsAreFormed, NEW deltas, NEW marks
    PROVE  NetPrice(deltas, marks) = SumOf(CostOn(deltas, marks), Instruments)
  <1> DEFINE f == CostOn(deltas, marks)
             Q(s) == s = [T \in SUBSET Instruments |->
                            IF T = {} THEN 0
                            ELSE deltas[Chosen(T)] * marks[Chosen(T)] + s[T \ {Chosen(T)}]]
  <1>1. NetPrice(deltas, marks) = (CHOOSE s : Q(s))[Instruments]
    BY DEF NetPrice, MapThenSumSet, MapThenFoldSet, Chosen
  <1>2. ASSUME NEW s
        PROVE  Q(s) <=> Summing(s, f, Instruments)
    <2>1. \A T \in SUBSET Instruments : T # {} => f[Chosen(T)] = deltas[Chosen(T)] * marks[Chosen(T)]
      BY DEF Chosen, CostOn
    <2> QED BY <2>1 DEF Summing
  <1> HIDE DEF Q, f
  <1>3. (CHOOSE s : Q(s)) = (CHOOSE s : Summing(s, f, Instruments))
    BY <1>2
  <1> QED BY <1>1, <1>3, SumDefinition DEF f

LEMMA UnitsAre ==
    ASSUME RequestsAreFormed, NEW deltas
    PROVE  MapThenSumSet(LAMBDA i : deltas[i], Instruments) = SumOf(deltas, Instruments)
  BY DEF SumOf

LEMMA WithinLimit ==
    \A d, m, a \in Int : (d > 0 => m <= a) /\ (d < 0 => m >= a) => d * m <= a * d
  OBVIOUS

LEMMA FillIsApproved ==
    ASSUME RequestsAreFormed, NEW order \in OrderRecords, NEW marks \in Amounts,
           Marketable(order, marks)
    PROVE  CostIsApproved(order, NetPrice(order.deltas, marks))
  <1> DEFINE f == CostOn(order.deltas, marks)
             a == order.limit.amount
             cost == NetPrice(order.deltas, marks)
  <1>1. /\ order.deltas \in [Instruments -> Int] /\ marks \in [Instruments -> Int] /\ a \in Int
        /\ order.limit.kind \in {"NONE", "PRICE", "DEBIT", "CREDIT"}
        /\ IsFiniteSet(Instruments)
    BY DEF OrderRecords, PriceLimits, Amounts, RequestsAreFormed
  <1>2. \A i \in Instruments : f[i] = order.deltas[i] * marks[i] /\ f[i] \in Int
    BY <1>1, Distributes DEF CostOn
  <1>3. cost = SumOf(f, Instruments)
    BY NetPriceIs
  <1> HIDE DEF f
  <1>4. cost \in Int
    BY <1>1, <1>2, <1>3, SumOfParts
  <1>5. CASE order.limit.kind = "PRICE"
    <2> DEFINE g == [i \in Instruments |-> a * order.deltas[i]]
    <2>1. \A i \in Instruments :
             /\ order.deltas[i] > 0 => marks[i] <= a
             /\ order.deltas[i] < 0 => marks[i] >= a
      BY <1>5 DEF Marketable
    <2>2. \A i \in Instruments : g[i] = a * order.deltas[i] /\ g[i] \in Int
      BY <1>1, Distributes
    <2> HIDE DEF g
    <2>3. \A i \in Instruments : f[i] <= g[i]
      BY <1>1, <1>2, <2>1, <2>2, WithinLimit
    <2>4. SumOf(f, Instruments) <= SumOf(g, Instruments)
      BY <1>1, <1>2, <2>2, <2>3, SumGrows
    <2>5. SumOf(g, Instruments) = a * SumOf(order.deltas, Instruments)
      BY <1>1, <2>2, SumScales
    <2>6. cost <= a * MapThenSumSet(LAMBDA i : order.deltas[i], Instruments)
      BY <1>3, <2>4, <2>5, UnitsAre
    <2> HIDE DEF cost
    <2> QED BY <1>5, <2>6 DEF CostIsApproved, cost
  <1>6. CASE order.limit.kind = "NONE"
    BY <1>6 DEF CostIsApproved
  <1>7. CASE order.limit.kind = "DEBIT"
    <2>1. cost \in 0..a
      BY <1>7 DEF Marketable
    <2>2. cost >= 0 /\ cost <= a
      BY <1>1, <2>1
    <2> HIDE DEF cost
    <2> QED BY <1>7, <2>2 DEF CostIsApproved, cost
  <1>8. CASE order.limit.kind = "CREDIT"
    <2>1. -cost >= a
      BY <1>8 DEF Marketable
    <2>2. cost <= -a
      <3> HIDE DEF cost, a
      <3> QED BY <1>1, <1>4, <2>1
    <2> HIDE DEF cost
    <2> QED BY <1>8, <2>2 DEF CostIsApproved, cost
  <1> QED BY <1>1, <1>5, <1>6, <1>7, <1>8

-----------------------------------------------------------------------------
(* What the venue reports is applied (DrainEvent), and the receipt given    *)
(* (Reply).                                                                 *)

LEMMA DrainCancelledKeeps ==
    ASSUME RequestsAreFormed, DesktopInv, DrainEvent, NEW e \in VenueEvents,
           CancelPending(command.id, e)
    PROVE  DesktopInv'
  <1>1. PICK id : id = command.id
    OBVIOUS
  <1>2. /\ Running /\ Recorded(disk) /\ oms.connected /\ id \in DOMAIN Requests
        /\ CancelPending(id, e) /\ \A x \in oms.seen : SeenBefore(x)
        /\ command' = [phase |-> "DRAIN", id |-> id]
    <2>1. command.phase = "DRAIN" /\ command' = command
      BY DEF DrainEvent
    <2>2. command \in Ongoing
      BY <2>1, CommandsDiffer DEF DesktopInv, DesktopTypes
    <2>3. command = [phase |-> "DRAIN", id |-> id]
      BY <1>1, <2>1, <2>2 DEF Ongoing
    <2> QED BY <1>1, <2>1, <2>3, PhaseIs
  <1>3. oms \in Services /\ venue \in Venues /\ disk = Persisted(oms)
    BY <1>2 DEF Running
  <1>4. venue.events = <<e>> /\ Head(venue.events) = e /\ Tail(venue.events) = <<>>
    BY <1>2 DEF CancelPending
  <1>5. e.kind = "CANCELLED" /\ e.id = id /\ id \in DOMAIN oms.orders
    BY <1>2 DEF CancelPending
  <1>6. /\ oms' = [oms EXCEPT !.orders[id].state = "CANCELLED"]
        /\ venue' = [venue EXCEPT !.events = <<>>] /\ disk' = Persisted(oms')
        /\ UNCHANGED <<fills, clock, receipts, limits>>
    BY <1>4, <1>5 DEF DrainEvent
  <1>7. "CANCELLED" \in States
    BY DEF States
  <1>8. /\ oms' \in Services /\ DOMAIN oms'.orders = DOMAIN oms.orders
        /\ oms'.orders[id].state = "CANCELLED"
        /\ \A o \in DOMAIN oms.orders \ {id} : oms'.orders[o] = oms.orders[o]
        /\ oms'.position = oms.position /\ oms'.seen = oms.seen
        /\ oms'.connected = oms.connected
    <2>1. PICK marked : marked = oms'
      OBVIOUS
    <2>2. marked = [oms EXCEPT !.orders[id].state = "CANCELLED"]
      BY <1>6, <2>1
    <2>3. /\ marked \in Services /\ DOMAIN marked.orders = DOMAIN oms.orders
          /\ marked.orders[id] = [oms.orders[id] EXCEPT !.state = "CANCELLED"]
          /\ marked.orders[id].state = "CANCELLED"
          /\ \A o \in DOMAIN oms.orders \ {id} : marked.orders[o] = oms.orders[o]
          /\ marked.position = oms.position /\ marked.seen = oms.seen
          /\ marked.connected = oms.connected
      BY ONLY <1>3, <1>5, <1>7, <2>2, StateIs
    <2> QED BY <2>1, <2>3
  <1>9. /\ venue' \in Venues /\ venue'.orders = venue.orders /\ venue'.events = <<>>
        /\ venue'.position = venue.position /\ venue'.executions = venue.executions
    <2>1. <<>> \in Seq(VenueEvents)
      OBVIOUS
    <2> QED BY <1>3, <1>6, <2>1 DEF Venues
  <1>10. DesktopTypes' /\ FillsAreSound'
    BY <1>2, <1>6, HistoryStands DEF DesktopInv, DesktopTypes, Ongoing
  <1>11. Recorded(disk)'
    BY <1>2, <1>5, <1>6, <1>7, MarkKeepsRecord DEF CancelPending
  <1>12. \A x \in oms'.seen : SeenBefore(x)'
    BY <1>2, <1>8, <1>9 DEF SeenBefore, CancelPending
  <1>13. Quiet'
    <2>1. \A o \in DOMAIN Requests \ {id} : Agrees(o)'
      BY <1>2, <1>8, <1>9 DEF CancelPending, OthersAgree, Agrees
    <2>2. Agrees(id)'
      BY <1>2, <1>8, <1>9 DEF CancelPending, Agrees
    <2>3. venue'.position = oms'.position
      BY <1>2, <1>8, <1>9 DEF CancelPending
    <2> QED BY <1>9, <2>1, <2>2, <2>3 DEF Quiet
  <1>14. InPhase'
    BY <1>2, <1>5, <1>8, <1>12, <1>13 DEF InPhase
  <1>15. Running'
    BY <1>2, <1>6, <1>8, <1>9, <1>14, CommandsDiffer DEF Running, Ongoing
  <1> QED BY <1>10, <1>11, <1>15 DEF DesktopInv

LEMMA ReplyKeeps ==
    ASSUME RequestsAreFormed, DesktopInv, Reply
    PROVE  DesktopInv'
  <1>1. PICK id : id = command.id
    OBVIOUS
  <1>2. /\ command.phase = "DRAIN" /\ venue.events = <<>> /\ command' = Waiting
        /\ receipts' = receipts \union {[id |-> id, status |-> oms.orders[id].state]}
        /\ UNCHANGED <<clock, oms, disk, venue, fills, limits>>
    BY <1>1 DEF Reply, Receives, StatusOf
  <1>3. /\ Running /\ Recorded(disk) /\ oms.connected /\ id \in DOMAIN Requests
        /\ Quiet /\ id \in DOMAIN oms.orders
        /\ \A x \in oms.seen : SeenBefore(x)
    BY <1>1, <1>2, PhaseIs DEF FillPending, CancelPending
  <1>4. oms \in Services /\ venue \in Venues /\ disk = Persisted(oms)
    BY <1>3 DEF Running
  <1>5. oms.orders[id].state \in States
    BY <1>3, <1>4 DEF Services, OrderBooks, OrderRecords
  <1>6. DesktopTypes' /\ FillsAreSound'
    BY <1>2, <1>3, <1>5, HistoryStands DEF DesktopInv, DesktopTypes
  <1>7. Recorded(disk)'
    <2>1. PICK r : r = disk
      OBVIOUS
    <2>2. r \in Journals /\ Recorded(r) /\ r.orders = oms.orders
      BY <1>3, <1>4, <2>1 DEF Recorded, Persisted
    <2>3. ASSUME NEW q \in receipts' \ receipts
          PROVE  q.id = id /\ q.status = oms.orders[id].state
      BY <1>2, <2>3
    <2>4. Recorded(r)'
      BY <1>2, <1>3, <2>2, <2>3, RecordStands
    <2> QED BY <1>2, <2>1, <2>4 DEF Recorded
  <1>8. Quiet' /\ \A x \in oms'.seen : SeenBefore(x)'
    BY <1>2, <1>3 DEF Quiet, Agrees, SeenBefore
  <1>9. InPhase'
    BY <1>2, <1>8 DEF InPhase
  <1>10. Running'
    BY <1>2, <1>3, <1>4, <1>9, CommandsDiffer DEF Running, Persisted
  <1> QED BY <1>6, <1>7, <1>10 DEF DesktopInv

LEMMA DrainExecutionKeeps ==
    ASSUME RequestsAreFormed, DesktopInv, DrainEvent, NEW e \in VenueEvents,
           FillPending(command.id, e)
    PROVE  DesktopInv'
  <1>1. PICK id : id = command.id
    OBVIOUS
  <1>2. PICK order : order = oms.orders[id]
    OBVIOUS
  <1>3. /\ Running /\ Recorded(disk) /\ oms.connected /\ id \in DOMAIN Requests
        /\ FillPending(id, e) /\ \A x \in oms.seen : SeenBefore(x)
        /\ command' = [phase |-> "DRAIN", id |-> id]
    <2>1. command.phase = "DRAIN" /\ command' = command
      BY DEF DrainEvent
    <2>2. command \in Ongoing
      BY <2>1, CommandsDiffer DEF DesktopInv, DesktopTypes
    <2>3. command = [phase |-> "DRAIN", id |-> id]
      BY <1>1, <2>1, <2>2 DEF Ongoing
    <2> QED BY <1>1, <2>1, <2>3, PhaseIs
  <1>4. oms \in Services /\ venue \in Venues /\ disk = Persisted(oms)
    BY <1>3 DEF Running
  <1>5. /\ venue.events = <<e>> /\ Head(venue.events) = e /\ Tail(venue.events) = <<>>
        /\ e.kind = "EXECUTION" /\ e.id = id /\ e.execution \notin oms.seen
        /\ id \in DOMAIN oms.orders
    BY <1>3 DEF FillPending
  <1>6. /\ e.marks \in Amounts /\ e.execution \in ExecutionIds
    BY <1>5 DEF VenueEvents
  <1>7. /\ order \in OrderRecords /\ order.deltas \in Amounts /\ oms.position \in Amounts
        /\ oms.orders \in OrderBooks
    BY <1>2, <1>4, <1>5 DEF Services, OrderBooks, OrderRecords
  <1> DEFINE f == [id |-> id, order |-> order, at |-> e.marks]
             p == Moved(oms.position, order.deltas)
  <1>8. f \in Fills /\ f.id = id /\ f.order = order /\ f.at = e.marks
    BY <1>3, <1>6, <1>7 DEF Fills
  <1>9. p \in Amounts /\ \A i \in Instruments : p[i] = oms.position[i] + order.deltas[i]
    BY <1>7 DEF Moved, Amounts
  <1>10. /\ oms' = Executed(oms, e) /\ disk' = Persisted(oms')
         /\ venue' = [venue EXCEPT !.events = <<>>]
         /\ UNCHANGED <<clock, receipts, limits>>
         /\ fills' = [made |-> fills.made \union {f},
                      left |-> IF order.kind # "CLOSE" THEN fills.left
                               ELSE fills.left \union {oms'.position[Requests[id].deltas]}]
    BY <1>2, <1>5 DEF DrainEvent
  <1> HIDE DEF f, p
  <1> DEFINE marked == [oms EXCEPT !.orders[id].state = "FILLED"]
  <1>11. /\ marked \in Services /\ DOMAIN marked.orders = DOMAIN oms.orders
         /\ marked.orders[id] = [oms.orders[id] EXCEPT !.state = "FILLED"]
         /\ marked.orders[id].state = "FILLED"
         /\ \A o \in DOMAIN oms.orders \ {id} : marked.orders[o] = oms.orders[o]
         /\ marked.position = oms.position /\ marked.seen = oms.seen
         /\ marked.connected = oms.connected
    <2>1. "FILLED" \in States
      BY DEF States
    <2> HIDE DEF marked
    <2>2. marked = [oms EXCEPT !.orders[id].state = "FILLED"]
      BY DEF marked
    <2> QED BY ONLY <1>4, <1>5, <2>1, <2>2, StateIs
  <1>12. oms' = [marked EXCEPT !.position = p, !.seen = oms.seen \union {e.execution}]
    BY <1>2, <1>4, <1>5, <1>10 DEF Executed, Services, p
  <1> HIDE DEF marked
  <1>13. /\ oms' \in Services /\ oms'.orders = marked.orders /\ oms'.position = p
         /\ oms'.seen = oms.seen \union {e.execution} /\ oms'.connected
    BY <1>3, <1>4, <1>6, <1>9, <1>11, <1>12 DEF Services
  <1>14. /\ venue' \in Venues /\ venue'.orders = venue.orders /\ venue'.events = <<>>
         /\ venue'.position = venue.position /\ venue'.executions = venue.executions
    <2>1. <<>> \in Seq(VenueEvents)
      OBVIOUS
    <2> QED BY <1>4, <1>10, <2>1 DEF Venues
  <1>15. Marketable(order, e.marks) /\ e.marks = order.marks /\ ForClosing(id, order)
         /\ venue.position = p /\ order.state = "ACKNOWLEDGED"
    BY <1>2, <1>3 DEF FillPending, p
  <1>16. fills'.left \subseteq {0}
    <2>1. fills.left \subseteq {0}
      BY DEF DesktopInv, DesktopTypes
    <2>2. ASSUME order.kind = "CLOSE"
          PROVE  p[Requests[id].deltas] = 0
      <3>1. PICK i \in Instruments : i = Requests[id].deltas
        BY <1>3, <1>15, <2>2 DEF RequestsAreFormed, ForClosing
      <3>2. order.deltas[i] = -oms.position[i] /\ oms.position[i] \in Int
        BY <1>7, <1>15, <2>2, <3>1 DEF ForClosing, Closing, Amounts
      <3> QED BY <1>9, <3>1, <3>2
    <2> QED BY <1>10, <1>13, <2>1, <2>2
  <1>17. \A g \in fills.made : g.id # id
    <2>1. disk.orders[id].state = "ACKNOWLEDGED"
      BY <1>2, <1>4, <1>15 DEF Persisted
    <2> QED BY <1>3, <2>1 DEF Recorded
  <1>18. fills.made \subseteq Fills /\ fills'.made = fills.made \union {f} /\ f \notin fills.made
    BY <1>8, <1>10, <1>17 DEF DesktopInv, DesktopTypes
  <1>19. DesktopTypes'
    BY <1>3, <1>8, <1>10, <1>16, <1>18 DEF DesktopInv, DesktopTypes, Ongoing
  <1>20. FillsAreSound'
    <2>1. FillsAreSound
      BY DEF DesktopInv
    <2>2. IsFiniteSet(fills'.made)
      BY <1>18, <2>1, FS_AddElement DEF FillsAreSound
    <2>3. f.at = f.order.marks /\ CostIsApproved(f.order, NetPrice(f.order.deltas, f.at))
      BY <1>6, <1>7, <1>8, <1>15, FillIsApproved
    <2>4. \A g \in fills'.made :
             g.at = g.order.marks /\ CostIsApproved(g.order, NetPrice(g.order.deltas, g.at))
      BY <1>18, <2>1, <2>3 DEF FillsAreSound
    <2>5. \A g, h \in fills'.made : g.id = h.id => g = h
      BY <1>8, <1>17, <1>18, <2>1 DEF FillsAreSound
    <2> QED BY <2>2, <2>4, <2>5 DEF FillsAreSound
  <1>21. Recorded(disk)'
    <2>1. PICK s : s = disk'
      OBVIOUS
    <2>2. /\ s \in Journals /\ s.orders = marked.orders /\ s.position = p
      BY <1>10, <1>13, <2>1 DEF Persisted, Journals, Services
    <2>3. ASSUME NEW i \in Instruments
          PROVE  s.position[i] = SumOf(DeltasOn(i), fills'.made)
      <3>1. IsFiniteSet(fills.made)
        BY DEF DesktopInv, FillsAreSound
      <3>2. \A g \in Fills : DeltasOn(i)[g] = g.order.deltas[i] /\ DeltasOn(i)[g] \in Int
        BY DEF DeltasOn, Fills, OrderRecords, Amounts
      <3>3. \A g \in fills.made \union {f} : DeltasOn(i)[g] \in Int
        BY <1>8, <1>18, <3>2
      <3>4. SumOf(DeltasOn(i), fills.made \union {f})
              = SumOf(DeltasOn(i), fills.made) + DeltasOn(i)[f]
        BY <1>18, <3>1, <3>3, SumWith
      <3>5. oms.position[i] = SumOf(DeltasOn(i), fills.made)
        BY <1>3, <1>4 DEF Recorded, Persisted
      <3> QED BY <1>8, <1>9, <1>18, <2>2, <3>2, <3>4, <3>5
    <2>4. \A g \in fills'.made : g.id \in DOMAIN s.orders /\ s.orders[g.id].state = "FILLED"
      <3>1. \A g \in fills.made : g.id \in DOMAIN oms.orders /\ oms.orders[g.id].state = "FILLED"
        BY <1>3, <1>4 DEF Recorded, Persisted
      <3>2. ASSUME NEW g \in fills.made
            PROVE  g.id \in DOMAIN s.orders /\ s.orders[g.id].state = "FILLED"
        <4>1. g.id # id /\ g.id \in DOMAIN oms.orders /\ oms.orders[g.id].state = "FILLED"
          BY <1>17, <3>1, <3>2
        <4> QED BY <1>11, <2>2, <4>1
      <3>3. f.id \in DOMAIN s.orders /\ s.orders[f.id].state = "FILLED"
        BY <1>5, <1>8, <1>11, <2>2
      <3> QED BY <1>18, <3>2, <3>3
    <2>5. ASSUME NEW q \in receipts'
          PROVE  /\ q.status \in {"FILLED", "CANCELLED"} =>
                      q.id \in DOMAIN s.orders /\ s.orders[q.id].state = q.status
                 /\ q.status = "ACKNOWLEDGED" =>
                      /\ q.id \in DOMAIN s.orders
                      /\ s.orders[q.id].state \in {"ACKNOWLEDGED", "PENDING_CANCEL", "CANCELLED"}
      <3>1. /\ q \in receipts
            /\ q.status \in {"FILLED", "CANCELLED"} =>
                  q.id \in DOMAIN oms.orders /\ oms.orders[q.id].state = q.status
            /\ q.status = "ACKNOWLEDGED" =>
                  /\ q.id \in DOMAIN oms.orders
                  /\ oms.orders[q.id].state \in {"ACKNOWLEDGED", "PENDING_CANCEL", "CANCELLED"}
        BY <1>3, <1>4, <1>10 DEF Recorded, Persisted
      <3>2. CASE q.id = id
        <4>1. q.status \notin {"FILLED", "CANCELLED", "ACKNOWLEDGED"}
          BY <1>2, <1>3, <1>15, <3>1, <3>2 DEF FillPending
        <4> QED BY <4>1
      <3>3. CASE q.id # id
        BY <1>11, <2>2, <3>1, <3>3
      <3> QED BY <3>2, <3>3
    <2>6. Recorded(s)'
      BY <2>2, <2>3, <2>4, <2>5 DEF Recorded
    <2> QED BY <2>1, <2>6 DEF Recorded
  <1>22. \A x \in oms'.seen : SeenBefore(x)'
    <2>1. ASSUME NEW x \in oms.seen
          PROVE  SeenBefore(x)'
      <3>1. SeenBefore(x)
        BY <1>3, <2>1
      <3>2. CASE x.kind = "NAMED" /\ x.of = id
        <4>1. x.of \in DOMAIN oms'.orders /\ oms'.orders[x.of].state = "FILLED"
          BY <1>5, <1>11, <1>13, <3>2
        <4> QED BY <3>2, <4>1 DEF SeenBefore
      <3>3. CASE ~(x.kind = "NAMED" /\ x.of = id)
        <4>1. x.kind = "NAMED" => x.of \in DOMAIN oms.orders \ {id}
              /\ oms.orders[x.of].state = "FILLED"
          BY <3>1, <3>3 DEF SeenBefore
        <4>2. x.kind = "NAMED" => x.of \in DOMAIN oms'.orders /\ oms'.orders[x.of].state = "FILLED"
          BY <1>11, <1>13, <4>1
        <4> QED BY <1>14, <3>1, <4>2 DEF SeenBefore
      <3> QED BY <3>2, <3>3
    <2>2. SeenBefore(e.execution)'
      BY <1>3, <1>5, <1>11, <1>13, <1>14 DEF SeenBefore, FillPending
    <2> QED BY <1>13, <2>1, <2>2
  <1>23. Quiet'
    <2>1. \A o \in DOMAIN Requests \ {id} : Agrees(o)'
      BY <1>3, <1>11, <1>13, <1>14 DEF FillPending, OthersAgree, Agrees
    <2>2. Agrees(id)'
      <3>1. id \in DOMAIN venue.orders /\ venue.orders[id] = "FILLED"
        BY <1>3 DEF FillPending
      <3>2. id \in DOMAIN oms'.orders /\ oms'.orders[id].state = "FILLED"
        BY <1>5, <1>11, <1>13
      <3> QED BY <1>14, <3>1, <3>2 DEF Agrees
    <2> QED BY <1>13, <1>14, <1>15, <2>1, <2>2 DEF Quiet
  <1>24. InPhase'
    BY <1>3, <1>5, <1>11, <1>13, <1>22, <1>23 DEF InPhase
  <1>25. Running'
    BY <1>3, <1>10, <1>13, <1>14, <1>24, CommandsDiffer DEF Running, Ongoing
  <1> QED BY <1>19, <1>20, <1>21, <1>25 DEF DesktopInv

LEMMA DrainEventKeeps ==
    ASSUME RequestsAreFormed, DesktopInv, DrainEvent
    PROVE  DesktopInv'
  <1>1. command.phase = "DRAIN" /\ venue.events # <<>>
    BY DEF DrainEvent
  <1>2. \E e \in VenueEvents : FillPending(command.id, e) \/ CancelPending(command.id, e)
    BY <1>1, PhaseIs DEF Quiet
  <1> QED BY <1>2, DrainExecutionKeeps, DrainCancelledKeeps

LEMMA DesktopSteps ==
    ASSUME RequestsAreFormed, DesktopInv, [DesktopNext]_desktopVars
    PROVE  DesktopInv'
  <1>1. CASE UNCHANGED desktopVars
    <2>1. UNCHANGED <<clock, oms, disk, venue, command, receipts, fills, limits>>
      BY <1>1 DEF desktopVars
    <2>2. InPhase => InPhase'
      <3>1. \A o : Agrees(o) <=> Agrees(o)'
        BY <2>1 DEF Agrees
      <3>2. \A x : SeenBefore(x) <=> SeenBefore(x)'
        BY <2>1 DEF SeenBefore
      <3>3. \A i : Closing(i)' = Closing(i)
        BY <2>1 DEF Closing
      <3>4. Quiet => Quiet'
        BY <2>1, <3>1 DEF Quiet
      <3>5. \A id : OthersAgree(id) => OthersAgree(id)'
        BY <3>1 DEF OthersAgree
      <3>6. \A id : Submitting(id) => Submitting(id)'
        BY <2>1, <3>3, <3>5 DEF Submitting, ForClosing
      <3>7. \A id : Cancelling(id) => Cancelling(id)'
        BY <2>1, <3>5 DEF Cancelling
      <3>8. \A id, e : CancelPending(id, e) => CancelPending(id, e)'
        BY <2>1, <3>5 DEF CancelPending
      <3>9. \A id, e : FillPending(id, e) => FillPending(id, e)'
        BY <2>1, <3>3, <3>5 DEF FillPending, ForClosing
      <3> QED BY <2>1, <3>2, <3>4, <3>6, <3>7, <3>8, <3>9 DEF InPhase
    <2>3. Running => Running'
      BY <2>1, <2>2 DEF Running, Persisted
    <2>4. DesktopTypes' /\ FillsAreSound' /\ (Recorded(disk) => Recorded(disk)')
      BY <2>1 DEF DesktopInv, DesktopTypes, FillsAreSound, Recorded
    <2> QED BY <2>1, <2>3, <2>4 DEF DesktopInv, Unstarted
  <1>2. CASE DesktopNext
    <2>1. CASE Tick \/ Start \/ Stop
      BY <2>1, ProcessesKeep
    <2>2. CASE AskVenue \/ AskCancel \/ DrainEvent \/ Reply
      BY <2>2, AskVenueKeeps, AskCancelKeeps, DrainEventKeeps, ReplyKeeps
    <2>3. ASSUME NEW id \in limits.ids, CancelOrder(id)
          PROVE  DesktopInv'
      BY <2>3, CancelOrderKeeps
    <2>4. ASSUME NEW id \in limits.ids, NEW marks \in MarkSets,
                 NEW observed \in {clock - 1, clock}, NEW denied \in BOOLEAN,
                 \/ SubmitOrder(id, marks, observed, denied)
                 \/ SubmitCombination(id, marks, observed, denied)
                 \/ ClosePosition(id, marks, observed, denied)
          PROVE  DesktopInv'
      BY <2>4, SubmissionsKeep
    <2> QED BY <1>2, <2>1, <2>2, <2>3, <2>4 DEF DesktopNext
  <1> QED BY <1>1, <1>2

-----------------------------------------------------------------------------
(* The invariant implies what the operator relies on.                       *)

LEMMA HeldIs ==
    ASSUME NEW made \in SUBSET Fills, NEW i \in Instruments
    PROVE  MapThenSumSet(LAMBDA f : f.order.deltas[i], made) = SumOf(DeltasOn(i), made)
  <1> DEFINE Q(s) ==
          s = [T \in SUBSET made |->
                 IF T = {} THEN 0 ELSE Chosen(T).order.deltas[i] + s[T \ {Chosen(T)}]]
  <1>1. MapThenSumSet(LAMBDA f : f.order.deltas[i], made) = (CHOOSE s : Q(s))[made]
    BY DEF MapThenSumSet, MapThenFoldSet, Chosen
  <1>2. ASSUME NEW s
        PROVE  Q(s) <=> Summing(s, DeltasOn(i), made)
    <2>1. \A T \in SUBSET made : T # {} => DeltasOn(i)[Chosen(T)] = Chosen(T).order.deltas[i]
      BY DEF Chosen, DeltasOn
    <2> QED BY <2>1 DEF Summing
  <1> HIDE DEF Q
  <1>3. (CHOOSE s : Q(s)) = (CHOOSE s : Summing(s, DeltasOn(i), made))
    BY <1>2
  <1> QED BY <1>1, <1>3, SumDefinition

LEMMA DesktopStands ==
    ASSUME RequestsAreFormed, DesktopInv
    PROVE  DesktopOrdersStand
  <1>1. VenueAgrees
    <2>1. ASSUME command = Waiting, oms.connected
          PROVE  /\ venue.orders = [o \in DOMAIN oms.orders |-> oms.orders[o].state]
                 /\ venue.position = oms.position
      <3>1. Quiet /\ Running
        BY <2>1, RunsFromWaiting, CommandsDiffer
      <3>2. PICK ids \in SUBSET DOMAIN Requests : venue.orders \in [ids -> States]
        BY <3>1 DEF Running, Venues, VenueOrders
      <3>3. PICK jds \in SUBSET DOMAIN Requests : oms.orders \in [jds -> OrderRecords]
        BY <3>1 DEF Running, Services, OrderBooks
      <3>4. \A o \in DOMAIN Requests : o \in ids <=> o \in jds
        BY <3>1, <3>2, <3>3 DEF Quiet, Agrees
      <3>5. ids = jds /\ DOMAIN oms.orders = ids
        BY <3>3, <3>4
      <3>6. \A o \in ids : venue.orders[o] = oms.orders[o].state
        BY <3>1, <3>2, <3>5 DEF Quiet, Agrees
      <3> QED BY <3>1, <3>2, <3>5, <3>6 DEF Quiet
    <2> QED BY <2>1 DEF VenueAgrees
  <1>2. ASSUME NEW i \in Instruments
        PROVE  oms.position[i] =
                  IF command = Down THEN Flat[i]
                  ELSE MapThenSumSet(LAMBDA f : f.order.deltas[i], fills.made)
    <2>1. CASE command = Down
      <3>1. oms.position = Flat
        BY <2>1, NewServiceIs DEF DesktopInv, Running
      <3> QED BY <2>1, <3>1
    <2>2. CASE command # Down
      <3>1. Running /\ Recorded(disk)
        BY <2>2, RunsFromWaiting
      <3>2. oms.position[i] = SumOf(DeltasOn(i), fills.made)
        BY <3>1 DEF Running, Recorded, Persisted
      <3>3. fills.made \in SUBSET Fills
        BY DEF DesktopInv, DesktopTypes
      <3> QED BY <2>2, <3>2, <3>3, HeldIs
    <2> QED BY <2>1, <2>2
  <1>3. FillsAreAttested
    <2>1. fills.left \subseteq {0}
      BY DEF DesktopInv, DesktopTypes
    <2> QED BY <1>2, <2>1 DEF DesktopInv, FillsAreSound, FillsAreAttested
  <1>4. ReceiptsStand
    <2>1. CASE Unstarted
      BY <2>1 DEF Unstarted, ReceiptsStand
    <2>2. CASE Recorded(disk)
      BY <2>2 DEF Recorded, ReceiptsStand
    <2> QED BY <2>1, <2>2 DEF DesktopInv
  <1> QED BY <1>1, <1>3, <1>4 DEF DesktopOrdersStand

(* Whatever the operator asks, retries, cancels or closes, and wherever the *)
(* process ends: between commands the venue holds exactly what the service  *)
(* says; an order fills once, at the prices its own request attested and    *)
(* within its limit; a close leaves nothing; and no restart takes back what *)
(* a receipt called final (trading.rs, paper_gateway.rs).                   *)
THEOREM DesktopOrdersHold ==
    ASSUME RequestsAreFormed
    PROVE  DesktopSpec => []DesktopOrdersStand
  <1>1. DesktopInit => DesktopInv
    BY DesktopStarts
  <1>2. DesktopInv /\ [DesktopNext]_desktopVars => DesktopInv'
    BY DesktopSteps
  <1>3. DesktopInv => DesktopOrdersStand
    BY DesktopStands
  <1> QED BY <1>1, <1>2, <1>3, PTL DEF DesktopSpec
=============================================================================

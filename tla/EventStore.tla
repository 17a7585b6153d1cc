----------------------------- MODULE EventStore -----------------------------
(***************************************************************************)
(* Concurrent appends to the PostgreSQL event store                         *)
(* (adapters/persistence/postgres/src/lib.rs): one statement of append_event *)
(* is one step, writers run side by side, and a connection may be lost at   *)
(* any statement, after which its caller retries.                           *)
(*                                                                         *)
(* The database is external: READ COMMITTED, unique indexes checked in the  *)
(* order they are declared (event_id, then the aggregate sequence, then the *)
(* idempotency key), an insert waits for an uncommitted row it collides     *)
(* with, and an advisory lock is held to the end of its transaction.        *)
(* claim_outbox and mark_outbox_delivered have no action: their statements  *)
(* join two words across a continued line, the database refuses both, and   *)
(* the transactions change nothing.                                         *)
(***************************************************************************)
EXTENDS Naturals, Sequences, FiniteSetsExt

CONSTANTS Writers, EventIds, Keys, Aggregates, Bodies,
          MaxCalls      \* bound: appends attempted

VARIABLES domainEvents, \* committed rows
          outbox,       \* committed messages, by the event they carry
          writers,      \* the transaction of each connection
          answers       \* every answer append_event gave, in the order given

eventVars == <<domainEvents, outbox, writers, answers>>

(* An append names its event, its idempotency key, its aggregate and its    *)
(* content; a row also holds the sequence number it got.                    *)
Events == [id : EventIds, key : Keys, aggregate : Aggregates, body : Bodies]

Row(event, sequence) == [event |-> event, sequence |-> sequence]

Idle == [pc |-> "idle"]

Open(event) == [pc |-> "check", event |-> event]

Init ==
    /\ domainEvents = {} /\ outbox = {}
    /\ writers = [w \in Writers |-> Idle]
    /\ answers = <<>>

Calls == Len(answers) + Cardinality({w \in Writers : writers[w].pc # "idle"})

SameRequest(a, b) == a.aggregate = b.aggregate /\ a.body = b.body

RowsOf(aggregate) == {r \in domainEvents : r.event.aggregate = aggregate}

(* The rows other transactions have inserted and not committed.             *)
Uncommitted(w) ==
    {Row(writers[v].event, writers[v].sequence) :
        v \in {v \in Writers \ {w} : writers[v].pc \in {"outbox", "commit"}}}

HoldsLock(w) == writers[w].pc \in {"sequence", "insert", "recover", "outbox", "commit"}

-----------------------------------------------------------------------------
(* The transaction ends: its locks and uncommitted rows are gone.           *)
Answer(w, kind, sequence) ==
    /\ answers' = Append(answers, [event |-> writers[w].event, kind |-> kind,
                                   sequence |-> sequence])
    /\ writers' = [writers EXCEPT ![w] = Idle]

Goto(w, pc) == writers' = [writers EXCEPT ![w].pc = pc]

(* idempotent_outcome over the committed row of the key.                    *)
Reconcile(w, row) ==
    IF SameRequest(row.event, writers[w].event)
    THEN Answer(w, "known", row.sequence)
    ELSE Answer(w, "reused", 0)

KeyRows(w) == {r \in domainEvents : r.event.key = writers[w].event.key}

Begin(w, event) ==
    /\ writers[w].pc = "idle" /\ Calls < MaxCalls
    /\ writers' = [writers EXCEPT ![w] = Open(event)]
    /\ UNCHANGED <<domainEvents, outbox, answers>>

(* The idempotency pre-check.                                               *)
PreCheck(w) ==
    /\ writers[w].pc = "check"
    /\ IF KeyRows(w) = {} THEN Goto(w, "lock") /\ UNCHANGED answers
       ELSE \E row \in KeyRows(w) : Reconcile(w, row)
    /\ UNCHANGED <<domainEvents, outbox>>

(* pg_advisory_xact_lock.                                                   *)
LockAggregate(w) ==
    /\ writers[w].pc = "lock"
    /\ \A v \in Writers \ {w} :
          HoldsLock(v) => writers[v].event.aggregate # writers[w].event.aggregate
    /\ Goto(w, "sequence")
    /\ UNCHANGED <<domainEvents, outbox, answers>>

(* COALESCE(MAX(aggregate_sequence), 0) + 1 over the committed rows.        *)
AssignSequence(w) ==
    /\ writers[w].pc = "sequence"
    /\ LET rows == RowsOf(writers[w].event.aggregate) IN
       writers' = [writers EXCEPT ![w] =
           [pc |-> "insert", event |-> @.event,
            sequence |-> Max({r.sequence : r \in rows} \union {0}) + 1]]
    /\ UNCHANGED <<domainEvents, outbox, answers>>

SameId(w, r) == r.event.id = writers[w].event.id
SameSequence(w, r) ==
    r.event.aggregate = writers[w].event.aggregate /\ r.sequence = writers[w].sequence
SameKey(w, r) == r.event.key = writers[w].event.key

Collides(w, r) == SameId(w, r) \/ SameSequence(w, r) \/ SameKey(w, r)

(* is_idempotency_key_conflict: the first violated index is reported.       *)
AfterConflict(w) ==
    IF \E r \in domainEvents : SameId(w, r) \/ SameSequence(w, r)
    THEN Answer(w, "error", 0)
    ELSE Goto(w, "recover") /\ UNCHANGED answers

(* The insert under its savepoint.                                          *)
Insert(w) ==
    /\ writers[w].pc = "insert"
    /\ \A r \in Uncommitted(w) : ~Collides(w, r)
    /\ IF \E r \in domainEvents : Collides(w, r) THEN AfterConflict(w)
       ELSE Goto(w, "outbox") /\ UNCHANGED answers
    /\ UNCHANGED <<domainEvents, outbox>>

(* The loser of the race reads the row the winner committed.                *)
RecoverKey(w) ==
    /\ writers[w].pc = "recover"
    /\ IF KeyRows(w) = {} THEN Answer(w, "error", 0)
       ELSE \E row \in KeyRows(w) : Reconcile(w, row)
    /\ UNCHANGED <<domainEvents, outbox>>

(* The outbox message is inserted by the transaction that inserted the row. *)
InsertMessage(w) ==
    /\ writers[w].pc = "outbox"
    /\ Goto(w, "commit")
    /\ UNCHANGED <<domainEvents, outbox, answers>>

(* Faulty: the message is committed by a transaction of its own, which a    *)
(* lost connection leaves out.                                              *)
CommitRowAlone(w) ==
    /\ writers[w].pc = "commit"
    /\ domainEvents' = domainEvents \union {Row(writers[w].event, writers[w].sequence)}
    /\ \/ outbox' = outbox \union {writers[w].event.id}
       \/ UNCHANGED outbox
    /\ Answer(w, "inserted", writers[w].sequence)

Commit(w) ==
    /\ writers[w].pc = "commit"
    /\ domainEvents' = domainEvents \union {Row(writers[w].event, writers[w].sequence)}
    /\ outbox' = outbox \union {writers[w].event.id}
    /\ \/ Answer(w, "inserted", writers[w].sequence)
       \/ Answer(w, "lost", 0)

(* The connection is lost before the commit: everything is rolled back.     *)
LoseConnection(w) ==
    /\ writers[w].pc # "idle"
    /\ Answer(w, "lost", 0)
    /\ UNCHANGED <<domainEvents, outbox>>

Next ==
    \E w \in Writers :
       \/ \E e \in Events : Begin(w, e)
       \/ PreCheck(w) \/ LockAggregate(w) \/ AssignSequence(w) \/ Insert(w)
       \/ RecoverKey(w) \/ InsertMessage(w) \/ Commit(w) \/ LoseConnection(w)

Spec == Init /\ [][Next]_eventVars

-----------------------------------------------------------------------------
TypeOK ==
    /\ domainEvents \subseteq [event : Events, sequence : 1..MaxCalls]
    /\ outbox \subseteq EventIds
    /\ \A w \in Writers :
          \/ writers[w] = Idle
          \/ /\ writers[w].event \in Events
             /\ writers[w].pc \in {"check", "lock", "sequence", "insert", "recover",
                                   "outbox", "commit"}
    /\ \A i \in 1..Len(answers) :
          answers[i].kind \in {"inserted", "known", "reused", "error", "lost"}

(* Whatever the writers race on, the committed rows of an aggregate are     *)
(* numbered 1..n without a gap, an event and a key stand for one row, and   *)
(* every row has its message (append_event).                                *)
EventsAreOrdered ==
    /\ \A a \in Aggregates :
          {r.sequence : r \in RowsOf(a)} = 1..Cardinality(RowsOf(a))
    /\ \A r, s \in domainEvents :
          r # s => r.event.id # s.event.id /\ r.event.key # s.event.key
    /\ outbox = {r.event.id : r \in domainEvents}

(* An answer tells the caller what the table holds: "inserted" is said once *)
(* for a key, "known" names the row of an equal request, "reused" means the *)
(* key belongs to another request, and a hard error that an event identity  *)
(* is taken, never that a race for a key or a number was lost               *)
(* (idempotent_outcome, is_idempotency_key_conflict).                       *)
AnswersAreTruthful ==
    \A i \in 1..Len(answers) :
       LET a == answers[i]
           held == {r \in domainEvents : r.event.key = a.event.key}
       IN  /\ a.kind \in {"inserted", "known"} =>
                 \E r \in held : SameRequest(r.event, a.event) /\ r.sequence = a.sequence
           /\ a.kind = "inserted" =>
                 \A j \in 1..Len(answers) :
                    j # i /\ answers[j].event.key = a.event.key => answers[j].kind # "inserted"
           /\ a.kind = "reused" => \E r \in held : ~SameRequest(r.event, a.event)
           /\ a.kind = "error" => \E r \in domainEvents : r.event.id = a.event.id

(* The two together: the table and what its writers were told of it.        *)
AppendsAreHonest == EventsAreOrdered /\ AnswersAreTruthful
=============================================================================

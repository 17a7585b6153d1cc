----------------------------- MODULE GapRepair ------------------------------
(***************************************************************************)
(* A recorded quote stream: the feed-quality monitor that watches it        *)
(* (core/market-data/src/lib.rs), and the repair of its gaps from recovery  *)
(* batches (core/market-data/src/gap_repair.rs,                             *)
(* apps/cli/src/repair_quotes.rs).  The provider's quotes are lost,         *)
(* reordered and delivered again on their way.  One instrument: repair      *)
(* never relates the quotes of two.                                         *)
(***************************************************************************)
EXTENDS Naturals, FiniteSets, FiniteSetsExt

CONSTANTS Quotes,       \* quotes that may arrive: records of a sequence, an id, a time
          MaxArrivals,  \* bound: quotes observed
          MaxRepairs    \* bound: repairs made one after another

VARIABLES monitor,   \* FeedQualityMonitor, and history: sequences it declared missing
          recording     \* the recording, its repaired form, and history: what was supplied

gapVars == <<monitor, recording>>

GapsInit ==
    /\ monitor = [last |-> 0, first |-> 0, ids |-> {}, declared |-> {}, arrivals |-> 0]
    /\ recording = [recorded |-> {}, repaired |-> {}, supplied |-> {}, repairs |-> 0]

-----------------------------------------------------------------------------
Skips(quote) == monitor.last > 0 /\ quote.sequence > monitor.last + 1

(* The status of a quote; aged: it is stale or delayed beyond the policy.   *)
Status(quote, aged) ==
    CASE quote.id \in monitor.ids -> "DUPLICATE"
      [] OTHER ->
           IF monitor.last >= quote.sequence THEN "OUT_OF_ORDER"
           ELSE IF Skips(quote) THEN "SEQUENCE_GAP"
           ELSE IF aged THEN "STALE" ELSE "HEALTHY"

(* FeedQualityMonitor::observe; the quote is recorded whatever its status.  *)
Observe(quote, aged) ==
    LET status == Status(quote, aged)
    IN  /\ monitor.arrivals < MaxArrivals /\ recording.repairs = 0
        /\ monitor' =
             [last |-> IF status \in {"DUPLICATE", "OUT_OF_ORDER"} THEN monitor.last
                       ELSE quote.sequence,
              first |-> IF monitor.first = 0 THEN quote.sequence ELSE monitor.first,
              ids |-> monitor.ids \union {quote.id},
              declared |-> monitor.declared \union
                             IF status = "SEQUENCE_GAP"
                             THEN (monitor.last + 1)..(quote.sequence - 1) ELSE {},
              arrivals |-> monitor.arrivals + 1]
        /\ recording' = [recording EXCEPT !.recorded = @ \union {quote},
                                    !.repaired = @ \union {quote}]

-----------------------------------------------------------------------------
(* index_quotes: a re-delivery is the same quote.                           *)
Indexable(quotes) ==
    \A q, r \in quotes : q # r => q.sequence # r.sequence /\ q.id # r.id

Sequences(quotes) == {q.sequence : q \in quotes}

(* gaps_of: what is missing strictly between recorded sequences.            *)
Missing(quotes) == (Min(Sequences(quotes))..Max(Sequences(quotes))) \ Sequences(quotes)

Adjacent(quotes, q, r) ==
    /\ q.sequence < r.sequence
    /\ \A s \in quotes : ~(q.sequence < s.sequence /\ s.sequence < r.sequence)

(* Faulty: a recovered quote is compared with its recorded neighbours only. *)
InOrderOfRecorded(recorded, recovered) ==
    \A q, r \in recorded \union recovered :
        Cardinality({q, r} \intersect recovered) = 1 /\ Adjacent(recorded \union {q, r}, q, r)
            => q.time <= r.time

(* A recovered quote sits between its merged neighbours in event time.      *)
InOrder(recorded, recovered) ==
    \A q, r \in recorded \union recovered :
        {q, r} \intersect recovered # {} /\ Adjacent(recorded \union recovered, q, r)
            => q.time <= r.time

(* repair_quote_gaps accepts a batch whole or refuses it whole.             *)
Accepts(recorded, batch) ==
    LET recovered == batch \ recorded
    IN  /\ recorded # {} /\ Indexable(recorded) /\ Indexable(batch)
        /\ \A b \in recovered, r \in recorded : b.sequence # r.sequence /\ b.id # r.id
        /\ \A b \in recovered : b.sequence \in Missing(recorded)
        /\ InOrder(recorded, recovered)

(* Each repair reads the stream the one before it wrote.                    *)
Repair(batch) ==
    /\ recording.repairs < MaxRepairs
    /\ Accepts(recording.repaired, batch)
    /\ recording' = [recording EXCEPT !.repaired = @ \union batch, !.supplied = @ \union batch,
                                !.repairs = @ + 1]
    /\ UNCHANGED monitor

GapsNext ==
    \/ \E quote \in Quotes, aged \in BOOLEAN : Observe(quote, aged)
    \/ \E batch \in SUBSET Quotes : Repair(batch)

GapsSpec == GapsInit /\ [][GapsNext]_gapVars

-----------------------------------------------------------------------------
GapsTypeOK ==
    /\ monitor.last \in Nat /\ monitor.first \in Nat /\ monitor.declared \subseteq Nat
    /\ recording.recorded \subseteq Quotes
    /\ recording.repaired = recording.recorded \union recording.supplied
    /\ monitor.arrivals \in 0..MaxArrivals /\ recording.repairs \in 0..MaxRepairs

(* Whatever was lost, reordered or delivered twice, a sequence missing from *)
(* the recording after the first quote observed was declared when it was    *)
(* skipped, however old the quote that skipped it.                          *)
GapsAreDeclared ==
    recording.recorded # {} /\ Indexable(recording.recorded) =>
        \A n \in Missing(recording.recorded) : n > monitor.first => n \in monitor.declared

(* Repairing in several batches comes to what one batch of them all comes   *)
(* to: the same batches are accepted, and the same gaps are left.           *)
RepairsCompose ==
    recording.repairs > 0 =>
        /\ Accepts(recording.recorded, recording.supplied)
        /\ \A batch \in SUBSET Quotes :
              Accepts(recording.repaired, batch)
                <=> Accepts(recording.recorded, recording.supplied \union batch)

(* The two together: no gap of a recording is overlooked when it opens or   *)
(* miscounted while it is repaired.                                         *)
GapsAreKnown == GapsAreDeclared /\ RepairsCompose
=============================================================================

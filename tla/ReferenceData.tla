---------------------------- MODULE ReferenceData ----------------------------
(***************************************************************************)
(* What a research run looks up as of an instant: the versions of an        *)
(* instrument and the sessions it trades in (core/instrument/src/lib.rs),   *)
(* the universe it belongs to (core/backtest/src/lib.rs), the terms of the  *)
(* account (apps/cli/src/backtest.rs) and foreign exchange (core/fx/src/    *)
(* lib.rs, core/accounting/src/lib.rs, apps/cli/src/fx.rs).                 *)
(*                                                                         *)
(* A document is a sequence of rows, each a record with a kind; instants    *)
(* are numbers, and what has no end ends after all of them.                 *)
(***************************************************************************)
EXTENDS Integers, Sequences, FiniteSets, SequencesExt

Refused == [kind |-> "REFUSED"]
Missing == [kind |-> "MISSING"]

RowsOf(document, kind) == SelectSeq(document, LAMBDA r : r.kind = kind)
AnyTwo(rows, Clash(_, _)) ==
    \E i, j \in DOMAIN rows : i < j /\ (Clash(rows[i], rows[j]) \/ Clash(rows[j], rows[i]))
Within(range, t) == range.from <= t /\ t < range.to
Positive(ranges) == \A i \in DOMAIN ranges : ranges[i].from < ranges[i].to
Meet(r, s) == r.from < s.to /\ s.from < r.to

(* The elements of a set, each after those before it.                       *)
InOrder(set, Before(_, _)) ==
    [n \in 1..Cardinality(set) |->
        CHOOSE x \in set : Cardinality({y \in set : Before(y, x)}) = n - 1]

-----------------------------------------------------------------------------
Overlaps(v, w) == v.instrument = w.instrument /\ v.to > w.from /\ w.to > v.from

(* InstrumentRegistry::register, of every version of a document in turn.    *)
Registers(versions) == Positive(versions) /\ ~AnyTwo(versions, Overlaps)

(* resolve: the first in order of from that applies.                        *)
Resolve(versions, instrument, t) ==
    LET applying == {v \in Range(versions) : v.instrument = instrument /\ Within(v, t)}
    IN  IF applying = {} THEN Missing
        ELSE CHOOSE v \in applying : \A w \in applying : v.from <= w.from

(* StaticTradingCalendar::new_with_halts.                                   *)
CalendarHolds(sessions, halts) ==
    /\ sessions # <<>> /\ Positive(sessions) /\ ~AnyTwo(sessions, Meet)
    /\ Positive(halts)
    /\ ~AnyTwo(halts, LAMBDA g, h : g.id = h.id \/ (g.scope = h.scope /\ Meet(g, h)))
    /\ \A h \in Range(halts) : \E s \in Range(sessions) : s.from <= h.from /\ h.to <= s.to

(* is_instrument_open_at; the scope of a halt is the instruments it names.  *)
OpenAt(sessions, halts, instrument, t) ==
    /\ \E s \in Range(sessions) : Within(s, t)
    /\ ~\E h \in Range(halts) : instrument \in h.scope /\ Within(h, t)

(* validate_point_in_time_universe of one bar.                              *)
MembershipsHold(periods) ==
    /\ Positive(periods)
    /\ ~AnyTwo(periods, LAMBDA p, q : p.instrument = q.instrument /\ Meet(p, q))
Covered(periods, instrument, t) ==
    \E p \in Range(periods) : p.instrument = instrument /\ Within(p, t)

-----------------------------------------------------------------------------
(* conservative_advanced_account_runtime: one version of each instrument.   *)
DefaultTermsHold(versions) == ~AnyTwo(versions, LAMBDA v, w : v.instrument = w.instrument)

(* advanced_account_runtime: what the document says last of an instrument   *)
(* is what its terms must repeat.                                           *)
LastVersion(versions, instrument) ==
    versions[SelectLastInSeq(versions, LAMBDA v : v.instrument = instrument)]

TermsHold(versions, terms) ==
    /\ ~AnyTwo(terms, LAMBDA s, u : s.instrument = u.instrument)
    /\ {s.instrument : s \in Range(terms)} = {v.instrument : v \in Range(versions)}
    /\ \A s \in Range(terms) : s.multiplier = LastVersion(versions, s.instrument).multiplier

(* Lifecycle events in the order they take effect, ties as declared.        *)
Lifecycle(events) ==
    LET first(i, j) == events[i].at < events[j].at \/ (events[i].at = events[j].at /\ i < j)
        order == InOrder(DOMAIN events, first)
    IN  [n \in DOMAIN events |-> events[order[n]]]

(* load_runtime_configuration, and the memberships a universe is given.     *)
ConfigurationLoads(document) ==
    LET versions == RowsOf(document, "VERSION")
        terms == RowsOf(document, "TERMS")
        events == RowsOf(document, "LIFECYCLE")
    IN  /\ CalendarHolds(RowsOf(document, "SESSION"), RowsOf(document, "HALT"))
        /\ versions # <<>> /\ Registers(versions)
        /\ IF terms = <<>> THEN DefaultTermsHold(versions) /\ events = <<>>
           ELSE TermsHold(versions, terms)
        /\ ~AnyTwo(events, LAMBDA e, f : e.id = f.id)
        /\ MembershipsHold(RowsOf(document, "MEMBERSHIP"))

(* MarketPreconditions::validate of an event, and the terms the account     *)
(* values it by.                                                            *)
ReferenceAt(document, instrument, t) ==
    LET versions == RowsOf(document, "VERSION")
        terms == RowsOf(document, "TERMS")
    IN  IF ~ConfigurationLoads(document) THEN Refused
        ELSE [kind |-> "REFERENCE", version |-> Resolve(versions, instrument, t),
              open |-> OpenAt(RowsOf(document, "SESSION"), RowsOf(document, "HALT"),
                              instrument, t),
              covered |-> Covered(RowsOf(document, "MEMBERSHIP"), instrument, t),
              account |-> IF terms = <<>> THEN Range(versions) ELSE Range(terms),
              lifecycle |-> Lifecycle(RowsOf(document, "LIFECYCLE"))]

-----------------------------------------------------------------------------
(* FxPricingSnapshot: prices is by value date, one of an outright and two   *)
(* of a swap.                                                               *)
SnapshotHolds(s) ==
    /\ s.sourced <= s.received
    /\ \A d \in DOMAIN s.prices : 0 < s.prices[d].bid /\ s.prices[d].bid <= s.prices[d].ask
    /\ Cardinality(DOMAIN s.prices) = IF s.product = "SWAP" THEN 2 ELSE 1

(* FxPricingBook::from_snapshots, after load_runtime.                       *)
PricingHolds(snapshots) ==
    /\ \A s \in Range(snapshots) : SnapshotHolds(s)
    /\ ~AnyTwo(snapshots, LAMBDA s, u :
          \/ s.id = u.id
          \/ s.instrument = u.instrument /\ s.source = u.source /\ s.sequence = u.sequence)

(* ensure_fresh of either book.                                             *)
Fresh(observed, at, age) == at - observed \in 0..age

Later(s, u) ==
    LET key(w) == <<w.received, w.sourced, w.sequence, w.id>>
    IN  \E n \in 1..4 : key(s)[n] > key(u)[n] /\ \A m \in 1..(n - 1) : key(s)[m] = key(u)[m]

(* FxPricingBook::midpoint_at, as evaluate_queries reports it.              *)
PriceAt(snapshots, q) ==
    LET eligible == {s \in Range(snapshots) :
                        /\ s.instrument = q.instrument /\ s.product = q.product
                        /\ q.date \in DOMAIN s.prices /\ Fresh(s.received, q.at, q.age)}
        latest == CHOOSE s \in eligible : \A u \in eligible \ {s} : Later(s, u)
        price == latest.prices[q.date]
    IN  IF ~PricingHolds(snapshots) THEN Refused
        ELSE IF eligible = {} THEN Missing
        ELSE [kind |-> "PRICE", snapshot |-> latest.id, received |-> latest.received,
              midpoint |-> (price.bid + price.ask) \div 2]

(* FxBook: the last rate declared for a pair, by multiplication or, if the  *)
(* pair is declared the other way round only, by division.                  *)
RateOf(rates, base, quote) ==
    LET n == SelectLastInSeq(rates, LAMBDA r : r.base = base /\ r.quote = quote)
    IN  IF n = 0 THEN Missing ELSE rates[n]
Convert(rates, q, unit) ==
    LET direct == RateOf(rates, q.base, q.quote)
        inverse == RateOf(rates, q.quote, q.base)
        used == IF direct # Missing THEN direct ELSE inverse
    IN  IF used = Missing \/ ~Fresh(used.observed, q.at, q.age) THEN Missing
        ELSE [kind |-> "AMOUNT", observed |-> used.observed,
              amount |-> IF used = direct THEN (q.amount * used.rate) \div unit
                         ELSE (q.amount * unit) \div used.rate]
=============================================================================

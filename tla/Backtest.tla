------------------------------ MODULE Backtest ------------------------------
(***************************************************************************)
(* A replay: the simulated engine of core/control-plane/src/lib.rs          *)
(* (ReplayEngine, RiskPolicy, DeterministicFillModel, Portfolio, the        *)
(* strategy worker's service snapshot) under one of its two drivers: the    *)
(* backtest runner of core/backtest/src/lib.rs with its ledger and the FIFO *)
(* tax lots of core/accounting/src/lib.rs, or a replay of news.             *)
(*                                                                         *)
(* One instrument, one account.  A decimal is an integer of 1/Scale, and a  *)
(* product or a quotient drops what is below that, as `Decimal` does.  The  *)
(* strategy is not trusted: any request may follow any bar.  An error ends  *)
(* the replay: the runner is spent, and what it had built is dropped.       *)
(***************************************************************************)
EXTENDS Integers, Sequences, SequencesExt

CONSTANTS Scale,         \* units of a decimal
          Intents,       \* the intent identities a strategy uses, ordered
          Requests,      \* what it can ask: side, order type, limit, quantity
          MarketBars,    \* the bars of the dataset, each with its lot size
          Ratios,        \* the split ratios of the dataset
          Payouts,       \* the cash dividends of the dataset
          LatencyBars,   \* fill_model.latency_bars
          FillCap,       \* fill_model.max_fill_quantity, 0 for none
          FlatFee,       \* fill_model.flat_fee
          Slippage,      \* the adverse price adjustment
          QuantityLimit, \* policy.max_quantity
          PriceCollar,   \* policy.max_price_deviation_bps, as a distance
          Headlines,     \* the identities of headlines
          Vectors,       \* the identities of sentiment vectors
          OpeningCash,   \* initial cash of the ledger and of the worker
          MaxBars,       \* bound: bars of the dataset
          MaxActions     \* bound: corporate actions of the dataset

VARIABLES driver,    \* "BACKTEST" or "NEWS"
          replayed,  \* "running", "failed" or "complete"
          engine,    \* the replay engine
          ledger,    \* the runner's ledger
          snapshot,  \* the services the strategy worker is handed
          stream     \* the event stream: intents, order states and fills

backtestVars == <<driver, replayed, engine, ledger, snapshot, stream>>

-----------------------------------------------------------------------------
Mul(a, b) == (a * b) \div Scale
Div(a, b) == (a * Scale) \div b
Least(a, b) == IF a <= b THEN a ELSE b
Most(a, b) == IF a >= b THEN a ELSE b
Distance(a, b) == IF a >= b THEN a - b ELSE b - a
OnGrid(value, increment) == value % increment = 0

(* A working order: `born` is the bar it was decided on.                    *)
Order(request, eligible, born) ==
    [request |-> request, remaining |-> request.quantity, eligible |-> eligible,
     fills |-> 0, state |-> "ACKNOWLEDGED", born |-> born]

Without(working, i) == [j \in DOMAIN working \ {i} |-> working[j]]
With(working, i, order) ==
    [j \in DOMAIN working \union {i} |-> IF j = i THEN order ELSE working[j]]

-----------------------------------------------------------------------------
(* RiskPolicy::evaluate_with_reference; a request is asked for on a bar.    *)
Approves(request, bar) ==
    /\ request.quantity <= QuantityLimit
    /\ OnGrid(request.quantity, bar.lot)
    /\ request.type = "LIMIT" =>
         /\ Distance(request.limit, bar.close) <= PriceCollar
         /\ OnGrid(request.limit, bar.tick)

(* DeterministicFillModel::fill_quantity: the price against the trader, on  *)
(* the tick grid.  A base price of 0: this bar does not reach the limit.     *)
BasePrice(request, bar) ==
    CASE request.type = "MARKET" -> bar.close
      [] request.type = "LIMIT" /\ request.side = "BUY" ->
            IF bar.low <= request.limit THEN Least(bar.close, request.limit) ELSE 0
      [] request.type = "LIMIT" /\ request.side = "SELL" ->
            IF bar.high >= request.limit THEN Most(bar.close, request.limit) ELSE 0

Rounded(price, side, tick) ==
    IF OnGrid(price, tick) \/ side = "SELL" THEN price - (price % tick)
    ELSE price - (price % tick) + tick

FillPrice(request, bar) ==
    Rounded(BasePrice(request, bar) + IF request.side = "BUY" THEN Slippage ELSE -Slippage,
            request.side, bar.tick)

Misses(request, bar) ==
    \/ BasePrice(request, bar) = 0
    \/ /\ request.type = "LIMIT"
       /\ IF request.side = "BUY" THEN FillPrice(request, bar) > request.limit
                                  ELSE FillPrice(request, bar) < request.limit

-----------------------------------------------------------------------------
(* Portfolio::apply_fill, BacktestLedger::apply_fill and                    *)
(* WorkerRuntimeServices::apply_execution.                                  *)
Bought(book, fill) ==
    LET cost == Mul(book.cost, book.quantity) + Mul(fill.price, fill.quantity) + FlatFee
    IN  [book EXCEPT !.quantity = @ + fill.quantity,
                     !.cost = Div(cost, book.quantity + fill.quantity)]

Sold(book, fill) ==
    [book EXCEPT !.quantity = @ - fill.quantity,
                 !.cost = IF fill.quantity = book.quantity THEN 0 ELSE @]

CanBook(book, fill) == fill.side = "SELL" => fill.quantity <= book.quantity

Booked(book, fill) == IF fill.side = "BUY" THEN Bought(book, fill) ELSE Sold(book, fill)

CashAfter(cash, fill) ==
    IF fill.side = "BUY" THEN cash - (Mul(fill.price, fill.quantity) + FlatFee)
    ELSE cash + (Mul(fill.price, fill.quantity) - FlatFee)

(* TaxLotBook::acquire and dispose, oldest lot first.                       *)
Total(lots) == FoldLeft(LAMBDA sum, lot : sum + lot.quantity, 0, lots)

IsOpen(lot) == lot.quantity > 0

Acquired(lots, fill) ==
    Append(lots, [quantity |-> fill.quantity,
                  cost |-> Div(Mul(fill.price, fill.quantity) + FlatFee, fill.quantity)])

Disposed(lots, quantity) ==
    LET taken(k) == Total(SubSeq(lots, 1, k))
    IN  SelectSeq([k \in DOMAIN lots |->
                     [lots[k] EXCEPT !.quantity =
                        @ - Least(@, Most(0, quantity - taken(k - 1)))]], IsOpen)

(* Faulty: each lot is scaled and rounded down on its own.                  *)
SplitLotsAlone(lots, ratio) ==
    SelectSeq([k \in DOMAIN lots |->
                 [quantity |-> Mul(lots[k].quantity, ratio),
                  cost |-> Div(lots[k].cost, ratio)]], IsOpen)

(* split_lots: the newest lot takes what rounding each one down lost.       *)
SplitLots(lots, ratio) ==
    LET scaled == [k \in DOMAIN lots |->
                     [quantity |-> Mul(lots[k].quantity, ratio),
                      cost |-> Div(lots[k].cost, ratio)]]
        shortfall == Mul(Total(lots), ratio) - Total(scaled)
    IN  SelectSeq([k \in DOMAIN lots |->
                     IF k = Len(lots) THEN [scaled[k] EXCEPT !.quantity = @ + shortfall]
                                      ELSE scaled[k]], IsOpen)

-----------------------------------------------------------------------------
(* One call of the engine works on what it changes: its own state, the      *)
(* strategy's snapshot, the stream, and whether it has failed.              *)
Call == [engine |-> engine, snapshot |-> snapshot, stream |-> stream, ok |-> TRUE]

Failed(r) == [r EXCEPT !.ok = FALSE]

Emit(r, type, i) ==
    [r EXCEPT !.stream = Append(@, [type |-> type, order |-> i, bar |-> r.engine.bar])]

(* Once part of an order has filled, its executions are numbered.           *)
ExecutionOf(w, i, quantity) ==
    IF w.fills = 0 /\ quantity = w.request.quantity THEN <<i, 0>> ELSE <<i, w.fills + 1>>

StateAfterFill(w, quantity) ==
    IF quantity = w.remaining THEN "FILLED" ELSE "PARTIALLY_FILLED"

Offered(w) == IF FillCap = 0 THEN w.remaining ELSE Least(w.remaining, FillCap)

(* The lot or the tick in force changed under the working order.            *)
OffGrid(w, bar) ==
    \/ ~OnGrid(Offered(w), bar.lot)
    \/ w.request.type = "LIMIT" /\ ~OnGrid(w.request.limit, bar.tick)

FillOf(w, i, bar) ==
    [execution |-> ExecutionOf(w, i, Offered(w)), order |-> i, side |-> w.request.side,
     quantity |-> Offered(w), price |-> FillPrice(w.request, bar)]

(* attempt_simulated_fill; a bar that misses the order leaves it as it is.  *)
AttemptFill(bar, r, i) ==
    LET w == r.engine.working[i]
        fill == FillOf(w, i, bar)
        state == StateAfterFill(w, fill.quantity)
        left == [w EXCEPT !.remaining = @ - fill.quantity, !.fills = @ + 1, !.state = state]
        told == IF state = w.state THEN r ELSE Emit(r, state, i)
        book == Booked(r.engine.book, fill)
    IN  IF ~r.ok \/ OffGrid(w, bar) THEN Failed(r)
        ELSE IF BasePrice(w.request, bar) # 0 /\ fill.price <= 0 THEN Failed(r)
        ELSE IF Misses(w.request, bar) THEN r
        ELSE IF ~CanBook(r.engine.book, fill) THEN Failed(r)
        ELSE [told EXCEPT
                !.engine.working = IF left.remaining = 0 THEN Without(@, i) ELSE With(@, i, left),
                !.engine.book = book,
                !.snapshot = [cash |-> CashAfter(@.cash, fill), quantity |-> book.quantity,
                              mark |-> fill.price],
                !.stream = Append(@, [type |-> "FILL", order |-> i, bar |-> r.engine.bar,
                                      source |-> bar, fill |-> fill])]

(* The orders that were working before the strategy sees the bar.           *)
Eligible(e) ==
    SetToSortSeq({i \in DOMAIN e.working : e.working[i].eligible <= e.bar},
                 LAMBDA i, j : i < j)

FillWorking(bar, r) ==
    FoldLeft(LAMBDA acc, i : AttemptFill(bar, acc, i), r, Eligible(r.engine))

(* A bar-driven order never trades on the bar the strategy decided on.      *)
EligibleFrom(fromNews, bar) ==
    bar + IF fromNews THEN LatencyBars ELSE Most(LatencyBars, 1)

(* The strategy's answer: nothing, an error, or a request under an intent.  *)
Answers ==
    {[type |-> "NONE"], [type |-> "ERROR"]}
        \union [type : {"INTENT"}, intent : Intents, request : Requests]

(* require_whole_lot_fill_cap.                                              *)
CapFits(bar) == FillCap # 0 => OnGrid(FillCap, bar.lot)

Places(r, answer, bar, approved, fromNews) ==
    LET i == answer.intent
        asked == Emit(r, IF fromNews THEN "NEWS_INTENT" ELSE "INTENT", i)
        order == Order(answer.request, EligibleFrom(fromNews, r.engine.bar), r.engine.bar)
        placed == [Emit(asked, "ACKNOWLEDGED", i) EXCEPT
                     !.engine.working = With(@, i, order)]
    IN  IF i \in DOMAIN r.engine.working \/ ~CapFits(bar)
        THEN Failed(r)
        ELSE IF ~approved THEN Emit(asked, "RISK_REJECTED", i)
        ELSE IF order.eligible <= r.engine.bar THEN AttemptFill(bar, placed, i)
        ELSE placed

Answer(r, answer, bar, approved, fromNews) ==
    CASE ~r.ok \/ answer.type = "ERROR" -> Failed(r)
      [] r.ok /\ answer.type = "NONE" -> r
      [] r.ok /\ answer.type = "INTENT" -> Places(r, answer, bar, approved, fromNews)

(* WorkerRuntimeServices::observe_bar: the mark of a position it knows.     *)
Observed(r, bar) ==
    [r EXCEPT !.snapshot.mark = IF @ = 0 THEN 0 ELSE bar.close]

(* replay_bar: bar n happens at time n, and the clock never moves back.     *)
AfterBar(bar, answer) ==
    LET advanced == [Call EXCEPT !.engine.bar = @ + 1, !.engine.clock = engine.bar + 1]
    IN  IF engine.clock > engine.bar + 1 THEN Failed(Call)
        ELSE Answer(Observed(FillWorking(bar, advanced), bar), answer, bar,
               answer.type = "INTENT" /\ Approves(answer.request, bar), FALSE)

(* RiskPolicy::evaluate_news; `shocked`: one of the news collars is hit.    *)
NewsApproves(request, bar, shocked) == ~shocked /\ Approves(request, bar)

(* process_news_sentiment: the order may fill at once on the snapshot the   *)
(* news came with.                                                          *)
AfterSentiment(vector, headline, bar, answer, shocked) ==
    LET heard == [Call EXCEPT !.engine.vectors = @ \union {vector},
                              !.engine.clock = headline.at]
    IN  IF headline.at < engine.clock THEN Failed(Call)
        ELSE Answer(heard, answer, bar,
                    answer.type = "INTENT" /\ NewsApproves(answer.request, bar, shocked),
                    TRUE)

-----------------------------------------------------------------------------
(* The runner's ledger books the fills of the bar once the bar is done.     *)
EmptyLedger ==
    [cash |-> OpeningCash, quantity |-> 0, cost |-> 0, lots |-> <<>>,
     executions |-> {}, actions |-> 0, mark |-> 0]

LedgerRefuses(book, fill) ==
    \/ fill.execution \in book.executions
    \/ fill.side = "BUY" /\ CashAfter(book.cash, fill) < 0
    \/ fill.side = "SELL" /\ fill.quantity > book.quantity

LedgerFill(r, fill) ==
    IF ~r.ok \/ LedgerRefuses(r.book, fill) THEN [r EXCEPT !.ok = FALSE]
    ELSE [r EXCEPT
            !.book = [Booked(@, fill) EXCEPT
                        !.cash = CashAfter(@, fill),
                        !.executions = @ \union {fill.execution},
                        !.lots = IF fill.side = "BUY" THEN Acquired(@, fill)
                                 ELSE Disposed(@, fill.quantity)]]

FillsSince(old, new) ==
    LET events == SelectSeq(SubSeq(new, Len(old) + 1, Len(new)), LAMBDA e : e.type = "FILL")
    IN  [k \in DOMAIN events |-> events[k].fill]

AfterBooking(r) ==
    FoldLeft(LedgerFill, [book |-> ledger, ok |-> r.ok], FillsSince(stream, r.stream))

(* The ledger's own split, then the engine's, then the strategy's.          *)
SplitLedger(ratio) ==
    [ledger EXCEPT !.lots = SplitLots(@, ratio),
                   !.quantity = Mul(@, ratio), !.cost = Div(@, ratio),
                   !.mark = Div(@, ratio), !.actions = @ + 1]

SplitBook(book, ratio) ==
    [book EXCEPT !.quantity = Mul(@, ratio), !.cost = Div(@, ratio)]

SplitFails(ratio) ==
    \/ \E k \in DOMAIN ledger.lots : Div(ledger.lots[k].cost, ratio) = 0
    \/ engine.working # <<>>
    \/ engine.book.quantity # 0 /\ Mul(engine.book.quantity, ratio) = 0
    \/ engine.book.quantity # 0 /\ Div(snapshot.mark, ratio) = 0

(* What a dividend credits: only a position the ledger holds earns it.      *)
Credited(amount) == Mul(ledger.quantity, amount)

-----------------------------------------------------------------------------
Fail == /\ replayed' = "failed"
        /\ UNCHANGED <<driver, engine, ledger, snapshot, stream>>

Commit(r, book) ==
    /\ engine' = r.engine /\ snapshot' = r.snapshot /\ stream' = r.stream
    /\ ledger' = book
    /\ UNCHANGED <<driver, replayed>>

BacktestInit ==
    /\ driver \in {"BACKTEST", "NEWS"}
    /\ replayed = "running"
    /\ engine = [bar |-> 0, clock |-> 0, working |-> <<>>, heard |-> {}, vectors |-> {},
                 book |-> [quantity |-> 0, cost |-> 0]]
    /\ ledger = EmptyLedger
    /\ snapshot = [cash |-> OpeningCash, quantity |-> 0, mark |-> 0]
    /\ stream = <<>>

(* One iteration of BacktestRunner::run.                                    *)
ReplayBar(bar, answer) ==
    LET r == AfterBar(bar, answer)
        booked == AfterBooking(r)
    IN  /\ replayed = "running" /\ engine.bar < MaxBars
        /\ IF ~r.ok \/ (driver = "BACKTEST" /\ ~booked.ok) THEN Fail
           ELSE IF driver = "NEWS" THEN Commit(r, ledger)
           ELSE Commit(r, [booked.book EXCEPT !.mark = bar.close])

(* A split that takes effect before the next bar.                           *)
ApplySplit(ratio) ==
    /\ driver = "BACKTEST" /\ replayed = "running"
    /\ engine.bar < MaxBars /\ ledger.actions < MaxActions
    /\ IF SplitFails(ratio) THEN Fail
       ELSE Commit([engine |-> [engine EXCEPT !.book = SplitBook(@, ratio)],
                    snapshot |-> IF engine.book.quantity = 0 THEN snapshot
                                 ELSE [snapshot EXCEPT !.quantity = Mul(engine.book.quantity, ratio),
                                                       !.mark = Div(@, ratio)],
                    stream |-> stream],
                   SplitLedger(ratio))

PayDividend(amount) ==
    /\ driver = "BACKTEST" /\ replayed = "running"
    /\ engine.bar < MaxBars /\ ledger.actions < MaxActions
    /\ Commit([Call EXCEPT !.snapshot.cash = @ + Credited(amount)],
              [ledger EXCEPT !.cash = @ + Credited(amount), !.actions = @ + 1])

(* process_news_headline: a headline is heard once, never in the past.      *)
ReplayHeadline(id, at) ==
    /\ driver = "NEWS" /\ replayed = "running"
    /\ IF at < engine.clock \/ \E h \in engine.heard : h.id = id THEN Fail
       ELSE Commit([Call EXCEPT !.engine.heard = @ \union {[id |-> id, at |-> at]},
                                !.engine.clock = at], ledger)

ReplaySentiment(vector, id, bar, answer, shocked) ==
    LET causes == {h \in engine.heard : h.id = id}
        r == AfterSentiment(vector, CHOOSE h \in causes : TRUE, bar, answer, shocked)
    IN  /\ driver = "NEWS" /\ replayed = "running"
        /\ IF causes = {} \/ vector \in engine.vectors THEN Fail
           ELSE IF ~r.ok THEN Fail ELSE Commit(r, ledger)

(* The last bar is done: the artifact is built from what was replayed.      *)
Complete ==
    /\ replayed = "running" /\ engine.bar = MaxBars
    /\ replayed' = "complete"
    /\ UNCHANGED <<driver, engine, ledger, snapshot, stream>>

BacktestNext ==
    \/ \E bar \in MarketBars, answer \in Answers : ReplayBar(bar, answer)
    \/ \E ratio \in Ratios : ApplySplit(ratio)
    \/ \E amount \in Payouts : PayDividend(amount)
    \/ \E id \in Headlines, at \in 0..MaxBars : ReplayHeadline(id, at)
    \/ \E vector \in Vectors, id \in Headlines, bar \in MarketBars, answer \in Answers,
          shocked \in BOOLEAN : ReplaySentiment(vector, id, bar, answer, shocked)
    \/ Complete

BacktestSpec == BacktestInit /\ [][BacktestNext]_backtestVars

-----------------------------------------------------------------------------
BacktestTypeOK ==
    /\ driver \in {"BACKTEST", "NEWS"} /\ replayed \in {"running", "failed", "complete"}
    /\ engine.bar \in 0..MaxBars /\ engine.clock \in 0..MaxBars
    /\ DOMAIN engine.working \subseteq Intents
    /\ engine.book.quantity \in Nat /\ ledger.cash \in Nat
    /\ \A k \in DOMAIN ledger.lots : ledger.lots[k].quantity \in Nat \ {0}

(* Between two bars of a backtest the four books of one position are one:   *)
(* the engine's portfolio, the ledger, the tax lots it sells from and the   *)
(* snapshot the strategy decides on; whatever partial fills, splits that    *)
(* round and dividends came before (BacktestRunner::run, E8.1 to E8.3).     *)
BooksAgree ==
    driver = "BACKTEST" =>
        /\ ledger.quantity = engine.book.quantity
        /\ Total(ledger.lots) = ledger.quantity
        /\ snapshot.quantity = ledger.quantity
        /\ snapshot.cash = ledger.cash

(* The last event of an order before position k that says `type`.           *)
Said(k, type) ==
    {j \in 1..(k - 1) : stream[j].type = type /\ stream[j].order = stream[k].order}

Latest(k) ==
    LET asked == Said(k, "INTENT") \union Said(k, "NEWS_INTENT")
    IN  CHOOSE j \in asked : \A i \in asked : i <= j

(* No look-ahead: an order decided on a bar executes only on later bars,    *)
(* and no order executes before its latency, through partial fills, reused  *)
(* intent identities and news alike (replay_bar, process_news_intent).      *)
NoLookAhead ==
    \A k \in {j \in DOMAIN stream : stream[j].type = "FILL"} :
        LET asked == stream[Latest(k)]
        IN  /\ stream[k].bar >= asked.bar + LatencyBars
            /\ asked.type = "INTENT" => stream[k].bar > asked.bar

=============================================================================

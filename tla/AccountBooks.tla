---------------------------- MODULE AccountBooks ----------------------------
(***************************************************************************)
(* The books of one LIVE account (core/live/src/lib.rs): cash, the position  *)
(* in one instrument, its tax lots, each strategy's share of it, and the    *)
(* peak and daily baseline that limits look back on; how executions and     *)
(* corporate actions move them (corporate_actions.rs,                       *)
(* control-plane/src/lib.rs Portfolio, accounting/src/lib.rs TaxLotBook),    *)
(* what of them a record of the journal holds, and what a restart makes of  *)
(* that record.                                                            *)
(*                                                                         *)
(* The commands of an order and its session are in LiveKernel; of the       *)
(* checks of an order, those against the books are here.  Executions reach  *)
(* the service in the order the venue made them, after a restart again.     *)
(***************************************************************************)
EXTENDS TaxLots, FiniteSets, FiniteSetsExt

CONSTANTS Orders,        \* order -> its strategy, side, quantity
          Strategies,
          Prices, Fees,
          Chunk,         \* the venue executes an order in chunks of this
          Deposit,       \* initial cash
          MaxPosition,
          MaxShort,      \* 0: the policy has no short-exposure permission
          MaxGross, MaxDailyLoss,
          MaxDrawdown,   \* parts of Whole of the peak
          MarginRate,    \* initial margin of a whole of exposure
          MaxMargin,     \* margin in parts of Whole of the equity
          SplitRatios, Dividends, LotSize,
          Courses        \* bounds: each of orders, actions, days, trials (stale
                         \* observations and failed appends)

VARIABLES books,   \* what the service holds
          record,  \* the last record of the journal
          made,    \* every execution the venue made, oldest first
          halted,  \* an append failed: nothing but a restart is possible
          today,
          bound    \* the bounds that are left

booksVars == <<books, record, made, halted, today, bound>>

NoLots == [buckets |-> {}, long |-> <<>>, short |-> <<>>, realized |-> 0]

BooksInit ==
    /\ books = [cash |-> Deposit, quantity |-> 0, average |-> 0, realized |-> 0,
                lots |-> NoLots, owned |-> [s \in Strategies |-> 0],
                mark |-> 0, peak |-> Deposit, day |-> -1, baseline |-> 0,
                orders |-> [o \in DOMAIN Orders |-> [state |-> "NONE", filled |-> 0, mark |-> 0]],
                executions |-> {}, actions |-> <<>>]
    /\ record = books
    /\ made = <<>>
    /\ halted = FALSE
    /\ today = 0
    /\ bound \in Courses

-----------------------------------------------------------------------------
(* current_equity: a position never quoted is worth what it cost.           *)
Mark(b) == IF b.mark = 0 THEN b.average ELSE b.mark
Equity(b) == b.cash + Product(b.quantity, Mark(b))

Larger(a, b) == IF a > b THEN a ELSE b
Rising(b) == [b EXCEPT !.peak = Larger(@, Equity(b))]

(* The first evaluation of a day sets its baseline.                         *)
Based(b) == IF b.day = today THEN b ELSE [b EXCEPT !.day = today, !.baseline = Equity(b)]

(* What evaluate_risk moves before any check: the mark, the peak, the       *)
(* baseline.                                                                *)
Observed(price) == Based(Rising([books EXCEPT !.mark = price]))

Signed(side, quantity) == IF side = "BUY" THEN quantity ELSE -quantity
Unfilled(b, o) == Orders[o].quantity - b.orders[o].filled
Working(b) == {o \in DOMAIN Orders : b.orders[o].state = "WORKING"}

Committed(b, o) ==
    b.quantity + MapThenSumSet(LAMBDA w : Signed(Orders[w].side, Unfilled(b, w)),
                               Working(b) \union {o})

ReservedCash(b) ==
    MapThenSumSet(LAMBDA w : Product(Unfilled(b, w), b.orders[w].mark),
                  {w \in Working(b) : Orders[w].side = "BUY"})

(* portfolio_risk_state: a row for each strategy and one for what none of   *)
(* them accounts for.                                                       *)
Unattributed(b) == b.quantity - MapThenSumSet(LAMBDA s : b.owned[s], Strategies)

GrossHeld(b) ==
    MapThenSumSet(LAMBDA s : Magnitude(Product(b.owned[s], Mark(b))), Strategies)
        + Magnitude(Product(Unattributed(b), Mark(b)))

(* working_risk_position, risk_candidate: what may still fill counts.       *)
GrossPossible(b, o) ==
    GrossHeld(b) + MapThenSumSet(LAMBDA w : Product(Unfilled(b, w), Mark(b)),
                                 Working(b) \union {o})

MarginUsed(b) == Product(Magnitude(Product(b.quantity, Mark(b))), MarginRate)

(* portfolio_risk_decision.                                                 *)
WithinLimits(b, o) ==
    /\ GrossPossible(b, o) <= MaxGross
    /\ b.baseline - Equity(b) <= MaxDailyLoss
    /\ Quotient(b.peak - Equity(b), b.peak) <= MaxDrawdown
    /\ Quotient(MarginUsed(b), Equity(b)) <= MaxMargin

(* reduces_open_position: toward flat, beyond what working orders take off. *)
Reduces(b, o) ==
    LET delta == Signed(Orders[o].side, Orders[o].quantity)
        taken == MapThenSumSet(LAMBDA w : Unfilled(b, w),
                               {w \in Working(b) : Signed(Orders[w].side, 1) * b.quantity < 0})
    IN  delta * b.quantity < 0 /\ Magnitude(delta) + taken <= Magnitude(b.quantity)

Approves(b, o) ==
    /\ \A w \in Working(b) : Orders[w].side = Orders[o].side
    /\ Committed(b, o) \in -MaxShort..MaxPosition
    /\ Orders[o].side = "BUY" => Product(Orders[o].quantity, b.mark) <= b.cash - ReservedCash(b)
    /\ IF Equity(b) > 0 THEN WithinLimits(b, o) ELSE Reduces(b, o)

-----------------------------------------------------------------------------
Try == bound.trials > 0 /\ bound' = [bound EXCEPT !.trials = @ - 1]

(* persist: the state as it is, or a failed append that halts the service.  *)
Save(b) ==
    /\ ~halted
    /\ books' = b
    /\ \/ record' = b /\ UNCHANGED <<halted, bound>>
       \/ halted' = TRUE /\ UNCHANGED record /\ Try

(* submit_canary_intent: the decision is journaled either way.              *)
Submit(o, price) ==
    /\ o \in bound.orders /\ books.orders[o].state = "NONE"
    /\ LET b == Observed(price) IN
       Save(IF Approves(b, o)
            THEN [b EXCEPT !.orders[o] = [state |-> "WORKING", filled |-> 0, mark |-> price]]
            ELSE b)
    /\ UNCHANGED <<made, today>>

(* A stale observation is refused after it has been taken in, and nothing   *)
(* is journaled.                                                            *)
SubmitStale(o, price) ==
    /\ ~halted /\ Try
    /\ o \in bound.orders /\ books.orders[o].state = "NONE"
    /\ books' = Observed(price)
    /\ UNCHANGED <<record, made, halted, today>>

(* The venue executes an order of the journal.                              *)
MadeOf(o) ==
    MapThenSumSet(LAMBDA n : made[n].quantity, {n \in DOMAIN made : made[n].order = o})

Execute(o, quantity, price, fee) ==
    /\ record.orders[o].state = "WORKING"
    /\ MadeOf(o) + quantity <= Orders[o].quantity
    /\ made' = Append(made, [order |-> o, quantity |-> quantity, price |-> price, fee |-> fee])
    /\ UNCHANGED <<books, record, halted, today, bound>>

-----------------------------------------------------------------------------
(* apply_accounted_fill.                                                    *)
Side(x) == Orders[x.order].side
Change(x) == Signed(Side(x), x.quantity)
Reverses(b, x) == b.quantity * Change(x) < 0

(* The part of the fee of the quantity that closes.                         *)
FeeShare(x, closed) ==
    IF closed = x.quantity THEN x.fee ELSE Quotient(Product(x.fee, closed), x.quantity)

(* apply_signed_fill, which is apply_fill where nothing is sold short.      *)
WithPosition(b, x) ==
    LET held   == Magnitude(b.quantity)
        closed == Lesser(held, x.quantity)
        gain   == IF b.quantity > 0 THEN x.price - b.average ELSE b.average - x.price
        rest   == Quotient(x.fee - FeeShare(x, closed), x.quantity - closed)
        value  == Product(x.price, x.quantity) + Signed(Side(x), x.fee)
        moved  == [b EXCEPT !.quantity = @ + Change(x)]
    IN  IF ~Reverses(b, x)
        THEN [moved EXCEPT !.average = Quotient(Product(@, held) + value, held + x.quantity)]
        ELSE [moved EXCEPT
                !.realized = @ + Product(gain, closed) - FeeShare(x, closed),
                !.average = CASE x.quantity < held -> @
                              [] x.quantity = held -> 0
                              [] OTHER -> x.price + Signed(Side(x), rest)]

(* apply_tax_lot_fill closes lots of the other side first.                  *)
Across(lots, x) == IF Side(x) = "BUY" THEN lots.short ELSE lots.long

(* dispose, cover: the last lot leaves its bucket behind.                   *)
WithClosed(lots, x, closed) ==
    LET taken == ValueTaken(Across(lots, x), closed)
        gross == Product(x.price, closed)
        gain  == (IF Side(x) = "BUY" THEN taken - gross ELSE gross - taken) - FeeShare(x, closed)
    IN  CASE closed = 0 -> lots
          [] closed > 0 /\ Side(x) = "BUY" ->
                [lots EXCEPT !.short = Remaining(@, closed), !.realized = @ + gain]
          [] closed > 0 /\ Side(x) = "SELL" ->
                [lots EXCEPT !.long = Remaining(@, closed), !.realized = @ + gain]

(* The opening leg bears what the closing leg does not.                     *)
OpeningFee(x, closed) == x.fee - IF closed = 0 THEN 0 ELSE FeeShare(x, closed)

(* acquire, open_short.                                                     *)
WithOpened(lots, x, closed) ==
    LET opening == x.quantity - closed
        value   == Product(x.price, opening) + Signed(Side(x), OpeningFee(x, closed))
        lot     == [quantity |-> opening, price |-> Quotient(value, opening)]
    IN  CASE opening = 0 -> lots
          [] opening > 0 /\ Side(x) = "BUY" ->
                [lots EXCEPT !.long = Append(@, lot), !.buckets = @ \union {"LONG"}]
          [] opening > 0 /\ Side(x) = "SELL" ->
                [lots EXCEPT !.short = Append(@, lot), !.buckets = @ \union {"SHORT"}]

WithLots(lots, x) ==
    LET closed == Lesser(Held(Across(lots, x)), x.quantity)
    IN  WithOpened(WithClosed(lots, x, closed), x, closed)

WithExecution(b, n) ==
    LET x == made[n]
        o == x.order
    IN  [WithPosition(b, x) EXCEPT
            !.lots = WithLots(@, x),
            !.owned[Orders[o].strategy] = @ + Change(x),
            !.cash = @ - Product(x.price, Change(x)) - x.fee,
            !.executions = @ \union {n},
            !.orders[o].filled = @ + x.quantity,
            !.orders[o].state = IF Unfilled(b, o) = x.quantity THEN "FILLED" ELSE @]

(* synchronize, of the next execution; of one applied before it is dropped. *)
Synchronize(n) ==
    /\ n \notin books.executions
    /\ 1..(n - 1) \subseteq books.executions
    /\ Save(WithExecution(books, n))
    /\ UNCHANGED <<made, today>>

(* The venue closes the rest of an order.                                   *)
Expire(o) ==
    /\ o \in Working(books) /\ record.orders[o].state = "WORKING"
    /\ DOMAIN made \subseteq books.executions
    /\ Save([books EXCEPT !.orders[o].state = "EXPIRED"])
    /\ UNCHANGED <<made, today>>

-----------------------------------------------------------------------------
(* apply_corporate_action: each is a receipt of the record.                 *)
Receipt(kind, value, after, cash) ==
    [kind |-> kind, value |-> value, before |-> books.quantity, after |-> after, cash |-> cash]

Scaled(b, ratio) ==
    [b EXCEPT !.quantity = Product(@, ratio),
              !.average = Quotient(@, ratio),
              !.lots.long = ScaledLots(@, ratio),
              !.lots.short = ScaledLots(@, ratio),
              !.owned = [s \in Strategies |-> Product(@[s], ratio)],
              !.mark = Quotient(@, ratio)]

(* TaxLotBook::apply_split takes an emptied bucket out.                     *)
WithoutEmptied(lots) ==
    [lots EXCEPT !.buckets = @ \ ((IF lots.long = <<>> THEN {"LONG"} ELSE {})
                                    \union (IF lots.short = <<>> THEN {"SHORT"} ELSE {}))]

(* apply_live_split.  The broker already shows the position it leaves.      *)
Split(ratio) ==
    LET after == Scaled(books, ratio) IN
    /\ Len(books.actions) < bound.actions
    /\ Working(books) = {} /\ DOMAIN made \subseteq books.executions
    /\ after.quantity % LotSize = 0
    /\ books.quantity # 0 => after.quantity # 0
    /\ \A lot \in Range(books.lots.long) \union Range(books.lots.short) :
          Quotient(lot.price, ratio) > 0
    /\ books.mark # 0 => after.mark > 0
    /\ Save([after EXCEPT !.lots = WithoutEmptied(@),
                          !.actions = Append(@, Receipt("SPLIT", ratio, after.quantity, 0))])
    /\ UNCHANGED <<made, today>>

(* A short position owes the dividend.                                      *)
CashDividend(amount) ==
    LET cash == Product(books.quantity, amount) IN
    /\ Len(books.actions) < bound.actions
    /\ Save([books EXCEPT !.cash = @ + cash,
                          !.actions = Append(@, Receipt("DIVIDEND", amount, books.quantity, cash))])
    /\ UNCHANGED <<made, today>>

-----------------------------------------------------------------------------
(* restore refuses a record that none of its writers should have made.      *)
OrdersRestore(r) == \A o \in DOMAIN Orders : r.orders[o].filled \in 0..Orders[o].quantity

(* Portfolio::recover, recover_signed.                                      *)
PositionRestores(r) ==
    /\ MaxShort = 0 => r.quantity >= 0
    /\ r.quantity >= 0 => r.average >= 0
    /\ r.quantity = 0 => r.average = 0

(* TaxLotBook::recover.                                                     *)
EmptiedBucket(r) ==
    \/ "LONG" \in r.lots.buckets /\ r.lots.long = <<>>
    \/ "SHORT" \in r.lots.buckets /\ r.lots.short = <<>>

LotsRestore(r) ==
    /\ ~EmptiedBucket(r)
    /\ \A lot \in Range(r.lots.long) : HasUnits(lot) /\ lot.price > 0
    /\ \A lot \in Range(r.lots.short) : HasUnits(lot)

MarksRestore(r) == r.mark >= 0 /\ r.peak > 0

(* A receipt says what its action does to the quantity it was applied to.   *)
ActionsRestore(r) ==
    \A a \in Range(r.actions) :
        IF a.kind = "SPLIT" THEN a.after = Product(a.before, a.value) /\ a.cash = 0
        ELSE a.after = a.before /\ a.cash = Product(a.before, a.value)

Restorable(r) ==
    OrdersRestore(r) /\ PositionRestores(r) /\ LotsRestore(r) /\ MarksRestore(r)
        /\ ActionsRestore(r)

(* Faulty: the peak starts again from the recovered equity.                 *)
RestoredAnew(r) == [r EXCEPT !.peak = Equity(r)]

(* The peak is no lower than the recovered equity.                          *)
Restored(r) == Rising(r)

(* open_durable journals what it restored.                                  *)
Restart ==
    /\ Restorable(record)
    /\ books' = Restored(record) /\ record' = Restored(record) /\ halted' = FALSE
    /\ UNCHANGED <<made, today, bound>>

NewDay ==
    /\ today < bound.days
    /\ today' = today + 1
    /\ UNCHANGED <<books, record, made, halted, bound>>

BooksNext ==
    \/ \E o \in DOMAIN Orders, p \in Prices : Submit(o, p) \/ SubmitStale(o, p)
    \/ \E o \in DOMAIN Orders, q \in {Chunk, 2 * Chunk}, p \in Prices, f \in Fees :
          Execute(o, q, p, f)
    \/ \E n \in DOMAIN made : Synchronize(n)
    \/ \E o \in DOMAIN Orders : Expire(o)
    \/ \E ratio \in SplitRatios : Split(ratio)
    \/ \E amount \in Dividends : CashDividend(amount)
    \/ Restart
    \/ NewDay

BooksSpec == BooksInit /\ [][BooksNext]_booksVars

-----------------------------------------------------------------------------
BooksTypeOK ==
    /\ \A b \in {books, record} :
          /\ \A k \in {"cash", "quantity", "average", "realized", "mark", "peak", "baseline"} :
                b[k] \in Int
          /\ b.lots.buckets \subseteq {"LONG", "SHORT"}
          /\ b.owned \in [Strategies -> Int]
          /\ b.executions \subseteq DOMAIN made
          /\ b.day \in -1..today
    /\ halted \in BOOLEAN /\ today \in 0..bound.days

(* Cash is what the executions and actions of the books made of the         *)
(* deposit, each once; the lots are on the side of the position and add up  *)
(* to it; and the average cost and the lots, each with its realized P&L,    *)
(* are worth the same cash, to within the rounding of each step: through    *)
(* partial and crossing executions, splits, failed appends and restarts     *)
(* ("cash, positions, tax lots, strategy attribution, and receipt identity  *)
(* cannot diverge", apply_accounted_fill).                                  *)
Received(b) == MapThenSumSet(LAMBDA k : b.actions[k].cash, DOMAIN b.actions)
Traded(b) ==
    MapThenSumSet(LAMBDA n : -Product(made[n].price, Change(made[n])) - made[n].fee, b.executions)

LotsValue(lots) == ValueTaken(lots, Held(lots))

Roundings(b) == (Cardinality(b.executions) + Len(b.actions)) * (1 + MaxPosition \div Whole)

BooksBalance ==
    LET b == books IN
    /\ b.cash = Deposit + Traded(b) + Received(b)
    /\ Held(b.lots.long) - Held(b.lots.short) = b.quantity
    /\ b.lots.long = <<>> \/ b.lots.short = <<>>
    /\ Magnitude(Unattributed(b)) <= Len(b.actions) * (Cardinality(Strategies) - 1)
    /\ Magnitude(b.cash + Product(b.average, b.quantity) - Deposit - Received(b) - b.realized)
          <= Roundings(b)
    /\ Magnitude(b.cash + LotsValue(b.lots.long) - LotsValue(b.lots.short)
                   - Deposit - Received(b) - b.lots.realized) <= Roundings(b)

(* A record bars the next start only by the bucket that a sale of the whole *)
(* position leaves behind.                                                  *)
RecordsReopen == Restorable(record) \/ EmptiedBucket(record)

(* What limits look back on survives restarts: the journaled peak never     *)
(* falls, a day keeps the baseline it was first journaled with, executions  *)
(* stay applied, and an order is only approved while the account has lost   *)
(* less than that day and that peak allow.                                  *)
LimitsKept ==
    LET approved == {o \in DOMAIN Orders : /\ record.orders[o].state = "NONE"
                                           /\ record'.orders[o].state # "NONE"}
        equity == Equity(record')
    IN  /\ record'.peak >= record.peak
        /\ record'.day = record.day => record'.baseline = record.baseline
        /\ record.executions \subseteq record'.executions
        /\ approved # {} /\ equity > 0 =>
              /\ record.day = today => record.baseline - equity <= MaxDailyLoss
              /\ Quotient(record.peak - equity, record.peak) <= MaxDrawdown

(* "Restores a book from an exact prior snapshot, validating every          *)
(* invariant a real acquire/dispose sequence would have enforced"           *)
(* (core/accounting/src/lib.rs:1225, TaxLotBook::recover): so the books     *)
(* that such a sequence made are restored from their record.                *)
EveryRecordReopens == Restorable(record)
=============================================================================

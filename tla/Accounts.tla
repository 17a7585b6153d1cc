------------------------------ MODULE Accounts ------------------------------
(***************************************************************************)
(* The margin account of an advanced backtest (core/backtest/src/lib.rs,    *)
(* AdvancedBacktestAccount) and the tax-lot book it keeps in lockstep       *)
(* (core/accounting/src/lib.rs, TaxLotBook), driven as the command line     *)
(* drives them over the events of a finished replay                        *)
(* (apps/cli/src/backtest.rs).  One instrument, one currency.               *)
(*                                                                         *)
(* A call that is refused ends the projection, so a refusal is no step.     *)
(***************************************************************************)
EXTENDS TaxLots, FiniteSets, FiniteSetsExt

CONSTANTS Quantities, Prices, Fees, SplitRatios, Dividends,
          Settlements,       \* prices of a delisting
          BorrowAvailable,   \* shares that can be borrowed
          BorrowRate,        \* financing of a whole for one accrual
          MarginRate,        \* initial margin of a whole of exposure
          Deposit,           \* opening cash
          MaxFills,          \* bound: fills
          MaxLifecycle       \* bound: corporate actions, accruals, delistings

VARIABLES portfolio, \* position and cash of AdvancedBacktestAccount
          taxLots,   \* TaxLotBook: open long and short lots, realized P&L
          mark,      \* last close, or 0 before the first bar
          applied    \* fills applied, lifecycle events applied, and history:
                     \* whether a delisting closed a position

portfolioVars == <<portfolio, taxLots, mark, applied>>

AccountsInit ==
    /\ portfolio = [quantity |-> 0, average |-> 0, realized |-> 0, cash |-> Deposit,
                  charges |-> 0]
    /\ taxLots = [long |-> <<>>, short |-> <<>>, realized |-> 0]
    /\ mark = 0
    /\ applied = [fills |-> 0, events |-> 0, delisted |-> FALSE]

-----------------------------------------------------------------------------
Signed(fill) == IF fill.side = "BUY" THEN fill.quantity ELSE -fill.quantity

(* A fill on the side of the position, or on a flat one, only opens.        *)
Opens(fill) == portfolio.quantity * Signed(fill) >= 0
Closing(fill) == IF Opens(fill) THEN 0
                 ELSE Lesser(Magnitude(portfolio.quantity), fill.quantity)
Opening(fill) == fill.quantity - Closing(fill)

(* A crossing fill's fee is shared; the opening leg takes what is left.     *)
ClosingFee(fill) ==
    IF Opens(fill) THEN 0
    ELSE IF Opening(fill) = 0 THEN fill.fee
    ELSE Quotient(Product(fill.fee, Closing(fill)), fill.quantity)

OpeningFee(fill) == fill.fee - ClosingFee(fill)

AverageAfter(fill) ==
    CASE Opens(fill) ->
           Quotient(Product(portfolio.average, Magnitude(portfolio.quantity))
                      + Product(fill.price, fill.quantity),
                    Magnitude(portfolio.quantity + Signed(fill)))
      [] ~Opens(fill) /\ portfolio.quantity + Signed(fill) = 0 -> 0
      [] ~Opens(fill) /\ Opening(fill) > 0 -> fill.price
      [] OTHER -> portfolio.average

Gain(fill) ==
    Product(IF portfolio.quantity > 0 THEN fill.price - portfolio.average
            ELSE portfolio.average - fill.price, Closing(fill))

AfterFill(fill) ==
    [portfolio EXCEPT
        !.quantity = @ + Signed(fill),
        !.average = AverageAfter(fill),
        !.realized = @ + IF Opens(fill) THEN 0 ELSE Gain(fill),
        !.cash = @ - fill.fee - Product(fill.price, Signed(fill)),
        !.charges = @ + fill.fee]

(* apply_tax_lot_close: FIFO, at the fill's price, net of its fee.          *)
ClosedLots(fill) ==
    IF Opens(fill) THEN taxLots
    ELSE IF portfolio.quantity > 0
    THEN [taxLots EXCEPT
            !.long = Remaining(@, Closing(fill)),
            !.realized = @ + Product(Closing(fill), fill.price)
                           - ValueTaken(taxLots.long, Closing(fill)) - ClosingFee(fill)]
    ELSE [taxLots EXCEPT
            !.short = Remaining(@, Closing(fill)),
            !.realized = @ + ValueTaken(taxLots.short, Closing(fill))
                           - Product(Closing(fill), fill.price) - ClosingFee(fill)]

(* apply_tax_lot_open: cost paid or proceeds received, fee included.        *)
OpenedLot(fill) ==
    LET gross == Product(fill.price, Opening(fill))
    IN  [quantity |-> Opening(fill),
         price |-> Quotient(IF fill.side = "BUY" THEN gross + OpeningFee(fill)
                            ELSE gross - OpeningFee(fill), Opening(fill))]

AfterLots(fill) ==
    IF Opening(fill) = 0 THEN ClosedLots(fill)
    ELSE IF fill.side = "BUY" THEN [ClosedLots(fill) EXCEPT !.long = Append(@, OpenedLot(fill))]
    ELSE [ClosedLots(fill) EXCEPT !.short = Append(@, OpenedLot(fill))]

(* value_margin_account: liquidation value less initial margin.             *)
ExcessLiquidity(book) ==
    LET exposure == Product(book.quantity, mark)
    IN  book.cash + exposure - Product(Magnitude(exposure), MarginRate)

Lots(fill) == IF portfolio.quantity > 0 THEN taxLots.long ELSE taxLots.short

Accepts(fill) ==
    /\ mark > 0
    /\ AfterFill(fill).quantity >= -BorrowAvailable
    /\ Held(Lots(fill)) >= Closing(fill)
    /\ fill.side = "BUY" /\ Opening(fill) > 0 => OpenedLot(fill).price > 0
    /\ ExcessLiquidity(AfterFill(fill)) >= 0

(* apply_fill_with_capital_check.                                           *)
ApplyFill(fill) ==
    /\ applied.fills < MaxFills
    /\ Accepts(fill)
    /\ portfolio' = AfterFill(fill)
    /\ taxLots' = AfterLots(fill)
    /\ applied' = [applied EXCEPT !.fills = @ + 1]
    /\ UNCHANGED mark

Lifecycle == applied.events < MaxLifecycle /\ mark > 0

(* A split of the position, of both sides of the book, and of the mark.     *)
Split(ratio) ==
    /\ Lifecycle
    /\ \A lot \in Range(taxLots.long) \union Range(taxLots.short) : Quotient(lot.price, ratio) > 0
    /\ taxLots' = [taxLots EXCEPT !.long = ScaledLots(@, ratio), !.short = ScaledLots(@, ratio)]
    /\ portfolio' = [portfolio EXCEPT
                     !.quantity = Product(@, ratio),
                     !.average = IF Product(portfolio.quantity, ratio) # 0 THEN Quotient(@, ratio)
                                 ELSE @]
    /\ mark' = Quotient(mark, ratio) /\ mark' > 0
    /\ applied' = [applied EXCEPT !.events = @ + 1]

(* A short position owes the dividend.                                      *)
CashDividend(amount) ==
    /\ Lifecycle
    /\ portfolio' = [portfolio EXCEPT !.cash = @ + Product(portfolio.quantity, amount)]
    /\ applied' = [applied EXCEPT !.events = @ + 1]
    /\ UNCHANGED <<taxLots, mark>>

(* accrue_financing: debit cash and borrowed shares bear interest.          *)
Financing ==
    (IF portfolio.cash < 0 THEN Product(-portfolio.cash, BorrowRate) ELSE 0)
    + (IF portfolio.quantity < 0
       THEN Product(Product(-portfolio.quantity, mark), BorrowRate) ELSE 0)

AccrueFinancing ==
    /\ Lifecycle
    /\ portfolio.cash < 0 \/ portfolio.quantity < 0
    /\ portfolio' = [portfolio EXCEPT !.cash = @ - Financing]
    /\ applied' = [applied EXCEPT !.events = @ + 1]
    /\ UNCHANGED <<taxLots, mark>>

(* settle_delisting closes the position and leaves its lots open.           *)
SettleDelisting(price) ==
    /\ Lifecycle /\ portfolio.quantity # 0
    /\ portfolio' = [portfolio EXCEPT
                     !.quantity = 0, !.average = 0,
                     !.cash = @ + Product(price, portfolio.quantity),
                     !.realized = @ + Product(price - portfolio.average, portfolio.quantity)]
    /\ applied' = [applied EXCEPT !.events = @ + 1, !.delisted = TRUE]
    /\ UNCHANGED <<taxLots, mark>>

(* A bar of the replay: its close is the mark of what follows.              *)
MarkBar(close) ==
    /\ mark' = close /\ mark' # mark
    /\ UNCHANGED <<portfolio, taxLots, applied>>

AccountsNext ==
    \/ \E side \in {"BUY", "SELL"}, q \in Quantities, p \in Prices, f \in Fees :
          ApplyFill([side |-> side, quantity |-> q, price |-> p, fee |-> f])
    \/ \E ratio \in SplitRatios : Split(ratio)
    \/ \E amount \in Dividends : CashDividend(amount)
    \/ AccrueFinancing
    \/ \E price \in Settlements : SettleDelisting(price)
    \/ \E close \in Prices : MarkBar(close)

AccountsSpec == AccountsInit /\ [][AccountsNext]_portfolioVars

-----------------------------------------------------------------------------
AccountsTypeOK ==
    /\ \A k \in {"quantity", "average", "realized", "cash", "charges"} : portfolio[k] \in Int
    /\ \A lot \in Range(taxLots.long) \union Range(taxLots.short) : HasUnits(lot)
    /\ taxLots.realized \in Int /\ mark \in Nat
    /\ applied.fills \in 0..MaxFills /\ applied.events \in 0..MaxLifecycle

(* Through opening, closing and crossing fills and splits that round, the   *)
(* open lots are on the side of the position and add up to it, until a      *)
(* delisting closes the position alone.                                     *)
LotsFollowPosition ==
    applied.delisted \/
        /\ Held(taxLots.long) - Held(taxLots.short) = portfolio.quantity
        /\ taxLots.long = <<>> \/ taxLots.short = <<>>

(* Once flat, the lots, matched oldest first and net of fees, and the       *)
(* average cost, before fees, have realized the same but for the charges,   *)
(* to within one unit of rounding for every step and every unit it moved.   *)
Roundings == (applied.fills + applied.events) * (2 + Max(Quantities) \div Whole)

DifferByCharges ==
    (portfolio.quantity = 0 /\ ~applied.delisted) =>
        Magnitude(taxLots.realized - (portfolio.realized - portfolio.charges)) <= Roundings

(* The two together: the tax lots and the average cost are two accounts of  *)
(* the same fills.                                                          *)
MarginBooksAgree == LotsFollowPosition /\ DifferByCharges
=============================================================================

------------------------------- MODULE TaxLots -------------------------------
(***************************************************************************)
(* The open lots of one side of one instrument in a tax-lot book            *)
(* (core/accounting/src/lib.rs, TaxLotBook), oldest first, and the decimal  *)
(* arithmetic (core/domain) they are kept in.  An amount is an integer      *)
(* count of the smallest decimal, Whole of them to a whole.                 *)
(***************************************************************************)
EXTENDS Integers, Sequences, SequencesExt

CONSTANT Whole

(* Decimal: division in Rust truncates toward zero.                         *)
Truncated(a, b) == IF a < 0 THEN -((-a) \div b) ELSE a \div b
Product(a, b) == Truncated(a * b, Whole)
Quotient(a, b) == Truncated(a * Whole, b)
Magnitude(a) == IF a < 0 THEN -a ELSE a
Lesser(a, b) == IF a < b THEN a ELSE b

Held(lots) == FoldLeft(LAMBDA sum, lot : sum + lot.quantity, 0, lots)
HasUnits(lot) == lot.quantity > 0

(* dispose and cover, oldest lot first: what each lot gives up, and the     *)
(* lots and the value that remain of it.                                    *)
TakenFrom(lots, quantity) ==
    [k \in DOMAIN lots |->
       LET before == Held(SubSeq(lots, 1, k - 1))
       IN  IF quantity <= before THEN 0 ELSE Lesser(lots[k].quantity, quantity - before)]

Remaining(lots, quantity) ==
    SelectSeq([k \in DOMAIN lots |->
                 [lots[k] EXCEPT !.quantity = @ - TakenFrom(lots, quantity)[k]]], HasUnits)

ValueTaken(lots, quantity) ==
    FoldLeft(LAMBDA sum, k : sum + Product(TakenFrom(lots, quantity)[k], lots[k].price),
             0, [k \in DOMAIN lots |-> k])

(* Faulty: each lot is scaled and rounded down on its own.                  *)
ScaledAlone(lots, ratio) ==
    SelectSeq([k \in DOMAIN lots |->
                 [quantity |-> Product(lots[k].quantity, ratio),
                  price |-> Quotient(lots[k].price, ratio)]], HasUnits)

(* split_lots: the newest lot takes the shortfall of the others.            *)
ScaledLots(lots, ratio) ==
    LET scaled == [k \in DOMAIN lots |->
                     [quantity |-> Product(lots[k].quantity, ratio),
                      price |-> Quotient(lots[k].price, ratio)]]
        shortfall == Product(Held(lots), ratio) - Held(scaled)
    IN  SelectSeq([k \in DOMAIN lots |->
                     IF k = Len(lots) THEN [scaled[k] EXCEPT !.quantity = @ + shortfall]
                     ELSE scaled[k]], HasUnits)
=============================================================================

-------------------------- MODULE AccountEvidence --------------------------
(***************************************************************************)
(* What an operator attests about an account: corporate actions and closed  *)
(* trading sessions, in the PAPER service (core/paper/src/service/          *)
(* corporate_actions.rs, promotion.rs, reconcile.rs) and the LIVE kernel     *)
(* (core/live/src/corporate_actions.rs, lib.rs).                            *)
(*                                                                         *)
(* The venue announces an action against the position it holds, and adjusts *)
(* its books at some later time; orders execute before, between and after,  *)
(* and their executions may be booked late.  The operator applies the       *)
(* action to the service's own books with the quantity of the notice.       *)
(* Appends may fail with the record on disk or not, and the process may     *)
(* restart.  One instrument, complete fills; marks and tax lots, which a    *)
(* split scales in the same call, are in `Accounts`.                        *)
(***************************************************************************)
EXTENDS Integers, FiniteSets, FiniteSetsExt

CONSTANTS Lot,         \* units of a lot
          Shares,      \* strategy -> units held at the start
          Trades,      \* order -> its signed units, price of a unit and strategy
          Actions,     \* action -> its kind, ratio (1 unless a split) and payment per unit
          Closes,      \* session -> the time it closes
          Bounds       \* bounds: orders placed, actions announced, reconciliations, clock

VARIABLES service,   \* "PAPER" or "LIVE"
          books,     \* the service's memory
          journal,   \* its last record
          link,      \* journal health and broker session
          broker,    \* the account as the venue holds it
          clock,
          bound,     \* the member of Bounds this behaviour keeps to
          reports,   \* history: reconciliation reports returned to a caller
          attested   \* history: sessions a caller was told are recorded clean

evidenceVars == <<service, books, journal, link, broker, clock, bound, reports, attested>>

Orders == DOMAIN Trades
Holders == DOMAIN Shares
Total(shares) == MapThenSumSet(LAMBDA s : shares[s], DOMAIN shares)

EvidenceInit ==
    /\ service \in {"PAPER", "LIVE"}
    /\ books = [quantity |-> Total(Shares), owned |-> Shares, cash |-> 0, placed |-> {},
                booked |-> {}, closed |-> {}, receipts |-> {}, unexplained |-> {},
                latest |-> 0, days |-> {}]
    /\ journal = books
    /\ link = [healthy |-> TRUE, connected |-> TRUE]
    /\ broker = [quantity |-> Total(Shares), cash |-> 0, executed |-> {}, expired |-> {},
                 notices |-> {}, settled |-> {}]
    /\ clock = 0 /\ bound \in Bounds
    /\ reports = {} /\ attested = {}

-----------------------------------------------------------------------------
(* The venue: it executes or expires what it works, fixes the position an   *)
(* action is owed on, and later settles the action.                         *)
WorkedByVenue == books.placed \ (broker.executed \union broker.expired)

VenueKeeps == UNCHANGED <<service, books, journal, link, bound, reports, attested>>

ExecuteAtVenue(o) ==
    /\ o \in WorkedByVenue
    /\ broker' = [broker EXCEPT !.executed = @ \union {o},
                                !.quantity = @ + Trades[o].units,
                                !.cash = @ - Trades[o].units * Trades[o].price]
    /\ UNCHANGED clock /\ VenueKeeps

ExpireAtVenue(o) ==
    /\ o \in WorkedByVenue
    /\ broker' = [broker EXCEPT !.expired = @ \union {o}]
    /\ UNCHANGED clock /\ VenueKeeps

Announce(a) ==
    /\ \A n \in broker.notices : n.action # a
    /\ Cardinality(broker.notices) < bound.announced
    /\ broker.quantity * Actions[a].over % Actions[a].under = 0
    /\ broker' = [broker EXCEPT !.notices = @ \union {[action |-> a, held |-> broker.quantity]}]
    /\ UNCHANGED clock /\ VenueKeeps

(* What an action leaves of a quantity, cut off toward zero, and the cash   *)
(* it moves.                                                                *)
Scaled(a, quantity) ==
    LET Cut(q) == (q * Actions[a].over) \div Actions[a].under
    IN  IF quantity >= 0 THEN Cut(quantity) ELSE -Cut(-quantity)
Paid(a, quantity) == quantity * Actions[a].payment

Settle(n) ==
    /\ n \in broker.notices /\ n.action \notin broker.settled
    /\ broker' = [broker EXCEPT !.settled = @ \union {n.action},
                                !.quantity = @ - n.held + Scaled(n.action, n.held),
                                !.cash = @ + Paid(n.action, n.held)]
    /\ UNCHANGED clock /\ VenueKeeps

Tick ==
    /\ clock < bound.time
    /\ clock' = clock + 1
    /\ UNCHANGED broker /\ VenueKeeps

-----------------------------------------------------------------------------
(* persist: an append that fails may have reached the disk.                 *)
Save(new) ==
    /\ link.healthy
    /\ books' = new
    /\ \/ journal' = new /\ UNCHANGED link
       \/ journal' \in {journal, new} /\ link' = [link EXCEPT !.healthy = FALSE]

Saved == link'.healthy
OwnStep == UNCHANGED <<service, broker, clock, bound>>

Working == books.placed \ (books.booked \union books.closed)

(* submit: risk keeps new orders away while an incident is unexplained.     *)
Place(o) ==
    /\ link.connected
    /\ o \in bound.orders \ books.placed /\ books.unexplained = {}
    /\ Save([books EXCEPT !.placed = @ \union {o}])
    /\ OwnStep /\ UNCHANGED <<reports, attested>>

(* synchronize: a fill reaches position, cash and the strategy's share      *)
(* together, of a closed order too.                                         *)
WithFill(o) ==
    [books EXCEPT !.booked = @ \union {o},
                  !.quantity = @ + Trades[o].units,
                  !.owned[Trades[o].strategy] = @ + Trades[o].units,
                  !.cash = @ - Trades[o].units * Trades[o].price]

Book(o) ==
    /\ link.connected
    /\ o \in broker.executed \ books.booked
    /\ Save(WithFill(o))
    /\ OwnStep /\ UNCHANGED <<reports, attested>>

(* The closing evidence may come before the execution it hides.             *)
CloseOrder(o) ==
    /\ link.connected
    /\ o \in Working /\ o \notin WorkedByVenue
    /\ Save([books EXCEPT !.closed = @ \union {o}])
    /\ OwnStep /\ UNCHANGED <<reports, attested>>

-----------------------------------------------------------------------------
Receipt(a, held) == [action |-> a, held |-> held]
Applied(a) == \E r \in books.receipts : r.action = a

WholeLots(quantity) == quantity % Lot = 0

(* apply_split: nothing works in the instrument, and whole lots are left;   *)
(* LIVE also wants the broker to show the scaled position already.          *)
SplitFits(a) ==
    /\ Working = {}
    /\ WholeLots(Scaled(a, books.quantity))
    /\ service = "LIVE" => link.connected /\ broker.quantity = Scaled(a, books.quantity)

(* Faulty: the quantity the action was stated against is not compared.      *)
ApplicableToAny(a, held) ==
    /\ ~Applied(a)
    /\ Actions[a].kind = "SPLIT" => SplitFits(a)

Applicable(a, held) ==
    /\ ~Applied(a)
    /\ books.quantity = held
    /\ Actions[a].kind = "SPLIT" => SplitFits(a)

(* Each strategy's share is scaled by itself.                               *)
AfterAction(a) ==
    [books EXCEPT !.quantity = Scaled(a, @),
                  !.owned = [s \in Holders |-> Scaled(a, @[s])],
                  !.cash = @ + Paid(a, books.quantity)]

(* apply_corporate_action, as the notice states it; repeating an applied    *)
(* action returns its receipt and changes nothing.                          *)
ApplyAction(n) ==
    /\ n \in broker.notices
    /\ Applicable(n.action, n.held)
    /\ Save([AfterAction(n.action) EXCEPT !.receipts = @ \union {Receipt(n.action, n.held)}])
    /\ OwnStep /\ UNCHANGED <<reports, attested>>

-----------------------------------------------------------------------------
(* reconcile: the categories of difference between books and broker.        *)
Issues ==
    (IF books.booked # broker.executed \/ Working # WorkedByVenue THEN {"ORDERS"} ELSE {})
        \union (IF books.quantity # broker.quantity THEN {"POSITION"} ELSE {})
        \union (IF books.cash # broker.cash THEN {"CASH"} ELSE {})

Reconcile ==
    /\ link.connected
    /\ books.latest < bound.reports
    /\ Save([books EXCEPT !.latest = @ + 1, !.unexplained = @ \union Issues])
    /\ reports' = IF Saved
                  THEN reports \union {[id |-> books.latest + 1, at |-> clock,
                                        clean |-> Issues = {}]}
                  ELSE reports
    /\ OwnStep /\ UNCHANGED attested

(* A report that did not survive a restart leaves its identity to the next. *)
Explain(issue) ==
    /\ issue \in books.unexplained
    /\ Save([books EXCEPT !.unexplained = @ \ {issue}])
    /\ OwnStep /\ UNCHANGED <<reports, attested>>

(* record_paper_session, record_live_session: LIVE records an open incident *)
(* as a day that is not clean, PAPER refuses; nothing is overwritten.       *)
SessionDay(d, clean) == [session |-> d, clean |-> clean]

Creditable(d, r) ==
    /\ r.id = books.latest /\ r.clean /\ r.at >= Closes[d]
    /\ service = "PAPER" => books.unexplained = {}
    /\ \A day \in books.days : day.session # d

RecordSession(d, r) ==
    /\ Creditable(d, r)
    /\ Save([books EXCEPT !.days = @ \union {SessionDay(d, books.unexplained = {})}])
    /\ attested' = IF Saved /\ books.unexplained = {} THEN attested \union {d} ELSE attested
    /\ OwnStep /\ UNCHANGED reports

-----------------------------------------------------------------------------
(* The process restarts from the journal at any point, and the operator     *)
(* opens a session.                                                         *)
RestartAccount ==
    /\ books' = journal
    /\ link' = [healthy |-> TRUE, connected |-> FALSE]
    /\ UNCHANGED <<service, journal, broker, clock, bound, reports, attested>>

(* A snapshot that cannot be read ends the session.                         *)
LoseSession ==
    /\ link.healthy /\ link.connected
    /\ link' = [link EXCEPT !.connected = FALSE]
    /\ UNCHANGED <<service, books, journal, broker, clock, bound, reports, attested>>

Connect ==
    /\ link.healthy /\ ~link.connected
    /\ link' = [link EXCEPT !.connected = TRUE]
    /\ UNCHANGED <<service, books, journal, broker, clock, bound, reports, attested>>

EvidenceNext ==
    \/ \E o \in Orders : \/ ExecuteAtVenue(o) \/ ExpireAtVenue(o)
                         \/ Place(o) \/ Book(o) \/ CloseOrder(o)
    \/ \E a \in DOMAIN Actions : Announce(a)
    \/ \E n \in broker.notices : Settle(n) \/ ApplyAction(n)
    \/ Tick
    \/ Reconcile
    \/ \E issue \in books.unexplained : Explain(issue)
    \/ \E d \in DOMAIN Closes : \E r \in reports : RecordSession(d, r)
    \/ RestartAccount
    \/ LoseSession
    \/ Connect

EvidenceSpec == EvidenceInit /\ [][EvidenceNext]_evidenceVars

-----------------------------------------------------------------------------
Notices == [action : DOMAIN Actions, held : Int]

EvidenceTypeOK ==
    /\ service \in {"PAPER", "LIVE"}
    /\ \A b \in {books, journal} :
          b \in [quantity : Int, owned : [Holders -> Int], cash : Int,
                placed : SUBSET Orders, booked : SUBSET Orders, closed : SUBSET Orders,
                receipts : SUBSET Notices, unexplained : SUBSET {"ORDERS", "POSITION", "CASH"},
                latest : 0..bound.reports,
                days : SUBSET [session : DOMAIN Closes, clean : BOOLEAN]]
    /\ link \in [healthy : BOOLEAN, connected : BOOLEAN]
    /\ broker \in [quantity : Int, cash : Int, executed : SUBSET Orders,
                   expired : SUBSET Orders, notices : SUBSET Notices,
                   settled : SUBSET DOMAIN Actions]
    /\ clock \in 0..bound.time /\ bound \in Bounds
    /\ reports \subseteq [id : 1..bound.reports, at : 0..bound.time, clean : BOOLEAN]
    /\ attested \subseteq DOMAIN Closes

(* What of the position no strategy's share accounts for.                   *)
Unowned(b) == b.quantity - Total(b.owned)

Splits(receipts) == {r \in receipts : Actions[r.action].kind = "SPLIT"}

(* Whatever order executions, late evidence, settlements, repeated requests *)
(* and restarts came in: once everything the venue executed is booked and   *)
(* every action it settled is applied, the service holds the venue's        *)
(* position and cash, and until a split is applied the strategies' shares   *)
(* make up its position (apply_corporate_action against held_quantity).     *)
BooksConverge ==
    link.healthy =>
        /\ Splits(books.receipts) = {} => Unowned(books) = 0
        /\ (/\ books.booked = broker.executed
            /\ \A n \in broker.notices : n.action \in broker.settled /\ Applied(n.action)) =>
                books.quantity = broker.quantity /\ books.cash = broker.cash

(* How far a split may cut the shares off, in units of the ratio's          *)
(* denominator: less than a unit for each share that does not scale evenly. *)
CutOff(a, b) ==
    Total([s \in Holders |-> IF (b.owned[s] * Actions[a].over) % Actions[a].under = 0
                             THEN 0 ELSE Actions[a].under - 1])

(* Nothing but a split takes the shares apart from the position, and it     *)
(* scales what no strategy owns with the rest, up to the fraction it cuts   *)
(* off each share: an execution, even a late one of a closed order, and a   *)
(* dividend leave it as it was (apply_split, apply_accounted_fill).  A      *)
(* restart returns to the record.                                           *)
SharesFollow ==
    books' # journal =>
        LET splits == Splits(books'.receipts \ books.receipts)
        IN  /\ splits = {} => Unowned(books') = Unowned(books)
            /\ \A r \in splits :
                  LET a    == r.action
                      gone == Actions[a].under * Unowned(books') - Actions[a].over * Unowned(books)
                  IN  -CutOff(a, books) <= gone /\ gone <= CutOff(a, books)

(* A day on record as clean has behind it a reconciliation, made at or      *)
(* after its close, that found nothing; no failed append and no restart     *)
(* takes back one the caller was told of (record_paper_session,             *)
(* record_live_session).                                                    *)
DaysAreEarned ==
    /\ \A day \in journal.days :
          day.clean => \E r \in reports : r.clean /\ r.at >= Closes[day.session]
    /\ \A d \in attested : SessionDay(d, TRUE) \in journal.days

(* The two together: the account is what the operator attested.             *)
AccountIsAttested == BooksConverge /\ DaysAreEarned
=============================================================================

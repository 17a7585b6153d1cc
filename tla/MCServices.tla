----------------------------- MODULE MCServices -----------------------------
(***************************************************************************)
(* The components that share no state, in one model: each behaviour runs    *)
(* one of them, chosen at the start.  The state space is the sum of theirs, *)
(* and they take turns with the same variables.                             *)
(***************************************************************************)
EXTENDS Integers, Sequences

VARIABLES component, v1, v2, v3, v4, v5, v6, v7, v8, v9, v10, v11

CONSTANTS Scale, Intents, Requests, MarketBars, Ratios, Payouts, LatencyBars, FillCap, FlatFee,
          Slippage, QuantityLimit, PriceCollar, Headlines, Vectors, OpeningCash, MaxBars,
          MaxActions
Replay == INSTANCE Backtest WITH
    driver <- v1, replayed <- v2, engine <- v3, ledger <- v4, snapshot <- v5, stream <- v6

CONSTANTS Whole, Quantities, Prices, Fees, SplitRatios, Dividends, Settlements, BorrowAvailable,
          BorrowRate, MarginRate, Deposit, MaxFills, MaxLifecycle
Margin == INSTANCE Accounts WITH
    portfolio <- v1, taxLots <- v2, mark <- v3, applied <- v4

CONSTANTS ParentQuantities, Bps, SliceCounts, Urgencies, Displays, Interval, WeightCurves,
          VolumeCurves, Participations, QuoteBooks, Limits, MaxSlices
Plans == INSTANCE ExecutionPlans WITH
    planning <- v1

CONSTANTS Inventory, FileContents, FirstContents, ErasureRequests, LatestInstant, MaxPlans,
          MaxDeletions, MaxEdits
CONSTANTS Artifacts, Builds, FirstBuild, SigningKeys, TrustedKey, Commerce, Tenant, LatestAsOf,
          MaxRecords, MaxReleases, MaxRebuilds
CONSTANTS Formats, Owners, Entries, Provisions, MaxLines, MaxTears
CONSTANTS Documents, Operators, Kinds, DayTicks, Instants, MaxEntries
CONSTANTS Lot, Shares, Trades, Actions, Closes, Bounds
CONSTANTS Quotes, MaxArrivals, MaxRepairs
CONSTANTS Tickets, Strategies, Sheets, FirstSheet, Cash, MaxPosition, MaxShort, MaxGross,
          MaxNet, StrategyLimit, MaxDailyLoss, MaxDrawdown, MaxRate, Window, MaxOpen, DayLength,
          Scopes, MaxClock
(* Deletions and releases, the evidence files, the workbench, what is       *)
(* attested about an account, the limits of a portfolio, and the gaps of a  *)
(* recording.                                                               *)
Commercial == INSTANCE Commercial_proofs WITH
    files <- v1, held <- v2, plans <- v3, unreceipted <- v4, receipts <- v5, reviews <- v6,
    deletions <- v7, edits <- v8,
    root <- v1, manifests <- v2, signatures <- v3, configured <- v4, commerce <- v5,
    certificates <- v6, rebuilds <- v7,
    format <- v1, file <- v2, owners <- v3, told <- v4, tears <- v5,
    configuration <- v1, completions <- v2, workbook <- v3, verifiable <- v4,
    service <- v1, books <- v2, journal <- v3, link <- v4, broker <- v5, clock <- v6,
    bound <- v7, reports <- v8, attested <- v9,
    Intents <- Tickets, risk <- v1, riskDisk <- v2, wall <- v3, ruled <- v4,
    monitor <- v1, recording <- v2
(* Deadlines, effects and ends are dates.                                   *)
ASSUME CommercialAssumption ==
    Commercial!Dates /\ Commercial!RecordsAreDated /\ Commercial!FirstIsABuild
(* The source has four journals; a record cut short is not a record.        *)
ASSUME FilesAssumption ==
    /\ Formats \subseteq {"PAPER", "LIVE", "OPERATIONS", "COMMERCIAL"}
    /\ "CUT" \notin Entries
(* A document declares its fields (DashboardSnapshot).                      *)
ASSUME OperationsAssumption == Commercial!DocumentsAreSnapshots
(* Orders and shares are of whole units; only a split has a ratio.          *)
ASSUME AccountAssumption == Commercial!TradesAreWhole
(* An intent is of whole units for one strategy; prices and limits are      *)
(* numbers, the initial cash and the position limits not negative.          *)
ASSUME LimitsAssumption == Commercial!IntentsAreSound
(* A quote has a positive sequence number, of a width.                      *)
ASSUME QuotesAssumption == Commercial!QuotesAreSequenced

CONSTANTS FailureLimit, LockoutTicks, ChallengeTicks, SessionTicks, RecoveryCodes, Tokens,
          MaxNow, MaxSessions, MaxVersion
CONSTANTS PipeFrames, MaxRequests
CONSTANTS ClientOrders, OrderIds, Sessions
CONSTANTS Grants, CallOf, Scenarios, RouteOrders, ScopeCovers, SessionSeconds, MaxTime, MaxStarts
(* The accounts, the routes that accept their commands, the workers, and    *)
(* the bridge to IBKR.                                                      *)
Access == INSTANCE Access_proofs WITH
    now <- v1, account <- v2, failures <- v3, challenges <- v4, sessions <- v5,
    spentFactors <- v6, guesses <- v7,
    Operators <- DOMAIN Grants, Orders <- RouteOrders, Covers <- ScopeCovers,
    time <- v1, starts <- v2,
    expires <- v3, calls <- v4, memory <- v5, healthy <- v6, connected <- v7, journal <- v8,
    halted <- v9, sent <- v10, held <- v11,
    client <- v1, outgoing <- v2, writer <- v3, stdin <- v4, process <- v5, stdout <- v6,
    reader <- v7, incoming <- v8,
    session <- v1, ibkr <- v2, asked <- v3, wire <- v4, bridge <- v5, task <- v6, memo <- v7
(* LOGIN_FAILURE_LIMIT and LOCKOUT_SECONDS are positive.                    *)
ASSUME IdentityAssumption == FailureLimit \in Nat \ {0} /\ LockoutTicks \in Nat
(* A call names one of the requests of the API, by an operator, on a route. *)
ASSUME RoutesAssumption == Access!CallsAreRequests
(* IBKR numbers the orders from 1, and an order is of one lot or more.      *)
ASSUME BridgeAssumption == Access!OrdersAreNumbered

AccountOrder(strategy, side, quantity) ==
    [strategy |-> strategy, side |-> side, quantity |-> quantity]
AccountOrders ==
    [a |-> AccountOrder("s1", "BUY", 20), b |-> AccountOrder("s1", "SELL", 20),
     c |-> AccountOrder("s2", "BUY", 10)]
Course(orders, actions, days, trials) ==
    [orders |-> orders, actions |-> actions, days |-> days, trials |-> trials]
(* A round trip over a split; two purchases over two days and a failure;    *)
(* all three orders, of which the sale may cross into a short position.     *)
FourCourses ==
    {Course({"a", "b"}, 1, 0, 0), Course({"a", "c"}, 0, 1, 1), Course({"a", "b", "c"}, 0, 0, 0),
     Course({"a", "c"}, 1, 0, 1)}
Ledgers == INSTANCE AccountBooks WITH
    Whole <- 20, Orders <- AccountOrders, Prices <- {45, 70}, Fees <- {21}, Chunk <- 10,
    Deposit <- 200, MaxPosition <- 30, MaxShort <- 10, MaxGross <- 150, MaxDailyLoss <- 45,
    MaxDrawdown <- 4, MarginRate <- 10, MaxMargin <- 14, SplitRatios <- {10, 25},
    Dividends <- {3}, LotSize <- 1, Courses <- FourCourses,
    books <- v1, record <- v2, made <- v3, halted <- v4, today <- v5, bound <- v6

Evaluates(evaluations, edits, locks, packages, copies, signs, faults, run, from, on, by) ==
    [evaluations |-> evaluations, edits |-> edits, locks |-> locks, packages |-> packages,
     copies |-> copies, signs |-> signs, faults |-> faults, procs |-> run, sources |-> from,
     datasets |-> on, pythons |-> by]
(* Two evaluations at once that end early; an author who edits while one    *)
(* runs; unsuitable sources and data; signatures and interpreters; members  *)
(* copied between two capsules; two processes that write one capsule.       *)
SixEvaluations ==
    {Evaluates(2, 1, 0, 0, 0, 0, 2, {"p", "q"}, {"s1", "s2"}, {"b1"}, {"py1"}),
     Evaluates(1, 2, 1, 1, 0, 0, 0, {"p"}, {"s1", "s2"}, {"b1"}, {"py1"}),
     Evaluates(1, 0, 1, 1, 0, 0, 1, {"p"}, {"s1", "s2", "s3"}, {"b1", "b2", "b3"}, {"py1"}),
     Evaluates(1, 0, 1, 1, 0, 2, 1, {"p"}, {"s1"}, {"b1"}, {"py1", "py2"}),
     Evaluates(2, 0, 1, 2, 1, 1, 0, {"p"}, {"s1"}, {"b1", "b2"}, {"py1"}),
     Evaluates(1, 0, 1, 2, 0, 0, 1, {"p", "q"}, {"s1"}, {"b1"}, {"py1"})}
ThreeSources ==
    [s1 |-> [draws |-> {0}, vendored |-> TRUE], s2 |-> [draws |-> {0, 1}, vendored |-> TRUE],
     s3 |-> [draws |-> {0}, vendored |-> FALSE]]
Evals == INSTANCE Evaluations WITH
    Procs <- {"p", "q"}, Strategies <- ThreeSources,
    Datasets <- [b1 |-> [applied |-> 0, given |-> FALSE], b2 |-> [applied |-> 1, given |-> TRUE],
                 b3 |-> [applied |-> 0, given |-> TRUE]],
    Directories <- {"d1", "d2"}, TrustedKeys <- {"k1"}, Courses <- SixEvaluations,
    tree <- v1, published <- v2, store <- v3, work <- v4, capsules <- v5, history <- v6,
    left <- v7

Ask(kind, deltas, limit, amount) ==
    [kind |-> kind, deltas |-> deltas, limit |-> [kind |-> limit, amount |-> amount],
     admissible |-> TRUE]
(* A market order, a purchase and a sale with a limit, a combination for a  *)
(* debit and one for a credit, a close, and a request that is malformed.    *)
SevenAsks ==
    [b |-> Ask("SINGLE", [x |-> 1, y |-> 0], "NONE", 0),
     r |-> Ask("SINGLE", [x |-> 1, y |-> 0], "PRICE", 3),
     s |-> Ask("SINGLE", [x |-> -1, y |-> 0], "PRICE", 4),
     k |-> Ask("COMBO", [x |-> 1, y |-> -1], "DEBIT", 1),
     w |-> Ask("COMBO", [x |-> -1, y |-> 1], "CREDIT", 1),
     c |-> Ask("CLOSE", "x", "NONE", 0),
     l |-> [Ask("SINGLE", [x |-> 1, y |-> 0], "NONE", 0) EXCEPT !.admissible = FALSE]]
AskedFor(ids, commands, ticks, starts) ==
    [ids |-> ids, commands |-> commands, ticks |-> ticks, starts |-> starts]
FiveDesks ==
    {AskedFor({"b", "s", "c"}, 3, 0, 1), AskedFor({"b", "c"}, 4, 1, 1),
     AskedFor({"k", "w", "l"}, 3, 1, 1), AskedFor({"r", "k", "c"}, 2, 0, 2),
     AskedFor({"b", "r"}, 2, 1, 2)}

CONSTANTS Legs, Ratio, Units, Receipts
CONSTANTS Writers, EventIds, Keys, Aggregates, Bodies, MaxCalls
(* The event store, the combination orders and the desktop.                 *)
Trading == INSTANCE Trading_proofs WITH
    domainEvents <- v1, outbox <- v2, writers <- v3, answers <- v4,
    kernel <- v1, combo <- v2, comboDisk <- v3, comboRoute <- v4, refused <- v5,
    Requests <- SevenAsks, Instruments <- {"x", "y"},
    MarkSets <- {[x |-> 3, y |-> 2], [x |-> 5, y |-> 3]}, MaxAge <- 1, MaxPosition <- 2,
    MaxShort <- 1, Scenarios <- FiveDesks, Flat <- [x |-> 0, y |-> 0],
    clock <- v1, oms <- v2, disk <- v3, venue <- v4, command <- v5, receipts <- v6,
    fills <- v7, limits <- v8
(* A combination is of whole units, of legs with signed ratios.             *)
ASSUME CombosAssumption == Trading!CombosAreApproved
(* Requests are of amounts of the instruments, or close one of them.        *)
ASSUME DesktopAssumption == Trading!RequestsAreFormed

TradeOf(id, of, at, sequence, price, quantity) ==
    [kind |-> "TRADE", id |-> id, instrument |-> of, at |-> at, sequence |-> sequence,
     price |-> price, quantity |-> quantity]
ActionOn(id, at, type, value) ==
    [kind |-> "ACTION", id |-> id, instrument |-> 1, at |-> at, type |-> type, value |-> value]
HeadlineOf(id, source, sequence, at, received, about) ==
    [kind |-> "HEADLINE", id |-> id, source |-> source, sequence |-> sequence, at |-> at,
     received |-> received, about |-> about]
SnapshotOf(id, product, source, sequence, sourced, received, prices) ==
    [kind |-> "SNAPSHOT", id |-> id, instrument |-> 1, product |-> product, source |-> source,
     sequence |-> sequence, sourced |-> sourced, received |-> received, prices |-> prices]
Spread(least, most) == [bid |-> least, ask |-> most]
RateFrom(base, quote, rate, observed) ==
    [kind |-> "RATE", base |-> base, quote |-> quote, rate |-> rate, observed |-> observed]
VersionOf(from, to, multiplier) ==
    [kind |-> "VERSION", instrument |-> 1, from |-> from, to |-> to, multiplier |-> multiplier]
SessionOf(from, to) == [kind |-> "SESSION", from |-> from, to |-> to]
HaltOf(id, scope, from, to) ==
    [kind |-> "HALT", id |-> id, scope |-> scope, from |-> from, to |-> to]
MemberOf(from, to) == [kind |-> "MEMBERSHIP", instrument |-> 1, from |-> from, to |-> to]
TermsOf(multiplier) == [kind |-> "TERMS", instrument |-> 1, multiplier |-> multiplier]
EventAt(id, at) == [kind |-> "LIFECYCLE", id |-> id, at |-> at]
BarAt(of, at) ==
    [at |-> at, instrument |-> of, open |-> 10, high |-> 10, low |-> 10, close |-> 10,
     volume |-> 4]
(* The same question twice of rows that may have grown, or one feed that is *)
(* replayed with bars.                                                      *)
Studied(rows, questions) ==
    {[rows |-> rows, questions |-> {q}, asks |-> 2, bars |-> <<>>] : q \in questions}
Replayed(rows, bars) ==
    [rows |-> rows, questions |-> {[kind |-> "FEED"]}, asks |-> 1, bars |-> bars]
AskedAt(instants) ==
    {[kind |-> "REFERENCE", instrument |-> 1, at |-> at] : at \in instants}
PricedAt(product, date, at, age) ==
    [kind |-> "PRICE", instrument |-> 1, product |-> product, date |-> date, at |-> at,
     age |-> age]
Converted(base, at) ==
    [kind |-> "CONVERT", base |-> base, quote |-> 3 - base, amount |-> 100, at |-> at, age |-> 2]
ThreeHeadlines ==
    {HeadlineOf(1, 1, 1, 1, 5, <<1, 2>>), HeadlineOf(2, 1, 2, 2, 3, <<1>>),
     HeadlineOf(3, 1, 1, 1, 5, <<2>>)}
Day == SessionOf(1, 6)
AllDay == VersionOf(1, 6, 1)
AllStudies ==
    \* trades of one instant; what repeats an identity or a sequence
    Studied({TradeOf(2, 1, 1, 2, 14, 4), TradeOf(1, 1, 1, 3, 8, 2), TradeOf(3, 1, 2, 1, 12, 2)},
            {[kind |-> "BARS"]})
    \union Studied({TradeOf(1, 1, 2, 1, 10, 2), TradeOf(1, 1, 2, 2, 14, 4),
                    TradeOf(2, 2, 1, 1, 12, 2)}, {[kind |-> "BARS"]})
    \* a split and a dividend of one instant, a reverse split; a dividend too large
    \union Studied({TradeOf(1, 1, 0, 1, 41, 4), ActionOn(2, 3, "SPLIT", 20),
                    ActionOn(3, 3, "DIVIDEND", 2), ActionOn(1, 5, "SPLIT", 5)},
                   {[kind |-> "BARS"]})
    \union Studied({TradeOf(1, 1, 0, 1, 40, 4), TradeOf(2, 1, 3, 2, 41, 2),
                    ActionOn(1, 2, "DIVIDEND", 40)}, {[kind |-> "BARS"]})
    \* prices of two sources, of a swap, and of one sequence number
    \union Studied({SnapshotOf(1, "SPOT", 1, 1, 1, 2, [d1 |-> Spread(10, 12)]),
                    SnapshotOf(2, "SPOT", 1, 2, 1, 4, [d1 |-> Spread(20, 22)]),
                    SnapshotOf(3, "SPOT", 2, 1, 2, 5, [d1 |-> Spread(30, 32)])},
                   {PricedAt("SPOT", "d1", 4, 2), PricedAt("SPOT", "d1", 6, 2)})
    \union Studied({SnapshotOf(2, "SPOT", 1, 2, 1, 4, [d1 |-> Spread(20, 22)]),
                    SnapshotOf(4, "SWAP", 1, 3, 3, 4,
                               [d1 |-> Spread(2, 4), d2 |-> Spread(4, 6)])},
                   {PricedAt("SWAP", "d2", 6, 2)})
    \union Studied({SnapshotOf(1, "SPOT", 1, 1, 1, 4, [d1 |-> Spread(10, 12)]),
                    SnapshotOf(2, "SPOT", 1, 1, 1, 4, [d1 |-> Spread(20, 22)]),
                    SnapshotOf(3, "SPOT", 2, 1, 2, 4, [d1 |-> Spread(30, 32)])},
                   {PricedAt("SPOT", "d1", 4, 1)})
    \* two rates of a pair and one of its inverse
    \union Studied({RateFrom(1, 2, 20, 1), RateFrom(1, 2, 40, 3), RateFrom(2, 1, 5, 4)},
                   {Converted(1, 3), Converted(1, 6), Converted(2, 3), Converted(2, 6)})
    \* headlines that arrive out of order, and one that repeats a sequence number
    \union Studied(ThreeHeadlines, {[kind |-> "FEED"]})
    \union {Replayed(ThreeHeadlines \union {HeadlineOf(4, 2, 1, 4, 4, <<>>)},
                     <<BarAt(1, 1), BarAt(1, 2), BarAt(2, 2), BarAt(1, 3)>>),
            Replayed(ThreeHeadlines, <<BarAt(1, 2), BarAt(1, 2)>>)}
    \* versions that follow one another or overlap; halts, sessions, memberships, terms
    \union Studied({Day, VersionOf(1, 4, 1), VersionOf(4, 6, 1), TermsOf(1)}, AskedAt({3, 4}))
    \union Studied({Day, VersionOf(1, 4, 1), VersionOf(2, 6, 2), TermsOf(2)}, AskedAt({3}))
    \union Studied({Day, AllDay, HaltOf(1, {1, 2}, 2, 4), HaltOf(2, {1}, 3, 6)}, AskedAt({5}))
    \union Studied({Day, AllDay, HaltOf(1, {1}, 2, 4), HaltOf(2, {1}, 3, 6)}, AskedAt({3}))
    \union Studied({SessionOf(1, 4), SessionOf(5, 6), AllDay, MemberOf(2, 4)}, AskedAt({3, 4}))
    \union Studied({Day, AllDay, MemberOf(1, 4), MemberOf(3, 6)}, AskedAt({3}))
    \union Studied({Day, AllDay, TermsOf(1), TermsOf(2)}, AskedAt({3}))
    \union Studied({Day, AllDay, TermsOf(1), EventAt(1, 3), EventAt(2, 2)}, AskedAt({3}))
Inputs == INSTANCE MarketInputs WITH
    Studies <- AllStudies, BarSeconds <- 2, Unit <- 10,
    known <- v1, answers <- v2, replay <- v3, study <- v4

-----------------------------------------------------------------------------
(* Small instances.                                                         *)
LegRatios == [near |-> 2, far |-> -1]

Bar(close, low, high, lot) ==
    [close |-> close, low |-> low, high |-> high, lot |-> lot, tick |-> 1]
TwoBars == {Bar(4, 3, 5, 1), Bar(6, 5, 7, 2)}

Asks(side, type, limit, quantity) ==
    [side |-> side, type |-> type, limit |-> limit, quantity |-> quantity]
TwoRequests == {Asks("BUY", "LIMIT", 5, 2), Asks("SELL", "MARKET", 0, 1)}

(* The third entry provisions the tenant of the first again.                *)
Tenants == [e1 |-> "t1", e2 |-> "t2", e3 |-> "t1"]

ThreeCurves == {<<1, 1>>, <<3, 1, 2>>, <<1, 4, 1>>}
TwoVolumes == {<<4, 0, 6>>, <<0, 9>>}
Quote(available, price, fee, rank, least, most) ==
    [available |-> available, price |-> price, fee |-> fee, rank |-> rank,
     min |-> least, max |-> most]
Books ==
    {<<Quote(a, 4, 2, 1, 1, 9), Quote(2, 5, f, 1, 1, m), Quote(3, 7, 0, 0, n, 9)>> :
        a \in 1..2, f \in 0..1, m \in {1, 9}, n \in 1..2}

Tick(sequence, id, time) == [sequence |-> sequence, id |-> id, time |-> time]
SevenTicks ==
    {Tick(1, 1, 1), Tick(2, 2, 3), Tick(3, 3, 2), Tick(3, 3, 4), Tick(4, 4, 4), Tick(4, 2, 5),
     Tick(5, 5, 5)}

FourShares == [s1 |-> 3, s2 |-> 1]
TwoTrades ==
    [o1 |-> [units |-> 2, price |-> 3, strategy |-> "s2"],
     o2 |-> [units |-> -2, price |-> 2, strategy |-> "s1"]]
Event(kind, over, under, payment) ==
    [kind |-> kind, over |-> over, under |-> under, payment |-> payment]
ThreeActions ==
    [a1 |-> Event("SPLIT", 2, 1, 0), a2 |-> Event("DIVIDEND", 1, 1, 1),
     a3 |-> Event("SPLIT", 1, 2, 0)]
OneClose == [d1 |-> 1]
Within(orders, announced, reported, time) ==
    [orders |-> orders, announced |-> announced, reports |-> reported, time |-> time]
FourBounds ==
    {Within({"o1", "o2"}, 1, 0, 0), Within({"o1"}, 2, 0, 0), Within({"o1"}, 0, 2, 1),
     Within({}, 1, 2, 1)}

Ticket(x, y, units, strategy) ==
    [legs |-> [x |-> x, y |-> y], units |-> units, strategy |-> strategy]
ThreeTickets ==
    [a |-> Ticket(1, 0, 2, "s1"), b |-> Ticket(-1, 1, 1, "s2"), c |-> Ticket(0, -1, 1, "s2")]
OpeningSheet == [x |-> 2, y |-> 6]
ThreeSheets == {OpeningSheet, [x |-> 4, y |-> 1], [x |-> 40, y |-> 6]}

Approval(approver, revision, cap) ==
    [requester |-> "r", approver |-> approver, at |-> 1, trusted |-> TRUE,
     subject |-> [revision |-> revision, cap |-> cap]]
ApprovedDocument ==
    [revision |-> 1, cap |-> 6, displayed |-> 6, gross |-> 5, hour |-> 1, done |-> -1,
     control |-> "TWO_PERSON", enabled |-> TRUE, audited |-> TRUE, reconciled |-> TRUE,
     connected |-> TRUE, switched |-> FALSE, grant |-> Approval("a", 1, 6)]
(* Among them a limit approved for another value, one that is not the       *)
(* approved value, and an approval by the requester.                        *)
SixDocuments ==
    {ApprovedDocument,
     [ApprovedDocument EXCEPT !.cap = 4, !.displayed = 4, !.grant = Approval("a", 1, 4),
                              !.done = 1, !.connected = FALSE],
     [ApprovedDocument EXCEPT !.cap = 9, !.displayed = 9, !.audited = FALSE],
     [ApprovedDocument EXCEPT !.displayed = 4],
     [ApprovedDocument EXCEPT !.grant = Approval("r", 1, 6)],
     [ApprovedDocument EXCEPT !.enabled = FALSE, !.switched = TRUE]}

BridgeSession(ops, tasks, acts) ==
    [ops |-> ops \union {"SUBMIT"}, tasks |-> tasks, acts |-> acts, lots |-> 1, wire |-> 0,
     repeats |-> 0, bridges |-> 1, breaks |-> FALSE]
(* Cancellations with late callbacks; snapshots that follow one that timed  *)
(* out; partial executions; late callbacks after a snapshot; connections    *)
(* and processes that end.                                                  *)
FiveSessions ==
    {[BridgeSession({"CANCEL"}, 3, {"REFUSE", "EXECUTE", "CLOSE"}) EXCEPT !.wire = 1, !.repeats = 1],
     BridgeSession({"SNAPSHOT"}, 3, {}),
     [BridgeSession({"SNAPSHOT"}, 2, {"EXECUTE", "CLOSE"}) EXCEPT !.lots = 2],
     [BridgeSession({"SNAPSHOT"}, 2, {"REFUSE", "CLOSE"}) EXCEPT !.repeats = 1],
     [BridgeSession({"CONNECT"}, 2, {"REFUSE", "EXECUTE"}) EXCEPT !.breaks = TRUE, !.bridges = 2]}

Asset(tenant, class, until) ==
    [tenant |-> tenant, class |-> class, until |-> until, subjects |-> {"s1"}]
ThreeAssets ==
    [x1 |-> Asset("t1", "CUSTOMER_CONTENT", 1), x2 |-> Asset("t1", "AUDIT_EVIDENCE", 0),
     x3 |-> Asset("t2", "CUSTOMER_CONTENT", 1)]
OneErasure == {[tenant |-> "t1", subject |-> "s1", kind |-> "ERASURE", at |-> 1]}

Provision(tenant) ==
    [kind |-> "PROVISION", tenant |-> tenant, plan |-> "SELF_HOSTED", status |-> "NONE",
     effective |-> 0, expires |-> 0]
Observe(plan, status, effective) ==
    [kind |-> "OBSERVE", tenant |-> "t1", plan |-> plan, status |-> status,
     effective |-> effective, expires |-> 2]
FourRecords ==
    {Provision("t1"), Provision("t2"), Observe("SELF_HOSTED", "PAID", 0),
     Observe("PROFESSIONAL", "SUSPENDED", 1)}
RetainedKey == [id |-> "release", key |-> "k1"]
TwoKeys == {RetainedKey, [id |-> "release", key |-> "k2"]}

(* A risk manager who also trades, and a trader, whose release is denied.   *)
Roles ==
    [ann |-> {"KillSwitchOperate", "PaperTrade", "RiskPolicyManage"},
     bob |-> {"PaperTrade"}]
Command(rpc, by, route, on) == [rpc |-> rpc, by |-> by, route |-> route, on |-> on]
Commands ==
    [halt |-> Command("ACTIVATE", "ann", "PAPER", "all"),
     halt2 |-> Command("ACTIVATE", "ann", "PAPER", "all"),
     free |-> Command("RELEASE", "ann", "PAPER", "all"),
     stop |-> Command("ACTIVATE", "ann", "LIVE", "all"),
     go |-> Command("RELEASE", "ann", "LIVE", "all"),
     usurp |-> Command("RELEASE", "bob", "LIVE", "all"),
     buy |-> Command("SUBMIT", "bob", "PAPER", "o1"),
     again |-> Command("SUBMIT", "bob", "PAPER", "o1"),
     foreign |-> Command("SUBMIT", "ann", "PAPER", "o1"),
     drop |-> Command("CANCEL", "bob", "PAPER", "o1"),
     drop2 |-> Command("CANCEL", "bob", "PAPER", "o1"),
     sync |-> Command("RECONCILE", "ann", "PAPER", "account"),
     relink |-> Command("RECONNECT", "ann", "PAPER", "account"),
     split |-> Command("ADJUST", "ann", "PAPER", "split"),
     split2 |-> Command("ADJUST", "ann", "PAPER", "split")]
NineScenarios ==
    {{"halt", "free", "buy"}, {"halt", "halt2", "buy"}, {"stop", "go", "usurp"},
     {"buy", "again", "relink"}, {"buy", "foreign"}, {"buy", "drop", "drop2"},
     {"buy", "sync"}, {"buy", "split"}, {"split", "split2"}}
OneScope == [all |-> {"o1"}]

-----------------------------------------------------------------------------
(* How many of the variables each component uses.                           *)
Width ==
    [combo |-> 5, identity |-> 7, events |-> 4, replay |-> 6, worker |-> 8,
     files |-> 5, margin |-> 4, plans |-> 1, gaps |-> 2, account |-> 9,
     limits |-> 4, operations |-> 4, bridge |-> 7, retention |-> 8, release |-> 7,
     api |-> 11, books |-> 6, evaluations |-> 7, desktop |-> 8, inputs |-> 4]

Init ==
    /\ component \in DOMAIN Width
    /\ CASE component = "combo" -> Trading!ComboInit
         [] component = "identity" -> Access!Init
         [] component = "events" -> Trading!Init
         [] component = "replay" -> Replay!BacktestInit
         [] component = "worker" -> Access!WorkerInit
         [] component = "files" -> Commercial!FilesInit
         [] component = "margin" -> Margin!AccountsInit
         [] component = "plans" -> Plans!PlansInit
         [] component = "gaps" -> Commercial!GapsInit
         [] component = "account" -> Commercial!EvidenceInit
         [] component = "limits" -> Commercial!RiskInit
         [] component = "operations" -> Commercial!OperationsInit
         [] component = "bridge" -> Access!BridgeInit
         [] component = "retention" -> Commercial!RetentionInit
         [] component = "release" -> Commercial!ReleaseInit
         [] component = "api" -> Access!RoutesInit
         [] component = "books" -> Ledgers!BooksInit
         [] component = "evaluations" -> Evals!EvaluationInit
         [] component = "desktop" -> Trading!DesktopInit
         [] component = "inputs" -> Inputs!InputInit
    /\ IF Width[component] < 2 THEN v2 = "unused" ELSE TRUE
    /\ IF Width[component] < 3 THEN v3 = "unused" ELSE TRUE
    /\ IF Width[component] < 4 THEN v4 = "unused" ELSE TRUE
    /\ IF Width[component] < 5 THEN v5 = "unused" ELSE TRUE
    /\ IF Width[component] < 6 THEN v6 = "unused" ELSE TRUE
    /\ IF Width[component] < 7 THEN v7 = "unused" ELSE TRUE
    /\ IF Width[component] < 8 THEN v8 = "unused" ELSE TRUE
    /\ IF Width[component] < 9 THEN v9 = "unused" ELSE TRUE
    /\ IF Width[component] < 10 THEN v10 = "unused" ELSE TRUE
    /\ IF Width[component] < 11 THEN v11 = "unused" ELSE TRUE

(* A step of one component.                                                 *)
Runs(name) ==
    /\ component = name /\ component' = name
    /\ IF Width[name] < 2 THEN UNCHANGED v2 ELSE TRUE
    /\ IF Width[name] < 3 THEN UNCHANGED v3 ELSE TRUE
    /\ IF Width[name] < 4 THEN UNCHANGED v4 ELSE TRUE
    /\ IF Width[name] < 5 THEN UNCHANGED v5 ELSE TRUE
    /\ IF Width[name] < 6 THEN UNCHANGED v6 ELSE TRUE
    /\ IF Width[name] < 7 THEN UNCHANGED v7 ELSE TRUE
    /\ IF Width[name] < 8 THEN UNCHANGED v8 ELSE TRUE
    /\ IF Width[name] < 9 THEN UNCHANGED v9 ELSE TRUE
    /\ IF Width[name] < 10 THEN UNCHANGED v10 ELSE TRUE
    /\ IF Width[name] < 11 THEN UNCHANGED v11 ELSE TRUE

Next ==
    \/ Runs("combo") /\ Trading!ComboNext
    \/ Runs("identity") /\ Access!Next
    \/ Runs("events") /\ Trading!Next
    \/ Runs("replay") /\ Replay!BacktestNext
    \/ Runs("worker") /\ Access!WorkerNext
    \/ Runs("files") /\ Commercial!FilesNext
    \/ Runs("margin") /\ Margin!AccountsNext
    \/ Runs("plans") /\ Plans!PlansNext
    \/ Runs("gaps") /\ Commercial!GapsNext
    \/ Runs("account") /\ Commercial!EvidenceNext
    \/ Runs("limits") /\ Commercial!RiskNext
    \/ Runs("operations") /\ Commercial!OperationsNext
    \/ Runs("bridge") /\ Access!BridgeNext
    \/ Runs("retention") /\ Commercial!RetentionNext
    \/ Runs("release") /\ Commercial!ReleaseNext
    \/ Runs("api") /\ Access!RoutesNext
    \/ Runs("books") /\ Ledgers!BooksNext
    \/ Runs("evaluations") /\ Evals!EvaluationNext
    \/ Runs("desktop") /\ Trading!DesktopNext
    \/ Runs("inputs") /\ Inputs!InputNext

vars == <<component, v1, v2, v3, v4, v5, v6, v7, v8, v9, v10, v11>>

Spec ==
    /\ Init /\ [][Next]_vars
    /\ WF_vars(Runs("worker") /\ Access!WriterThread)
    /\ WF_vars(Runs("worker") /\ Access!ReaderThread)

-----------------------------------------------------------------------------
(* The variables of the component that runs keep their types.              *)
TypeOK ==
    /\ component \in DOMAIN Width
    /\ component = "combo" => Trading!ComboTypeOK
    /\ component = "identity" => Access!TypeOK
    /\ component = "events" => Trading!TypeOK
    /\ component = "replay" => Replay!BacktestTypeOK
    /\ component = "worker" => Access!WorkerTypeOK
    /\ component = "files" => Commercial!FilesTypeOK
    /\ component = "margin" => Margin!AccountsTypeOK
    /\ component = "plans" => Plans!PlansTypeOK
    /\ component = "gaps" => Commercial!GapsTypeOK
    /\ component = "account" => Commercial!EvidenceTypeOK
    /\ component = "limits" => Commercial!RiskTypeOK
    /\ component = "operations" => Commercial!OperationsTypeOK
    /\ component = "bridge" => Access!BridgeTypeOK
    /\ component = "retention" => Commercial!RetentionTypeOK
    /\ component = "release" => Commercial!ReleaseTypeOK
    /\ component = "api" => Access!RoutesTypeOK
    /\ component = "books" => Ledgers!BooksTypeOK
    /\ component = "evaluations" => Evals!EvaluationTypeOK
    /\ component = "desktop" => Trading!DesktopTypeOK
    /\ component = "inputs" => Inputs!InputTypeOK

(* The properties of the components, each stated in its module.             *)
CombosAgree == component = "combo" => Trading!CombosAgree /\ Trading!RefusedEvidenceBlocks
AccountIsGuarded ==
    /\ [](component = "identity" => Access!GuessesAreBounded /\ Access!SessionsAreCurrent)
    /\ [][component = "identity" => Access!FactorGrantsOnce]_vars
AppendsAreHonest == component = "events" => Trading!AppendsAreHonest
ReplayIsFaithful ==
    /\ component = "replay" => Replay!BooksAgree /\ Replay!NoLookAhead
    /\ component = "evaluations" => Evals!EvaluationsReproduce
    /\ component = "inputs" => Inputs!InputsArePointInTime
WorkersAnswerAndEnd ==
    /\ [](component = "worker" => Access!AnswersArePaired)
    /\ (component = "worker" /\ Access!Dropped) ~> (component = "worker" /\ Access!ThreadsDone)
EvidenceSurvives == component = "files" => Commercial!EvidenceSurvives
MarginBooksAgree == component = "margin" => Margin!MarginBooksAgree
PlansAreSound == component = "plans" => Plans!PlansAreSound
GapsAreKnown == component = "gaps" => Commercial!GapsAreKnown
AccountIsAttested ==
    /\ [](component = "account" => Commercial!AccountIsAttested)
    /\ [][component = "account" => Commercial!SharesFollow]_vars
LimitsRemember ==
    /\ [](component = "limits" => Commercial!ExposureBounded)
    /\ [][component = "limits" => Commercial!LimitsHold /\ Commercial!OverlapsBind]_vars
WorkbenchIsHonest == component = "operations" => Commercial!WorkbenchIsHonest
BridgeIsFaithful ==
    /\ [](component = "bridge" => Access!BridgeAgrees)
    /\ [][component = "bridge" => Access!BridgeStays]_vars
DeletionsAreReviewed == component = "retention" => Commercial!DeletionsAreReviewed
ReleasesAreEarned ==
    /\ [](component = "release" => Commercial!ReadinessIsEarned)
    /\ [][component = "release" => Commercial!EntitlementIsStable]_vars
CommandsAreAccountable ==
    /\ component = "api" => Access!CommandsAreAccountable
    /\ component = "desktop" => Trading!DesktopOrdersStand
BooksSurvive ==
    /\ [](component = "books" => Ledgers!BooksBalance /\ Ledgers!RecordsReopen)
    /\ [][component = "books" => Ledgers!LimitsKept]_vars
=============================================================================

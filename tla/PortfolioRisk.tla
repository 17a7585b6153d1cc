--------------------------- MODULE PortfolioRisk ---------------------------
(***************************************************************************)
(* Pre-trade risk of the PAPER service over time and over the whole         *)
(* account: core/paper/src/service/risk.rs and portfolio_risk.rs with the    *)
(* kernel in core/risk/src/evaluate.rs, kill-switch scopes in                *)
(* core/paper/src/kill_switch.rs.  A single order is an order of one leg.   *)
(*                                                                         *)
(* Approved orders fill at the venue in any order and in part; marks move   *)
(* only when an intent on the instrument is evaluated.  The peak, the daily *)
(* baseline and the marks are journaled with a decision and lost with an    *)
(* assessment that no decision follows.  Of the aggregate limits, gross and *)
(* net exposure, the strategy buckets, daily loss, drawdown and rate are    *)
(* here; leverage, concentration, margin and the other buckets are left     *)
(* out, as are the checks of an intent by itself.                           *)
(***************************************************************************)
EXTENDS Integers, FiniteSets, FiniteSetsExt

CONSTANTS Intents,       \* intent -> its legs, units, strategy
          Strategies,
          Sheets,        \* price sheets: instrument -> the price it is quoted at
          FirstSheet,    \* the marks before the first evaluation
          Cash,          \* initial cash
          MaxPosition,   \* of an instrument, long
          MaxShort,      \* and short, if the account may
          MaxGross, MaxNet,
          StrategyLimit, \* gross exposure of one strategy
          MaxDailyLoss,
          MaxDrawdown,   \* in parts of Whole
          Whole,
          MaxRate, Window, \* orders decided in the last Window ticks
          MaxOpen,
          DayLength,     \* ticks in a day
          Scopes,        \* kill-switch scopes that are operated
          MaxClock       \* bound: the clock

VARIABLES risk,       \* what the service holds: books, orders, baselines, switches
          riskDisk,   \* the last journaled record
          wall,       \* the clock
          ruled       \* history: the latest approval, and its marks

riskVars == <<risk, riskDisk, wall, ruled>>

Instruments == DOMAIN FirstSheet
SumOver(f) == MapThenSumSet(LAMBDA x : f[x], DOMAIN f)
Abs(n) == IF n < 0 THEN -n ELSE n
Larger(a, b) == IF a >= b THEN a ELSE b
RiskDay == wall \div DayLength

NoOrder == [state |-> "NONE", filled |-> 0, price |-> 0, at |-> 0]

RiskInit ==
    /\ risk = [owned |-> [i \in Instruments |-> [s \in Strategies |-> 0]], cash |-> Cash,
               marks |-> FirstSheet,
               orders |-> [o \in DOMAIN Intents |-> NoOrder],
               peak |-> Cash, day |-> -1, baseline |-> 0, switches |-> {}]
    /\ riskDisk = risk
    /\ wall = 0
    /\ ruled = [marks |-> {}, order |-> "none"]

-----------------------------------------------------------------------------
(* The account as an evaluation sees it.                                    *)
Position(r, i) == SumOver(r.owned[i])
Equity(r) == r.cash + SumOver([i \in Instruments |-> Position(r, i) * r.marks[i]])

Works(r, o) == r.orders[o].state = "WORKING"
WorkingOrders(r) == {o \in DOMAIN Intents : Works(r, o)}
Remaining(r, o) == Intents[o].units - r.orders[o].filled
LegsOf(o) == {i \in Instruments : Intents[o].legs[i] # 0}
Unfilled(r, o, i) == Remaining(r, o) * Intents[o].legs[i]

(* Signed exposure of a leg that is unfilled, and of what a strategy holds. *)
Exposure(r, o, i) == Unfilled(r, o, i) * r.marks[i]
HeldExposure(r, i, s) == r.owned[i][s] * r.marks[i]

(* Every row of a strategy, the candidate like a working one, is added      *)
(* without netting.                                                         *)
RowsOf(r, o, s) == {w \in WorkingOrders(r) \union {o} : Intents[w].strategy = s}
Bucket(r, o, s) ==
    SumOver([i \in Instruments |->
        Abs(HeldExposure(r, i, s))
            + SumOver([w \in RowsOf(r, o, s) |-> Abs(Exposure(r, w, i))])])

(* apply_working_bounds: all of the candidate, and each working leg fills   *)
(* or does not.                                                             *)
BaseNet(r, o, i) == Position(r, i) * r.marks[i] + Exposure(r, o, i)
HighestNet(r, o) ==
    SumOver([i \in Instruments |->
        BaseNet(r, o, i)
            + SumOver([w \in WorkingOrders(r) |-> Larger(0, Exposure(r, w, i))])])
LowestNet(r, o) ==
    SumOver([i \in Instruments |->
        BaseNet(r, o, i)
            - SumOver([w \in WorkingOrders(r) |-> Larger(0, -Exposure(r, w, i))])])

Drawdown(r) == IF r.peak > Equity(r) THEN ((r.peak - Equity(r)) * Whole) \div r.peak ELSE 0

(* evaluate_portfolio_risk_with_candidates.                                 *)
AggregateFits(r, o) ==
    /\ SumOver([s \in Strategies |-> Bucket(r, o, s)]) <= MaxGross
    /\ Abs(LowestNet(r, o)) <= MaxNet /\ Abs(HighestNet(r, o)) <= MaxNet
    /\ \A s \in Strategies : Bucket(r, o, s) <= StrategyLimit
    /\ Equity(r) - r.baseline >= -MaxDailyLoss
    /\ Drawdown(r) <= MaxDrawdown

-----------------------------------------------------------------------------
(* The other checks of evaluate_risk and evaluate_combo_risk.               *)
WorkingDelta(r, i) == SumOver([w \in WorkingOrders(r) |-> Unfilled(r, w, i)])
Committed(r, o, i) == Position(r, i) + Unfilled(r, o, i) + WorkingDelta(r, i)

(* Faulty: the legs of a combination are not looked up.                     *)
CoversSingles(o) ==
    {"global", Intents[o].strategy} \union {i \in LegsOf(o) : Cardinality(LegsOf(o)) = 1}

Covers(o) == {"global", Intents[o].strategy} \union LegsOf(o)

OppositeSides(r, o) ==
    \E w \in WorkingOrders(r), i \in LegsOf(o) : Intents[w].legs[i] * Intents[o].legs[i] < 0

RecentOrders(r) ==
    {p \in DOMAIN Intents : r.orders[p].state # "NONE" /\ r.orders[p].at > wall - Window}

Debit(r, o) == SumOver([i \in Instruments |-> Intents[o].legs[i] * r.marks[i]])
Reserved(r) ==
    SumOver([w \in WorkingOrders(r) |-> Remaining(r, w) * Larger(0, r.orders[w].price)])

(* Toward flat, beyond what working orders already take off.                *)
Reduces(r, o, i) ==
    LET held  == Position(r, i)
        delta == Unfilled(r, o, i)
        taken == SumOver([w \in {v \in WorkingOrders(r) : Unfilled(r, v, i) * held < 0} |->
                             Abs(Unfilled(r, w, i))])
    IN  held * delta < 0 /\ Abs(delta) + taken <= Abs(held)

Approves(r, o) ==
    /\ Covers(o) \intersect r.switches = {}
    /\ ~OppositeSides(r, o)
    /\ Cardinality(RecentOrders(r)) < MaxRate
    /\ Cardinality(WorkingOrders(r)) < MaxOpen
    /\ \A i \in LegsOf(o) : Committed(r, o, i) \in -MaxShort..MaxPosition
    /\ Intents[o].units * Larger(0, Debit(r, o)) <= r.cash - Reserved(r)
    /\ IF Equity(r) > 0 THEN AggregateFits(r, o) ELSE \A i \in LegsOf(o) : Reduces(r, o, i)

(* The first evaluation of a day sets its baseline.                         *)
Based(r) == IF r.day = RiskDay THEN r ELSE [r EXCEPT !.day = RiskDay, !.baseline = Equity(r)]

(* Marks of the candidate's instruments, then the peak, then the baseline.  *)
Observed(sheet, o) ==
    LET marked == [risk EXCEPT !.marks =
                      [i \in Instruments |-> IF i \in LegsOf(o) THEN sheet[i] ELSE @[i]]]
    IN  Based([marked EXCEPT !.peak = Larger(@, Equity(marked))])

SaveRisk(r) == risk' = r /\ riskDisk' = r

(* submit_intent, submit_combo_intent: the decision is journaled either way. *)
(* The marks of an approval are remembered if the limits decided it.        *)
Submit(o, sheet) ==
    /\ risk.orders[o].state = "NONE"
    /\ LET r == Observed(sheet, o) IN
       IF Approves(r, o)
       THEN /\ SaveRisk([r EXCEPT !.orders[o] =
                        [state |-> "WORKING", filled |-> 0, price |-> Debit(r, o), at |-> wall]])
            /\ ruled' = [marks |-> IF Equity(r) > 0 THEN {r.marks} ELSE {}, order |-> o]
       ELSE SaveRisk(r) /\ UNCHANGED ruled
    /\ UNCHANGED wall

(* evaluate_combo_risk by itself: nothing is journaled.                     *)
Assess(o, sheet) ==
    /\ Cardinality(LegsOf(o)) > 1
    /\ risk' = Observed(sheet, o)
    /\ UNCHANGED <<riskDisk, wall, ruled>>

(* A unit of a working order fills at its price, all legs together; or the  *)
(* order closes.                                                            *)
Fill(o) ==
    /\ Works(risk, o)
    /\ LET owned == [i \in Instruments |->
                       [risk.owned[i] EXCEPT ![Intents[o].strategy] = @ + Intents[o].legs[i]]]
       IN  SaveRisk([risk EXCEPT !.owned = owned, !.cash = @ - risk.orders[o].price,
                             !.orders[o].filled = @ + 1,
                             !.orders[o].state = IF Remaining(risk, o) = 1 THEN "DONE" ELSE @])
    /\ UNCHANGED <<wall, ruled>>

EndOrder(o) ==
    /\ Works(risk, o)
    /\ SaveRisk([risk EXCEPT !.orders[o].state = "DONE"])
    /\ UNCHANGED <<wall, ruled>>

SwitchOn(scope) ==
    /\ scope \notin risk.switches
    /\ SaveRisk([risk EXCEPT !.switches = @ \union {scope}])
    /\ UNCHANGED <<wall, ruled>>

SwitchOff(scope) ==
    /\ scope \in risk.switches
    /\ SaveRisk([risk EXCEPT !.switches = @ \ {scope}])
    /\ UNCHANGED <<wall, ruled>>

(* restore: the peak is never below the recovered equity.                   *)
RestartRisk ==
    /\ risk # riskDisk
    /\ risk' = [riskDisk EXCEPT !.peak = Larger(@, Equity(riskDisk))]
    /\ UNCHANGED <<riskDisk, wall, ruled>>

TickRisk ==
    /\ wall < MaxClock
    /\ wall' = wall + 1
    /\ UNCHANGED <<risk, riskDisk, ruled>>

RiskNext ==
    \/ \E o \in DOMAIN Intents : \E sheet \in Sheets : Submit(o, sheet) \/ Assess(o, sheet)
    \/ \E o \in DOMAIN Intents : Fill(o) \/ EndOrder(o)
    \/ \E scope \in Scopes : SwitchOn(scope) \/ SwitchOff(scope)
    \/ RestartRisk
    \/ TickRisk

RiskSpec == RiskInit /\ [][RiskNext]_riskVars

-----------------------------------------------------------------------------
RiskTypeOK ==
    /\ \A r \in {risk, riskDisk} :
          r \in [owned : [Instruments -> [Strategies -> Int]], cash : Int,
                marks : [Instruments -> Int],
                orders : [DOMAIN Intents -> [state : {"NONE", "WORKING", "DONE"},
                                             filled : Nat, price : Int, at : 0..MaxClock]],
                peak : Int, day : -1..MaxClock, baseline : Int, switches : SUBSET Scopes]
    /\ wall \in 0..MaxClock
    /\ ruled.order \in DOMAIN Intents \union {"none"}

(* Every way the working orders can still fill: so many units of each.      *)
Fills ==
    LET most == Max({Intents[o].units : o \in DOMAIN Intents})
    IN  {f \in [WorkingOrders(risk) -> 0..most] :
            \A o \in WorkingOrders(risk) : f[o] <= Remaining(risk, o)}

HeldGiven(f, i, s) ==
    risk.owned[i][s]
        + SumOver([o \in {p \in DOMAIN f : Intents[p].strategy = s} |->
                      f[o] * Intents[o].legs[i]])

PositionGiven(f, i) ==
    Position(risk, i) + SumOver([o \in DOMAIN f |-> f[o] * Intents[o].legs[i]])
BucketGiven(f, s) == SumOver([i \in Instruments |-> Abs(HeldGiven(f, i, s) * risk.marks[i])])
NetGiven(f) == SumOver([i \in Instruments |-> PositionGiven(f, i) * risk.marks[i]])

Completes(f, o) ==
    risk.orders[o].filled + (IF o \in DOMAIN f THEN f[o] ELSE 0) = Intents[o].units

(* However the approved orders fill, in whatever order and part, no         *)
(* position passes its limit; and at the marks of the latest approval       *)
(* neither gross exposure nor a strategy's bucket does, nor net exposure    *)
(* if the order then approved is filled (apply_working_bounds: any working  *)
(* row may fill or remain open, the candidate counts as filled).            *)
ExposureBounded ==
    \A f \in Fills :
        /\ \A i \in Instruments : PositionGiven(f, i) \in -MaxShort..MaxPosition
        /\ risk.marks \in ruled.marks =>
              /\ SumOver([s \in Strategies |-> BucketGiven(f, s)]) <= MaxGross
              /\ \A s \in Strategies : BucketGiven(f, s) <= StrategyLimit
              /\ Completes(f, ruled.order) => Abs(NetGiven(f)) <= MaxNet

(* The scopes of a kill switch that keep an order away: everything, its     *)
(* strategy, an instrument it trades.                                       *)
Halts(scope, o) ==
    \/ scope \in {"global", Intents[o].strategy}
    \/ scope \in Instruments /\ Intents[o].legs[scope] # 0

(* Scopes overlap: of two journaled switches that keep an order away, no    *)
(* release, restart or assessment takes both, so the order stays away until *)
(* each has been released (deactivate_kill_switch, rejection_reasons).      *)
OverlapsBind ==
    \A o \in DOMAIN Intents : \A s, t \in riskDisk.switches :
        s # t /\ Halts(s, o) /\ Halts(t, o) =>
            \E scope \in riskDisk'.switches : Halts(scope, o)

(* What limits look back on survives restarts and assessments: the          *)
(* journaled peak never falls, a day keeps the baseline it was first        *)
(* journaled with, an order is only approved where no journaled switch      *)
(* covers it and the account has lost less than that day and that peak      *)
(* allow, and no window holds more orders than the rate.                    *)
LimitsHold ==
    LET approved == {o \in DOMAIN Intents : /\ riskDisk.orders[o].state = "NONE"
                                            /\ riskDisk'.orders[o].state # "NONE"}
        equity == Equity(riskDisk')
    IN  /\ riskDisk'.peak >= riskDisk.peak
        /\ riskDisk'.day = riskDisk.day => riskDisk'.baseline = riskDisk.baseline
        /\ \A o \in approved :
              /\ \A scope \in riskDisk.switches : ~Halts(scope, o)
              /\ equity > 0 /\ riskDisk.day = riskDisk'.day =>
                    riskDisk.baseline - equity <= MaxDailyLoss
              /\ equity > 0 => (riskDisk.peak - equity) * Whole < (MaxDrawdown + 1) * riskDisk.peak
              /\ Cardinality({p \in DOMAIN Intents :
                                /\ riskDisk'.orders[p].state # "NONE"
                                /\ riskDisk'.orders[p].at \in (wall - Window + 1)..wall}) <= MaxRate

=============================================================================

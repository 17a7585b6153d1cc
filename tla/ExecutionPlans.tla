--------------------------- MODULE ExecutionPlans ---------------------------
(***************************************************************************)
(* The execution planners (core/execution/src/algorithms.rs, plan.rs and    *)
(* routing.rs): a parent order is cut into child instructions over time or  *)
(* over venues.  Pure functions, asked once for each request.               *)
(*                                                                         *)
(* Quantities count the smallest decimal; a whole of basis points is Bps.   *)
(***************************************************************************)
EXTENDS Integers, Sequences, SequencesExt, FiniteSets, FiniteSetsExt

CONSTANTS ParentQuantities,   \* quantities of a parent order
          Bps,                \* basis points of a whole
          SliceCounts, Urgencies, Displays, Interval,
          WeightCurves,       \* volume forecasts: sequences of weights
          VolumeCurves,       \* observed volumes: sequences
          Participations,     \* participation rates, in basis points
          QuoteBooks,         \* quotes offered to the router: sequences
          Limits,             \* parent limit prices, of a buy
          MaxSlices           \* the limit on the slices of an iceberg

VARIABLES planning   \* the request, the plan, and how the call ended

planVars == <<planning>>

-----------------------------------------------------------------------------
(* ExecutionAlgorithm, with the parent it is asked for; the wheel shares a  *)
(* parent between two algorithms.                                           *)
Schedules ==
    {[kind |-> "IMMEDIATE"]}
    \union [kind : {"TWAP"}, slices : SliceCounts]
    \union [kind : {"VWAP"}, weights : WeightCurves]
    \union [kind : {"PARTICIPATION"}, volumes : VolumeCurves, rate : Participations]
    \union [kind : {"ARRIVAL"}, slices : SliceCounts, urgency : Urgencies]
    \union [kind : {"ICEBERG"}, display : Displays]

Wheels == [kind : {"WHEEL"}, first : Schedules, second : Schedules, share : 1..(Bps - 1)]
Routes == [kind : {"ROUTE"}, quotes : QuoteBooks, limit : Limits]

NoPlan == [children |-> <<>>, unallocated |-> 0]

Request(q, a) == [quantity |-> q, algorithm |-> a, plan |-> NoPlan, outcome |-> "ASKED"]
NoRequest == [Request(1, [kind |-> "IMMEDIATE"]) EXCEPT !.outcome = "REFUSED"]

PlansInit ==
    \E q \in ParentQuantities, a \in Schedules \union Wheels \union Routes :
        planning = Request(q, a)

-----------------------------------------------------------------------------
Sum(numbers) == FoldLeft(LAMBDA total, n : total + n, 0, numbers)
Positive(n) == n > 0
Smaller(a, b) == IF a < b THEN a ELSE b

(* split_exact: the first slices take the units left over.                  *)
SplitExact(q, parts) ==
    SelectSeq([k \in 1..parts |-> q \div parts + (IF k <= q % parts THEN 1 ELSE 0)], Positive)

(* split_weighted_exact: the last window takes what the others leave.       *)
SplitWeighted(q, weights) ==
    LET share == [k \in DOMAIN weights |-> (q * weights[k]) \div Sum(weights)]
    IN  [share EXCEPT ![Len(share)] = q - Sum(Front(share))]

ArrivalWeights(parts, urgency) == [k \in 1..parts |-> Bps + urgency * (parts - k + 1)]

(* Each window gives at most its share of the volume seen in it.            *)
Capacities(volumes, rate) == [k \in DOMAIN volumes |-> (volumes[k] * rate) \div Bps]

Participating(q, capacities) ==
    SelectSeq([k \in DOMAIN capacities |->
                 LET left == q - Sum(SubSeq(capacities, 1, k - 1))
                 IN  Smaller(capacities[k], left)], Positive)

Displayed(q, display) ==
    LET slices == (q + display - 1) \div display
    IN  [k \in 1..slices |-> Smaller(display, q - (k - 1) * display)]

(* plan_execution's quantities, before they are checked.                    *)
Pieces(q, a) ==
    CASE a.kind = "IMMEDIATE" -> <<q>>
      [] a.kind = "TWAP" -> SplitExact(q, a.slices)
      [] a.kind = "VWAP" -> SplitWeighted(q, a.weights)
      [] a.kind = "ARRIVAL" -> SplitWeighted(q, ArrivalWeights(a.slices, a.urgency))
      [] a.kind = "PARTICIPATION" -> Participating(q, Capacities(a.volumes, a.rate))
      [] a.kind = "ICEBERG" -> Displayed(q, a.display)

RefusesPieces(q, a) ==
    \/ q <= 0
    \/ a.kind \in {"VWAP", "ARRIVAL"} /\ \E k \in DOMAIN Pieces(q, a) : Pieces(q, a)[k] <= 0
    \/ a.kind = "ICEBERG" /\ Len(Pieces(q, a)) > MaxSlices

Scheduled(q, a) ==
    LET pieces == Pieces(q, a)
    IN  [children |-> [k \in DOMAIN pieces |-> [offset |-> (k - 1) * Interval,
                                                quantity |-> pieces[k]]],
         unallocated |-> q - Sum(pieces)]

(* plan_algo_wheel_execution: children by offset, then allocation, then     *)
(* place in their own plan.                                                 *)
Portions(q, a) == SplitWeighted(q, <<a.share, Bps - a.share>>)

RefusesWheel(q, a) ==
    LET portion == Portions(q, a)
    IN  \/ \E k \in 1..2 : portion[k] <= 0
        \/ RefusesPieces(portion[1], a.first) \/ RefusesPieces(portion[2], a.second)

ByOffset(mine, theirs) ==
    LET all == mine \o theirs
        Earlier(i, j) == \/ all[i].offset < all[j].offset
                         \/ all[i].offset = all[j].offset /\ i < j
    IN  [k \in DOMAIN all |-> all[SortSeq([n \in DOMAIN all |-> n], Earlier)[k]]]

Wheeled(q, a) ==
    LET mine == Scheduled(Portions(q, a)[1], a.first)
        theirs == Scheduled(Portions(q, a)[2], a.second)
    IN  [children |-> ByOffset(mine.children, theirs.children),
         unallocated |-> mine.unallocated + theirs.unallocated]

-----------------------------------------------------------------------------
(* compare_quotes, for a buy: all-in price, latency rank, place in the book *)
(* (which stands for the venue name), larger size.                          *)
AllIn(quote) == quote.price + quote.fee

(* Faulty: the fee is left out of the comparison.                           *)
BetterBeforeFees(quotes, i, j) ==
    \/ quotes[i].price < quotes[j].price
    \/ quotes[i].price = quotes[j].price /\ i < j

Better(quotes, i, j) ==
    \/ AllIn(quotes[i]) < AllIn(quotes[j])
    \/ /\ AllIn(quotes[i]) = AllIn(quotes[j])
       /\ \/ quotes[i].rank < quotes[j].rank
          \/ quotes[i].rank = quotes[j].rank /\ i < j

Ordered(quotes) ==
    SortSeq([n \in DOMAIN quotes |-> n], LAMBDA i, j : Better(quotes, i, j))

(* smart_route_with_capabilities: a venue's bounds on one order, and the    *)
(* limit on the price before fees, decide what a quote gives.               *)
Given(quote, limit, left) ==
    LET offered == Smaller(quote.available, quote.max)
        wanted == Smaller(offered, left)
    IN  IF left = 0 \/ wanted < quote.min \/ quote.price > limit THEN 0 ELSE wanted

Allocation(q, a) ==
    FoldLeft(LAMBDA given, n :
               [given EXCEPT ![n] = Given(a.quotes[n], a.limit, q - Sum(given))],
             [n \in DOMAIN a.quotes |-> 0], Ordered(a.quotes))

Routed(q, a) ==
    LET given == Allocation(q, a)
        used == SelectSeq(Ordered(a.quotes), LAMBDA n : given[n] > 0)
    IN  [children |-> [k \in DOMAIN used |-> [offset |-> 0, quantity |-> given[used[k]]]],
         unallocated |-> q - Sum(given)]

-----------------------------------------------------------------------------
(* ExecutionPlan::validate_against.                                         *)
Valid(q, plan) ==
    LET children == plan.children
    IN  /\ plan.unallocated >= 0
        /\ \A k \in DOMAIN children :
              /\ children[k].quantity > 0
              /\ k > 1 => children[k].offset >= children[k - 1].offset
        /\ plan.unallocated + Sum([k \in DOMAIN children |-> children[k].quantity]) = q

Answered(outcome, plan) ==
    planning' = [planning EXCEPT !.outcome = outcome, !.plan = plan]

Checked(plan) ==
    Answered(IF Valid(planning.quantity, plan) THEN "PLANNED" ELSE "INVALID", plan)

Asked(kinds) == planning.outcome = "ASKED" /\ planning.algorithm.kind \in kinds

PlanSchedule ==
    /\ Asked({a.kind : a \in Schedules})
    /\ IF RefusesPieces(planning.quantity, planning.algorithm) THEN Answered("REFUSED", NoPlan)
       ELSE Checked(Scheduled(planning.quantity, planning.algorithm))

PlanWheel ==
    /\ Asked({"WHEEL"})
    /\ IF RefusesWheel(planning.quantity, planning.algorithm) THEN Answered("REFUSED", NoPlan)
       ELSE Checked(Wheeled(planning.quantity, planning.algorithm))

PlanRoute ==
    /\ Asked({"ROUTE"})
    /\ IF planning.quantity <= 0 THEN Answered("REFUSED", NoPlan)
       ELSE Checked(Routed(planning.quantity, planning.algorithm))

PlansNext == PlanSchedule \/ PlanWheel \/ PlanRoute

PlansSpec == PlansInit /\ [][PlansNext]_planVars

-----------------------------------------------------------------------------
PlansTypeOK ==
    /\ planning.quantity \in ParentQuantities
    /\ planning.outcome \in {"ASKED", "PLANNED", "REFUSED", "INVALID"}
    /\ planning.plan.unallocated \in Int

Children == [k \in DOMAIN planning.plan.children |-> planning.plan.children[k].quantity]

(* A slice is less than one unit from its exact share, except that the last *)
(* window absorbs what rounding the others down left.                       *)
NearShare(q, weights, pieces) ==
    \A k \in DOMAIN weights :
        LET exact == q * weights[k]
            unit == Sum(weights)
        IN  IF k < Len(weights)
            THEN pieces[k] * unit <= exact /\ exact < (pieces[k] + 1) * unit
            ELSE exact <= pieces[k] * unit /\ (pieces[k] - Len(weights) + 1) * unit <= exact

Even(pieces) == \A i, j \in DOMAIN pieces : pieces[i] - pieces[j] <= 1

FairPieces(q, a) ==
    CASE a.kind = "TWAP" -> Even(Children)
      [] a.kind = "VWAP" -> NearShare(q, a.weights, Children)
      [] a.kind = "ARRIVAL" -> NearShare(q, ArrivalWeights(a.slices, a.urgency), Children)
      [] a.kind = "PARTICIPATION" ->
            planning.plan.unallocated
              = q - Smaller(q, Sum(Capacities(a.volumes, a.rate)))
      [] a.kind = "ICEBERG" ->
            \A k \in DOMAIN Children : Children[k] <= a.display
                                       /\ (k < Len(Children) => Children[k] = a.display)
      [] OTHER -> TRUE

(* No planner produces a plan its own validation refuses, whatever rounding *)
(* or interleaving of children it takes; a schedule gives every slice its   *)
(* share, and a forecast is refused only when a share is below one unit.    *)
PlansAreFair ==
    LET q == planning.quantity
        a == planning.algorithm
    IN  /\ planning.outcome # "INVALID"
        /\ planning.outcome = "PLANNED" => FairPieces(q, a)
        /\ planning.outcome = "REFUSED" /\ a.kind = "VWAP" =>
              \E k \in DOMAIN a.weights : q * a.weights[k] < Sum(a.weights)

(* Among all the ways to take the routed quantity from the quotes within    *)
(* the limit, where no venue bounds an order, none costs less, and none     *)
(* takes more.                                                              *)
Unbounded(quotes) ==
    \A n \in DOMAIN quotes : quotes[n].min = 1 /\ quotes[n].max >= quotes[n].available

Cost(quotes, taken) == Sum([n \in DOMAIN quotes |-> taken[n] * AllIn(quotes[n])])

Takings(quotes, limit) ==
    {taken \in [DOMAIN quotes -> 0..Max({quotes[n].available : n \in DOMAIN quotes})] :
        \A n \in DOMAIN quotes : /\ taken[n] <= quotes[n].available
                                 /\ quotes[n].price > limit => taken[n] = 0}

RoutesAreBest ==
    LET q == planning.quantity
        a == planning.algorithm
    IN  (planning.outcome = "PLANNED" /\ a.kind = "ROUTE" /\ Unbounded(a.quotes)) =>
            \A taken \in Takings(a.quotes, a.limit) :
                Sum(taken) <= q =>
                    /\ Sum(taken) <= Sum(Children)
                    /\ Sum(taken) = Sum(Children) =>
                         Cost(a.quotes, Allocation(q, a)) <= Cost(a.quotes, taken)

(* The two together: what a planner or the router returns keeps its promise *)
(* about the parent.                                                        *)
PlansAreSound == PlansAreFair /\ RoutesAreBest
=============================================================================

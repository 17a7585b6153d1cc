---------------------------- MODULE DesktopOrders ----------------------------
(***************************************************************************)
(* The trading commands of the desktop (apps/desktop/src-tauri/src/         *)
(* trading.rs) over its PAPER gateway (paper_gateway.rs): a core/paper      *)
(* service and a venue in one process.  There is no market feed: a command  *)
(* carries the prices its operator attests, the venue fills a marketable    *)
(* order whole at those prices while it accepts it, and nothing ever fills  *)
(* a resting order.  The process may end at any point; the journal stays.   *)
(*                                                                         *)
(* Commands are taken one at a time, under the lock of the service.         *)
(***************************************************************************)
EXTENDS Integers, Sequences, FiniteSets, FiniteSetsExt

CONSTANTS Requests,      \* identity -> [kind, deltas, limit, admissible]: what the
                         \* operator asks for
          Instruments,
          MarkSets,      \* the attested prices: [Instruments -> prices]
          MaxAge,        \* seconds an attested price is good for
          MaxPosition, MaxShort,
          Scenarios,     \* bounds of one behaviour: [ids, commands, ticks, starts]
          Flat           \* the position of an account that holds nothing

VARIABLES clock,         \* the second it is
          oms,           \* the service: orders, position, executions seen, connection
          disk,          \* its journal
          venue,         \* the in-process venue, with the armed reference prices
          command,       \* the command under way
          receipts,      \* the receipts the operator has been given
          fills,         \* history: what was filled at which prices, and what closes left
          limits         \* what the scenario still allows

desktopVars == <<clock, oms, disk, venue, command, receipts, fills, limits>>

Nothing == [kind |-> "NOTHING"]
Waiting == [phase |-> "IDLE"]
Down == [phase |-> "DOWN"]
NoOrders == [o \in {} |-> Nothing]

NewService == [orders |-> NoOrders, position |-> Flat, seen |-> {}, connected |-> TRUE]
NewVenue ==
    [orders |-> NoOrders, position |-> Flat, executions |-> 0, events |-> <<>>,
     single |-> Nothing, combo |-> Nothing]
Persisted(service) ==
    [orders |-> service.orders, position |-> service.position, seen |-> service.seen]

DesktopInit ==
    /\ limits \in Scenarios
    /\ clock = 0 /\ oms = NewService /\ disk = Nothing /\ venue = NewVenue
    /\ command = Down /\ receipts = {}
    /\ fills = [made |-> {}, left |-> {}]

Tick ==
    /\ limits.ticks > 0 /\ clock' = clock + 1
    /\ limits' = [limits EXCEPT !.ticks = @ - 1]
    /\ UNCHANGED <<oms, disk, venue, command, receipts, fills>>

-----------------------------------------------------------------------------
(* Faulty: the session of the process that ended counts as connected.       *)
RestoredConnected(record) ==
    [orders |-> record.orders, position |-> record.position, seen |-> record.seen,
     connected |-> TRUE]

(* open_durable: a session does not survive its process, and no desktop     *)
(* command connects another.                                                *)
Reopened(record) ==
    [orders |-> record.orders, position |-> record.position, seen |-> record.seen,
     connected |-> FALSE]

Start ==
    /\ command = Down /\ limits.starts > 0
    /\ limits' = [limits EXCEPT !.starts = @ - 1]
    /\ oms' = IF disk = Nothing THEN NewService ELSE Reopened(disk)
    /\ disk' = Persisted(oms') /\ venue' = NewVenue /\ command' = Waiting
    /\ UNCHANGED <<clock, receipts, fills>>

Stop ==
    /\ command # Down /\ command' = Down
    /\ oms' = NewService /\ venue' = NewVenue
    /\ UNCHANGED <<clock, disk, receipts, fills, limits>>

-----------------------------------------------------------------------------
(* The risk gate, as far as positions and working orders decide it; every   *)
(* other limit may refuse an order at any time.                             *)
StillWorking(o) == o.state \in {"PENDING_SUBMIT", "ACKNOWLEDGED", "PENDING_CANCEL"}
WorkingIds == {o \in DOMAIN oms.orders : StillWorking(oms.orders[o])}

ConflictsWithWorking(deltas) ==
    \E o \in WorkingIds, i \in Instruments : oms.orders[o].deltas[i] * deltas[i] < 0

Committed(deltas, i) ==
    MapThenSumSet(LAMBDA o : oms.orders[o].deltas[i], WorkingIds) + oms.position[i] + deltas[i]
BreachesPosition(deltas) ==
    \E i \in Instruments :
        deltas[i] # 0 /\ (Committed(deltas, i) > MaxPosition \/ Committed(deltas, i) < -MaxShort)

Approves(deltas) == ~ConflictsWithWorking(deltas) /\ ~BreachesPosition(deltas)

-----------------------------------------------------------------------------
(* The venue fills what it accepts, if it is marketable at the attested     *)
(* prices: the net price of a combination keeps its sign.                   *)
NetPrice(deltas, marks) == MapThenSumSet(LAMBDA i : deltas[i] * marks[i], Instruments)

(* Faulty: a sale fills at or under its limit, like a purchase.             *)
MarketableEitherWay(order, marks) ==
    \/ order.limit.kind = "NONE"
    \/ \E i \in Instruments :
        order.deltas[i] # 0 /\ marks[i] <= order.limit.amount

Marketable(order, marks) ==
    CASE order.limit.kind = "NONE" -> TRUE
      [] order.limit.kind = "PRICE" ->
            \A i \in Instruments :
                /\ order.deltas[i] > 0 => marks[i] <= order.limit.amount
                /\ order.deltas[i] < 0 => marks[i] >= order.limit.amount
      [] order.limit.kind = "DEBIT" ->
            NetPrice(order.deltas, marks) \in 0..order.limit.amount
      [] order.limit.kind = "CREDIT" -> -NetPrice(order.deltas, marks) >= order.limit.amount

Slot(order) == IF order.kind = "COMBO" THEN "combo" ELSE "single"
Armed(v, slot, marks) == [v EXCEPT ![slot] = [kind |-> "MARKS", marks |-> marks]]
Disarmed(v, slot) == [v EXCEPT ![slot] = Nothing]

(* A single execution is numbered by the venue, a combination's is named    *)
(* after its order.                                                         *)
ExecutionId(v, id, order) ==
    IF order.kind = "COMBO" THEN [kind |-> "NAMED", of |-> id]
    ELSE [kind |-> "NUMBERED", of |-> v.executions + 1]

Moved(position, deltas) == [i \in Instruments |-> position[i] + deltas[i]]
With(orders, id, order) ==
    [o \in DOMAIN orders \union {id} |-> IF o = id THEN order ELSE orders[o]]

VenueFills(v, id, order, marks) ==
    [v EXCEPT !.orders = With(@, id, "FILLED"),
              !.position = Moved(@, order.deltas),
              !.executions = IF order.kind = "COMBO" THEN @ ELSE @ + 1,
              !.events = Append(@, [kind |-> "EXECUTION", id |-> id, marks |-> marks,
                                    execution |-> ExecutionId(v, id, order)])]
VenueAccepts(v, id, order) ==
    LET accepted == [v EXCEPT !.orders = With(@, id, "ACKNOWLEDGED")]
        marks == v[Slot(order)].marks
    IN  Disarmed(IF Marketable(order, marks) THEN VenueFills(accepted, id, order, marks)
                 ELSE accepted, Slot(order))

-----------------------------------------------------------------------------
(* A command ends with a receipt, or with an error.                         *)
Receives(id, status) ==
    /\ receipts' = receipts \union {[id |-> id, status |-> status]}
    /\ command' = Waiting
Fails == command' = Waiting /\ UNCHANGED receipts
Commands == command = Waiting /\ limits.commands > 0
Spends == limits' = [limits EXCEPT !.commands = @ - 1]

(* validate: a request is well formed and names the PAPER environment; the  *)
(* gateway never sees any other, and takes none before it is configured.    *)
Admissible(id) == Requests[id].admissible

(* A close sells or buys back the whole position.                           *)
Closing(instrument) ==
    [i \in Instruments |-> IF i = instrument THEN -oms.position[i] ELSE 0]
DeltasOf(id) ==
    IF Requests[id].kind = "CLOSE" THEN Closing(Requests[id].deltas) ELSE Requests[id].deltas

(* What a retry has to repeat: for a combination the gateway finds the time *)
(* of the first decision; an order is decided now, and a close created now. *)
DecidedAt(id) ==
    IF Requests[id].kind = "COMBO" /\ id \in DOMAIN oms.orders
    THEN oms.orders[id].decided ELSE clock
OrderOf(id, marks, observed) ==
    [kind |-> Requests[id].kind, deltas |-> DeltasOf(id), limit |-> Requests[id].limit,
     marks |-> marks, observed |-> observed, decided |-> DecidedAt(id),
     state |-> "PENDING_SUBMIT"]
Repeats(order, existing) == [order EXCEPT !.state = existing.state] = existing

Fresh(observed, decided) == observed <= decided /\ decided - observed <= MaxAge

(* submit_intent and submit_combo_intent up to the broker call: a retry is  *)
(* answered from what is stored, a refusal leaves the venue as given.       *)
Takes(id, order, armed, refusedVenue, refused) ==
    IF \/ ~oms.connected \/ ~Fresh(order.observed, order.decided)
       \/ (id \in DOMAIN oms.orders /\ ~Repeats(order, oms.orders[id]))
    THEN Fails /\ venue' = refusedVenue /\ UNCHANGED <<oms, disk>>
    ELSE IF id \in DOMAIN oms.orders
    THEN /\ command' = [phase |-> "DRAIN", id |-> id]
         /\ venue' = refusedVenue /\ UNCHANGED <<oms, disk, receipts>>
    ELSE IF refused \/ ~Approves(order.deltas)
    THEN Receives(id, "RISK_REJECTED") /\ venue' = refusedVenue /\ UNCHANGED <<oms, disk>>
    ELSE /\ oms' = [oms EXCEPT !.orders = With(@, id, order)]
         /\ disk' = Persisted(oms') /\ venue' = armed
         /\ command' = [phase |-> "SUBMIT", id |-> id] /\ UNCHANGED receipts

(* The attested price stays armed when the service refuses the order.       *)
SubmitOrder(id, marks, observed, refused) ==
    /\ Commands /\ Spends /\ Requests[id].kind = "SINGLE"
    /\ IF Admissible(id)
       THEN LET armed == Armed(venue, "single", marks)
            IN  Takes(id, OrderOf(id, marks, observed), armed, armed, refused)
       ELSE Fails /\ UNCHANGED <<oms, disk, venue>>
    /\ UNCHANGED <<clock, fills>>

SubmitCombination(id, marks, observed, refused) ==
    /\ Commands /\ Spends /\ Requests[id].kind = "COMBO"
    /\ IF Admissible(id)
       THEN Takes(id, OrderOf(id, marks, observed), Armed(venue, "combo", marks),
                  Disarmed(venue, "combo"), refused)
       ELSE Fails /\ UNCHANGED <<oms, disk, venue>>
    /\ UNCHANGED <<clock, fills>>

ClosePosition(id, marks, observed, refused) ==
    /\ Commands /\ Spends /\ Requests[id].kind = "CLOSE"
    /\ LET order == OrderOf(id, marks, observed)
           armed == Armed(venue, "single", marks)
       IN  IF Admissible(id) /\ \E i \in Instruments : order.deltas[i] # 0
           THEN Takes(id, order, armed, armed, refused)
           ELSE Fails /\ UNCHANGED <<oms, disk, venue>>
    /\ UNCHANGED <<clock, fills>>

(* The broker's answer, which is recorded before anything else.             *)
AskVenue ==
    /\ command.phase = "SUBMIT"
    /\ LET id == command.id
       IN  /\ venue' = VenueAccepts(venue, id, oms.orders[id])
           /\ oms' = [oms EXCEPT !.orders[id].state = "ACKNOWLEDGED"]
           /\ command' = [phase |-> "DRAIN", id |-> id]
    /\ disk' = Persisted(oms')
    /\ UNCHANGED <<clock, receipts, fills, limits>>

(* A repeated cancellation is answered as it stands.          *)
CancelOrder(id) ==
    /\ Commands /\ Spends
    /\ IF ~Admissible(id) \/ ~oms.connected \/ id \notin DOMAIN oms.orders
          \/ oms.orders[id].state \notin {"ACKNOWLEDGED", "PENDING_CANCEL", "CANCELLED"}
       THEN Fails /\ UNCHANGED <<oms, disk>>
       ELSE IF oms.orders[id].state = "ACKNOWLEDGED"
       THEN /\ oms' = [oms EXCEPT !.orders[id].state = "PENDING_CANCEL"]
            /\ disk' = Persisted(oms')
            /\ command' = [phase |-> "CANCEL", id |-> id] /\ UNCHANGED receipts
       ELSE /\ command' = [phase |-> "DRAIN", id |-> id] /\ UNCHANGED <<oms, disk, receipts>>
    /\ UNCHANGED <<clock, venue, fills>>

AskCancel ==
    /\ command.phase = "CANCEL" /\ venue.orders[command.id] = "ACKNOWLEDGED"
    /\ venue' = [venue EXCEPT !.orders[command.id] = "CANCELLED",
                              !.events = Append(@, [kind |-> "CANCELLED", id |-> command.id])]
    /\ command' = [phase |-> "DRAIN", id |-> command.id]
    /\ UNCHANGED <<clock, oms, disk, receipts, fills, limits>>

(* synchronize applies and journals one event at a time; the receipt shows  *)
(* the state of the order after the last.                                   *)
Executed(service, event) ==
    [service EXCEPT !.orders[event.id].state = "FILLED",
                    !.position = Moved(@, service.orders[event.id].deltas),
                    !.seen = @ \union {event.execution}]

DrainEvent ==
    /\ command.phase = "DRAIN" /\ venue.events # <<>>
    /\ LET event == Head(venue.events)
           order == oms.orders[event.id]
       IN  IF event.kind = "CANCELLED"
           THEN oms' = [oms EXCEPT !.orders[event.id].state = "CANCELLED"] /\ UNCHANGED fills
           ELSE IF event.execution \in oms.seen
           THEN UNCHANGED <<oms, fills>>
           ELSE /\ oms' = Executed(oms, event)
                /\ fills' = [made |-> fills.made \union
                                {[id |-> event.id, order |-> order, at |-> event.marks]},
                             left |-> IF order.kind # "CLOSE" THEN fills.left
                                      ELSE fills.left \union
                                           {oms'.position[Requests[event.id].deltas]}]
    /\ venue' = [venue EXCEPT !.events = Tail(@)] /\ disk' = Persisted(oms')
    /\ UNCHANGED <<clock, command, receipts, limits>>

(* Faulty: the receipt shows what the submission returned.                  *)
EarlyStatus(id) == "ACKNOWLEDGED"

StatusOf(id) == oms.orders[id].state

Reply ==
    /\ command.phase = "DRAIN" /\ venue.events = <<>>
    /\ Receives(command.id, StatusOf(command.id))
    /\ UNCHANGED <<clock, oms, disk, venue, fills, limits>>

DesktopNext ==
    \/ Tick \/ Start \/ Stop \/ AskVenue \/ AskCancel \/ DrainEvent \/ Reply
    \/ \E id \in limits.ids :
          \/ CancelOrder(id)
          \/ \E marks \in MarkSets, observed \in {clock - 1, clock}, refused \in BOOLEAN :
                \/ SubmitOrder(id, marks, observed, refused)
                \/ SubmitCombination(id, marks, observed, refused)
                \/ ClosePosition(id, marks, observed, refused)

DesktopSpec == DesktopInit /\ [][DesktopNext]_desktopVars

-----------------------------------------------------------------------------
DesktopTypeOK ==
    /\ clock \in Nat /\ DOMAIN oms.orders \subseteq DOMAIN Requests
    /\ \A o \in DOMAIN oms.orders :
          oms.orders[o].state \in {"PENDING_SUBMIT", "ACKNOWLEDGED", "FILLED", "PENDING_CANCEL",
                                   "CANCELLED"}
    /\ oms.position \in [Instruments -> Int] /\ venue.position \in [Instruments -> Int]
    /\ command.phase \in {"IDLE", "DOWN", "SUBMIT", "CANCEL", "DRAIN"}

(* Whenever a command may be taken on a connected route, the venue works,   *)
(* holds and has cancelled exactly what the service says.                   *)
VenueAgrees ==
    command = Waiting /\ oms.connected =>
        /\ venue.orders = [o \in DOMAIN oms.orders |-> oms.orders[o].state]
        /\ venue.position = oms.position

(* What an order may cost: a sale costs less than nothing.                  *)
CostIsApproved(order, cost) ==
    CASE order.limit.kind = "NONE" -> TRUE
      [] order.limit.kind = "PRICE" ->
            cost <= order.limit.amount * MapThenSumSet(LAMBDA i : order.deltas[i], Instruments)
      [] order.limit.kind = "DEBIT" -> cost >= 0 /\ cost <= order.limit.amount
      [] order.limit.kind = "CREDIT" -> cost <= -order.limit.amount

(* An order fills once, at the prices its own request attested and within   *)
(* its limit, and a close leaves nothing and never turns the position.      *)
FillsAreAttested ==
    /\ \A f \in fills.made :
          f.at = f.order.marks /\ CostIsApproved(f.order, NetPrice(f.order.deltas, f.at))
    /\ \A f, g \in fills.made : f.id = g.id => f = g
    /\ fills.left \subseteq {0}
    /\ \A i \in Instruments : oms.position[i] =
          IF command = Down THEN Flat[i]
          ELSE MapThenSumSet(LAMBDA f : f.order.deltas[i], fills.made)

(* What a receipt called final stays so, over restarts, and an order that   *)
(* rests on a receipt was never filled before it.                           *)
ReceiptsStand ==
    \A r \in receipts :
        /\ r.status \in {"FILLED", "CANCELLED"} =>
              /\ r.id \in DOMAIN disk.orders /\ disk.orders[r.id].state = r.status
        /\ r.status = "ACKNOWLEDGED" =>
              /\ r.id \in DOMAIN disk.orders
              /\ disk.orders[r.id].state \in {"ACKNOWLEDGED", "PENDING_CANCEL", "CANCELLED"}

DesktopOrdersStand == VenueAgrees /\ FillsAreAttested /\ ReceiptsStand
=============================================================================

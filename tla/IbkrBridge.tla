------------------------------ MODULE IbkrBridge ------------------------------
(***************************************************************************)
(* The official-API bridge                                                 *)
(* (python/ibkr-gateway/src/follon_ibkr_gateway.py) between the transport   *)
(* of the OMS (adapters/brokers/ibkr/src/lib.rs) and IBKR.  One thread of   *)
(* the bridge serves the requests of the transport, one at a time; another  *)
(* takes IBKR's callbacks from the socket, in order; they share a memory    *)
(* under a lock, and a request that waits is woken by a callback or gives   *)
(* up.  The transport kills a bridge that is late and starts another.       *)
(*                                                                         *)
(* IBKR is external, as the bridge uses it: it takes the messages of one    *)
(* connection in order and answers every request when it likes.  Foreign    *)
(* orders, positions and cash are left out: they are asked for and answered *)
(* like the orders of this client.  poll hands over the events put so far   *)
(* and changes nothing the bridge decides by, so events is all ever put.    *)
(***************************************************************************)
EXTENDS Integers, Sequences, FiniteSets, FiniteSetsExt, SequencesExt

CONSTANTS ClientOrders,   \* client order identities of the OMS
          OrderIds,       \* bound: order identities IBKR gives out, from 1
          Sessions        \* bounds: for each, the lots of an order, the requests made
                          \* and how many, what IBKR does to orders, how many callbacks
                          \* may be under way for it to add some, how many come again,
                          \* whether connections break, how many processes there are

(* Identities are numbered from 1, and an order is of one lot or more.      *)
OrdersAreNumbered ==
    /\ IsFiniteSet(OrderIds) /\ OrderIds = 1..Cardinality(OrderIds)
    /\ "none" \notin ClientOrders
    /\ \A s \in Sessions : s.lots \in Nat \ {0}

VARIABLES session, \* the member of Sessions, chosen at the start
          ibkr,    \* OrderIds -> what IBKR holds
          asked,   \* requests and cancellations IBKR has still to answer
          wire,    \* callbacks on the socket
          bridge,  \* the memory of the bridge process
          task,    \* the request being served
          memo     \* history, read by no action but for the bounds

bridgeVars == <<session, ibkr, asked, wire, bridge, task, memo>>

NoTrace == [ref |-> "none", life |-> 0, state |-> "NONE", filled |-> 0]
Unlisted == [state |-> "NONE", filled |-> 0]
Idle == [op |-> "NONE"]
OrderLots == session.lots
Executions == OrderIds \X (1..OrderLots)

(* TERMINAL_STATES; the states a submission takes for an answer.            *)
Terminal == {"CANCELLED", "FILLED", "REJECTED"}
Answering == {"ACKNOWLEDGED", "PARTIALLY_FILLED"} \union Terminal

(* normalize_order_state.                                                   *)
Normalized(status, filled, remaining) ==
    CASE status = "Filled" \/ (filled > 0 /\ remaining = 0) -> "FILLED"
      [] filled > 0 /\ remaining > 0 -> "PARTIALLY_FILLED"
      [] filled = 0 /\ status = "PendingSubmit" -> "PENDING_SUBMIT"
      [] filled = 0 /\ status = "Submitted" -> "ACKNOWLEDGED"
      [] filled = 0 /\ status = "Cancelled" -> "CANCELLED"
      [] filled = 0 /\ status = "Inactive" -> "REJECTED"

(* The text IBKR has for the state of an order.                             *)
Text(state) ==
    CASE state = "WORKING" -> "Submitted" [] state = "FILLED" -> "Filled"
      [] state = "CANCELLED" -> "Cancelled" [] state = "REJECTED" -> "Inactive"

-----------------------------------------------------------------------------
(* The callbacks, each as what it leaves of the memory m.                   *)
Put(m, type, c, x) ==
    [m EXCEPT !.events = Append(@, [type |-> type, ref |-> c, execution |-> x])]

Listed(m, c, state, filled) ==
    [m EXCEPT !.orders[c] = [state |-> state, filled |-> filled]]

Mapped(m, i, c) == [m EXCEPT !.refOf[i] = c, !.idOf[c] = i]

(* openOrder, for an order of this client, and completedOrder.              *)
AfterOpenOrder(m, e) ==
    LET known == [Mapped(m, e.id, e.ref) EXCEPT
                     !.nextId = IF @ = 0 THEN 0 ELSE Max({@, e.id + 1})]
    IN  Listed(known, e.ref, Normalized(e.status, 0, 0), m.orders[e.ref].filled)

(* Faulty: a late status reopens an order that is over.                     *)
ReopensFreely(previous, state) == FALSE

(* The order is over, and the status says otherwise.                        *)
IsLate(previous, state) == previous \in Terminal /\ state # previous

(* orderStatus.                                                             *)
AfterStatus(m, e) ==
    LET c == m.refOf[e.id]
        state == Normalized(e.status, e.filled, OrderLots - e.filled)
        previous == m.orders[c].state
        settled == IF state \in Terminal THEN [m EXCEPT !.cancelling = @ \ {c}] ELSE m
        listed == Listed(settled, c, state, e.filled)
    IN  CASE c = "none" -> m
          [] c # "none" /\ IsLate(previous, state) -> settled
          [] c # "none" /\ ~IsLate(previous, state) ->
              (CASE state \in {"ACKNOWLEDGED", "PARTIALLY_FILLED"}
                    /\ previous \notin {"ACKNOWLEDGED", "PARTIALLY_FILLED", "FILLED"} ->
                       Put(listed, "ACKNOWLEDGED", c, <<>>)
                 [] state \in {"CANCELLED", "REJECTED"} /\ previous # state ->
                       Put(listed, state, c, <<>>)
                 [] OTHER -> listed)

(* _emit_execution_if_complete.                                             *)
Emitted(m, x, c) ==
    IF x \in m.reported \/ x \notin m.details \/ x \notin m.fees THEN m
    ELSE Put([m EXCEPT !.reported = @ \union {x}], "EXECUTION", c, x)

(* execDetails: the order is named by its reference, listed or not.         *)
AfterExecution(m, e) ==
    LET i == e.execution[1]
        state == m.orders[e.ref].state
        known == [Mapped(m, i, e.ref) EXCEPT
                     !.details = @ \union {e.execution},
                     !.seen = IF e.request = m.execRequest THEN @ \union {e.execution} ELSE @]
    IN  Emitted(Listed(known, e.ref, IF state \in Terminal THEN state ELSE "PARTIALLY_FILLED",
                       e.execution[2]),
                e.execution, e.ref)

(* commissionReport.                                                        *)
AfterCommission(m, e) ==
    Emitted([m EXCEPT !.fees = @ \union {e.execution}], e.execution, e.ref)

(* error, for codes that say something of an order.                         *)
AfterError(m, e) ==
    LET c == m.refOf[e.id]
    IN  CASE c # "none" /\ e.code = "CANCEL_FAILURE" /\ c \in m.cancelling ->
               Put([m EXCEPT !.cancelling = @ \ {c}], "CANCEL_REJECTED", c, <<>>)
          [] c # "none" /\ e.code = "REJECTION" /\ m.orders[c].state \notin Terminal ->
               Put(Listed(m, c, "REJECTED", m.orders[c].filled), "REJECTED", c, <<>>)
          [] OTHER -> m

(* openOrderEnd, completedOrdersEnd and execDetailsEnd, which alone says      *)
(* which request it ends.                                                   *)
AfterEnd(m, e) ==
    IF e.kind = "EXECUTIONS" /\ e.request # m.execRequest THEN m ELSE [m EXCEPT !.done = @ \union {e.kind}]

(* nextValidId.                                                             *)
AfterNextId(m, e) == [m EXCEPT !.nextId = e.id, !.ready = TRUE]

AfterCallback(m, e) ==
    CASE e.cb = "openOrder" -> AfterOpenOrder(m, e)
      [] e.cb = "orderStatus" -> AfterStatus(m, e)
      [] e.cb = "execDetails" -> AfterExecution(m, e)
      [] e.cb = "commissionReport" -> AfterCommission(m, e)
      [] e.cb = "error" -> AfterError(m, e)
      [] e.cb = "end" -> AfterEnd(m, e)
      [] e.cb = "nextValidId" -> AfterNextId(m, e)

(* error 1100 and 1102, of IBKR's own connection.                           *)
AfterUpstream(m, up) == [m EXCEPT !.ready = up]

-----------------------------------------------------------------------------
(* IBKR.  It keeps what it received when a connection ends.                 *)
OpenOrder(i) ==
    [cb |-> "openOrder", id |-> i, ref |-> ibkr[i].ref, status |-> Text(ibkr[i].state)]
Status(i, text, filled) ==
    [cb |-> "orderStatus", id |-> i, status |-> text, filled |-> filled]
Details(x, n) ==
    [cb |-> "execDetails", execution |-> x, ref |-> ibkr[x[1]].ref, request |-> n]
Commission(x) == [cb |-> "commissionReport", execution |-> x, ref |-> ibkr[x[1]].ref]
Error(i, code) == [cb |-> "error", id |-> i, code |-> code]
End(kind, n) == [cb |-> "end", kind |-> kind, request |-> n]

HeldOrders == {i \in OrderIds : ibkr[i].state \notin {"NONE", "SENT"}}
Made == {x \in Executions : x[2] <= ibkr[x[1]].filled}
NextValidId(orders) ==
    [cb |-> "nextValidId", id |-> 1 + Max({0} \union {i \in OrderIds : orders[i] # NoTrace})]

Quiet == Len(wire) <= session.wire
Call(es) == Quiet /\ wire' = IF bridge.socket THEN wire \o es ELSE wire

AcceptOrder(i) ==
    /\ ibkr[i].state = "SENT"
    /\ ibkr' = [ibkr EXCEPT ![i].state = "WORKING"]
    /\ \E first \in {"PendingSubmit", "Submitted"} :
          Call(<<[OpenOrder(i)' EXCEPT !.status = first], Status(i, "Submitted", 0)>>)
    /\ UNCHANGED <<asked, bridge, task, memo>>

RejectByIbkr(i) ==
    /\ "REFUSE" \in session.acts /\ ibkr[i].state = "SENT"
    /\ ibkr' = [ibkr EXCEPT ![i].state = "REJECTED"]
    /\ \E e \in {Error(i, "REJECTION"), Status(i, "Inactive", 0)} : Call(<<e>>)
    /\ UNCHANGED <<asked, bridge, task, memo>>

(* Details, status and commission come in any order, the commission perhaps *)
(* not at all.                                                              *)
Execute(i) ==
    LET filled == ibkr[i].filled + 1
        state == IF filled = OrderLots THEN "FILLED" ELSE "WORKING"
        x == <<i, filled>>
        status == Status(i, Text(state), filled)
    IN  /\ "EXECUTE" \in session.acts /\ ibkr[i].state = "WORKING"
        /\ ibkr' = [ibkr EXCEPT ![i].filled = filled, ![i].state = state]
        /\ \E es \in {<<Details(x, 0), Commission(x), status>>,
                      <<status, Commission(x), Details(x, 0)>>,
                      <<Details(x, 0), status>>} : Call(es)
        /\ UNCHANGED <<asked, bridge, task, memo>>

Close(i) ==
    /\ "CLOSE" \in session.acts /\ ibkr[i].state = "WORKING"
    /\ ibkr' = [ibkr EXCEPT ![i].state = "CANCELLED"]
    /\ Call(<<Status(i, "Cancelled", ibkr[i].filled)>>)
    /\ UNCHANGED <<asked, bridge, task, memo>>

AnswerCancel(r) ==
    /\ r \in asked /\ r.kind = "CANCEL" /\ ibkr[r.id].state # "SENT"
    /\ asked' = asked \ {r}
    /\ \/ /\ ibkr[r.id].state = "WORKING"
          /\ ibkr' = [ibkr EXCEPT ![r.id].state = "CANCELLED"]
          /\ Call(<<Status(r.id, "Cancelled", ibkr[r.id].filled)>>)
       \/ Call(<<Error(r.id, "CANCEL_FAILURE")>>) /\ UNCHANGED ibkr
    /\ UNCHANGED <<bridge, task, memo>>

(* The answer to a request, in the order of the orders and executions,      *)
(* written to the socket as a whole; commissions follow the end of the      *)
(* executions.                                                              *)
Arranged(S, before(_, _)) ==
    {s \in SetToSeqs(S) : \A m, n \in DOMAIN s : m < n => before(s[m], s[n])}
OrdersIn(states) == Arranged({i \in HeldOrders : ibkr[i].state \in states}, LAMBDA i, j : i < j)
Listing(r) ==
    LET end == <<End(r.kind, r.request)>>
    IN  CASE r.kind = "OPEN" ->
               {[n \in 1..(2 * Len(working)) |->
                    LET i == working[(n + 1) \div 2]
                    IN  IF n % 2 = 1 THEN OpenOrder(i) ELSE Status(i, "Submitted", ibkr[i].filled)]
                  \o end : working \in OrdersIn({"WORKING"})}
          [] r.kind = "COMPLETED" ->
               {[n \in 1..Len(closed) |-> OpenOrder(closed[n])] \o end :
                  closed \in OrdersIn({"CANCELLED", "FILLED"})}
          [] r.kind = "EXECUTIONS" ->
               {[n \in 1..Len(made) |-> Details(made[n], r.request)] \o end
                  \o [n \in 1..Len(made) |-> Commission(made[n])] :
                  made \in Arranged(Made, LAMBDA x, y : x[1] < y[1] \/ (x[1] = y[1] /\ x[2] < y[2]))}

Listings == {"OPEN", "COMPLETED", "EXECUTIONS"}

AnswerListing(r) ==
    /\ r \in asked /\ r.kind \in Listings
    /\ \A i \in OrderIds : ibkr[i].state # "SENT"
    /\ \A s \in asked : s.kind = r.kind => s.request >= r.request
    /\ asked' = asked \ {r}
    /\ \E es \in Listing(r) : Call(es)
    /\ UNCHANGED <<ibkr, bridge, task, memo>>

-----------------------------------------------------------------------------
(* The thread of the API.                                                   *)
Told(before, after) ==
    {after.events[n].ref : n \in {k \in 1..Len(after.events) :
        k > Len(before.events) /\ after.events[k].type \in {"CANCELLED", "REJECTED"}}}

(* The callback is taken; a status or an error may come again after others. *)
TakeCallback ==
    /\ wire # <<>>
    /\ bridge' = AfterCallback(bridge, wire[1])
    /\ LET e == wire[1]
           again == e.cb \in {"orderStatus", "error"} /\ memo.repeats < session.repeats
           told == memo.over \union Told(bridge, bridge')
       IN  \/ wire' = Tail(wire) /\ memo' = [memo EXCEPT !.over = told]
           \/ /\ again /\ wire' = Append(Tail(wire), e)
              /\ memo' = [memo EXCEPT !.over = told, !.repeats = @ + 1]
    /\ UNCHANGED <<ibkr, asked, task>>

(* IBKR loses its own connection, or has it again: said to a client that it *)
(* has greeted.                                                             *)
Upstream(up) ==
    /\ session.breaks /\ bridge.socket /\ bridge.ready # up
    /\ \A k \in 1..Len(wire) : wire[k].cb # "nextValidId"
    /\ bridge' = AfterUpstream(bridge, up)
    /\ UNCHANGED <<ibkr, asked, wire, task, memo>>

(* What the end of a connection leaves of the messages under way.           *)
Disconnected ==
    /\ \E lost \in SUBSET {i \in OrderIds : ibkr[i].state = "SENT"} :
          ibkr' = [i \in OrderIds |-> IF i \in lost THEN NoTrace ELSE ibkr[i]]
    /\ asked' \in SUBSET {r \in asked : r.kind = "CANCEL"}

(* connectionClosed.                                                        *)
LoseConnection ==
    /\ session.breaks /\ bridge.socket
    /\ Disconnected
    /\ wire' = <<>>
    /\ bridge' = [bridge EXCEPT !.socket = FALSE, !.ready = FALSE]
    /\ memo' = [memo EXCEPT !.lossy = TRUE]
    /\ UNCHANGED task

-----------------------------------------------------------------------------
(* The thread of the requests.                                              *)
FreshMemory ==
    [ready |-> FALSE, socket |-> TRUE, nextId |-> 0,
     refOf |-> [i \in OrderIds |-> "none"], idOf |-> [c \in ClientOrders |-> 0],
     orders |-> [c \in ClientOrders |-> Unlisted], cancelling |-> {},
     details |-> {}, fees |-> {}, reported |-> {}, seen |-> {}, done |-> {},
     execRequest |-> 0, events |-> <<>>]

Connected == bridge.socket /\ bridge.ready
MayBegin(op) == task = Idle /\ memo.tasks < session.tasks /\ op \in session.ops
Begun == [memo EXCEPT !.tasks = @ + 1]
Rejected(m, c) == [m EXCEPT !.rejected = @ \union {<<c, m.life>>}]

(* submit: a client order that is known is answered from memory.            *)
IsRetry(c) == bridge.idOf[c] # 0
CanPlace == Connected /\ bridge.nextId # 0

(* Told that an order is rejected, the OMS does not submit it again.        *)
BeginSubmit(c) ==
    /\ MayBegin("SUBMIT") /\ \A life \in 1..memo.life : <<c, life>> \notin memo.rejected
    /\ \/ /\ IsRetry(c)
          /\ memo' = IF bridge.orders[c].state \in {"REJECTED", "CANCELLED"}
                     THEN Rejected(Begun, c) ELSE Begun
          /\ UNCHANGED <<ibkr, bridge, task>>
       \/ /\ ~IsRetry(c) /\ ~CanPlace
          /\ memo' = Rejected(Begun, c)
          /\ UNCHANGED <<ibkr, bridge, task>>
       \/ /\ ~IsRetry(c) /\ CanPlace /\ bridge.nextId \in OrderIds
          /\ LET i == bridge.nextId
             IN  /\ bridge' = [Mapped(bridge, i, c) EXCEPT !.nextId = i + 1]
                 /\ ibkr' = [ibkr EXCEPT ![i] = [ref |-> c, life |-> memo.life,
                                                 state |-> "SENT", filled |-> 0]]
          /\ task' = [op |-> "SUBMIT", ref |-> c]
          /\ memo' = Begun
    /\ UNCHANGED <<asked, wire>>

FinishSubmit ==
    /\ task.op = "SUBMIT" /\ bridge.orders[task.ref].state \in Answering
    /\ memo' = IF bridge.orders[task.ref].state = "REJECTED"
               THEN Rejected(memo, task.ref) ELSE memo
    /\ task' = Idle
    /\ UNCHANGED <<ibkr, asked, wire, bridge>>

(* cancel: refused with an event, or sent in a second step.                 *)
BeginCancel(c) ==
    /\ MayBegin("CANCEL")
    /\ memo' = [Begun EXCEPT !.cancels[c] = @ + 1]
    /\ IF Connected /\ IsRetry(c)
       THEN task' = [op |-> "CANCEL", ref |-> c, id |-> bridge.idOf[c]] /\ UNCHANGED bridge
       ELSE bridge' = Put(bridge, "CANCEL_REJECTED", c, <<>>) /\ UNCHANGED task
    /\ UNCHANGED <<ibkr, asked, wire>>

SendCancel ==
    /\ task.op = "CANCEL"
    /\ bridge' = [bridge EXCEPT !.cancelling = @ \union {task.ref}]
    /\ asked' = IF bridge.socket THEN asked \union {[kind |-> "CANCEL", id |-> task.id]} ELSE asked
    /\ task' = Idle
    /\ UNCHANGED <<ibkr, wire, memo>>

(* snapshot: everything listed is forgotten, everything is asked for, and   *)
(* the executions with it (_refresh_executions).                            *)
BeginSnapshot ==
    LET n == memo.tasks + 1
        unanswered == {r \in asked : r.kind \in {"OPEN", "COMPLETED"}}
        unread == {k \in 1..Len(wire) :
                      wire[k].cb = "end" /\ wire[k].kind \in {"OPEN", "COMPLETED"}}
    IN  /\ MayBegin("SNAPSHOT") /\ Connected
        /\ bridge' = [bridge EXCEPT
                         !.orders = [c \in ClientOrders |-> Unlisted], !.done = {}, !.seen = {},
                         !.execRequest = n]
        /\ asked' = asked \union [kind : Listings, request : {n}]
        /\ task' = [op |-> "SNAPSHOT", request |-> n, since |-> ibkr,
                    disturbed |-> unanswered # {} \/ unread # {}]
        /\ memo' = [Begun EXCEPT !.over = {}]
        /\ UNCHANGED <<ibkr, wire>>

(* The predicates of _wait.                                                 *)
Refreshed == "EXECUTIONS" \in bridge.done /\ bridge.seen \subseteq bridge.fees
Complete ==
    \/ task.op = "SNAPSHOT" /\ Refreshed /\ bridge.done = Listings
    \/ task.op = "REFRESH" /\ Refreshed

MadeBefore == {x \in Executions : x[2] <= task.since[x[1]].filled}

(* reconnect, and _connect in it: what is left of the old connection is     *)
(* gone, the memory stays.                                                  *)
Reconnecting == [op |-> "CONNECT"]
BeginReconnect ==
    /\ MayBegin("CONNECT")
    /\ Disconnected
    /\ wire' = <<NextValidId(ibkr')>>
    /\ bridge' = [bridge EXCEPT !.socket = TRUE, !.ready = FALSE]
    /\ task' = Reconnecting
    /\ memo' = [Begun EXCEPT !.lossy = TRUE]

RefreshExecutions ==
    /\ task.op = "CONNECT" /\ Connected
    /\ LET n == memo.tasks
       IN  /\ bridge' = [bridge EXCEPT !.done = @ \ {"EXECUTIONS"}, !.seen = {}, !.execRequest = n]
           /\ asked' = asked \union {[kind |-> "EXECUTIONS", request |-> n]}
           /\ task' = [op |-> "REFRESH", request |-> n, since |-> ibkr]
    /\ UNCHANGED <<ibkr, wire, memo>>

FinishRefresh ==
    /\ Complete
    /\ memo' = [memo EXCEPT !.attested = @ \union MadeBefore]
    /\ bridge' = [bridge EXCEPT !.execRequest = 0]
    /\ task' = Idle
    /\ UNCHANGED <<ibkr, asked, wire>>

(* _wait reaches its deadline: UNKNOWN for a submission, else a failure.    *)
GiveUp ==
    /\ task.op \in {"SUBMIT", "SNAPSHOT", "CONNECT", "REFRESH"}
    /\ task' = Idle
    /\ UNCHANGED <<ibkr, asked, wire, bridge, memo>>

(* The transport finds no answer in time and is asked to reconnect: restart, *)
(* and reconnect as the first request.                                      *)
RestartBridge ==
    /\ memo.life < session.bridges
    /\ Disconnected
    /\ wire' = <<NextValidId(ibkr')>>
    /\ bridge' = FreshMemory
    /\ task' = Reconnecting
    /\ memo' = [memo EXCEPT !.life = @ + 1, !.lossy = FALSE, !.over = {}, !.attested = {},
                            !.cancels = [c \in ClientOrders |-> 0]]

-----------------------------------------------------------------------------
BridgeInit ==
    /\ session \in Sessions
    /\ ibkr = [i \in OrderIds |-> NoTrace]
    /\ asked = {}
    /\ wire = <<NextValidId(ibkr)>>
    /\ bridge = FreshMemory
    /\ task = Reconnecting
    /\ memo = [life |-> 1, tasks |-> 0, repeats |-> 0, lossy |-> FALSE, over |-> {},
               attested |-> {}, rejected |-> {}, cancels |-> [c \in ClientOrders |-> 0]]

Step ==
    \/ \E i \in OrderIds : AcceptOrder(i) \/ RejectByIbkr(i) \/ Execute(i) \/ Close(i)
    \/ \E r \in asked : AnswerCancel(r) \/ AnswerListing(r)
    \/ TakeCallback \/ LoseConnection \/ \E up \in BOOLEAN : Upstream(up)
    \/ \E c \in ClientOrders : BeginSubmit(c) \/ BeginCancel(c)
    \/ FinishSubmit \/ SendCancel \/ BeginSnapshot
    \/ BeginReconnect \/ RefreshExecutions \/ FinishRefresh \/ GiveUp \/ RestartBridge

BridgeNext == Step /\ UNCHANGED session

-----------------------------------------------------------------------------
BridgeTypeOK ==
    /\ \A i \in OrderIds : ibkr[i].filled \in 0..OrderLots
    /\ bridge.reported \subseteq bridge.details \intersect bridge.fees
    /\ bridge.details \union bridge.fees \subseteq Made
    /\ session \in Sessions /\ bridge.nextId \in 0..(Cardinality(OrderIds) + 1)
    /\ task.op \in {"NONE", "SUBMIT", "CANCEL", "SNAPSHOT", "CONNECT", "REFRESH"}

(* One bridge process places a client order once, whatever was lost, timed  *)
(* out or cleared by a snapshot in between.                                 *)
PlacedOnce ==
    \A i, j \in OrderIds :
        i # j /\ ibkr[i].ref = ibkr[j].ref /\ ibkr[i].ref # "none" => ibkr[i].life # ibkr[j].life

(* No other process has placed it as well.                                  *)
PlacedAlone(i) == \A j \in OrderIds \ {i} : ibkr[j].ref # ibkr[i].ref

(* And one that has completed a refresh does not place what was executed    *)
(* before, not even by an earlier process.                                  *)
NothingExecutedIsPlaced ==
    \A i \in OrderIds : ibkr[i] = NoTrace /\ ibkr'[i] # NoTrace =>
        \A x \in memo.attested : ibkr[x[1]].ref # ibkr'[i].ref

(* An order whose submission was answered REJECTED does not work at IBKR,   *)
(* then or later; unless two processes have placed it: the end of the one   *)
(* then answers for the other.                                              *)
RejectedNeverWorks ==
    \A i \in OrderIds :
        <<ibkr[i].ref, ibkr[i].life>> \in memo.rejected /\ PlacedAlone(i) =>
        ibkr[i].state \notin {"SENT", "WORKING", "FILLED"}

(* When a reconnect or a snapshot may report success, every execution IBKR  *)
(* had made when it began has been put in the queue of events, once.        *)
RefreshIsComplete ==
    /\ Complete => MadeBefore \subseteq bridge.reported
    /\ \A m, n \in 1..Len(bridge.events) :
          bridge.events[m].type = "EXECUTION" /\ bridge.events[m] = bridge.events[n] => m = n

(* A snapshot that may be returned shows each order as IBKR had it, if it   *)
(* has not changed since; callbacks came once, and those of an earlier      *)
(* snapshot that timed out are in.                                          *)
SnapshotIsCurrent ==
    task.op = "SNAPSHOT" /\ Complete /\ ~task.disturbed /\ memo.repeats = 0 =>
        \A i \in OrderIds :
            /\ ibkr[i] = task.since[i] /\ ibkr[i].state \in {"WORKING", "FILLED", "CANCELLED"}
            /\ PlacedAlone(i)
            => LET shown == bridge.orders[ibkr[i].ref]
               IN  /\ shown.filled = ibkr[i].filled
                   /\ shown.state = IF ibkr[i].state # "WORKING" THEN ibkr[i].state
                                    ELSE IF ibkr[i].filled > 0 THEN "PARTIALLY_FILLED"
                                    ELSE "ACKNOWLEDGED"

(* An order the OMS was told is over is not acknowledged, cancelled or      *)
(* rejected again by what comes late, until a snapshot lists it anew;       *)
(* unless two processes have placed it, which the bridge cannot tell apart. *)
OverStaysOver ==
    memo'.life = memo.life =>
        \A n \in (Len(bridge.events) + 1)..Len(bridge'.events) :
            LET c == bridge'.events[n].ref
            IN  c \in memo.over /\ (\A i \in OrderIds : ibkr[i].ref = c => PlacedAlone(i)) =>
                   bridge'.events[n].type \in {"EXECUTION", "CANCEL_REJECTED"}

(* No end of an order is swallowed: all callbacks of an unbroken connection *)
(* read, the OMS can poll that the order was cancelled or rejected.  A      *)
(* cancellation after a partial execution is the exception: its status      *)
(* counts as PARTIALLY_FILLED.                                              *)
EndsAreReported ==
    wire = <<>> /\ bridge.socket /\ ~memo.lossy =>
        \A i \in OrderIds :
            /\ ibkr[i].state \in {"CANCELLED", "REJECTED"}
            /\ ibkr[i].filled = 0 /\ ibkr[i].life = memo.life /\ PlacedAlone(i)
            => \E n \in 1..Len(bridge.events) :
                  bridge.events[n].ref = ibkr[i].ref /\ bridge.events[n].type = ibkr[i].state

(* A failed cancellation is reported at most once for each request.         *)
CancelsAnsweredOnce ==
    \A c \in ClientOrders :
        Cardinality({n \in 1..Len(bridge.events) :
            bridge.events[n].ref = c /\ bridge.events[n].type = "CANCEL_REJECTED"})
          <= memo.cancels[c]

(* What the OMS hears through the bridge is what IBKR has, in every state   *)
(* and at every step.                                                       *)
BridgeAgrees ==
    /\ PlacedOnce /\ RejectedNeverWorks /\ RefreshIsComplete /\ SnapshotIsCurrent
    /\ EndsAreReported /\ CancelsAnsweredOnce
BridgeStays == NothingExecutedIsPlaced /\ OverStaysOver
===============================================================================

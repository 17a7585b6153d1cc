---------------------------- MODULE ComboOrders ----------------------------
(***************************************************************************)
(* Multi-leg combination orders in the PAPER OMS and in the LIVE kernel:    *)
(* core/paper/src/combinations.rs and core/live/src/combinations.rs.        *)
(*                                                                         *)
(* One combination is one broker order.  Its executions arrive as groups    *)
(* that must name every leg, and a group is booked leg by leg: a leg that   *)
(* cannot be accounted, or evidence the OMS refuses, rolls the whole group  *)
(* back and leaves the order UNKNOWN.  The PAPER OMS then refuses every     *)
(* later status of that order; the LIVE kernel opens an incident instead.   *)
(* The adapter is not trusted: any evidence may arrive at any time, twice,  *)
(* late, truncated or under a used identity.  `kernel` is fixed at the      *)
(* start.  Prices, fees and the risk gate are abstracted.                   *)
(***************************************************************************)
EXTENDS OrderLifecycle, FiniteSetsExt

CONSTANTS Legs,       \* the instruments of the combination
          Ratio,      \* signed contracts of each leg in one unit
          Units,      \* the approved whole units
          Receipts    \* the identities executions can carry

VARIABLES kernel,     \* whose rules apply: "PAPER" or "LIVE"
          combo,      \* what the service holds in memory
          comboDisk,  \* the last journaled record
          comboRoute, \* the broker session and the call in progress
          refused     \* an execution group was refused and nobody explained it

comboVars == <<kernel, combo, comboDisk, comboRoute, refused>>

-----------------------------------------------------------------------------
(* The order, its accepted receipts (one fill identity per receipt stands   *)
(* for those of its legs), the position each leg has built up, the PAPER    *)
(* evidence error and the LIVE unexplained incident.                        *)
Groups == [id : Receipts, fills : Receipts, units : 1..(Units + 1),
           legs : {Legs} \union {Legs \ {l} : l \in Legs}]

EmptyCombo ==
    [state |-> "NONE", brokerId |-> 0, filled |-> 0, receipts |-> {},
     books |-> [l \in Legs |-> 0], evidenceError |-> FALSE, incident |-> FALSE]

ComboType ==
    [state : StoredStates \union {"NONE"}, brokerId : {0, 1}, filled : 0..Units,
     receipts : SUBSET Groups, books : [Legs -> Int],
     evidenceError : BOOLEAN, incident : BOOLEAN]

(* acknowledge: the evidence names the venue's order.                       *)
AfterComboAcknowledge(c) ==
    [c EXCEPT !.brokerId = 1,
              !.state = IF c.evidenceError \/ c.state \notin {"PENDING_SUBMIT", "UNKNOWN"}
                        THEN @ ELSE WorkingState(c.filled)]

(* finish_combo_as.                                                         *)
AfterFinish(c, type) ==
    IF c.evidenceError \/ c.state \in Terminal THEN c
    ELSE [c EXCEPT !.state = ClosingState(type)]

AfterComboCancelRejected(c) ==
    IF ~c.evidenceError /\ c.state \in {"PENDING_CANCEL", "UNKNOWN"}
    THEN [c EXCEPT !.state = WorkingState(c.filled)] ELSE c

-----------------------------------------------------------------------------
(* BrokerComboExecution::validate and the identity checks before anything   *)
(* is booked.                                                               *)
IsReplay(c, g) == g \in c.receipts

Used(c) == {g.id : g \in c.receipts} \union {g.fills : g \in c.receipts}

(* Faulty: the units still open are not looked at.                          *)
BookableBeyond(c, g) ==
    /\ g.legs = Legs /\ g.id # g.fills
    /\ {g.id, g.fills} \intersect Used(c) = {}

Bookable(c, g) ==
    /\ g.legs = Legs /\ g.id # g.fills
    /\ {g.id, g.fills} \intersect Used(c) = {}
    /\ c.filled + g.units <= Units

(* The legs booked when the accounting of leg `failing` goes wrong: some    *)
(* set without it; all of them when none fails.                             *)
Booked(c, g, legs) ==
    [c EXCEPT !.books = [l \in Legs |-> @[l] + IF l \in legs THEN Ratio[l] * g.units ELSE 0]]

(* A late execution reopens a closed order; the PAPER OMS completes an      *)
(* order only without an evidence error.                                    *)
AfterGroup(c, g) ==
    LET reopened == [c EXCEPT !.state = IF @ \in Closed THEN "UNKNOWN" ELSE @]
        known    == Booked(AfterComboAcknowledge(reopened), g, g.legs)
        total    == c.filled + g.units
    IN  [known EXCEPT
            !.filled = total, !.receipts = @ \union {g},
            !.state = IF c.evidenceError THEN @
                      ELSE IF total = Units THEN "FILLED"
                      ELSE IF @ = "ACKNOWLEDGED" THEN "PARTIALLY_FILLED" ELSE @]

-----------------------------------------------------------------------------
(* Faulty: the rollback of a failed event forgets the positions.            *)
RollbackForgetsBooks(before, after) == [before EXCEPT !.books = after.books]

(* synchronize restores its snapshot of everything the event touched.       *)
Rollback(before, after) == before

(* synchronize on evidence a combination could not take.                    *)
Anomalous(c) ==
    [c EXCEPT !.state = IF @ \in {"UNKNOWN", "FILLED"} THEN @ ELSE "UNKNOWN",
              !.evidenceError = kernel = "PAPER" \/ @,
              !.incident = kernel = "LIVE" \/ @]

(* A call blocks its caller: while one waits for the broker, nothing else   *)
(* happens in this process but its answer or a crash.                       *)
Free == comboRoute.call = "none"

Ready == Free /\ comboRoute.connected

Save(c) == combo' = c /\ comboDisk' = c

(* submit_combo_intent_as / submit_canary_combo_intent up to the broker     *)
(* call: PENDING_SUBMIT is journaled first; a retry answers from evidence.  *)
SubmitCombo ==
    /\ Ready
    /\ combo.state = "NONE"
    /\ Save([combo EXCEPT !.state = "PENDING_SUBMIT"])
    /\ comboRoute' = [comboRoute EXCEPT !.call = "submit"]
    /\ UNCHANGED <<kernel, refused>>

AnswerSubmit(answer) ==
    /\ comboRoute.call = "submit"
    /\ Save(CASE answer = "ACKNOWLEDGED" -> [combo EXCEPT !.state = answer, !.brokerId = 1]
              [] answer = "REJECTED"     -> [combo EXCEPT !.state = answer]
              [] OTHER                   -> [combo EXCEPT !.state = "UNKNOWN"])
    /\ comboRoute' = [connected |-> answer # "ERROR", call |-> "none"]
    /\ UNCHANGED <<kernel, refused>>

(* cancel_combo_order up to the broker call.                                *)
CancelCombo ==
    /\ Ready
    /\ combo.state \in Revisable /\ ~combo.evidenceError
    /\ Save([combo EXCEPT !.state = "PENDING_CANCEL"])
    /\ comboRoute' = [comboRoute EXCEPT !.call = "cancel"]
    /\ UNCHANGED <<kernel, refused>>

AnswerCancel(sent) ==
    /\ comboRoute.call = "cancel"
    /\ Save(IF sent THEN combo ELSE [combo EXCEPT !.state = "UNKNOWN"])
    /\ comboRoute' = [connected |-> sent, call |-> "none"]
    /\ UNCHANGED <<kernel, refused>>

(* synchronize, one drained status event: the ones a combination knows ...  *)
ApplyStatus(after) ==
    /\ Ready
    /\ combo.state # "NONE"
    /\ Save(after)
    /\ UNCHANGED <<kernel, comboRoute, refused>>

(* ... and evidence it cannot take: an unrecognized broker identity or a    *)
(* replacement.                                                             *)
RefuseStatus == ApplyStatus(Anomalous(combo))

(* synchronize, one drained execution group.                                *)
ApplyGroup(g) ==
    /\ Ready
    /\ combo.state # "NONE"
    /\ Bookable(combo, g)
    /\ Save(AfterGroup(combo, g))
    /\ UNCHANGED <<kernel, comboRoute, refused>>

ReplayGroup(g) ==
    /\ Ready
    /\ g.legs = Legs /\ IsReplay(combo, g)
    /\ Save(combo)
    /\ UNCHANGED <<kernel, comboRoute, refused>>

(* The legs in `legs` were booked before the failure was noticed; refused   *)
(* evidence fails before the first one.                                     *)
RefuseGroup(g, legs) ==
    /\ Ready
    /\ combo.state # "NONE"
    /\ ~IsReplay(combo, g)
    /\ ~Bookable(combo, g) => legs = {}
    /\ Save(Anomalous(Rollback(combo, Booked(combo, g, legs))))
    /\ refused' = TRUE
    /\ UNCHANGED <<kernel, comboRoute>>

(* explain_incident: LIVE only; nothing explains a PAPER evidence error.    *)
ExplainAnomaly ==
    /\ Free
    /\ combo.incident
    /\ Save([combo EXCEPT !.incident = FALSE])
    /\ refused' = FALSE
    /\ UNCHANGED <<kernel, comboRoute>>

(* The process dies at any point and restores the journal.                  *)
RestartCombo ==
    /\ combo' = comboDisk
    /\ comboRoute' = [connected |-> FALSE, call |-> "none"]
    /\ UNCHANGED <<kernel, comboDisk, refused>>

ReconnectCombo ==
    /\ Free /\ ~comboRoute.connected
    /\ comboRoute' = [comboRoute EXCEPT !.connected = TRUE]
    /\ UNCHANGED <<kernel, combo, comboDisk, refused>>

ComboInit ==
    /\ kernel \in {"PAPER", "LIVE"}
    /\ combo = EmptyCombo /\ comboDisk = EmptyCombo
    /\ comboRoute = [connected |-> TRUE, call |-> "none"]
    /\ refused = FALSE

ComboNext ==
    \/ SubmitCombo
    \/ \E a \in {"ACKNOWLEDGED", "REJECTED", "UNKNOWN", "ERROR"} : AnswerSubmit(a)
    \/ CancelCombo
    \/ \E sent \in BOOLEAN : AnswerCancel(sent)
    \/ ApplyStatus(AfterComboAcknowledge(combo))
    \/ \E t \in Closings : ApplyStatus(AfterFinish(combo, t))
    \/ ApplyStatus(AfterComboCancelRejected(combo))
    \/ RefuseStatus
    \/ \E g \in Groups : ApplyGroup(g)
    \/ \E g \in Groups : ReplayGroup(g)
    \/ \E g \in Groups : \E legs \in SUBSET Legs \ {Legs} : RefuseGroup(g, legs)
    \/ ExplainAnomaly
    \/ RestartCombo
    \/ ReconnectCombo

ComboSpec == ComboInit /\ [][ComboNext]_comboVars

-----------------------------------------------------------------------------
ComboTypeOK ==
    /\ kernel \in {"PAPER", "LIVE"}
    /\ combo \in ComboType /\ comboDisk \in ComboType
    /\ comboRoute \in [connected : BOOLEAN, call : {"none", "submit", "cancel"}]
    /\ refused \in BOOLEAN

(* Every leg holds exactly its ratio of the booked units, and the units are *)
(* those of the receipts: a group is never booked in part, twice, or under  *)
(* an identity it shares (apply_combo_event, the rollback in synchronize).  *)
LegsStayPaired ==
    /\ \A l \in Legs : combo.books[l] = Ratio[l] * combo.filled
    /\ combo.filled = MapThenSumSet(LAMBDA g : g.units, combo.receipts)
    /\ \A g, h \in combo.receipts : g # h => {g.id, g.fills} \intersect {h.id, h.fills} = {}

(* restore_executions accepts every journaled combination: a restart is     *)
(* never refused because a status and the fills went out of step.  The tax  *)
(* lots that restore rebuilds too are those of AccountBooks and PaperOms.   *)
ComboAlwaysRestorable ==
    LET c == comboDisk IN
    /\ c.state = "FILLED" => c.filled = Units
    /\ c.state = "PARTIALLY_FILLED" => c.filled \in 1..(Units - 1)
    /\ c.state \in Closed => c.filled # Units
    /\ c.receipts # {} => c.brokerId = 1

(* The two together: what the receipts booked is what the positions, the    *)
(* count and the journaled status say.                                      *)
CombosAgree == LegsStayPaired /\ ComboAlwaysRestorable

(* Refused execution evidence is gone from the adapter's queue, so until    *)
(* someone explains it the order must keep new orders away: no status, no   *)
(* later group and no restart may clear it (has_unknown_order,              *)
(* unresolved_incident_count).                                              *)
RefusedEvidenceBlocks ==
    refused =>
        /\ combo.evidenceError \/ combo.incident
        /\ kernel = "PAPER" => combo.state \in {"UNKNOWN", "FILLED"}
=============================================================================

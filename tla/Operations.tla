------------------------------ MODULE Operations ------------------------------
(***************************************************************************)
(* The operator workbench: the operations library                          *)
(* (core/operations/src/lib.rs) behind its command line                     *)
(* (apps/cli/src/operations.rs).  A configuration document declares limits, *)
(* an approval for them, the health others observed and one daily piece of  *)
(* work; a journal records when the work was completed.  No command reads a *)
(* clock: every one is given the instant it speaks of, and operators may    *)
(* speak of instants in any order.                                          *)
(*                                                                         *)
(* The hash of a document is the document, and the fingerprint of its       *)
(* parameters and the identity of its schedule are part of that.  The hash  *)
(* chain of the journal is its history; how it survives interrupted writes  *)
(* is the subject of EvidenceFiles, and here an interrupted one leaves a    *)
(* journal that no longer verifies.                                         *)
(***************************************************************************)
EXTENDS Integers, Sequences, FiniteSets, FiniteSetsExt

CONSTANTS Documents,   \* configuration documents an operator may write
          Operators,   \* processes that run complete-schedule
          Kinds,       \* types of record handed to the journal command
          DayTicks,    \* instants of a day
          Instants,    \* instants a command may be given
          MaxEntries   \* bound: journal entries

VARIABLES configuration,   \* the document in place
          completions,     \* Operators -> how far complete-schedule has come
          workbook,        \* the records of the operations journal
          verifiable       \* the journal ends on a complete record

operationsVars == <<configuration, completions, workbook, verifiable>>

Never == -1
Day(t) == t \div DayTicks

-----------------------------------------------------------------------------
(* approval_subject_fingerprint: revision, predecessor and every value, but *)
(* not the approval itself.                                                 *)
Subject(d) == [revision |-> d.revision, cap |-> d.cap]

(* ParameterSet::validate for a value under two-person control.             *)
Authorized(d) ==
    /\ d.grant.requester # d.grant.approver
    /\ d.grant.subject = Subject(d)

(* validate_risk_limit_parameter_policy: the limit that is enforced is the  *)
(* parameter that was approved, under the policy compiled in.               *)
UnderPolicy(d) == d.control = "TWO_PERSON" /\ d.grant.trusted /\ d.displayed = d.cap

(* scheduled_instant_for.                                                   *)
ScheduledFor(d, t) == Day(t) * DayTicks + d.hour

(* OperationsSnapshot::validate, with validate_schedule_completion_time for *)
(* a completion the document itself declares.                               *)
Validates(d, t) ==
    /\ Authorized(d) /\ d.grant.at <= t
    /\ UnderPolicy(d)
    /\ d.done # Never => ScheduledFor(d, d.done) <= d.done /\ d.done <= t

-----------------------------------------------------------------------------
(* Journal records.  Details that are not about schedules are well formed   *)
(* for their type or are not, and no reader looks at their instant.         *)
Typed == {"COMPLETION", "LEGACY"}
Registered == {"MODEL_RISK", "GAME_DAY"}

(* A record of another type names no document and no scheduled instant.     *)
Entry(id, kind, t, d, due, sound) ==
    IF kind = "COMPLETION"
    THEN [id |-> id, kind |-> kind, at |-> t, document |-> d, due |-> due]
    ELSE [id |-> id, kind |-> kind, sound |-> sound]

(* validate_schedule_completion_input.                                      *)
CompletionShape(e) == e.kind = "COMPLETION" => e.due <= e.at

(* validate_model_risk_details and validate_game_day_details.               *)
RegisterShape(e) == e.kind \in Registered => e.sound

(* append, whatever command calls it.                                       *)
EntryAppendable(e) ==
    /\ CompletionShape(e) /\ RegisterShape(e)
    /\ \A n \in 1..Len(workbook) : workbook[n].id # e.id

(* OperationalJournal::open and read_verified fail on a torn journal.       *)
JournalReadable == verifiable

(* The completions that apply_schedule_completions counts.                  *)
Counted(d, t) ==
    {n \in 1..Len(workbook) :
        /\ workbook[n].kind = "COMPLETION"
        /\ workbook[n].at <= t
        /\ workbook[n].document = d}

(* What makes apply_schedule_completions refuse the whole journal.          *)
Projects(d, t) ==
    \A n \in Counted(d, t) :
        /\ workbook[n].due = ScheduledFor(d, workbook[n].at)
        /\ workbook[n].due <= workbook[n].at

LastDone(d, t) == Max({d.done} \union {workbook[n].at : n \in Counted(d, t)})

(* derive_schedule_statuses.                                                *)
NextDue(d, done, t) ==
    IF done # Never /\ Day(done) = Day(t) THEN ScheduledFor(d, t) + DayTicks
    ELSE ScheduledFor(d, t)

IsDue(d, done, t) == d.enabled /\ NextDue(d, done, t) <= t

(* model_risk_records and game_day_records.                                 *)
RegistersProject == \A n \in 1..Len(workbook) : RegisterShape(workbook[n])

-----------------------------------------------------------------------------
(* derive_risk_cockpit.                                                     *)
Breached(d) == d.gross > d.displayed
CockpitState(d) ==
    IF ~d.audited \/ ~d.reconciled \/ d.switched \/ Breached(d) THEN "CRITICAL"
    ELSE IF ~d.connected THEN "WARNING" ELSE "NORMAL"

Alerts(d, done, t) ==
    {a \in {<<"CRITICAL", "audit_chain_unhealthy">>, <<"CRITICAL", "reconciliation_unhealthy">>,
            <<"WARNING", "broker_disconnected">>, <<"CRITICAL", "kill_switch_active">>,
            <<"CRITICAL", "risk_limit_breached">>, <<"WARNING", "scheduled_work_due">>} :
        CASE a[2] = "audit_chain_unhealthy" -> ~d.audited
          [] a[2] = "reconciliation_unhealthy" -> ~d.reconciled
          [] a[2] = "broker_disconnected" -> ~d.connected
          [] a[2] = "kill_switch_active" -> d.switched
          [] a[2] = "risk_limit_breached" -> Breached(d)
          [] a[2] = "scheduled_work_due" -> IsDue(d, done, t)}

(* The dashboard and report commands: a journal that does not verify        *)
(* contributes no completions and an alert of its own.                      *)
JournalAlert == <<"CRITICAL", "operations_journal_unhealthy">>
DashboardAlerts(d, t) ==
    IF JournalReadable THEN Alerts(d, LastDone(d, t), t)
    ELSE Alerts(d, d.done, t) \union {JournalAlert}

-----------------------------------------------------------------------------
Idle == [phase |-> "IDLE"]

OperationsInit ==
    /\ configuration \in Documents
    /\ completions = [p \in Operators |-> Idle]
    /\ workbook = <<>>
    /\ verifiable = TRUE

(* Another document is put in place, between any two steps of a command.    *)
ReplaceConfiguration(d) ==
    /\ d # configuration
    /\ configuration' = d
    /\ UNCHANGED <<completions, workbook, verifiable>>

(* complete-schedule, until it has read the journal: the work is due.       *)
BeginCompletion(p, id, t) ==
    LET done == LastDone(configuration, t)
    IN  /\ completions[p].phase = "IDLE" /\ Len(workbook) < MaxEntries
        /\ Validates(configuration, t) /\ JournalReadable /\ Projects(configuration, t)
        /\ IsDue(configuration, done, t)
        /\ completions' =
             [completions EXCEPT
                ![p] = [phase |-> "READ", seen |-> workbook,
                        entry |-> Entry(id, "COMPLETION", t, configuration,
                                        NextDue(configuration, done, t), TRUE)]]
        /\ UNCHANGED <<configuration, workbook, verifiable>>

(* Faulty: the journal that is appended to is not compared with the one read. *)
StillAsReadIgnored(p) == JournalReadable

(* The inspection of the journal opened for writing is the one that was read. *)
StillAsRead(p) == JournalReadable /\ workbook = completions[p].seen

(* The rest of complete-schedule, under the lock of the journal.            *)
FinishCompletion(p) ==
    /\ completions[p].phase = "READ"
    /\ workbook' = IF StillAsRead(p) /\ EntryAppendable(completions[p].entry)
                   THEN Append(workbook, completions[p].entry) ELSE workbook
    /\ completions' = [completions EXCEPT ![p] = Idle]
    /\ UNCHANGED <<configuration, verifiable>>

(* The journal command and the two typed record commands.                   *)
RecordEntry(e) ==
    /\ Len(workbook) < MaxEntries
    /\ e.kind \notin Typed
    /\ JournalReadable /\ EntryAppendable(e)
    /\ workbook' = Append(workbook, e)
    /\ UNCHANGED <<configuration, completions, verifiable>>

(* An append is cut short, of the journal command or of complete-schedule.  *)
TearJournal ==
    /\ JournalReadable /\ Len(workbook) < MaxEntries
    /\ verifiable' = FALSE
    /\ \/ UNCHANGED completions
       \/ \E p \in Operators :
             /\ completions[p].phase = "READ" /\ StillAsRead(p)
             /\ completions' = [completions EXCEPT ![p] = Idle]
    /\ UNCHANGED <<configuration, workbook>>

(* What an operator may hand to the journal command: any type, any details. *)
Ids == 1..MaxEntries
Submissions(t) ==
    {Entry(id, kind, t, configuration, due, sound) :
        id \in Ids, kind \in Kinds, due \in {t - 1, t}, sound \in BOOLEAN}

OperationsNext ==
    \/ \E d \in Documents : ReplaceConfiguration(d)
    \/ \E p \in Operators :
          \/ FinishCompletion(p)
          \/ \E id \in Ids, t \in Instants : BeginCompletion(p, id, t)
    \/ \E t \in Instants : \E e \in Submissions(t) : RecordEntry(e)
    \/ TearJournal

OperationsSpec == OperationsInit /\ [][OperationsNext]_operationsVars

-----------------------------------------------------------------------------
(* The snapshot that load_snapshot builds of a document.                    *)
Snapshots ==
    [revision : Nat, cap : Nat, displayed : Nat, gross : Nat, hour : Nat, done : Int,
     control : {"STANDARD", "TWO_PERSON"}, enabled : BOOLEAN, audited : BOOLEAN,
     reconciled : BOOLEAN, connected : BOOLEAN, switched : BOOLEAN,
     grant : [requester : STRING, approver : STRING, at : Nat, trusted : BOOLEAN,
              subject : [revision : Nat, cap : Nat]]]

OperationsTypeOK ==
    /\ configuration \in Snapshots /\ Len(workbook) <= MaxEntries /\ verifiable \in BOOLEAN
    /\ \A p \in Operators : completions[p].phase \in {"IDLE", "READ"}
    /\ \A n \in 1..Len(workbook) : workbook[n].id \in Ids

(* Nothing an operator can record makes a reader of the journal fail: every *)
(* document that loads projects it, at every instant, and the registers of  *)
(* typed records can be published.                                          *)
ReadersNeverFail ==
    /\ \A d \in Documents, t \in Instants : Validates(d, t) => Projects(d, t)
    /\ RegistersProject

Completed(d) == {n \in 1..Len(workbook) : workbook[n].kind = "COMPLETION"
                                          /\ workbook[n].document = d}

(* The work of a day is completed once under a document, whatever two       *)
(* operators do at once: a second record speaks of an earlier instant than  *)
(* the first, and there is none on a day the document declares done.        *)
DoneOnce ==
    \A d \in Documents : \A n \in Completed(d) :
        /\ d.done # Never => Day(workbook[n].at) # Day(d.done)
        /\ \A m \in Completed(d) :
              m < n /\ Day(workbook[m].at) = Day(workbook[n].at)
                  => workbook[n].at < workbook[m].at

(* A dashboard that calls for work that is recorded as done says, too, that *)
(* it could not read the journal, and one that could read it calls for the  *)
(* work exactly while it is not done.  The state it shows is critical just  *)
(* when an alert about the account is.                                      *)
DashboardsAgree ==
    \A d \in Documents, t \in Instants : Validates(d, t) =>
        LET alerts == DashboardAlerts(d, t)
            done == \/ d.done # Never /\ Day(d.done) = Day(t)
                    \/ \E n \in Completed(d) : workbook[n].at <= t /\ Day(workbook[n].at) = Day(t)
            calls == <<"WARNING", "scheduled_work_due">> \in alerts
        IN  /\ calls /\ done => JournalAlert \in alerts
            /\ JournalAlert \notin alerts =>
                  (calls <=> d.enabled /\ ~done /\ t % DayTicks >= d.hour)
            /\ CockpitState(d) = "CRITICAL" <=>
                  \E a \in alerts \ {JournalAlert} : a[1] = "CRITICAL"

(* One approval admits one limit, in whatever documents it is cited.        *)
OneApprovalOneLimit ==
    \A d, e \in Documents :
        /\ d.grant = e.grant
        /\ \E t \in Instants : Validates(d, t)
        /\ \E t \in Instants : Validates(e, t)
        => d.displayed = e.displayed

(* What the workbench shows an operator can be relied on.                   *)
WorkbenchIsHonest ==
    ReadersNeverFail /\ DoneOnce /\ DashboardsAgree /\ OneApprovalOneLimit
===============================================================================

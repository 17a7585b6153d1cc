---------------------------- MODULE Services_proofs ----------------------------
(***************************************************************************)
(* The components that share no state, as MCServices runs them: what is     *)
(* proved of a component in its own module holds of every behaviour of the  *)
(* combination, for any values of the constants.                            *)
(*                                                                         *)
(* The variables belong to the component chosen at the start, so its        *)
(* inductive invariant is one of the whole while that component runs.       *)
(***************************************************************************)
EXTENDS MCServices, TLAPS

-----------------------------------------------------------------------------
(* The event store.                                                         *)

EventsInv == component = "events" => Trading!Inv

LEMMA EventsInvariant == Spec => []EventsInv
  <1>1. Init => EventsInv
    BY Trading!InvInit DEF Init, EventsInv
  <1>2. EventsInv /\ [Next]_vars => EventsInv'
    <2> SUFFICES ASSUME EventsInv, [Next]_vars, component' = "events" PROVE Trading!Inv'
      BY DEF EventsInv
    <2>1. CASE UNCHANGED vars
      BY <2>1, Trading!InvNext DEF vars, EventsInv, Trading!eventVars
    <2>2. CASE Next
      <3>1. component = "events" /\ Trading!Next
        BY <2>2 DEF Next, Runs
      <3> QED BY <3>1, Trading!InvNext DEF EventsInv
    <2> QED BY <2>1, <2>2
  <1> QED BY <1>1, <1>2, PTL DEF Spec

(* Whatever the writers of append_event race on, and whenever a connection  *)
(* is lost: the rows of an aggregate are numbered 1..n, an event and a key  *)
(* stand for one row, every row has its outbox message, and every outcome a *)
(* caller was given is what the table holds.                                *)
THEOREM AppendsHonest == Spec => []AppendsAreHonest
  <1>1. EventsInv => AppendsAreHonest
    BY DEF EventsInv, AppendsAreHonest, Trading!Inv, Trading!AppendsAreHonest
  <1> QED BY <1>1, EventsInvariant, PTL

-----------------------------------------------------------------------------
(* The identity service.                                                    *)

IdentityInv == component = "identity" => Access!Inv

LEMMA IdentityInvariant == Spec => []IdentityInv
  <1>1. Access!FailureLimits
    BY IdentityAssumption DEF Access!FailureLimits
  <1>2. Init => IdentityInv
    BY <1>1, Access!InvInit DEF Init, IdentityInv
  <1>3. IdentityInv /\ [Next]_vars => IdentityInv'
    <2> SUFFICES ASSUME IdentityInv, [Next]_vars, component' = "identity" PROVE Access!Inv'
      BY DEF IdentityInv
    <2>1. CASE UNCHANGED vars
      BY <1>1, <2>1, Access!InvNext DEF vars, IdentityInv, Access!identityVars
    <2>2. CASE Next
      <3>1. component = "identity" /\ Access!Next
        BY <2>2 DEF Next, Runs
      <3> QED BY <1>1, <3>1, Access!InvNext DEF IdentityInv
    <2> QED BY <2>1, <2>2
  <1> QED BY <1>2, <1>3, PTL DEF Spec

(* A one-time code, a recovery code and a challenge grant one session at    *)
(* most (complete_totp, complete_recovery_code), no more than the limit of  *)
(* wrong attempts are judged before a success or a served lockout           *)
(* (record_failure), and a session is of the present credentials of an      *)
(* enabled account (revoke_user_sessions).                                  *)
THEOREM AccountGuarded == Spec => AccountIsGuarded
  <1> DEFINE Bounded == component = "identity"
                           => Access!GuessesAreBounded /\ Access!SessionsAreCurrent
             Granted == component = "identity" => Access!FactorGrantsOnce
  <1>1. IdentityInv => Bounded
    BY DEF IdentityInv, Access!Inv, Access!GuessesAreCounted, Access!GuessesAreBounded
  <1>2. IdentityInv /\ [Next]_vars => [Granted]_vars
    <2> SUFFICES ASSUME IdentityInv, Next, component = "identity" PROVE Access!FactorGrantsOnce
      OBVIOUS
    <2>1. Access!Next
      BY DEF Next, Runs
    <2> QED BY <2>1, Access!GrantsOnce DEF IdentityInv
  <1> QED BY <1>1, <1>2, IdentityInvariant, PTL DEF Spec, AccountIsGuarded
-----------------------------------------------------------------------------
(* The evidence files.                                                      *)

FilesInv == component = "files" => Commercial!Inv /\ v1 \in Formats

LEMMA FilesInvariant == Spec => []FilesInv
  <1>1. Commercial!EntriesAreWhole
    BY FilesAssumption DEF Commercial!EntriesAreWhole
  <1>2. Init => FilesInv
    BY Commercial!InvInit DEF Init, FilesInv, Commercial!FilesInit
  <1>3. FilesInv /\ [Next]_vars => FilesInv'
    <2> SUFFICES ASSUME FilesInv, [Next]_vars, component' = "files"
                 PROVE  Commercial!Inv' /\ v1' \in Formats
      BY DEF FilesInv
    <2>1. CASE UNCHANGED vars
      BY <1>1, <2>1, Commercial!InvNext DEF vars, FilesInv, Commercial!fileVars
    <2>2. CASE Next
      <3>1. component = "files" /\ Commercial!FilesNext
        BY <2>2 DEF Next, Runs
      <3> QED BY <1>1, <3>1, Commercial!InvNext, Commercial!FormatStays DEF FilesInv
    <2> QED BY <2>1, <2>2
  <1> QED BY <1>2, <1>3, PTL DEF Spec

(* Whatever processes follow each other and wherever their writes stop      *)
(* (append of the four journals), a file that verifies holds in order every *)
(* entry a caller was told is recorded, and a ledger that was written       *)
(* without interruption since its verification opens again.                 *)
THEOREM EvidenceKept == Spec => []EvidenceSurvives
  <1>1. Commercial!FourFormats
    BY FilesAssumption DEF Commercial!FourFormats
  <1>2. FilesInv => EvidenceSurvives
    BY <1>1, Commercial!ToldStands, Commercial!LedgersStand
       DEF FilesInv, EvidenceSurvives, Commercial!EvidenceSurvives
  <1> QED BY <1>2, FilesInvariant, PTL
-----------------------------------------------------------------------------
(* Deletions and releases.                                                  *)

RetentionInv == component = "retention" => Commercial!RetentionInv
ReleaseInv == component = "release" => Commercial!ReleaseInv

LEMMA RetentionInvariant == Spec => []RetentionInv
  <1>1. Init => RetentionInv
    BY Commercial!RetentionStarts DEF Init, RetentionInv
  <1>2. RetentionInv /\ [Next]_vars => RetentionInv'
    <2> SUFFICES ASSUME RetentionInv, [Next]_vars, component' = "retention"
                 PROVE  Commercial!RetentionInv'
      BY DEF RetentionInv
    <2>1. CASE UNCHANGED vars
      BY CommercialAssumption, <2>1, Commercial!RetentionSteps
         DEF vars, RetentionInv, Commercial!retentionVars
    <2>2. CASE Next
      <3>1. component = "retention" /\ Commercial!RetentionNext
        BY <2>2 DEF Next, Runs
      <3> QED BY CommercialAssumption, <3>1, Commercial!RetentionSteps DEF RetentionInv
    <2> QED BY <2>1, <2>2
  <1> QED BY <1>1, <1>2, PTL DEF Spec

LEMMA ReleaseInvariant == Spec => []ReleaseInv
  <1>1. Init => ReleaseInv
    BY CommercialAssumption, Commercial!ReleaseStarts DEF Init, ReleaseInv
  <1>2. ReleaseInv /\ [Next]_vars => ReleaseInv'
    <2> SUFFICES ASSUME ReleaseInv, [Next]_vars, component' = "release"
                 PROVE  Commercial!ReleaseInv'
      BY DEF ReleaseInv
    <2>1. CASE UNCHANGED vars
      BY CommercialAssumption, <2>1, Commercial!ReleaseSteps
         DEF vars, ReleaseInv, Commercial!releaseVars
    <2>2. CASE Next
      <3>1. component = "release" /\ Commercial!ReleaseNext
        BY <2>2 DEF Next, Runs
      <3> QED BY CommercialAssumption, <3>1, Commercial!ReleaseSteps DEF ReleaseInv
    <2> QED BY <2>1, <2>2
  <1> QED BY <1>1, <1>2, PTL DEF Spec

(* However files, holds and plans have changed since, a deletion of         *)
(* execute_retention_candidate is of the contents some confirmed plan       *)
(* measured, free of a hold when that plan was made, of its tenant, and     *)
(* lawful; and every receipt is that of a deletion.                         *)
THEOREM DeletionsReviewed == Spec => []DeletionsAreReviewed
  <1>1. RetentionInv => DeletionsAreReviewed
    BY Commercial!InvIsReviewed DEF RetentionInv, DeletionsAreReviewed
  <1> QED BY <1>1, RetentionInvariant, PTL

(* What verify_entitled_self_host_readiness declares ready is signed, is    *)
(* what its configuration names, and is paid for; and what                  *)
(* derive_entitlement grants changes only with a record that concerns it.   *)
THEOREM ReleasesEarned == Spec => ReleasesAreEarned
  <1> DEFINE Earned == component = "release" => Commercial!ReadinessIsEarned
             Stable == component = "release" => Commercial!EntitlementIsStable
  <1>1. ReleaseInv => Earned
    BY DEF ReleaseInv, Commercial!ReleaseInv
  <1>2. ReleaseInv /\ [Next]_vars => [Stable]_vars
    <2> SUFFICES ASSUME ReleaseInv, Next, component = "release"
                 PROVE  Commercial!EntitlementIsStable
      OBVIOUS
    <2>1. Commercial!ReleaseNext
      BY DEF Next, Runs
    <2> QED BY CommercialAssumption, <2>1, Commercial!StableStep DEF ReleaseInv
  <1> QED BY <1>1, <1>2, ReleaseInvariant, PTL DEF Spec, ReleasesAreEarned

-----------------------------------------------------------------------------
(* Combination orders.                                                      *)

CombosInv == component = "combo" => Trading!ComboInv

LEMMA CombosInvariant == Spec => []CombosInv
  <1>1. Init => CombosInv
    BY CombosAssumption, Trading!ComboStarts DEF Init, CombosInv
  <1>2. CombosInv /\ [Next]_vars => CombosInv'
    <2> SUFFICES ASSUME CombosInv, [Next]_vars, component' = "combo"
                 PROVE  Trading!ComboInv'
      BY DEF CombosInv
    <2>1. CASE UNCHANGED vars
      BY CombosAssumption, <2>1, Trading!ComboSteps DEF vars, CombosInv, Trading!comboVars
    <2>2. CASE Next
      <3>1. component = "combo" /\ Trading!ComboNext
        BY <2>2 DEF Next, Runs
      <3> QED BY CombosAssumption, <3>1, Trading!ComboSteps DEF CombosInv
    <2> QED BY <2>1, <2>2
  <1> QED BY <1>1, <1>2, PTL DEF Spec

(* Whatever evidence arrives, twice, late, truncated or under a used        *)
(* identity, and wherever a group fails: the legs hold their ratio of the   *)
(* booked units (apply_combo_event), restore accepts every journaled record *)
(* (restore_executions), and what was refused keeps new orders away         *)
(* (unresolved_incident_count).                                             *)
THEOREM CombosAgreed == Spec => []CombosAgree
  <1>1. CombosInv => CombosAgree
    BY CombosAssumption, Trading!ComboAgrees DEF CombosInv, CombosAgree
  <1> QED BY <1>1, CombosInvariant, PTL
-----------------------------------------------------------------------------
(* The operator workbench.                                                  *)

WorkbenchInv == component = "operations" => Commercial!WorkbookInv

LEMMA WorkbenchInvariant == Spec => []WorkbenchInv
  <1>1. Init => WorkbenchInv
    BY OperationsAssumption, Commercial!WorkbookStarts DEF Init, WorkbenchInv
  <1>2. WorkbenchInv /\ [Next]_vars => WorkbenchInv'
    <2> SUFFICES ASSUME WorkbenchInv, [Next]_vars, component' = "operations"
                 PROVE  Commercial!WorkbookInv'
      BY DEF WorkbenchInv
    <2>1. CASE UNCHANGED vars
      BY OperationsAssumption, <2>1, Commercial!WorkbookSteps
         DEF vars, WorkbenchInv, Commercial!operationsVars
    <2>2. CASE Next
      <3>1. component = "operations" /\ Commercial!OperationsNext
        BY <2>2 DEF Next, Runs
      <3> QED BY OperationsAssumption, <3>1, Commercial!WorkbookSteps DEF WorkbenchInv
    <2> QED BY <2>1, <2>2
  <1> QED BY <1>1, <1>2, PTL DEF Spec

(* Whatever two operators do at once, at whatever instants, and however the *)
(* configuration is replaced: the journal projects under every document     *)
(* that loads, a day's work is done once, a dashboard that could read the   *)
(* journal calls for what is not done and for nothing else                  *)
(* (apply_schedule_completions, derive_schedule_statuses), and one approval *)
(* admits one limit (validate_risk_limit_parameter_policy).                 *)
THEOREM WorkbenchHonestly == Spec => []WorkbenchIsHonest
  <1>1. WorkbenchInv => WorkbenchIsHonest
    BY OperationsAssumption, Commercial!WorkbookHonest DEF WorkbenchInv, WorkbenchIsHonest
  <1> QED BY <1>1, WorkbenchInvariant, PTL
-----------------------------------------------------------------------------
(* The routes of the trading API, and the desktop.                          *)

ApiInv == component = "api" => Access!RoutesInv
DeskInv == component = "desktop" => Trading!DesktopInv

LEMMA ApiInvariant == Spec => []ApiInv
  <1>1. Init => ApiInv
    BY RoutesAssumption, Access!RoutesStart DEF Init, ApiInv
  <1>2. ApiInv /\ [Next]_vars => ApiInv'
    <2> SUFFICES ASSUME ApiInv, [Next]_vars, component' = "api"
                 PROVE  Access!RoutesInv'
      BY DEF ApiInv
    <2>1. CASE UNCHANGED vars
      BY RoutesAssumption, <2>1, Access!RoutesStep DEF vars, ApiInv, Access!routeVars
    <2>2. CASE Next
      <3>1. component = "api" /\ Access!RoutesNext
        BY <2>2 DEF Next, Runs
      <3> QED BY RoutesAssumption, <3>1, Access!RoutesStep DEF ApiInv
    <2> QED BY <2>1, <2>2
  <1> QED BY <1>1, <1>2, PTL DEF Spec

LEMMA DeskInvariant == Spec => []DeskInv
  <1>1. Init => DeskInv
    BY DesktopAssumption, Trading!DesktopStarts DEF Init, DeskInv
  <1>2. DeskInv /\ [Next]_vars => DeskInv'
    <2> SUFFICES ASSUME DeskInv, [Next]_vars, component' = "desktop"
                 PROVE  Trading!DesktopInv'
      BY DEF DeskInv
    <2>1. CASE UNCHANGED vars
      BY DesktopAssumption, <2>1, Trading!DesktopSteps DEF vars, DeskInv, Trading!desktopVars
    <2>2. CASE Next
      <3>1. component = "desktop" /\ Trading!DesktopNext
        BY <2>2 DEF Next, Runs
      <3> QED BY DesktopAssumption, <3>1, Trading!DesktopSteps DEF DeskInv
    <2> QED BY <2>1, <2>2
  <1> QED BY <1>1, <1>2, PTL DEF Spec

(* Whatever is called at once, retried or denied, and whatever append of a  *)
(* service fails: an answered halt binds until its release, every change on *)
(* record names an operator authorized for it, and an order and a corporate *)
(* action happen once (operate_paper_kill_switch, submit_paper_order); and  *)
(* the venue and the receipts of the desktop agree with its journal         *)
(* (trading.rs).                                                            *)
THEOREM CommandsAccountable == Spec => []CommandsAreAccountable
  <1>1. ApiInv /\ DeskInv => CommandsAreAccountable
    BY RoutesAssumption, DesktopAssumption, Access!RoutesAccount, Trading!DesktopStands
       DEF ApiInv, DeskInv, CommandsAreAccountable
  <1> QED BY <1>1, ApiInvariant, DeskInvariant, PTL

-----------------------------------------------------------------------------
(* What is attested about an account.                                       *)

EvidenceInv == component = "account" => Commercial!AccountInv

LEMMA EvidenceInvariant == Spec => []EvidenceInv
  <1>1. Init => EvidenceInv
    BY AccountAssumption, Commercial!AccountStarts DEF Init, EvidenceInv
  <1>2. EvidenceInv /\ [Next]_vars => EvidenceInv'
    <2> SUFFICES ASSUME EvidenceInv, [Next]_vars, component' = "account"
                 PROVE  Commercial!AccountInv'
      BY DEF EvidenceInv
    <2>1. CASE UNCHANGED vars
      BY AccountAssumption, <2>1, Commercial!AccountSteps
         DEF vars, EvidenceInv, Commercial!evidenceVars
    <2>2. CASE Next
      <3>1. component = "account" /\ Commercial!EvidenceNext
        BY <2>2 DEF Next, Runs
      <3> QED BY AccountAssumption, <3>1, Commercial!AccountSteps DEF EvidenceInv
    <2> QED BY <2>1, <2>2
  <1> QED BY <1>1, <1>2, PTL DEF Spec

(* Whatever order executions, late evidence, settlements, repeated requests *)
(* and restarts came in: once all is booked and applied the service holds   *)
(* the venue's position and cash; the strategies' shares make up its        *)
(* position until a split is applied, and nothing but a split takes them    *)
(* apart from it, by less than a unit for each share it rounds              *)
(* (apply_corporate_action); and a day recorded as clean stays one a        *)
(* reconciliation found nothing in (record_paper_session).                  *)
THEOREM AccountAttestedTruly == Spec => AccountIsAttested
  <1> DEFINE Attested == component = "account" => Commercial!AccountIsAttested
             Followed == component = "account" => Commercial!SharesFollow
  <1>1. EvidenceInv => Attested
    BY AccountAssumption, Commercial!AccountAttested DEF EvidenceInv
  <1>2. EvidenceInv /\ [Next]_vars => [Followed]_vars
    <2> SUFFICES ASSUME EvidenceInv, Next, component = "account"
                 PROVE  Commercial!SharesFollow
      OBVIOUS
    <2>1. Commercial!EvidenceNext
      BY DEF Next, Runs
    <2> QED BY AccountAssumption, <2>1, Commercial!SharesStand DEF EvidenceInv
  <1> QED BY <1>1, <1>2, EvidenceInvariant, PTL DEF Spec, AccountIsAttested

-----------------------------------------------------------------------------
(* The limits of a portfolio.                                               *)

LimitsInv == component = "limits" => Commercial!RiskInv

LEMMA LimitsInvariant == Spec => []LimitsInv
  <1>1. Init => LimitsInv
    BY LimitsAssumption, Commercial!RiskStarts DEF Init, LimitsInv
  <1>2. LimitsInv /\ [Next]_vars => LimitsInv'
    <2> SUFFICES ASSUME LimitsInv, [Next]_vars, component' = "limits"
                 PROVE  Commercial!RiskInv'
      BY DEF LimitsInv
    <2>1. CASE UNCHANGED vars
      BY LimitsAssumption, <2>1, Commercial!RiskSteps DEF vars, LimitsInv, Commercial!riskVars
    <2>2. CASE Next
      <3>1. component = "limits" /\ Commercial!RiskNext
        BY <2>2 DEF Next, Runs
      <3> QED BY LimitsAssumption, <3>1, Commercial!RiskSteps DEF LimitsInv
    <2> QED BY <2>1, <2>2
  <1> QED BY <1>1, <1>2, PTL DEF Spec

(* Whatever is submitted, assessed, filled, ended and switched, with a      *)
(* restart between any two steps: no way the approved orders can still fill *)
(* passes a limit that approved them (evaluate_combo_risk,                  *)
(* apply_working_bounds), and the journal keeps what the next ruling looks  *)
(* back on, the switches over an order among it (RiskBaseline, restore).    *)
THEOREM LimitsRemembered == Spec => LimitsRemember
  <1> DEFINE Bounded == component = "limits" => Commercial!ExposureBounded
             Held == component = "limits" =>
                        Commercial!LimitsHold /\ Commercial!OverlapsBind
  <1>1. LimitsInv => Bounded
    BY LimitsAssumption, Commercial!RiskBounded DEF LimitsInv
  <1>2. LimitsInv /\ [Next]_vars => [Held]_vars
    <2> SUFFICES ASSUME LimitsInv, Next, component = "limits"
                 PROVE  Commercial!LimitsHold /\ Commercial!OverlapsBind
      OBVIOUS
    <2>1. Commercial!RiskNext
      BY DEF Next, Runs
    <2> QED
      BY LimitsAssumption, <2>1, Commercial!LimitsStand, Commercial!OverlapsStand DEF LimitsInv
  <1> QED BY <1>1, <1>2, LimitsInvariant, PTL DEF Spec, LimitsRemember

-----------------------------------------------------------------------------
(* Recordings and their gaps.                                               *)

RecordingInv == component = "gaps" => Commercial!GapsInv

LEMMA RecordingInvariant == Spec => []RecordingInv
  <1>1. Init => RecordingInv
    BY Commercial!GapsStart DEF Init, RecordingInv
  <1>2. RecordingInv /\ [Next]_vars => RecordingInv'
    <2> SUFFICES ASSUME RecordingInv, [Next]_vars, component' = "gaps"
                 PROVE  Commercial!GapsInv'
      BY DEF RecordingInv
    <2>1. CASE UNCHANGED vars
      BY QuotesAssumption, <2>1, Commercial!GapsStep
         DEF vars, RecordingInv, Commercial!gapVars
    <2>2. CASE Next
      <3>1. component = "gaps" /\ Commercial!GapsNext
        BY <2>2 DEF Next, Runs
      <3> QED BY QuotesAssumption, <3>1, Commercial!GapsStep DEF RecordingInv
    <2> QED BY <2>1, <2>2
  <1> QED BY <1>1, <1>2, PTL DEF Spec

(* Whatever is lost, reordered and delivered twice: a sequence missing from *)
(* a recording was declared when it was skipped (FeedQualityMonitor), and   *)
(* repairs in several batches come to one by all of them                    *)
(* (repair_quote_gaps).                                                     *)
THEOREM GapsKnown == Spec => []GapsAreKnown
  <1>1. RecordingInv => GapsAreKnown
    BY QuotesAssumption, Commercial!GapsAreSound DEF RecordingInv, GapsAreKnown
  <1> QED BY <1>1, RecordingInvariant, PTL

-----------------------------------------------------------------------------
(* The pipe of a strategy worker.                                           *)

WorkerInv == component = "worker" => Access!PipeInv

(* No frame is taken for the answer to another question                     *)
(* (ProcessStrategyWorker): the first half of WorkersAnswerAndEnd.          *)
THEOREM WorkersAnswer == Spec => [](component = "worker" => Access!AnswersArePaired)
  <1>1. Init => WorkerInv
    BY Access!PipeStarts DEF Init, WorkerInv
  <1>2. WorkerInv /\ [Next]_vars => WorkerInv'
    <2> SUFFICES ASSUME WorkerInv, [Next]_vars, component' = "worker"
                 PROVE  Access!PipeInv'
      BY DEF WorkerInv
    <2>1. CASE UNCHANGED vars
      BY <2>1, Access!PipeStep DEF vars, WorkerInv, Access!workerVars, Access!threadVars
    <2>2. CASE Next
      <3>1. component = "worker" /\ Access!WorkerNext
        BY <2>2 DEF Next, Runs
      <3> QED BY <3>1, Access!PipeStep DEF WorkerInv
    <2> QED BY <2>1, <2>2
  <1>3. WorkerInv => (component = "worker" => Access!AnswersArePaired)
    BY DEF WorkerInv, Access!PipeInv, Access!AnswersArePaired
  <1> QED BY <1>1, <1>2, <1>3, PTL DEF Spec

-----------------------------------------------------------------------------
(* The bridge to IBKR.                                                      *)

BridgeInv == component = "bridge" => Access!BridgeInvariant

LEMMA BridgeInvariantHolds == Spec => []BridgeInv
  <1>1. Init => BridgeInv
    BY BridgeAssumption, Access!BridgeStarts DEF Init, BridgeInv
  <1>2. BridgeInv /\ [Next]_vars => BridgeInv'
    <2> SUFFICES ASSUME BridgeInv, [Next]_vars, component' = "bridge"
                 PROVE  Access!BridgeInvariant'
      BY DEF BridgeInv
    <2>1. CASE UNCHANGED vars
      BY BridgeAssumption, <2>1, Access!BridgeSteps DEF vars, BridgeInv, Access!bridgeVars
    <2>2. CASE Next
      <3>1. component = "bridge" /\ Access!BridgeNext
        BY <2>2 DEF Next, Runs
      <3> QED BY BridgeAssumption, <3>1, Access!BridgeSteps DEF BridgeInv
    <2> QED BY <2>1, <2>2
  <1> QED BY <1>1, <1>2, PTL DEF Spec

(* Whatever is lost, late or repeated between the bridge and IBKR, and      *)
(* however often the bridge is restarted (follon_ibkr_gateway.py), for any  *)
(* orders: most of BridgeIsFaithful. What becomes of a snapshot, and when   *)
(* the end of an order is reported, is left to the run.                     *)
THEOREM BridgeKeeps ==
    Spec => /\ [](component = "bridge" => Access!BridgePromises)
            /\ [][component = "bridge" => Access!NothingExecutedIsPlaced]_vars
  <1> DEFINE Known == component = "bridge" => Access!NothingExecutedIsPlaced
  <1>1. BridgeInv => (component = "bridge" => Access!BridgePromises)
    BY BridgeAssumption, Access!BridgeKeepsPromises DEF BridgeInv
  <1>2. BridgeInv /\ [Next]_vars => [Known]_vars
    <2>1. ASSUME BridgeInv, Next, component = "bridge" PROVE Access!NothingExecutedIsPlaced
      <3>1. Access!BridgeNext
        BY <2>1 DEF Next, Runs
      <3> QED BY BridgeAssumption, <2>1, <3>1, Access!ExecutedIsKnown DEF BridgeInv
    <2> QED BY <2>1
  <1> QED BY <1>1, <1>2, BridgeInvariantHolds, PTL DEF Spec
=============================================================================

-------------------------- MODULE Commercial_proofs --------------------------
(***************************************************************************)
(* What is kept as evidence, and what is sold.                             *)
(*                                                                         *)
(* core/commercial, for any inventory, requests, records and artifacts:    *)
(* every deletion is one that some operator reviewed and the law allows,   *)
(* and every installation declared ready has earned it.                    *)
(*                                                                         *)
(* The evidence files, for any number of processes that open one after the *)
(* other, any entries and any number of interrupted writes: what a caller  *)
(* was told is recorded stays in every file that verifies, and a ledger    *)
(* written without interruption opens again. The lock leaves one open      *)
(* handle at a time (OneOwner). While the lines chain, what was told is    *)
(* what is recorded, but for the record that is being written or whose     *)
(* answer was lost (ToldInv): a write after a torn line ends up on that    *)
(* line, and no later write mends it. In the formats whose readers want    *)
(* the final newline, the handle also knows the whole file from its        *)
(* verification on (OwnedInv).                                             *)
(*                                                                         *)
(* The operator workbench, for any documents and instants: whatever racing *)
(* operators append, the journal projects, work is done once and           *)
(* dashboards are true of it. What an operator prepares is what the checks *)
(* found in the journal then read (Prepared), and every recorded           *)
(* completion is sound at its place (SoundEntry).                          *)
(*                                                                         *)
(* What is attested about an account, for any orders, actions and sessions: *)
(* once all is booked and applied, the service and the venue agree, and a   *)
(* recorded clean day has a clean report behind it.  Both sides keep their  *)
(* positions as sums over what each knows (VenueKept, BooksKept).           *)
(*                                                                         *)
(* The limits of a portfolio, for any intents, prices and limits: however   *)
(* the approved orders fill, together and in part, they stay within what    *)
(* approved them, since what is unfilled is charged in full until it fills  *)
(* (RiskInv); and the journal keeps what later rulings look back on.        *)
(*                                                                         *)
(* Recordings and their gaps, for any quotes: what the monitor declared and *)
(* what is recorded make up all it has passed (Watched), and batches that   *)
(* are accepted one after the other are accepted as one (BatchesCompose).   *)
(***************************************************************************)
EXTENDS Retention, ReleaseGate, EvidenceFiles, Operations, AccountEvidence, PortfolioRisk,
        GapRepair, Sums_proofs, WellFoundedInduction, SequenceTheorems

-----------------------------------------------------------------------------
(* Retention and erasure.                                                   *)

(* Deadlines and the instants of requests and commands are dates.           *)
Dates ==
    /\ LatestInstant \in Nat
    /\ \A a \in Assets : Inventory[a].until \in Nat
    /\ \A request \in ErasureRequests : request.at \in Nat

(* What was seen when the plan was published, for each of its candidates.   *)
SeenBy(plan, review) ==
    /\ review.plan = plan
    /\ \A a \in DOMAIN plan.candidates :
          a \notin review.held /\ review.files[a] = plan.candidates[a]

(* A plan only has candidates that may go once its instant has come.        *)
May(plan, a) ==
    /\ a \in Assets /\ Inventory[a].tenant = plan.tenant
    /\ plan.request = {} => Inventory[a].until <= plan.at
    /\ \A request \in plan.request :
          /\ Inventory[a].class = "CUSTOMER_CONTENT" /\ Concerns(request, a)
          /\ request.kind = "ERASURE" /\ request.at <= plan.at

PlanInv ==
    \A plan \in plans :
        /\ plan.at \in Nat /\ plan.request \subseteq ErasureRequests
        /\ \E review \in reviews : SeenBy(plan, review)
        /\ \A a \in DOMAIN plan.candidates : May(plan, a)

Allowed(d) ==
    /\ \E r \in reviews : r.plan = d.plan /\ d.asset \notin r.held
                          /\ r.files[d.asset] = d.contents
    /\ Inventory[d.asset].tenant = d.plan.tenant
    /\ Lawful(d)

RetentionInv ==
    /\ PlanInv
    /\ \A d \in deletions : Allowed(d)
    /\ unreceipted \subseteq deletions /\ receipts \subseteq deletions

(* A new plan and its review.                                               *)
LEMMA PublishKeeps ==
    ASSUME RetentionInv, NEW plan, Publish(plan),
           plan.at \in Nat, plan.request \subseteq ErasureRequests,
           DOMAIN plan.candidates \subseteq Assets \ held,
           \A a \in DOMAIN plan.candidates : May(plan, a) /\ plan.candidates[a] = files[a]
    PROVE  RetentionInv'
  <1> DEFINE review == [plan |-> plan, files |-> files, held |-> held]
  <1>1. /\ plans' = plans \union {plan} /\ reviews' = reviews \union {review}
        /\ UNCHANGED <<unreceipted, receipts, deletions>>
    BY DEF Publish
  <1>2. SeenBy(plan, review)
    BY DEF SeenBy
  <1>3. ASSUME NEW p \in plans'
        PROVE  /\ p.at \in Nat /\ p.request \subseteq ErasureRequests
               /\ \E r \in reviews' : SeenBy(p, r)
               /\ \A a \in DOMAIN p.candidates : May(p, a)
    <2>1. CASE p = plan
      BY <1>1, <1>2, <2>1
    <2>2. CASE p \in plans
      BY <1>1, <2>2 DEF RetentionInv, PlanInv
    <2> QED BY <1>1, <2>1, <2>2
  <1>4. PlanInv'
    BY <1>3 DEF PlanInv, SeenBy, May, Concerns
  <1>5. \A d \in deletions' : Allowed(d)'
    BY <1>1 DEF RetentionInv, Allowed, Lawful
  <1> QED BY <1>1, <1>4, <1>5 DEF RetentionInv

LEMMA ExpiredKeeps ==
    ASSUME Dates, RetentionInv, NEW tenant, NEW at \in Instant, PlanExpired(tenant, at)
    PROVE  RetentionInv'
  <1> DEFINE mine == {a \in Assets : Inventory[a].tenant = tenant}
             expired == {a \in mine \ held : Inventory[a].until <= at}
             plan == [tenant |-> tenant, request |-> {}, at |-> at,
                      candidates |-> Measured(expired), withheld |-> mine \intersect held]
  <1>1. Publish(plan) /\ at \in Nat
    BY DEF PlanExpired, Instant, Dates
  <1>2. /\ DOMAIN plan.candidates = expired
        /\ \A a \in expired : plan.candidates[a] = files[a]
    BY DEF Measured
  <1>3. \A a \in expired : May(plan, a)
    BY DEF May
  <1>4. expired \subseteq Assets \ held
    OBVIOUS
  <1>5. plan.at = at /\ plan.request = {}
    OBVIOUS
  <1> HIDE DEF plan, expired
  <1> QED BY <1>1, <1>2, <1>3, <1>4, <1>5, PublishKeeps

LEMMA ErasureKeeps ==
    ASSUME Dates, RetentionInv, NEW request \in ErasureRequests, NEW at \in Instant,
           PlanErasure(request, at)
    PROVE  RetentionInv'
  <1> DEFINE concerned == {a \in Assets : Concerns(request, a)}
             erased == {a \in concerned : Erasable(a)}
             withheld == {a \in concerned : \/ a \in held
                                            \/ Inventory[a].class = "AUDIT_EVIDENCE"}
             plan == [tenant |-> request.tenant, request |-> {request}, at |-> at,
                      candidates |-> Measured(erased), withheld |-> withheld]
  <1>1. Publish(plan) /\ at \in Nat /\ request.kind = "ERASURE" /\ request.at <= at
    BY DEF PlanErasure, Instant, Dates
  <1>2. /\ DOMAIN plan.candidates = erased
        /\ \A a \in erased : plan.candidates[a] = files[a]
    BY DEF Measured
  <1>3. \A a \in erased : May(plan, a)
    BY <1>1 DEF May, Concerns, Erasable
  <1>4. erased \subseteq Assets \ held
    BY DEF Erasable
  <1>5. plan.at = at /\ plan.request = {request}
    OBVIOUS
  <1> HIDE DEF plan, erased
  <1> QED BY <1>1, <1>2, <1>3, <1>4, <1>5, PublishKeeps

(* What is removed is what the confirmed plan measured.                     *)
LEMMA ExecuteKeeps ==
    ASSUME Dates, RetentionInv, NEW plan \in plans, NEW confirmed \in plans, NEW a \in Assets,
           NEW at \in Instant, Execute(plan, confirmed, a, at)
    PROVE  RetentionInv'
  <1> DEFINE deleted == [plan |-> plan, asset |-> a, contents |-> plan.candidates[a],
                         at |-> at]
  <1>1. /\ at >= plan.at /\ at \in Nat
        /\ a \in DOMAIN plan.candidates /\ files[a] = plan.candidates[a]
        /\ unreceipted' = {deleted} /\ deletions' = deletions \union {deleted}
        /\ UNCHANGED <<plans, receipts, reviews>>
    BY DEF Execute, UnchangedSince, Instant, Dates
  <1>2. May(plan, a) /\ plan.at \in Nat /\ plan.request \subseteq ErasureRequests
    BY <1>1 DEF RetentionInv, PlanInv
  <1>3. Lawful(deleted)
    BY <1>1, <1>2 DEF Lawful, May, Concerns, Dates
  <1>4. PICK review \in reviews : SeenBy(plan, review)
    BY DEF RetentionInv, PlanInv
  <1>5. Allowed(deleted)
    BY <1>1, <1>2, <1>3, <1>4 DEF Allowed, SeenBy, May
  <1>6. deleted.plan = plan /\ deleted.asset = a /\ deleted.at = at
    OBVIOUS
  <1> HIDE DEF deleted
  <1>7. \A d \in deletions' : Allowed(d)'
    <2> SUFFICES ASSUME NEW d \in deletions \union {deleted} PROVE Allowed(d)'
      BY <1>1
    <2>1. Allowed(d)
      BY <1>5 DEF RetentionInv
    <2> QED BY <1>1, <2>1 DEF Allowed, Lawful
  <1>8. PlanInv'
    BY <1>1 DEF RetentionInv, PlanInv, SeenBy, May, Concerns
  <1> QED BY <1>1, <1>7, <1>8 DEF RetentionInv

LEMMA RetentionStarts ==
    RetentionInit => RetentionInv
  BY DEF RetentionInit, RetentionInv, PlanInv

LEMMA RetentionSteps ==
    ASSUME Dates, RetentionInv, [RetentionNext]_retentionVars
    PROVE  RetentionInv'
  <1>1. ASSUME UNCHANGED <<plans, reviews, deletions>>, unreceipted' \subseteq unreceipted,
               receipts' \subseteq receipts \union unreceipted
        PROVE  RetentionInv'
    BY <1>1 DEF RetentionInv, PlanInv, SeenBy, May, Concerns, Allowed, Lawful
  <1>2. CASE WriteReceipt \/ LoseReceipt \/ Edit \/ UNCHANGED retentionVars
    BY <1>1, <1>2 DEF WriteReceipt, LoseReceipt, Edit, retentionVars
  <1>3. ASSUME NEW at \in Instant, NEW tenant \in TenantsOf, PlanExpired(tenant, at)
        PROVE  RetentionInv'
    BY <1>3, ExpiredKeeps
  <1>4. ASSUME NEW at \in Instant, NEW request \in ErasureRequests, PlanErasure(request, at)
        PROVE  RetentionInv'
    BY <1>4, ErasureKeeps
  <1>5. ASSUME NEW at \in Instant, NEW plan \in plans, NEW confirmed \in plans,
               NEW a \in Assets, Execute(plan, confirmed, a, at)
        PROVE  RetentionInv'
    BY <1>5, ExecuteKeeps
  <1> QED BY <1>2, <1>3, <1>4, <1>5 DEF RetentionNext

LEMMA InvIsReviewed == RetentionInv => DeletionsAreReviewed
  BY DEF RetentionInv, Allowed, DeletionsAreReviewed

(* Theorem: however files, holds and plans have changed since, a deletion   *)
(* of execute_retention_candidate is of the contents some confirmed plan    *)
(* measured, free of a hold when that plan was made, of its tenant, and     *)
(* lawful; and every receipt is that of a deletion.                         *)
THEOREM DeletionsReviewed ==
    ASSUME Dates
    PROVE  RetentionSpec => []DeletionsAreReviewed
  <1>1. RetentionInv /\ [RetentionNext]_retentionVars => RetentionInv'
    BY RetentionSteps
  <1> QED BY <1>1, RetentionStarts, InvIsReviewed, PTL DEF RetentionSpec

-----------------------------------------------------------------------------
(* Self-hosted readiness.                                                   *)

(* Subscriptions are effective and expire at dates.                         *)
RecordsAreDated ==
    /\ LatestAsOf \in Nat
    /\ \A r \in Commerce : r.effective \in Nat /\ r.expires \in Nat

(* A bounded set of numbers has a largest one.                              *)
LEMMA Largest ==
    ASSUME NEW S \in SUBSET Nat, S # {}, NEW most \in Nat, \A s \in S : s <= most
    PROVE  \E m \in S : \A s \in S : s <= m
  <1> DEFINE U == {k \in Nat : \A s \in S : s <= k}
  <1>1. most \in U
    OBVIOUS
  <1>2. PICK k \in U : \A j \in U : ~(<<j, k>> \in OpToRel(<, Nat))
    <2>1. U \subseteq Nat /\ U # {}
      BY <1>1
    <2> HIDE DEF U
    <2> QED BY <2>1, NatLessThanWellFounded, WFMin, Zenon
  <1>3. k \in Nat /\ \A s \in S : s \in Nat /\ s <= k
    OBVIOUS
  <1>4. PICK some : some \in S
    OBVIOUS
  <1>5. ASSUME k \notin S
        PROVE  FALSE
    <2>1. \A s \in S : s < k
      BY <1>3, <1>5
    <2>2. k - 1 \in Nat
      BY <1>3, <1>4, <2>1
    <2>3. k - 1 \in U
      BY <1>3, <2>1, <2>2
    <2>4. <<k - 1, k>> \in OpToRel(<, Nat)
      BY <1>3, <2>2 DEF OpToRel
    <2> QED BY <1>2, <2>3, <2>4
  <1>6. k \in S
    BY <1>5
  <1> HIDE DEF U
  <1> QED BY <1>3, <1>6

(* The largest provisioning is one.                                         *)
LEMMA MaxOfLedger ==
    ASSUME NEW n \in Nat, NEW S \in SUBSET (1..n), S # {}
    PROVE  Max(S) \in S
  <1>1. \E m \in S : \A s \in S : m >= s
    <2>1. S \in SUBSET Nat /\ \A s \in S : s <= n
      OBVIOUS
    <2>2. PICK m \in S : \A s \in S : s <= m
      BY <2>1, Largest
    <2> QED BY <2>1, <2>2
  <1> QED BY <1>1 DEF Max

(* `n` is the record of `seen` that Latest picks.                           *)
IsLatest(ledger, seen, n) ==
    \A m \in seen \ {n} : \/ ledger[m].effective < ledger[n].effective
                          \/ ledger[m].effective = ledger[n].effective /\ m < n

(* Among the records effective by `at`, one is effective last and, of       *)
(* those, appended last; and only one is.                                   *)
LEMMA LatestIs ==
    ASSUME RecordsAreDated, NEW ledger \in Seq(Commerce), NEW tenant, NEW at \in Nat,
           Effective(ledger, tenant, at) # {}
    PROVE  LET seen == Effective(ledger, tenant, at)
               latest == Latest(ledger, tenant, at)
           IN  /\ latest \in seen /\ IsLatest(ledger, seen, latest)
               /\ \A n \in seen : IsLatest(ledger, seen, n) => n = latest
  <1> DEFINE seen == Effective(ledger, tenant, at)
             latest == Latest(ledger, tenant, at)
             since == {ledger[n].effective : n \in seen}
  <1>1. /\ seen \subseteq 1..Len(ledger) /\ Len(ledger) \in Nat /\ seen # {}
        /\ \A n \in seen : ledger[n].effective \in Nat /\ ledger[n].effective <= at
    BY DEF Effective, RecordsAreDated
  <1>2. latest = CHOOSE n \in seen : IsLatest(ledger, seen, n)
    BY DEF Latest, IsLatest
  <1> HIDE DEF seen, latest
  <1>3. PICK last \in since : \A s \in since : s <= last
    <2>1. since \in SUBSET Nat /\ since # {} /\ \A s \in since : s <= at
      BY <1>1
    <2> HIDE DEF since
    <2> QED BY <2>1, Largest
  <1> DEFINE lasting == {n \in seen : ledger[n].effective = last}
  <1>4. PICK n \in lasting : \A m \in lasting : m <= n
    <2>1. PICK some \in seen : ledger[some].effective = last
      BY <1>3
    <2>2. lasting # {}
      BY <2>1
    <2>3. seen \subseteq Nat /\ \A m \in seen : m <= Len(ledger)
      BY <1>1
    <2>4. lasting \subseteq seen
      OBVIOUS
    <2> HIDE DEF lasting
    <2> QED BY <1>1, <2>2, <2>3, <2>4, Largest
  <1>5. n \in seen /\ IsLatest(ledger, seen, n)
    <2>1. /\ n \in seen /\ ledger[n].effective = last /\ last \in Nat /\ n \in Nat
          /\ \A m \in seen : m \in Nat /\ ledger[m].effective \in Nat
          /\ \A m \in seen : ledger[m].effective <= last
          /\ \A m \in seen : ledger[m].effective = last => m <= n
      BY <1>1, <1>3, <1>4
    <2> QED BY <2>1 DEF IsLatest
  <1>6. latest \in seen /\ IsLatest(ledger, seen, latest)
    BY <1>2, <1>5
  <1>7. ASSUME NEW m \in seen, IsLatest(ledger, seen, m), m # latest
        PROVE  FALSE
    <2>1. \/ ledger[m].effective < ledger[latest].effective
          \/ ledger[m].effective = ledger[latest].effective /\ m < latest
      BY <1>6, <1>7 DEF IsLatest
    <2>2. \/ ledger[latest].effective < ledger[m].effective
          \/ ledger[m].effective = ledger[latest].effective /\ latest < m
      BY <1>6, <1>7 DEF IsLatest
    <2>3. m \in Nat /\ latest \in Nat
      BY <1>1, <1>6
    <2> QED BY <1>1, <1>6, <2>1, <2>2, <2>3
  <1> QED BY <1>6, <1>7 DEF seen, latest

(* One more record leaves what a tenant is entitled to as it was, unless it *)
(* is about that tenant and effective by then.                              *)
LEMMA EntitlementStands ==
    ASSUME RecordsAreDated, NEW ledger \in Seq(Commerce), NEW record \in Commerce,
           NEW tenant, NEW at \in Nat,
           Readable(ledger), Readable(Append(ledger, record)),
           ~(record.tenant = tenant /\ (record.kind = "OBSERVE" => record.effective <= at))
    PROVE  Entitlement(Append(ledger, record), tenant, at) = Entitlement(ledger, tenant, at)
  <1> DEFINE longer == Append(ledger, record)
             given == ProvisionsOf(ledger, tenant)
             seen == Effective(ledger, tenant, at)
  <1>1. /\ longer \in Seq(Commerce) /\ Len(ledger) \in Nat /\ Len(longer) = Len(ledger) + 1
        /\ longer[Len(ledger) + 1] = record
        /\ \A n \in 1..Len(ledger) : longer[n] = ledger[n]
    OBVIOUS
  <1> HIDE DEF longer
  <1>2. /\ record.effective \in Nat
        /\ record.tenant = tenant => record.kind = "OBSERVE" /\ ~(record.effective <= at)
    BY DEF RecordsAreDated
  <1>3. ProvisionsOf(longer, tenant) = given
    BY <1>1, <1>2 DEF ProvisionsOf
  <1>4. Effective(longer, tenant, at) = seen
    BY <1>1, <1>2 DEF Effective
  <1>5. given \subseteq 1..Len(ledger) /\ seen \subseteq 1..Len(ledger)
    BY DEF ProvisionsOf, Effective
  <1>6. ASSUME given # {}
        PROVE  longer[Max(given)] = ledger[Max(given)]
    BY <1>1, <1>5, <1>6, MaxOfLedger
  <1>7. ASSUME seen # {}
        PROVE  /\ Latest(longer, tenant, at) = Latest(ledger, tenant, at)
               /\ longer[Latest(ledger, tenant, at)] = ledger[Latest(ledger, tenant, at)]
    <2> DEFINE old == Latest(ledger, tenant, at)
               new == Latest(longer, tenant, at)
    <2>1. /\ old \in seen /\ \A n \in seen : IsLatest(ledger, seen, n) => n = old
      BY <1>7, LatestIs
    <2>2. new \in seen /\ IsLatest(longer, seen, new)
      BY <1>1, <1>4, <1>7, LatestIs
    <2> HIDE DEF old, new
    <2>3. IsLatest(ledger, seen, new)
      BY <1>1, <1>5, <2>2 DEF IsLatest
    <2>4. new = old
      BY <2>1, <2>2, <2>3
    <2> QED BY <1>1, <1>5, <2>1, <2>4 DEF old, new
  <1> HIDE DEF given, seen
  <1>8. Readable(longer)
    BY DEF longer
  <1> SUFFICES Entitlement(longer, tenant, at) = Entitlement(ledger, tenant, at)
    BY DEF longer
  <1>9. CASE given = {}
    BY <1>3, <1>9 DEF Entitlement, given
  <1>10. CASE given # {} /\ seen = {}
    BY <1>3, <1>4, <1>8, <1>10 DEF Entitlement, given, seen
  <1>11. CASE given # {} /\ seen # {}
    BY <1>3, <1>4, <1>6, <1>7, <1>8, <1>11 DEF Entitlement, given, seen
  <1> QED BY <1>9, <1>10, <1>11

(* A tenant that may host itself is paid up.                                *)
LEMMA FullIsPaidUp ==
    ASSUME RecordsAreDated, NEW ledger \in Seq(Commerce), NEW tenant, NEW at \in Nat,
           Entitlement(ledger, tenant, at).access = "FULL",
           Entitlement(ledger, tenant, at).selfHosting
    PROVE  PaidUp(ledger, tenant, at)
  <1> DEFINE seen == Effective(ledger, tenant, at)
             n == Latest(ledger, tenant, at)
             record == ledger[n]
  <1>1. seen # {}
    BY DEF Entitlement, Refused, Denied
  <1>2. n \in seen /\ IsLatest(ledger, seen, n)
    BY <1>1, LatestIs
  <1>3. /\ ~(at >= record.expires) /\ AccessOf(record.status) = "FULL"
        /\ SelfHosting(record.plan)
    BY <1>1 DEF Entitlement, Refused, Denied
  <1>4. record.status = "PAID"
    BY <1>3 DEF AccessOf
  <1>5. /\ n \in 1..Len(ledger) /\ record.kind = "OBSERVE" /\ record.tenant = tenant
        /\ record.effective <= at /\ record.effective \in Nat /\ record.expires \in Nat
    BY <1>2 DEF Effective, RecordsAreDated
  <1>6. \A m \in seen : \/ ledger[m].effective < record.effective
                        \/ ledger[m].effective = record.effective /\ m <= n
    BY <1>2, <1>5 DEF IsLatest, Effective
  <1>7. at \in record.effective..(record.expires - 1)
    BY <1>3, <1>5
  <1> HIDE DEF n
  <1> QED BY <1>3, <1>4, <1>5, <1>6, <1>7 DEF PaidUp

FirstIsABuild == FirstBuild \in Builds

(* Artifacts and manifests are of the same kind, and a signature is all of  *)
(* its three parts.                                                         *)
ReleaseTypes ==
    /\ root \in [Artifacts -> Builds] /\ manifests \subseteq [Artifacts -> Builds]
    /\ \A s \in signatures : s = [manifest |-> s.manifest, id |-> s.id, key |-> s.key]
    /\ commerce \in Seq(Commerce)

ReleaseInv == ReleaseTypes /\ ReadinessIsEarned

LEMMA ReleaseStarts ==
    ASSUME FirstIsABuild, ReleaseInit
    PROVE  ReleaseInv
  BY DEF FirstIsABuild, ReleaseInit, ReleaseInv, ReleaseTypes, ReadinessIsEarned

LEMMA DeclareReadyKeeps ==
    ASSUME RecordsAreDated, ReleaseInv, NEW manifest \in manifests,
           NEW signature \in signatures, NEW config \in configured, NEW at \in AsOf,
           DeclareReady(config, manifest, signature, at)
    PROVE  ReleaseInv'
  <1> DEFINE certificate == [config |-> config, at |-> at, head |-> commerce,
                             running |-> root]
  <1>1. /\ Entitlement(commerce, config.tenant, at).access = "FULL"
        /\ Entitlement(commerce, config.tenant, at).selfHosting
        /\ SignedAndTrusted(manifest, signature) /\ PointersMatch(config, manifest, signature)
        /\ ArtifactsMatch(manifest)
        /\ certificates' = certificates \union {certificate}
        /\ UNCHANGED <<root, manifests, signatures, commerce>>
    BY DEF DeclareReady
  <1>2. at \in Nat /\ commerce \in Seq(Commerce)
    BY DEF AsOf, RecordsAreDated, ReleaseInv, ReleaseTypes
  <1>3. PaidUp(commerce, config.tenant, at)
    BY <1>1, <1>2, FullIsPaidUp
  <1>4. root = manifest
    <2>1. root \in [Artifacts -> Builds] /\ manifest \in [Artifacts -> Builds]
      BY DEF ReleaseInv, ReleaseTypes
    <2> QED BY <1>1, <2>1 DEF ArtifactsMatch
  <1>5. signature = [manifest |-> root, id |-> TrustedKey.id, key |-> TrustedKey.key]
    BY <1>1, <1>4 DEF SignedAndTrusted, ReleaseInv, ReleaseTypes
  <1>6. /\ certificate.running = root /\ certificate.config = config
        /\ certificate.head = commerce /\ certificate.at = at
    OBVIOUS
  <1> HIDE DEF certificate
  <1>7. ASSUME NEW c \in certificates'
        PROVE  /\ c.running = c.config.manifest
               /\ c.config.signature = [manifest |-> c.running, id |-> TrustedKey.id,
                                        key |-> TrustedKey.key]
               /\ PaidUp(c.head, c.config.tenant, c.at)
    <2>1. CASE c = certificate
      BY <1>1, <1>3, <1>4, <1>5, <1>6, <2>1 DEF PointersMatch
    <2>2. CASE c \in certificates
      BY <2>2 DEF ReleaseInv, ReadinessIsEarned
    <2> QED BY <1>1, <2>1, <2>2
  <1> QED BY <1>1, <1>7 DEF ReleaseInv, ReleaseTypes, ReadinessIsEarned

LEMMA ReleaseSteps ==
    ASSUME RecordsAreDated, ReleaseInv, [ReleaseNext]_releaseVars
    PROVE  ReleaseInv'
  <1>1. ASSUME UNCHANGED certificates, ReleaseTypes'
        PROVE  ReleaseInv'
    BY <1>1 DEF ReleaseInv, ReadinessIsEarned
  <1> USE DEF ReleaseInv, ReleaseTypes
  <1>2. ASSUME NEW record \in Commerce, Record(record)
        PROVE  ReleaseInv'
    <2>1. commerce' \in Seq(Commerce)
      BY <1>2 DEF Record
    <2> QED BY <1>1, <1>2, <2>1 DEF Record
  <1>3. CASE BuildManifest
    BY <1>1, <1>3 DEF BuildManifest
  <1>4. ASSUME NEW manifest \in manifests, NEW pair \in SigningKeys, Sign(manifest, pair)
        PROVE  ReleaseInv'
    BY <1>1, <1>4 DEF Sign
  <1>5. ASSUME NEW manifest \in manifests, NEW signature \in signatures,
               Configure(manifest, signature)
        PROVE  ReleaseInv'
    BY <1>1, <1>5 DEF Configure
  <1>6. ASSUME NEW manifest \in manifests, NEW signature \in signatures,
               NEW config \in configured, NEW at \in AsOf,
               DeclareReady(config, manifest, signature, at)
        PROVE  ReleaseInv'
    BY <1>6, DeclareReadyKeeps
  <1>7. ASSUME NEW a \in Artifacts, NEW build \in Builds, Rebuild(a, build)
        PROVE  ReleaseInv'
    BY <1>1, <1>7 DEF Rebuild
  <1>8. CASE UNCHANGED releaseVars
    BY <1>1, <1>8 DEF releaseVars
  <1> QED BY <1>2, <1>3, <1>4, <1>5, <1>6, <1>7, <1>8 DEF ReleaseNext

(* Entitlements change with the ledger only, and with what concerns them.   *)
LEMMA StableStep ==
    ASSUME RecordsAreDated, ReleaseInv, ReleaseNext
    PROVE  EntitlementIsStable
  <1> SUFFICES ASSUME NEW tenant \in {r.tenant : r \in Commerce}, NEW at \in AsOf,
                      Readable(commerce'),
                      LET last == commerce'[Len(commerce')]
                      IN  ~(last.tenant = tenant
                            /\ (last.kind = "OBSERVE" => last.effective <= at))
               PROVE  Entitlement(commerce', tenant, at) = Entitlement(commerce, tenant, at)
    BY DEF EntitlementIsStable
  <1>1. at \in Nat /\ commerce \in Seq(Commerce)
    BY DEF AsOf, RecordsAreDated, ReleaseInv, ReleaseTypes
  <1>2. ASSUME NEW record \in Commerce, Record(record)
        PROVE  Entitlement(commerce', tenant, at) = Entitlement(commerce, tenant, at)
    <2>1. Readable(commerce) /\ commerce' = Append(commerce, record)
      BY <1>2 DEF Record
    <2>2. commerce'[Len(commerce')] = record
      BY <1>1, <2>1
    <2>3. Readable(Append(commerce, record))
      BY <2>1
    <2> QED BY <1>1, <2>1, <2>2, <2>3, EntitlementStands
  <1>3. CASE commerce' = commerce
    BY <1>3
  <1> QED BY <1>2, <1>3 DEF ReleaseNext, BuildManifest, Sign, Configure, DeclareReady, Rebuild

(* Theorem: an installation verify_entitled_self_host_readiness declares    *)
(* ready runs what its configuration names and the holder of the trusted    *)
(* key signed, and its tenant is paid up in the ledger whose head it cites; *)
(* what derive_entitlement grants at an instant changes only with a record  *)
(* about that tenant and effective by then, or for all when the ledger      *)
(* cannot be read any more.                                                 *)
THEOREM ReleasesEarned ==
    ASSUME RecordsAreDated, FirstIsABuild
    PROVE  ReleaseSpec => []ReadinessIsEarned /\ [][EntitlementIsStable]_releaseVars
  <1>1. ReleaseInit => ReleaseInv
    BY ReleaseStarts
  <1>2. ReleaseInv /\ [ReleaseNext]_releaseVars => ReleaseInv'
    BY ReleaseSteps
  <1>3. ReleaseInv => ReadinessIsEarned
    BY DEF ReleaseInv
  <1>4. ReleaseInv /\ [ReleaseNext]_releaseVars => [EntitlementIsStable]_releaseVars
    BY StableStep
  <1> QED BY <1>1, <1>2, <1>3, <1>4, PTL DEF ReleaseSpec

-----------------------------------------------------------------------------
(* The evidence files.                                                      *)

(* A record is told from a torn one.                                        *)
EntriesAreWhole == "CUT" \notin Entries

Line == Seq(Records)
Handle ==
    [phase : {"CLOSED", "OPEN", "WRITING"}, head : Seq(Entries), ids : SUBSET Entries,
     pending : Records]

FileTypes ==
    /\ file \in [lines : Seq(Line), tail : Line]
    /\ owners \in [Owners -> Handle]
    /\ told \in Seq(Entries)
    /\ tears \in [all : Nat, since : Nat]

OneOwner ==
    \A p, q \in Owners : p # q /\ owners[p].phase # "CLOSED" => owners[q].phase = "CLOSED"

EntryOf(line) == IF Len(line) = 1 THEN line[1].entry ELSE "CUT"

Chains(lines) ==
    \A n \in 1..Len(lines) : Chained(lines[n], SubSeq(EntriesOf(lines), 1, n - 1))

Writes(handle) == handle.phase = "WRITING"

ToldInv ==
    /\ Chains(LinesRead) => told = Recorded \/ \E e \in Entries : Recorded = Append(told, e)
    /\ \A p \in Owners :
          /\ owners[p].phase = "OPEN" /\ Chains(LinesRead) => told = Recorded
          /\ Writes(owners[p]) =>
                /\ file.tail # <<>> /\ owners[p].pending # Cut
                /\ Chains(LinesRead) => Recorded = Append(told, owners[p].pending.entry)

WantsNewline == format \in {"OPERATIONS", "COMMERCIAL"}

(* The handle of a file nobody has torn since it was verified.              *)
Knows(handle) ==
    /\ handle.head = EntriesOf(file.lines)
    /\ handle.ids = Range(EntriesOf(file.lines))
    /\ Writes(handle) =>
          /\ file.tail = <<handle.pending>>
          /\ handle.pending.previous = handle.head
          /\ handle.pending.entry \notin handle.ids

OwnedInv ==
    WantsNewline /\ tears.since = 0 =>
        /\ Chains(file.lines) /\ IsInjective(EntriesOf(file.lines))
        /\ (\A p \in Owners : ~Writes(owners[p])) => file.tail = <<>>
        /\ \A p \in Owners : owners[p].phase # "CLOSED" => Knows(owners[p])

Inv == FileTypes /\ OneOwner /\ ToldInv /\ OwnedInv

-----------------------------------------------------------------------------
(* Lines and their entries.                                                 *)

Stored == Entries \union {"CUT"}

LEMMA EntryIsStored ==
    ASSUME NEW line \in Line
    PROVE  EntryOf(line) \in Stored
  <1>1. CASE Len(line) = 1
    <2>1. line[1] \in Records
      BY <1>1 DEF Line
    <2> QED BY <1>1, <2>1 DEF Records, Cut, EntryOf, Stored
  <1>2. CASE Len(line) # 1
    BY <1>2 DEF EntryOf, Stored
  <1> QED BY <1>1, <1>2

LEMMA EntriesAreASequence ==
    ASSUME NEW lines \in Seq(Line)
    PROVE  /\ EntriesOf(lines) \in Seq(Stored)
           /\ Len(EntriesOf(lines)) = Len(lines)
           /\ \A n \in 1..Len(lines) : EntriesOf(lines)[n] = EntryOf(lines[n])
  <1>1. EntriesOf(lines) = [n \in 1..Len(lines) |-> EntryOf(lines[n])]
    BY DEF EntriesOf, EntryOf
  <1>2. Len(lines) \in Nat /\ \A n \in 1..Len(lines) : EntryOf(lines[n]) \in Stored
    BY EntryIsStored
  <1> QED BY <1>1, <1>2

(* One more line.                                                           *)
LEMMA EntriesOfAppend ==
    ASSUME NEW lines \in Seq(Line), NEW line \in Line
    PROVE  EntriesOf(Append(lines, line)) = Append(EntriesOf(lines), EntryOf(line))
  <1> DEFINE longer == Append(lines, line)
             left == EntriesOf(longer)
             right == Append(EntriesOf(lines), EntryOf(line))
  <1>1. /\ longer \in Seq(Line) /\ Len(longer) = Len(lines) + 1 /\ Len(lines) \in Nat
        /\ longer[Len(lines) + 1] = line /\ \A n \in 1..Len(lines) : longer[n] = lines[n]
    OBVIOUS
  <1> HIDE DEF longer
  <1>2. /\ left \in Seq(Stored) /\ Len(left) = Len(lines) + 1
        /\ \A n \in 1..(Len(lines) + 1) : left[n] = EntryOf(longer[n])
    BY <1>1, EntriesAreASequence
  <1>3. /\ EntriesOf(lines) \in Seq(Stored) /\ Len(EntriesOf(lines)) = Len(lines)
        /\ \A n \in 1..Len(lines) : EntriesOf(lines)[n] = EntryOf(lines[n])
    BY EntriesAreASequence
  <1>4. EntryOf(line) \in Stored
    BY EntryIsStored
  <1>5. /\ right \in Seq(Stored) /\ Len(right) = Len(lines) + 1
        /\ right[Len(lines) + 1] = EntryOf(line)
        /\ \A n \in 1..Len(lines) : right[n] = EntryOf(lines[n])
    BY <1>1, <1>3, <1>4, AppendProperties
  <1> HIDE DEF left, right
  <1>6. \A n \in 1..Len(left) : left[n] = right[n]
    BY <1>1, <1>2, <1>5
  <1> QED BY <1>2, <1>5, <1>6, SeqEqual DEF left, right, longer

LEMMA ChainsAppend ==
    ASSUME NEW lines \in Seq(Line), NEW line \in Line
    PROVE  Chains(Append(lines, line)) <=> Chains(lines) /\ Chained(line, EntriesOf(lines))
  <1> DEFINE longer == Append(lines, line)
             m == Len(lines)
             Before(all, n) == SubSeq(EntriesOf(all), 1, n - 1)
  <1>1. /\ longer \in Seq(Line) /\ Len(longer) = m + 1 /\ m \in Nat
        /\ longer[m + 1] = line /\ \A n \in 1..m : longer[n] = lines[n]
    OBVIOUS
  <1>2. EntriesOf(longer) = Append(EntriesOf(lines), EntryOf(line))
    BY EntriesOfAppend
  <1>3. EntriesOf(lines) \in Seq(Stored) /\ Len(EntriesOf(lines)) = m /\ EntryOf(line) \in Stored
    BY EntriesAreASequence, EntryIsStored
  <1>4. ASSUME NEW n \in 1..(m + 1)
        PROVE  Before(longer, n) = SubSeq(EntriesOf(lines), 1, n - 1)
    BY <1>1, <1>2, <1>3, <1>4
  <1>5. Before(longer, m + 1) = EntriesOf(lines)
    BY <1>1, <1>3, <1>4, SubSeqFull
  <1>6. \A n \in 1..m : Before(longer, n) = Before(lines, n)
    BY <1>1, <1>4
  <1> HIDE DEF longer, Before
  <1>7. Chains(longer) <=> \A n \in 1..(m + 1) : Chained(longer[n], Before(longer, n))
    BY <1>1 DEF Chains, Before
  <1>8. Chains(lines) <=> \A n \in 1..m : Chained(lines[n], Before(lines, n))
    BY DEF Chains, Before
  <1>9. Chains(longer) <=> /\ \A n \in 1..m : Chained(longer[n], Before(longer, n))
                           /\ Chained(longer[m + 1], Before(longer, m + 1))
    BY <1>1, <1>7
  <1> QED BY <1>1, <1>5, <1>6, <1>8, <1>9 DEF longer
-----------------------------------------------------------------------------
(* The file and the one handle a step is about.                             *)

Sound == Chains(LinesRead)

Sole(p) == \A q \in Owners \ {p} : owners[q].phase = "CLOSED"

Told(p) ==
    /\ Sound => told = Recorded \/ \E e \in Entries : Recorded = Append(told, e)
    /\ owners[p].phase = "OPEN" /\ Sound => told = Recorded
    /\ owners[p].phase = "WRITING" =>
          /\ file.tail # <<>> /\ owners[p].pending # Cut
          /\ Sound => Recorded = Append(told, owners[p].pending.entry)

Owned(p) ==
    WantsNewline /\ tears.since = 0 =>
        /\ Chains(file.lines) /\ IsInjective(EntriesOf(file.lines))
        /\ owners[p].phase # "WRITING" => file.tail = <<>>
        /\ owners[p].phase # "CLOSED" => Knows(owners[p])

LEMMA OneHandle ==
    ASSUME NEW p \in Owners, Inv, owners[p].phase # "CLOSED" \/ Sole(p)
    PROVE  Sole(p) /\ Told(p) /\ Owned(p)
  <1>1. Sole(p)
    BY DEF Inv, OneOwner, Sole
  <1>2. Told(p)
    BY DEF Inv, ToldInv, Told, Sound, Writes
  <1>3. (\A q \in Owners : ~Writes(owners[q])) <=> owners[p].phase # "WRITING"
    BY <1>1 DEF Sole, Writes
  <1>4. Owned(p)
    BY <1>3 DEF Inv, OwnedInv, Owned
  <1> QED BY <1>1, <1>2, <1>4

LEMMA OneHandleNext ==
    ASSUME NEW p \in Owners, FileTypes', Sole(p)', Told(p)', Owned(p)'
    PROVE  Inv'
  <1>1. OneOwner'
    BY DEF Sole, OneOwner
  <1>2. ToldInv'
    BY DEF Sole, ToldInv, Told, Sound, Writes
  <1>3. OwnedInv'
    BY DEF Sole, OwnedInv, Owned, Writes
  <1> QED BY <1>1, <1>2, <1>3 DEF Inv

LEMMA SoundNext ==
    /\ Sound' <=> Chains(LinesRead')
    /\ Recorded' = EntriesOf(LinesRead')
  BY DEF Sound, Chains, Recorded, EntriesOf

LEMMA Reading ==
    ASSUME FileTypes
    PROVE  /\ file.lines \in Seq(Line) /\ file.tail \in Line
           /\ LinesRead \in Seq(Line)
           /\ LinesRead = IF file.tail = <<>> THEN file.lines
                          ELSE Append(file.lines, file.tail)
           /\ Recorded = EntriesOf(LinesRead) /\ Recorded \in Seq(Stored)
  <1>1. file.lines \in Seq(Line) /\ file.tail \in Line
    BY DEF FileTypes
  <1>2. LinesRead = IF file.tail = <<>> THEN file.lines ELSE Append(file.lines, file.tail)
    BY DEF LinesRead
  <1>3. LinesRead \in Seq(Line)
    BY <1>1, <1>2
  <1> QED BY <1>1, <1>2, <1>3, EntriesAreASequence DEF Recorded

(* A process ends or closes, and leaves the file as it is.                  *)
LEMMA Closings ==
    ASSUME Inv, NEW p \in Owners, Close(p) \/ LeaveUnended(p)
    PROVE  Inv'
  <1>1. /\ owners' = [owners EXCEPT ![p] = Closed] /\ UNCHANGED <<format, file, told>>
        /\ owners[p].phase # "CLOSED"
    BY DEF Close, LeaveUnended
  <1>2. Sole(p) /\ Told(p) /\ Owned(p)
    BY <1>1, OneHandle
  <1>3. FileTypes
    BY DEF Inv
  <1>4. /\ Closed \in Handle /\ Closed.phase = "CLOSED"
    BY DEF Closed, Handle, Records
  <1>5. /\ owners' \in [Owners -> Handle] /\ owners'[p] = Closed
        /\ \A q \in Owners \ {p} : owners'[q] = owners[q]
    BY <1>1, <1>3, <1>4 DEF FileTypes
  <1>6. /\ tears' \in [all : Nat, since : Nat]
        /\ tears'.since = 0 => tears.since = 0 /\ owners[p].phase = "OPEN"
    <2>1. CASE Close(p)
      BY <1>3, <2>1 DEF Close, FileTypes
    <2>2. CASE LeaveUnended(p)
      BY <1>3, <2>2 DEF LeaveUnended, FileTypes, Torn
    <2> QED BY <2>1, <2>2
  <1>7. FileTypes' /\ Sole(p)'
    BY <1>1, <1>2, <1>3, <1>5, <1>6 DEF FileTypes, Sole
  <1>8. /\ Sound' <=> Sound
        /\ Recorded' = Recorded
    BY <1>1 DEF Sound, Recorded, LinesRead
  <1>9. Told(p)'
    BY <1>1, <1>2, <1>4, <1>5, <1>8 DEF Told
  <1>10. Owned(p)'
    BY <1>1, <1>2, <1>4, <1>5, <1>6 DEF Owned, WantsNewline
  <1> QED BY <1>7, <1>9, <1>10, OneHandleNext
(* Lines that chain hold whole records.                                     *)
LEMMA SoundEntries ==
    ASSUME FileTypes, Sound
    PROVE  Recorded \in Seq(Entries)
  <1>1. LinesRead \in Seq(Line) /\ Recorded = EntriesOf(LinesRead)
    BY Reading
  <1> DEFINE lines == LinesRead
  <1> HIDE DEF lines
  <1>2. /\ lines \in Seq(Line) /\ Recorded \in Seq(Stored) /\ Len(Recorded) = Len(lines)
        /\ \A n \in 1..Len(lines) : Recorded[n] = EntryOf(lines[n])
    BY <1>1, EntriesAreASequence DEF lines
  <1>3. ASSUME NEW n \in 1..Len(lines)
        PROVE  Recorded[n] \in Entries
    <2>1. lines[n] \in Line /\ Len(lines[n]) = 1 /\ lines[n][1] # Cut
      BY <1>2, <1>3 DEF Sound, Chains, Chained, lines
    <2>2. lines[n][1] \in Records
      BY <2>1 DEF Line
    <2> QED BY <1>2, <2>1, <2>2 DEF Records, EntryOf
  <1> QED BY <1>2, <1>3

LEMMA Opens ==
    ASSUME Inv, NEW p \in Owners, Open(p)
    PROVE  Inv'
  <1> DEFINE opened == [phase |-> "OPEN", head |-> Recorded, ids |-> Range(Recorded),
                        pending |-> Cut]
  <1>1. /\ FileTypes /\ Sole(p) /\ Verifies
        /\ owners' = [owners EXCEPT ![p] = opened]
        /\ told' = Recorded /\ tears' = [tears EXCEPT !.since = 0]
        /\ UNCHANGED <<format, file>>
    BY DEF Inv, Open, Locks, Sole
  <1>2. Sound /\ Recorded \in Seq(Entries)
    BY <1>1, SoundEntries DEF Verifies, Sound, Chains
  <1>3. Range(Recorded) \subseteq Entries
    BY <1>2 DEF Range
  <1>4. opened \in Handle /\ opened.phase = "OPEN" /\ opened.head = Recorded
        /\ opened.ids = Range(Recorded)
    BY <1>2, <1>3 DEF Handle, Records
  <1> HIDE DEF opened
  <1>5. /\ owners' \in [Owners -> Handle] /\ owners'[p] = opened
        /\ \A q \in Owners \ {p} : owners'[q] = owners[q]
    BY <1>1, <1>4 DEF FileTypes
  <1>6. FileTypes' /\ Sole(p)'
    BY <1>1, <1>2, <1>5 DEF FileTypes, Sole
  <1>7. /\ Sound' <=> Sound
        /\ Recorded' = Recorded
    BY <1>1 DEF Sound, Recorded, LinesRead
  <1>8. Told(p)'
    BY <1>1, <1>4, <1>5, <1>7 DEF Told
  <1>9. ASSUME WantsNewline
        PROVE  /\ file.tail = <<>> /\ Recorded = EntriesOf(file.lines) /\ Chains(file.lines)
               /\ IsInjective(EntriesOf(file.lines))
    <2>1. file.tail = <<>>
      BY <1>1, <1>9 DEF Verifies, WantsNewline, EndsInNewline
    <2>2. LinesRead = file.lines
      BY <2>1 DEF LinesRead
    <2> QED BY <1>1, <1>2, <1>9, <2>1, <2>2
            DEF Verifies, WantsNewline, Recorded, Sound
  <1>10. Owned(p)'
    <2>1. UNCHANGED WantsNewline
      BY <1>1 DEF WantsNewline
    <2> QED BY <1>1, <1>4, <1>5, <1>9, <2>1 DEF Owned, Knows, Writes
  <1> QED BY <1>6, <1>8, <1>10, OneHandleNext

(* Pieces written one after the other.                                      *)
LEMMA OneMore ==
    ASSUME NEW S, NEW s \in Seq(S), NEW x \in S
    PROVE  /\ Append(s, x) \in Seq(S) /\ Append(s, x) # <<>>
           /\ s = <<>> => Append(s, x) = <<x>> /\ Append(s, x)[1] = x
           /\ s # <<>> => Len(Append(s, x)) # 1
  <1>1. /\ Append(s, x) \in Seq(S) /\ Append(s, x) # <<>>
        /\ Len(Append(s, x)) = Len(s) + 1 /\ Len(s) \in Nat
    BY AppendProperties
  <1>2. ASSUME s = <<>>
        PROVE  Append(s, x) = <<x>> /\ Append(s, x)[1] = x
    BY <1>2
  <1>3. s # <<>> => Len(s) # 0
    OBVIOUS
  <1> QED BY <1>1, <1>2, <1>3

(* What cannot be read on.                                                  *)
LEMMA Spoiled ==
    ASSUME NEW lines \in Seq(Line), NEW tail \in Line, Len(tail) # 1 \/ tail[1] = Cut
    PROVE  ~Chains(Append(lines, tail))
  BY ChainsAppend DEF Chained

LEMMA Cuts ==
    ASSUME Inv, NEW p \in Owners, NEW e \in Entries, CutRecord(p, e)
    PROVE  Inv'
  <1> DEFINE tail == Append(file.tail, Cut)
  <1>1. /\ FileTypes /\ owners[p].phase # "CLOSED"
        /\ owners' = [owners EXCEPT ![p] = Closed]
        /\ file' = [file EXCEPT !.tail = tail]
        /\ tears' = Torn /\ UNCHANGED <<format, told>>
    BY DEF Inv, CutRecord, Appendable
  <1>2. Sole(p) /\ Closed \in Handle /\ Closed.phase = "CLOSED"
    BY <1>1, OneHandle DEF Closed, Handle, Records
  <1>3. file.lines \in Seq(Line) /\ file.tail \in Line
    BY <1>1, Reading
  <1>4. Cut \in Records
    BY DEF Records
  <1>5. tail \in Line /\ tail # <<>> /\ (Len(tail) # 1 \/ tail[1] = Cut)
    BY <1>3, <1>4, OneMore DEF Line
  <1> HIDE DEF tail
  <1>6. /\ file' \in [lines : Seq(Line), tail : Line]
        /\ file'.lines = file.lines /\ file'.tail = tail
    BY <1>1, <1>3, <1>5 DEF FileTypes
  <1>7. /\ owners' \in [Owners -> Handle] /\ owners'[p] = Closed
        /\ \A q \in Owners \ {p} : owners'[q] = owners[q]
    BY <1>1, <1>2 DEF FileTypes
  <1>8. tears' \in [all : Nat, since : Nat] /\ tears'.since # 0
    BY <1>1 DEF FileTypes, Torn
  <1>9. FileTypes' /\ Sole(p)'
    BY <1>1, <1>2, <1>6, <1>7, <1>8 DEF FileTypes, Sole
  <1>10. ~Sound'
    <2>1. LinesRead' = Append(file.lines, tail)
      BY <1>5, <1>6 DEF LinesRead
    <2> QED BY <1>3, <1>5, <2>1, Spoiled, SoundNext
  <1>11. Told(p)'
    BY <1>2, <1>7, <1>10 DEF Told
  <1>12. Owned(p)'
    BY <1>8 DEF Owned
  <1> QED BY <1>9, <1>11, <1>12, OneHandleNext

(* The first write of append: onto an empty tail it adds a line that        *)
(* chains; onto a torn one, nothing that does.                              *)
LEMMA Begins ==
    ASSUME EntriesAreWhole, Inv, NEW p \in Owners, NEW e \in Entries, WriteRecord(p, e)
    PROVE  Inv'
  <1> DEFINE record == RecordFor(p, e)
             tail == Append(file.tail, record)
             writing == [owners[p] EXCEPT !.phase = "WRITING", !.pending = record]
  <1>1. /\ FileTypes /\ owners[p].phase = "OPEN" /\ e \notin owners[p].ids
        /\ owners' = [owners EXCEPT ![p] = writing]
        /\ file' = [file EXCEPT !.tail = tail]
        /\ UNCHANGED <<format, told, tears>>
    BY DEF Inv, FileTypes, WriteRecord, Appendable
  <1>2. Sole(p) /\ Told(p) /\ Owned(p)
    BY <1>1, OneHandle
  <1>3. owners[p] \in Handle /\ file.lines \in Seq(Line) /\ file.tail \in Line
    BY <1>1, Reading DEF FileTypes
  <1>4. /\ record \in Records /\ record # Cut
        /\ record.entry = e /\ record.previous = owners[p].head
    BY <1>3 DEF RecordFor, Records, Handle, Cut, EntriesAreWhole
  <1> HIDE DEF record
  <1>5. /\ tail \in Line /\ tail # <<>>
        /\ file.tail = <<>> => tail = <<record>>
        /\ file.tail # <<>> => Len(tail) # 1
    BY <1>3, <1>4, OneMore DEF Line
  <1>6. /\ writing \in Handle /\ writing.phase = "WRITING" /\ writing.pending = record
        /\ writing.head = owners[p].head /\ writing.ids = owners[p].ids
    BY <1>3, <1>4 DEF Handle
  <1> HIDE DEF tail, writing
  <1>7. /\ file' \in [lines : Seq(Line), tail : Line]
        /\ file'.lines = file.lines /\ file'.tail = tail
    BY <1>1, <1>3, <1>5 DEF FileTypes
  <1>8. /\ owners' \in [Owners -> Handle] /\ owners'[p] = writing
        /\ \A q \in Owners \ {p} : owners'[q] = owners[q]
    BY <1>1, <1>6 DEF FileTypes
  <1>9. FileTypes' /\ Sole(p)'
    BY <1>1, <1>2, <1>7, <1>8 DEF FileTypes, Sole
  <1>10. LinesRead' = Append(file.lines, tail)
    BY <1>5, <1>7 DEF LinesRead
  <1>11. ASSUME Sound'
         PROVE  Recorded' = Append(told, e)
    <2>1. Chains(Append(file.lines, tail))
      BY <1>10, <1>11, SoundNext
    <2>2. file.tail = <<>> /\ tail = <<record>>
      BY <1>3, <1>5, <2>1, Spoiled
    <2>3. Chains(file.lines) /\ LinesRead = file.lines
      BY <1>3, <1>5, <2>1, <2>2, ChainsAppend DEF LinesRead
    <2>4. told = EntriesOf(file.lines)
      BY <1>1, <1>2, <2>3 DEF Told, Sound, Recorded
    <2>5. Recorded' = Append(EntriesOf(file.lines), EntryOf(tail))
      BY <1>3, <1>5, <1>10, EntriesOfAppend, SoundNext
    <2>6. EntryOf(tail) = e
      BY <1>4, <2>2 DEF EntryOf
    <2> QED BY <2>4, <2>5, <2>6
  <1>12. Told(p)'
    BY <1>1, <1>4, <1>5, <1>6, <1>7, <1>8, <1>11 DEF Told
  <1>13. Owned(p)'
    <2>1. UNCHANGED WantsNewline
      BY <1>1 DEF WantsNewline
    <2>2. ASSUME WantsNewline, tears.since = 0
          PROVE  /\ Chains(file.lines) /\ IsInjective(EntriesOf(file.lines))
                 /\ file.tail = <<>> /\ owners[p].head = EntriesOf(file.lines)
                 /\ owners[p].ids = Range(EntriesOf(file.lines))
      BY <1>1, <1>2, <2>2 DEF Owned, Knows
    <2> QED BY <1>1, <1>4, <1>5, <1>6, <1>7, <1>8, <2>1, <2>2 DEF Owned, Knows, Writes
  <1> QED BY <1>9, <1>12, <1>13, OneHandleNext

(* An entry that is not among the others joins them.                        *)
LEMMA JoinsInjective ==
    ASSUME NEW S, NEW s \in Seq(S), NEW x \in S, IsInjective(s), x \notin Range(s)
    PROVE  /\ IsInjective(Append(s, x))
           /\ Range(Append(s, x)) = Range(s) \union {x}
  <1> DEFINE longer == Append(s, x)
             m == Len(s)
  <1>1. /\ m \in Nat /\ DOMAIN s = 1..m /\ DOMAIN longer = 1..(m + 1)
        /\ longer[m + 1] = x /\ \A n \in 1..m : longer[n] = s[n]
    OBVIOUS
  <1>2. \A n \in 1..m : s[n] # x
    BY <1>1 DEF Range
  <1> HIDE DEF longer
  <1>3. \A i, j \in 1..m : s[i] = s[j] => i = j
    BY <1>1 DEF IsInjective
  <1>4. ASSUME NEW i \in 1..(m + 1), NEW j \in 1..(m + 1), longer[i] = longer[j]
        PROVE  i = j
    BY <1>1, <1>2, <1>3, <1>4
  <1>5. IsInjective(longer)
    BY <1>1, <1>4 DEF IsInjective
  <1>6. Range(longer) = Range(s) \union {x}
    BY <1>1 DEF Range
  <1> QED BY <1>5, <1>6 DEF longer

(* append moves the handle on by the entry that was written.                *)
LEMMA HandleMovesOn ==
    ASSUME NEW handle \in Handle
    PROVE  AfterAppend(handle) = [phase |-> "OPEN",
                                  head |-> Append(handle.head, handle.pending.entry),
                                  ids |-> handle.ids \union {handle.pending.entry},
                                  pending |-> Cut]
  <1> DEFINE entry == handle.pending.entry
             one == [handle EXCEPT !.phase = "OPEN"]
             two == [one EXCEPT !.pending = Cut]
             three == [two EXCEPT !.head = Append(@, entry)]
             ids == three.ids \union {entry}
             four == [three EXCEPT !.ids = @ \union {entry}]
  <1>1. handle = [phase |-> handle.phase, head |-> handle.head, ids |-> handle.ids,
                  pending |-> handle.pending]
    BY DEF Handle
  <1>2. AfterAppend(handle) = four
    BY DEF AfterAppend
  <1> HIDE DEF entry
  <1>3. one = [phase |-> "OPEN", head |-> handle.head, ids |-> handle.ids,
               pending |-> handle.pending]
    BY <1>1
  <1> HIDE DEF one
  <1>4. two = [phase |-> "OPEN", head |-> handle.head, ids |-> handle.ids, pending |-> Cut]
    BY <1>3
  <1> HIDE DEF two
  <1>5. three = [phase |-> "OPEN", head |-> Append(handle.head, entry), ids |-> handle.ids,
                 pending |-> Cut]
    BY <1>4
  <1> HIDE DEF three
  <1>6. ids = handle.ids \union {entry} /\ four = [three EXCEPT !.ids = ids]
    BY <1>5
  <1> HIDE DEF ids, four
  <1>7. four = [phase |-> "OPEN", head |-> Append(handle.head, entry), ids |-> ids,
                pending |-> Cut]
    BY <1>5, <1>6
  <1>8. AfterAppend(handle) = [phase |-> "OPEN",
                             head |-> Append(handle.head, entry),
                             ids |-> handle.ids \union {entry}, pending |-> Cut]
    BY <1>2, <1>6, <1>7 DEF four
  <1> QED BY <1>8 DEF entry

(* The second write of append: the line is ended, and the caller is told.   *)
LEMMA Finishes ==
    ASSUME Inv, NEW p \in Owners, FinishRecord(p)
    PROVE  Inv'
  <1> DEFINE record == owners[p].pending
             entry == record.entry
             done == AfterAppend(owners[p])
             lines == Append(file.lines, file.tail)
  <1>1. /\ FileTypes /\ owners[p].phase = "WRITING"
        /\ owners' = [owners EXCEPT ![p] = done]
        /\ file' = [lines |-> lines, tail |-> <<>>]
        /\ told' = Append(told, entry) /\ UNCHANGED <<format, tears>>
    BY DEF Inv, FileTypes, FinishRecord
  <1>2. Sole(p) /\ Told(p) /\ Owned(p)
    BY <1>1, OneHandle
  <1>3. /\ owners[p] \in Handle /\ file.lines \in Seq(Line) /\ file.tail \in Line
        /\ told \in Seq(Entries)
    BY <1>1, Reading DEF FileTypes
  <1>4. file.tail # <<>> /\ record # Cut
    BY <1>1, <1>2 DEF Told
  <1>5. record \in Records /\ entry \in Entries
    BY <1>3, <1>4 DEF Handle, Records
  <1>6. /\ done \in Handle /\ done.phase = "OPEN"
        /\ done.head = Append(owners[p].head, entry)
        /\ done.ids = owners[p].ids \union {entry}
    <2>1. owners[p].head \in Seq(Entries) /\ owners[p].ids \in SUBSET Entries
      BY <1>3 DEF Handle
    <2> DEFINE head == Append(owners[p].head, entry)
               ids == owners[p].ids \union {entry}
    <2>2. head \in Seq(Entries) /\ ids \in SUBSET Entries /\ Cut \in Records
      BY <1>5, <2>1 DEF Records
    <2>3. done = [phase |-> "OPEN", head |-> head, ids |-> ids, pending |-> Cut]
      BY <1>3, HandleMovesOn
    <2> HIDE DEF head, ids, done
    <2>4. done \in Handle /\ done.phase = "OPEN" /\ done.head = head /\ done.ids = ids
      BY <2>2, <2>3 DEF Handle
    <2> QED BY <2>4 DEF head, ids
  <1>7. lines \in Seq(Line)
    BY <1>3
  <1>8. LinesRead = lines
    BY <1>4 DEF LinesRead
  <1> HIDE DEF done, lines
  <1>9. /\ file' \in [lines : Seq(Line), tail : Line]
        /\ file'.lines = lines /\ file'.tail = <<>>
    BY <1>1, <1>7 DEF Line
  <1>10. /\ owners' \in [Owners -> Handle] /\ owners'[p] = done
         /\ \A q \in Owners \ {p} : owners'[q] = owners[q]
    BY <1>1, <1>6 DEF FileTypes
  <1>11. FileTypes' /\ Sole(p)'
    <2>1. told' \in Seq(Entries)
      BY <1>1, <1>3, <1>5
    <2> QED BY <1>1, <1>2, <1>9, <1>10, <2>1 DEF FileTypes, Sole
  <1>12. LinesRead' = LinesRead
    BY <1>8, <1>9 DEF LinesRead
  <1>13. /\ Sound' <=> Sound
         /\ Recorded' = Recorded
    BY <1>12, SoundNext DEF Sound, Recorded
  <1>14. Sound => Recorded = Append(told, entry)
    BY <1>1, <1>2 DEF Told
  <1>15. Told(p)'
    <2>1. owners'[p].phase = "OPEN"
      BY <1>6, <1>10
    <2>2. Sound' => told' = Recorded'
      BY <1>1, <1>13, <1>14
    <2> QED BY <2>1, <2>2 DEF Told
  <1>16. Owned(p)'
    <2>1. UNCHANGED WantsNewline
      BY <1>1 DEF WantsNewline
    <2>2. ASSUME WantsNewline, tears.since = 0
          PROVE  /\ Chains(lines) /\ IsInjective(EntriesOf(lines))
                 /\ done.head = EntriesOf(lines) /\ done.ids = Range(EntriesOf(lines))
      <3> DEFINE entries == EntriesOf(file.lines)
      <3>1. /\ Chains(file.lines) /\ IsInjective(entries)
            /\ owners[p].head = entries /\ owners[p].ids = Range(entries)
            /\ file.tail = <<record>> /\ record.previous = entries
            /\ entry \notin Range(entries)
        BY <1>1, <1>2, <2>2 DEF Owned, Knows, Writes
      <3>2. entries \in Seq(Stored) /\ entry \in Stored
        BY <1>3, <1>5, EntriesAreASequence DEF Stored
      <3>3. EntryOf(file.tail) = entry /\ Chained(file.tail, entries)
        BY <1>4, <3>1 DEF EntryOf, Chained
      <3>4. EntriesOf(lines) = Append(entries, entry)
        BY <1>3, <3>3, EntriesOfAppend DEF lines
      <3>5. Chains(lines)
        BY <1>3, <3>1, <3>3, ChainsAppend DEF lines
      <3> HIDE DEF entries
      <3>6. /\ IsInjective(Append(entries, entry))
            /\ Range(Append(entries, entry)) = Range(entries) \union {entry}
        BY <3>1, <3>2, JoinsInjective
      <3> QED BY <1>6, <3>1, <3>4, <3>5, <3>6
    <2> QED BY <1>1, <1>6, <1>9, <1>10, <2>1, <2>2 DEF Owned, Knows, Writes
  <1> QED BY <1>11, <1>15, <1>16, OneHandleNext

-----------------------------------------------------------------------------
(* The invariant holds from the empty file on.                              *)

(* The formats are the four journals of the source.                         *)
FourFormats == Formats \subseteq {"PAPER", "LIVE", "OPERATIONS", "COMMERCIAL"}

LEMMA InvInit ==
    ASSUME FilesInit
    PROVE  Inv
  <1>1. Cut \in Records /\ <<>> \in Line
    BY DEF Records, Line
  <1>2. Closed \in Handle /\ Closed.phase = "CLOSED"
    BY <1>1 DEF Closed, Handle
  <1>3. file.lines = <<>> /\ file.tail = <<>> /\ LinesRead = <<>>
    BY DEF FilesInit, LinesRead
  <1>4. FileTypes
    BY <1>1, <1>2 DEF FilesInit, FileTypes
  <1>5. \A p \in Owners : owners[p] = Closed
    BY DEF FilesInit
  <1>6. EntriesOf(<<>>) = <<>> /\ Chains(<<>>)
    BY DEF EntriesOf, Chains
  <1>7. IsInjective(<<>>)
    BY DEF IsInjective
  <1>8. told = Recorded
    BY <1>3, <1>6 DEF FilesInit, Recorded
  <1> QED BY <1>2, <1>3, <1>4, <1>5, <1>6, <1>7, <1>8
          DEF Inv, OneOwner, ToldInv, OwnedInv, Writes

LEMMA InvNext ==
    ASSUME EntriesAreWhole, Inv, [FilesNext]_fileVars
    PROVE  Inv'
  <1>1. ASSUME NEW p \in Owners, Open(p)
        PROVE  Inv'
    BY <1>1, Opens
  <1>2. ASSUME NEW p \in Owners, FinishRecord(p)
        PROVE  Inv'
    BY <1>2, Finishes
  <1>3. ASSUME NEW p \in Owners, Close(p) \/ LeaveUnended(p)
        PROVE  Inv'
    BY <1>3, Closings
  <1>4. ASSUME NEW p \in Owners, NEW e \in Entries, WriteRecord(p, e)
        PROVE  Inv'
    BY <1>4, Begins
  <1>5. ASSUME NEW p \in Owners, NEW e \in Entries, CutRecord(p, e)
        PROVE  Inv'
    BY <1>5, Cuts
  <1>6. CASE UNCHANGED fileVars
    BY <1>6 DEF fileVars, Inv, FileTypes, OneOwner, ToldInv, OwnedInv, Writes, Knows,
            WantsNewline, LinesRead, Recorded
  <1> QED BY <1>1, <1>2, <1>3, <1>4, <1>5, <1>6 DEF FilesNext

(* A file keeps its format.                                                 *)
LEMMA FormatStays == FilesNext => format' = format
  BY DEF FilesNext, Open, FinishRecord, LeaveUnended, Close, WriteRecord, CutRecord

-----------------------------------------------------------------------------
(* What the invariant says of a file that is read again.                    *)

LEMMA ToldStands ==
    ASSUME Inv
    PROVE  ToldIsRecorded
  <1>1. SUFFICES ASSUME Verifies
                 PROVE  IsPrefix(told, Recorded) /\ Len(Recorded) <= Len(told) + 1
    BY DEF ToldIsRecorded
  <1>2. told \in Seq(Entries)
    BY DEF Inv, FileTypes
  <1>3. told = Recorded \/ \E e \in Entries : Recorded = Append(told, e)
    BY <1>1 DEF Inv, ToldInv, Verifies, Chains
  <1> DEFINE read == Recorded
  <1> HIDE DEF read
  <1>4. CASE told = read
    BY <1>2, <1>4 DEF IsPrefix, read
  <1>5. ASSUME NEW e \in Entries, read = Append(told, e)
        PROVE  IsPrefix(told, read) /\ Len(read) <= Len(told) + 1
    BY <1>2, <1>5 DEF IsPrefix
  <1> QED BY <1>3, <1>4, <1>5 DEF read

LEMMA LedgersStand ==
    ASSUME FourFormats, format \in Formats, Inv
    PROVE  LedgersVerifyAgain
  <1>1. SUFFICES ASSUME WantsNewline, format = "COMMERCIAL" => ProvisionedOnce(Recorded),
                        tears.since = 0, \A p \in Owners : owners[p].phase # "WRITING"
                 PROVE  Verifies
    BY DEF FourFormats, LedgersVerifyAgain, VerifiesAgain, WantsNewline
  <1>2. /\ Chains(file.lines) /\ IsInjective(EntriesOf(file.lines)) /\ file.tail = <<>>
    BY <1>1 DEF Inv, OwnedInv, Writes
  <1>3. LinesRead = file.lines
    BY <1>2 DEF LinesRead
  <1> QED BY <1>1, <1>2, <1>3 DEF Verifies, Chains, EndsInNewline, Recorded

(* Theorem: whatever processes follow each other and wherever their writes  *)
(* stop (append of the paper, live, operations and commercial journals), a  *)
(* file that verifies holds in order every entry a caller was told is       *)
(* recorded, and a ledger that was written without interruption since its   *)
(* verification opens again.                                                *)
THEOREM EvidenceKept ==
    ASSUME EntriesAreWhole, FourFormats
    PROVE  FilesSpec => []EvidenceSurvives
  <1> DEFINE IInv == Inv /\ format \in Formats
  <1>1. FilesInit => IInv
    BY InvInit DEF FilesInit
  <1>2. IInv /\ [FilesNext]_fileVars => IInv'
    BY FormatStays, InvNext DEF fileVars
  <1>3. IInv => EvidenceSurvives
    BY ToldStands, LedgersStand DEF EvidenceSurvives
  <1> QED BY <1>1, <1>2, <1>3, PTL DEF FilesSpec

-----------------------------------------------------------------------------
(* The operator workbench.                                                  *)

(* Instants are counted from an epoch on, and a document is a snapshot that *)
(* declares no completion, or one at an instant.                            *)
DocumentsAreSnapshots ==
    /\ DayTicks \in Nat \ {0} /\ Instants \subseteq Nat /\ MaxEntries \in Nat
    /\ Documents \subseteq Snapshots
    /\ \A d \in Documents : d.done \in Nat \union {Never}

CompletionEntries ==
    [id : Ids, kind : {"COMPLETION"}, at : Instants, document : Documents, due : Int]
OtherEntries == [id : Ids, kind : Kinds \ Typed, sound : BOOLEAN]

(* What the reading half of complete-schedule established of its entry,     *)
(* against the records `seen`.                                              *)
OnSchedule(e) == e.due = ScheduledFor(e.document, e.at) /\ e.due <= e.at
FirstOfDay(e, seen, n) ==
    /\ e.document.done # Never => Day(e.at) # Day(e.document.done)
    /\ \A m \in 1..n :
          /\ seen[m].kind = "COMPLETION" /\ seen[m].document = e.document
          /\ Day(seen[m].at) = Day(e.at)
          => e.at < seen[m].at

Prepared(c) ==
    /\ c \in [phase : {"READ"}, seen : Seq(CompletionEntries \union OtherEntries),
              entry : CompletionEntries]
    /\ OnSchedule(c.entry) /\ FirstOfDay(c.entry, c.seen, Len(c.seen))

SoundEntry(n) ==
    /\ RegisterShape(workbook[n])
    /\ workbook[n].kind = "COMPLETION" =>
          workbook[n] \in CompletionEntries /\ OnSchedule(workbook[n])
          /\ FirstOfDay(workbook[n], workbook, n - 1)

WorkbookInv ==
    /\ configuration \in Documents /\ verifiable \in BOOLEAN
    /\ workbook \in Seq(CompletionEntries \union OtherEntries)
    /\ DOMAIN completions = Operators
    /\ \A p \in Operators : completions[p].phase = "READ" => Prepared(completions[p])
    /\ \A n \in 1..Len(workbook) : SoundEntry(n)

-----------------------------------------------------------------------------
LEMMA Days ==
    ASSUME DocumentsAreSnapshots
    PROVE  /\ \A t \in Int : /\ Day(t) \in Int /\ Day(t) * DayTicks <= t
                             /\ t < Day(t) * DayTicks + DayTicks
                             /\ t % DayTicks = t - Day(t) * DayTicks
           /\ \A t, u \in Int : t <= u => Day(t) <= Day(u)
  BY DEF DocumentsAreSnapshots, Day

(* A bounded set of instants has a last one.                                *)
LEMMA LastOfAll ==
    ASSUME NEW S \in SUBSET Int, S # {}, NEW t \in Int, \A s \in S : s <= t
    PROVE  Max(S) \in S /\ \A s \in S : s <= Max(S)
  <1> DEFINE U == {k \in Nat : \E s \in S : s = t - k}
  <1>1. PICK some \in S : TRUE
    OBVIOUS
  <1>2. some \in Int /\ some <= t /\ t - some \in Nat /\ some = t - (t - some)
    BY <1>1
  <1>3. t - some \in U
    BY <1>1, <1>2
  <1>4. PICK k \in U : \A j \in U : ~(<<j, k>> \in OpToRel(<, Nat))
    <2>1. U \subseteq Nat /\ U # {}
      BY <1>3
    <2> HIDE DEF U
    <2> QED BY <2>1, NatLessThanWellFounded, WFMin, Zenon
  <1>5. k \in Nat /\ t - k \in S
    BY <1>4
  <1>6. ASSUME NEW s \in S
        PROVE  s <= t - k
    <2>1. s \in Int /\ s <= t /\ t - s \in Nat /\ s = t - (t - s)
      BY <1>6
    <2>2. t - s \in U
      BY <2>1, <1>6
    <2>3. ~(t - s < k)
      BY <1>4, <1>5, <2>1, <2>2 DEF OpToRel
    <2> QED BY <1>5, <2>1, <2>3
  <1>7. \E m \in S : \A s \in S : m >= s
    BY <1>5, <1>6
  <1>8. Max(S) = CHOOSE m \in S : \A s \in S : m >= s
    BY DEF Max
  <1> QED BY <1>7, <1>8

(* What the journal says was done last, of what a document declares and of  *)
(* the completions of it a reader counts.                                   *)
LEMMA LastOfCounted ==
    ASSUME DocumentsAreSnapshots, WorkbookInv, NEW d \in Documents, NEW t \in Instants,
           Validates(d, t)
    PROVE  /\ LastDone(d, t) \in {d.done} \union {workbook[n].at : n \in Counted(d, t)}
           /\ LastDone(d, t) \in Nat \union {Never} /\ LastDone(d, t) <= t
           /\ d.done <= LastDone(d, t)
           /\ \A n \in Counted(d, t) : workbook[n].at \in Nat /\ workbook[n].at <= LastDone(d, t)
  <1> DEFINE S == {d.done} \union {workbook[n].at : n \in Counted(d, t)}
  <1>1. d.done \in Nat \union {Never} /\ d.done <= t /\ t \in Nat
    <2>1. d.done \in Nat \union {Never} /\ t \in Nat
      BY DEF DocumentsAreSnapshots
    <2>2. d.done # Never => d.done <= t
      BY DEF Validates
    <2> QED BY <2>1, <2>2 DEF Never
  <1>2. ASSUME NEW n \in Counted(d, t)
        PROVE  workbook[n].at \in Nat /\ workbook[n].at <= t
    BY <1>2 DEF Counted, WorkbookInv, SoundEntry, CompletionEntries, DocumentsAreSnapshots
  <1>3. S \in SUBSET Int /\ S # {} /\ t \in Int /\ \A s \in S : s <= t
    BY <1>1, <1>2 DEF Never
  <1>4. S \subseteq Nat \union {Never}
    BY <1>1, <1>2
  <1>5. LastDone(d, t) = Max(S)
    BY DEF LastDone
  <1>6. d.done \in S /\ \A n \in Counted(d, t) : workbook[n].at \in S
    OBVIOUS
  <1> HIDE DEF S
  <1>7. Max(S) \in S /\ \A s \in S : s <= Max(S)
    BY <1>3, LastOfAll
  <1>8. /\ Max(S) \in Nat \union {Never} /\ Max(S) <= t /\ d.done <= Max(S)
        /\ \A n \in Counted(d, t) : workbook[n].at <= Max(S)
    BY <1>3, <1>4, <1>6, <1>7
  <1> QED BY <1>2, <1>5, <1>7, <1>8 DEF S

DoneOn(d, t) ==
    \/ d.done # Never /\ Day(d.done) = Day(t)
    \/ \E n \in Completed(d) : workbook[n].at <= t /\ Day(workbook[n].at) = Day(t)

LEMMA DoneIsLast ==
    ASSUME DocumentsAreSnapshots, WorkbookInv, NEW d \in Documents, NEW t \in Instants,
           Validates(d, t)
    PROVE  LastDone(d, t) # Never /\ Day(LastDone(d, t)) = Day(t) <=> DoneOn(d, t)
  <1> DEFINE last == LastDone(d, t)
  <1>1. /\ last \in {d.done} \union {workbook[n].at : n \in Counted(d, t)}
        /\ last \in Nat \union {Never} /\ last <= t /\ d.done <= last
        /\ \A n \in Counted(d, t) : workbook[n].at \in Nat /\ workbook[n].at <= last
    BY LastOfCounted
  <1>2. t \in Nat /\ d.done \in Nat \union {Never} /\ Never = -1
    BY DEF DocumentsAreSnapshots, Never
  <1> HIDE DEF last
  <1>3. \A u \in Int : u <= last /\ Day(u) = Day(t) => Day(last) = Day(t)
    <2>1. ASSUME NEW u \in Int, u <= last, Day(u) = Day(t)
          PROVE  Day(last) = Day(t)
      <3>1. last \in Int /\ t \in Int
        BY <1>1, <1>2
      <3>2. Day(u) <= Day(last) /\ Day(last) <= Day(t) /\ Day(last) \in Int /\ Day(t) \in Int
        BY <1>1, <2>1, <3>1, Days
      <3> QED BY <2>1, <3>2
    <2> QED BY <2>1
  <1>4. ASSUME last # Never, Day(last) = Day(t)
        PROVE  DoneOn(d, t)
    <2>1. CASE last = d.done
      BY <1>4, <2>1 DEF DoneOn
    <2>2. ASSUME NEW n \in Counted(d, t), last = workbook[n].at
          PROVE  DoneOn(d, t)
      BY <1>4, <2>2 DEF DoneOn, Counted, Completed
    <2> QED BY <1>1, <2>1, <2>2
  <1>5. ASSUME d.done # Never, Day(d.done) = Day(t)
        PROVE  last # Never /\ Day(last) = Day(t)
    BY <1>1, <1>2, <1>3, <1>5
  <1>6. ASSUME NEW n \in Completed(d), workbook[n].at <= t, Day(workbook[n].at) = Day(t)
        PROVE  last # Never /\ Day(last) = Day(t)
    <2>1. n \in Counted(d, t)
      BY <1>6 DEF Counted, Completed
    <2> QED BY <1>1, <1>2, <1>3, <1>6, <2>1
  <1> QED BY <1>4, <1>5, <1>6 DEF last, DoneOn

(* Work is called for exactly while it is not done, once its hour is past.  *)
LEMMA DueIsUndone ==
    ASSUME DocumentsAreSnapshots, WorkbookInv, NEW d \in Documents, NEW t \in Instants,
           Validates(d, t)
    PROVE  /\ IsDue(d, LastDone(d, t), t)
                <=> d.enabled /\ ~DoneOn(d, t) /\ t % DayTicks >= d.hour
           /\ IsDue(d, LastDone(d, t), t)
                => NextDue(d, LastDone(d, t), t) = ScheduledFor(d, t) /\ ScheduledFor(d, t) <= t
  <1>1. t \in Int /\ d.hour \in Nat /\ DayTicks \in Nat \ {0}
    BY DEF DocumentsAreSnapshots, Snapshots
  <1>2. Day(t) \in Int /\ t < Day(t) * DayTicks + DayTicks /\ t % DayTicks = t - Day(t) * DayTicks
    BY <1>1, Days
  <1>3. Day(t) * DayTicks \in Int
    BY <1>1, <1>2
  <1>4. CASE DoneOn(d, t)
    <2>1. NextDue(d, LastDone(d, t), t) = Day(t) * DayTicks + d.hour + DayTicks
      BY <1>4, DoneIsLast DEF NextDue, ScheduledFor
    <2>2. ~(NextDue(d, LastDone(d, t), t) <= t)
      BY <1>1, <1>2, <1>3, <2>1
    <2> QED BY <1>4, <2>2 DEF IsDue
  <1>5. CASE ~DoneOn(d, t)
    <2>1. NextDue(d, LastDone(d, t), t) = ScheduledFor(d, t)
      BY <1>5, DoneIsLast DEF NextDue
    <2>2. ScheduledFor(d, t) = Day(t) * DayTicks + d.hour
      BY DEF ScheduledFor
    <2>3. ScheduledFor(d, t) <= t <=> t % DayTicks >= d.hour
      BY <1>1, <1>2, <1>3, <2>2
    <2> QED BY <1>5, <2>1, <2>3 DEF IsDue
  <1> QED BY <1>4, <1>5

-----------------------------------------------------------------------------
LEMMA WorkbookStarts ==
    ASSUME DocumentsAreSnapshots, OperationsInit
    PROVE  WorkbookInv
  BY DEF OperationsInit, WorkbookInv, Idle

(* Records that stand stay sound when one is added.                         *)
LEMMA AppendKeeps ==
    ASSUME WorkbookInv, NEW e \in CompletionEntries \union OtherEntries, RegisterShape(e),
           e.kind = "COMPLETION" =>
               e \in CompletionEntries /\ OnSchedule(e) /\ FirstOfDay(e, workbook, Len(workbook)),
           workbook' = Append(workbook, e)
    PROVE  /\ workbook' \in Seq(CompletionEntries \union OtherEntries)
           /\ \A n \in 1..Len(workbook') : SoundEntry(n)'
  <1>1. workbook \in Seq(CompletionEntries \union OtherEntries)
    BY DEF WorkbookInv
  <1>2. /\ workbook' \in Seq(CompletionEntries \union OtherEntries)
        /\ Len(workbook') = Len(workbook) + 1 /\ Len(workbook) \in Nat
        /\ workbook'[Len(workbook) + 1] = e
        /\ \A n \in 1..Len(workbook) : workbook'[n] = workbook[n]
    BY <1>1
  <1>3. ASSUME NEW n \in 1..Len(workbook)
        PROVE  SoundEntry(n)'
    <2>1. SoundEntry(n) /\ n \in Nat /\ n - 1 <= Len(workbook)
      BY <1>2 DEF WorkbookInv
    <2>2. workbook'[n] = workbook[n] /\ \A m \in 1..(n - 1) : workbook'[m] = workbook[m]
      BY <1>2
    <2> QED BY <2>1, <2>2 DEF SoundEntry, FirstOfDay
  <1>4. ASSUME NEW n \in Nat, n = Len(workbook) + 1
        PROVE  SoundEntry(n)'
    <2>1. workbook'[n] = e /\ n - 1 = Len(workbook)
          /\ \A m \in 1..(n - 1) : workbook'[m] = workbook[m]
      BY <1>2, <1>4
    <2> QED BY <2>1 DEF SoundEntry, FirstOfDay
  <1> QED
    <2>1. ASSUME NEW n \in 1..Len(workbook')
          PROVE  SoundEntry(n)'
      <3>1. n \in Nat /\ (n \in 1..Len(workbook) \/ n = Len(workbook) + 1)
        BY <1>2
      <3> QED BY <1>3, <1>4, <3>1
    <2> QED BY <1>2, <2>1

LEMMA BeginKeeps ==
    ASSUME DocumentsAreSnapshots, WorkbookInv, NEW p \in Operators, NEW id \in Ids,
           NEW t \in Instants, BeginCompletion(p, id, t)
    PROVE  WorkbookInv'
  <1> DEFINE done == LastDone(configuration, t)
             e == Entry(id, "COMPLETION", t, configuration, NextDue(configuration, done, t), TRUE)
             c == [phase |-> "READ", seen |-> workbook, entry |-> e]
  <1>1. /\ Validates(configuration, t) /\ IsDue(configuration, done, t)
        /\ completions' = [completions EXCEPT ![p] = c]
        /\ UNCHANGED <<configuration, workbook, verifiable>>
    BY DEF BeginCompletion
  <1>2. configuration \in Documents /\ t \in Nat /\ configuration.hour \in Nat
        /\ DayTicks \in Nat /\ workbook \in Seq(CompletionEntries \union OtherEntries)
    BY DEF WorkbookInv, DocumentsAreSnapshots, Snapshots
  <1>3. /\ NextDue(configuration, done, t) = ScheduledFor(configuration, t)
        /\ ScheduledFor(configuration, t) <= t /\ ~DoneOn(configuration, t)
    BY <1>1, <1>2, DueIsUndone
  <1>4. ScheduledFor(configuration, t) \in Int
    <2>1. Day(t) \in Int
      BY <1>2, Days
    <2>2. Day(t) * DayTicks \in Int
      BY <1>2, <2>1
    <2> QED BY <1>2, <2>2 DEF ScheduledFor
  <1>5. e = [id |-> id, kind |-> "COMPLETION", at |-> t, document |-> configuration,
             due |-> ScheduledFor(configuration, t)]
    BY <1>3 DEF Entry
  <1>6. e \in CompletionEntries /\ OnSchedule(e)
        /\ e.document = configuration /\ e.at = t
    <2> HIDE DEF e
    <2>1. e.document = configuration /\ e.at = t /\ e.due = ScheduledFor(configuration, t)
      BY <1>5
    <2>2. e \in CompletionEntries
      BY <1>2, <1>4, <1>5 DEF CompletionEntries
    <2> QED BY <1>3, <2>1, <2>2 DEF OnSchedule
  <1> HIDE DEF e
  <1>7. FirstOfDay(e, workbook, Len(workbook))
    <2>1. configuration.done # Never => Day(t) # Day(configuration.done)
      BY <1>3 DEF DoneOn
    <2>2. ASSUME NEW m \in 1..Len(workbook), workbook[m].kind = "COMPLETION",
                 workbook[m].document = configuration, Day(workbook[m].at) = Day(t)
          PROVE  t < workbook[m].at
      <3>1. m \in Completed(configuration)
        BY <2>2 DEF Completed
      <3>2. ~(workbook[m].at <= t)
        BY <1>3, <2>2, <3>1 DEF DoneOn
      <3>3. workbook[m].at \in Nat
        BY <2>2 DEF WorkbookInv, SoundEntry, CompletionEntries, DocumentsAreSnapshots
      <3> QED BY <1>2, <3>2, <3>3
    <2> QED BY <1>6, <2>1, <2>2 DEF FirstOfDay
  <1>8. Prepared(c)
    BY <1>2, <1>6, <1>7 DEF Prepared
  <1>9. \A n \in 1..Len(workbook) : SoundEntry(n)'
    BY <1>1 DEF WorkbookInv, SoundEntry, FirstOfDay
  <1> HIDE DEF c
  <1>10. \A q \in Operators : completions'[q].phase = "READ" => Prepared(completions'[q])
    BY <1>1, <1>8 DEF WorkbookInv
  <1> QED BY <1>1, <1>9, <1>10 DEF WorkbookInv

LEMMA FinishKeeps ==
    ASSUME WorkbookInv, NEW p \in Operators, FinishCompletion(p)
    PROVE  WorkbookInv'
  <1> DEFINE e == completions[p].entry
  <1>1. /\ completions[p].phase = "READ" /\ completions' = [completions EXCEPT ![p] = Idle]
        /\ UNCHANGED <<configuration, verifiable>>
    BY DEF FinishCompletion
  <1>2. /\ DOMAIN completions' = Operators
        /\ \A q \in Operators : completions'[q].phase = "READ" => Prepared(completions'[q])
    BY <1>1 DEF WorkbookInv, Idle
  <1>3. Prepared(completions[p])
    BY <1>1 DEF WorkbookInv
  <1>4. CASE StillAsRead(p) /\ EntryAppendable(e)
    <2>1. workbook = completions[p].seen /\ workbook' = Append(workbook, e)
      BY <1>4 DEF FinishCompletion, StillAsRead
    <2>2. e \in CompletionEntries /\ OnSchedule(e) /\ FirstOfDay(e, workbook, Len(workbook))
          /\ RegisterShape(e)
      BY <1>3, <1>4, <2>1 DEF Prepared, EntryAppendable
    <2> HIDE DEF e
    <2>3. /\ workbook' \in Seq(CompletionEntries \union OtherEntries)
          /\ \A n \in 1..Len(workbook') : SoundEntry(n)'
      BY <2>1, <2>2, AppendKeeps
    <2> QED BY <1>1, <1>2, <2>3 DEF WorkbookInv
  <1>5. CASE ~(StillAsRead(p) /\ EntryAppendable(e))
    <2>1. workbook' = workbook
      BY <1>5 DEF FinishCompletion
    <2>2. \A n \in 1..Len(workbook) : SoundEntry(n)'
      BY <2>1 DEF WorkbookInv, SoundEntry, FirstOfDay
    <2> QED BY <1>1, <1>2, <2>1, <2>2 DEF WorkbookInv
  <1> QED BY <1>4, <1>5

LEMMA RecordKeeps ==
    ASSUME WorkbookInv, NEW t \in Instants, NEW e \in Submissions(t), RecordEntry(e)
    PROVE  WorkbookInv'
  <1>1. /\ e.kind \notin Typed /\ RegisterShape(e) /\ workbook' = Append(workbook, e)
        /\ UNCHANGED <<configuration, completions, verifiable>>
    BY DEF RecordEntry, EntryAppendable
  <1>2. PICK id \in Ids, kind \in Kinds, due \in {t - 1, t}, sound \in BOOLEAN :
            e = Entry(id, kind, t, configuration, due, sound)
    BY DEF Submissions
  <1>3. e.kind = kind /\ kind # "COMPLETION"
    BY <1>1, <1>2 DEF Entry, Typed
  <1>4. e = [id |-> id, kind |-> kind, sound |-> sound] /\ kind \in Kinds \ Typed
    BY <1>1, <1>2, <1>3 DEF Entry
  <1>5. e \in OtherEntries /\ e.kind # "COMPLETION"
    BY <1>3, <1>4 DEF OtherEntries
  <1>6. /\ workbook' \in Seq(CompletionEntries \union OtherEntries)
        /\ \A n \in 1..Len(workbook') : SoundEntry(n)'
    BY <1>1, <1>5, AppendKeeps
  <1> QED BY <1>1, <1>6 DEF WorkbookInv

LEMMA WorkbookSteps ==
    ASSUME DocumentsAreSnapshots, WorkbookInv, [OperationsNext]_operationsVars
    PROVE  WorkbookInv'
  <1>1. ASSUME UNCHANGED workbook, configuration' \in Documents, verifiable' \in BOOLEAN,
               DOMAIN completions' = Operators,
               \A p \in Operators : completions'[p] \in {completions[p], Idle}
        PROVE  WorkbookInv'
    <2>1. \A n \in 1..Len(workbook) : SoundEntry(n)'
      BY <1>1 DEF WorkbookInv, SoundEntry, FirstOfDay
    <2> QED BY <1>1, <2>1 DEF WorkbookInv, Idle
  <1>2. CASE UNCHANGED operationsVars
    BY <1>1, <1>2 DEF operationsVars, WorkbookInv
  <1>3. ASSUME NEW d \in Documents, ReplaceConfiguration(d)
        PROVE  WorkbookInv'
    BY <1>1, <1>3 DEF ReplaceConfiguration, WorkbookInv
  <1>4. CASE TearJournal
    BY <1>1, <1>4 DEF TearJournal, WorkbookInv
  <1> QED BY <1>2, <1>3, <1>4, BeginKeeps, FinishKeeps, RecordKeeps DEF OperationsNext

-----------------------------------------------------------------------------
(* What the invariant comes to for a reader.                                *)

LEMMA ReadersProject ==
    ASSUME WorkbookInv
    PROVE  ReadersNeverFail
  BY DEF ReadersNeverFail, WorkbookInv, Projects, Counted, SoundEntry, OnSchedule,
         RegistersProject

LEMMA WorkDoneOnce ==
    ASSUME DocumentsAreSnapshots, WorkbookInv
    PROVE  DoneOnce
  <1>1. ASSUME NEW d \in Documents, NEW n \in Completed(d)
        PROVE  /\ d.done # Never => Day(workbook[n].at) # Day(d.done)
               /\ \A m \in Completed(d) :
                     m < n /\ Day(workbook[m].at) = Day(workbook[n].at)
                         => workbook[n].at < workbook[m].at
    <2>1. /\ n \in 1..Len(workbook) /\ workbook[n].document = d
          /\ FirstOfDay(workbook[n], workbook, n - 1)
      BY DEF Completed, WorkbookInv, SoundEntry
    <2>2. ASSUME NEW m \in Completed(d), m < n
          PROVE  m \in 1..(n - 1) /\ workbook[m].kind = "COMPLETION" /\ workbook[m].document = d
      <3>1. Len(workbook) \in Nat
        BY DEF WorkbookInv
      <3> QED BY <2>1, <2>2, <3>1 DEF Completed
    <2> QED BY <2>1, <2>2 DEF FirstOfDay
  <1> QED BY <1>1 DEF DoneOnce

LEMMA AlertsShowState ==
    ASSUME NEW d \in Documents, NEW t, NEW alerts, NEW done,
           alerts \in {Alerts(d, done, t), Alerts(d, done, t) \union {JournalAlert}}
    PROVE  /\ CockpitState(d) = "CRITICAL"
                <=> \E a \in alerts \ {JournalAlert} : a[1] = "CRITICAL"
           /\ <<"WARNING", "scheduled_work_due">> \in alerts <=> IsDue(d, done, t)
           /\ JournalAlert \in alerts <=> alerts # Alerts(d, done, t)
  <1> DEFINE account == Alerts(d, done, t)
  <1>1. /\ <<"CRITICAL", "audit_chain_unhealthy">> \in account <=> ~d.audited
        /\ <<"CRITICAL", "reconciliation_unhealthy">> \in account <=> ~d.reconciled
        /\ <<"CRITICAL", "kill_switch_active">> \in account <=> d.switched
        /\ <<"CRITICAL", "risk_limit_breached">> \in account <=> Breached(d)
        /\ <<"WARNING", "scheduled_work_due">> \in account <=> IsDue(d, done, t)
        /\ account \subseteq
              {<<"CRITICAL", "audit_chain_unhealthy">>,
               <<"CRITICAL", "reconciliation_unhealthy">>,
               <<"WARNING", "broker_disconnected">>, <<"CRITICAL", "kill_switch_active">>,
               <<"CRITICAL", "risk_limit_breached">>, <<"WARNING", "scheduled_work_due">>}
    BY DEF Alerts
  <1>2. JournalAlert \notin account /\ JournalAlert # <<"WARNING", "scheduled_work_due">>
    BY <1>1 DEF JournalAlert
  <1>3. alerts \ {JournalAlert} = account
    BY <1>2
  <1> HIDE DEF account
  <1>4. (\E a \in account : a[1] = "CRITICAL")
            <=> (~d.audited \/ ~d.reconciled \/ d.switched \/ Breached(d))
    <2>1. ASSUME NEW a \in account, a[1] = "CRITICAL"
          PROVE  ~d.audited \/ ~d.reconciled \/ d.switched \/ Breached(d)
      <3>1. a # <<"WARNING", "broker_disconnected">> /\ a # <<"WARNING", "scheduled_work_due">>
        BY <2>1
      <3> QED BY <1>1, <3>1
    <2>2. ASSUME ~d.audited \/ ~d.reconciled \/ d.switched \/ Breached(d)
          PROVE  \E a \in account : a[1] = "CRITICAL"
      <3>1. PICK a \in account : a \in {<<"CRITICAL", "audit_chain_unhealthy">>,
                                        <<"CRITICAL", "reconciliation_unhealthy">>,
                                        <<"CRITICAL", "kill_switch_active">>,
                                        <<"CRITICAL", "risk_limit_breached">>}
        BY <1>1, <2>2
      <3> QED BY <3>1
    <2> QED BY <2>1, <2>2
  <1>5. CockpitState(d) = "CRITICAL" <=> (~d.audited \/ ~d.reconciled \/ d.switched \/ Breached(d))
    BY DEF CockpitState
  <1> QED BY <1>1, <1>2, <1>3, <1>4, <1>5 DEF account

LEMMA DashboardsAreTrue ==
    ASSUME DocumentsAreSnapshots, WorkbookInv
    PROVE  DashboardsAgree
  <1>1. ASSUME NEW d \in Documents, NEW t \in Instants, Validates(d, t)
        PROVE  LET alerts == DashboardAlerts(d, t)
                   done == \/ d.done # Never /\ Day(d.done) = Day(t)
                           \/ \E n \in Completed(d) :
                                 workbook[n].at <= t /\ Day(workbook[n].at) = Day(t)
                   calls == <<"WARNING", "scheduled_work_due">> \in alerts
               IN  /\ calls /\ done => JournalAlert \in alerts
                   /\ JournalAlert \notin alerts =>
                         (calls <=> d.enabled /\ ~done /\ t % DayTicks >= d.hour)
                   /\ CockpitState(d) = "CRITICAL" <=>
                         \E a \in alerts \ {JournalAlert} : a[1] = "CRITICAL"
    <2> DEFINE alerts == DashboardAlerts(d, t)
               calls == <<"WARNING", "scheduled_work_due">> \in alerts
    <2>1. CASE JournalReadable
      <3>1. alerts = Alerts(d, LastDone(d, t), t)
        BY <2>1 DEF DashboardAlerts
      <3>2. calls <=> d.enabled /\ ~DoneOn(d, t) /\ t % DayTicks >= d.hour
        <4>1. calls <=> IsDue(d, LastDone(d, t), t)
          BY <3>1, AlertsShowState
        <4>2. IsDue(d, LastDone(d, t), t)
                 <=> d.enabled /\ ~DoneOn(d, t) /\ t % DayTicks >= d.hour
          BY <1>1, DueIsUndone
        <4> QED BY <4>1, <4>2
      <3>3. CockpitState(d) = "CRITICAL" <=> \E a \in alerts \ {JournalAlert} : a[1] = "CRITICAL"
        BY <3>1, AlertsShowState
      <3> QED BY <3>2, <3>3 DEF DoneOn
    <2>2. CASE ~JournalReadable
      <3>1. alerts = Alerts(d, d.done, t) \union {JournalAlert} /\ JournalAlert \in alerts
        BY <2>2 DEF DashboardAlerts
      <3>2. CockpitState(d) = "CRITICAL" <=> \E a \in alerts \ {JournalAlert} : a[1] = "CRITICAL"
        BY <3>1, AlertsShowState
      <3> QED BY <3>1, <3>2
    <2> QED BY <2>1, <2>2
  <1> QED BY <1>1 DEF DashboardsAgree

LEMMA ApprovalsAreOfOneLimit == OneApprovalOneLimit
  <1>1. ASSUME NEW d \in Documents, NEW t \in Instants, Validates(d, t)
        PROVE  d.displayed = d.grant.subject.cap
    BY <1>1 DEF Validates, Authorized, UnderPolicy, Subject
  <1> QED BY <1>1 DEF OneApprovalOneLimit

LEMMA WorkbookHonest ==
    ASSUME DocumentsAreSnapshots, WorkbookInv
    PROVE  WorkbenchIsHonest
  BY ReadersProject, WorkDoneOnce, DashboardsAreTrue, ApprovalsAreOfOneLimit
     DEF WorkbenchIsHonest

(* Whatever two operators do at once, at whatever instants, and however the *)
(* configuration is replaced: the journal projects under every document     *)
(* that loads, a day's work is done once, a dashboard that could read the   *)
(* journal calls for what is not done and for nothing else                  *)
(* (apply_schedule_completions, derive_schedule_statuses), and one approval *)
(* admits one limit (validate_risk_limit_parameter_policy).                 *)
THEOREM WorkbenchHonest ==
    ASSUME DocumentsAreSnapshots
    PROVE  OperationsSpec => []WorkbenchIsHonest
  <1>1. OperationsInit => WorkbookInv
    BY WorkbookStarts
  <1>2. WorkbookInv /\ [OperationsNext]_operationsVars => WorkbookInv'
    BY WorkbookSteps
  <1>3. WorkbookInv => WorkbenchIsHonest
    BY WorkbookHonest
  <1> QED BY <1>1, <1>2, <1>3, PTL DEF OperationsSpec

-----------------------------------------------------------------------------
(* The evidence of an account.                                              *)

(* Orders are of whole units for one of the holders, and actions have       *)
(* positive terms; only a split has a ratio.                                *)
TradesAreWhole ==
    /\ IsFiniteSet(Orders) /\ IsFiniteSet(Holders)
    /\ Shares \in [Holders -> Int]
    /\ \A o \in Orders :
          Trades[o].units \in Int /\ Trades[o].price \in Int /\ Trades[o].strategy \in Holders
    /\ \A a \in DOMAIN Actions :
          /\ Actions[a].over \in Nat \ {0} /\ Actions[a].under \in Nat \ {0}
          /\ Actions[a].payment \in Int
          /\ Actions[a].kind # "SPLIT" => Actions[a].over = 1 /\ Actions[a].under = 1

BookRecords ==
    [quantity : Int, owned : [Holders -> Int], cash : Int, placed : SUBSET Orders,
     booked : SUBSET Orders, closed : SUBSET Orders, receipts : SUBSET Notices,
     unexplained : SUBSET {"ORDERS", "POSITION", "CASH"}, latest : Nat,
     days : SUBSET [session : DOMAIN Closes, clean : BOOLEAN]]
Accounts ==
    [quantity : Int, cash : Int, executed : SUBSET Orders, expired : SUBSET Orders,
     notices : SUBSET Notices, settled : SUBSET DOMAIN Actions]

UnitsOf == [o \in Orders |-> Trades[o].units]
CostOf == [o \in Orders |-> Trades[o].units * Trades[o].price]

GainOf == [n \in Notices |-> Scaled(n.action, n.held) - n.held]
PaymentOf == [n \in Notices |-> Paid(n.action, n.held)]

(* The positions and cash that executions and actions leave.                *)
PositionAfter(executions, notices) ==
    Total(Shares) + SumOf(UnitsOf, executions) + SumOf(GainOf, notices)
CashAfter(executions, notices) == SumOf(PaymentOf, notices) - SumOf(CostOf, executions)

SettledBy(v) == {n \in v.notices : n.action \in v.settled}

(* The venue announces an action against what it leaves whole.              *)
ScalesEvenly(a, quantity) == (quantity * Actions[a].over) % Actions[a].under = 0

(* What the venue holds.                                                    *)
VenueKept(v) ==
    /\ IsFiniteSet(v.notices) /\ \A n \in v.notices : ScalesEvenly(n.action, n.held)
    /\ \A a \in v.settled : \E n \in v.notices : n.action = a
    /\ \A m, n \in v.notices : m.action = n.action => m = n
    /\ v.quantity = PositionAfter(v.executed, SettledBy(v))
    /\ v.cash = CashAfter(v.executed, SettledBy(v))

(* What the service holds, in memory as on disk.                            *)
BooksKept(b, notices) ==
    /\ b.booked \subseteq Orders /\ b.receipts \subseteq notices
    /\ b.quantity = PositionAfter(b.booked, b.receipts)
    /\ b.cash = CashAfter(b.booked, b.receipts)
    /\ b.owned \in [Holders -> Int]
    /\ Splits(b.receipts) = {} => Unowned(b) = 0

DaysKept(b, found, confirmed) ==
    /\ \A day \in b.days :
          day.clean => \E r \in found : r.clean /\ r.at >= Closes[day.session]
    /\ \A d \in confirmed : SessionDay(d, TRUE) \in b.days

AccountInv ==
    /\ VenueKept(broker) /\ link \in [healthy : BOOLEAN, connected : BOOLEAN]
    /\ books \in BookRecords /\ journal \in BookRecords /\ broker \in Accounts
    /\ BooksKept(books, broker.notices) /\ BooksKept(journal, broker.notices)
    /\ DaysKept(books, reports, attested) /\ DaysKept(journal, reports, attested)

-----------------------------------------------------------------------------
LEMMA Products ==
    \A x, y, z \in Int : x * y \in Int /\ x * y = y * x /\ (x * y) * z = x * (y * z)
  OBVIOUS

LEMMA Remainders ==
    ASSUME NEW p \in Int, NEW u \in Nat \ {0}
    PROVE  /\ p \div u \in Int /\ p % u \in Int /\ 0 <= p % u /\ p % u < u
           /\ p = u * (p \div u) + (p % u)
  OBVIOUS

(* A quantity and its negative leave no remainder together.                 *)
LEMMA NegativeDivides ==
    ASSUME NEW p \in Int, NEW u \in Nat \ {0}
    PROVE  p % u = 0 <=> (-p) % u = 0
  <1>1. ASSUME NEW x \in Int, x % u = 0 PROVE (-x) % u = 0
    <2> DEFINE k == x \div u  l == (-x) \div u  r == (-x) % u
    <2>1. k \in Int /\ x = u * k
      BY <1>1, Remainders
    <2>2. l \in Int /\ r \in Int /\ 0 <= r /\ r < u /\ -x = u * l + r
      BY <1>1, Remainders
    <2> HIDE DEF k, l, r
    <2>3. k + l \in Int /\ u \in Int /\ u * (k + l) = u * k + u * l
      BY <2>1, <2>2, Distributes
    <2>4. u * k \in Int /\ u * l \in Int
      BY <2>1, <2>2, Distributes
    <2>5. r = -(u * (k + l))
      BY <2>1, <2>2, <2>3, <2>4
    <2>6. k + l = 0
      <3> DEFINE m == k + l
      <3>1. m \in Int /\ u \in Nat \ {0} /\ 0 <= -(u * m) /\ -(u * m) < u
        BY <2>2, <2>3, <2>5
      <3> HIDE DEF m
      <3>2. m >= 1 => u * m >= u
        BY <3>1
      <3>3. m <= -1 => u * m <= -u
        BY <3>1
      <3> QED BY <3>1, <3>2, <3>3 DEF m
    <2> QED BY <2>3, <2>5, <2>6 DEF r
  <1>2. -p \in Int /\ -(-p) = p
    OBVIOUS
  <1> QED BY <1>1, <1>2

(* An action cuts less than a unit of the denominator off a quantity, and   *)
(* nothing where the quantity scales evenly.                                *)
LEMMA ScaledIs ==
    ASSUME TradesAreWhole, NEW a \in DOMAIN Actions, NEW q \in Int
    PROVE  LET gone == Actions[a].over * q - Actions[a].under * Scaled(a, q)
               most == IF ScalesEvenly(a, q) THEN 0 ELSE Actions[a].under - 1
           IN  Scaled(a, q) \in Int /\ -most <= gone /\ gone <= most
  <1> DEFINE over == Actions[a].over  under == Actions[a].under
             most == IF (q * over) % under = 0 THEN 0 ELSE under - 1
  <1>1. over \in Nat \ {0} /\ under \in Nat \ {0}
    BY DEF TradesAreWhole
  <1>2. Scaled(a, q) = IF q >= 0 THEN (q * over) \div under ELSE -(((-q) * over) \div under)
    BY DEF Scaled
  <1>3. ScalesEvenly(a, q) <=> (q * over) % under = 0
    BY DEF ScalesEvenly
  <1> HIDE DEF over, under
  <1> DEFINE p == q * over
  <1>4. p \in Int /\ over * q = p /\ (-q) * over = -p /\ -p \in Int
    BY <1>1, Products
  <1>5. /\ p \div under \in Int /\ p % under \in Int /\ 0 <= p % under /\ p % under < under
        /\ p = under * (p \div under) + (p % under)
    BY <1>1, <1>4, Remainders
  <1>6. /\ (-p) \div under \in Int /\ (-p) % under \in Int
        /\ 0 <= (-p) % under /\ (-p) % under < under
        /\ -p = under * ((-p) \div under) + ((-p) % under)
    BY <1>1, <1>4, Remainders
  <1>7. p % under = 0 <=> (-p) % under = 0
    BY <1>1, <1>4, NegativeDivides
  <1> DEFINE k == p \div under  r == p % under  l == (-p) \div under  s == (-p) % under
             x == Scaled(a, q)
  <1>8. x = IF q >= 0 THEN k ELSE -l
    BY <1>2, <1>4
  <1>9. most = IF r = 0 THEN 0 ELSE under - 1
    OBVIOUS
  <1>10. /\ k \in Int /\ r \in Int /\ 0 <= r /\ r < under /\ p = under * k + r
         /\ l \in Int /\ s \in Int /\ 0 <= s /\ s < under /\ -p = under * l + s
         /\ (r = 0 <=> s = 0)
    BY <1>5, <1>6, <1>7
  <1> HIDE DEF p, k, r, l, s, x, most
  <1>11. under * (-l) = -(under * l) /\ under * l \in Int /\ under * k \in Int
    BY <1>1, <1>10
  <1>12. x \in Int /\ -most <= p - under * x /\ p - under * x <= most
    <2>1. CASE q >= 0
      <3>1. x = k /\ p - under * x = r
        BY <1>4, <1>8, <1>10, <1>11, <2>1
      <3> QED BY <1>1, <1>9, <1>10, <3>1
    <2>2. CASE ~(q >= 0)
      <3>1. x = -l /\ p - under * x = -s
        BY <1>4, <1>8, <1>10, <1>11, <2>2
      <3> QED BY <1>1, <1>9, <1>10, <3>1
    <2> QED BY <2>1, <2>2
  <1>13. over * q - under * x = p - under * x
    BY <1>4
  <1>14. most = IF ScalesEvenly(a, q) THEN 0 ELSE under - 1
    BY <1>3 DEF most, p
  <1> QED BY <1>12, <1>13, <1>14 DEF over, under, x

(* What an action cuts off the shares altogether.                           *)
LEMMA SharesScale ==
    ASSUME TradesAreWhole, NEW a \in DOMAIN Actions, NEW b, b.owned \in [Holders -> Int]
    PROVE  LET new  == [s \in Holders |-> Scaled(a, b.owned[s])]
               gone == Actions[a].over * Total(b.owned) - Actions[a].under * Total(new)
           IN  /\ new \in [Holders -> Int] /\ Total(new) \in Int /\ Total(b.owned) \in Int
               /\ CutOff(a, b) \in Int /\ -CutOff(a, b) <= gone /\ gone <= CutOff(a, b)
  <1> DEFINE over == Actions[a].over  under == Actions[a].under  owned == b.owned
             new == [s \in Holders |-> Scaled(a, owned[s])]
             most == [s \in Holders |-> IF (owned[s] * over) % under = 0 THEN 0 ELSE under - 1]
             grown == [s \in Holders |-> over * owned[s]]
             taken == [s \in Holders |-> (-under) * new[s]]
             gone == [s \in Holders |-> grown[s] + taken[s]]
             least == [s \in Holders |-> (-1) * most[s]]
  <1>1. over \in Nat \ {0} /\ under \in Nat \ {0} /\ IsFiniteSet(Holders)
    BY DEF TradesAreWhole
  <1>2. owned \in [Holders -> Int] /\ new \in [Holders -> Int]
    BY ScaledIs
  <1>3. \A s \in Holders : most[s] = IF ScalesEvenly(a, owned[s]) THEN 0 ELSE under - 1
    BY DEF ScalesEvenly
  <1>4. \A s \in Holders : /\ -most[s] <= over * owned[s] - under * new[s]
                            /\ over * owned[s] - under * new[s] <= most[s]
    BY <1>2, <1>3, ScaledIs
  <1>5. \A s \in Holders : most[s] \in Int
    BY <1>1
  <1>6. /\ Total(owned) = SumOf(owned, Holders) /\ Total(new) = SumOf(new, Holders)
        /\ CutOff(a, b) = SumOf(most, Holders)
    BY <1>2 DEF Total, SumOf, CutOff
  <1> HIDE DEF over, under, owned, new, most
  <1>7. /\ SumOf(owned, Holders) \in Int /\ SumOf(new, Holders) \in Int
        /\ SumOf(most, Holders) \in Int
    BY <1>1, <1>2, <1>5, SumOfParts
  <1>8. \A s \in Holders : /\ grown[s] \in Int /\ taken[s] \in Int
                            /\ taken[s] = -(under * new[s])
    BY <1>1, <1>2
  <1>9. SumOf(grown, Holders) = over * SumOf(owned, Holders)
    BY <1>1, <1>2, SumScales
  <1>10. SumOf(taken, Holders) = (-under) * SumOf(new, Holders)
    BY <1>1, <1>2, SumScales
  <1>11. SumOf(least, Holders) = (-1) * SumOf(most, Holders)
    BY <1>1, <1>5, SumScales
  <1>12. \A s \in Holders : gone[s] \in Int /\ gone[s] = over * owned[s] - under * new[s]
    BY <1>1, <1>2, <1>8
  <1>13. SumOf(gone, Holders) = SumOf(grown, Holders) + SumOf(taken, Holders)
    <2>1. Adds(gone, grown, taken, Holders, Holders) /\ Holders \intersect Holders = Holders
      BY <1>8 DEF Adds
    <2> HIDE DEF gone, grown, taken
    <2>2. SumOf(gone, Holders) = SumOf(grown, Holders) + SumOf(taken, Holders \intersect Holders)
      BY <1>1, <2>1, SumPlus
    <2> QED BY <2>1, <2>2
  <1>14. \A s \in Holders : /\ least[s] \in Int /\ least[s] <= gone[s] /\ gone[s] <= most[s]
    BY <1>4, <1>5, <1>12
  <1> HIDE DEF gone, grown, taken, least
  <1>15. SumOf(gone, Holders) <= SumOf(most, Holders)
    BY <1>1, <1>5, <1>12, <1>14, SumGrows
  <1>16. SumOf(least, Holders) <= SumOf(gone, Holders)
    BY <1>1, <1>12, <1>14, SumGrows
  <1>17. (-under) * SumOf(new, Holders) = -(under * SumOf(new, Holders))
    BY <1>1, <1>7
  <1>18. over * SumOf(owned, Holders) \in Int /\ under * SumOf(new, Holders) \in Int
    BY <1>1, <1>7
  <1>19. SumOf(gone, Holders) = over * SumOf(owned, Holders) - under * SumOf(new, Holders)
    BY <1>9, <1>10, <1>13, <1>17, <1>18
  <1>20. /\ -SumOf(most, Holders) <= over * SumOf(owned, Holders) - under * SumOf(new, Holders)
         /\ over * SumOf(owned, Holders) - under * SumOf(new, Holders) <= SumOf(most, Holders)
    BY <1>7, <1>11, <1>15, <1>16, <1>18, <1>19
  <1> QED BY <1>2, <1>6, <1>7, <1>20 DEF over, under, owned, new

-----------------------------------------------------------------------------
(* The accounts.                                                            *)
LEMMA Terms ==
    ASSUME TradesAreWhole
    PROVE  /\ \A o \in Orders : UnitsOf[o] \in Int /\ CostOf[o] \in Int
           /\ \A a \in DOMAIN Actions : \A q \in Int : Scaled(a, q) \in Int /\ Paid(a, q) \in Int
           /\ \A n \in Notices : GainOf[n] \in Int /\ PaymentOf[n] \in Int
           /\ Total(Shares) \in Int
  <1>1. \A o \in Orders : UnitsOf[o] \in Int /\ CostOf[o] \in Int
    BY Products DEF TradesAreWhole, UnitsOf, CostOf
  <1>2. ASSUME NEW a \in DOMAIN Actions, NEW q \in Int
        PROVE  Scaled(a, q) \in Int /\ Paid(a, q) \in Int
    <2>1. Actions[a].payment \in Int
      BY DEF TradesAreWhole
    <2>2. q * Actions[a].payment \in Int
      BY <2>1, Products
    <2> QED BY <2>2, ScaledIs DEF Paid
  <1>3. \A n \in Notices : GainOf[n] \in Int /\ PaymentOf[n] \in Int
    BY <1>2 DEF Notices, GainOf, PaymentOf
  <1>4. Total(Shares) = SumOf(Shares, Holders)
    BY DEF Total, SumOf, Holders
  <1>5. SumOf(Shares, Holders) \in Int
    BY SumOfParts DEF TradesAreWhole
  <1> QED BY <1>1, <1>2, <1>3, <1>4, <1>5

LEMMA AccountsAreWhole ==
    ASSUME TradesAreWhole, NEW executions \in SUBSET Orders, NEW notices \in SUBSET Notices,
           IsFiniteSet(notices)
    PROVE  PositionAfter(executions, notices) \in Int /\ CashAfter(executions, notices) \in Int
  <1>1. IsFiniteSet(executions)
    BY FS_Subset DEF TradesAreWhole
  <1>2. SumOf(UnitsOf, executions) \in Int /\ SumOf(CostOf, executions) \in Int
    BY <1>1, Terms, SumOfParts
  <1>3. SumOf(GainOf, notices) \in Int /\ SumOf(PaymentOf, notices) \in Int
    BY Terms, SumOfParts
  <1> QED BY <1>2, <1>3, Terms DEF PositionAfter, CashAfter

LEMMA ExecutionCounts ==
    ASSUME TradesAreWhole, NEW executions \in SUBSET Orders, NEW notices \in SUBSET Notices,
           IsFiniteSet(notices), NEW o \in Orders \ executions
    PROVE  /\ PositionAfter(executions \union {o}, notices)
                 = PositionAfter(executions, notices) + Trades[o].units
           /\ CashAfter(executions \union {o}, notices)
                 = CashAfter(executions, notices) - Trades[o].units * Trades[o].price
  <1>1. IsFiniteSet(executions)
    BY FS_Subset DEF TradesAreWhole
  <1>2. /\ SumOf(UnitsOf, executions \union {o}) = SumOf(UnitsOf, executions) + UnitsOf[o]
        /\ SumOf(CostOf, executions \union {o}) = SumOf(CostOf, executions) + CostOf[o]
    BY <1>1, Terms, SumWith
  <1>3. UnitsOf[o] = Trades[o].units /\ CostOf[o] = Trades[o].units * Trades[o].price
    BY DEF UnitsOf, CostOf
  <1>4. /\ SumOf(UnitsOf, executions) \in Int /\ SumOf(CostOf, executions) \in Int
        /\ UnitsOf[o] \in Int /\ CostOf[o] \in Int
    BY <1>1, Terms, SumOfParts
  <1>5. SumOf(GainOf, notices) \in Int /\ SumOf(PaymentOf, notices) \in Int
    BY Terms, SumOfParts
  <1> QED BY <1>2, <1>3, <1>4, <1>5, Terms DEF PositionAfter, CashAfter

LEMMA NoticeCounts ==
    ASSUME TradesAreWhole, NEW executions \in SUBSET Orders, NEW notices \in SUBSET Notices,
           IsFiniteSet(notices), NEW n \in Notices \ notices
    PROVE  /\ PositionAfter(executions, notices \union {n})
                 = PositionAfter(executions, notices) - n.held + Scaled(n.action, n.held)
           /\ CashAfter(executions, notices \union {n})
                 = CashAfter(executions, notices) + Paid(n.action, n.held)
  <1>1. IsFiniteSet(executions)
    BY FS_Subset DEF TradesAreWhole
  <1>2. /\ SumOf(GainOf, notices \union {n}) = SumOf(GainOf, notices) + GainOf[n]
        /\ SumOf(PaymentOf, notices \union {n}) = SumOf(PaymentOf, notices) + PaymentOf[n]
    BY Terms, SumWith
  <1>3. GainOf[n] = Scaled(n.action, n.held) - n.held /\ PaymentOf[n] = Paid(n.action, n.held)
    BY DEF GainOf, PaymentOf
  <1>4. SumOf(UnitsOf, executions) \in Int /\ SumOf(CostOf, executions) \in Int
    BY <1>1, Terms, SumOfParts
  <1>5. /\ SumOf(GainOf, notices) \in Int /\ SumOf(PaymentOf, notices) \in Int
        /\ Scaled(n.action, n.held) \in Int /\ n.held \in Int /\ Paid(n.action, n.held) \in Int
    BY Terms, SumOfParts DEF Notices
  <1> QED BY <1>2, <1>3, <1>4, <1>5, Terms DEF PositionAfter, CashAfter

-----------------------------------------------------------------------------
(* What the service books.                                                  *)
LEMMA RecordChanges ==
    ASSUME books \in BookRecords, NEW quantity \in Int, NEW owned \in [Holders -> Int],
           NEW cash \in Int, NEW booked \in SUBSET Orders, NEW applied \in SUBSET Notices
    PROVE  [books EXCEPT !.quantity = quantity, !.owned = owned, !.cash = cash,
                         !.booked = booked, !.receipts = applied] \in BookRecords
  BY DEF BookRecords

LEMMA FillIsKept ==
    ASSUME TradesAreWhole, books \in BookRecords,
           IsFiniteSet(broker.notices), broker.notices \subseteq Notices,
           BooksKept(books, broker.notices), NEW o \in Orders \ books.booked
    PROVE  /\ WithFill(o) \in BookRecords /\ BooksKept(WithFill(o), broker.notices)
           /\ Unowned(WithFill(o)) = Unowned(books)
  <1> DEFINE new == WithFill(o)  holder == Trades[o].strategy  units == Trades[o].units
  <1>1. holder \in Holders /\ units \in Int /\ units * Trades[o].price \in Int
    BY Products DEF TradesAreWhole
  <1>2. /\ new.booked = books.booked \union {o} /\ new.receipts = books.receipts
        /\ new.days = books.days /\ new.placed = books.placed
        /\ new.quantity = books.quantity + units
        /\ new.cash = books.cash - units * Trades[o].price
        /\ new.owned = [books.owned EXCEPT ![holder] = @ + units]
    BY DEF WithFill, BookRecords
  <1>3. new \in BookRecords
    <2> DEFINE quantity == books.quantity + units
               owned == [books.owned EXCEPT ![holder] = @ + units]
               cash == books.cash - units * Trades[o].price
               booked == books.booked \union {o}
    <2>1. new = [books EXCEPT !.quantity = quantity, !.owned = owned, !.cash = cash,
                              !.booked = booked, !.receipts = books.receipts]
      BY DEF WithFill, BookRecords
    <2>2. /\ quantity \in Int /\ owned \in [Holders -> Int] /\ cash \in Int
          /\ booked \in SUBSET Orders /\ books.receipts \in SUBSET Notices
      BY <1>1 DEF BookRecords
    <2> HIDE DEF new, quantity, owned, cash, booked
    <2> QED BY <2>1, <2>2, RecordChanges
  <1>4. books.receipts \subseteq Notices /\ IsFiniteSet(books.receipts)
    BY FS_Subset DEF BooksKept
  <1>5. books.booked \in SUBSET Orders /\ books.owned \in [Holders -> Int]
    BY DEF BooksKept
  <1>6. /\ new.quantity = PositionAfter(new.booked, new.receipts)
        /\ new.cash = CashAfter(new.booked, new.receipts)
    <2>1. /\ PositionAfter(books.booked \union {o}, books.receipts)
                = PositionAfter(books.booked, books.receipts) + Trades[o].units
          /\ CashAfter(books.booked \union {o}, books.receipts)
                = CashAfter(books.booked, books.receipts) - Trades[o].units * Trades[o].price
      BY <1>4, <1>5, ExecutionCounts
    <2> QED BY <1>2, <2>1 DEF BooksKept
  <1>7. new.owned \in [Holders -> Int] /\ Unowned(new) = Unowned(books)
    <2>1. new.owned \in [Holders -> Int]
      BY <1>1, <1>2, <1>5
    <2>2. IsFiniteSet(Holders)
      BY DEF TradesAreWhole
    <2>3. \A s \in Holders : s # holder => books.owned[s] = new.owned[s]
      BY <1>2, <1>5
    <2>4. SumOf(new.owned, Holders)
            = SumOf(books.owned, Holders) - books.owned[holder] + new.owned[holder]
      BY <1>1, <1>5, <2>1, <2>2, <2>3, SumChange
    <2>5. SumOf(books.owned, Holders) \in Int
      BY <1>5, <2>2, SumOfParts
    <2>6. new.owned[holder] = books.owned[holder] + units /\ books.owned[holder] \in Int
      BY <1>1, <1>2, <1>5
    <2>7. /\ Total(new.owned) = SumOf(new.owned, Holders)
          /\ Total(books.owned) = SumOf(books.owned, Holders)
      BY <1>5, <2>1 DEF Total, SumOf
    <2>8. new.quantity = books.quantity + units /\ books.quantity \in Int
      BY <1>2 DEF BookRecords
    <2> HIDE DEF new, holder, units
    <2> QED BY <1>1, <2>1, <2>4, <2>5, <2>6, <2>7, <2>8 DEF Unowned
  <1> QED
    <2>1. new.booked \subseteq Orders /\ new.receipts \subseteq broker.notices
      BY <1>2, <1>5 DEF BooksKept
    <2>2. Splits(new.receipts) = {} => Unowned(new) = 0
      BY <1>2, <1>7 DEF BooksKept
    <2> HIDE DEF new
    <2> QED BY <1>3, <1>6, <1>7, <2>1, <2>2 DEF BooksKept, new

WithAction(n) ==
    [AfterAction(n.action) EXCEPT !.receipts = @ \union {Receipt(n.action, n.held)}]

LEMMA ActionIsKept ==
    ASSUME TradesAreWhole, books \in BookRecords, VenueKept(broker),
           broker.notices \subseteq Notices, BooksKept(books, broker.notices),
           NEW n \in broker.notices, Applicable(n.action, n.held)
    PROVE  /\ WithAction(n) \in BookRecords /\ BooksKept(WithAction(n), broker.notices)
           /\ WithAction(n).receipts = books.receipts \union {n}
           /\ Actions[n.action].kind # "SPLIT" => Unowned(WithAction(n)) = Unowned(books)
           /\ LET gone == Actions[n.action].under * Unowned(WithAction(n))
                             - Actions[n.action].over * Unowned(books)
              IN  -CutOff(n.action, books) <= gone /\ gone <= CutOff(n.action, books)
  <1> DEFINE new == WithAction(n)  a == n.action
             over == Actions[a].over  under == Actions[a].under
  <1>1. /\ n \in Notices /\ a \in DOMAIN Actions /\ n.held \in Int
        /\ n = Receipt(a, n.held) /\ books.quantity = n.held /\ n \notin books.receipts
    BY DEF Notices, Receipt, Applicable, Applied
  <1>2. books.owned \in [Holders -> Int]
    BY DEF BooksKept
  <1>3. \A s \in Holders : Scaled(a, books.owned[s]) \in Int
    BY <1>1, <1>2, ScaledIs
  <1>4. /\ new.booked = books.booked /\ new.receipts = books.receipts \union {n}
        /\ new.days = books.days
        /\ new.quantity = Scaled(a, n.held) /\ new.cash = books.cash + Paid(a, n.held)
        /\ new.owned = [s \in Holders |-> Scaled(a, books.owned[s])]
    BY <1>1 DEF WithAction, AfterAction, BookRecords
  <1>5. new \in BookRecords
    <2>1. Scaled(a, n.held) \in Int /\ Paid(a, n.held) \in Int
      BY <1>1, Terms
    <2>2. new.owned \in [Holders -> Int]
      BY <1>3, <1>4
    <2> DEFINE quantity == Scaled(a, n.held)  owned == new.owned
               cash == books.cash + Paid(a, n.held)  applied == books.receipts \union {n}
    <2>3. new = [books EXCEPT !.quantity = quantity, !.owned = owned, !.cash = cash,
                              !.booked = books.booked, !.receipts = applied]
      BY <1>1 DEF WithAction, AfterAction, BookRecords
    <2>4. /\ quantity \in Int /\ owned \in [Holders -> Int] /\ cash \in Int
          /\ books.booked \in SUBSET Orders /\ applied \in SUBSET Notices
      BY <1>1, <2>1, <2>2 DEF BookRecords
    <2> HIDE DEF new, quantity, owned, cash, applied
    <2> QED BY <2>3, <2>4, RecordChanges
  <1>6. books.receipts \in SUBSET Notices /\ IsFiniteSet(books.receipts)
    BY FS_Subset DEF BooksKept, VenueKept
  <1>7. /\ new.quantity = PositionAfter(new.booked, new.receipts)
        /\ new.cash = CashAfter(new.booked, new.receipts)
    <2>1. books.booked \in SUBSET Orders
      BY DEF BooksKept
    <2>2. /\ PositionAfter(books.booked, books.receipts \union {n})
                = PositionAfter(books.booked, books.receipts) - n.held + Scaled(a, n.held)
          /\ CashAfter(books.booked, books.receipts \union {n})
                = CashAfter(books.booked, books.receipts) + Paid(a, n.held)
      BY <1>1, <1>6, <2>1, NoticeCounts
    <2>3. /\ PositionAfter(books.booked, books.receipts) = n.held
          /\ CashAfter(books.booked, books.receipts) = books.cash
      BY <1>1 DEF BooksKept
    <2>4. Scaled(a, n.held) \in Int
      BY <1>1, Terms
    <2> HIDE DEF new, a
    <2> QED BY <1>1, <1>4, <2>2, <2>3, <2>4
  <1>8. new.owned \in [Holders -> Int]
    BY <1>3, <1>4
  <1>9. ASSUME Actions[a].kind # "SPLIT" PROVE Unowned(new) = Unowned(books)
    <2>1. over = 1 /\ under = 1
      BY <1>1, <1>9 DEF TradesAreWhole
    <2>2. \A q \in Int : Scaled(a, q) = q
      <3>1. \A q \in Int : (q * 1) \div 1 = q /\ -(-q) = q /\ -q \in Int
        OBVIOUS
      <3> QED BY <2>1, <3>1 DEF Scaled
    <2>3. new.owned = books.owned
      BY <1>2, <1>4, <1>8, <2>2
    <2>4. new.quantity = books.quantity
      BY <1>1, <1>4, <2>2
    <2> HIDE DEF new
    <2> QED BY <2>3, <2>4 DEF Unowned
  <1>10. LET gone == under * Unowned(new) - over * Unowned(books)
         IN  -CutOff(a, books) <= gone /\ gone <= CutOff(a, books)
    <2>1. under * Scaled(a, n.held) = over * n.held /\ Scaled(a, n.held) \in Int
      <3>1. ScalesEvenly(a, n.held)
        BY DEF VenueKept
      <3>2. over \in Int /\ under \in Int
        BY <1>1 DEF TradesAreWhole
      <3>3. over * n.held \in Int /\ under * Scaled(a, n.held) \in Int
        BY <1>1, <3>2, ScaledIs, Products
      <3> QED BY <1>1, <3>1, <3>3, ScaledIs
    <2>2. /\ Total(new.owned) \in Int /\ Total(books.owned) \in Int /\ CutOff(a, books) \in Int
          /\ -CutOff(a, books) <= over * Total(books.owned) - under * Total(new.owned)
          /\ over * Total(books.owned) - under * Total(new.owned) <= CutOff(a, books)
      BY <1>1, <1>2, <1>4, SharesScale
    <2>3. over \in Int /\ under \in Int
      BY <1>1 DEF TradesAreWhole
    <2>4. Unowned(new) = Scaled(a, n.held) - Total(new.owned)
          /\ Unowned(books) = n.held - Total(books.owned)
      BY <1>1, <1>4 DEF Unowned
    <2> DEFINE x == Scaled(a, n.held)  y == Total(new.owned)  z == Total(books.owned)
    <2> HIDE DEF new, over, under, a, x, y, z
    <2>5. /\ under * (x - y) = under * x - under * y /\ over * (n.held - z) = over * n.held - over * z
          /\ under * x \in Int /\ under * y \in Int /\ over * n.held \in Int /\ over * z \in Int
      <3>1. x \in Int /\ y \in Int /\ z \in Int /\ n.held \in Int
        BY <1>1, <2>1, <2>2 DEF x, y, z
      <3> QED BY <2>3, <3>1
    <2>6. under * x = over * n.held
      BY <2>1 DEF x
    <2>7. under * Unowned(new) - over * Unowned(books) = over * z - under * y
      BY <2>4, <2>5, <2>6 DEF x, y, z
    <2> QED BY <2>2, <2>7 DEF y, z
  <1>11. BooksKept(new, broker.notices)
    <2>1. new.booked \subseteq Orders /\ new.receipts \subseteq broker.notices
      BY <1>4 DEF BooksKept
    <2>2. ASSUME Splits(new.receipts) = {} PROVE Unowned(new) = 0
      <3>1. Actions[a].kind # "SPLIT" /\ Splits(books.receipts) = {}
        BY <1>4, <2>2 DEF Splits
      <3> QED BY <1>9, <3>1 DEF BooksKept
    <2> HIDE DEF new
    <2> QED BY <1>7, <1>8, <2>1, <2>2 DEF BooksKept
  <1> QED BY <1>4, <1>5, <1>9, <1>10, <1>11

-----------------------------------------------------------------------------
(* What the venue does.                                                     *)
LEMMA AccountChanges ==
    ASSUME NEW v \in Accounts, NEW quantity \in Int, NEW cash \in Int,
           NEW executed \in SUBSET Orders, NEW settled \in SUBSET DOMAIN Actions
    PROVE  [v EXCEPT !.executed = executed, !.settled = settled, !.quantity = quantity,
                     !.cash = cash] \in Accounts
  BY DEF Accounts

LEMMA ExecutionAtVenue ==
    ASSUME TradesAreWhole, NEW v \in Accounts, VenueKept(v), NEW o \in Orders \ v.executed
    PROVE  LET w == [v EXCEPT !.executed = @ \union {o}, !.quantity = @ + Trades[o].units,
                              !.cash = @ - Trades[o].units * Trades[o].price]
           IN  w \in Accounts /\ VenueKept(w) /\ w.notices = v.notices
  <1> DEFINE w == [v EXCEPT !.executed = @ \union {o}, !.quantity = @ + Trades[o].units,
                            !.cash = @ - Trades[o].units * Trades[o].price]
  <1>1. Trades[o].units \in Int /\ Trades[o].units * Trades[o].price \in Int
    BY Products DEF TradesAreWhole
  <1>2. /\ w.executed = v.executed \union {o} /\ w.notices = v.notices /\ w.settled = v.settled
        /\ w.quantity = v.quantity + Trades[o].units
        /\ w.cash = v.cash - Trades[o].units * Trades[o].price
    BY DEF Accounts
  <1>3. w \in Accounts
    <2> DEFINE quantity == v.quantity + Trades[o].units
               cash == v.cash - Trades[o].units * Trades[o].price
               executed == v.executed \union {o}
    <2>1. w = [v EXCEPT !.executed = executed, !.settled = v.settled, !.quantity = quantity,
                        !.cash = cash]
      BY DEF Accounts
    <2>2. /\ quantity \in Int /\ cash \in Int /\ executed \in SUBSET Orders
          /\ v.settled \in SUBSET DOMAIN Actions
      BY <1>1 DEF Accounts
    <2> HIDE DEF w, quantity, cash, executed
    <2> QED BY <2>1, <2>2, AccountChanges
  <1>4. SettledBy(w) = SettledBy(v) /\ SettledBy(v) \in SUBSET Notices /\ IsFiniteSet(SettledBy(v))
    BY <1>2, FS_Subset DEF SettledBy, VenueKept, Accounts
  <1>5. v.executed \in SUBSET Orders
    BY DEF Accounts
  <1>6. /\ PositionAfter(v.executed \union {o}, SettledBy(v))
              = PositionAfter(v.executed, SettledBy(v)) + Trades[o].units
        /\ CashAfter(v.executed \union {o}, SettledBy(v))
              = CashAfter(v.executed, SettledBy(v)) - Trades[o].units * Trades[o].price
    BY <1>4, <1>5, ExecutionCounts
  <1> HIDE DEF w
  <1>7. VenueKept(w)
    BY <1>2, <1>4, <1>6 DEF VenueKept
  <1> QED BY <1>2, <1>3, <1>7 DEF w

LEMMA SettlementAtVenue ==
    ASSUME TradesAreWhole, NEW v \in Accounts, VenueKept(v), NEW n \in v.notices,
           n.action \notin v.settled
    PROVE  LET w == [v EXCEPT !.settled = @ \union {n.action},
                              !.quantity = @ - n.held + Scaled(n.action, n.held),
                              !.cash = @ + Paid(n.action, n.held)]
           IN  w \in Accounts /\ VenueKept(w) /\ w.notices = v.notices
  <1> DEFINE w == [v EXCEPT !.settled = @ \union {n.action},
                            !.quantity = @ - n.held + Scaled(n.action, n.held),
                            !.cash = @ + Paid(n.action, n.held)]
  <1>1. /\ n \in Notices /\ n.action \in DOMAIN Actions /\ n.held \in Int
        /\ Scaled(n.action, n.held) \in Int /\ Paid(n.action, n.held) \in Int
    BY Terms DEF Accounts, Notices
  <1>2. /\ w.executed = v.executed /\ w.notices = v.notices
        /\ w.settled = v.settled \union {n.action}
        /\ w.quantity = v.quantity - n.held + Scaled(n.action, n.held)
        /\ w.cash = v.cash + Paid(n.action, n.held)
    BY DEF Accounts
  <1>3. w \in Accounts
    <2> DEFINE quantity == v.quantity - n.held + Scaled(n.action, n.held)
               cash == v.cash + Paid(n.action, n.held)
               settled == v.settled \union {n.action}
    <2>1. w = [v EXCEPT !.executed = v.executed, !.settled = settled, !.quantity = quantity,
                        !.cash = cash]
      BY DEF Accounts
    <2>2. /\ quantity \in Int /\ cash \in Int /\ settled \in SUBSET DOMAIN Actions
          /\ v.executed \in SUBSET Orders
      BY <1>1 DEF Accounts
    <2> HIDE DEF w, quantity, cash, settled
    <2> QED BY <2>1, <2>2, AccountChanges
  <1>4. /\ SettledBy(v) \in SUBSET Notices /\ IsFiniteSet(SettledBy(v))
        /\ SettledBy(w) = SettledBy(v) \union {n} /\ n \notin SettledBy(v)
    BY <1>2, FS_Subset DEF SettledBy, VenueKept, Accounts
  <1>5. v.executed \in SUBSET Orders
    BY DEF Accounts
  <1>6. /\ PositionAfter(v.executed, SettledBy(v) \union {n})
              = PositionAfter(v.executed, SettledBy(v)) - n.held + Scaled(n.action, n.held)
        /\ CashAfter(v.executed, SettledBy(v) \union {n})
              = CashAfter(v.executed, SettledBy(v)) + Paid(n.action, n.held)
    <2>1. n \in Notices \ SettledBy(v)
      BY <1>1, <1>4
    <2> QED BY ONLY TradesAreWhole, <1>4, <1>5, <2>1, NoticeCounts
  <1> HIDE DEF w
  <1>7. VenueKept(w)
    BY <1>2, <1>4, <1>6 DEF VenueKept
  <1> QED BY <1>2, <1>3, <1>7 DEF w

LEMMA AnnouncementAtVenue ==
    ASSUME NEW v \in Accounts, VenueKept(v), NEW a \in DOMAIN Actions,
           \A n \in v.notices : n.action # a, ScalesEvenly(a, v.quantity)
    PROVE  LET w == [v EXCEPT !.notices = @ \union {[action |-> a, held |-> v.quantity]}]
           IN  w \in Accounts /\ VenueKept(w) /\ v.notices \subseteq w.notices
  <1> DEFINE n == [action |-> a, held |-> v.quantity]
             w == [v EXCEPT !.notices = @ \union {n}]
  <1>1. n \in Notices /\ n.action = a /\ a \notin v.settled
    BY DEF Accounts, Notices, VenueKept
  <1>2. /\ w.executed = v.executed /\ w.notices = v.notices \union {n}
        /\ w.settled = v.settled /\ w.quantity = v.quantity /\ w.cash = v.cash
    BY DEF Accounts
  <1>3. w \in Accounts
    BY <1>1 DEF Accounts
  <1> HIDE DEF n
  <1>4. SettledBy(w) = SettledBy(v)
    BY <1>1, <1>2 DEF SettledBy
  <1>5. IsFiniteSet(w.notices) /\ \A m \in w.notices : ScalesEvenly(m.action, m.held)
    <2>1. n.action = a /\ n.held = v.quantity
      BY DEF n
    <2> QED BY <1>2, <2>1, FS_AddElement DEF VenueKept
  <1> HIDE DEF w
  <1>6. VenueKept(w)
    BY <1>1, <1>2, <1>4, <1>5 DEF VenueKept
  <1> QED BY <1>2, <1>3, <1>6 DEF w, n

(* Books remain kept when notices are added, days when reports are.         *)
LEMMA MoreIsKnown ==
    ASSUME NEW b, NEW notices, NEW more, notices \subseteq more,
           BooksKept(b, notices)
    PROVE  BooksKept(b, more)
  BY DEF BooksKept

LEMMA MoreIsReported ==
    ASSUME NEW b, NEW found, NEW more, found \subseteq more, NEW confirmed,
           DaysKept(b, found, confirmed)
    PROVE  DaysKept(b, more, confirmed)
  BY DEF DaysKept

LEMMA VenueStep ==
    ASSUME TradesAreWhole, AccountInv, VenueKeeps,
           broker' \in Accounts, VenueKept(broker'), broker.notices \subseteq broker'.notices
    PROVE  AccountInv'
  <1>1. /\ books' = books /\ journal' = journal /\ reports' = reports /\ attested' = attested
        /\ link' = link
    BY DEF VenueKeeps
  <1>2. /\ BooksKept(books, broker'.notices) /\ BooksKept(journal, broker'.notices)
    BY MoreIsKnown DEF AccountInv
  <1>3. /\ books \in BookRecords /\ journal \in BookRecords
        /\ DaysKept(books, reports, attested) /\ DaysKept(journal, reports, attested)
    BY DEF AccountInv
  <1> QED BY <1>1, <1>2, <1>3 DEF AccountInv

-----------------------------------------------------------------------------
(* What the service does.                                                   *)
LEMMA SaveStep ==
    ASSUME AccountInv, NEW new \in BookRecords, Save(new), UNCHANGED broker,
           BooksKept(new, broker.notices), reports \subseteq reports',
           DaysKept(new, reports', attested'), attested \subseteq attested',
           \A d \in attested' \ attested : Saved /\ SessionDay(d, TRUE) \in new.days
    PROVE  AccountInv'
  <1>1. /\ books' = new /\ journal' \in {journal, new} /\ (Saved => journal' = new)
        /\ link' \in [healthy : BOOLEAN, connected : BOOLEAN]
    BY DEF Save, Saved, AccountInv
  <1>2. /\ journal' \in BookRecords /\ BooksKept(journal', broker'.notices)
        /\ BooksKept(books', broker'.notices)
    BY <1>1 DEF AccountInv
  <1>3. DaysKept(journal', reports', attested')
    <2>1. CASE journal' = new
      BY <2>1
    <2>2. CASE journal' = journal /\ ~Saved
      <3>1. attested' = attested
        BY <2>2
      <3>2. DaysKept(journal, reports, attested)
        BY DEF AccountInv
      <3> QED BY <2>2, <3>1, <3>2, MoreIsReported
    <2> QED BY <1>1, <2>1, <2>2
  <1> QED BY <1>1, <1>2, <1>3 DEF AccountInv

(* What leaves position, cash, shares, fills and receipts alone.            *)
LEMMA SameBooks ==
    ASSUME BooksKept(books, broker.notices), NEW new \in BookRecords,
           new.booked = books.booked, new.receipts = books.receipts,
           new.quantity = books.quantity, new.cash = books.cash, new.owned = books.owned
    PROVE  BooksKept(new, broker.notices)
  BY DEF BooksKept, Unowned

LEMMA SameDays ==
    ASSUME AccountInv, NEW new, new.days = books.days, NEW found,
           reports \subseteq found
    PROVE  DaysKept(new, found, attested)
  BY DEF AccountInv, DaysKept

LEMMA AccountStarts ==
    ASSUME TradesAreWhole, EvidenceInit
    PROVE  AccountInv
  <1>1. /\ IsFiniteSet({}) /\ SumOf(UnitsOf, {}) = 0 /\ SumOf(CostOf, {}) = 0
        /\ SumOf(GainOf, {}) = 0 /\ SumOf(PaymentOf, {}) = 0
    BY FS_EmptySet, Terms, SumOfParts
  <1>2. PositionAfter({}, {}) = Total(Shares) /\ CashAfter({}, {}) = 0
    BY <1>1, Terms DEF PositionAfter, CashAfter
  <1>3. broker \in Accounts /\ VenueKept(broker)
    <2>1. SettledBy(broker) = {}
      BY DEF EvidenceInit, SettledBy
    <2>2. broker \in Accounts
      BY Terms DEF EvidenceInit, Accounts
    <2> QED BY <1>1, <1>2, <2>1, <2>2 DEF EvidenceInit, VenueKept
  <1>4. books \in BookRecords
    BY Terms DEF EvidenceInit, BookRecords, TradesAreWhole
  <1>6. BooksKept(books, broker.notices)
    <2>1. Unowned(books) = 0
      BY Terms DEF EvidenceInit, Unowned
    <2> QED BY <1>2, <2>1 DEF EvidenceInit, BooksKept, TradesAreWhole
  <1>7. DaysKept(books, reports, attested)
    BY DEF EvidenceInit, DaysKept
  <1>8. journal = books /\ link \in [healthy : BOOLEAN, connected : BOOLEAN]
    BY DEF EvidenceInit
  <1> QED BY <1>3, <1>4, <1>6, <1>7, <1>8 DEF AccountInv

LEMMA AccountStep ==
    ASSUME TradesAreWhole, AccountInv, EvidenceNext
    PROVE  AccountInv'
  <1> USE DEF AccountInv
  <1>1. /\ IsFiniteSet(broker.notices) /\ broker.notices \subseteq Notices
        /\ broker.executed \subseteq Orders
    BY DEF VenueKept, Accounts
  <1>2. ASSUME NEW o \in Orders, ExecuteAtVenue(o) PROVE AccountInv'
    <2>1. o \in Orders \ broker.executed /\ VenueKeeps
      BY <1>2 DEF ExecuteAtVenue, WorkedByVenue
    <2>2. broker' \in Accounts /\ VenueKept(broker') /\ broker'.notices = broker.notices
      BY <1>2, <2>1, ExecutionAtVenue DEF ExecuteAtVenue
    <2> QED BY <2>1, <2>2, VenueStep
  <1>3. ASSUME NEW o \in Orders, ExpireAtVenue(o) PROVE AccountInv'
    <2>1. /\ broker' = [broker EXCEPT !.expired = @ \union {o}] /\ VenueKeeps
      BY <1>3 DEF ExpireAtVenue
    <2>2. broker' \in Accounts /\ VenueKept(broker') /\ broker'.notices = broker.notices
      BY <2>1 DEF Accounts, VenueKept, SettledBy
    <2> QED BY <2>1, <2>2, VenueStep
  <1>4. ASSUME NEW a \in DOMAIN Actions, Announce(a) PROVE AccountInv'
    <2>1. VenueKeeps
      BY <1>4 DEF Announce
    <2>2. broker' \in Accounts /\ VenueKept(broker') /\ broker.notices \subseteq broker'.notices
      BY <1>4, AnnouncementAtVenue DEF Announce, ScalesEvenly
    <2> QED BY <2>1, <2>2, VenueStep
  <1>5. ASSUME NEW n \in broker.notices, Settle(n) PROVE AccountInv'
    <2>1. VenueKeeps /\ n.action \notin broker.settled
      BY <1>5 DEF Settle
    <2>2. broker' \in Accounts /\ VenueKept(broker') /\ broker'.notices = broker.notices
      BY <1>5, <2>1, SettlementAtVenue DEF Settle
    <2> QED BY <2>1, <2>2, VenueStep
  <1>6. CASE Tick
    BY <1>6, VenueStep DEF Tick
  <1>7. ASSUME NEW o \in Orders, Place(o) PROVE AccountInv'
    <2> DEFINE new == [books EXCEPT !.placed = @ \union {o}]
    <2>1. Save(new) /\ UNCHANGED <<broker, reports, attested>>
      BY <1>7 DEF Place, OwnStep
    <2>2. /\ new \in BookRecords /\ new.booked = books.booked /\ new.receipts = books.receipts
          /\ new.quantity = books.quantity /\ new.cash = books.cash
          /\ new.owned = books.owned /\ new.days = books.days
      BY DEF BookRecords
    <2> HIDE DEF new
    <2> QED BY <2>1, <2>2, SaveStep, SameBooks, SameDays
  <1>8. ASSUME NEW o \in Orders, Book(o) PROVE AccountInv'
    <2> DEFINE new == WithFill(o)
    <2>1. Save(new) /\ UNCHANGED <<broker, reports, attested>> /\ o \in Orders \ books.booked
      BY <1>8 DEF Book, OwnStep
    <2>2. new \in BookRecords /\ BooksKept(new, broker.notices)
      BY <1>1, <2>1, FillIsKept
    <2>3. new.days = books.days
      BY DEF WithFill, BookRecords
    <2> HIDE DEF new
    <2> QED BY <2>1, <2>2, <2>3, SaveStep, SameDays
  <1>9. ASSUME NEW o \in Orders, CloseOrder(o) PROVE AccountInv'
    <2> DEFINE new == [books EXCEPT !.closed = @ \union {o}]
    <2>1. Save(new) /\ UNCHANGED <<broker, reports, attested>>
      BY <1>9 DEF CloseOrder, OwnStep
    <2>2. /\ new \in BookRecords /\ new.booked = books.booked /\ new.receipts = books.receipts
          /\ new.quantity = books.quantity /\ new.cash = books.cash
          /\ new.owned = books.owned /\ new.days = books.days
      BY DEF BookRecords
    <2> HIDE DEF new
    <2> QED BY <2>1, <2>2, SaveStep, SameBooks, SameDays
  <1>10. ASSUME NEW n \in broker.notices, ApplyAction(n) PROVE AccountInv'
    <2> DEFINE new == WithAction(n)
    <2>1. Save(new) /\ UNCHANGED <<broker, reports, attested>> /\ Applicable(n.action, n.held)
      BY <1>10 DEF ApplyAction, OwnStep, WithAction
    <2>2. new \in BookRecords /\ BooksKept(new, broker.notices)
      BY <1>1, <2>1, ActionIsKept
    <2>3. new.days = books.days
      BY DEF WithAction, AfterAction, BookRecords
    <2> HIDE DEF new
    <2> QED BY <2>1, <2>2, <2>3, SaveStep, SameDays
  <1>11. CASE Reconcile
    <2> DEFINE issues == books.unexplained \union Issues
               latest == books.latest + 1
               new == [books EXCEPT !.latest = latest, !.unexplained = issues]
    <2>1. Save(new) /\ UNCHANGED <<broker, attested>> /\ reports \subseteq reports'
      BY <1>11 DEF Reconcile, OwnStep
    <2>0. latest \in Nat /\ issues \in SUBSET {"ORDERS", "POSITION", "CASH"}
      BY DEF BookRecords, Issues
    <2> HIDE DEF latest, issues
    <2>2. /\ new \in BookRecords /\ new.booked = books.booked /\ new.receipts = books.receipts
          /\ new.quantity = books.quantity /\ new.cash = books.cash
          /\ new.owned = books.owned /\ new.days = books.days
      BY <2>0 DEF BookRecords
    <2> HIDE DEF new
    <2>3. BooksKept(new, broker.notices) /\ DaysKept(new, reports', attested)
      BY <2>1, <2>2, SameBooks, SameDays
    <2> QED BY <2>1, <2>2, <2>3, SaveStep
  <1>12. ASSUME NEW issue \in books.unexplained, Explain(issue) PROVE AccountInv'
    <2> DEFINE new == [books EXCEPT !.unexplained = @ \ {issue}]
    <2>1. Save(new) /\ UNCHANGED <<broker, reports, attested>>
      BY <1>12 DEF Explain, OwnStep
    <2>2. /\ new \in BookRecords /\ new.booked = books.booked /\ new.receipts = books.receipts
          /\ new.quantity = books.quantity /\ new.cash = books.cash
          /\ new.owned = books.owned /\ new.days = books.days
      BY DEF BookRecords
    <2> HIDE DEF new
    <2> QED BY <2>1, <2>2, SaveStep, SameBooks, SameDays
  <1>13. ASSUME NEW d \in DOMAIN Closes, NEW r \in reports, RecordSession(d, r)
         PROVE  AccountInv'
    <2> DEFINE day == SessionDay(d, books.unexplained = {})
               new == [books EXCEPT !.days = @ \union {day}]
    <2>1. /\ Save(new) /\ UNCHANGED <<broker, reports>> /\ r.clean /\ r.at >= Closes[d]
          /\ attested' = IF Saved /\ books.unexplained = {} THEN attested \union {d} ELSE attested
      BY <1>13 DEF RecordSession, OwnStep, Creditable
    <2>3. /\ day.session = d /\ (books.unexplained = {} => day = SessionDay(d, TRUE))
          /\ day \in [session : DOMAIN Closes, clean : BOOLEAN]
      BY DEF SessionDay
    <2> HIDE DEF day
    <2>2. /\ new \in BookRecords /\ new.booked = books.booked /\ new.receipts = books.receipts
          /\ new.quantity = books.quantity /\ new.cash = books.cash
          /\ new.owned = books.owned /\ new.days = books.days \union {day}
      BY <2>3 DEF BookRecords
    <2> HIDE DEF new, day
    <2>4. DaysKept(new, reports, attested')
      BY <2>1, <2>2, <2>3 DEF DaysKept
    <2>5. attested \subseteq attested' /\ \A e \in attested' \ attested : Saved /\ SessionDay(e, TRUE) \in new.days
      BY <2>1, <2>2, <2>3
    <2>6. BooksKept(new, broker.notices)
      BY <2>2, SameBooks
    <2> QED BY <2>1, <2>2, <2>4, <2>5, <2>6, SaveStep
  <1>14. CASE RestartAccount
    <2>1. /\ books' = journal /\ link' \in [healthy : BOOLEAN, connected : BOOLEAN]
          /\ UNCHANGED <<journal, broker, reports, attested>>
      BY <1>14 DEF RestartAccount
    <2> QED BY <2>1
  <1>15. CASE LoseSession \/ Connect
    <2>1. /\ link' \in [healthy : BOOLEAN, connected : BOOLEAN]
          /\ UNCHANGED <<books, journal, broker, reports, attested>>
      BY <1>15 DEF LoseSession, Connect
    <2> QED BY <2>1
  <1> QED
    BY <1>2, <1>3, <1>4, <1>5, <1>6, <1>7, <1>8, <1>9, <1>10, <1>11, <1>12, <1>13, <1>14,
       <1>15 DEF EvidenceNext

LEMMA AccountSteps ==
    ASSUME TradesAreWhole, AccountInv,
           [EvidenceNext]_evidenceVars
    PROVE  AccountInv'
  <1>1. CASE UNCHANGED evidenceVars
    BY <1>1 DEF evidenceVars, AccountInv
  <1> QED BY <1>1, AccountStep

(* What was booked and applied determines the account.                      *)
LEMMA AccountAttested ==
    ASSUME TradesAreWhole, AccountInv
    PROVE  AccountIsAttested
  <1>1. Splits(books.receipts) = {} => Unowned(books) = 0
    BY DEF AccountInv, BooksKept
  <1>2. ASSUME books.booked = broker.executed,
               \A n \in broker.notices : n.action \in broker.settled /\ Applied(n.action)
        PROVE  books.quantity = broker.quantity /\ books.cash = broker.cash
    <2>1. books.receipts \subseteq broker.notices
      BY DEF AccountInv, BooksKept
    <2>2. ASSUME NEW n \in broker.notices PROVE n \in books.receipts
      <3>1. PICK r \in books.receipts : r.action = n.action
        BY <1>2 DEF Applied
      <3>2. r = n
        BY <2>1, <3>1 DEF AccountInv, VenueKept
      <3> QED BY <3>1, <3>2
    <2>3. SettledBy(broker) = broker.notices
      BY <1>2 DEF SettledBy
    <2>4. books.receipts = broker.notices
      BY <2>1, <2>2
    <2> QED BY <1>2, <2>3, <2>4 DEF AccountInv, BooksKept, VenueKept
  <1>3. DaysAreEarned
    BY DEF AccountInv, DaysKept, DaysAreEarned
  <1> QED BY <1>1, <1>2, <1>3 DEF AccountIsAttested, BooksConverge

(* What no strategy owns changes with a split only.                         *)
LEMMA SharesStand ==
    ASSUME TradesAreWhole, AccountInv, EvidenceNext
    PROVE  SharesFollow
  <1>1. /\ books \in BookRecords /\ VenueKept(broker) /\ BooksKept(books, broker.notices)
        /\ IsFiniteSet(broker.notices) /\ broker.notices \subseteq Notices
        /\ broker.executed \subseteq Orders
    BY DEF AccountInv, VenueKept, Accounts
  <1>2. ASSUME NEW new, books' = new, new.receipts = books.receipts,
               Unowned(new) = Unowned(books)
        PROVE  SharesFollow
    <2>1. Splits(books'.receipts \ books.receipts) = {}
      BY <1>2 DEF Splits
    <2>2. Unowned(books') = Unowned(books)
      BY <1>2
    <2> QED BY <2>1, <2>2 DEF SharesFollow
  <1>3. ASSUME NEW new, books' = new, new.receipts = books.receipts,
               new.quantity = books.quantity, new.owned = books.owned
        PROVE  SharesFollow
    BY <1>2, <1>3 DEF Unowned
  <1>4. CASE VenueKeeps
    <2>1. PICK b : b = books
      OBVIOUS
    <2> QED BY <1>3, <1>4, <2>1 DEF VenueKeeps
  <1>5. ASSUME NEW o \in Orders, Place(o) \/ CloseOrder(o) PROVE SharesFollow
    <2>1. PICK new : /\ books' = new
                     /\ new \in {[books EXCEPT !.placed = @ \union {o}],
                                 [books EXCEPT !.closed = @ \union {o}]}
      BY <1>5 DEF Place, CloseOrder, Save
    <2> QED BY <1>1, <1>3, <2>1 DEF BookRecords
  <1>6. ASSUME NEW o \in Orders, Book(o) PROVE SharesFollow
    <2>1. books' = WithFill(o) /\ o \in Orders \ books.booked
      BY <1>6 DEF Book, Save
    <2>2. Unowned(WithFill(o)) = Unowned(books)
      BY <1>1, <2>1, FillIsKept
    <2>3. WithFill(o).receipts = books.receipts
      BY <1>1 DEF WithFill, BookRecords
    <2>4. PICK new : new = WithFill(o)
      OBVIOUS
    <2> QED BY <1>2, <2>1, <2>2, <2>3, <2>4
  <1>7. ASSUME NEW n \in broker.notices, ApplyAction(n) PROVE SharesFollow
    <2>1. PICK new : new = WithAction(n)
      OBVIOUS
    <2>2. books' = new /\ Applicable(n.action, n.held)
      BY <1>7, <2>1 DEF ApplyAction, Save, WithAction
    <2>3. /\ new.receipts = books.receipts \union {n}
          /\ Actions[n.action].kind # "SPLIT" => Unowned(new) = Unowned(books)
          /\ LET gone == Actions[n.action].under * Unowned(new)
                            - Actions[n.action].over * Unowned(books)
             IN  -CutOff(n.action, books) <= gone /\ gone <= CutOff(n.action, books)
      BY <1>1, <2>1, <2>2, ActionIsKept
    <2>4. n \notin books.receipts
      BY <2>2 DEF Applicable, Applied
    <2>5. books'.receipts \ books.receipts = {n} /\ Unowned(books') = Unowned(new)
      BY <2>2, <2>3, <2>4
    <2>6. \A r \in Splits({n}) : r = n
      BY DEF Splits
    <2>7. Splits({n}) = {} => Actions[n.action].kind # "SPLIT"
      BY DEF Splits
    <2> QED BY <2>3, <2>5, <2>6, <2>7 DEF SharesFollow
  <1>8. CASE Reconcile
    <2>1. PICK new, issues : /\ books' = new
                             /\ new = [books EXCEPT !.latest = @ + 1, !.unexplained = issues]
      BY <1>8 DEF Reconcile, Save
    <2>2. /\ new.receipts = books.receipts /\ new.quantity = books.quantity
          /\ new.owned = books.owned
      BY <1>1, <2>1 DEF BookRecords
    <2> QED BY <1>3, <2>1, <2>2
  <1>9. ASSUME NEW issue \in books.unexplained, Explain(issue) PROVE SharesFollow
    <2>1. PICK new : books' = new /\ new = [books EXCEPT !.unexplained = @ \ {issue}]
      BY <1>9 DEF Explain, Save
    <2> QED BY <1>1, <1>3, <2>1 DEF BookRecords
  <1>10. ASSUME NEW d \in DOMAIN Closes, NEW r \in reports, RecordSession(d, r)
         PROVE  SharesFollow
    <2>1. PICK new, days : books' = new /\ new = [books EXCEPT !.days = days]
      BY <1>10 DEF RecordSession, Save
    <2> QED BY <1>1, <1>3, <2>1 DEF BookRecords
  <1>11. CASE RestartAccount
    BY <1>11 DEF RestartAccount, SharesFollow
  <1>12. CASE LoseSession \/ Connect
    <2>1. PICK b : b = books
      OBVIOUS
    <2>2. books' = books
      BY <1>12 DEF LoseSession, Connect
    <2> QED BY <1>3, <2>1, <2>2
  <1>13. ASSUME NEW o \in Orders, ExecuteAtVenue(o) \/ ExpireAtVenue(o) PROVE VenueKeeps
    BY <1>13 DEF ExecuteAtVenue, ExpireAtVenue
  <1>14. ASSUME NEW a \in DOMAIN Actions, Announce(a) PROVE VenueKeeps
    BY <1>14 DEF Announce
  <1>15. ASSUME NEW n \in broker.notices, Settle(n) PROVE VenueKeeps
    BY <1>15 DEF Settle
  <1>16. Tick => VenueKeeps
    BY DEF Tick
  <1> QED
    BY <1>4, <1>5, <1>6, <1>7, <1>8, <1>9, <1>10, <1>11, <1>12, <1>13, <1>14, <1>15, <1>16
       DEF EvidenceNext

(* Whatever order executions, late evidence, settlements, repeated requests *)
(* and restarts came in, at the venue and in the service: once all is       *)
(* booked and applied the service holds the venue's position and cash; the  *)
(* strategies' shares make up its position until a split is applied, and    *)
(* nothing but a split takes them apart from it, by less than a unit for    *)
(* each share it rounds (apply_corporate_action, apply_split); and a day    *)
(* recorded as clean stays one a reconciliation found nothing in            *)
(* (record_paper_session, record_live_session).                             *)
THEOREM AccountHolds ==
    ASSUME TradesAreWhole
    PROVE  EvidenceSpec => []AccountIsAttested /\ [][SharesFollow]_evidenceVars
  <1>1. EvidenceInit => AccountInv
    BY AccountStarts
  <1>2. AccountInv /\ [EvidenceNext]_evidenceVars => AccountInv'
    BY AccountSteps
  <1>3. AccountInv => AccountIsAttested
    BY AccountAttested
  <1>4. AccountInv /\ [EvidenceNext]_evidenceVars => [SharesFollow]_evidenceVars
    BY SharesStand
  <1> QED BY <1>1, <1>2, <1>3, <1>4, PTL DEF EvidenceSpec

-----------------------------------------------------------------------------
(* The limits of the portfolio.                                             *)

(* Intents are of whole units of some instruments for one strategy, and     *)
(* prices and limits are numbers.                                           *)
IntentsAreSound ==
    /\ IsFiniteSet(DOMAIN Intents) /\ IsFiniteSet(Instruments) /\ IsFiniteSet(Strategies)
    /\ \A o \in DOMAIN Intents :
          /\ Intents[o].units \in Nat \ {0} /\ Intents[o].strategy \in Strategies
          /\ Intents[o].legs \in [Instruments -> Int]
    /\ FirstSheet \in [Instruments -> Int] /\ Sheets \subseteq [Instruments -> Int]
    /\ Cash \in Nat /\ MaxPosition \in Nat /\ MaxShort \in Nat
    /\ MaxGross \in Int /\ MaxNet \in Int /\ StrategyLimit \in Int /\ MaxDailyLoss \in Int
    /\ MaxDrawdown \in Int /\ Whole \in Nat \ {0} /\ MaxRate \in Int /\ Window \in Int
    /\ DayLength \in Nat \ {0}

OrderRecords ==
    [state : {"NONE", "WORKING", "DONE"}, filled : Nat, price : Int, at : Int]
RiskRecords ==
    [owned : [Instruments -> [Strategies -> Int]], cash : Int, marks : [Instruments -> Int],
     orders : [DOMAIN Intents -> OrderRecords], peak : Int, day : Int, baseline : Int,
     switches : SUBSET Scopes]

(* Filled units against the state of an order.                              *)
OrdersCounted(r) ==
    \A o \in DOMAIN Intents :
        /\ r.orders[o].filled <= Intents[o].units
        /\ r.orders[o].state = "NONE" => r.orders[o].filled = 0
        /\ Works(r, o) => r.orders[o].filled < Intents[o].units

(* What an order may still fill, and what that does to an instrument.       *)
Left(r, o) == IF Works(r, o) THEN Remaining(r, o) ELSE 0
Moves(r, i) == [o \in DOMAIN Intents |-> Left(r, o) * Intents[o].legs[i]]

(* Positions stay in range however the orders fill, which on an instrument  *)
(* all go one way.                                                          *)
InRange(n) == n \in -MaxShort..MaxPosition
PositionsKept(r) ==
    \A i \in Instruments :
        InRange(Position(r, i)) /\ InRange(Position(r, i) + SumOf(Moves(r, i), DOMAIN Intents))
OneWay(r) ==
    \A o, p \in DOMAIN Intents : \A i \in Instruments :
        Works(r, o) /\ Works(r, p) => Intents[o].legs[i] * Intents[p].legs[i] >= 0

(* At marks m, what the orders of a strategy may add to its gross exposure, *)
(* and all orders to the net exposure, of which c fills completely.         *)
RowsAt(r, m, s, i) ==
    [o \in DOMAIN Intents |->
        IF Intents[o].strategy = s THEN Abs(Moves(r, i)[o] * m[i]) ELSE 0]
GrossAt(r, m, s) ==
    [i \in Instruments |->
        Abs(r.owned[i][s] * m[i]) + SumOf(RowsAt(r, m, s, i), DOMAIN Intents)]
BucketAt(r, m, s) == SumOf(GrossAt(r, m, s), Instruments)

RisesAt(r, m, c, i) ==
    [o \in DOMAIN Intents |->
        IF o = c THEN Moves(r, i)[o] * m[i] ELSE Larger(0, Moves(r, i)[o] * m[i])]
NetAt(r, m, c) ==
    [i \in Instruments |->
        Position(r, i) * m[i] + SumOf(RisesAt(r, m, c, i), DOMAIN Intents)]
HighestAt(r, m, c) == SumOf(NetAt(r, m, c), Instruments)

Opposite(m) == [i \in Instruments |-> -m[i]]

(* The limits hold however the orders fill.  The net exposure is bounded    *)
(* while c can still be completed.                                          *)
ExposureKept(r, m, c) ==
    /\ SumOf([s \in Strategies |-> BucketAt(r, m, s)], Strategies) <= MaxGross
    /\ \A s \in Strategies : BucketAt(r, m, s) <= StrategyLimit
    /\ r.orders[c].filled + Left(r, c) = Intents[c].units =>
          HighestAt(r, m, c) <= MaxNet /\ HighestAt(r, Opposite(m), c) <= MaxNet

(* Between two steps memory and journal share the books, and memory looks   *)
(* back as far as the journal.                                              *)
MemoryLeads ==
    /\ risk.owned = riskDisk.owned /\ risk.cash = riskDisk.cash
    /\ risk.orders = riskDisk.orders /\ risk.switches = riskDisk.switches
    /\ 0 <= riskDisk.peak /\ riskDisk.peak <= risk.peak
    /\ riskDisk.day <= risk.day /\ risk.day <= RiskDay
    /\ riskDisk.day = risk.day => riskDisk.baseline = risk.baseline

BooksAreSound(r) ==
    r \in RiskRecords /\ OrdersCounted(r) /\ PositionsKept(r) /\ OneWay(r)
RulingKept(r, ruling) ==
    \A m \in ruling.marks : /\ m \in [Instruments -> Int] /\ ruling.order \in DOMAIN Intents
                            /\ ExposureKept(r, m, ruling.order)

RiskInv ==
    /\ BooksAreSound(risk) /\ riskDisk \in RiskRecords /\ wall \in Nat
    /\ MemoryLeads /\ RulingKept(risk, ruled)

-----------------------------------------------------------------------------
(* Sums and products.                                                       *)

LEMMA SumOverIs ==
    ASSUME NEW S, NEW f, DOMAIN f = S
    PROVE  SumOver(f) = SumOf(f, S)
  BY DEF SumOver, SumOf

(* A sum over some is one over all in which the others are zero.            *)
LEMMA SumOfChosen ==
    ASSUME NEW S, IsFiniteSet(S), NEW T \in SUBSET S, NEW f, NEW g,
           \A x \in S : f[x] \in Int,
           \A x \in T : f[x] = g[x], \A x \in S \ T : f[x] = 0
    PROVE  SumOf(g, T) = SumOf(f, S)
  <1> DEFINE zero == [x \in S |-> 0]
             own == [x \in S |-> IF x \in T THEN g[x] ELSE 0]
  <1>1. Adds(f, zero, own, T, S)
    BY DEF Adds
  <1>2. \A x \in S : zero[x] = 0
    OBVIOUS
  <1>3. T \intersect S = T /\ IsFiniteSet(T)
    BY FS_Subset
  <1>4. \A x \in T : own[x] \in Int /\ own[x] = g[x]
    OBVIOUS
  <1> HIDE DEF zero, own
  <1>5. SumOf(f, S) = SumOf(zero, S) + SumOf(own, T)
    BY <1>1, <1>3, SumPlus
  <1>6. SumOf(zero, S) = 0
    BY <1>2, SumOfZeros
  <1>7. SumOf(own, T) = SumOf(g, T) /\ SumOf(own, T) \in Int
    BY <1>3, <1>4, SumSame, SumOfParts
  <1> QED BY <1>5, <1>6, <1>7

(* The triangle inequality.                                                 *)
LEMMA SumTriangle ==
    ASSUME NEW S, IsFiniteSet(S), NEW f, NEW g,
           \A x \in S : f[x] \in Int /\ g[x] \in Int /\ f[x] <= g[x] /\ -f[x] <= g[x]
    PROVE  SumOf(f, S) \in Int /\ Abs(SumOf(f, S)) <= SumOf(g, S)
  <1> DEFINE h == [x \in S |-> (-1) * f[x]]
  <1>1. \A x \in S : h[x] \in Int /\ h[x] = (-1) * f[x] /\ h[x] <= g[x]
    OBVIOUS
  <1> HIDE DEF h
  <1>2. SumOf(h, S) = (-1) * SumOf(f, S)
    BY <1>1, SumScales, -1 \in Int
  <1>3. SumOf(h, S) <= SumOf(g, S) /\ SumOf(f, S) <= SumOf(g, S)
    BY <1>1, SumGrows
  <1>4. SumOf(f, S) \in Int /\ SumOf(g, S) \in Int
    BY SumOfParts
  <1> QED BY <1>2, <1>3, <1>4 DEF Abs

LEMMA ProductsAreWhole == \A a, b \in Int : a * b \in Int
  OBVIOUS

LEMMA Reorders ==
    \A a, b, c \in Int : a * b * c = c * (a * b) /\ a * b * c = a * (b * c) /\ a * b = b * a
  OBVIOUS

(* A part of a multiple lies between nothing and all of it.                 *)
LEMMA PartOf ==
    \A k, n, e \in Int : 0 <= k /\ k <= n => /\ e >= 0 => 0 <= k * e /\ k * e <= n * e
                                             /\ e <= 0 => n * e <= k * e /\ k * e <= 0
  OBVIOUS

LEMMA AbsIs == \A a \in Int : Abs(a) \in Nat /\ a <= Abs(a) /\ -a <= Abs(a)
  BY DEF Abs

-----------------------------------------------------------------------------
(* The books are of whole units.                                            *)

LEMMA BooksAreWhole ==
    ASSUME IntentsAreSound, NEW r \in RiskRecords, OrdersCounted(r)
    PROVE  /\ \A o \in DOMAIN Intents :
                 /\ Left(r, o) \in Nat
                 /\ Works(r, o) => Left(r, o) = Remaining(r, o) /\ Left(r, o) > 0
                 /\ ~Works(r, o) => Left(r, o) = 0
                 /\ r.orders[o].filled \in Nat
           /\ \A i \in Instruments :
                 /\ Position(r, i) = SumOf(r.owned[i], Strategies) /\ Position(r, i) \in Int
                 /\ \A s \in Strategies : r.owned[i][s] \in Int
                 /\ \A o \in DOMAIN Intents :
                       /\ Moves(r, i)[o] = Left(r, o) * Intents[o].legs[i]
                       /\ Moves(r, i)[o] \in Int
                 /\ SumOf(Moves(r, i), DOMAIN Intents) \in Int
  <1>1. ASSUME NEW o \in DOMAIN Intents
        PROVE  /\ Left(r, o) \in Nat /\ r.orders[o].filled \in Nat
               /\ Works(r, o) => Left(r, o) = Remaining(r, o) /\ Left(r, o) > 0
               /\ ~Works(r, o) => Left(r, o) = 0
    <2>1. Intents[o].units \in Nat /\ r.orders[o].filled \in Nat
      BY DEF IntentsAreSound, RiskRecords, OrderRecords
    <2>2. Works(r, o) => r.orders[o].filled < Intents[o].units
      BY DEF OrdersCounted
    <2> QED BY <2>1, <2>2 DEF Left, Remaining
  <1>2. ASSUME NEW i \in Instruments
        PROVE  /\ Position(r, i) = SumOf(r.owned[i], Strategies) /\ Position(r, i) \in Int
               /\ \A s \in Strategies : r.owned[i][s] \in Int
    <2>1. r.owned[i] \in [Strategies -> Int]
      BY DEF RiskRecords
    <2>2. DOMAIN r.owned[i] = Strategies /\ \A s \in Strategies : r.owned[i][s] \in Int
      BY <2>1
    <2>3. IsFiniteSet(Strategies)
      BY DEF IntentsAreSound
    <2>4. SumOf(r.owned[i], Strategies) \in Int
      BY <2>2, <2>3, SumOfParts
    <2> QED BY <2>2, <2>4, SumOverIs DEF Position
  <1>3. ASSUME NEW i \in Instruments, NEW o \in DOMAIN Intents
        PROVE  Moves(r, i)[o] = Left(r, o) * Intents[o].legs[i] /\ Moves(r, i)[o] \in Int
    <2>1. Intents[o].legs[i] \in Int /\ Left(r, o) \in Int
      BY <1>1 DEF IntentsAreSound
    <2>2. Moves(r, i)[o] = Left(r, o) * Intents[o].legs[i]
      BY DEF Moves
    <2> QED BY <2>1, <2>2, ProductsAreWhole
  <1>4. ASSUME NEW i \in Instruments PROVE SumOf(Moves(r, i), DOMAIN Intents) \in Int
    <2>1. IsFiniteSet(DOMAIN Intents)
      BY DEF IntentsAreSound
    <2> QED BY <1>3, <2>1, SumOfParts
  <1> QED BY <1>1, <1>2, <1>3, <1>4

Sheet == [Instruments -> Int]

LEMMA OppositeIsASheet ==
    ASSUME NEW m \in Sheet PROVE Opposite(m) \in Sheet /\ \A i \in Instruments : Opposite(m)[i] = -m[i]
  BY DEF Sheet, Opposite

LEMMA GrossIsWhole ==
    ASSUME IntentsAreSound, NEW r \in RiskRecords, OrdersCounted(r), NEW m \in Sheet,
           NEW s \in Strategies
    PROVE  /\ BucketAt(r, m, s) \in Int
           /\ \A i \in Instruments :
                 /\ GrossAt(r, m, s)[i] \in Int
                 /\ GrossAt(r, m, s)[i] = Abs(r.owned[i][s] * m[i])
                                              + SumOf(RowsAt(r, m, s, i), DOMAIN Intents)
                 /\ SumOf(RowsAt(r, m, s, i), DOMAIN Intents) \in Int
                 /\ \A o \in DOMAIN Intents :
                       /\ RowsAt(r, m, s, i)[o] \in Int
                       /\ RowsAt(r, m, s, i)[o] =
                             IF Intents[o].strategy = s
                             THEN Abs(Moves(r, i)[o] * m[i]) ELSE 0
  <1>1. ASSUME NEW i \in Instruments, NEW o \in DOMAIN Intents
        PROVE  /\ RowsAt(r, m, s, i)[o] \in Int
               /\ RowsAt(r, m, s, i)[o] =
                     IF Intents[o].strategy = s THEN Abs(Moves(r, i)[o] * m[i]) ELSE 0
    <2>1. m[i] \in Int /\ Moves(r, i)[o] \in Int
      BY BooksAreWhole DEF Sheet
    <2>2. Moves(r, i)[o] * m[i] \in Int
      BY <2>1, ProductsAreWhole
    <2>3. Abs(Moves(r, i)[o] * m[i]) \in Int
      BY <2>2, AbsIs
    <2> QED BY <2>3 DEF RowsAt
  <1>2. ASSUME NEW i \in Instruments
        PROVE  /\ SumOf(RowsAt(r, m, s, i), DOMAIN Intents) \in Int
               /\ GrossAt(r, m, s)[i] = Abs(r.owned[i][s] * m[i])
                                              + SumOf(RowsAt(r, m, s, i), DOMAIN Intents)
               /\ GrossAt(r, m, s)[i] \in Int
    <2>1. IsFiniteSet(DOMAIN Intents)
      BY DEF IntentsAreSound
    <2>2. SumOf(RowsAt(r, m, s, i), DOMAIN Intents) \in Int
      BY <1>1, <2>1, SumOfParts
    <2>3. r.owned[i][s] \in Int /\ m[i] \in Int
      BY BooksAreWhole DEF Sheet
    <2>4. Abs(r.owned[i][s] * m[i]) \in Int
      BY <2>3, ProductsAreWhole, AbsIs
    <2> QED BY <2>2, <2>4 DEF GrossAt
  <1>3. BucketAt(r, m, s) \in Int
    <2>1. IsFiniteSet(Instruments)
      BY DEF IntentsAreSound
    <2> QED BY <1>2, <2>1, SumOfParts DEF BucketAt
  <1> QED BY <1>1, <1>2, <1>3

LEMMA NetIsWhole ==
    ASSUME IntentsAreSound, NEW r \in RiskRecords, OrdersCounted(r), NEW m \in Sheet,
           NEW c \in DOMAIN Intents
    PROVE  /\ HighestAt(r, m, c) \in Int
           /\ \A i \in Instruments :
                 /\ NetAt(r, m, c)[i] \in Int
                 /\ NetAt(r, m, c)[i] = Position(r, i) * m[i]
                                            + SumOf(RisesAt(r, m, c, i), DOMAIN Intents)
                 /\ SumOf(RisesAt(r, m, c, i), DOMAIN Intents) \in Int
                 /\ \A o \in DOMAIN Intents :
                       /\ RisesAt(r, m, c, i)[o] \in Int
                       /\ RisesAt(r, m, c, i)[o] =
                             IF o = c THEN Moves(r, i)[o] * m[i]
                                      ELSE Larger(0, Moves(r, i)[o] * m[i])
  <1>1. ASSUME NEW i \in Instruments, NEW o \in DOMAIN Intents
        PROVE  /\ RisesAt(r, m, c, i)[o] \in Int
               /\ RisesAt(r, m, c, i)[o] = IF o = c THEN Moves(r, i)[o] * m[i]
                                                    ELSE Larger(0, Moves(r, i)[o] * m[i])
    <2>1. m[i] \in Int /\ Moves(r, i)[o] \in Int
      BY BooksAreWhole DEF Sheet
    <2>2. Moves(r, i)[o] * m[i] \in Int
      BY <2>1, ProductsAreWhole
    <2>3. Larger(0, Moves(r, i)[o] * m[i]) \in Int
      BY <2>2 DEF Larger
    <2> QED BY <2>2, <2>3 DEF RisesAt
  <1>2. ASSUME NEW i \in Instruments
        PROVE  /\ SumOf(RisesAt(r, m, c, i), DOMAIN Intents) \in Int
               /\ NetAt(r, m, c)[i] = Position(r, i) * m[i]
                                            + SumOf(RisesAt(r, m, c, i), DOMAIN Intents)
               /\ NetAt(r, m, c)[i] \in Int
    <2>1. IsFiniteSet(DOMAIN Intents)
      BY DEF IntentsAreSound
    <2>2. SumOf(RisesAt(r, m, c, i), DOMAIN Intents) \in Int
      BY <1>1, <2>1, SumOfParts
    <2>3. Position(r, i) \in Int /\ m[i] \in Int
      BY BooksAreWhole DEF Sheet
    <2>4. Position(r, i) * m[i] \in Int
      BY <2>3, ProductsAreWhole
    <2> QED BY <2>2, <2>4 DEF NetAt
  <1>3. HighestAt(r, m, c) \in Int
    <2>1. IsFiniteSet(Instruments)
      BY DEF IntentsAreSound
    <2> QED BY <1>2, <2>1, SumOfParts DEF HighestAt
  <1> QED BY <1>1, <1>2, <1>3

-----------------------------------------------------------------------------
(* A fill, or the end of an order.                                          *)

(* Of what was left, d units fill and the rest shrinks or stays.            *)
Progresses(r, q, o, d) ==
    /\ Works(r, o) /\ d \in Nat /\ d + Left(q, o) <= Left(r, o)
    /\ \A i \in Instruments : \A s \in Strategies :
          q.owned[i][s] = r.owned[i][s]
                              + IF s = Intents[o].strategy THEN d * Intents[o].legs[i] ELSE 0
    /\ q.orders[o].filled = r.orders[o].filled + d
    /\ \A p \in DOMAIN Intents \ {o} : q.orders[p] = r.orders[p]

LEMMA AbsOfPart ==
    \A a, e \in Int : \A d, k, n \in Nat :
        d + k <= n => Abs(a + d * e) + Abs(k * e) <= Abs(a) + Abs(n * e)
  <1> SUFFICES ASSUME NEW a \in Int, NEW e \in Int, NEW d \in Nat, NEW k \in Nat,
                      NEW n \in Nat, d + k <= n
               PROVE  Abs(a + d * e) + Abs(k * e) <= Abs(a) + Abs(n * e)
    OBVIOUS
  <1> DEFINE x == d * e  y == k * e  z == n * e
  <1>1. x \in Int /\ y \in Int /\ z \in Int
    BY ProductsAreWhole
  <1>2. e >= 0 => 0 <= x /\ 0 <= y /\ x + y <= z
    <2>1. e >= 0 => 0 <= (d + k) * e /\ (d + k) * e <= z
      BY PartOf
    <2>2. (d + k) * e = x + y
      OBVIOUS
    <2>3. e >= 0 => 0 <= x /\ 0 <= y
      BY PartOf
    <2> HIDE DEF x, y, z
    <2> QED BY <1>1, <2>1, <2>2, <2>3
  <1>3. e <= 0 => x <= 0 /\ y <= 0 /\ z <= x + y
    <2>1. e <= 0 => (d + k) * e <= 0 /\ z <= (d + k) * e
      BY PartOf
    <2>2. (d + k) * e = x + y
      OBVIOUS
    <2>3. e <= 0 => x <= 0 /\ y <= 0
      BY PartOf
    <2> HIDE DEF x, y, z
    <2> QED BY <1>1, <2>1, <2>2, <2>3
  <1> HIDE DEF x, y, z
  <1>4. Abs(a + x) + Abs(y) <= Abs(a) + Abs(z)
    BY <1>1, <1>2, <1>3 DEF Abs
  <1> QED BY <1>4 DEF x, y, z

LEMMA RiseOfPart ==
    \A e \in Int : \A d, k, n \in Nat :
        d + k <= n => d * e + Larger(0, k * e) <= Larger(0, n * e)
  <1> SUFFICES ASSUME NEW e \in Int, NEW d \in Nat, NEW k \in Nat, NEW n \in Nat, d + k <= n
               PROVE  d * e + Larger(0, k * e) <= Larger(0, n * e)
    OBVIOUS
  <1> DEFINE x == d * e  y == k * e  z == n * e
  <1>1. x \in Int /\ y \in Int /\ z \in Int
    BY ProductsAreWhole
  <1>2. e >= 0 => 0 <= x /\ 0 <= y /\ x + y <= z
    <2>1. e >= 0 => 0 <= (d + k) * e /\ (d + k) * e <= z
      BY PartOf
    <2>2. (d + k) * e = x + y
      OBVIOUS
    <2>3. e >= 0 => 0 <= x /\ 0 <= y
      BY PartOf
    <2> HIDE DEF x, y, z
    <2> QED BY <1>1, <2>1, <2>2, <2>3
  <1>3. e <= 0 => x <= 0 /\ y <= 0
    BY PartOf
  <1> HIDE DEF x, y, z
  <1>4. x + Larger(0, y) <= Larger(0, z)
    BY <1>1, <1>2, <1>3 DEF Larger
  <1> QED BY <1>4 DEF x, y, z

LEMMA ProgressMoves ==
    ASSUME IntentsAreSound, NEW r \in RiskRecords, OrdersCounted(r),
           NEW q \in RiskRecords, OrdersCounted(q),
           NEW o \in DOMAIN Intents, NEW d, Progresses(r, q, o, d), NEW i \in Instruments
    PROVE  /\ Position(q, i) = Position(r, i) + d * Intents[o].legs[i]
           /\ \A p \in DOMAIN Intents \ {o} :
                 Left(q, p) = Left(r, p) /\ Moves(q, i)[p] = Moves(r, i)[p]
           /\ SumOf(Moves(q, i), DOMAIN Intents)
                 = SumOf(Moves(r, i), DOMAIN Intents) - Moves(r, i)[o] + Moves(q, i)[o]
  <1> DEFINE s == Intents[o].strategy
  <1>1. s \in Strategies /\ Intents[o].legs[i] \in Int /\ d \in Nat
    BY DEF IntentsAreSound, Progresses
  <1>2. /\ IsFiniteSet(DOMAIN Intents) /\ IsFiniteSet(Strategies)
    BY DEF IntentsAreSound
  <1>3. /\ Position(q, i) = SumOf(q.owned[i], Strategies)
        /\ Position(r, i) = SumOf(r.owned[i], Strategies) /\ Position(r, i) \in Int
        /\ \A t \in Strategies : q.owned[i][t] \in Int /\ r.owned[i][t] \in Int
    BY BooksAreWhole
  <1>4. /\ q.owned[i][s] = r.owned[i][s] + d * Intents[o].legs[i]
        /\ \A t \in Strategies : t # s => r.owned[i][t] = q.owned[i][t]
    <2>1. \A t \in Strategies :
             q.owned[i][t] = r.owned[i][t] + IF t = s THEN d * Intents[o].legs[i] ELSE 0
      BY DEF Progresses
    <2> QED BY <1>1, <1>3, <2>1
  <1>5. SumOf(q.owned[i], Strategies)
           = SumOf(r.owned[i], Strategies) - r.owned[i][s] + q.owned[i][s]
    <2>1. DiffersAt(s, r.owned[i], q.owned[i], Strategies)
      BY <1>3, <1>4 DEF DiffersAt
    <2> QED BY <1>1, <1>2, <2>1, SumDiffers
  <1>6. Position(q, i) = Position(r, i) + d * Intents[o].legs[i]
    <2>1. d * Intents[o].legs[i] \in Int
      BY <1>1, ProductsAreWhole
    <2> QED BY <1>1, <1>3, <1>4, <1>5, <2>1
  <1>7. \A p \in DOMAIN Intents \ {o} :
           Left(q, p) = Left(r, p) /\ Moves(q, i)[p] = Moves(r, i)[p]
    BY DEF Progresses, Left, Works, Remaining, Moves
  <1>8. SumOf(Moves(q, i), DOMAIN Intents)
           = SumOf(Moves(r, i), DOMAIN Intents) - Moves(r, i)[o] + Moves(q, i)[o]
    <2>1. \A p \in DOMAIN Intents : Moves(q, i)[p] \in Int /\ Moves(r, i)[p] \in Int
      BY BooksAreWhole
    <2>2. DiffersAt(o, Moves(r, i), Moves(q, i), DOMAIN Intents)
      BY <1>7, <2>1 DEF DiffersAt
    <2> QED BY <1>2, <2>2, SumDiffers
  <1> QED BY <1>6, <1>7, <1>8

LEMMA BucketsShrink ==
    ASSUME IntentsAreSound, NEW r \in RiskRecords, OrdersCounted(r),
           NEW q \in RiskRecords, OrdersCounted(q),
           NEW o \in DOMAIN Intents, NEW d, Progresses(r, q, o, d),
           NEW m \in Sheet, NEW s \in Strategies
    PROVE  BucketAt(q, m, s) <= BucketAt(r, m, s)
  <1>0. IsFiniteSet(DOMAIN Intents) /\ IsFiniteSet(Instruments)
    BY DEF IntentsAreSound
  <1>1. ASSUME NEW i \in Instruments
        PROVE  GrossAt(q, m, s)[i] <= GrossAt(r, m, s)[i]
    <2> DEFINE l == Intents[o].legs[i]  a == r.owned[i][s] * m[i]  e == l * m[i]
               n == Left(r, o)  k == Left(q, o)  mine == s = Intents[o].strategy
               R == SumOf(RowsAt(r, m, s, i), DOMAIN Intents)
               Q == SumOf(RowsAt(q, m, s, i), DOMAIN Intents)
    <2>1. /\ l \in Int /\ m[i] \in Int /\ n \in Nat /\ k \in Nat /\ d \in Nat /\ d + k <= n
          /\ r.owned[i][s] \in Int /\ q.owned[i][s] \in Int
      BY BooksAreWhole DEF IntentsAreSound, Sheet, Progresses
    <2>2. a \in Int /\ e \in Int
      BY <2>1, ProductsAreWhole
    <2>3. /\ R \in Int /\ Q \in Int
          /\ GrossAt(r, m, s)[i] = Abs(a) + R
          /\ GrossAt(q, m, s)[i] = Abs(q.owned[i][s] * m[i]) + Q
          /\ \A p \in DOMAIN Intents :
                RowsAt(r, m, s, i)[p] \in Int /\ RowsAt(q, m, s, i)[p] \in Int
      BY GrossIsWhole
    <2>4. Q = R - RowsAt(r, m, s, i)[o] + RowsAt(q, m, s, i)[o]
      <3>1. \A p \in DOMAIN Intents : p # o => RowsAt(r, m, s, i)[p] = RowsAt(q, m, s, i)[p]
        BY ProgressMoves DEF RowsAt
      <3>2. \A p \in DOMAIN Intents :
               /\ RowsAt(r, m, s, i)[p] \in Int /\ RowsAt(q, m, s, i)[p] \in Int
               /\ (p # o => RowsAt(r, m, s, i)[p] = RowsAt(q, m, s, i)[p])
        BY <2>3, <3>1
      <3> QED BY <1>0, <3>2, SumChange
    <2>5. /\ RowsAt(r, m, s, i)[o] = IF mine THEN Abs(n * e) ELSE 0
          /\ RowsAt(q, m, s, i)[o] = IF mine THEN Abs(k * e) ELSE 0
      <3>1. Moves(r, i)[o] = n * l /\ Moves(q, i)[o] = k * l
        BY BooksAreWhole
      <3>2. n * l * m[i] = n * e /\ k * l * m[i] = k * e
        BY <2>1, Reorders
      <3>3. /\ RowsAt(r, m, s, i)[o] = IF mine THEN Abs(Moves(r, i)[o] * m[i]) ELSE 0
            /\ RowsAt(q, m, s, i)[o] = IF mine THEN Abs(Moves(q, i)[o] * m[i]) ELSE 0
        BY GrossIsWhole
      <3> HIDE DEF e, l, n, k, mine
      <3> QED BY <3>1, <3>2, <3>3
    <2>6. q.owned[i][s] = r.owned[i][s] + IF mine THEN d * l ELSE 0
      BY DEF Progresses
    <2>7. q.owned[i][s] * m[i] = IF mine THEN a + d * e ELSE a
      <3>1. (r.owned[i][s] + d * l) * m[i] = a + d * e
        <4>1. d * l \in Int
          BY <2>1, ProductsAreWhole
        <4>2. d * l * m[i] = d * e
          BY <2>1, Reorders
        <4>3. (r.owned[i][s] + d * l) * m[i] = a + d * l * m[i]
          BY <2>1, <4>1
        <4> QED BY <4>2, <4>3
      <3>2. r.owned[i][s] + 0 = r.owned[i][s]
        BY <2>1
      <3> HIDE DEF e, l, mine
      <3> QED BY <2>6, <3>1, <3>2
    <2>8. Abs(a + d * e) + Abs(k * e) <= Abs(a) + Abs(n * e)
      BY <2>1, <2>2, AbsOfPart
    <2>9. /\ Abs(a + d * e) \in Int /\ Abs(k * e) \in Int /\ Abs(a) \in Int /\ Abs(n * e) \in Int
      <3>1. d * e \in Int /\ k * e \in Int /\ n * e \in Int
        BY <2>1, <2>2, ProductsAreWhole
      <3>2. a + d * e \in Int
        BY <2>2, <3>1
      <3> QED BY <2>2, <3>1, <3>2, AbsIs
    <2> HIDE DEF l, a, e, n, k, mine, R, Q
    <2> QED BY <2>3, <2>4, <2>5, <2>7, <2>8, <2>9
  <1>2. \A i \in Instruments : /\ GrossAt(q, m, s)[i] \in Int /\ GrossAt(r, m, s)[i] \in Int
                               /\ GrossAt(q, m, s)[i] <= GrossAt(r, m, s)[i]
    BY <1>1, GrossIsWhole
  <1> QED BY <1>0, <1>2, SumGrows DEF BucketAt

LEMMA NetShrinks ==
    ASSUME IntentsAreSound, NEW r \in RiskRecords, OrdersCounted(r),
           NEW q \in RiskRecords, OrdersCounted(q),
           NEW o \in DOMAIN Intents, NEW d, Progresses(r, q, o, d),
           NEW m \in Sheet, NEW c \in DOMAIN Intents,
           o = c => d + Left(q, o) = Left(r, o)
    PROVE  HighestAt(q, m, c) <= HighestAt(r, m, c)
  <1>0. IsFiniteSet(DOMAIN Intents) /\ IsFiniteSet(Instruments)
    BY DEF IntentsAreSound
  <1>1. ASSUME NEW i \in Instruments
        PROVE  NetAt(q, m, c)[i] <= NetAt(r, m, c)[i]
    <2> DEFINE l == Intents[o].legs[i]  a == Position(r, i) * m[i]  e == l * m[i]
               n == Left(r, o)  k == Left(q, o)
               R == SumOf(RisesAt(r, m, c, i), DOMAIN Intents)
               Q == SumOf(RisesAt(q, m, c, i), DOMAIN Intents)
    <2>1. /\ l \in Int /\ m[i] \in Int /\ n \in Nat /\ k \in Nat /\ d \in Nat /\ d + k <= n
          /\ Position(r, i) \in Int /\ Position(q, i) \in Int
      BY BooksAreWhole DEF IntentsAreSound, Sheet, Progresses
    <2>2. a \in Int /\ e \in Int
      BY <2>1, ProductsAreWhole
    <2>3. /\ R \in Int /\ Q \in Int
          /\ NetAt(r, m, c)[i] = a + R /\ NetAt(q, m, c)[i] = Position(q, i) * m[i] + Q
          /\ \A p \in DOMAIN Intents :
                RisesAt(r, m, c, i)[p] \in Int /\ RisesAt(q, m, c, i)[p] \in Int
      BY NetIsWhole
    <2>4. Q = R - RisesAt(r, m, c, i)[o] + RisesAt(q, m, c, i)[o]
      <3>1. \A p \in DOMAIN Intents : p # o => RisesAt(r, m, c, i)[p] = RisesAt(q, m, c, i)[p]
        BY ProgressMoves DEF RisesAt
      <3>2. DiffersAt(o, RisesAt(r, m, c, i), RisesAt(q, m, c, i), DOMAIN Intents)
        BY <2>3, <3>1 DEF DiffersAt
      <3> QED BY <1>0, <3>2, SumDiffers
    <2>5. /\ RisesAt(r, m, c, i)[o] = IF o = c THEN n * e ELSE Larger(0, n * e)
          /\ RisesAt(q, m, c, i)[o] = IF o = c THEN k * e ELSE Larger(0, k * e)
      <3>1. Moves(r, i)[o] = n * l /\ Moves(q, i)[o] = k * l
        BY BooksAreWhole
      <3>2. n * l * m[i] = n * e /\ k * l * m[i] = k * e
        BY <2>1, Reorders
      <3>3. /\ RisesAt(r, m, c, i)[o] = IF o = c THEN Moves(r, i)[o] * m[i]
                                                 ELSE Larger(0, Moves(r, i)[o] * m[i])
            /\ RisesAt(q, m, c, i)[o] = IF o = c THEN Moves(q, i)[o] * m[i]
                                                 ELSE Larger(0, Moves(q, i)[o] * m[i])
        BY NetIsWhole
      <3> HIDE DEF e, l, n, k
      <3> QED BY <3>1, <3>2, <3>3
    <2>6. Position(q, i) * m[i] = a + d * e
      <3>1. Position(q, i) = Position(r, i) + d * l
        BY ProgressMoves
      <3>2. d * l \in Int
        BY <2>1, ProductsAreWhole
      <3>3. d * l * m[i] = d * e
        BY <2>1, Reorders
      <3>4. (Position(r, i) + d * l) * m[i] = a + d * l * m[i]
        BY <2>1, <3>2
      <3> QED BY <3>1, <3>3, <3>4
    <2>7. d * e + Larger(0, k * e) <= Larger(0, n * e)
      BY <2>1, <2>2, RiseOfPart
    <2>8. o = c => d * e + k * e = n * e
      <3>1. (d + k) * e = d * e + k * e
        BY <2>1, <2>2
      <3>2. o = c => d + k = n
        OBVIOUS
      <3> QED BY <3>1, <3>2
    <2>9. /\ d * e \in Int /\ k * e \in Int /\ n * e \in Int
          /\ Larger(0, k * e) \in Int /\ Larger(0, n * e) \in Int
      <3>1. d * e \in Int /\ k * e \in Int /\ n * e \in Int
        BY <2>1, <2>2, ProductsAreWhole
      <3> QED BY <3>1 DEF Larger
    <2> HIDE DEF l, a, e, n, k, R, Q
    <2> QED BY <2>2, <2>3, <2>4, <2>5, <2>6, <2>7, <2>8, <2>9
  <1>2. IsBelow(NetAt(q, m, c), NetAt(r, m, c), Instruments)
    BY <1>1, NetIsWhole DEF IsBelow
  <1> QED BY <1>0, <1>2, SumBelow DEF HighestAt

(* What works on an instrument all goes one way.                            *)
LEMMA SameSign == \A a, b \in Int : a * b >= 0 => /\ a > 0 => b >= 0
                                                  /\ a < 0 => b <= 0
  OBVIOUS
LEMMA SignOfProduct == \A n \in Nat : \A b \in Int : /\ b >= 0 => n * b >= 0
                                                     /\ b <= 0 => n * b <= 0
  OBVIOUS

(* On which side the sum of one-way moves lies.                             *)
LEMMA MovesGoOneWay ==
    ASSUME IntentsAreSound, NEW r \in RiskRecords, OrdersCounted(r), OneWay(r),
           NEW o \in DOMAIN Intents, Works(r, o), NEW i \in Instruments
    PROVE  /\ Intents[o].legs[i] > 0 =>
                 /\ \A p \in DOMAIN Intents : Moves(r, i)[p] >= 0
                 /\ SumOf(Moves(r, i), DOMAIN Intents) >= Moves(r, i)[o]
           /\ Intents[o].legs[i] < 0 =>
                 /\ \A p \in DOMAIN Intents : Moves(r, i)[p] <= 0
                 /\ SumOf(Moves(r, i), DOMAIN Intents) <= Moves(r, i)[o]
  <1> DEFINE l == Intents[o].legs[i]
  <1>0. /\ IsFiniteSet(DOMAIN Intents) /\ l \in Int
        /\ IsFiniteSet(DOMAIN Intents \ {o})
    BY FS_RemoveElement DEF IntentsAreSound
  <1>1. ASSUME NEW p \in DOMAIN Intents
        PROVE  /\ l > 0 => Moves(r, i)[p] >= 0
               /\ l < 0 => Moves(r, i)[p] <= 0
    <2>1. /\ Intents[p].legs[i] \in Int /\ Left(r, p) \in Nat
          /\ Moves(r, i)[p] = Left(r, p) * Intents[p].legs[i]
      BY BooksAreWhole DEF IntentsAreSound
    <2>2. CASE Works(r, p)
      <3>1. l * Intents[p].legs[i] >= 0
        BY <2>2 DEF OneWay
      <3>2. /\ l > 0 => Intents[p].legs[i] >= 0
            /\ l < 0 => Intents[p].legs[i] <= 0
        BY <1>0, <2>1, <3>1, SameSign
      <3> HIDE DEF l
      <3> QED BY <2>1, <3>2, SignOfProduct
    <2>3. CASE ~Works(r, p)
      <3>1. Left(r, p) = 0
        BY <2>3, BooksAreWhole
      <3>2. Left(r, p) * Intents[p].legs[i] = 0
        BY <2>1, <3>1
      <3> QED BY <2>1, <3>2
    <2> QED BY <2>2, <2>3
  <1>2. \A p \in DOMAIN Intents : Moves(r, i)[p] \in Int
    BY BooksAreWhole
  <1>3. SumOf(Moves(r, i), DOMAIN Intents)
           = Moves(r, i)[o] + SumOf(Moves(r, i), DOMAIN Intents \ {o})
    <2> DEFINE f == Moves(r, i)
    <2> SUFFICES SumOf(f, DOMAIN Intents) = f[o] + SumOf(f, DOMAIN Intents \ {o})
      OBVIOUS
    <2>1. \A p \in DOMAIN Intents : f[p] \in Int
      BY <1>2
    <2> HIDE DEF f
    <2> QED BY <1>0, <2>1, SumWithout
  <1> DEFINE rest == DOMAIN Intents \ {o}
  <1>4. \A p \in rest : Moves(r, i)[p] \in Int
    BY <1>2
  <1>5. l > 0 => SumOf(Moves(r, i), rest) >= 0
    <2> SUFFICES ASSUME l > 0 PROVE SumOf(Moves(r, i), rest) >= 0
      OBVIOUS
    <2>1. \A p \in rest : Moves(r, i)[p] \in Nat
      BY <1>1, <1>4
    <2>2. SumOf(Moves(r, i), rest) \in Nat
      BY <1>0, <2>1, SumOfNaturals
    <2> QED BY <2>2
  <1>6. l < 0 => SumOf(Moves(r, i), rest) <= 0
    <2> SUFFICES ASSUME l < 0 PROVE SumOf(Moves(r, i), rest) <= 0
      OBVIOUS
    <2> DEFINE zero == [p \in rest |-> 0]
    <2>1. \A p \in rest : zero[p] = 0
      OBVIOUS
    <2>2. IsBelow(Moves(r, i), zero, rest)
      BY <1>1, <1>4 DEF IsBelow
    <2> HIDE DEF zero, rest
    <2>3. SumOf(zero, rest) = 0
      BY <1>0, <2>1, SumOfZeros DEF rest
    <2>4. SumOf(Moves(r, i), rest) <= SumOf(zero, rest)
      BY <1>0, <2>2, SumBelow DEF rest
    <2> QED BY <2>3, <2>4
  <1>7. SumOf(Moves(r, i), rest) \in Int
    BY <1>0, <1>4, SumOfParts
  <1> QED BY <1>1, <1>2, <1>3, <1>5, <1>6, <1>7

LEMMA ExposureProgress ==
    ASSUME IntentsAreSound, NEW r \in RiskRecords, OrdersCounted(r),
           NEW q \in RiskRecords, OrdersCounted(q),
           NEW o \in DOMAIN Intents, NEW d, Progresses(r, q, o, d),
           NEW m \in Sheet, NEW c \in DOMAIN Intents, ExposureKept(r, m, c)
    PROVE  ExposureKept(q, m, c)
  <1> DEFINE f == [s \in Strategies |-> BucketAt(q, m, s)]
             g == [s \in Strategies |-> BucketAt(r, m, s)]
  <1>1. ASSUME NEW s \in Strategies
        PROVE  /\ BucketAt(q, m, s) \in Int /\ BucketAt(r, m, s) \in Int
               /\ BucketAt(q, m, s) <= BucketAt(r, m, s)
               /\ BucketAt(q, m, s) <= StrategyLimit
    <2>1. BucketAt(q, m, s) \in Int /\ BucketAt(r, m, s) \in Int
      BY GrossIsWhole
    <2>2. BucketAt(q, m, s) <= BucketAt(r, m, s)
      BY BucketsShrink
    <2>3. BucketAt(r, m, s) <= StrategyLimit /\ StrategyLimit \in Int
      BY DEF ExposureKept, IntentsAreSound
    <2> QED BY <2>1, <2>2, <2>3
  <1>2. SumOf(f, Strategies) <= SumOf(g, Strategies)
    <2>1. IsBelow(f, g, Strategies) /\ IsFiniteSet(Strategies)
      BY <1>1 DEF IsBelow, IntentsAreSound
    <2> QED BY <2>1, SumBelow
  <1>3. SumOf(f, Strategies) \in Int /\ SumOf(g, Strategies) \in Int
    <2>1. /\ IsFiniteSet(Strategies)
          /\ \A s \in Strategies : f[s] \in Int
          /\ \A s \in Strategies : g[s] \in Int
      BY <1>1 DEF IntentsAreSound
    <2> HIDE DEF f, g
    <2> QED BY <2>1, SumOfParts
  <1>4. SumOf(f, Strategies) <= MaxGross
    <2>1. SumOf(g, Strategies) <= MaxGross /\ MaxGross \in Int
      BY DEF ExposureKept, IntentsAreSound
    <2> HIDE DEF f, g
    <2> QED BY <1>2, <1>3, <2>1
  <1>5. ASSUME q.orders[c].filled + Left(q, c) = Intents[c].units
        PROVE  HighestAt(q, m, c) <= MaxNet /\ HighestAt(q, Opposite(m), c) <= MaxNet
    <2>1. /\ Left(r, o) \in Nat /\ Left(q, o) \in Nat /\ Left(r, o) = Remaining(r, o)
          /\ d \in Nat /\ d + Left(q, o) <= Left(r, o)
          /\ r.orders[o].filled \in Nat /\ q.orders[o].filled = r.orders[o].filled + d
          /\ Intents[o].units \in Nat
      BY BooksAreWhole DEF Progresses, IntentsAreSound
    <2>2. r.orders[c].filled + Left(r, c) = Intents[c].units
      <3>1. CASE c = o
        BY <2>1, <3>1 DEF Remaining
      <3>2. CASE c # o
        <4>1. q.orders[c] = r.orders[c]
          BY <3>2 DEF Progresses
        <4> QED BY <1>5, <4>1 DEF Left, Works, Remaining
      <3> QED BY <3>1, <3>2
    <2>3. o = c => d + Left(q, o) = Left(r, o)
      BY <1>5, <2>1 DEF Remaining
    <2>4. HighestAt(r, m, c) <= MaxNet /\ HighestAt(r, Opposite(m), c) <= MaxNet
      BY <2>2 DEF ExposureKept
    <2>5. HighestAt(q, m, c) <= HighestAt(r, m, c)
      BY <2>3, NetShrinks
    <2>6. Opposite(m) \in Sheet
      BY OppositeIsASheet
    <2>7. HighestAt(q, Opposite(m), c) <= HighestAt(r, Opposite(m), c)
      BY <2>3, <2>6, NetShrinks
    <2>8. /\ HighestAt(q, m, c) \in Int /\ HighestAt(r, m, c) \in Int
          /\ HighestAt(q, Opposite(m), c) \in Int /\ HighestAt(r, Opposite(m), c) \in Int
      BY <2>6, NetIsWhole
    <2>9. MaxNet \in Int
      BY DEF IntentsAreSound
    <2> QED BY <2>4, <2>5, <2>7, <2>8, <2>9
  <1> QED BY <1>1, <1>4, <1>5 DEF ExposureKept

LEMMA PositionsProgress ==
    ASSUME IntentsAreSound, NEW r \in RiskRecords, OrdersCounted(r), OneWay(r),
           NEW q \in RiskRecords, OrdersCounted(q),
           NEW o \in DOMAIN Intents, NEW d, Progresses(r, q, o, d), PositionsKept(r)
    PROVE  PositionsKept(q)
  <1> SUFFICES ASSUME NEW i \in Instruments
               PROVE  /\ InRange(Position(q, i))
                      /\ InRange(Position(q, i) + SumOf(Moves(q, i), DOMAIN Intents))
    BY DEF PositionsKept
  <1> DEFINE l == Intents[o].legs[i]  n == Left(r, o)  k == Left(q, o)
             P == Position(r, i)  S == SumOf(Moves(r, i), DOMAIN Intents)
  <1>1. /\ l \in Int /\ n \in Nat /\ k \in Nat /\ d \in Nat /\ d + k <= n
        /\ P \in Int /\ S \in Int
    BY BooksAreWhole DEF IntentsAreSound, Progresses
  <1>2. Works(r, o) /\ InRange(P) /\ InRange(P + S)
    BY DEF Progresses, PositionsKept
  <1>3. Position(q, i) = P + d * l
    BY ProgressMoves
  <1>4. SumOf(Moves(q, i), DOMAIN Intents) = S - n * l + k * l
    <2>1. Moves(r, i)[o] = n * l /\ Moves(q, i)[o] = k * l
      BY BooksAreWhole
    <2> QED BY <2>1, ProgressMoves
  <1>5. /\ l > 0 => S >= n * l
        /\ l < 0 => S <= n * l
    <2>1. Moves(r, i)[o] = n * l
      BY BooksAreWhole
    <2> QED BY <1>2, <2>1, MovesGoOneWay
  <1> DEFINE x == d * l  y == k * l  z == n * l
  <1>6. x \in Int /\ y \in Int /\ z \in Int
    BY <1>1, ProductsAreWhole
  <1>7. /\ l >= 0 => 0 <= x /\ 0 <= y /\ x + y <= z
        /\ l <= 0 => x <= 0 /\ y <= 0 /\ z <= x + y
    <2>1. /\ l >= 0 => 0 <= (d + k) * l /\ (d + k) * l <= z
          /\ l <= 0 => (d + k) * l <= 0 /\ z <= (d + k) * l
      BY <1>1, PartOf
    <2>2. (d + k) * l = x + y
      BY <1>1
    <2>3. /\ l >= 0 => 0 <= x /\ 0 <= y
          /\ l <= 0 => x <= 0 /\ y <= 0
      BY <1>1, PartOf
    <2> HIDE DEF x, y, z, l, n, k
    <2> QED BY <1>1, <1>6, <2>1, <2>2, <2>3
  <1>8. l = 0 => x = 0 /\ y = 0 /\ z = 0
    BY <1>1
  <1>9. MaxShort \in Nat /\ MaxPosition \in Nat
    BY DEF IntentsAreSound
  <1> HIDE DEF x, y, z, l, n, k, P, S
  <1>10. InRange(P + x) /\ InRange((P + x) + (S - z + y))
    BY <1>1, <1>2, <1>5, <1>6, <1>7, <1>8, <1>9 DEF InRange, x, y, z
  <1> QED BY <1>3, <1>4, <1>10 DEF x, y, z, l, n, k, P, S

LEMMA OneWayProgress ==
    ASSUME NEW r, OneWay(r), NEW q, NEW o \in DOMAIN Intents, NEW d, Progresses(r, q, o, d)
    PROVE  OneWay(q)
  <1>1. \A p \in DOMAIN Intents : Works(q, p) => Works(r, p)
    BY DEF Progresses, Works
  <1> QED BY <1>1 DEF OneWay

-----------------------------------------------------------------------------
(* An approval.                                                             *)

(* The candidate o joins the working orders.                                *)
Joins(r, q, o) ==
    /\ r.orders[o].state = "NONE" /\ Works(q, o) /\ q.orders[o].filled = 0
    /\ q.owned = r.owned
    /\ \A p \in DOMAIN Intents \ {o} : q.orders[p] = r.orders[p]

LEMMA JoinMoves ==
    ASSUME IntentsAreSound, NEW r \in RiskRecords, OrdersCounted(r),
           NEW q \in RiskRecords, OrdersCounted(q),
           NEW o \in DOMAIN Intents, Joins(r, q, o)
    PROVE  /\ o \notin WorkingOrders(r) /\ WorkingOrders(r) \subseteq DOMAIN Intents
           /\ \A i \in Instruments :
                 /\ Position(q, i) = Position(r, i)
                 /\ \A w \in DOMAIN Intents :
                       /\ Unfilled(r, w, i) \in Int
                       /\ w \in WorkingOrders(r) \union {o} =>
                             Moves(q, i)[w] = Unfilled(r, w, i)
                       /\ w \notin WorkingOrders(r) \union {o} => Moves(q, i)[w] = 0
                       /\ w \in WorkingOrders(r) => Moves(r, i)[w] = Unfilled(r, w, i)
                       /\ w \notin WorkingOrders(r) => Moves(r, i)[w] = 0
  <1>1. o \notin WorkingOrders(r) /\ WorkingOrders(r) \subseteq DOMAIN Intents
    BY DEF WorkingOrders, Works, Joins
  <1>2. ASSUME NEW i \in Instruments PROVE Position(q, i) = Position(r, i)
    BY DEF Joins, Position
  <1>3. ASSUME NEW i \in Instruments, NEW w \in DOMAIN Intents
        PROVE  /\ Unfilled(r, w, i) \in Int
               /\ w \in WorkingOrders(r) \union {o} => Moves(q, i)[w] = Unfilled(r, w, i)
               /\ w \notin WorkingOrders(r) \union {o} => Moves(q, i)[w] = 0
               /\ w \in WorkingOrders(r) => Moves(r, i)[w] = Unfilled(r, w, i)
               /\ w \notin WorkingOrders(r) => Moves(r, i)[w] = 0
    <2>1. /\ Intents[w].legs[i] \in Int /\ r.orders[w].filled \in Int
          /\ Intents[w].units \in Int
      BY BooksAreWhole DEF IntentsAreSound
    <2>2. Remaining(r, w) \in Int
      BY <2>1 DEF Remaining
    <2>3. Unfilled(r, w, i) \in Int /\ Unfilled(r, w, i) = Remaining(r, w) * Intents[w].legs[i]
      BY <2>1, <2>2, ProductsAreWhole DEF Unfilled
    <2>4. /\ Moves(q, i)[w] = Left(q, w) * Intents[w].legs[i]
          /\ Moves(r, i)[w] = Left(r, w) * Intents[w].legs[i]
      BY BooksAreWhole
    <2>5. 0 * Intents[w].legs[i] = 0
      BY <2>1
    <2>6. /\ w \in WorkingOrders(r) => Left(r, w) = Remaining(r, w)
          /\ w \notin WorkingOrders(r) => Left(r, w) = 0
      BY DEF Left, WorkingOrders
    <2>7. w = o => Left(q, w) = Remaining(r, w)
      <3>1. r.orders[o].filled = 0 /\ q.orders[o].filled = 0 /\ Works(q, o)
        BY DEF Joins, OrdersCounted
      <3> QED BY <3>1 DEF Left, Remaining
    <2>8. w # o => Left(q, w) = Left(r, w)
      BY DEF Joins, Left, Works, Remaining
    <2> QED BY <1>1, <2>3, <2>4, <2>5, <2>6, <2>7, <2>8
  <1> QED BY <1>1, <1>2, <1>3

LEMMA JoinBuckets ==
    ASSUME IntentsAreSound, NEW r \in RiskRecords, OrdersCounted(r),
           NEW q \in RiskRecords, OrdersCounted(q),
           NEW o \in DOMAIN Intents, Joins(r, q, o), NEW s \in Strategies
    PROVE  BucketAt(q, r.marks, s) = Bucket(r, o, s)
  <1> DEFINE m == r.marks  T == RowsOf(r, o, s)
             rows(i) == [w \in T |-> Abs(Exposure(r, w, i))]
             gross == [i \in Instruments |-> Abs(HeldExposure(r, i, s)) + SumOver(rows(i))]
  <1>0. /\ IsFiniteSet(DOMAIN Intents) /\ IsFiniteSet(Instruments) /\ m \in Sheet
        /\ T \subseteq DOMAIN Intents
    BY JoinMoves DEF IntentsAreSound, RiskRecords, Sheet, RowsOf
  <1>1. ASSUME NEW i \in Instruments
        PROVE  SumOver(rows(i)) = SumOf(RowsAt(q, m, s, i), DOMAIN Intents)
    <2>1. \A w \in DOMAIN Intents :
             /\ RowsAt(q, m, s, i)[w] \in Int
             /\ RowsAt(q, m, s, i)[w] =
                   IF Intents[w].strategy = s THEN Abs(Moves(q, i)[w] * m[i]) ELSE 0
      BY <1>0, GrossIsWhole
    <2>2. \A w \in T : RowsAt(q, m, s, i)[w] = rows(i)[w]
      <3> TAKE w \in T
      <3>1. w \in DOMAIN Intents /\ Intents[w].strategy = s /\ w \in WorkingOrders(r) \union {o}
        BY <1>0 DEF RowsOf
      <3>2. Moves(q, i)[w] = Unfilled(r, w, i)
        BY <3>1, JoinMoves
      <3> QED BY <2>1, <3>1, <3>2 DEF Exposure
    <2>3. \A w \in DOMAIN Intents \ T : RowsAt(q, m, s, i)[w] = 0
      <3> TAKE w \in DOMAIN Intents \ T
      <3>1. CASE Intents[w].strategy # s
        BY <2>1, <3>1
      <3>2. CASE Intents[w].strategy = s
        <4>1. w \notin WorkingOrders(r) \union {o}
          BY <3>2 DEF RowsOf
        <4>2. Moves(q, i)[w] = 0
          BY <4>1, JoinMoves
        <4>3. m[i] \in Int /\ 0 * m[i] = 0
          BY <1>0 DEF Sheet
        <4> QED BY <2>1, <3>2, <4>2, <4>3 DEF Abs
      <3> QED BY <3>1, <3>2
    <2>4. SumOver(rows(i)) = SumOf(rows(i), T)
      BY SumOverIs
    <2> DEFINE f == RowsAt(q, m, s, i)  g == rows(i)
    <2>5. /\ \A w \in DOMAIN Intents : f[w] \in Int
          /\ \A w \in T : f[w] = g[w]
          /\ \A w \in DOMAIN Intents \ T : f[w] = 0
      BY <2>1, <2>2, <2>3
    <2> HIDE DEF f, g, T
    <2>6. SumOf(g, T) = SumOf(f, DOMAIN Intents)
      BY <1>0, <2>5, SumOfChosen
    <2> QED BY <2>4, <2>6 DEF f, g
  <1>2. \A i \in Instruments :
           /\ GrossAt(q, m, s)[i] \in Int
           /\ GrossAt(q, m, s)[i] = gross[i]
    <2> TAKE i \in Instruments
    <2>1. /\ GrossAt(q, m, s)[i] \in Int
          /\ GrossAt(q, m, s)[i] = Abs(q.owned[i][s] * m[i])
                                       + SumOf(RowsAt(q, m, s, i), DOMAIN Intents)
      BY <1>0, GrossIsWhole
    <2>2. q.owned[i][s] * m[i] = HeldExposure(r, i, s)
      BY DEF Joins, HeldExposure
    <2>3. gross[i] = Abs(HeldExposure(r, i, s)) + SumOver(rows(i))
      OBVIOUS
    <2> HIDE DEF gross, rows
    <2> QED BY <1>1, <2>1, <2>2, <2>3
  <1>3. SumOver(gross) = SumOf(gross, Instruments)
    BY SumOverIs
  <1>4. Bucket(r, o, s) = SumOver(gross)
    BY DEF Bucket
  <1> HIDE DEF gross
  <1>5. SumOf(GrossAt(q, m, s), Instruments) = SumOf(gross, Instruments)
    BY <1>0, <1>2, SumSame
  <1> QED BY <1>3, <1>4, <1>5 DEF BucketAt

(* At any marks n, the candidate fills and each working leg does or not.    *)
LEMMA JoinNet ==
    ASSUME IntentsAreSound, NEW r \in RiskRecords, OrdersCounted(r),
           NEW q \in RiskRecords, OrdersCounted(q),
           NEW o \in DOMAIN Intents, Joins(r, q, o), NEW n \in Sheet, NEW i \in Instruments,
           NEW rises, DOMAIN rises = WorkingOrders(r),
           \A w \in WorkingOrders(r) : rises[w] = Larger(0, Unfilled(r, w, i) * n[i])
    PROVE  /\ NetAt(q, n, o)[i]
                 = Position(r, i) * n[i] + Unfilled(r, o, i) * n[i] + SumOver(rises)
           /\ SumOver(rises) \in Int
  <1> DEFINE W == WorkingOrders(r)  D == DOMAIN Intents \ {o}  f == RisesAt(q, n, o, i)
  <1>1. /\ IsFiniteSet(DOMAIN Intents) /\ IsFiniteSet(D)
        /\ o \notin W /\ W \subseteq DOMAIN Intents
    BY FS_RemoveElement, JoinMoves DEF IntentsAreSound
  <1>2. /\ \A w \in DOMAIN Intents :
              /\ f[w] \in Int
              /\ f[w] = IF w = o THEN Moves(q, i)[w] * n[i] ELSE Larger(0, Moves(q, i)[w] * n[i])
        /\ NetAt(q, n, o)[i] = Position(q, i) * n[i] + SumOf(f, DOMAIN Intents)
    BY NetIsWhole
  <1>3. /\ Position(q, i) = Position(r, i)
        /\ \A w \in W \union {o} : Moves(q, i)[w] = Unfilled(r, w, i)
        /\ \A w \in DOMAIN Intents \ (W \union {o}) : Moves(q, i)[w] = 0
    BY <1>1, JoinMoves
  <1>4. f[o] = Unfilled(r, o, i) * n[i]
    BY <1>2, <1>3
  <1>5. \A w \in W : f[w] = rises[w]
    BY <1>1, <1>2, <1>3
  <1>6. \A w \in D \ W : f[w] = 0
    <2> TAKE w \in D \ W
    <2>1. Moves(q, i)[w] = 0 /\ f[w] = Larger(0, Moves(q, i)[w] * n[i])
      BY <1>2, <1>3
    <2>2. n[i] \in Int /\ 0 * n[i] = 0
      BY DEF Sheet
    <2> QED BY <2>1, <2>2 DEF Larger
  <1>7. SumOver(rises) = SumOf(rises, W)
    BY SumOverIs
  <1> HIDE DEF f, W
  <1>8. SumOf(f, DOMAIN Intents) = f[o] + SumOf(f, D)
    BY <1>1, <1>2, SumWithout
  <1>9. SumOf(rises, W) = SumOf(f, D) /\ SumOf(f, D) \in Int
    <2>1. /\ W \in SUBSET D
          /\ \A w \in D : f[w] \in Int
          /\ \A w \in W : f[w] = rises[w]
          /\ \A w \in D \ W : f[w] = 0
      BY <1>1, <1>2, <1>5, <1>6
    <2> HIDE DEF D
    <2>2. SumOf(rises, W) = SumOf(f, D)
      BY <1>1, <2>1, SumOfChosen
    <2>3. SumOf(f, D) \in Int
      BY <1>1, <2>1, SumOfParts
    <2> QED BY <2>2, <2>3
  <1>10. Position(r, i) * n[i] \in Int /\ Unfilled(r, o, i) * n[i] \in Int
    <2>1. n[i] \in Int /\ Position(r, i) \in Int
      BY BooksAreWhole DEF Sheet
    <2>2. Unfilled(r, o, i) \in Int
      BY JoinMoves
    <2> QED BY <2>1, <2>2, ProductsAreWhole
  <1> QED BY <1>2, <1>3, <1>4, <1>7, <1>8, <1>9, <1>10

LEMMA JoinHighest ==
    ASSUME IntentsAreSound, NEW r \in RiskRecords, OrdersCounted(r),
           NEW q \in RiskRecords, OrdersCounted(q),
           NEW o \in DOMAIN Intents, Joins(r, q, o)
    PROVE  HighestAt(q, r.marks, o) = HighestNet(r, o)
  <1> DEFINE m == r.marks
             rises(i) == [w \in WorkingOrders(r) |-> Larger(0, Exposure(r, w, i))]
             net == [i \in Instruments |-> BaseNet(r, o, i) + SumOver(rises(i))]
  <1>1. IsFiniteSet(Instruments) /\ m \in Sheet
    BY DEF IntentsAreSound, RiskRecords, Sheet
  <1>2. \A i \in Instruments : NetAt(q, m, o)[i] \in Int /\ NetAt(q, m, o)[i] = net[i]
    <2> TAKE i \in Instruments
    <2>1. /\ DOMAIN rises(i) = WorkingOrders(r)
          /\ \A w \in WorkingOrders(r) : rises(i)[w] = Larger(0, Unfilled(r, w, i) * m[i])
      BY DEF Exposure
    <2>2. BaseNet(r, o, i) = Position(r, i) * m[i] + Unfilled(r, o, i) * m[i]
      BY DEF BaseNet, Exposure
    <2>3. net[i] = BaseNet(r, o, i) + SumOver(rises(i))
      OBVIOUS
    <2>4. NetAt(q, m, o)[i] \in Int
      BY <1>1, NetIsWhole
    <2> HIDE DEF rises, net
    <2>5. NetAt(q, m, o)[i]
             = Position(r, i) * m[i] + Unfilled(r, o, i) * m[i] + SumOver(rises(i))
      BY <1>1, <2>1, JoinNet
    <2> QED BY <2>2, <2>3, <2>4, <2>5
  <1>3. SumOver(net) = SumOf(net, Instruments)
    BY SumOverIs
  <1>4. HighestNet(r, o) = SumOver(net)
    BY DEF HighestNet
  <1> HIDE DEF net
  <1>5. SumOf(NetAt(q, m, o), Instruments) = SumOf(net, Instruments)
    BY <1>1, <1>2, SumSame
  <1> QED BY <1>3, <1>4, <1>5 DEF HighestAt

LEMMA Negations == \A a, b \in Int : a * (-b) = -(a * b)
  OBVIOUS

LEMMA JoinLowest ==
    ASSUME IntentsAreSound, NEW r \in RiskRecords, OrdersCounted(r),
           NEW q \in RiskRecords, OrdersCounted(q),
           NEW o \in DOMAIN Intents, Joins(r, q, o)
    PROVE  HighestAt(q, Opposite(r.marks), o) = -LowestNet(r, o) /\ LowestNet(r, o) \in Int
  <1> DEFINE m == r.marks  n == Opposite(m)
             rises(i) == [w \in WorkingOrders(r) |-> Larger(0, -Exposure(r, w, i))]
             net == [i \in Instruments |-> BaseNet(r, o, i) - SumOver(rises(i))]
  <1>1. IsFiniteSet(Instruments) /\ m \in Sheet
    BY DEF IntentsAreSound, RiskRecords, Sheet
  <1>2. n \in Sheet /\ \A i \in Instruments : n[i] = -m[i]
    BY <1>1, OppositeIsASheet
  <1>3. \A i \in Instruments : net[i] \in Int /\ NetAt(q, n, o)[i] = (-1) * net[i]
    <2> TAKE i \in Instruments
    <2>0. m[i] \in Int /\ Position(r, i) \in Int /\ Unfilled(r, o, i) \in Int
      BY <1>1, BooksAreWhole, JoinMoves DEF Sheet
    <2>1. /\ DOMAIN rises(i) = WorkingOrders(r)
          /\ \A w \in WorkingOrders(r) : rises(i)[w] = Larger(0, Unfilled(r, w, i) * n[i])
      <3> SUFFICES ASSUME NEW w \in WorkingOrders(r)
                   PROVE  -Exposure(r, w, i) = Unfilled(r, w, i) * n[i]
        OBVIOUS
      <3>1. Unfilled(r, w, i) \in Int
        BY JoinMoves
      <3> HIDE DEF n
      <3> QED BY <1>2, <2>0, <3>1, Negations DEF Exposure
    <2>2. BaseNet(r, o, i) = Position(r, i) * m[i] + Unfilled(r, o, i) * m[i]
      BY DEF BaseNet, Exposure
    <2>3. net[i] = BaseNet(r, o, i) - SumOver(rises(i))
      OBVIOUS
    <2>4. Position(r, i) * m[i] \in Int /\ Unfilled(r, o, i) * m[i] \in Int
      BY <2>0, ProductsAreWhole
    <2>5. /\ Position(r, i) * n[i] = -(Position(r, i) * m[i])
          /\ Unfilled(r, o, i) * n[i] = -(Unfilled(r, o, i) * m[i])
      BY <1>2, <2>0, Negations
    <2> HIDE DEF rises, net, n
    <2>6. /\ NetAt(q, n, o)[i]
                = Position(r, i) * n[i] + Unfilled(r, o, i) * n[i] + SumOver(rises(i))
          /\ SumOver(rises(i)) \in Int
      BY <1>2, <2>1, JoinNet
    <2> QED BY <2>2, <2>3, <2>4, <2>5, <2>6
  <1>4. SumOver(net) = SumOf(net, Instruments)
    BY SumOverIs
  <1>5. LowestNet(r, o) = SumOver(net)
    BY DEF LowestNet
  <1> HIDE DEF net, n
  <1>6. SumOf(NetAt(q, n, o), Instruments) = (-1) * SumOf(net, Instruments)
    BY <1>1, <1>3, -1 \in Int, SumScales
  <1>7. SumOf(net, Instruments) \in Int
    BY <1>1, <1>3, SumOfParts
  <1> QED BY <1>4, <1>5, <1>6, <1>7 DEF HighestAt, n

LEMMA JoinPositions ==
    ASSUME IntentsAreSound, NEW r \in RiskRecords, OrdersCounted(r),
           NEW q \in RiskRecords, OrdersCounted(q),
           NEW o \in DOMAIN Intents, Joins(r, q, o), PositionsKept(r),
           \A i \in LegsOf(o) : Committed(r, o, i) \in -MaxShort..MaxPosition
    PROVE  PositionsKept(q)
  <1> SUFFICES ASSUME NEW i \in Instruments
               PROVE  /\ InRange(Position(q, i))
                      /\ InRange(Position(q, i) + SumOf(Moves(q, i), DOMAIN Intents))
    BY DEF PositionsKept
  <1> DEFINE W == WorkingOrders(r)  f == Moves(r, i)  g == Moves(q, i)
             delta == [w \in W |-> Unfilled(r, w, i)]
  <1>1. /\ IsFiniteSet(DOMAIN Intents) /\ W \in SUBSET DOMAIN Intents /\ o \notin W
        /\ Position(q, i) = Position(r, i) /\ Unfilled(r, o, i) \in Int
        /\ f[o] = 0 /\ g[o] = Unfilled(r, o, i)
        /\ \A w \in W : f[w] = Unfilled(r, w, i) /\ g[w] = Unfilled(r, w, i)
        /\ \A w \in DOMAIN Intents \ W : f[w] = 0
        /\ \A w \in DOMAIN Intents \ (W \union {o}) : g[w] = 0
    <2>1. IsFiniteSet(DOMAIN Intents) /\ o \notin W /\ W \in SUBSET DOMAIN Intents
      BY JoinMoves DEF IntentsAreSound
    <2>2. Position(q, i) = Position(r, i) /\ Unfilled(r, o, i) \in Int
      BY JoinMoves
    <2>3. \A w \in DOMAIN Intents :
             /\ w \in W \union {o} => g[w] = Unfilled(r, w, i)
             /\ w \notin W \union {o} => g[w] = 0
             /\ w \in W => f[w] = Unfilled(r, w, i)
             /\ w \notin W => f[w] = 0
      BY JoinMoves
    <2> HIDE DEF W, f, g
    <2> QED BY <2>1, <2>2, <2>3
  <1>2. \A w \in DOMAIN Intents : f[w] \in Int /\ g[w] \in Int
    BY BooksAreWhole
  <1>3. WorkingDelta(r, i) = SumOver(delta) /\ SumOver(delta) = SumOf(delta, W)
    BY SumOverIs DEF WorkingDelta
  <1>4. \A w \in W : delta[w] = Unfilled(r, w, i)
    OBVIOUS
  <1> HIDE DEF W, f, g, delta
  <1>5. SumOf(delta, W) = SumOf(f, DOMAIN Intents)
    BY <1>1, <1>2, <1>4, SumOfChosen
  <1>6. SumOf(g, DOMAIN Intents) = SumOf(f, DOMAIN Intents) - f[o] + g[o]
    <2>1. DiffersAt(o, f, g, DOMAIN Intents)
      BY <1>1, <1>2 DEF DiffersAt
    <2> QED BY <1>1, <2>1, SumDiffers
  <1>7. SumOf(f, DOMAIN Intents) \in Int /\ Position(r, i) \in Int
    BY <1>1, <1>2, BooksAreWhole, SumOfParts
  <1>8. InRange(Position(r, i)) /\ InRange(Position(r, i) + SumOf(f, DOMAIN Intents))
    BY DEF PositionsKept, f
  <1>9. Position(q, i) + SumOf(g, DOMAIN Intents)
           = Position(r, i) + Unfilled(r, o, i) + WorkingDelta(r, i)
    BY <1>1, <1>3, <1>5, <1>6, <1>7
  <1>10. InRange(Position(q, i) + SumOf(g, DOMAIN Intents))
    <2>1. CASE i \in LegsOf(o)
      BY <1>9, <2>1 DEF InRange, Committed
    <2>2. CASE i \notin LegsOf(o)
      <3>1. Intents[o].legs[i] = 0
        BY <2>2 DEF LegsOf
      <3>2. Remaining(r, o) \in Int
        BY BooksAreWhole DEF Remaining, IntentsAreSound
      <3>3. Unfilled(r, o, i) = 0
        BY <3>1, <3>2 DEF Unfilled
      <3> QED BY <1>1, <1>6, <1>7, <1>8, <3>3
    <2> QED BY <2>1, <2>2
  <1> QED BY <1>1, <1>8, <1>10 DEF g

LEMMA JoinOneWay ==
    ASSUME IntentsAreSound, NEW r \in RiskRecords, NEW q, NEW o \in DOMAIN Intents,
           Joins(r, q, o), OneWay(r), ~OppositeSides(r, o)
    PROVE  OneWay(q)
  <1> SUFFICES ASSUME NEW p \in DOMAIN Intents, NEW w \in DOMAIN Intents, NEW i \in Instruments,
                      Works(q, p), Works(q, w)
               PROVE  Intents[p].legs[i] * Intents[w].legs[i] >= 0
    BY DEF OneWay
  <1>1. Intents[p].legs[i] \in Int /\ Intents[w].legs[i] \in Int /\ Intents[o].legs[i] \in Int
    BY DEF IntentsAreSound
  <1>2. \A v \in DOMAIN Intents \ {o} : Works(q, v) => Works(r, v)
    BY DEF Joins, Works
  <1>3. \A v \in DOMAIN Intents : Works(r, v) => Intents[v].legs[i] * Intents[o].legs[i] >= 0
    <2> TAKE v \in DOMAIN Intents
    <2> HAVE Works(r, v)
    <2>1. Intents[v].legs[i] \in Int
      BY DEF IntentsAreSound
    <2>2. CASE i \in LegsOf(o)
      BY <1>1, <2>1, <2>2, ProductsAreWhole DEF OppositeSides, WorkingOrders
    <2>3. CASE i \notin LegsOf(o)
      <3>1. Intents[o].legs[i] = 0
        BY <2>3 DEF LegsOf
      <3> QED BY <2>1, <3>1
    <2> QED BY <2>2, <2>3
  <1>4. Intents[o].legs[i] * Intents[o].legs[i] >= 0
    BY <1>1, SameSign
  <1>5. CASE p = o /\ w = o
    BY <1>4, <1>5
  <1>6. CASE p = o /\ w # o
    BY <1>1, <1>2, <1>3, <1>6, Reorders
  <1>7. CASE p # o /\ w = o
    BY <1>2, <1>3, <1>7
  <1>8. CASE p # o /\ w # o
    BY <1>2, <1>8 DEF OneWay
  <1> QED BY <1>5, <1>6, <1>7, <1>8

LEMMA ApprovalKeeps ==
    ASSUME IntentsAreSound, NEW r \in RiskRecords, OrdersCounted(r),
           NEW q \in RiskRecords, OrdersCounted(q),
           NEW o \in DOMAIN Intents, Joins(r, q, o), AggregateFits(r, o)
    PROVE  ExposureKept(q, r.marks, o)
  <1> DEFINE f == [s \in Strategies |-> BucketAt(q, r.marks, s)]
             g == [s \in Strategies |-> Bucket(r, o, s)]
  <1>1. \A s \in Strategies : BucketAt(q, r.marks, s) = Bucket(r, o, s)
    BY JoinBuckets
  <1>2. f = g
    BY <1>1
  <1>3. SumOver(g) = SumOf(g, Strategies)
    BY SumOverIs
  <1>4. SumOf(f, Strategies) <= MaxGross
    BY <1>2, <1>3 DEF AggregateFits
  <1>5. \A s \in Strategies : BucketAt(q, r.marks, s) <= StrategyLimit
    BY <1>1 DEF AggregateFits
  <1>6. HighestAt(q, r.marks, o) <= MaxNet
    <2>1. HighestAt(q, r.marks, o) = HighestNet(r, o)
      BY JoinHighest
    <2>2. Abs(HighestNet(r, o)) <= MaxNet
      BY DEF AggregateFits
    <2>3. r.marks \in Sheet
      BY DEF RiskRecords, Sheet
    <2>4. HighestAt(q, r.marks, o) \in Int /\ MaxNet \in Int
      BY <2>3, NetIsWhole DEF IntentsAreSound
    <2> QED BY <2>1, <2>2, <2>4 DEF Abs
  <1>7. HighestAt(q, Opposite(r.marks), o) <= MaxNet
    <2>1. HighestAt(q, Opposite(r.marks), o) = -LowestNet(r, o) /\ LowestNet(r, o) \in Int
      BY JoinLowest
    <2>2. Abs(LowestNet(r, o)) <= MaxNet /\ MaxNet \in Int
      BY DEF AggregateFits, IntentsAreSound
    <2> QED BY <2>1, <2>2 DEF Abs
  <1> QED BY <1>4, <1>5, <1>6, <1>7 DEF ExposureKept

-----------------------------------------------------------------------------
(* However the orders fill.                                                 *)

(* What a course of fills gives an order, and so moves an instrument.       *)
GivenTo(f, o) == IF o \in DOMAIN f THEN f[o] ELSE 0
MovesGiven(f, i) == [o \in DOMAIN Intents |-> GivenTo(f, o) * Intents[o].legs[i]]

LEMMA FillsArePart ==
    ASSUME IntentsAreSound, risk \in RiskRecords, OrdersCounted(risk), NEW f \in Fills
    PROVE  /\ DOMAIN f \subseteq DOMAIN Intents
           /\ \A o \in DOMAIN Intents :
                 /\ GivenTo(f, o) \in Nat /\ GivenTo(f, o) <= Left(risk, o)
                 /\ \A i \in Instruments :
                       /\ MovesGiven(f, i)[o] \in Int
                       /\ MovesGiven(f, i)[o] = GivenTo(f, o) * Intents[o].legs[i]
  <1>1. /\ DOMAIN f = WorkingOrders(risk)
        /\ \A o \in WorkingOrders(risk) : f[o] <= Remaining(risk, o) /\ f[o] \in Nat
    <2> DEFINE most == Max({Intents[o].units : o \in DOMAIN Intents})
    <2>1. /\ f \in [WorkingOrders(risk) -> 0..most]
          /\ \A o \in WorkingOrders(risk) : f[o] <= Remaining(risk, o)
      BY DEF Fills
    <2> HIDE DEF most
    <2>2. DOMAIN f = WorkingOrders(risk) /\ \A o \in WorkingOrders(risk) : f[o] \in 0..most
      BY <2>1
    <2>3. \A k \in 0..most : k \in Nat
      OBVIOUS
    <2> QED BY <2>1, <2>2, <2>3
  <1>2. DOMAIN f \subseteq DOMAIN Intents
    BY <1>1 DEF WorkingOrders
  <1>3. ASSUME NEW o \in DOMAIN Intents
        PROVE  GivenTo(f, o) \in Nat /\ GivenTo(f, o) <= Left(risk, o)
    <2>1. Left(risk, o) \in Nat
      BY BooksAreWhole
    <2> QED BY <1>1, <2>1 DEF GivenTo, Left, WorkingOrders
  <1>4. ASSUME NEW o \in DOMAIN Intents, NEW i \in Instruments
        PROVE  /\ MovesGiven(f, i)[o] \in Int
               /\ MovesGiven(f, i)[o] = GivenTo(f, o) * Intents[o].legs[i]
    <2>1. GivenTo(f, o) \in Int /\ Intents[o].legs[i] \in Int
      BY <1>3 DEF IntentsAreSound
    <2> QED BY <2>1, ProductsAreWhole DEF MovesGiven
  <1> QED BY <1>2, <1>3, <1>4

LEMMA PositionIs ==
    ASSUME IntentsAreSound, risk \in RiskRecords, OrdersCounted(risk), NEW f \in Fills,
           NEW i \in Instruments
    PROVE  /\ SumOf(MovesGiven(f, i), DOMAIN Intents) \in Int
           /\ PositionGiven(f, i)
                 = Position(risk, i) + SumOf(MovesGiven(f, i), DOMAIN Intents)
  <1> DEFINE T == DOMAIN f  g == [o \in T |-> f[o] * Intents[o].legs[i]]
             h == MovesGiven(f, i)
  <1>1. /\ T \in SUBSET DOMAIN Intents /\ IsFiniteSet(DOMAIN Intents)
        /\ \A o \in DOMAIN Intents : h[o] \in Int
        /\ \A o \in DOMAIN Intents : h[o] = GivenTo(f, o) * Intents[o].legs[i]
    BY FillsArePart DEF IntentsAreSound
  <1>2. \A o \in T : h[o] = g[o]
    BY <1>1 DEF GivenTo
  <1>3. \A o \in DOMAIN Intents \ T : h[o] = 0
    <2> TAKE o \in DOMAIN Intents \ T
    <2>1. Intents[o].legs[i] \in Int
      BY DEF IntentsAreSound
    <2> QED BY <1>1, <2>1 DEF GivenTo
  <1>4. SumOver(g) = SumOf(g, T)
    BY SumOverIs
  <1>5. PositionGiven(f, i) = Position(risk, i) + SumOver(g)
    BY DEF PositionGiven
  <1> HIDE DEF g, h, T
  <1>6. SumOf(g, T) = SumOf(h, DOMAIN Intents)
    BY <1>1, <1>2, <1>3, SumOfChosen
  <1>7. SumOf(h, DOMAIN Intents) \in Int
    BY <1>1, SumOfParts
  <1> QED BY <1>4, <1>5, <1>6, <1>7 DEF h

(* No position leaves its range.                                            *)
LEMMA PositionGivenFits ==
    ASSUME IntentsAreSound, risk \in RiskRecords, OrdersCounted(risk), OneWay(risk),
           PositionsKept(risk), NEW f \in Fills, NEW i \in Instruments
    PROVE  PositionGiven(f, i) \in -MaxShort..MaxPosition
  <1> DEFINE g == MovesGiven(f, i)  h == Moves(risk, i)
             zero == [o \in DOMAIN Intents |-> 0]
  <1>1. /\ IsFiniteSet(DOMAIN Intents)
        /\ \A o \in DOMAIN Intents : g[o] \in Int
        /\ \A o \in DOMAIN Intents : h[o] \in Int
        /\ \A o \in DOMAIN Intents : zero[o] = 0
    BY FillsArePart, BooksAreWhole DEF IntentsAreSound
  <1>2. ASSUME NEW o \in DOMAIN Intents
        PROVE  /\ h[o] >= 0 => 0 <= g[o] /\ g[o] <= h[o]
               /\ h[o] <= 0 => h[o] <= g[o] /\ g[o] <= 0
    <2> DEFINE k == GivenTo(f, o)  n == Left(risk, o)  l == Intents[o].legs[i]
    <2>1. k \in Nat /\ n \in Nat /\ k <= n /\ l \in Int /\ g[o] = k * l /\ h[o] = n * l
      BY FillsArePart, BooksAreWhole DEF IntentsAreSound
    <2>2. /\ l >= 0 => 0 <= k * l /\ k * l <= n * l
          /\ l <= 0 => n * l <= k * l /\ k * l <= 0
      BY <2>1, PartOf
    <2>3. k * l \in Int /\ n * l \in Int
      BY <2>1, ProductsAreWhole
    <2> HIDE DEF k, n, l, g, h
    <2> QED BY <2>1, <2>2, <2>3
  <1>3. \/ \A o \in DOMAIN Intents : h[o] >= 0
        \/ \A o \in DOMAIN Intents : h[o] <= 0
    <2>1. CASE \E o \in DOMAIN Intents : Works(risk, o) /\ Intents[o].legs[i] # 0
      <3> PICK o \in DOMAIN Intents : Works(risk, o) /\ Intents[o].legs[i] # 0
        BY <2>1
      <3>1. Intents[o].legs[i] \in Int
        BY DEF IntentsAreSound
      <3>2. Intents[o].legs[i] > 0 \/ Intents[o].legs[i] < 0
        BY <3>1
      <3> QED BY <3>2, MovesGoOneWay
    <2>2. CASE \A o \in DOMAIN Intents : ~Works(risk, o) \/ Intents[o].legs[i] = 0
      <3> SUFFICES ASSUME NEW o \in DOMAIN Intents PROVE h[o] = 0
        BY <1>1
      <3>1. /\ h[o] = Left(risk, o) * Intents[o].legs[i] /\ Left(risk, o) \in Nat
            /\ ~Works(risk, o) => Left(risk, o) = 0
            /\ Intents[o].legs[i] \in Int
        BY BooksAreWhole DEF IntentsAreSound
      <3> QED BY <2>2, <3>1
    <2> QED BY <2>1, <2>2
  <1> DEFINE S == SumOf(h, DOMAIN Intents)  G == SumOf(g, DOMAIN Intents)
  <1>4. (0 <= G /\ G <= S) \/ (S <= G /\ G <= 0)
    <2>1. SumOf(zero, DOMAIN Intents) = 0
      BY <1>1, SumOfZeros
    <2> HIDE DEF zero, g, h
    <2>2. CASE \A o \in DOMAIN Intents : h[o] >= 0
      <3>1. IsBelow(zero, g, DOMAIN Intents) /\ IsBelow(g, h, DOMAIN Intents)
        BY <1>1, <1>2, <2>2 DEF IsBelow
      <3>2. SumOf(zero, DOMAIN Intents) <= G /\ G <= S
        BY <1>1, <3>1, SumBelow
      <3> QED BY <2>1, <3>2
    <2>3. CASE \A o \in DOMAIN Intents : h[o] <= 0
      <3>1. IsBelow(g, zero, DOMAIN Intents) /\ IsBelow(h, g, DOMAIN Intents)
        BY <1>1, <1>2, <2>3 DEF IsBelow
      <3>2. S <= G /\ G <= SumOf(zero, DOMAIN Intents)
        BY <1>1, <3>1, SumBelow
      <3> QED BY <2>1, <3>2
    <2> QED BY <1>3, <2>2, <2>3
  <1>5. PositionGiven(f, i) = Position(risk, i) + G /\ G \in Int
    BY PositionIs
  <1>6. Position(risk, i) \in Int /\ S \in Int
    BY BooksAreWhole
  <1>7. InRange(Position(risk, i)) /\ InRange(Position(risk, i) + S)
    BY DEF PositionsKept
  <1>8. MaxShort \in Nat /\ MaxPosition \in Nat
    BY DEF IntentsAreSound
  <1> HIDE DEF S, G
  <1> QED BY <1>4, <1>5, <1>6, <1>7, <1>8 DEF InRange

(* What strategy s is given of an instrument, and at marks m.               *)
OwnGiven(f, s, i) ==
    [o \in DOMAIN Intents |-> IF Intents[o].strategy = s THEN MovesGiven(f, i)[o] ELSE 0]
WorthGiven(f, s, i, m) == [o \in DOMAIN Intents |-> m[i] * OwnGiven(f, s, i)[o]]

LEMMA HeldIs ==
    ASSUME IntentsAreSound, risk \in RiskRecords, OrdersCounted(risk), NEW f \in Fills,
           NEW i \in Instruments, NEW s \in Strategies
    PROVE  /\ SumOf(OwnGiven(f, s, i), DOMAIN Intents) \in Int
           /\ HeldGiven(f, i, s)
                 = risk.owned[i][s] + SumOf(OwnGiven(f, s, i), DOMAIN Intents)
           /\ \A o \in DOMAIN Intents : OwnGiven(f, s, i)[o] \in Int
  <1> DEFINE T == {o \in DOMAIN f : Intents[o].strategy = s}
             g == [o \in T |-> f[o] * Intents[o].legs[i]]
             h == OwnGiven(f, s, i)
  <1>1. /\ T \in SUBSET DOMAIN Intents /\ IsFiniteSet(DOMAIN Intents)
        /\ \A o \in DOMAIN Intents : MovesGiven(f, i)[o] \in Int
        /\ \A o \in DOMAIN Intents : MovesGiven(f, i)[o] = GivenTo(f, o) * Intents[o].legs[i]
    BY FillsArePart DEF IntentsAreSound
  <1>2. \A o \in DOMAIN Intents : h[o] \in Int
    BY <1>1 DEF OwnGiven
  <1>3. \A o \in T : h[o] = g[o]
    BY <1>1 DEF GivenTo, OwnGiven
  <1>4. \A o \in DOMAIN Intents \ T : h[o] = 0
    <2> TAKE o \in DOMAIN Intents \ T
    <2>1. Intents[o].legs[i] \in Int
      BY DEF IntentsAreSound
    <2>2. CASE Intents[o].strategy # s
      BY <2>2 DEF OwnGiven
    <2>3. CASE o \notin DOMAIN f
      BY <1>1, <2>1, <2>3 DEF GivenTo, OwnGiven
    <2> QED BY <2>2, <2>3
  <1>5. SumOver(g) = SumOf(g, T)
    BY SumOverIs
  <1>6. HeldGiven(f, i, s) = risk.owned[i][s] + SumOver(g)
    BY DEF HeldGiven
  <1> HIDE DEF g, h, T
  <1>7. SumOf(g, T) = SumOf(h, DOMAIN Intents)
    BY <1>1, <1>2, <1>3, <1>4, SumOfChosen
  <1>8. SumOf(h, DOMAIN Intents) \in Int
    BY <1>1, <1>2, SumOfParts
  <1> QED BY <1>2, <1>5, <1>6, <1>7, <1>8 DEF h

LEMMA AbsOfSum == \A a, b, c \in Int : Abs(b) <= c => Abs(a + b) <= Abs(a) + c
  BY DEF Abs

(* What a strategy holds of an instrument is worth no more than its rows.   *)
LEMMA WorthFits ==
    ASSUME IntentsAreSound, risk \in RiskRecords, OrdersCounted(risk), NEW f \in Fills,
           NEW i \in Instruments, NEW s \in Strategies, NEW m \in Sheet
    PROVE  /\ Abs(HeldGiven(f, i, s) * m[i]) \in Int
           /\ Abs(HeldGiven(f, i, s) * m[i]) <= GrossAt(risk, m, s)[i]
  <1> DEFINE h == OwnGiven(f, s, i)  k == WorthGiven(f, s, i, m)  D == DOMAIN Intents
             R == RowsAt(risk, m, s, i)  w == risk.owned[i][s]
  <1>1. /\ IsFiniteSet(D) /\ m[i] \in Int /\ w \in Int
        /\ \A o \in D : h[o] \in Int
        /\ \A o \in D : k[o] = m[i] * h[o]
        /\ SumOf(h, D) \in Int /\ HeldGiven(f, i, s) = w + SumOf(h, D)
    BY BooksAreWhole, HeldIs DEF IntentsAreSound, Sheet, WorthGiven
  <1>2. /\ GrossAt(risk, m, s)[i] = Abs(w * m[i]) + SumOf(R, D)
        /\ SumOf(R, D) \in Int /\ GrossAt(risk, m, s)[i] \in Int
        /\ \A o \in D : R[o] \in Int
        /\ \A o \in D : R[o] = IF Intents[o].strategy = s
                               THEN Abs(Moves(risk, i)[o] * m[i]) ELSE 0
    BY GrossIsWhole
  <1>3. ASSUME NEW o \in D
        PROVE  k[o] \in Int /\ k[o] <= R[o] /\ -k[o] <= R[o]
    <2> DEFINE g == GivenTo(f, o)  n == Left(risk, o)  l == Intents[o].legs[i]  e == l * m[i]
    <2>1. /\ g \in Nat /\ n \in Nat /\ g <= n /\ l \in Int
          /\ MovesGiven(f, i)[o] = g * l /\ Moves(risk, i)[o] = n * l
      BY FillsArePart, BooksAreWhole DEF IntentsAreSound
    <2>2. e \in Int /\ g * l * m[i] = g * e /\ n * l * m[i] = n * e
      <3>1. m[i] \in Int /\ l \in Int /\ g \in Int /\ n \in Int
        BY <1>1, <2>1
      <3>2. l * m[i] \in Int
        BY <3>1, ProductsAreWhole
      <3> HIDE DEF g, n, l
      <3>3. g * l * m[i] = g * (l * m[i]) /\ n * l * m[i] = n * (l * m[i])
        BY <3>1, Reorders
      <3> QED BY <3>2, <3>3
    <2>3. g * e \in Int /\ n * e \in Int
      BY <2>1, <2>2, ProductsAreWhole
    <2>4. /\ e >= 0 => 0 <= g * e /\ g * e <= n * e
          /\ e <= 0 => n * e <= g * e /\ g * e <= 0
      BY <2>1, <2>2, PartOf
    <2>5. CASE Intents[o].strategy = s
      <3>1. R[o] = Abs(n * e)
        BY <1>2, <2>1, <2>2, <2>5
      <3>2. k[o] = m[i] * (g * l)
        BY <1>1, <2>1, <2>5 DEF OwnGiven
      <3>3. m[i] * (g * l) = g * e
        BY <1>1, <2>1, <2>2, Reorders
      <3> HIDE DEF g, n, l, e, k, R
      <3> QED BY <2>2, <2>3, <2>4, <3>1, <3>2, <3>3 DEF Abs
    <2>6. CASE Intents[o].strategy # s
      <3>1. R[o] = 0 /\ h[o] = 0
        BY <1>2, <2>6 DEF OwnGiven
      <3>2. k[o] = 0
        BY <1>1, <3>1
      <3> QED BY <3>1, <3>2
    <2> QED BY <2>5, <2>6
  <1> HIDE DEF h, k, D, R, w
  <1>4. SumOf(k, D) = m[i] * SumOf(h, D)
    BY <1>1, SumScales
  <1>5. SumOf(k, D) \in Int /\ Abs(SumOf(k, D)) <= SumOf(R, D)
    <2>1. \A o \in D : k[o] \in Int /\ R[o] \in Int /\ k[o] <= R[o] /\ -k[o] <= R[o]
      BY <1>2, <1>3
    <2> QED BY <1>1, <2>1, SumTriangle
  <1>6. HeldGiven(f, i, s) * m[i] = w * m[i] + SumOf(k, D)
    <2>1. (w + SumOf(h, D)) * m[i] = w * m[i] + m[i] * SumOf(h, D)
      BY <1>1
    <2> QED BY <1>1, <1>4, <2>1
  <1>7. w * m[i] \in Int
    BY <1>1, ProductsAreWhole
  <1>8. Abs(w * m[i] + SumOf(k, D)) <= Abs(w * m[i]) + SumOf(R, D)
    BY <1>2, <1>5, <1>7, AbsOfSum
  <1>9. w * m[i] + SumOf(k, D) \in Int
    BY <1>5, <1>7
  <1>10. Abs(w * m[i] + SumOf(k, D)) \in Int
    BY <1>9, AbsIs
  <1> QED BY <1>2, <1>6, <1>8, <1>10

(* The buckets of a strategy.                                               *)
LEMMA BucketGivenFits ==
    ASSUME IntentsAreSound, risk \in RiskRecords, OrdersCounted(risk), NEW f \in Fills,
           NEW s \in Strategies
    PROVE  BucketGiven(f, s) \in Int /\ BucketGiven(f, s) <= BucketAt(risk, risk.marks, s)
  <1> DEFINE m == risk.marks
             worth == [i \in Instruments |-> Abs(HeldGiven(f, i, s) * m[i])]
             R == GrossAt(risk, m, s)
  <1>1. m \in Sheet /\ IsFiniteSet(Instruments)
    BY DEF RiskRecords, Sheet, IntentsAreSound
  <1>2. \A i \in Instruments : worth[i] \in Int /\ R[i] \in Int /\ worth[i] <= R[i]
    BY <1>1, WorthFits, GrossIsWhole
  <1>3. SumOver(worth) = SumOf(worth, Instruments)
    BY SumOverIs
  <1>4. BucketGiven(f, s) = SumOver(worth)
    BY DEF BucketGiven
  <1> HIDE DEF worth, R
  <1>5. SumOf(worth, Instruments) <= SumOf(R, Instruments)
    BY <1>1, <1>2, SumGrows
  <1>6. SumOf(worth, Instruments) \in Int
    BY <1>1, <1>2, SumOfParts
  <1> QED BY <1>3, <1>4, <1>5, <1>6 DEF BucketAt, R

(* The net exposure at marks n, if c completes.                             *)
LEMMA NetGivenFits ==
    ASSUME IntentsAreSound, risk \in RiskRecords, OrdersCounted(risk), NEW f \in Fills,
           NEW c \in DOMAIN Intents, Completes(f, c), NEW n \in Sheet, NEW i \in Instruments
    PROVE  /\ PositionGiven(f, i) \in Int /\ PositionGiven(f, i) * n[i] \in Int
           /\ PositionGiven(f, i) * n[i] <= NetAt(risk, n, c)[i]
  <1> DEFINE h == MovesGiven(f, i)  D == DOMAIN Intents  k == [o \in D |-> n[i] * h[o]]
             R == RisesAt(risk, n, c, i)  P == Position(risk, i)
  <1>1. /\ IsFiniteSet(D) /\ n[i] \in Int /\ P \in Int
        /\ \A o \in D : h[o] \in Int
        /\ \A o \in D : k[o] = n[i] * h[o]
        /\ SumOf(h, D) \in Int /\ PositionGiven(f, i) = P + SumOf(h, D)
    BY BooksAreWhole, FillsArePart, PositionIs DEF IntentsAreSound, Sheet
  <1>2. /\ NetAt(risk, n, c)[i] = P * n[i] + SumOf(R, D)
        /\ SumOf(R, D) \in Int /\ NetAt(risk, n, c)[i] \in Int
        /\ \A o \in D : R[o] \in Int
        /\ \A o \in D : R[o] = IF o = c THEN Moves(risk, i)[o] * n[i]
                               ELSE Larger(0, Moves(risk, i)[o] * n[i])
    BY NetIsWhole
  <1>3. GivenTo(f, c) = Left(risk, c)
    <2>1. risk.orders[c].filled + GivenTo(f, c) = Intents[c].units
      BY DEF Completes, GivenTo
    <2>2. /\ GivenTo(f, c) \in Nat /\ GivenTo(f, c) <= Left(risk, c) /\ Left(risk, c) \in Nat
          /\ risk.orders[c].filled \in Nat /\ Intents[c].units \in Nat
      BY FillsArePart, BooksAreWhole DEF IntentsAreSound
    <2>3. Works(risk, c) => Left(risk, c) = Intents[c].units - risk.orders[c].filled
      BY DEF Left, Remaining
    <2>4. ~Works(risk, c) => Left(risk, c) = 0
      BY DEF Left
    <2> QED BY <2>1, <2>2, <2>3, <2>4
  <1>4. ASSUME NEW o \in D
        PROVE  k[o] \in Int /\ k[o] <= R[o]
    <2> DEFINE g == GivenTo(f, o)  u == Left(risk, o)  l == Intents[o].legs[i]  e == l * n[i]
    <2>1. /\ g \in Nat /\ u \in Nat /\ g <= u /\ l \in Int
          /\ h[o] = g * l /\ Moves(risk, i)[o] = u * l
      BY FillsArePart, BooksAreWhole DEF IntentsAreSound
    <2>2. e \in Int /\ g * l * n[i] = g * e /\ u * l * n[i] = u * e
      <3>1. g \in Int /\ u \in Int /\ l \in Int /\ n[i] \in Int
        BY <1>1, <2>1
      <3> HIDE DEF g, u, l, h, k, R, P, D
      <3> QED BY <3>1, ProductsAreWhole, Reorders
    <2>3. g * e \in Int /\ u * e \in Int
      BY <2>1, <2>2, ProductsAreWhole
    <2>4. /\ e >= 0 => 0 <= g * e /\ g * e <= u * e
          /\ e <= 0 => u * e <= g * e /\ g * e <= 0
      BY <2>1, <2>2, PartOf
    <2>5. R[o] = IF o = c THEN u * e ELSE Larger(0, u * e)
      BY <1>2, <2>1, <2>2
    <2>6. k[o] = g * e
      <3>1. k[o] = n[i] * (g * l)
        BY <1>1, <2>1
      <3>2. n[i] * (g * l) = g * e
        BY <1>1, <2>1, <2>2, Reorders
      <3> QED BY <3>1, <3>2
    <2>7. o = c => g = u
      BY <1>3
    <2> HIDE DEF g, u, l, e, k, R
    <2> QED BY <2>2, <2>3, <2>4, <2>5, <2>6, <2>7 DEF Larger
  <1> HIDE DEF h, k, D, R, P
  <1>5. SumOf(k, D) = n[i] * SumOf(h, D)
    BY <1>1, SumScales
  <1>6. SumOf(k, D) <= SumOf(R, D) /\ SumOf(k, D) \in Int
    <2>1. \A o \in D : k[o] \in Int /\ R[o] \in Int /\ k[o] <= R[o]
      BY <1>2, <1>4
    <2>2. \A o \in D : k[o] \in Int
      BY <2>1
    <2> QED BY <1>1, <2>1, <2>2, SumGrows, SumOfParts
  <1>7. PositionGiven(f, i) * n[i] = P * n[i] + SumOf(k, D)
    <2>1. (P + SumOf(h, D)) * n[i] = P * n[i] + n[i] * SumOf(h, D)
      BY <1>1
    <2> QED BY <1>1, <1>5, <2>1
  <1>8. P * n[i] \in Int
    BY <1>1, ProductsAreWhole
  <1>9. PositionGiven(f, i) \in Int
    BY <1>1
  <1> QED BY <1>2, <1>6, <1>7, <1>8, <1>9

LEMMA RiskBounded ==
    ASSUME IntentsAreSound, RiskInv
    PROVE  ExposureBounded
  <1> SUFFICES ASSUME NEW f \in Fills
               PROVE  /\ \A i \in Instruments : PositionGiven(f, i) \in -MaxShort..MaxPosition
                      /\ risk.marks \in ruled.marks =>
                            /\ SumOver([s \in Strategies |-> BucketGiven(f, s)]) <= MaxGross
                            /\ \A s \in Strategies : BucketGiven(f, s) <= StrategyLimit
                            /\ Completes(f, ruled.order) => Abs(NetGiven(f)) <= MaxNet
    BY DEF ExposureBounded
  <1>1. risk \in RiskRecords /\ OrdersCounted(risk) /\ PositionsKept(risk) /\ OneWay(risk)
    BY DEF RiskInv, BooksAreSound
  <1>2. \A i \in Instruments : PositionGiven(f, i) \in -MaxShort..MaxPosition
    BY <1>1, PositionGivenFits
  <1>3. ASSUME risk.marks \in ruled.marks
        PROVE  /\ SumOver([s \in Strategies |-> BucketGiven(f, s)]) <= MaxGross
               /\ \A s \in Strategies : BucketGiven(f, s) <= StrategyLimit
               /\ Completes(f, ruled.order) => Abs(NetGiven(f)) <= MaxNet
    <2> DEFINE m == risk.marks  c == ruled.order
               given == [s \in Strategies |-> BucketGiven(f, s)]
               most == [s \in Strategies |-> BucketAt(risk, m, s)]
    <2>1. m \in Sheet /\ c \in DOMAIN Intents /\ ExposureKept(risk, m, c)
      BY <1>3 DEF RiskInv, RulingKept, Sheet
    <2>2. /\ IsFiniteSet(Strategies) /\ IsFiniteSet(Instruments)
          /\ MaxGross \in Int /\ MaxNet \in Int /\ StrategyLimit \in Int
      BY DEF IntentsAreSound
    <2>3. \A s \in Strategies :
             /\ BucketGiven(f, s) \in Int /\ BucketAt(risk, m, s) \in Int
             /\ BucketGiven(f, s) <= BucketAt(risk, m, s)
             /\ BucketAt(risk, m, s) <= StrategyLimit
      <3> TAKE s \in Strategies
      <3>1. BucketGiven(f, s) \in Int /\ BucketGiven(f, s) <= BucketAt(risk, m, s)
        BY <1>1, BucketGivenFits
      <3>2. BucketAt(risk, m, s) \in Int
        BY <1>1, <2>1, GrossIsWhole
      <3>3. BucketAt(risk, m, s) <= StrategyLimit
        BY <2>1 DEF ExposureKept
      <3> QED BY <3>1, <3>2, <3>3
    <2>4. SumOver(given) <= MaxGross
      <3>1. IsBelow(given, most, Strategies)
        BY <2>3 DEF IsBelow
      <3>2. \A s \in Strategies : given[s] \in Int
        BY <2>3
      <3>3. \A s \in Strategies : most[s] \in Int
        BY <2>3
      <3>4. SumOf(most, Strategies) <= MaxGross
        BY <2>1 DEF ExposureKept
      <3>5. SumOver(given) = SumOf(given, Strategies)
        BY SumOverIs
      <3> HIDE DEF given, most
      <3>6. SumOf(given, Strategies) <= SumOf(most, Strategies)
        BY <2>2, <3>1, SumBelow
      <3>7. SumOf(given, Strategies) \in Int
        BY <2>2, <3>2, SumOfParts
      <3>8. SumOf(most, Strategies) \in Int
        BY <2>2, <3>3, SumOfParts
      <3> QED BY <2>2, <3>4, <3>5, <3>6, <3>7, <3>8
    <2>5. \A s \in Strategies : BucketGiven(f, s) <= StrategyLimit
      BY <2>2, <2>3
    <2>6. ASSUME Completes(f, c) PROVE Abs(NetGiven(f)) <= MaxNet
      <3> DEFINE worth == [i \in Instruments |-> PositionGiven(f, i) * m[i]]
                 n == Opposite(m)
                 other == [i \in Instruments |-> PositionGiven(f, i) * n[i]]
                 N == NetAt(risk, m, c)  O == NetAt(risk, n, c)
      <3>1. n \in Sheet /\ \A i \in Instruments : n[i] = -m[i]
        BY <2>1, OppositeIsASheet
      <3>2. risk.orders[c].filled + Left(risk, c) = Intents[c].units
        <4>1. risk.orders[c].filled + GivenTo(f, c) = Intents[c].units
          BY <2>6 DEF Completes, GivenTo
        <4>2. /\ GivenTo(f, c) \in Nat /\ GivenTo(f, c) <= Left(risk, c)
              /\ Left(risk, c) \in Nat /\ risk.orders[c].filled \in Nat
              /\ Intents[c].units \in Nat
          BY <1>1, <2>1, FillsArePart, BooksAreWhole DEF IntentsAreSound
        <4>3. Works(risk, c) => Left(risk, c) = Intents[c].units - risk.orders[c].filled
          BY DEF Left, Remaining
        <4>4. ~Works(risk, c) => Left(risk, c) = 0
          BY DEF Left
        <4> QED BY <4>1, <4>2, <4>3, <4>4
      <3>3. HighestAt(risk, m, c) <= MaxNet /\ HighestAt(risk, n, c) <= MaxNet
        BY <2>1, <3>2 DEF ExposureKept
      <3>4. \A i \in Instruments :
               worth[i] \in Int /\ N[i] \in Int /\ worth[i] <= N[i]
        BY <1>1, <2>1, <2>6, NetGivenFits, NetIsWhole
      <3>5. \A i \in Instruments :
               other[i] \in Int /\ O[i] \in Int /\ other[i] <= O[i]
        BY <1>1, <2>1, <2>6, <3>1, NetGivenFits, NetIsWhole
      <3>6. \A i \in Instruments : worth[i] \in Int /\ other[i] = (-1) * worth[i]
        <4> TAKE i \in Instruments
        <4>1. PositionGiven(f, i) \in Int /\ m[i] \in Int /\ n[i] = -m[i]
          BY <1>1, <2>1, <2>6, <3>1, NetGivenFits DEF Sheet
        <4>2. PositionGiven(f, i) * (-m[i]) = -(PositionGiven(f, i) * m[i])
          BY <4>1, Negations
        <4>3. worth[i] = PositionGiven(f, i) * m[i] /\ other[i] = PositionGiven(f, i) * n[i]
          OBVIOUS
        <4>4. worth[i] \in Int
          BY <3>4
        <4> HIDE DEF worth, other, n, m
        <4> QED BY <4>1, <4>2, <4>3, <4>4
      <3>7. SumOver(worth) = SumOf(worth, Instruments) /\ NetGiven(f) = SumOver(worth)
        BY SumOverIs DEF NetGiven
      <3>8. HighestAt(risk, m, c) = SumOf(N, Instruments)
               /\ HighestAt(risk, n, c) = SumOf(O, Instruments)
        BY DEF HighestAt
      <3>9. HighestAt(risk, m, c) \in Int /\ HighestAt(risk, n, c) \in Int
        BY <1>1, <2>1, <3>1, NetIsWhole
      <3> HIDE DEF worth, other, n, N, O
      <3>10. SumOf(worth, Instruments) <= SumOf(N, Instruments)
        BY <2>2, <3>4, SumGrows
      <3>11. SumOf(other, Instruments) <= SumOf(O, Instruments)
        BY <2>2, <3>5, SumGrows
      <3>12. SumOf(other, Instruments) = (-1) * SumOf(worth, Instruments)
        BY <2>2, <3>6, -1 \in Int, SumScales
      <3>13. SumOf(worth, Instruments) \in Int
        BY <2>2, <3>4, SumOfParts
      <3> QED BY <2>2, <3>3, <3>7, <3>8, <3>9, <3>10, <3>11, <3>12, <3>13 DEF Abs
    <2> QED BY <2>4, <2>5, <2>6
  <1> QED BY <1>2, <1>3

-----------------------------------------------------------------------------
(* Steps.                                                                   *)

LEMMA Division ==
    ASSUME NEW D \in Nat \ {0}, NEW t \in Int
    PROVE  t \div D \in Int /\ (t \div D) * D <= t /\ t < (t \div D) * D + D
  OBVIOUS

LEMMA DivisionGrows ==
    ASSUME NEW D \in Nat \ {0}, NEW t \in Int, NEW u \in Int, t <= u
    PROVE  t \div D <= u \div D
  <1> DEFINE a == t \div D  b == u \div D
  <1>1. /\ a \in Int /\ b \in Int
        /\ a * D <= t /\ t < a * D + D /\ b * D <= u /\ u < b * D + D
    BY Division
  <1> HIDE DEF a, b
  <1>2. a * D < b * D + D /\ b * D + D = (b + 1) * D
    <2>1. a * D \in Int /\ b * D \in Int
      BY <1>1, ProductsAreWhole
    <2>2. b * D + D = (b + 1) * D
      BY <1>1
    <2> QED BY <1>1, <2>1, <2>2
  <1>3. ASSUME b + 1 <= a PROVE FALSE
    <2>1. (b + 1) * D <= a * D
      BY <1>1, <1>3
    <2>2. (b + 1) * D \in Int /\ a * D \in Int
      BY <1>1, ProductsAreWhole
    <2> QED BY <1>2, <2>1, <2>2
  <1>4. a <= b
    BY <1>1, <1>3
  <1> QED BY <1>4 DEF a, b

LEMMA EquityIsWhole ==
    ASSUME IntentsAreSound, NEW r \in RiskRecords
    PROVE  Equity(r) \in Int
  <1> DEFINE worth == [i \in Instruments |-> Position(r, i) * r.marks[i]]
  <1>1. IsFiniteSet(Instruments) /\ r.cash \in Int
    BY DEF IntentsAreSound, RiskRecords
  <1>2. \A i \in Instruments : worth[i] \in Int
    <2> TAKE i \in Instruments
    <2>1. r.owned[i] \in [Strategies -> Int] /\ r.marks[i] \in Int /\ IsFiniteSet(Strategies)
      BY DEF RiskRecords, IntentsAreSound
    <2>2. Position(r, i) = SumOf(r.owned[i], Strategies)
      BY <2>1, SumOverIs DEF Position
    <2>3. \A s \in Strategies : r.owned[i][s] \in Int
      BY <2>1
    <2>4. Position(r, i) \in Int
      BY <2>1, <2>2, <2>3, SumOfParts
    <2> QED BY <2>1, <2>4, ProductsAreWhole
  <1>3. SumOver(worth) = SumOf(worth, Instruments)
    BY SumOverIs
  <1>4. Equity(r) = r.cash + SumOver(worth)
    BY DEF Equity
  <1> HIDE DEF worth
  <1>5. SumOf(worth, Instruments) \in Int
    BY <1>1, <1>2, SumOfParts
  <1> QED BY <1>1, <1>3, <1>4, <1>5

(* Baselines, marks and switches do not touch the books.                    *)
LEMMA BooksStand ==
    ASSUME NEW r, NEW q, q.owned = r.owned, q.orders = r.orders
    PROVE  /\ OrdersCounted(r) => OrdersCounted(q)
           /\ PositionsKept(r) => PositionsKept(q)
           /\ OneWay(r) => OneWay(q)
           /\ \A ruling : RulingKept(r, ruling) => RulingKept(q, ruling)
  <1>1. OrdersCounted(r) => OrdersCounted(q)
    BY DEF OrdersCounted, Works
  <1>2. OneWay(r) => OneWay(q)
    BY DEF OneWay, Works
  <1>3. \A o : Left(q, o) = Left(r, o)
    BY DEF Left, Works, Remaining
  <1>4. \A i : Position(q, i) = Position(r, i) /\ Moves(q, i) = Moves(r, i)
    BY <1>3 DEF Position, Moves
  <1>5. PositionsKept(r) => PositionsKept(q)
    BY <1>4 DEF PositionsKept
  <1>6. \A m, s, i : RowsAt(q, m, s, i) = RowsAt(r, m, s, i)
    BY <1>4 DEF RowsAt
  <1>7. \A m, s : GrossAt(q, m, s) = GrossAt(r, m, s)
    BY <1>6 DEF GrossAt
  <1>8. \A m, s : BucketAt(q, m, s) = BucketAt(r, m, s)
    BY <1>7 DEF BucketAt
  <1>9. \A m, c, i : RisesAt(q, m, c, i) = RisesAt(r, m, c, i)
    BY <1>4 DEF RisesAt
  <1>10. \A m, c : NetAt(q, m, c) = NetAt(r, m, c)
    BY <1>4, <1>9 DEF NetAt
  <1>11. \A m, c : HighestAt(q, m, c) = HighestAt(r, m, c)
    BY <1>10 DEF HighestAt
  <1>12. \A m, c : ExposureKept(r, m, c) => ExposureKept(q, m, c)
    BY <1>3, <1>8, <1>11 DEF ExposureKept
  <1>13. \A ruling : RulingKept(r, ruling) => RulingKept(q, ruling)
    BY <1>12 DEF RulingKept
  <1> QED BY <1>1, <1>2, <1>5, <1>13

LEMMA EquityStands ==
    ASSUME NEW r, NEW q, q.owned = r.owned, q.marks = r.marks, q.cash = r.cash
    PROVE  Equity(q) = Equity(r)
  <1>1. \A i : Position(q, i) = Position(r, i)
    BY DEF Position
  <1> QED BY <1>1 DEF Equity

LEMMA DayIsWhole ==
    ASSUME IntentsAreSound, wall \in Nat
    PROVE  RiskDay \in Int
  BY Division DEF RiskDay, IntentsAreSound

(* An evaluation moves marks and baselines only.                            *)
LEMMA ObservedIs ==
    ASSUME IntentsAreSound, risk \in RiskRecords, wall \in Nat, NEW sheet \in Sheets, NEW o,
           NEW r, r = Observed(sheet, o)
    PROVE  /\ r \in RiskRecords
           /\ r.owned = risk.owned /\ r.cash = risk.cash /\ r.orders = risk.orders
           /\ r.switches = risk.switches
           /\ risk.peak <= r.peak /\ Equity(r) <= r.peak
           /\ r.day = RiskDay
           /\ risk.day = RiskDay => r.baseline = risk.baseline
  <1> DEFINE marks == [i \in Instruments |-> IF i \in LegsOf(o) THEN sheet[i] ELSE risk.marks[i]]
             marked == [risk EXCEPT !.marks = marks]
             raised == [marked EXCEPT !.peak = Larger(@, Equity(marked))]
  <1>1. marks \in [Instruments -> Int]
    BY DEF RiskRecords, IntentsAreSound
  <1> HIDE DEF marks
  <1>2. /\ marked \in RiskRecords
        /\ marked.owned = risk.owned /\ marked.cash = risk.cash /\ marked.orders = risk.orders
        /\ marked.switches = risk.switches /\ marked.peak = risk.peak
        /\ marked.day = risk.day /\ marked.baseline = risk.baseline /\ marked.marks = marks
    BY <1>1 DEF RiskRecords
  <1>3. Observed(sheet, o) = Based(raised)
    BY DEF Observed, marks
  <1> HIDE DEF marked
  <1>4. Equity(marked) \in Int /\ marked.peak \in Int /\ risk.peak \in Int
    BY <1>2, EquityIsWhole DEF RiskRecords
  <1> DEFINE most == Larger(marked.peak, Equity(marked))
  <1>5. most \in Int /\ marked.peak <= most /\ Equity(marked) <= most
    BY <1>4 DEF Larger
  <1> HIDE DEF most
  <1>6. raised = [marked EXCEPT !.peak = most]
    BY DEF most
  <1> HIDE DEF raised
  <1>7. /\ raised \in RiskRecords /\ raised.peak = most
        /\ raised.owned = marked.owned /\ raised.cash = marked.cash
        /\ raised.orders = marked.orders /\ raised.switches = marked.switches
        /\ raised.day = marked.day /\ raised.baseline = marked.baseline
        /\ raised.marks = marked.marks
    BY <1>2, <1>5, <1>6 DEF RiskRecords
  <1>8. Equity(raised) = Equity(marked)
    BY <1>7, EquityStands
  <1>9. CASE raised.day = RiskDay
    <2>1. r = raised
      BY <1>3, <1>9 DEF Based
    <2> QED BY <1>2, <1>5, <1>7, <1>8, <1>9, <2>1
  <1>10. CASE raised.day # RiskDay
    <2>1. r = [raised EXCEPT !.day = RiskDay, !.baseline = Equity(raised)]
      BY <1>3, <1>10 DEF Based
    <2>2. RiskDay \in Int /\ Equity(raised) \in Int
      BY <1>4, <1>8, DayIsWhole
    <2>3. /\ r \in RiskRecords /\ r.day = RiskDay /\ r.peak = raised.peak
          /\ r.owned = raised.owned /\ r.cash = raised.cash /\ r.orders = raised.orders
          /\ r.switches = raised.switches /\ r.marks = raised.marks
      BY <1>7, <2>1, <2>2 DEF RiskRecords
    <2>4. Equity(r) = Equity(raised)
      BY <2>3, EquityStands
    <2> QED BY <1>2, <1>5, <1>7, <1>8, <1>10, <2>3, <2>4
  <1> QED BY <1>9, <1>10

LEMMA RiskStarts ==
    ASSUME IntentsAreSound, RiskInit
    PROVE  RiskInv
  <1>1. /\ risk = [owned |-> [i \in Instruments |-> [s \in Strategies |-> 0]], cash |-> Cash,
                   marks |-> FirstSheet, orders |-> [o \in DOMAIN Intents |-> NoOrder],
                   peak |-> Cash, day |-> -1, baseline |-> 0, switches |-> {}]
        /\ riskDisk = risk /\ wall = 0 /\ ruled.marks = {}
    BY DEF RiskInit
  <1>2. NoOrder \in OrderRecords /\ NoOrder.state = "NONE" /\ NoOrder.filled = 0
    BY DEF NoOrder, OrderRecords
  <1>3. /\ risk \in RiskRecords
        /\ risk.owned = [i \in Instruments |-> [s \in Strategies |-> 0]]
        /\ risk.peak = Cash /\ risk.day = -1 /\ risk.baseline = 0
        /\ \A o \in DOMAIN Intents : risk.orders[o] = NoOrder
    BY <1>1, <1>2 DEF RiskRecords, IntentsAreSound
  <1>4. \A o \in DOMAIN Intents : ~Works(risk, o) /\ Left(risk, o) = 0
    BY <1>2, <1>3 DEF Works, Left
  <1>5. OrdersCounted(risk)
    BY <1>2, <1>3, <1>4 DEF OrdersCounted, IntentsAreSound
  <1>6. OneWay(risk)
    BY <1>4 DEF OneWay
  <1>7. PositionsKept(risk)
    <2> SUFFICES ASSUME NEW i \in Instruments
                 PROVE  /\ InRange(Position(risk, i))
                        /\ InRange(Position(risk, i) + SumOf(Moves(risk, i), DOMAIN Intents))
      BY DEF PositionsKept
    <2> DEFINE owns == risk.owned[i]  moves == Moves(risk, i)
    <2>1. \A s \in Strategies : owns[s] = 0
      BY <1>3
    <2>2. \A o \in DOMAIN Intents : moves[o] = 0
      <3> TAKE o \in DOMAIN Intents
      <3>1. moves[o] = 0 * Intents[o].legs[i] /\ Intents[o].legs[i] \in Int
        BY <1>4 DEF Moves, IntentsAreSound
      <3> QED BY <3>1
    <2>3. IsFiniteSet(Strategies) /\ IsFiniteSet(DOMAIN Intents)
      BY DEF IntentsAreSound
    <2>4. Position(risk, i) = SumOf(owns, Strategies)
      BY <1>3, <1>5, BooksAreWhole
    <2> HIDE DEF owns, moves
    <2>5. SumOf(owns, Strategies) = 0
      BY <2>1, <2>3, SumOfZeros
    <2>6. SumOf(moves, DOMAIN Intents) = 0
      BY <2>2, <2>3, SumOfZeros
    <2>7. InRange(0)
      BY DEF InRange, IntentsAreSound
    <2> QED BY <2>4, <2>5, <2>6, <2>7 DEF moves
  <1>8. MemoryLeads
    <2>1. wall \in Nat /\ DayLength \in Nat \ {0} /\ RiskDay \in Int /\ -1 <= RiskDay
      <3>1. wall = 0 /\ DayLength \in Nat \ {0}
        BY <1>1 DEF IntentsAreSound
      <3>2. RiskDay \in Int /\ wall < RiskDay * DayLength + DayLength
        BY <3>1, Division DEF RiskDay
      <3>3. (-2) * DayLength + DayLength < 0
        BY <3>1
      <3>4. ASSUME RiskDay <= -2 PROVE FALSE
        <4>1. RiskDay * DayLength <= (-2) * DayLength
          BY <3>1, <3>2, <3>4
        <4>2. RiskDay * DayLength \in Int /\ (-2) * DayLength \in Int
          BY <3>1, <3>2, ProductsAreWhole
        <4> QED BY <3>1, <3>2, <3>3, <4>1, <4>2
      <3> QED BY <3>1, <3>2, <3>4
    <2> QED BY <1>1, <1>3, <2>1 DEF MemoryLeads, IntentsAreSound
  <1> QED BY <1>1, <1>3, <1>5, <1>6, <1>7, <1>8
          DEF RiskInv, BooksAreSound, RulingKept

(* What is saved is what memory holds.                                      *)
LEMMA SavedKeeps ==
    ASSUME IntentsAreSound, RiskInv, NEW q, SaveRisk(q), BooksAreSound(q), wall' = wall,
           0 <= q.peak, q.day <= RiskDay, RulingKept(q, ruled')
    PROVE  RiskInv'
  <1>1. risk' = q /\ riskDisk' = q
    BY DEF SaveRisk
  <1>2. RiskDay' = RiskDay
    BY DEF RiskDay
  <1>4. q \in RiskRecords /\ q.peak \in Int /\ q.day \in Int
    BY DEF BooksAreSound, RiskRecords
  <1>5. MemoryLeads'
    BY <1>1, <1>2, <1>4 DEF MemoryLeads
  <1>6. BooksAreSound(risk)' /\ RulingKept(risk, ruled)' /\ riskDisk' \in RiskRecords
    BY <1>1, <1>4 DEF BooksAreSound, RulingKept, PositionsKept, OrdersCounted, OneWay
  <1> QED BY <1>5, <1>6 DEF RiskInv

LEMMA PeaksAreNatural ==
    ASSUME RiskInv
    PROVE  risk.peak \in Int /\ 0 <= risk.peak /\ risk.day \in Int /\ risk.day <= RiskDay
  <1>1. /\ risk.peak \in Int /\ riskDisk.peak \in Int /\ risk.day \in Int
    BY DEF RiskInv, BooksAreSound, RiskRecords
  <1> QED BY <1>1 DEF RiskInv, MemoryLeads

LEMMA DebitIsWhole ==
    ASSUME IntentsAreSound, NEW r \in RiskRecords, NEW o \in DOMAIN Intents
    PROVE  Debit(r, o) \in Int
  <1> DEFINE debit == [i \in Instruments |-> Intents[o].legs[i] * r.marks[i]]
  <1>1. \A i \in Instruments : debit[i] \in Int
    <2> TAKE i \in Instruments
    <2>1. Intents[o].legs[i] \in Int /\ r.marks[i] \in Int
      BY DEF IntentsAreSound, RiskRecords
    <2> QED BY <2>1, ProductsAreWhole
  <1>2. SumOver(debit) = SumOf(debit, Instruments) /\ Debit(r, o) = SumOver(debit)
    BY SumOverIs DEF Debit
  <1>3. IsFiniteSet(Instruments)
    BY DEF IntentsAreSound
  <1> HIDE DEF debit
  <1> QED BY <1>1, <1>2, <1>3, SumOfParts

LEMMA SubmitKeeps ==
    ASSUME IntentsAreSound, RiskInv, NEW o \in DOMAIN Intents, NEW sheet \in Sheets,
           Submit(o, sheet)
    PROVE  RiskInv'
  <1> DEFINE r == Observed(sheet, o)
  <1>1. risk \in RiskRecords /\ wall \in Nat /\ BooksAreSound(risk) /\ RulingKept(risk, ruled)
    BY DEF RiskInv, BooksAreSound
  <1>2. /\ r \in RiskRecords /\ r.owned = risk.owned /\ r.orders = risk.orders
        /\ risk.peak <= r.peak /\ r.day = RiskDay
    BY <1>1, ObservedIs
  <1>3. BooksAreSound(r) /\ RulingKept(r, ruled)
    BY <1>1, <1>2, BooksStand DEF BooksAreSound
  <1>4. r.peak \in Int /\ 0 <= r.peak /\ r.day <= RiskDay
    <2>1. r.peak \in Int
      BY <1>2 DEF RiskRecords
    <2>2. risk.peak \in Int /\ 0 <= risk.peak /\ RiskDay \in Int
      BY <1>1, PeaksAreNatural, DayIsWhole
    <2> QED BY <1>2, <2>1, <2>2
  <1>5. wall' = wall /\ r.orders[o].state = "NONE"
    BY <1>2 DEF Submit
  <1>6. CASE ~Approves(r, o)
    <2>1. SaveRisk(r) /\ ruled' = ruled
      BY <1>6 DEF Submit
    <2> QED BY <1>3, <1>4, <1>5, <2>1, SavedKeeps
  <1>7. CASE Approves(r, o)
    <2> DEFINE order == [state |-> "WORKING", filled |-> 0, price |-> Debit(r, o), at |-> wall]
               q == [r EXCEPT !.orders[o] = order]
    <2>1. /\ SaveRisk(q)
          /\ ruled' = [marks |-> IF Equity(r) > 0 THEN {r.marks} ELSE {}, order |-> o]
      BY <1>7 DEF Submit
    <2> HIDE DEF r
    <2>2. order \in OrderRecords
      <3>1. Debit(r, o) \in Int
        BY <1>2, DebitIsWhole
      <3> QED BY <1>1, <3>1 DEF OrderRecords
    <2>3. order.state = "WORKING" /\ order.filled = 0
      OBVIOUS
    <2> HIDE DEF order
    <2>4. /\ q \in RiskRecords /\ q.owned = r.owned /\ q.peak = r.peak /\ q.day = r.day
          /\ q.orders = [r.orders EXCEPT ![o] = order]
      BY <1>2, <2>2 DEF RiskRecords
    <2>5. /\ q.orders[o] = order
          /\ \A p \in DOMAIN Intents \ {o} : q.orders[p] = r.orders[p]
      BY <1>2, <2>4 DEF RiskRecords
    <2> HIDE DEF q
    <2>6. Joins(r, q, o)
      BY <1>5, <2>3, <2>4, <2>5 DEF Joins, Works
    <2>7. OrdersCounted(q)
      <3> SUFFICES ASSUME NEW p \in DOMAIN Intents
                   PROVE  /\ q.orders[p].filled <= Intents[p].units
                          /\ q.orders[p].state = "NONE" => q.orders[p].filled = 0
                          /\ Works(q, p) => q.orders[p].filled < Intents[p].units
        BY DEF OrdersCounted
      <3>1. CASE p = o
        BY <2>3, <2>5, <3>1 DEF IntentsAreSound
      <3>2. CASE p # o
        BY <1>3, <2>5, <3>2 DEF BooksAreSound, OrdersCounted, Works
      <3> QED BY <3>1, <3>2
    <2>8. OrdersCounted(r) /\ PositionsKept(r) /\ OneWay(r)
      BY <1>3 DEF BooksAreSound
    <2>9. ~OppositeSides(r, o)
      BY <1>7 DEF Approves
    <2>10. \A i \in LegsOf(o) : Committed(r, o, i) \in -MaxShort..MaxPosition
      BY <1>7 DEF Approves
    <2>11. PositionsKept(q)
      BY <1>2, <2>4, <2>6, <2>7, <2>8, <2>10, JoinPositions
    <2>12. OneWay(q)
      BY <1>2, <2>6, <2>8, <2>9, JoinOneWay
    <2>13. RulingKept(q, ruled')
      <3>1. ruled'.marks = (IF Equity(r) > 0 THEN {r.marks} ELSE {}) /\ ruled'.order = o
        BY <2>1
      <3> SUFFICES ASSUME Equity(r) > 0
                   PROVE  r.marks \in [Instruments -> Int] /\ ExposureKept(q, r.marks, o)
        BY <3>1 DEF RulingKept
      <3>2. r.marks \in [Instruments -> Int]
        BY <1>2 DEF RiskRecords
      <3>3. AggregateFits(r, o)
        BY <1>7 DEF Approves
      <3> QED BY <1>2, <2>4, <2>6, <2>7, <2>8, <3>2, <3>3, ApprovalKeeps
    <2> QED BY <1>4, <1>5, <2>1, <2>4, <2>7, <2>11, <2>12, <2>13, SavedKeeps
            DEF BooksAreSound
  <1> QED BY <1>6, <1>7

LEMMA AssessKeeps ==
    ASSUME IntentsAreSound, RiskInv, NEW o \in DOMAIN Intents, NEW sheet \in Sheets,
           Assess(o, sheet)
    PROVE  RiskInv'
  <1>1. risk \in RiskRecords /\ riskDisk \in RiskRecords /\ wall \in Nat
    BY DEF RiskInv, BooksAreSound
  <1>2. /\ risk' = Observed(sheet, o)
        /\ riskDisk' = riskDisk /\ wall' = wall /\ ruled' = ruled
    BY DEF Assess
  <1>3. /\ risk' \in RiskRecords
        /\ risk'.owned = risk.owned /\ risk'.cash = risk.cash /\ risk'.orders = risk.orders
        /\ risk'.switches = risk.switches /\ risk.peak <= risk'.peak
        /\ risk'.day = RiskDay /\ (risk.day = RiskDay => risk'.baseline = risk.baseline)
    BY <1>1, <1>2, ObservedIs
  <1>4. BooksAreSound(risk') /\ RulingKept(risk', ruled)
    BY <1>3, BooksStand DEF RiskInv, BooksAreSound
  <1>5. /\ RiskDay \in Int /\ risk.day \in Int /\ riskDisk.day \in Int
        /\ risk.peak \in Int /\ risk'.peak \in Int /\ riskDisk.peak \in Int
    BY <1>1, <1>3, DayIsWhole DEF RiskRecords
  <1>6. RiskDay' = RiskDay
    BY <1>2 DEF RiskDay
  <1>7. MemoryLeads'
    <2>1. MemoryLeads
      BY DEF RiskInv
    <2> QED BY <1>2, <1>3, <1>5, <1>6, <2>1 DEF MemoryLeads
  <1>8. BooksAreSound(risk)' /\ RulingKept(risk, ruled)'
    BY <1>2, <1>4 DEF BooksAreSound, RulingKept, PositionsKept, OrdersCounted, OneWay
  <1> QED BY <1>1, <1>2, <1>7, <1>8 DEF RiskInv

(* A fill, or an end, progresses the order.                                 *)
LEMMA ProgressKeeps ==
    ASSUME IntentsAreSound, RiskInv, NEW o \in DOMAIN Intents, NEW d, NEW q, SaveRisk(q),
           Progresses(risk, q, o, d), q \in RiskRecords, OrdersCounted(q),
           q.peak = risk.peak, q.day = risk.day, wall' = wall, ruled' = ruled
    PROVE  RiskInv'
  <1>1. /\ risk \in RiskRecords /\ OrdersCounted(risk) /\ PositionsKept(risk) /\ OneWay(risk)
        /\ RulingKept(risk, ruled)
    BY DEF RiskInv, BooksAreSound
  <1>2. PositionsKept(q)
    BY <1>1, PositionsProgress
  <1>3. OneWay(q)
    BY <1>1, OneWayProgress
  <1>4. RulingKept(q, ruled)
    <2> SUFFICES ASSUME NEW m \in ruled.marks
                 PROVE  /\ m \in [Instruments -> Int] /\ ruled.order \in DOMAIN Intents
                        /\ ExposureKept(q, m, ruled.order)
      BY DEF RulingKept
    <2>1. /\ m \in Sheet /\ ruled.order \in DOMAIN Intents
          /\ ExposureKept(risk, m, ruled.order)
      BY <1>1 DEF RulingKept, Sheet
    <2>2. ExposureKept(q, m, ruled.order)
      BY <1>1, <2>1, ExposureProgress
    <2> QED BY <2>1, <2>2 DEF Sheet
  <1>5. 0 <= q.peak /\ q.day <= RiskDay
    BY PeaksAreNatural
  <1> QED BY <1>2, <1>3, <1>4, <1>5, SavedKeeps DEF BooksAreSound

LEMMA FillKeeps ==
    ASSUME IntentsAreSound, RiskInv, NEW o \in DOMAIN Intents, Fill(o)
    PROVE  RiskInv'
  <1> DEFINE s == Intents[o].strategy  l == Intents[o].legs
             owned == [i \in Instruments |-> [risk.owned[i] EXCEPT ![s] = @ + l[i]]]
             left == Remaining(risk, o)
             order == [risk.orders[o] EXCEPT !.filled = @ + 1,
                                             !.state = IF left = 1 THEN "DONE" ELSE @]
             q == [risk EXCEPT !.owned = owned, !.cash = @ - risk.orders[o].price,
                               !.orders[o].filled = @ + 1,
                               !.orders[o].state = IF left = 1 THEN "DONE" ELSE @]
  <1>1. risk \in RiskRecords /\ OrdersCounted(risk)
    BY DEF RiskInv, BooksAreSound
  <1>2. Works(risk, o) /\ SaveRisk(q) /\ wall' = wall /\ ruled' = ruled
    BY DEF Fill
  <1>3. /\ s \in Strategies /\ l \in [Instruments -> Int] /\ Intents[o].units \in Nat
        /\ risk.orders[o] \in OrderRecords /\ risk.orders[o].state = "WORKING"
        /\ risk.owned \in [Instruments -> [Strategies -> Int]]
        /\ risk.orders[o].filled \in Nat
    BY <1>1, <1>2 DEF IntentsAreSound, RiskRecords, Works, OrderRecords
  <1>4. /\ left \in Nat /\ left > 0 /\ left = Intents[o].units - risk.orders[o].filled
        /\ Left(risk, o) = left
    BY <1>1, <1>2, <1>3, BooksAreWhole DEF Remaining
  <1> HIDE DEF left, s, l
  <1>5. /\ owned \in [Instruments -> [Strategies -> Int]]
        /\ \A i \in Instruments : \A t \in Strategies :
              owned[i][t] = risk.owned[i][t] + IF t = s THEN 1 * l[i] ELSE 0
    BY <1>3
  <1>6. /\ order \in OrderRecords /\ order.filled = risk.orders[o].filled + 1
        /\ order.state = IF left = 1 THEN "DONE" ELSE "WORKING"
    <2> DEFINE more == risk.orders[o].filled + 1
               state == IF left = 1 THEN "DONE" ELSE risk.orders[o].state
    <2>1. more \in Nat /\ state \in {"NONE", "WORKING", "DONE"}
      BY <1>3
    <2>2. order = [risk.orders[o] EXCEPT !.filled = more, !.state = state]
      BY <1>3 DEF OrderRecords
    <2>3. state = IF left = 1 THEN "DONE" ELSE "WORKING"
      BY <1>3
    <2>4. more = risk.orders[o].filled + 1
      OBVIOUS
    <2> HIDE DEF more, state, order
    <2>5. order \in OrderRecords /\ order.filled = more /\ order.state = state
      BY <1>3, <2>1, <2>2 DEF OrderRecords
    <2> QED BY <2>3, <2>4, <2>5
  <1> HIDE DEF owned
  <1>7. /\ q \in RiskRecords /\ q.owned = owned /\ q.peak = risk.peak /\ q.day = risk.day
        /\ q.orders[o] = order
        /\ \A p \in DOMAIN Intents \ {o} : q.orders[p] = risk.orders[p]
    <2>1. q = [risk EXCEPT !.owned = owned, !.cash = @ - risk.orders[o].price,
                           !.orders = [@ EXCEPT ![o] = order]]
      BY <1>1, <1>3 DEF RiskRecords, OrderRecords
    <2> HIDE DEF q, order
    <2>2. risk.cash - risk.orders[o].price \in Int
      BY <1>1, <1>3 DEF RiskRecords, OrderRecords
    <2>3. [risk.orders EXCEPT ![o] = order] \in [DOMAIN Intents -> OrderRecords]
      BY <1>1, <1>6 DEF RiskRecords
    <2>4. /\ q \in RiskRecords /\ q.owned = owned /\ q.peak = risk.peak /\ q.day = risk.day
          /\ q.orders = [risk.orders EXCEPT ![o] = order]
      BY <1>1, <1>5, <2>1, <2>2, <2>3 DEF RiskRecords
    <2>5. risk.orders \in [DOMAIN Intents -> OrderRecords]
      BY <1>1 DEF RiskRecords
    <2> QED BY <2>4, <2>5
  <1> HIDE DEF q, order
  <1>8. Left(q, o) = left - 1
    <2>1. Works(q, o) <=> left # 1
      BY <1>6, <1>7 DEF Works
    <2>2. Remaining(q, o) = left - 1
      <3>1. Remaining(q, o) = Intents[o].units - (risk.orders[o].filled + 1)
        BY <1>6, <1>7 DEF Remaining
      <3> QED BY <1>3, <1>4, <3>1
    <2> QED BY <1>4, <2>1, <2>2 DEF Left
  <1>9. Progresses(risk, q, o, 1)
    BY <1>2, <1>4, <1>5, <1>6, <1>7, <1>8 DEF Progresses, s, l
  <1>10. OrdersCounted(q)
    <2> SUFFICES ASSUME NEW p \in DOMAIN Intents
                 PROVE  /\ q.orders[p].filled <= Intents[p].units
                        /\ q.orders[p].state = "NONE" => q.orders[p].filled = 0
                        /\ Works(q, p) => q.orders[p].filled < Intents[p].units
      BY DEF OrdersCounted
    <2>1. CASE p = o
      <3>1. q.orders[o].filled = risk.orders[o].filled + 1
        BY <1>6, <1>7
      <3>2. q.orders[o].state # "NONE" /\ (Works(q, o) => left # 1)
        BY <1>6, <1>7 DEF Works
      <3>3. /\ q.orders[o].filled <= Intents[o].units
            /\ left # 1 => q.orders[o].filled < Intents[o].units
        <4> DEFINE a == risk.orders[o].filled  b == Intents[o].units
        <4>1. a \in Nat /\ b \in Nat /\ left = b - a /\ left > 0
          BY <1>3, <1>4
        <4> HIDE DEF a, b
        <4>2. a + 1 <= b /\ (left # 1 => a + 1 < b)
          BY <4>1
        <4> QED BY <3>1, <4>2 DEF a, b
      <3> QED BY <2>1, <3>2, <3>3
    <2>2. CASE p # o
      BY <1>1, <1>7, <2>2 DEF OrdersCounted, Works
    <2> QED BY <2>1, <2>2
  <1> QED BY <1>2, <1>7, <1>9, <1>10, ProgressKeeps

LEMMA EndKeeps ==
    ASSUME IntentsAreSound, RiskInv, NEW o \in DOMAIN Intents, EndOrder(o)
    PROVE  RiskInv'
  <1> DEFINE order == [risk.orders[o] EXCEPT !.state = "DONE"]
             q == [risk EXCEPT !.orders[o].state = "DONE"]
  <1>1. risk \in RiskRecords /\ OrdersCounted(risk)
    BY DEF RiskInv, BooksAreSound
  <1>2. Works(risk, o) /\ SaveRisk(q) /\ wall' = wall /\ ruled' = ruled
    BY DEF EndOrder
  <1>3. /\ risk.orders[o] \in OrderRecords /\ risk.orders \in [DOMAIN Intents -> OrderRecords]
        /\ Intents[o].strategy \in Strategies /\ Intents[o].legs \in [Instruments -> Int]
    BY <1>1 DEF RiskRecords, IntentsAreSound
  <1>4. /\ order \in OrderRecords /\ order.filled = risk.orders[o].filled
        /\ order.state = "DONE" /\ order.filled \in Nat
    BY <1>3 DEF OrderRecords
  <1>5. /\ q \in RiskRecords /\ q.owned = risk.owned /\ q.peak = risk.peak /\ q.day = risk.day
        /\ q.orders[o] = order
        /\ \A p \in DOMAIN Intents \ {o} : q.orders[p] = risk.orders[p]
    <2>1. q = [risk EXCEPT !.orders = [@ EXCEPT ![o] = order]]
      BY <1>1, <1>3 DEF RiskRecords, OrderRecords
    <2> HIDE DEF q, order
    <2>2. [risk.orders EXCEPT ![o] = order] \in [DOMAIN Intents -> OrderRecords]
      BY <1>3, <1>4
    <2>3. /\ q \in RiskRecords /\ q.owned = risk.owned /\ q.peak = risk.peak
          /\ q.day = risk.day /\ q.orders = [risk.orders EXCEPT ![o] = order]
      BY <1>1, <2>1, <2>2 DEF RiskRecords
    <2> QED BY <1>3, <2>3
  <1> HIDE DEF q, order
  <1>6. Left(q, o) = 0 /\ Left(risk, o) \in Nat
    BY <1>1, <1>4, <1>5, BooksAreWhole DEF Left, Works
  <1>7. \A i \in Instruments : \A s \in Strategies :
           q.owned[i][s] = risk.owned[i][s]
                               + IF s = Intents[o].strategy THEN 0 * Intents[o].legs[i] ELSE 0
    <2> TAKE i \in Instruments
    <2> TAKE s \in Strategies
    <2>1. Intents[o].legs[i] \in Int /\ risk.owned[i][s] \in Int
      BY <1>1, <1>3, BooksAreWhole
    <2>2. 0 * Intents[o].legs[i] = 0
      BY <2>1
    <2> QED BY <1>5, <2>1, <2>2
  <1>8. Progresses(risk, q, o, 0)
    BY <1>2, <1>4, <1>5, <1>6, <1>7 DEF Progresses
  <1>9. OrdersCounted(q)
    BY <1>1, <1>4, <1>5 DEF OrdersCounted, Works
  <1> QED BY <1>2, <1>5, <1>8, <1>9, ProgressKeeps

(* A step that moves neither the books nor their orders.                    *)
LEMMA SwitchKeeps ==
    ASSUME IntentsAreSound, RiskInv, NEW switches \in SUBSET Scopes,
           SaveRisk([risk EXCEPT !.switches = switches]), wall' = wall, ruled' = ruled
    PROVE  RiskInv'
  <1> DEFINE q == [risk EXCEPT !.switches = switches]
  <1>1. risk \in RiskRecords /\ BooksAreSound(risk) /\ RulingKept(risk, ruled)
    BY DEF RiskInv, BooksAreSound
  <1>2. /\ q \in RiskRecords /\ q.owned = risk.owned /\ q.orders = risk.orders
        /\ q.peak = risk.peak /\ q.day = risk.day
    BY <1>1 DEF RiskRecords
  <1>3. SaveRisk(q)
    OBVIOUS
  <1> HIDE DEF q
  <1>4. BooksAreSound(q) /\ RulingKept(q, ruled)
    BY <1>1, <1>2, BooksStand DEF BooksAreSound
  <1>5. 0 <= q.peak /\ q.day <= RiskDay
    BY <1>2, PeaksAreNatural
  <1> QED BY <1>3, <1>4, <1>5, SavedKeeps

LEMMA RestartKeeps ==
    ASSUME IntentsAreSound, RiskInv, RestartRisk
    PROVE  RiskInv'
  <1> DEFINE peak == Larger(riskDisk.peak, Equity(riskDisk))
  <1>1. /\ risk \in RiskRecords /\ riskDisk \in RiskRecords /\ wall \in Nat
        /\ BooksAreSound(risk) /\ RulingKept(risk, ruled) /\ MemoryLeads
    BY DEF RiskInv, BooksAreSound
  <1>2. /\ risk' = [riskDisk EXCEPT !.peak = peak]
        /\ riskDisk' = riskDisk /\ wall' = wall /\ ruled' = ruled
    BY DEF RestartRisk
  <1>3. riskDisk.peak \in Int /\ Equity(riskDisk) \in Int
    BY <1>1, EquityIsWhole DEF RiskRecords
  <1>4. peak \in Int /\ riskDisk.peak <= peak
    BY <1>3 DEF Larger
  <1> HIDE DEF peak
  <1>5. /\ risk' \in RiskRecords
        /\ risk'.owned = riskDisk.owned /\ risk'.cash = riskDisk.cash
        /\ risk'.orders = riskDisk.orders /\ risk'.switches = riskDisk.switches
        /\ risk'.peak = peak /\ risk'.day = riskDisk.day /\ risk'.baseline = riskDisk.baseline
    BY <1>1, <1>2, <1>4 DEF RiskRecords
  <1>6. riskDisk.owned = risk.owned /\ riskDisk.orders = risk.orders
    BY <1>1 DEF MemoryLeads
  <1>7. BooksAreSound(risk') /\ RulingKept(risk', ruled)
    BY <1>1, <1>5, <1>6, BooksStand DEF BooksAreSound
  <1>8. RiskDay' = RiskDay
    BY <1>2 DEF RiskDay
  <1>9. MemoryLeads'
    <2>1. /\ risk.day \in Int /\ riskDisk.day \in Int /\ RiskDay \in Int
          /\ riskDisk.day <= risk.day /\ risk.day <= RiskDay /\ 0 <= riskDisk.peak
      BY <1>1, DayIsWhole DEF RiskRecords, MemoryLeads
    <2> QED BY <1>2, <1>4, <1>5, <1>8, <2>1 DEF MemoryLeads
  <1>10. BooksAreSound(risk)' /\ RulingKept(risk, ruled)'
    BY <1>2, <1>7 DEF BooksAreSound, RulingKept, PositionsKept, OrdersCounted, OneWay
  <1> QED BY <1>1, <1>2, <1>9, <1>10 DEF RiskInv

LEMMA TickKeeps ==
    ASSUME IntentsAreSound, RiskInv, TickRisk
    PROVE  RiskInv'
  <1>1. /\ wall' = wall + 1 /\ risk' = risk /\ riskDisk' = riskDisk /\ ruled' = ruled
        /\ wall \in Nat
    BY DEF TickRisk, RiskInv
  <1>2. RiskDay <= RiskDay' /\ RiskDay \in Int /\ RiskDay' \in Int
    <2>1. wall \in Int /\ wall + 1 \in Int /\ wall <= wall + 1 /\ DayLength \in Nat \ {0}
      BY <1>1 DEF IntentsAreSound
    <2>2. wall \div DayLength <= (wall + 1) \div DayLength
      BY <2>1, DivisionGrows
    <2>3. wall \div DayLength \in Int /\ (wall + 1) \div DayLength \in Int
      BY <2>1, Division
    <2>4. RiskDay = wall \div DayLength /\ RiskDay' = (wall + 1) \div DayLength
      BY <1>1 DEF RiskDay
    <2> QED BY <2>2, <2>3, <2>4
  <1>3. risk.day \in Int
    BY DEF RiskInv, BooksAreSound, RiskRecords
  <1>4. MemoryLeads'
    BY <1>1, <1>2, <1>3 DEF MemoryLeads, RiskInv
  <1>5. BooksAreSound(risk)' /\ RulingKept(risk, ruled)'
    BY <1>1 DEF RiskInv, BooksAreSound, RulingKept, PositionsKept, OrdersCounted, OneWay
  <1> QED BY <1>1, <1>4, <1>5 DEF RiskInv

LEMMA RiskSteps ==
    ASSUME IntentsAreSound, RiskInv, [RiskNext]_riskVars
    PROVE  RiskInv'
  <1>1. ASSUME NEW o \in DOMAIN Intents, NEW sheet \in Sheets, Submit(o, sheet)
        PROVE  RiskInv'
    BY <1>1, SubmitKeeps
  <1>2. ASSUME NEW o \in DOMAIN Intents, NEW sheet \in Sheets, Assess(o, sheet)
        PROVE  RiskInv'
    BY <1>2, AssessKeeps
  <1>3. ASSUME NEW o \in DOMAIN Intents, Fill(o) PROVE RiskInv'
    BY <1>3, FillKeeps
  <1>4. ASSUME NEW o \in DOMAIN Intents, EndOrder(o) PROVE RiskInv'
    BY <1>4, EndKeeps
  <1>5. ASSUME NEW scope \in Scopes, SwitchOn(scope) PROVE RiskInv'
    <2>1. risk.switches \union {scope} \in SUBSET Scopes
      BY DEF RiskInv, BooksAreSound, RiskRecords
    <2> QED BY <1>5, <2>1, SwitchKeeps DEF SwitchOn
  <1>6. ASSUME NEW scope \in Scopes, SwitchOff(scope) PROVE RiskInv'
    <2>1. risk.switches \ {scope} \in SUBSET Scopes
      BY DEF RiskInv, BooksAreSound, RiskRecords
    <2> QED BY <1>6, <2>1, SwitchKeeps DEF SwitchOff
  <1>7. CASE RestartRisk
    BY <1>7, RestartKeeps
  <1>8. CASE TickRisk
    BY <1>8, TickKeeps
  <1>9. CASE UNCHANGED riskVars
    BY <1>9 DEF riskVars, RiskInv, BooksAreSound, RulingKept, PositionsKept, OrdersCounted,
                OneWay, MemoryLeads, RiskDay
  <1> QED BY <1>1, <1>2, <1>3, <1>4, <1>5, <1>6, <1>7, <1>8, <1>9 DEF RiskNext

-----------------------------------------------------------------------------
(* What the limits look back on.                                            *)

LEMMA ProductsGrow ==
    ASSUME NEW a \in Int, NEW b \in Int, NEW n \in Int, 0 <= n, a <= b
    PROVE  a * n <= b * n
  OBVIOUS

LEMMA ProductsAreSigned ==
    \A a, b \in Int : /\ a > 0 /\ b > 0 => a * b > 0
                      /\ a >= 0 /\ b <= 0 => a * b <= 0
  OBVIOUS

(* A drawdown in whole parts of a peak R, against any lower peak p.         *)
LEMMA DrawdownIs ==
    ASSUME NEW p \in Int, NEW R \in Int, NEW E \in Int, NEW W \in Nat \ {0}, NEW D \in Int,
           0 <= p, p <= R, 0 < E, E <= R,
           (IF R > E THEN ((R - E) * W) \div R ELSE 0) <= D
    PROVE  (p - E) * W < (D + 1) * p
  <1> DEFINE k == W - D - 1
  <1>1. k \in Int /\ E * W \in Int /\ E * W > 0
    BY ProductsAreWhole, ProductsAreSigned
  <1>2. R * k < E * W
    <2>1. CASE R > E
      <3> DEFINE t == (R - E) * W  d == t \div R
      <3>1. t \in Int /\ R \in Nat \ {0} /\ d <= D
        BY <2>1, ProductsAreWhole
      <3>2. d \in Int /\ t < d * R + R
        BY <3>1, Division
      <3>3. t = R * W - E * W
        OBVIOUS
      <3> HIDE DEF t, d
      <3>4. d * R <= D * R
        BY <3>1, <3>2, ProductsGrow
      <3>5. d * R \in Int /\ D * R \in Int /\ R * W \in Int
        BY <3>2, ProductsAreWhole
      <3>6. R * k = R * W - D * R - R
        OBVIOUS
      <3> HIDE DEF k
      <3> QED BY <1>1, <3>1, <3>2, <3>3, <3>4, <3>5, <3>6
    <2>2. CASE ~(R > E)
      <3>1. R = E /\ 0 <= D
        BY <2>2
      <3>2. R * k = E * W - E * (D + 1)
        BY <3>1
      <3>3. E * (D + 1) \in Int /\ E * (D + 1) > 0
        BY <3>1, ProductsAreWhole, ProductsAreSigned
      <3> HIDE DEF k
      <3> QED BY <1>1, <3>2, <3>3
    <2> QED BY <2>1, <2>2
  <1>3. p * k < E * W
    <2> HIDE DEF k
    <2>1. p * k \in Int /\ R * k \in Int
      BY <1>1, ProductsAreWhole
    <2>2. CASE 0 <= k
      <3>1. p * k <= R * k
        BY <1>1, <2>2, ProductsGrow
      <3> QED BY <1>1, <1>2, <2>1, <3>1
    <2>3. CASE k < 0
      <3>1. p * k <= 0
        BY <1>1, <2>3, ProductsAreSigned
      <3> QED BY <1>1, <2>1, <3>1
    <2> QED BY <1>1, <2>2, <2>3
  <1>4. (p - E) * W = p * W - E * W /\ (D + 1) * p = p * W - p * k
    OBVIOUS
  <1>5. p * W \in Int /\ p * k \in Int
    BY <1>1, ProductsAreWhole
  <1> HIDE DEF k
  <1> QED BY <1>1, <1>3, <1>4, <1>5

LEMMA DaysPass ==
    ASSUME IntentsAreSound, RiskInv
    PROVE  /\ riskDisk.day \in Int /\ risk.day \in Int /\ RiskDay \in Int
           /\ riskDisk.day <= risk.day /\ risk.day <= RiskDay
           /\ riskDisk.peak \in Int /\ risk.peak \in Int
           /\ 0 <= riskDisk.peak /\ riskDisk.peak <= risk.peak
           /\ riskDisk.day = risk.day => riskDisk.baseline = risk.baseline
           /\ riskDisk.orders = risk.orders /\ riskDisk.switches = risk.switches
  <1>1. risk \in RiskRecords /\ riskDisk \in RiskRecords /\ wall \in Nat /\ MemoryLeads
    BY DEF RiskInv, BooksAreSound
  <1>2. /\ riskDisk.day \in Int /\ risk.day \in Int /\ RiskDay \in Int
        /\ riskDisk.peak \in Int /\ risk.peak \in Int
    BY <1>1, DayIsWhole DEF RiskRecords
  <1> QED BY <1>1, <1>2 DEF MemoryLeads

(* A record journaled without a new order.                                  *)
LEMMA LimitsWithoutOrder ==
    ASSUME IntentsAreSound, NEW q, riskDisk' = q,
           riskDisk.peak <= q.peak, riskDisk.peak \in Int, q.peak \in Int,
           riskDisk.day = q.day => riskDisk.baseline = q.baseline,
           \A o \in DOMAIN Intents :
              riskDisk.orders[o].state = "NONE" => q.orders[o].state = "NONE"
    PROVE  LimitsHold
  <1>1. riskDisk'.peak >= riskDisk.peak
    OBVIOUS
  <1>2. riskDisk'.day = riskDisk.day => riskDisk'.baseline = riskDisk.baseline
    OBVIOUS
  <1>3. {o \in DOMAIN Intents : /\ riskDisk.orders[o].state = "NONE"
                                /\ riskDisk'.orders[o].state # "NONE"} = {}
    OBVIOUS
  <1> QED BY <1>1, <1>2, <1>3 DEF LimitsHold

(* The approved order is one more than those its window already holds.      *)
LEMMA WindowHolds ==
    ASSUME IntentsAreSound, wall \in Nat, NEW r \in RiskRecords, NEW o \in DOMAIN Intents,
           NEW orders \in [DOMAIN Intents -> OrderRecords],
           \A p \in DOMAIN Intents \ {o} : orders[p] = r.orders[p],
           Cardinality(RecentOrders(r)) < MaxRate
    PROVE  Cardinality({p \in DOMAIN Intents :
                           /\ orders[p].state # "NONE"
                           /\ orders[p].at \in (wall - Window + 1)..wall}) <= MaxRate
  <1> DEFINE within == {p \in DOMAIN Intents :
                           /\ orders[p].state # "NONE"
                           /\ orders[p].at \in (wall - Window + 1)..wall}
             recent == RecentOrders(r)
  <1>1. wall \in Int /\ Window \in Int /\ MaxRate \in Int /\ IsFiniteSet(DOMAIN Intents)
    BY DEF IntentsAreSound
  <1>2. within \subseteq recent \union {o}
    <2> SUFFICES ASSUME NEW p \in within, p # o PROVE p \in recent
      OBVIOUS
    <2>1. orders[p] = r.orders[p] /\ p \in DOMAIN Intents
      OBVIOUS
    <2>2. orders[p].at \in Int
      BY DEF OrderRecords
    <2>3. r.orders[p].at > wall - Window
      BY <1>1, <2>1, <2>2
    <2> QED BY <2>1, <2>3 DEF RecentOrders
  <1>3. recent \subseteq DOMAIN Intents
    BY DEF RecentOrders
  <1>4. Cardinality(recent) < MaxRate
    OBVIOUS
  <1> HIDE DEF within, recent
  <1>5. IsFiniteSet(recent) /\ Cardinality(recent) \in Nat
    BY <1>1, <1>3, FS_Subset, FS_CardinalityType
  <1>6. /\ IsFiniteSet(recent \union {o})
        /\ Cardinality(recent \union {o}) = Cardinality(recent)
              \/ Cardinality(recent \union {o}) = Cardinality(recent) + 1
    BY <1>5, FS_AddElement
  <1>7. IsFiniteSet(within) /\ Cardinality(within) <= Cardinality(recent \union {o})
    BY <1>2, <1>6, FS_Subset
  <1>8. Cardinality(within) \in Nat
    BY <1>7, FS_CardinalityType
  <1>9. Cardinality(within) <= MaxRate
    BY <1>1, <1>4, <1>5, <1>6, <1>7, <1>8
  <1> QED BY <1>9 DEF within

LEMMA SubmitLimits ==
    ASSUME IntentsAreSound, RiskInv, NEW o \in DOMAIN Intents, NEW sheet \in Sheets,
           Submit(o, sheet)
    PROVE  LimitsHold
  <1>1. PICK r : r = Observed(sheet, o)
    OBVIOUS
  <1>2. risk \in RiskRecords /\ wall \in Nat
    BY DEF RiskInv, BooksAreSound
  <1>3. /\ r \in RiskRecords /\ r.orders = risk.orders /\ r.switches = risk.switches
        /\ risk.peak <= r.peak /\ Equity(r) <= r.peak /\ r.day = RiskDay
        /\ risk.day = RiskDay => r.baseline = risk.baseline
    BY <1>1, <1>2, ObservedIs
  <1>4. /\ riskDisk.day \in Int /\ risk.day \in Int /\ RiskDay \in Int
        /\ riskDisk.day <= risk.day /\ risk.day <= RiskDay
        /\ riskDisk.peak \in Int /\ risk.peak \in Int
        /\ 0 <= riskDisk.peak /\ riskDisk.peak <= risk.peak
        /\ riskDisk.day = risk.day => riskDisk.baseline = risk.baseline
        /\ riskDisk.orders = risk.orders /\ riskDisk.switches = risk.switches
    BY DaysPass
  <1>5. r.peak \in Int /\ riskDisk.peak <= r.peak
    BY <1>3, <1>4 DEF RiskRecords
  <1>6. riskDisk.day = r.day => riskDisk.baseline = r.baseline
    BY <1>3, <1>4
  <1>7. CASE ~Approves(r, o)
    <2>1. riskDisk' = r
      BY <1>1, <1>7 DEF Submit, SaveRisk
    <2> QED BY <1>3, <1>4, <1>5, <1>6, <2>1, LimitsWithoutOrder
  <1>8. CASE Approves(r, o)
    <2> DEFINE order == [state |-> "WORKING", filled |-> 0, price |-> Debit(r, o), at |-> wall]
    <2>1. PICK q : q = [r EXCEPT !.orders[o] = order]
      OBVIOUS
    <2>2. riskDisk' = q
      BY <1>1, <1>8, <2>1 DEF Submit, SaveRisk
    <2>3. order \in OrderRecords
      BY <1>2, <1>3, DebitIsWhole DEF OrderRecords
    <2> HIDE DEF order
    <2>4. /\ q \in RiskRecords /\ q.owned = r.owned /\ q.peak = r.peak /\ q.day = r.day
          /\ q.baseline = r.baseline /\ q.marks = r.marks /\ q.cash = r.cash
          /\ q.orders = [r.orders EXCEPT ![o] = order]
      BY <1>3, <2>1, <2>3 DEF RiskRecords
    <2>5. \A p \in DOMAIN Intents \ {o} : q.orders[p] = r.orders[p]
      BY <1>3, <2>4 DEF RiskRecords
    <2>6. Equity(q) = Equity(r) /\ Equity(r) \in Int
      BY <1>3, <2>4, EquityStands, EquityIsWhole
    <2>7. riskDisk'.peak >= riskDisk.peak
      BY <1>4, <1>5, <2>2, <2>4
    <2>8. riskDisk'.day = riskDisk.day => riskDisk'.baseline = riskDisk.baseline
      BY <1>6, <2>2, <2>4
    <2>9. ASSUME NEW scope \in riskDisk.switches
          PROVE  ~Halts(scope, o)
      <3>1. Covers(o) \intersect riskDisk.switches = {}
        BY <1>3, <1>4, <1>8 DEF Approves
      <3> QED BY <3>1 DEF Covers, LegsOf, Halts
    <2>10. Equity(r) > 0 => AggregateFits(r, o)
      BY <1>8 DEF Approves
    <2>11. Equity(q) > 0 /\ riskDisk.day = q.day => riskDisk.baseline - Equity(q) <= MaxDailyLoss
      <3> SUFFICES ASSUME Equity(q) > 0, riskDisk.day = q.day
                   PROVE  riskDisk.baseline - Equity(q) <= MaxDailyLoss
        OBVIOUS
      <3>1. Equity(r) - r.baseline >= -MaxDailyLoss
        BY <2>6, <2>10 DEF AggregateFits
      <3>2. riskDisk.baseline = r.baseline /\ r.baseline \in Int /\ MaxDailyLoss \in Int
        BY <1>3, <1>6, <2>4 DEF RiskRecords, IntentsAreSound
      <3> QED BY <2>6, <3>1, <3>2
    <2>12. Equity(q) > 0 =>
              (riskDisk.peak - Equity(q)) * Whole < (MaxDrawdown + 1) * riskDisk.peak
      <3> SUFFICES ASSUME Equity(r) > 0
                   PROVE  (riskDisk.peak - Equity(r)) * Whole < (MaxDrawdown + 1) * riskDisk.peak
        BY <2>6
      <3>1. Drawdown(r) <= MaxDrawdown
        BY <2>10 DEF AggregateFits
      <3>2. (IF r.peak > Equity(r) THEN ((r.peak - Equity(r)) * Whole) \div r.peak ELSE 0)
                <= MaxDrawdown
        BY <3>1 DEF Drawdown
      <3>3. Whole \in Nat \ {0} /\ MaxDrawdown \in Int
        BY DEF IntentsAreSound
      <3> QED BY <1>3, <1>4, <1>5, <2>6, <3>2, <3>3, DrawdownIs
    <2>13. Cardinality({p \in DOMAIN Intents :
                           /\ q.orders[p].state # "NONE"
                           /\ q.orders[p].at \in (wall - Window + 1)..wall}) <= MaxRate
      <3>1. q.orders \in [DOMAIN Intents -> OrderRecords]
        BY <2>4 DEF RiskRecords
      <3>2. Cardinality(RecentOrders(r)) < MaxRate
        BY <1>8 DEF Approves
      <3> QED BY <1>2, <1>3, <2>5, <3>1, <3>2, WindowHolds
    <2>14. \A p \in DOMAIN Intents :
              riskDisk.orders[p].state = "NONE" /\ riskDisk'.orders[p].state # "NONE" => p = o
      BY <1>3, <1>4, <2>2, <2>5
    <2>15. LimitsHold
      <3> SUFFICES
            ASSUME NEW p \in DOMAIN Intents,
                   riskDisk.orders[p].state = "NONE", riskDisk'.orders[p].state # "NONE"
            PROVE  /\ \A scope \in riskDisk.switches : ~Halts(scope, p)
                   /\ Equity(riskDisk') > 0 /\ riskDisk.day = riskDisk'.day =>
                        riskDisk.baseline - Equity(riskDisk') <= MaxDailyLoss
                   /\ Equity(riskDisk') > 0 =>
                        (riskDisk.peak - Equity(riskDisk')) * Whole
                            < (MaxDrawdown + 1) * riskDisk.peak
                   /\ Cardinality({x \in DOMAIN Intents :
                                     /\ riskDisk'.orders[x].state # "NONE"
                                     /\ riskDisk'.orders[x].at \in (wall - Window + 1)..wall})
                        <= MaxRate
        BY <2>7, <2>8 DEF LimitsHold
      <3>1. p = o
        BY <2>14
      <3> QED BY <2>2, <2>9, <2>11, <2>12, <2>13, <3>1
    <2> QED BY <2>15
  <1> QED BY <1>7, <1>8

LEMMA LimitsStand ==
    ASSUME IntentsAreSound, RiskInv, RiskNext
    PROVE  LimitsHold
  <1>1. /\ riskDisk.day \in Int /\ risk.day \in Int
        /\ riskDisk.peak \in Int /\ risk.peak \in Int /\ riskDisk.peak <= risk.peak
        /\ riskDisk.day = risk.day => riskDisk.baseline = risk.baseline
        /\ riskDisk.orders = risk.orders
    BY DaysPass
  <1>2. risk \in RiskRecords
    BY DEF RiskInv, BooksAreSound
  <1>3. ASSUME NEW q, SaveRisk(q), q.peak = risk.peak, q.day = risk.day,
               q.baseline = risk.baseline,
               \A o \in DOMAIN Intents :
                  risk.orders[o].state = "NONE" => q.orders[o].state = "NONE"
        PROVE  LimitsHold
    BY <1>1, <1>3, LimitsWithoutOrder DEF SaveRisk
  <1>4. ASSUME riskDisk' = riskDisk PROVE LimitsHold
    <2>1. PICK q : q = riskDisk
      OBVIOUS
    <2> QED BY <1>1, <1>4, <2>1, LimitsWithoutOrder
  <1>5. ASSUME NEW o \in DOMAIN Intents, NEW sheet \in Sheets, Submit(o, sheet)
        PROVE  LimitsHold
    BY <1>5, SubmitLimits
  <1>6. ASSUME NEW o \in DOMAIN Intents, NEW sheet \in Sheets, Assess(o, sheet)
        PROVE  LimitsHold
    BY <1>4, <1>6 DEF Assess
  <1>7. ASSUME NEW o \in DOMAIN Intents, Fill(o) PROVE LimitsHold
    <2> DEFINE owned == [i \in Instruments |->
                            [risk.owned[i] EXCEPT ![Intents[o].strategy] = @ + Intents[o].legs[i]]]
               state == IF Remaining(risk, o) = 1 THEN "DONE" ELSE risk.orders[o].state
    <2>1. PICK q : q = [risk EXCEPT !.owned = owned, !.cash = @ - risk.orders[o].price,
                             !.orders[o].filled = @ + 1,
                             !.orders[o].state = IF Remaining(risk, o) = 1 THEN "DONE" ELSE @]
      OBVIOUS
    <2>2. SaveRisk(q) /\ risk.orders[o].state = "WORKING"
      BY <1>7, <2>1 DEF Fill, Works
    <2>3. risk.orders[o] \in OrderRecords /\ risk.orders \in [DOMAIN Intents -> OrderRecords]
      BY <1>2 DEF RiskRecords
    <2> HIDE DEF owned
    <2>4. /\ q.peak = risk.peak /\ q.day = risk.day /\ q.baseline = risk.baseline
          /\ \A p \in DOMAIN Intents \ {o} : q.orders[p] = risk.orders[p]
      BY <1>2, <2>1, <2>3 DEF RiskRecords, OrderRecords
    <2> QED BY <1>3, <2>2, <2>4
  <1>8. ASSUME NEW o \in DOMAIN Intents, EndOrder(o) PROVE LimitsHold
    <2>1. PICK q : q = [risk EXCEPT !.orders[o].state = "DONE"]
      OBVIOUS
    <2>2. SaveRisk(q) /\ risk.orders[o].state = "WORKING"
      BY <1>8, <2>1 DEF EndOrder, Works
    <2>3. /\ q.peak = risk.peak /\ q.day = risk.day /\ q.baseline = risk.baseline
          /\ \A p \in DOMAIN Intents \ {o} : q.orders[p] = risk.orders[p]
      BY <1>2, <2>1 DEF RiskRecords, OrderRecords
    <2> QED BY <1>3, <2>2, <2>3
  <1>9. ASSUME NEW switches, SaveRisk([risk EXCEPT !.switches = switches]) PROVE LimitsHold
    <2>1. PICK q : q = [risk EXCEPT !.switches = switches]
      OBVIOUS
    <2>2. /\ q.peak = risk.peak /\ q.day = risk.day /\ q.baseline = risk.baseline
          /\ q.orders = risk.orders
      BY <1>2, <2>1 DEF RiskRecords
    <2> QED BY <1>3, <1>9, <2>1, <2>2
  <1>10. ASSUME NEW scope \in Scopes, SwitchOn(scope) \/ SwitchOff(scope) PROVE LimitsHold
    BY <1>9, <1>10 DEF SwitchOn, SwitchOff
  <1>11. CASE RestartRisk \/ TickRisk
    BY <1>4, <1>11 DEF RestartRisk, TickRisk
  <1> QED BY <1>5, <1>6, <1>7, <1>8, <1>10, <1>11 DEF RiskNext

(* No step takes more than one switch from the journal.                     *)
LEMMA OverlapsStand ==
    ASSUME IntentsAreSound, RiskInv, RiskNext
    PROVE  OverlapsBind
  <1>1. riskDisk.switches = risk.switches /\ risk \in RiskRecords
    BY DaysPass DEF RiskInv, BooksAreSound
  <1>2. ASSUME riskDisk'.switches = risk.switches PROVE OverlapsBind
    BY <1>1, <1>2 DEF OverlapsBind
  <1>3. ASSUME NEW o \in DOMAIN Intents, NEW sheet \in Sheets, Submit(o, sheet)
        PROVE  OverlapsBind
    <2>1. PICK r : r = Observed(sheet, o)
      OBVIOUS
    <2>2. r \in RiskRecords /\ r.switches = risk.switches
      BY <1>1, <2>1, ObservedIs DEF RiskInv, BooksAreSound
    <2>3. \/ riskDisk' = r
          \/ \E order : riskDisk' = [r EXCEPT !.orders[o] = order]
      BY <1>3, <2>1 DEF Submit, SaveRisk
    <2> QED BY <1>2, <2>2, <2>3 DEF RiskRecords
  <1>4. ASSUME NEW o \in DOMAIN Intents, Fill(o) \/ EndOrder(o) PROVE OverlapsBind
    BY <1>1, <1>2, <1>4 DEF Fill, EndOrder, SaveRisk, RiskRecords
  <1>5. ASSUME NEW scope \in Scopes, SwitchOn(scope) \/ SwitchOff(scope) PROVE OverlapsBind
    <2>1. \E taken : riskDisk'.switches \in {risk.switches \union {scope}, risk.switches \ {taken}}
      BY <1>1, <1>5 DEF SwitchOn, SwitchOff, SaveRisk, RiskRecords
    <2> QED BY <1>1, <2>1 DEF OverlapsBind
  <1>6. ASSUME riskDisk' = riskDisk PROVE OverlapsBind
    BY <1>1, <1>2, <1>6
  <1>7. CASE RestartRisk \/ TickRisk
    BY <1>6, <1>7 DEF RestartRisk, TickRisk
  <1>8. ASSUME NEW o \in DOMAIN Intents, NEW sheet \in Sheets, Assess(o, sheet)
        PROVE  OverlapsBind
    BY <1>6, <1>8 DEF Assess
  <1> QED BY <1>3, <1>4, <1>5, <1>7, <1>8 DEF RiskNext

(* However the approved orders of the service fill, positions stay within   *)
(* the limits, and so do the gross and net exposure and the strategies'     *)
(* buckets at the marks of an approval (apply_working_bounds); the journal  *)
(* never forgets a peak or a day's baseline, no order is approved under a   *)
(* journaled switch, past the loss, the drawdown or the rate they allow,    *)
(* and one of two switches over an order outlasts the release of the other. *)
THEOREM LimitsRemembered ==
    ASSUME IntentsAreSound
    PROVE  RiskSpec => []ExposureBounded /\ [][LimitsHold /\ OverlapsBind]_riskVars
  <1>1. RiskInit => RiskInv
    BY RiskStarts
  <1>2. RiskInv /\ [RiskNext]_riskVars => RiskInv'
    BY RiskSteps
  <1>3. RiskInv => ExposureBounded
    BY RiskBounded
  <1>4. RiskInv /\ [RiskNext]_riskVars => [LimitsHold /\ OverlapsBind]_riskVars
    BY LimitsStand, OverlapsStand
  <1> QED BY <1>1, <1>2, <1>3, <1>4, PTL DEF RiskSpec

-----------------------------------------------------------------------------
(* Recordings and their gaps.                                               *)

(* Sequence numbers are positive (Quote::validate) and have a width (u64).  *)
QuotesAreSequenced ==
    /\ \A q \in Quotes : q.sequence \in Nat \ {0} /\ q.time \in Nat
    /\ \E top \in {0} \union Sequences(Quotes) : \A q \in Quotes : q.sequence <= top

(* What the monitor has seen of the quotes recorded: as long as no two      *)
(* claim one identity or one sequence, none is past the last sequence, and  *)
(* what lies between the first and the last is recorded or was declared.    *)
Watched ==
    LET seen == recording.recorded
    IN  /\ monitor.ids = {q.id : q \in seen}
        /\ monitor.last \in Nat /\ monitor.first \in Nat
        /\ (monitor.last = 0 <=> seen = {}) /\ (monitor.first = 0 <=> seen = {})
        /\ Indexable(seen) => \A q \in seen : q.sequence <= monitor.last
        /\ \A n \in Nat : monitor.first < n /\ n <= monitor.last =>
              n \in monitor.declared \/ n \in Sequences(seen)

(* Repairs made one after another are a repair by all their batches.        *)
Repaired ==
    /\ recording.repairs \in Nat
    /\ recording.repaired = recording.recorded \union recording.supplied
    /\ recording.repairs = 0 => recording.supplied = {}
    /\ recording.repairs > 0 => Accepts(recording.recorded, recording.supplied)

GapsInv ==
    /\ monitor \in [last : Nat, first : Nat, ids : {monitor.ids}, declared : SUBSET Nat,
                    arrivals : {monitor.arrivals}]
    /\ recording \in [recorded : SUBSET Quotes, repaired : SUBSET Quotes,
                      supplied : SUBSET Quotes, repairs : Nat]
    /\ Watched /\ Repaired

-----------------------------------------------------------------------------
(* A set of sequence numbers has a least and a greatest.                    *)
LEMMA EndsOfSequences ==
    ASSUME QuotesAreSequenced, NEW R \in SUBSET Quotes, R # {}
    PROVE  LET S == Sequences(R)
           IN  /\ S \subseteq Nat
               /\ Min(S) \in S /\ \A n \in S : Min(S) <= n
               /\ Max(S) \in S /\ \A n \in S : n <= Max(S)
  <1> DEFINE S == Sequences(R)
  <1>1. PICK top \in Nat : \A q \in Quotes : q.sequence \in Nat /\ q.sequence <= top
    BY DEF QuotesAreSequenced, Sequences
  <1>2. S \subseteq Nat /\ S # {} /\ \A n \in S : n <= top
    BY <1>1 DEF Sequences
  <1> HIDE DEF S
  <1>3. S \in SUBSET Int /\ top \in Int
    BY <1>2
  <1>4. Max(S) \in S /\ \A n \in S : n <= Max(S)
    BY <1>2, <1>3, LastOfAll
  <1>5. PICK k \in S : \A n \in S : ~(<<n, k>> \in OpToRel(<, Nat))
    BY <1>2, NatLessThanWellFounded, WFMin, Zenon
  <1>6. \A n \in S : k <= n
    <2> TAKE n \in S
    <2>1. ~(n < k) /\ n \in Nat /\ k \in Nat
      BY <1>2, <1>5 DEF OpToRel
    <2> QED BY <2>1
  <1>7. \E m \in S : \A n \in S : m <= n
    BY <1>6
  <1>8. Min(S) = CHOOSE m \in S : \A n \in S : m <= n
    BY DEF Min
  <1>9. Min(S) \in S /\ \A n \in S : Min(S) <= n
    BY <1>7, <1>8
  <1> QED BY <1>2, <1>4, <1>9 DEF S

(* What fills a recording's gaps leaves its ends.                           *)
LEMMA GapsShrink ==
    ASSUME QuotesAreSequenced, NEW R \in SUBSET Quotes, R # {}, NEW S \in SUBSET Quotes,
           \A b \in S \ R : b.sequence \in Missing(R)
    PROVE  Missing(R \union S) = Missing(R) \ Sequences(S)
  <1> DEFINE A == Sequences(R)  B == Sequences(R \union S)
  <1>1. /\ A \subseteq Nat /\ Min(A) \in A /\ Max(A) \in A
        /\ \A n \in A : Min(A) <= n /\ n <= Max(A)
    BY EndsOfSequences
  <1>2. /\ B \subseteq Nat /\ Min(B) \in B /\ Max(B) \in B
        /\ \A n \in B : Min(B) <= n /\ n <= Max(B)
    <2>1. R \union S \in SUBSET Quotes /\ R \union S # {}
      OBVIOUS
    <2> QED BY <2>1, EndsOfSequences
  <1>3. A \subseteq B /\ B = A \union Sequences(S)
    BY DEF Sequences
  <1>4. \A n \in B : Min(A) <= n /\ n <= Max(A)
    <2> SUFFICES ASSUME NEW q \in R \union S
                 PROVE  Min(A) <= q.sequence /\ q.sequence <= Max(A)
      BY DEF Sequences
    <2>1. CASE q \in R
      BY <1>1, <2>1 DEF Sequences
    <2>2. CASE q \notin R
      <3>1. q.sequence \in Min(A)..Max(A)
        BY <2>2 DEF Missing
      <3> QED BY <1>1, <3>1
    <2> QED BY <2>1, <2>2
  <1>5. Missing(R) = (Min(A)..Max(A)) \ A /\ Missing(R \union S) = (Min(B)..Max(B)) \ B
    BY DEF Missing
  <1> HIDE DEF A, B
  <1>6. Min(B) = Min(A) /\ Max(B) = Max(A)
    <2>1. Min(A) \in Nat /\ Max(A) \in Nat /\ Min(B) \in Nat /\ Max(B) \in Nat
      BY <1>1, <1>2
    <2>2. Min(B) <= Min(A) /\ Min(A) <= Min(B) /\ Max(A) <= Max(B) /\ Max(B) <= Max(A)
      BY <1>1, <1>2, <1>3, <1>4
    <2> QED BY <2>1, <2>2
  <1> QED BY <1>3, <1>5, <1>6

(* Batches that are accepted one after the other are accepted together, and *)
(* the other way round.                                                     *)
LEMMA BatchesCompose ==
    ASSUME QuotesAreSequenced, NEW R \in SUBSET Quotes, NEW S \in SUBSET Quotes,
           NEW B \in SUBSET Quotes, Accepts(R, S)
    PROVE  Accepts(R \union S, B) <=> Accepts(R, S \union B)
  <1> DEFINE rest == B \ (R \union S)  added == (S \union B) \ R
  <1>1. /\ R # {} /\ Indexable(R) /\ Indexable(S) /\ InOrder(R, S \ R)
        /\ \A b \in S \ R, r \in R : b.sequence # r.sequence /\ b.id # r.id
        /\ \A b \in S \ R : b.sequence \in Missing(R)
    BY DEF Accepts
  <1>3. Missing(R \union S) = Missing(R) \ Sequences(S)
    BY <1>1, GapsShrink
  <1>4. Indexable(R \union S)
    BY <1>1 DEF Indexable
  <1>5. ASSUME Accepts(R \union S, B)
        PROVE  Accepts(R, S \union B)
    <2>1. /\ Indexable(B) /\ InOrder(R \union S, rest)
          /\ \A b \in rest, r \in R \union S : b.sequence # r.sequence /\ b.id # r.id
          /\ \A b \in rest : b.sequence \in Missing(R \union S)
      BY <1>5 DEF Accepts
    <2>2. Indexable(S \union B)
      <3> SUFFICES ASSUME NEW q \in S \union B, NEW r \in S \union B, q # r
                   PROVE  q.sequence # r.sequence /\ q.id # r.id
        BY DEF Indexable
      <3>1. CASE q \in rest /\ r \in rest
        BY <2>1, <3>1 DEF Indexable
      <3>2. CASE q \in rest /\ r \notin rest
        BY <2>1, <3>2
      <3>3. CASE q \notin rest /\ r \in rest
        BY <2>1, <3>3
      <3>4. CASE q \notin rest /\ r \notin rest
        BY <1>4, <3>4 DEF Indexable
      <3> QED BY <3>1, <3>2, <3>3, <3>4
    <2>3. \A b \in added, r \in R : b.sequence # r.sequence /\ b.id # r.id
      <3> TAKE b \in added, r \in R
      <3>1. b \in S \ R \/ b \in rest
        OBVIOUS
      <3> QED BY <1>1, <2>1, <3>1
    <2>4. \A b \in added : b.sequence \in Missing(R)
      <3> TAKE b \in added
      <3>1. b \in S \ R \/ b \in rest
        OBVIOUS
      <3> QED BY <1>1, <1>3, <2>1, <3>1
    <2>5. InOrder(R, added)
      <3> SUFFICES ASSUME NEW q \in R \union added, NEW r \in R \union added,
                          {q, r} \intersect added # {}, Adjacent(R \union added, q, r)
                   PROVE  q.time <= r.time
        BY DEF InOrder
      <3>1. R \union added = (R \union S) \union rest
        OBVIOUS
      <3>2. CASE {q, r} \intersect rest # {}
        BY <2>1, <3>1, <3>2 DEF InOrder
      <3>3. CASE {q, r} \intersect rest = {}
        <4>1. q \in R \union S /\ r \in R \union S /\ {q, r} \intersect (S \ R) # {}
          BY <3>3
        <4>2. Adjacent(R \union S, q, r)
          BY <3>1 DEF Adjacent
        <4>3. R \union S = R \union (S \ R)
          OBVIOUS
        <4> QED BY <1>1, <4>1, <4>2, <4>3 DEF InOrder
      <3> QED BY <3>2, <3>3
    <2> QED BY <1>1, <2>2, <2>3, <2>4, <2>5 DEF Accepts
  <1>6. ASSUME Accepts(R, S \union B)
        PROVE  Accepts(R \union S, B)
    <2>1. /\ Indexable(S \union B) /\ InOrder(R, added)
          /\ \A b \in added, r \in R : b.sequence # r.sequence /\ b.id # r.id
          /\ \A b \in added : b.sequence \in Missing(R)
      BY <1>6 DEF Accepts
    <2>2. Indexable(B)
      BY <2>1 DEF Indexable
    <2>3. \A b \in rest, r \in R \union S : b.sequence # r.sequence /\ b.id # r.id
      <3> TAKE b \in rest, r \in R \union S
      <3>1. CASE r \in R
        BY <2>1, <3>1
      <3>2. CASE r \in S
        BY <2>1, <3>2 DEF Indexable
      <3> QED BY <3>1, <3>2
    <2>4. \A b \in rest : b.sequence \in Missing(R \union S)
      <3> TAKE b \in rest
      <3>1. b.sequence \in Missing(R)
        BY <2>1
      <3>2. b.sequence \notin Sequences(S)
        BY <2>3 DEF Sequences
      <3> QED BY <1>3, <3>1, <3>2
    <2>5. InOrder(R \union S, rest)
      <3> SUFFICES ASSUME NEW q \in (R \union S) \union rest, NEW r \in (R \union S) \union rest,
                          {q, r} \intersect rest # {},
                          Adjacent((R \union S) \union rest, q, r)
                   PROVE  q.time <= r.time
        BY DEF InOrder
      <3>1. R \union added = (R \union S) \union rest /\ {q, r} \intersect added # {}
        OBVIOUS
      <3> QED BY <2>1, <3>1 DEF InOrder
    <2>6. R \union S # {}
      BY <1>1
    <2> QED BY <1>4, <2>2, <2>3, <2>4, <2>5, <2>6 DEF Accepts
  <1> QED BY <1>5, <1>6

-----------------------------------------------------------------------------
LEMMA GapsStart ==
    ASSUME GapsInit
    PROVE  GapsInv
  <1>1. /\ monitor = [last |-> 0, first |-> 0, ids |-> {}, declared |-> {}, arrivals |-> 0]
        /\ recording = [recorded |-> {}, repaired |-> {}, supplied |-> {}, repairs |-> 0]
    BY DEF GapsInit
  <1>2. Watched
    BY <1>1 DEF Watched
  <1>3. Repaired
    BY <1>1 DEF Repaired
  <1> QED BY <1>1, <1>2, <1>3 DEF GapsInv

LEMMA ObserveKeeps ==
    ASSUME QuotesAreSequenced, GapsInv, NEW quote \in Quotes, NEW aged \in BOOLEAN,
           Observe(quote, aged)
    PROVE  GapsInv'
  <1> DEFINE seen == recording.recorded  status == Status(quote, aged)
             declared == monitor.declared \union
                             IF status = "SEQUENCE_GAP"
                             THEN (monitor.last + 1)..(quote.sequence - 1) ELSE {}
  <1>1. /\ Watched /\ Repaired /\ recording.repairs = 0
        /\ seen \in SUBSET Quotes /\ recording.repaired \in SUBSET Quotes
        /\ monitor.last \in Nat /\ monitor.first \in Nat /\ monitor.declared \in SUBSET Nat
        /\ quote.sequence \in Nat /\ quote.sequence > 0
    BY DEF GapsInv, Observe, QuotesAreSequenced
  <1>2. /\ monitor'.last = IF status \in {"DUPLICATE", "OUT_OF_ORDER"} THEN monitor.last
                           ELSE quote.sequence
        /\ monitor'.first = IF monitor.first = 0 THEN quote.sequence ELSE monitor.first
        /\ monitor'.ids = monitor.ids \union {quote.id}
        /\ monitor'.declared = declared
        /\ monitor' = [last |-> monitor'.last, first |-> monitor'.first, ids |-> monitor'.ids,
                       declared |-> monitor'.declared, arrivals |-> monitor'.arrivals]
    BY DEF Observe
  <1>3. /\ recording'.recorded = seen \union {quote}
        /\ recording'.repaired = recording.repaired \union {quote}
        /\ recording'.supplied = recording.supplied /\ recording'.repairs = recording.repairs
        /\ recording' \in [recorded : SUBSET Quotes, repaired : SUBSET Quotes,
                           supplied : SUBSET Quotes, repairs : Nat]
    BY <1>1 DEF Observe, GapsInv
  <1>4. Repaired'
    BY <1>1, <1>3 DEF Repaired
  <1>5. /\ status = "DUPLICATE" <=> quote.id \in monitor.ids
        /\ status = "OUT_OF_ORDER" <=> quote.id \notin monitor.ids
                                         /\ monitor.last >= quote.sequence
        /\ status = "SEQUENCE_GAP" <=> /\ quote.id \notin monitor.ids
                                       /\ ~(monitor.last >= quote.sequence) /\ Skips(quote)
    BY DEF Status
  <1> HIDE DEF status
  <1>6. declared \in SUBSET Nat
    BY <1>1
  <1>7. monitor' \in [last : Nat, first : Nat, ids : {monitor'.ids}, declared : SUBSET Nat,
                      arrivals : {monitor'.arrivals}]
    BY <1>1, <1>2, <1>6
  <1> DEFINE last == monitor'.last  first == monitor'.first
  <1>8. /\ last \in Nat /\ first \in Nat /\ last # 0 /\ first # 0 /\ monitor.last <= last
    <2>1. monitor.last = 0 => seen = {} /\ monitor.ids = {}
      BY <1>1 DEF Watched
    <2> QED BY <1>1, <1>2, <1>5, <2>1
  <1>9. monitor'.ids = {q.id : q \in seen \union {quote}}
    BY <1>1, <1>2 DEF Watched
  <1>10. ASSUME Indexable(seen \union {quote}), NEW q \in seen \union {quote}
         PROVE  q.sequence <= last
    <2>1. Indexable(seen)
      BY <1>10 DEF Indexable
    <2>2. \A p \in seen : p.sequence \in Nat /\ p.sequence <= monitor.last
      BY <1>1, <2>1 DEF Watched, QuotesAreSequenced
    <2>3. CASE q \in seen
      BY <1>1, <1>8, <2>2, <2>3
    <2>4. CASE q = quote /\ quote \notin seen
      <3>1. quote.id \notin monitor.ids
        BY <1>1, <1>10, <2>4 DEF Watched, Indexable
      <3> QED BY <1>1, <1>2, <1>5, <2>4, <3>1
    <2> QED BY <2>3, <2>4
  <1>11. ASSUME NEW n \in Nat, first < n, n <= last
         PROVE  n \in declared \/ n \in Sequences(seen \union {quote})
    <2>1. n = quote.sequence => n \in Sequences(seen \union {quote})
      BY DEF Sequences
    <2>2. n \in Sequences(seen) => n \in Sequences(seen \union {quote})
      BY DEF Sequences
    <2>3. CASE monitor.first = 0
      <3>1. monitor.last = 0 /\ first = quote.sequence
        BY <1>1, <1>2, <2>3 DEF Watched
      <3> QED BY <1>1, <1>2, <1>11, <2>1, <3>1
    <2>4. CASE monitor.first # 0 /\ n <= monitor.last
      <3>1. n \in monitor.declared \/ n \in Sequences(seen)
        BY <1>1, <1>2, <1>11, <2>4 DEF Watched
      <3> QED BY <2>2, <3>1
    <2>5. CASE monitor.first # 0 /\ ~(n <= monitor.last)
      <3>1. last = quote.sequence /\ status \notin {"DUPLICATE", "OUT_OF_ORDER"}
        BY <1>1, <1>2, <1>11, <2>5
      <3>2. monitor.last > 0
        BY <1>1, <2>5 DEF Watched
      <3>3. CASE n = quote.sequence
        BY <2>1, <3>3
      <3>4. CASE n # quote.sequence
        <4>1. status = "SEQUENCE_GAP"
          BY <1>1, <1>5, <1>11, <2>5, <3>1, <3>2, <3>4 DEF Skips
        <4>2. n \in (monitor.last + 1)..(quote.sequence - 1)
          BY <1>1, <1>11, <2>5, <3>1, <3>4
        <4> QED BY <4>1, <4>2
      <3> QED BY <3>3, <3>4
    <2> QED BY <2>3, <2>4, <2>5
  <1> HIDE DEF declared
  <1>12. Watched'
    BY <1>2, <1>3, <1>8, <1>9, <1>10, <1>11 DEF Watched
  <1> QED BY <1>3, <1>4, <1>7, <1>12 DEF GapsInv

LEMMA RepairKeeps ==
    ASSUME QuotesAreSequenced, GapsInv, NEW batch \in SUBSET Quotes, Repair(batch)
    PROVE  GapsInv'
  <1> DEFINE R == recording.recorded  S == recording.supplied
  <1>1. /\ R \in SUBSET Quotes /\ S \in SUBSET Quotes /\ recording.repairs \in Nat
        /\ recording.repaired = R \union S /\ Repaired
    BY DEF GapsInv, Repaired
  <1>2. /\ recording'.recorded = R /\ recording'.repaired = recording.repaired \union batch
        /\ recording'.supplied = S \union batch /\ recording'.repairs = recording.repairs + 1
        /\ recording' \in [recorded : SUBSET Quotes, repaired : SUBSET Quotes,
                           supplied : SUBSET Quotes, repairs : Nat]
        /\ Accepts(R \union S, batch) /\ monitor' = monitor
    <2> DEFINE repaired == recording.repaired \union batch  supplied == S \union batch
               repairs == recording.repairs + 1
    <2>1. /\ recording \in [recorded : SUBSET Quotes, repaired : SUBSET Quotes,
                            supplied : SUBSET Quotes, repairs : Nat]
          /\ monitor' = monitor
          /\ recording' = [recording EXCEPT !.repaired = repaired, !.supplied = supplied,
                                            !.repairs = repairs]
      BY DEF Repair, GapsInv
    <2>2. repaired \in SUBSET Quotes /\ supplied \in SUBSET Quotes /\ repairs \in Nat
      BY <2>1
    <2>3. Accepts(R \union S, batch)
      BY <1>1 DEF Repair
    <2> HIDE DEF repaired, supplied, repairs
    <2>4. /\ recording'.recorded = R /\ recording'.repaired = repaired
          /\ recording'.supplied = supplied /\ recording'.repairs = repairs
          /\ recording' \in [recorded : SUBSET Quotes, repaired : SUBSET Quotes,
                             supplied : SUBSET Quotes, repairs : Nat]
      BY <2>1, <2>2
    <2> QED BY <2>1, <2>3, <2>4 DEF repaired, supplied, repairs
  <1>3. Accepts(R, S \union batch)
    <2>1. CASE recording.repairs = 0
      <3>1. S = {}
        BY <1>1, <2>1 DEF Repaired
      <3>2. R \union S = R /\ S \union batch = batch
        BY <3>1
      <3> QED BY <1>2, <3>2
    <2>2. CASE recording.repairs # 0
      <3>1. Accepts(R, S)
        BY <1>1, <2>2 DEF Repaired
      <3> QED BY <1>1, <1>2, <3>1, BatchesCompose
    <2> QED BY <2>1, <2>2
  <1>4. Repaired'
    BY <1>1, <1>2, <1>3 DEF Repaired
  <1>5. Watched'
    BY <1>2 DEF GapsInv, Watched
  <1> QED BY <1>2, <1>4, <1>5 DEF GapsInv

LEMMA GapsStep ==
    ASSUME QuotesAreSequenced, GapsInv, [GapsNext]_gapVars
    PROVE  GapsInv'
  <1>1. CASE UNCHANGED gapVars
    BY <1>1 DEF gapVars, GapsInv, Watched, Repaired
  <1>2. CASE GapsNext
    BY <1>2, ObserveKeeps, RepairKeeps DEF GapsNext
  <1> QED BY <1>1, <1>2

LEMMA GapsAreSound ==
    ASSUME QuotesAreSequenced, GapsInv
    PROVE  GapsAreKnown
  <1> DEFINE R == recording.recorded  S == recording.supplied
  <1>1. R \in SUBSET Quotes /\ S \in SUBSET Quotes /\ Watched /\ Repaired
    BY DEF GapsInv
  <1>2. GapsAreDeclared
    <2> SUFFICES ASSUME R # {}, Indexable(R), NEW n \in Missing(R), n > monitor.first
                 PROVE  n \in monitor.declared
      BY DEF GapsAreDeclared
    <2>1. /\ Sequences(R) \subseteq Nat /\ Max(Sequences(R)) \in Sequences(R)
          /\ Min(Sequences(R)) \in Sequences(R)
      BY <1>1, EndsOfSequences
    <2>2. n \in Min(Sequences(R))..Max(Sequences(R)) /\ n \notin Sequences(R)
      BY DEF Missing
    <2>3. Max(Sequences(R)) <= monitor.last
      BY <1>1, <2>1 DEF Watched, Sequences
    <2>4. monitor.last \in Nat /\ monitor.first \in Nat
      BY <1>1 DEF Watched
    <2>5. n \in Nat /\ monitor.first < n /\ n <= monitor.last
      BY <2>1, <2>2, <2>3, <2>4
    <2> QED BY <1>1, <2>2, <2>5 DEF Watched
  <1>3. RepairsCompose
    <2> SUFFICES ASSUME recording.repairs > 0
                 PROVE  /\ Accepts(R, S)
                        /\ \A batch \in SUBSET Quotes :
                              Accepts(recording.repaired, batch) <=> Accepts(R, S \union batch)
      BY DEF RepairsCompose
    <2>1. Accepts(R, S) /\ recording.repaired = R \union S
      BY <1>1 DEF Repaired
    <2> QED BY <1>1, <2>1, BatchesCompose
  <1> QED BY <1>2, <1>3 DEF GapsAreKnown

(* Whatever is lost, reordered, delivered twice and repaired, in however    *)
(* many batches: a sequence missing from the recording after the first      *)
(* quote was declared by the monitor when it was skipped (observe), and the *)
(* repairs come to one by all the batches (repair_quote_gaps).              *)
THEOREM GapsKnown ==
    ASSUME QuotesAreSequenced
    PROVE  GapsSpec => []GapsAreKnown
  <1>1. GapsInit => GapsInv
    BY GapsStart
  <1>2. GapsInv /\ [GapsNext]_gapVars => GapsInv'
    BY GapsStep
  <1>3. GapsInv => GapsAreKnown
    BY GapsAreSound
  <1> QED BY <1>1, <1>2, <1>3, PTL DEF GapsSpec
=============================================================================

----------------------------- MODULE Retention -----------------------------
(***************************************************************************)
(* Deletion of a tenant's data: retention and privacy plans and their       *)
(* execution in core/commercial/src/lib.rs, as apps/cli/src/admin.rs drives *)
(* them.  A plan is written once and never changes; an operator reviews it, *)
(* and confirms its fingerprint for one file at a time, possibly much later *)
(* and after files, holds and other plans have changed.                     *)
(*                                                                         *)
(* Each asset has a path of its own (load_inventory).  A fingerprint is the *)
(* plan, the hash of a file is its contents.  Instants are the operator's,  *)
(* as they are in the code.  Nobody writes to the data root during the      *)
(* execution itself (docs/operations/05-privacy-retention-runbook.md asks   *)
(* for a maintenance window).                                               *)
(***************************************************************************)
EXTENDS Naturals, FiniteSets

CONSTANTS Inventory,       \* asset -> tenant, class, retain-until, subjects
          FileContents, FirstContents,
          ErasureRequests, \* privacy requests: tenant, subject, kind, instant
          LatestInstant,   \* bound: instants
          MaxPlans,        \* bound: plans reviewed
          MaxDeletions,    \* bound: files deleted
          MaxEdits         \* bound: changes to files and holds

VARIABLES files,           \* asset -> the contents of its file
          held,            \* the assets under legal hold in today's inventory
          plans,           \* the plans published
          unreceipted,     \* the deletion whose receipt is not written yet, if any
          receipts,        \* receipt files
          reviews,         \* history: each plan with the files and holds it saw
          deletions,       \* history: what was deleted, and on whose authority
          edits

retentionVars == <<files, held, plans, unreceipted, receipts, reviews, deletions, edits>>

Assets == DOMAIN Inventory
Gone == "GONE"
Instant == 0..LatestInstant
TenantsOf == {Inventory[a].tenant : a \in Assets}

RetentionInit ==
    /\ files = [a \in Assets |-> FirstContents]
    /\ held = {} /\ plans = {} /\ receipts = {}
    /\ unreceipted = {}
    /\ reviews = {} /\ deletions = {}
    /\ edits = 0

-----------------------------------------------------------------------------
(* candidate_from_asset: the file must exist, and its hash goes into the    *)
(* plan; a plan with a candidate that has no file is refused as a whole.    *)
Measurable(selected) == \A a \in selected : files[a] # Gone
Measured(selected) == [a \in selected |-> files[a]]

(* publish_immutable: a plan that is published already stays as it is.      *)
Publish(plan) ==
    /\ plans' = plans \union {plan}
    /\ reviews' = reviews \union {[plan |-> plan, files |-> files, held |-> held]}
    /\ Cardinality(reviews') <= MaxPlans
    /\ UNCHANGED <<files, held, unreceipted, receipts, deletions, edits>>

(* plan_expired_retention: the deadline is inclusive.                       *)
PlanExpired(tenant, at) ==
    LET mine    == {a \in Assets : Inventory[a].tenant = tenant}
        expired == {a \in mine \ held : Inventory[a].until <= at}
    IN  /\ Measurable(expired)
        /\ Publish([tenant |-> tenant, request |-> {}, at |-> at,
                    candidates |-> Measured(expired), withheld |-> mine \intersect held])

Concerns(request, a) ==
    Inventory[a].tenant = request.tenant /\ request.subject \in Inventory[a].subjects

Erasable(a) == a \notin held /\ Inventory[a].class = "CUSTOMER_CONTENT"

(* plan_privacy_erasure: audit evidence is withheld; what is neither that   *)
(* nor customer content is left out of the plan.                            *)
PlanErasure(request, at) ==
    LET concerned == {a \in Assets : Concerns(request, a)}
        erased    == {a \in concerned : Erasable(a)}
    IN  /\ request.kind = "ERASURE"
        /\ request.at <= at
        /\ Measurable(erased)
        /\ Publish([tenant |-> request.tenant, request |-> {request}, at |-> at,
                    candidates |-> Measured(erased),
                    withheld |-> {a \in concerned : \/ a \in held
                                                    \/ Inventory[a].class = "AUDIT_EVIDENCE"}])

-----------------------------------------------------------------------------
(* Faulty: the file is taken for what was reviewed if it is there at all.   *)
UnchangedIfPresent(plan, a) == a \in DOMAIN plan.candidates /\ files[a] # Gone

(* The file is hashed again immediately before it is removed.               *)
UnchangedSince(plan, a) == a \in DOMAIN plan.candidates /\ files[a] = plan.candidates[a]

(* execute_retention_candidate, with the fingerprint the operator confirms. *)
Execute(plan, confirmed, a, at) ==
    /\ unreceipted = {} /\ Cardinality(deletions) < MaxDeletions
    /\ at >= plan.at
    /\ plan = confirmed
    /\ UnchangedSince(plan, a)
    /\ files' = [files EXCEPT ![a] = Gone]
    /\ unreceipted' = {[plan |-> plan, asset |-> a, contents |-> plan.candidates[a], at |-> at]}
    /\ deletions' = deletions \union
          {[plan |-> confirmed, asset |-> a, contents |-> files[a], at |-> at]}
    /\ UNCHANGED <<held, plans, receipts, reviews, edits>>

(* retention_execute ends: the receipt is published.                        *)
WriteReceipt ==
    /\ unreceipted # {}
    /\ receipts' = receipts \union unreceipted
    /\ unreceipted' = {}
    /\ UNCHANGED <<files, held, plans, reviews, deletions, edits>>

(* The process stops after the removal, or the receipt's path is taken: the *)
(* file is gone, and running the command again does not find it.            *)
LoseReceipt ==
    /\ unreceipted # {}
    /\ unreceipted' = {}
    /\ UNCHANGED <<files, held, plans, receipts, reviews, deletions, edits>>

-----------------------------------------------------------------------------
(* Between two commands the tenant writes or removes files, and the owner   *)
(* of the inventory lays or lifts a hold.                                   *)
Edit ==
    /\ unreceipted = {}
    /\ edits < MaxEdits /\ edits' = edits + 1
    /\ \/ \E a \in Assets, v \in FileContents \union {Gone} :
             files[a] # v /\ files' = [files EXCEPT ![a] = v] /\ UNCHANGED held
       \/ \E a \in Assets :
             /\ held' = IF a \in held THEN held \ {a} ELSE held \union {a}
             /\ UNCHANGED files
    /\ UNCHANGED <<plans, unreceipted, receipts, reviews, deletions>>

RetentionNext ==
    \/ \E at \in Instant :
          \/ \E tenant \in TenantsOf : PlanExpired(tenant, at)
          \/ \E request \in ErasureRequests : PlanErasure(request, at)
          \/ \E plan, confirmed \in plans, a \in Assets : Execute(plan, confirmed, a, at)
    \/ WriteReceipt \/ LoseReceipt
    \/ Edit

RetentionSpec == RetentionInit /\ [][RetentionNext]_retentionVars

-----------------------------------------------------------------------------
(* RetentionPlan::validate is part of the type: what is withheld is no      *)
(* candidate.                                                               *)
RetentionTypeOK ==
    /\ files \in [Assets -> FileContents \union {Gone}]
    /\ held \subseteq Assets
    /\ \A p \in plans :
          /\ p.tenant \in TenantsOf /\ p.at \in Instant
          /\ p.withheld \subseteq Assets /\ DOMAIN p.candidates \subseteq Assets \ p.withheld
    /\ edits \in 0..MaxEdits

(* What the law asks of a deletion, apart from holds.                       *)
Lawful(d) ==
    LET asset == Inventory[d.asset]
    IN  /\ d.plan.request = {} => asset.until <= d.at
        /\ \A request \in d.plan.request :
              /\ asset.class = "CUSTOMER_CONTENT"
              /\ asset.tenant = request.tenant /\ request.subject \in asset.subjects
              /\ request.kind = "ERASURE" /\ request.at <= d.at

(* Whatever has changed since, a file is deleted only with the contents and *)
(* free of the hold under which some confirmed plan was reviewed, of that   *)
(* plan's tenant, and when the law allows; and every receipt is that of a   *)
(* deletion that happened, of those contents.                               *)
DeletionsAreReviewed ==
    /\ \A d \in deletions :
          /\ \E r \in reviews : /\ r.plan = d.plan
                                /\ d.asset \notin r.held
                                /\ r.files[d.asset] = d.contents
          /\ Inventory[d.asset].tenant = d.plan.tenant
          /\ Lawful(d)
    /\ receipts \subseteq deletions
=============================================================================

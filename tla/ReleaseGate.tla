---------------------------- MODULE ReleaseGate ----------------------------
(***************************************************************************)
(* When a self-hosted installation may be declared ready: release manifests *)
(* and their signatures, the hardened configuration and the entitlement     *)
(* derived from the commercial ledger, core/commercial/src/lib.rs, with the *)
(* commands of apps/cli/src/admin.rs.  Manifest, signature, configuration   *)
(* and readiness are separate files made by different people at different   *)
(* times, while artifacts change and the ledger grows.                      *)
(*                                                                         *)
(* A hash is what it is of: a configuration that names a manifest by its    *)
(* hash holds that manifest.  A signature holds the key it was made with.   *)
(* The ledger here is the verified content of the file that EvidenceFiles   *)
(* models; instants are the operator's.                                     *)
(***************************************************************************)
EXTENDS Naturals, Sequences, FiniteSets, FiniteSetsExt

CONSTANTS Artifacts, Builds,  \* artifacts, and the contents they may have
          FirstBuild,
          SigningKeys,        \* pairs of identity and key; identities may repeat
          TrustedKey,         \* the pair the deployment's owner retains
          Commerce,           \* ledger records that may be appended
          Tenant,             \* the tenant of the installation
          LatestAsOf,         \* bound: instants
          MaxRecords,         \* bound: ledger records
          MaxReleases,        \* bound: manifests
          MaxRebuilds         \* bound: changes of artifacts

VARIABLES root,               \* artifact -> its contents below the artifact root
          manifests, signatures,
          configured,         \* the installation's configuration, if there is one
          commerce,           \* the commercial ledger
          certificates,       \* readiness evidence
          rebuilds

releaseVars == <<root, manifests, signatures, configured, commerce, certificates, rebuilds>>

AsOf == 0..LatestAsOf

ReleaseInit ==
    /\ root = [a \in Artifacts |-> FirstBuild]
    /\ manifests = {} /\ signatures = {} /\ configured = {} /\ certificates = {}
    /\ commerce = <<>>
    /\ rebuilds = 0

-----------------------------------------------------------------------------
(* The commercial ledger.                                                   *)
ProvisionsOf(ledger, tenant) ==
    {n \in 1..Len(ledger) : ledger[n].kind = "PROVISION" /\ ledger[n].tenant = tenant}

(* provisionings: one tenant provisioned twice makes the ledger unreadable  *)
(* for every tenant.                                                        *)
Readable(ledger) ==
    \A n \in 1..Len(ledger) :
        ledger[n].kind = "PROVISION" => Cardinality(ProvisionsOf(ledger, ledger[n].tenant)) = 1

Effective(ledger, tenant, at) ==
    {n \in 1..Len(ledger) : /\ ledger[n].kind = "OBSERVE" /\ ledger[n].tenant = tenant
                            /\ ledger[n].effective <= at}

(* Faulty: the record appended last wins, whenever it is effective from.    *)
LatestAppended(ledger, tenant, at) == Max(Effective(ledger, tenant, at))

(* Effective last; of equals, appended last.                                *)
Latest(ledger, tenant, at) ==
    LET seen == Effective(ledger, tenant, at)
    IN  CHOOSE n \in seen : \A m \in seen \ {n} :
            \/ ledger[m].effective < ledger[n].effective
            \/ ledger[m].effective = ledger[n].effective /\ m < n

SelfHosting(plan) == plan = "SELF_HOSTED"

AccessOf(status) ==
    CASE status = "PAID" -> "FULL" [] status = "GRACE" -> "READ_ONLY" [] OTHER -> "DENIED"

Refused == [access |-> "REFUSED", selfHosting |-> FALSE]
Denied == [access |-> "DENIED", selfHosting |-> FALSE]

(* derive_entitlement.  A subscription for another plan than the tenant was *)
(* provisioned with is an error, as is a tenant that was not.               *)
Entitlement(ledger, tenant, at) ==
    IF ~Readable(ledger) \/ ProvisionsOf(ledger, tenant) = {} THEN Refused
    ELSE IF Effective(ledger, tenant, at) = {} THEN Denied
    ELSE LET record == ledger[Latest(ledger, tenant, at)]
             given  == ledger[Max(ProvisionsOf(ledger, tenant))].plan
             access == IF at >= record.expires THEN "DENIED" ELSE AccessOf(record.status)
         IN  IF record.plan # given THEN Refused
             ELSE [access |-> access,
                   selfHosting |-> access = "FULL" /\ SelfHosting(record.plan)]

(* provision and subscription open the ledger, which reads it whole.        *)
Record(record) ==
    /\ Len(commerce) < MaxRecords
    /\ Readable(commerce)
    /\ commerce' = Append(commerce, record)
    /\ UNCHANGED <<root, manifests, signatures, configured, certificates, rebuilds>>

-----------------------------------------------------------------------------
(* build_release_manifest measures the files below the root as they are.    *)
BuildManifest ==
    /\ manifests' = manifests \union {root}
    /\ Cardinality(manifests') <= MaxReleases
    /\ UNCHANGED <<root, signatures, configured, commerce, certificates, rebuilds>>

(* sign_release_manifest.                                                   *)
Sign(manifest, pair) ==
    /\ signatures' = signatures \union {[manifest |-> manifest, id |-> pair.id, key |-> pair.key]}
    /\ UNCHANGED <<root, manifests, configured, commerce, certificates, rebuilds>>

(* verify_release_signature.                                                *)
SignedAndTrusted(manifest, signature) ==
    /\ signature.manifest = manifest
    /\ signature.id = TrustedKey.id
    /\ signature.key = TrustedKey.key

(* verify_release_artifacts.                                                *)
ArtifactsMatch(manifest) == \A a \in Artifacts : root[a] = manifest[a]

(* SelfHostConfig points to one manifest, one signature and one key         *)
(* identity.  A new file replaces the old.                                  *)
Configure(manifest, signature) ==
    /\ configured' = {[tenant |-> Tenant, manifest |-> manifest, signature |-> signature,
                       trusts |-> TrustedKey.id]}
    /\ UNCHANGED <<root, manifests, signatures, commerce, certificates, rebuilds>>

PointersMatch(config, manifest, signature) ==
    /\ config.manifest = manifest
    /\ config.signature = signature
    /\ config.trusts = TrustedKey.id

(* verify_entitled_self_host_readiness, on the files the operator names.    *)
(* The evidence is published with the head of the ledger it was read from.  *)
DeclareReady(config, manifest, signature, at) ==
    LET entitled == Entitlement(commerce, config.tenant, at)
    IN  /\ SignedAndTrusted(manifest, signature)
        /\ PointersMatch(config, manifest, signature)
        /\ ArtifactsMatch(manifest)
        /\ entitled.access = "FULL" /\ entitled.selfHosting
        /\ certificates' = certificates \union
              {[config |-> config, at |-> at, head |-> commerce, running |-> root]}
        /\ UNCHANGED <<root, manifests, signatures, configured, commerce, rebuilds>>

Rebuild(a, build) ==
    /\ rebuilds < MaxRebuilds /\ rebuilds' = rebuilds + 1
    /\ root[a] # build
    /\ root' = [root EXCEPT ![a] = build]
    /\ UNCHANGED <<manifests, signatures, configured, commerce, certificates>>

ReleaseNext ==
    \/ \E record \in Commerce : Record(record)
    \/ BuildManifest
    \/ \E manifest \in manifests, pair \in SigningKeys : Sign(manifest, pair)
    \/ \E manifest \in manifests, signature \in signatures :
          \/ Configure(manifest, signature)
          \/ \E config \in configured, at \in AsOf : DeclareReady(config, manifest, signature, at)
    \/ \E a \in Artifacts, build \in Builds : Rebuild(a, build)

ReleaseSpec == ReleaseInit /\ [][ReleaseNext]_releaseVars

-----------------------------------------------------------------------------
ReleaseTypeOK ==
    /\ root \in [Artifacts -> Builds]
    /\ manifests \subseteq [Artifacts -> Builds]
    /\ signatures \subseteq [manifest : manifests, id : {k.id : k \in SigningKeys},
                             key : {k.key : k \in SigningKeys}]
    /\ Cardinality(configured) <= 1
    /\ commerce \in Seq(Commerce) /\ Len(commerce) <= MaxRecords
    /\ rebuilds \in 0..MaxRebuilds

(* Paid up at an instant: some paid record covers it, for a plan that       *)
(* allows self-hosting, and every record that is effective after it or was  *)
(* appended after it with the same effect says no less.                     *)
PaidUp(ledger, tenant, at) ==
    \E n \in 1..Len(ledger) :
        LET paid == ledger[n] IN
        /\ paid.kind = "OBSERVE" /\ paid.tenant = tenant /\ paid.status = "PAID"
        /\ at \in paid.effective..(paid.expires - 1)
        /\ SelfHosting(paid.plan)
        /\ \A m \in Effective(ledger, tenant, at) :
              \/ ledger[m].effective < paid.effective
              \/ ledger[m].effective = paid.effective /\ m <= n

(* What is declared ready runs exactly the artifacts that the holder of the *)
(* trusted key signed and that its configuration names, and its tenant is   *)
(* paid up, at that instant, in the ledger whose head it cites.             *)
ReadinessIsEarned ==
    \A c \in certificates :
        /\ c.running = c.config.manifest
        /\ c.config.signature = [manifest |-> c.running, id |-> TrustedKey.id,
                                 key |-> TrustedKey.key]
        /\ PaidUp(c.head, c.config.tenant, c.at)

(* What a tenant is entitled to at an instant changes only with evidence    *)
(* about that tenant, effective by then; or for all when the ledger becomes *)
(* unreadable.                                                              *)
EntitlementIsStable ==
    commerce' # commerce => \A tenant \in {r.tenant : r \in Commerce}, at \in AsOf :
        LET last == commerce'[Len(commerce')]
        IN  Entitlement(commerce', tenant, at) # Entitlement(commerce, tenant, at) =>
                \/ last.tenant = tenant /\ (last.kind = "OBSERVE" => last.effective <= at)
                \/ ~Readable(commerce')
=============================================================================

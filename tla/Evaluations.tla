----------------------------- MODULE Evaluations -----------------------------
(***************************************************************************)
(* What follows a research evaluation (apps/cli/src/backtest.rs): a Python  *)
(* worker is announced and run, the outputs are published one immutable     *)
(* file after another, the run is recorded in the experiment store, and a   *)
(* portable capsule is packaged, signed and verified (core/control-plane/   *)
(* src/capsule.rs).  Processes run side by side and may end between any two *)
(* steps, while the author edits the sources and copies files about.        *)
(*                                                                         *)
(* A digest stands for the contents it was computed from.                   *)
(***************************************************************************)
EXTENDS Naturals, Sequences, FiniteSets, SequencesExt

CONSTANTS Procs,         \* processes
          Strategies,    \* source tree -> [draws: outcomes of a run, vendored: BOOLEAN]
          Datasets,      \* dataset -> [applied: corporate actions, given: BOOLEAN]
          Directories,   \* capsule directories
          TrustedKeys,   \* signing keys
          Courses        \* bounds of one behaviour: [evaluations, edits, locks,
                         \* packages, copies, signs, faults, procs, sources, datasets,
                         \* pythons]

VARIABLES tree,          \* the author's files: sources, configuration, dependency lock
          published,     \* path -> the four files of an evaluation; the operator names
                         \* a path for each dataset
          store,         \* the experiment store: its lines, and whether the last is ended
          work,          \* Procs -> what each process holds
          capsules,      \* Directories -> the members of each
          history,       \* history: the runs recorded, interruptions, signatures, the
                         \* last verification
          left           \* what the course still allows

evaluationVars == <<tree, published, store, work, capsules, history, left>>

None == [kind |-> "NONE"]
Cut == [kind |-> "CUT"]
ConfigurationOf(version) == [kind |-> "CONFIGURATION", version |-> version]
Idle == [phase |-> "IDLE"]
NoMembers == [m \in {} |-> None]
NoDirectory == [exists |-> FALSE, holds |-> NoMembers]

(* A bundle is both source namespaces and the runtime identity; its archive *)
(* is the preimage of its hash.                                             *)
BundleOf(source, python) == [source |-> source, python |-> python]

Outputs == <<"ARTIFACT", "EVENTS", "REPORT", "RECEIPT">>
Members == <<"BUNDLE", "LOCK", "CONFIGURATION", "RECEIPT", "MANIFEST">>

EvaluationInit ==
    /\ left \in Courses
    /\ \E s \in left.sources :
          tree = [source |-> s, configuration |-> ConfigurationOf(1), lock |-> None]
    /\ published = [d \in DOMAIN Datasets |-> [f \in Range(Outputs) |-> None]]
    /\ store = [lines |-> <<>>, ended |-> TRUE]
    /\ work = [p \in Procs |-> Idle]
    /\ capsules = [d \in Directories |-> NoDirectory]
    /\ history = [recorded |-> {}, interrupted |-> FALSE, signed |-> {}, verified |-> {}]

Steps(p, state) == work' = [work EXCEPT ![p] = state]
Spend(field) == left[field] > 0 /\ left' = [left EXCEPT ![field] = @ - 1]

-----------------------------------------------------------------------------
(* The author's files.                                                      *)
EditSource(s) ==
    /\ Spend("edits") /\ s # tree.source
    /\ tree' = [tree EXCEPT !.source = s]
    /\ UNCHANGED <<published, store, work, capsules, history>>

EditConfiguration ==
    /\ Spend("edits")
    /\ tree' = [tree EXCEPT !.configuration = ConfigurationOf(@.version + 1)]
    /\ UNCHANGED <<published, store, work, capsules, history>>

(* strategy_bundle_lock: the enumeration of the hash, for this interpreter. *)
LockOf(source, python) == [kind |-> "LOCK", bundle |-> BundleOf(source, python)]

WriteLock(python) ==
    /\ tree.lock # LockOf(tree.source, python) /\ Spend("locks")
    /\ tree' = [tree EXCEPT !.lock = LockOf(tree.source, python)]
    /\ UNCHANGED <<published, store, work, capsules, history>>

-----------------------------------------------------------------------------
(* One evaluation.  The worker hashes its bundle root, announces the hash,  *)
(* which has to be the one the operator named, and then loads the sources.  *)
DataHash(d) == [kind |-> "DATASET", content |-> d]
SpecificationOf(bundle, configuration, d) ==
    [bundle |-> bundle, configuration |-> configuration, dataset |-> DataHash(d)]

StartWorker(p, python, d) ==
    /\ work[p] = Idle /\ Spend("evaluations")
    /\ Steps(p, [phase |-> "ANNOUNCED", bundle |-> BundleOf(tree.source, python),
                 configuration |-> tree.configuration, data |-> d])
    /\ UNCHANGED <<tree, published, store, capsules, history>>

(* The artifact binds the specification of the run and its events; the      *)
(* report is rendered from it and the completion manifest binds them all.   *)
ArtifactOf(bundle, configuration, d, source, draw) ==
    [kind |-> "ARTIFACT",
     specification |-> SpecificationOf(bundle, configuration, d),
     applied |-> Datasets[d].applied,
     events |-> <<source, configuration, d, draw>>]
ReceiptOf(artifact) ==
    [kind |-> "RECEIPT", configuration |-> artifact.specification.configuration,
     artifact |-> artifact]
OutputOf(artifact, output) ==
    CASE output = "ARTIFACT" -> artifact
      [] output = "EVENTS" -> [kind |-> "EVENTS", lines |-> artifact.events]
      [] output = "REPORT" -> [kind |-> "REPORT", of |-> artifact]
      [] output = "RECEIPT" -> ReceiptOf(artifact)

RunStrategy(p) ==
    /\ work[p].phase = "ANNOUNCED"
    /\ \E draw \in Strategies[tree.source].draws :
          Steps(p, [phase |-> "PUBLISHING", outputs |-> Outputs, path |-> work[p].data,
                    artifact |-> ArtifactOf(work[p].bundle, work[p].configuration,
                                            work[p].data, tree.source, draw)])
    /\ UNCHANGED <<tree, published, store, capsules, history, left>>

(* Faulty: a file that exists counts as published.                          *)
MayPublishOver(path, contents) == TRUE

(* write_immutable: the name appears with the whole contents, once.         *)
MayPublish(path, contents) == path \in {None, contents}

Publish(p) ==
    /\ work[p].phase = "PUBLISHING" /\ work[p].outputs # <<>>
    /\ LET output == Head(work[p].outputs)
           path == work[p].path
           contents == OutputOf(work[p].artifact, output)
       IN  IF MayPublish(published[path][output], contents)
           THEN /\ published' = [published EXCEPT ![path][output] =
                                    IF @ = None THEN contents ELSE @]
                /\ Steps(p, [work[p] EXCEPT !.outputs = Tail(@)])
           ELSE Steps(p, Idle) /\ UNCHANGED published
    /\ UNCHANGED <<tree, store, capsules, history, left>>

-----------------------------------------------------------------------------
(* The experiment store, under one run identity per configuration.  It is   *)
(* read line by line, and neither locked nor chained.                       *)
RecordOf(artifact) ==
    [kind |-> "RECORD", run |-> artifact.specification.configuration, artifact |-> artifact]
LineReads(line) == line # Cut
StoreOpens ==
    /\ \A n \in 1..Len(store.lines) : LineReads(store.lines[n])
    /\ \A m, n \in 1..Len(store.lines) :
          store.lines[m].run = store.lines[n].run => store.lines[m] = store.lines[n]

OpenStore(p) ==
    /\ work[p].phase = "PUBLISHING" /\ work[p].outputs = <<>>
    /\ IF StoreOpens
       THEN Steps(p, [phase |-> "RECORDING", artifact |-> work[p].artifact,
                      known |-> Range(store.lines)])
       ELSE Steps(p, Idle)
    /\ UNCHANGED <<tree, published, store, capsules, history, left>>

Conflicts(known, record) == \E r \in known : r.run = record.run /\ r # record

(* A line after one that lacks its newline spoils both.                     *)
Appended(line) ==
    IF store.ended THEN Append(store.lines, line)
    ELSE Append(Front(store.lines), Cut)

RecordRun(p) ==
    /\ work[p].phase = "RECORDING"
    /\ LET record == RecordOf(work[p].artifact)
       IN  IF record \in work[p].known \/ Conflicts(work[p].known, record)
           THEN UNCHANGED <<store, history>>
           ELSE /\ store' = [lines |-> Appended(record), ended |-> TRUE]
                /\ history' = [history EXCEPT
                      !.recorded = @ \union {record},
                      !.interrupted = @ \/ Range(store.lines) # work[p].known]
    /\ Steps(p, Idle)
    /\ UNCHANGED <<tree, published, capsules, left>>

(* The process ends inside the append, before or in the newline.            *)
CutRun(p, line) ==
    /\ work[p].phase = "RECORDING" /\ Spend("faults")
    /\ RecordOf(work[p].artifact) \notin work[p].known
    /\ ~Conflicts(work[p].known, RecordOf(work[p].artifact))
    /\ line \in {Cut, RecordOf(work[p].artifact)}
    /\ store' = [lines |-> Appended(line), ended |-> FALSE]
    /\ history' = [history EXCEPT !.interrupted = TRUE]
    /\ Steps(p, Idle)
    /\ UNCHANGED <<tree, published, capsules>>

-----------------------------------------------------------------------------
(* capsule-package: the archive is built from the trees for the runtime of  *)
(* the lock, then the configuration and the evaluation are read.            *)
BuildBundle(p, d, path) ==
    /\ work[p] = Idle /\ tree.lock # None /\ Spend("packages")
    /\ Steps(p, [phase |-> "BUILT", lock |-> tree.lock, directory |-> d, path |-> path,
                 bundle |-> BundleOf(tree.source, tree.lock.bundle.python)])
    /\ UNCHANGED <<tree, published, store, capsules, history>>

(* The archive has to be, file by file, what the lock lists.                *)
Opens(bundle, lock) == bundle = lock.bundle
ContentsAgree(lock, bundle, configuration, receipt) ==
    /\ Opens(bundle, lock)
    /\ receipt.configuration = configuration

EvaluationBinds(lock, configuration, artifact, receipt) ==
    /\ receipt.artifact = artifact
    /\ artifact.specification.bundle = lock.bundle
    /\ artifact.specification.configuration = configuration

BindEvaluation(p) ==
    /\ work[p].phase = "BUILT"
    /\ LET w == work[p]
           receipt == published[w.path]["RECEIPT"]
           artifact == published[w.path]["ARTIFACT"]
       IN  IF /\ receipt # None /\ artifact # None
              /\ ContentsAgree(w.lock, w.bundle, tree.configuration, receipt)
              /\ EvaluationBinds(w.lock, tree.configuration, artifact, receipt)
           THEN Steps(p, [phase |-> "BOUND", lock |-> w.lock, directory |-> w.directory,
                          bundle |-> w.bundle, configuration |-> tree.configuration,
                          receipt |-> receipt])
           ELSE Steps(p, Idle)
    /\ UNCHANGED <<tree, published, store, capsules, history, left>>

Extracted(bundle) == bundle.source

(* The receipts a replay of the contents may produce: in a fresh directory, *)
(* by an interpreter without site packages, whose announced hash has to be  *)
(* the one of the lock.                                                     *)
Replays(lock, bundle, configuration, d, python) ==
    LET source == Extracted(bundle)
    IN  IF BundleOf(source, python) = lock.bundle /\ Strategies[source].vendored
        THEN {ReceiptOf(ArtifactOf(lock.bundle, configuration, d, source, draw)) :
                 draw \in Strategies[source].draws}
        ELSE {}

ManifestOf(lock, bundle, configuration, receipt, at) ==
    [kind |-> "MANIFEST", lock |-> lock, bundle |-> bundle, configuration |-> configuration,
     receipt |-> receipt, packaged |-> at]

(* Faulty: the replay has to finish, not to reproduce.                      *)
SealsAnything(receipt, reproduced) == TRUE

(* seal.                                                                    *)
Seals(receipt, reproduced) == reproduced = receipt

ActionsSuffice(receipt, d) ==
    receipt.artifact.applied > 0 => Datasets[d].given

ReplayAndSeal(p, python, d) ==
    /\ work[p].phase = "BOUND"
    /\ LET w == work[p]
       IN  \/ \E reproduced \in Replays(w.lock, w.bundle, w.configuration, d, python) :
                 /\ ActionsSuffice(w.receipt, d) /\ Seals(w.receipt, reproduced)
                 /\ Steps(p, [phase |-> "SEALED", directory |-> w.directory,
                              contents |-> [BUNDLE |-> w.bundle, LOCK |-> w.lock,
                                            CONFIGURATION |-> w.configuration,
                                            RECEIPT |-> w.receipt,
                                            MANIFEST |-> ManifestOf(w.lock, w.bundle,
                                               w.configuration, w.receipt, left.packages)]])
           \/ /\ \A reproduced \in Replays(w.lock, w.bundle, w.configuration, d, python) :
                    ~ActionsSuffice(w.receipt, d) \/ ~Seals(w.receipt, reproduced)
              /\ Steps(p, Idle)
    /\ UNCHANGED <<tree, published, store, capsules, history, left>>

(* write_sealed: the directory must not exist.                              *)
CreateDirectory(p) ==
    /\ work[p].phase = "SEALED"
    /\ IF ~capsules[work[p].directory].exists
       THEN /\ capsules' = [capsules EXCEPT ![work[p].directory].exists = TRUE]
            /\ Steps(p, [phase |-> "WRITING", directory |-> work[p].directory,
                         contents |-> work[p].contents, members |-> Members])
       ELSE Steps(p, Idle) /\ UNCHANGED capsules
    /\ UNCHANGED <<tree, published, store, history, left>>

With(members, name, contents) ==
    [m \in DOMAIN members \union {name} |-> IF m = name THEN contents ELSE members[m]]

WriteMember(p) ==
    /\ work[p].phase = "WRITING"
    /\ LET w == work[p]
           name == Head(w.members)
       IN  /\ capsules' = [capsules EXCEPT ![w.directory].holds = With(@, name, w.contents[name])]
           /\ Steps(p, IF Len(w.members) = 1 THEN Idle ELSE [w EXCEPT !.members = Tail(@)])
    /\ UNCHANGED <<tree, published, store, history, left>>

(* A write fails, and the directory is removed; or the process ends in it.  *)
FailMember(p) ==
    /\ work[p].phase = "WRITING" /\ Spend("faults")
    /\ capsules' = [capsules EXCEPT ![work[p].directory] = NoDirectory]
    /\ Steps(p, Idle)
    /\ UNCHANGED <<tree, published, store, history>>
CutMember(p) ==
    /\ work[p].phase = "WRITING" /\ Spend("faults")
    /\ capsules' = [capsules EXCEPT ![work[p].directory].holds =
                        With(@, Head(work[p].members), Cut)]
    /\ Steps(p, Idle)
    /\ UNCHANGED <<tree, published, store, history>>

-----------------------------------------------------------------------------
(* read_strategy_capsule: exactly the members, the contents agree with each *)
(* other, the manifest with the contents, and a signature with the manifest.*)
Parses(c) == \A m \in DOMAIN c : c[m] # Cut

(* Faulty: the manifest's receipt identity is not recomputed.               *)
ManifestMatchesLoosely(c) ==
    /\ c["MANIFEST"].lock = c["LOCK"] /\ c["MANIFEST"].bundle = c["BUNDLE"]
    /\ c["MANIFEST"].configuration = c["CONFIGURATION"]

ManifestMatches(c) ==
    c["MANIFEST"] = ManifestOf(c["LOCK"], c["BUNDLE"], c["CONFIGURATION"], c["RECEIPT"],
                               c["MANIFEST"].packaged)

SignatureBinds(c) == "SIGNATURE" \in DOMAIN c => c["SIGNATURE"].manifest = c["MANIFEST"]
Reads(c) ==
    /\ DOMAIN c \ {"SIGNATURE"} = Range(Members)
    /\ Parses(c)
    /\ ContentsAgree(c["LOCK"], c["BUNDLE"], c["CONFIGURATION"], c["RECEIPT"])
    /\ ManifestMatches(c) /\ SignatureBinds(c)

(* capsule-sign: the capsule is read, the manifest signed, and the capsule  *)
(* read again before the signature is written.                              *)
SignatureOf(manifest, key) == [kind |-> "SIGNATURE", manifest |-> manifest, key |-> key]

SignCapsule(p, d, key) ==
    /\ work[p] = Idle /\ Reads(capsules[d].holds) /\ Spend("signs")
    /\ Steps(p, [phase |-> "SIGNED", directory |-> d,
                 signature |-> SignatureOf(capsules[d].holds["MANIFEST"], key)])
    /\ history' = [history EXCEPT !.signed = @ \union {[by |-> key, of |-> capsules[d].holds]}]
    /\ UNCHANGED <<tree, published, store, capsules>>

WriteSignature(p, written) ==
    /\ work[p].phase = "SIGNED"
    /\ IF written = Cut THEN Spend("faults") ELSE written = work[p].signature /\ UNCHANGED left
    /\ LET d == work[p].directory
       IN  IF /\ Reads(capsules[d].holds) /\ "SIGNATURE" \notin DOMAIN capsules[d].holds
              /\ work[p].signature.manifest = capsules[d].holds["MANIFEST"]
           THEN capsules' = [capsules EXCEPT ![d].holds = With(@, "SIGNATURE", written)]
           ELSE UNCHANGED capsules
    /\ Steps(p, Idle)
    /\ UNCHANGED <<tree, published, store, history>>

(* capsule-verify, with a trusted key.                                      *)
Trusts(c, key) == "SIGNATURE" \in DOMAIN c /\ c["SIGNATURE"].key = key

VerifyCapsule(d, key, python, data) ==
    LET c == capsules[d].holds
    IN  /\ Reads(c) /\ Trusts(c, key)
        /\ c["RECEIPT"] \in Replays(c["LOCK"], c["BUNDLE"], c["CONFIGURATION"], data, python)
        /\ history' = [history EXCEPT !.verified = {[by |-> key, of |-> c]}]
        /\ UNCHANGED <<tree, published, store, work, capsules, left>>

(* A member of one capsule is copied over that of another, in a set.        *)
CopyMember(d, e, m) ==
    /\ d # e /\ Spend("copies")
    /\ m \in DOMAIN capsules[d].holds \intersect DOMAIN capsules[e].holds
    /\ \A p \in Procs : work[p].phase # "WRITING"
    /\ capsules' = [capsules EXCEPT ![e].holds = With(@, m, capsules[d].holds[m])]
    /\ UNCHANGED <<tree, published, store, work, history>>

(* A process ends between two files.  Where it has written nothing, it may   *)
(* as well not have begun.                                                  *)
EndProcess(p) ==
    /\ work[p].phase \in {"PUBLISHING", "WRITING"} /\ Spend("faults")
    /\ Steps(p, Idle)
    /\ UNCHANGED <<tree, published, store, capsules, history>>

EvaluationNext ==
    \/ EditConfiguration
    \/ \E s \in left.sources : EditSource(s)
    \/ \E python \in left.pythons : WriteLock(python)
    \/ \E p \in left.procs :
          \/ RunStrategy(p) \/ Publish(p) \/ OpenStore(p) \/ RecordRun(p) \/ EndProcess(p)
          \/ BindEvaluation(p) \/ CreateDirectory(p)
          \/ WriteMember(p) \/ FailMember(p) \/ CutMember(p)
          \/ \E python \in left.pythons, d \in left.datasets :
                StartWorker(p, python, d) \/ ReplayAndSeal(p, python, d)
          \/ \E d \in Directories, path \in left.datasets : BuildBundle(p, d, path)
          \/ \E d \in Directories, key \in TrustedKeys : SignCapsule(p, d, key)
          \/ work[p].phase = "RECORDING"
                /\ \E line \in {Cut, RecordOf(work[p].artifact)} : CutRun(p, line)
          \/ work[p].phase = "SIGNED"
                /\ \E written \in {Cut, work[p].signature} : WriteSignature(p, written)
    \/ \E d \in Directories, key \in TrustedKeys, python \in left.pythons,
          data \in left.datasets : VerifyCapsule(d, key, python, data)
    \/ \E d, e \in Directories, m \in Range(Members) \union {"SIGNATURE"} : CopyMember(d, e, m)

EvaluationSpec == EvaluationInit /\ [][EvaluationNext]_evaluationVars

-----------------------------------------------------------------------------
EvaluationTypeOK ==
    /\ tree.source \in DOMAIN Strategies /\ tree.configuration.version \in Nat
    /\ tree.lock.kind \in {"NONE", "LOCK"}
    /\ \A d \in DOMAIN Datasets, f \in Range(Outputs) : published[d][f].kind \in {"NONE", f}
    /\ \A n \in 1..Len(store.lines) : store.lines[n].kind \in {"RECORD", "CUT"}
    /\ \A p \in Procs :
          work[p].phase \in {"IDLE", "ANNOUNCED", "PUBLISHING", "RECORDING", "BUILT", "BOUND",
                             "SEALED", "WRITING", "SIGNED"}
    /\ \A d \in Directories :
          /\ DOMAIN capsules[d].holds \subseteq Range(Members) \union {"SIGNATURE"}
          /\ ~capsules[d].exists => capsules[d].holds = NoMembers

(* The files of an evaluation are of one run, whoever published them and    *)
(* wherever an earlier process ended.                                       *)
PublicationAgrees ==
    \A path \in DOMAIN Datasets, f \in Range(Outputs) :
        LET files == published[path]
        IN  files["ARTIFACT"] # None /\ files[f] # None =>
                files[f] = OutputOf(files["ARTIFACT"], f)

(* Appends that were neither interrupted nor made on a stale reading leave  *)
(* a store that opens and holds every run that was recorded.                *)
StoreKeeps ==
    ~history.interrupted => StoreOpens /\ history.recorded \subseteq Range(store.lines)

(* A directory that reads as a capsule carries the sources, configuration   *)
(* and runtime that produce its receipt, even when the sources changed      *)
(* between the hash the worker announced and the code it loaded, or when    *)
(* files were copied between capsules.                                      *)
SealedReproduces ==
    \A d \in Directories : Reads(capsules[d].holds) =>
        LET c == capsules[d].holds
            artifact == c["RECEIPT"].artifact
        IN  /\ artifact.specification.bundle = c["BUNDLE"]
            /\ \E data \in DOMAIN Datasets :
                  c["RECEIPT"] \in Replays(c["LOCK"], c["BUNDLE"], c["CONFIGURATION"], data,
                                           c["BUNDLE"].python)

(* What verifies under a trusted key is, member for member, what the holder *)
(* of that key read and signed.                                             *)
VerifiedWasSigned ==
    \A v \in history.verified : \E s \in history.signed :
        /\ s.by = v.by
        /\ \A m \in Range(Members) : s.of[m] = v.of[m]

EvaluationsReproduce ==
    PublicationAgrees /\ StoreKeeps /\ SealedReproduces /\ VerifiedWasSigned
=============================================================================

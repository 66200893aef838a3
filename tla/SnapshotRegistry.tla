-------------------------- MODULE SnapshotRegistry --------------------------
(***************************************************************************)
(* SnapshotControlService (crates/admin-api/src/control.rs): publication   *)
(* of compiled snapshots under immutable versions, backup and restore, the *)
(* durable envelope that survives a restart of the control plane, and the  *)
(* diff preview that grades a change.                                      *)
(*                                                                         *)
(* A digest stands for the snapshot it was computed from.  A version is    *)
(* validated with its surrounding white space trimmed and stored as it     *)
(* came, so both spellings are versions here and Trim relates them.  The   *)
(* audit log keeps the kind of its events; times, actors and texts are     *)
(* left out.                                                               *)
(***************************************************************************)
EXTENDS Integers, Sequences, FiniteSets, FiniteSetsExt

CONSTANTS
    Versions,     \* version strings, with and without surrounding white space
    Trim,         \* str::trim on them
    Malformed,    \* trimmed versions that are empty, too long or not a name
    Digests,      \* digests of the snapshots that compile
    Content,      \* the named resources of every snapshot, with fingerprints
    Security,     \* the security section of every snapshot
    Discovered,   \* digests of snapshots with a discovery-backed cluster
    Signers,      \* signer identities
    MaxAudit,     \* max_audit_events of the retention policy
    Budgets,      \* the mixes of operations that are explored
    None

VARIABLES
    registry,     \* the SnapshotControlService
    bundle,       \* the last SnapshotBackupBundle exported
    envelope,     \* the last SnapshotRegistryDurableEnvelope written
    restoring,    \* records a restore has still to publish
    budget        \* how many operations of each kind may still happen

registryVars == <<registry, bundle, envelope, restoring>>

Use(kind) ==
    /\ budget[kind] > 0
    /\ budget' = [budget EXCEPT ![kind] = @ - 1]

Attestations ==
    [signer : Signers, digest : Digests, signed : BOOLEAN] \cup {None}

Record == [version : Versions, digest : Digests, attestation : Attestations]

NewRegistry ==
    [records |-> <<>>, byDigest |-> <<>>, history |-> <<>>, audit |-> <<>>]

VerifyIntegrity(digest, attestation) ==
    LET security == Security[digest] IN
    IF security.enforced
    THEN /\ attestation # None
         /\ attestation.digest = digest
         /\ attestation.signer \in security.trusted
         /\ attestation.signed
    ELSE security.devMode /\ security.acknowledged

ValidatePublishRequest(req) ==
    /\ Trim[req.version] \notin Malformed
    /\ req.expected \in {None, req.digest}
    /\ VerifyIntegrity(req.digest, req.attestation)
    /\ req.fieldsOk

PublishOutcome(reg, req) ==
    CASE ~ValidatePublishRequest(req) -> "invalid"
      [] /\ ValidatePublishRequest(req)
         /\ req.version \in DOMAIN reg.records ->
            IF reg.records[req.version].digest = req.digest THEN "unchanged"
                                                            ELSE "conflict"
      [] /\ ValidatePublishRequest(req)
         /\ req.version \notin DOMAIN reg.records ->
            IF req.digest \in DOMAIN reg.byDigest THEN "conflict" ELSE "published"

EventOf(outcome) ==
    IF outcome \in {"invalid", "conflict"} THEN "rejected" ELSE outcome

With(f, key, value) ==
    [k \in DOMAIN f \cup {key} |-> IF k = key THEN value ELSE f[k]]

AddRecord(reg, record) ==
    [reg EXCEPT !.records  = With(reg.records, record.version, record),
                !.byDigest = With(reg.byDigest, record.digest, record.version),
                !.history  = Append(reg.history, record.version)]

RecordOf(req) ==
    [version |-> req.version, digest |-> req.digest,
     attestation |-> req.attestation]

PublishAt(reg, req) ==
    LET outcome == PublishOutcome(reg, req)
        stored  == IF outcome = "published" THEN AddRecord(reg, RecordOf(req))
                                            ELSE reg
    IN [stored EXCEPT !.audit = Append(stored.audit, EventOf(outcome))]

PublishRequests ==
    [version : Versions, digest : Digests, attestation : Attestations,
     expected : Digests \cup {None}, fieldsOk : BOOLEAN]

RequestOf(record) ==
    [version |-> record.version, digest |-> record.digest,
     attestation |-> record.attestation, expected |-> record.digest,
     fieldsOk |-> TRUE]

MutantNewestFirst(reg) ==
    [i \in DOMAIN reg.history |-> reg.records[reg.history[Len(reg.history) + 1 - i]]]

Exported(reg) == [i \in DOMAIN reg.history |-> reg.records[reg.history[i]]]

PrunePublishEvents(events) ==
    SubSeq(events, (IF Len(events) > MaxAudit THEN Len(events) - MaxAudit ELSE 0) + 1,
           Len(events))

Idle == [kind |-> "idle", queue |-> <<>>]

RegistryInit ==
    /\ registry = NewRegistry
    /\ bundle = None
    /\ envelope = None
    /\ restoring = Idle
    /\ budget \in Budgets

Publish(req) ==
    /\ restoring = Idle
    /\ Use("publish")
    /\ registry' = PublishAt(registry, req)
    /\ UNCHANGED <<bundle, envelope, restoring>>

ExportBackup ==
    /\ Use("upkeep")
    /\ restoring = Idle
    /\ bundle' = Exported(registry)
    /\ UNCHANGED <<registry, envelope, restoring>>

(* restore_backup into the service that runs.  The records are published   *)
(* one by one under the exclusive borrow, so nothing else happens to the   *)
(* registry until the queue is empty or a record is refused.               *)
RestoreBackup ==
    /\ Use("upkeep")
    /\ restoring = Idle
    /\ bundle \notin {None, <<>>}
    /\ restoring' = [kind |-> "backup", queue |-> bundle]
    /\ UNCHANGED <<registry, bundle, envelope>>

RestoreBackupStep ==
    /\ restoring.kind = "backup"
    /\ LET req  == RequestOf(Head(restoring.queue))
           rest == Tail(restoring.queue)
       IN /\ registry' = PublishAt(registry, req)
          /\ restoring' =
                IF \/ rest = <<>>
                   \/ PublishOutcome(registry, req) \in {"invalid", "conflict"}
                THEN Idle
                ELSE [kind |-> "backup", queue |-> rest]
    /\ UNCHANGED <<bundle, envelope, budget>>

ExportDurable ==
    /\ Use("upkeep")
    /\ restoring = Idle
    /\ envelope' = [records |-> Exported(registry),
                    audit   |-> PrunePublishEvents(registry.audit),
                    intact  |-> TRUE]
    /\ UNCHANGED <<registry, bundle, restoring>>

(* The storage that keeps the envelope is not part of the repository: what *)
(* it returns either has the checksum it was written with or does not.     *)
DamageEnvelope ==
    /\ Use("upkeep")
    /\ envelope # None
    /\ envelope.intact
    /\ restoring = Idle
    /\ envelope' = [envelope EXCEPT !.intact = FALSE]
    /\ UNCHANGED <<registry, bundle, restoring>>

(* The control plane restarts with an empty service, which it then fills   *)
(* from the envelope (restore_durable_state), from a backup                *)
(* (restore_from_backup), or not at all.                                   *)
Restart ==
    /\ Use("upkeep")
    /\ registry' = NewRegistry
    /\ restoring' \in
          {Idle}
          \cup {[kind |-> "durable", queue |-> envelope.records] :
                   e \in {envelope} \ {None}}
          \cup {[kind |-> "backup", queue |-> bundle] :
                   b \in {bundle} \ {None, <<>>}}
    /\ UNCHANGED <<bundle, envelope>>

(* A durable record keeps the view of its snapshot, which is compiled      *)
(* again.  The view of a cluster has its static endpoints and not its      *)
(* discovery source, and a cluster with neither does not validate.         *)
Recompiles(digest) == digest \notin Discovered

RestorableRecord(reg, record) ==
    /\ Recompiles(record.digest)
    /\ ValidatePublishRequest(RequestOf(record))
    /\ record.version \notin DOMAIN reg.records
    /\ record.digest \notin DOMAIN reg.byDigest

RestoreRecord ==
    /\ restoring.kind = "durable"
    /\ envelope.intact
    /\ restoring.queue # <<>>
    /\ RestorableRecord(registry, Head(restoring.queue))
    /\ registry' = AddRecord(registry, Head(restoring.queue))
    /\ restoring' = [restoring EXCEPT !.queue = Tail(restoring.queue)]
    /\ UNCHANGED <<bundle, envelope, budget>>

RestoreDone ==
    /\ restoring.kind = "durable"
    /\ envelope.intact
    /\ restoring.queue = <<>>
    /\ registry' = [registry EXCEPT !.audit = PrunePublishEvents(envelope.audit)]
    /\ restoring' = Idle
    /\ UNCHANGED <<bundle, envelope, budget>>

(* A checksum mismatch, or a record that is refused, drops the service     *)
(* built so far.                                                           *)
RestoreFails ==
    /\ restoring.kind = "durable"
    /\ \/ ~envelope.intact
       \/ /\ restoring.queue # <<>>
          /\ ~RestorableRecord(registry, Head(restoring.queue))
    /\ registry' = NewRegistry
    /\ restoring' = Idle
    /\ UNCHANGED <<bundle, envelope, budget>>

RegistryNext(requests) ==
    \/ \E req \in requests : Publish(req)
    \/ ExportBackup
    \/ RestoreBackup
    \/ RestoreBackupStep
    \/ ExportDurable
    \/ DamageEnvelope
    \/ Restart
    \/ RestoreRecord
    \/ RestoreDone
    \/ RestoreFails

----------------------------------------------------------------------------
(* The diff preview.                                                       *)

DiffResources(previous, next) ==
    [added   |-> Cardinality(DOMAIN next \ DOMAIN previous),
     removed |-> Cardinality(DOMAIN previous \ DOMAIN next),
     updated |-> Cardinality({name \in DOMAIN previous \cap DOMAIN next :
                                previous[name] # next[name]})]

Diff(previous, next) ==
    [listeners |-> DiffResources(Content[previous].listeners, Content[next].listeners),
     routes    |-> DiffResources(Content[previous].routes, Content[next].routes),
     clusters  |-> DiffResources(Content[previous].clusters, Content[next].clusters)]

TotalChanges(changes) == changes.added + changes.removed + changes.updated

ImpactSeverity(diff) ==
    IF \/ diff.listeners.removed + diff.listeners.updated > 0
       \/ diff.routes.removed > 0
       \/ diff.clusters.removed > 0
    THEN "high"
    ELSE IF \/ diff.routes.updated + diff.clusters.updated > 0
            \/ diff.listeners.added > 0
            \/ TotalChanges(diff.listeners) + TotalChanges(diff.routes)
                 + TotalChanges(diff.clusters) >= 6
         THEN "medium"
         ELSE "low"

Last(list) == list[Len(list)]

LatestVersion(reg) == IF reg.history = <<>> THEN None ELSE Last(reg.history)

Baseline(reg, base) == IF base = None THEN LatestVersion(reg) ELSE base

PreviewSeverity(reg, base, digest) ==
    ImpactSeverity(Diff(reg.records[Baseline(reg, base)].digest, digest))
=============================================================================

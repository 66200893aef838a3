------------------------ MODULE ControlPlaneProofs -------------------------
(***************************************************************************)
(* Proofs about the control plane, for every number of nodes, versions and *)
(* snapshots, and every sequence of publications, restores, restarts,      *)
(* fleet operations and calls on single nodes.                             *)
(***************************************************************************)
EXTENDS ControlPlane, WellFoundedInduction, SequenceTheorems, TLAPS

(* A nonempty set of positions has a last one.                             *)
LEMMA LastPosition ==
    ASSUME NEW n \in Nat, NEW I, I \subseteq 1..n, I # {}
    PROVE  Max(I) \in I
<1> DEFINE T == {k \in Nat : \E i \in I : k = n - i}
           less == OpToRel(<, Nat)
<1>1. T \subseteq Nat /\ T # {}
  <2>1. PICK i : i \in I
    OBVIOUS
  <2>2. n - i \in Nat
    BY <2>1
  <2> QED
    BY Zenon, SMTT(20), <2>1, <2>2
<1>2. PICK k \in T : \A y \in T : ~(<<y, k>> \in less)
  BY Zenon, SMTT(20), <1>1, NatLessThanWellFounded, WFMin
<1>3. \A y \in T : ~(y < k)
  BY Zenon, SMTT(20), <1>1, <1>2 DEF OpToRel
<1>4. PICK i \in I : k = n - i
  BY <1>1
<1>5. \A j \in I : i >= j
  <2> SUFFICES ASSUME NEW j \in I PROVE i >= j
    OBVIOUS
  <2>1. n - j \in T /\ i \in 1..n /\ j \in 1..n
    BY <1>4
  <2> QED
    BY <2>1, <1>3, <1>4
<1> QED
  BY Zenon, SMTT(20), <1>4, <1>5 DEF Max

----------------------------------------------------------------------------
(* One node                                                                *)
NodeSound(nd) ==
    /\ nd \in NodeStates
    /\ nd.lastKnownGood = nd.active
    /\ nd.active = None <=> nd.successful = <<>>
    /\ nd.active # None => Last(nd.successful) = nd.active.version

(* The version a rollback without a target goes back to has been in the    *)
(* node's list.                                                            *)
LEMMA CandidateKnown ==
    ASSUME NEW nd \in NodeStates
    PROVE  RollbackCandidate(nd) \in Versions \cup {None}
<1> DEFINE others == {i \in DOMAIN nd.successful :
                          nd.active = None \/ nd.successful[i] # nd.active.version}
<1>1. nd.successful \in Seq(Versions) /\ Len(nd.successful) \in Nat
  BY DEF NodeStates
<1>2. others \subseteq 1..Len(nd.successful)
  BY <1>1
<1>3. RollbackCandidate(nd) = IF others = {} THEN None ELSE nd.successful[Max(others)]
  BY DEF RollbackCandidate
<1> HIDE DEF others
<1>4. others # {} => Max(others) \in 1..Len(nd.successful)
  BY Zenon, SMTT(20), <1>1, <1>2, LastPosition
<1> QED
  BY <1>1, <1>3, <1>4

(* A new node runs nothing.                                                *)
LEMMA NewNodeSound == NodeSound(NewNode)
BY DEF NodeSound, NodeStates, NewNode

(* What a refused operation leaves behind.                                 *)
LEMMA NotedSound ==
    ASSUME NEW nd, NodeSound(nd), NEW entry \in Entries
    PROVE  NodeSound([nd EXCEPT !.last = entry]) /\ [nd EXCEPT !.last = entry].active = nd.active
BY DEF NodeSound, NodeStates

(* push_successful_version leaves the version at the end.                  *)
LEMMA PushEnds ==
    ASSUME NEW list \in Seq(Versions), NEW version \in Versions
    PROVE  LET pushed == PushSuccessful(list, version)
           IN  pushed \in Seq(Versions) /\ pushed # <<>> /\ Last(pushed) = version
<1>1. CASE list # <<>> /\ Last(list) = version
  BY <1>1 DEF PushSuccessful
<1>2. CASE ~(list # <<>> /\ Last(list) = version)
  <2>1. PushSuccessful(list, version) = Append(list, version)
    BY <1>2 DEF PushSuccessful
  <2>2. Append(list, version) \in Seq(Versions) /\ Len(Append(list, version)) = Len(list) + 1
        /\ Append(list, version)[Len(list) + 1] = version
    OBVIOUS
  <2>3. Append(list, version) # <<>>
    BY <2>2, EmptySeq
  <2> QED
    BY <2>1, <2>2, <2>3 DEF Last
<1> QED
  BY <1>1, <1>2

(* The node after a snapshot was given to it: refused and unchanged, or    *)
(* running the record, which is then the last of its successes.            *)
LEMMA ExecuteSound ==
    ASSUME NEW nd, NodeSound(nd), NEW action \in {"rollout", "rollback"}, NEW record \in Record,
           NEW fieldsOk \in BOOLEAN, NEW hookOk \in BOOLEAN
    PROVE  LET did == ExecuteAction(nd, action, record, fieldsOk, hookOk)
           IN  /\ NodeSound(did.node)
               /\ did.node.active \in {nd.active, AppliedOf(record)}
               /\ did.result \in {"applied", "unchanged", "rejected"}
<1> DEFINE outcome == ApplyOutcome(nd, record, fieldsOk, hookOk)
           after == ApplyAt(nd, record, fieldsOk, hookOk)
           result == IF outcome \in {"applied", "unchanged"} THEN outcome ELSE "rejected"
           list == IF outcome = "applied" THEN PushSuccessful(after.successful, record.version) ELSE after.successful
           entry == Entry(action, result, record.version)
           did == ExecuteAction(nd, action, record, fieldsOk, hookOk)
<1>1. did = [node |-> [after EXCEPT !.successful = list, !.last = entry], result |-> result]
  BY DEF ExecuteAction
<1>2. outcome \in {"integrity", "unchanged", "applied", "activation"}
  BY DEF ApplyOutcome
<1>3. result \in {"applied", "unchanged", "rejected"} /\ entry \in Entries
  BY <1>2 DEF Entry, Entries, Record
<1>4. record.version \in Versions /\ AppliedOf(record) \in Applied /\ AppliedOf(record).version = record.version
  BY DEF Record, Applied, AppliedOf
<1>5. nd \in NodeStates /\ nd.lastKnownGood = nd.active /\ nd.successful \in Seq(Versions)
  BY DEF NodeSound, NodeStates
<1> HIDE DEF outcome
<1>6. CASE outcome = "applied"
  <2>1. after = [nd EXCEPT !.active = AppliedOf(record), !.lastKnownGood = AppliedOf(record),
                           !.failure = None, !.lifecycle = "active"]
    BY <1>6 DEF ApplyAt, outcome
  <2>2. after \in NodeStates /\ after.successful = nd.successful /\ after.active = AppliedOf(record)
        /\ after.lastKnownGood = AppliedOf(record)
    BY Zenon, SMTT(20), <1>4, <1>5, <2>1 DEF NodeStates
  <2>3. list \in Seq(Versions) /\ list # <<>> /\ Last(list) = record.version
    BY Zenon, SMTT(20), <1>4, <1>5, <1>6, <2>2, PushEnds
  <2> HIDE DEF after, list, entry
  <2>4. did.node \in NodeStates /\ did.node.active = AppliedOf(record) /\ did.node.lastKnownGood = AppliedOf(record)
        /\ did.node.successful = list
    <3>1. did.node = [after EXCEPT !.successful = list, !.last = entry]
      BY <1>1
    <3> HIDE DEF did
    <3> QED
      BY Zenon, SMTT(20), <3>1, <1>3, <2>2, <2>3 DEF NodeStates
  <2>5. AppliedOf(record) # None
    BY <1>4, ControlPlaneAssumption DEF ControlPlaneAssumption
  <2> QED
    BY <1>1, <1>3, <1>4, <2>3, <2>4, <2>5 DEF NodeSound
<1>7. CASE outcome # "applied"
  <2>1. after \in NodeStates /\ after.successful = nd.successful /\ after.active = nd.active
        /\ after.lastKnownGood = nd.lastKnownGood
    BY Zenon, SMTT(20), <1>2, <1>5, <1>7 DEF ApplyAt, outcome, RecordFailure, NodeStates
  <2>2. list = nd.successful
    BY <1>7, <2>1
  <2> HIDE DEF after, list, entry
  <2>3. did.node \in NodeStates /\ did.node.active = nd.active /\ did.node.lastKnownGood = nd.lastKnownGood
        /\ did.node.successful = nd.successful
    <3>1. did.node = [after EXCEPT !.successful = list, !.last = entry]
      BY <1>1
    <3> HIDE DEF did
    <3> QED
      BY Zenon, SMTT(20), <3>1, <1>3, <1>5, <2>1, <2>2 DEF NodeStates
  <2> QED
    BY <1>1, <1>3, <1>5, <2>3 DEF NodeSound
<1> QED
  BY Zenon, SMTT(20), <1>6, <1>7

(* A node goes on with what it ran or runs a record of the registry.       *)
Runs(before, after, reg) ==
    after.active = before.active \/ \E record \in Range(reg.records) : after.active = AppliedOf(record)

(* A refused rollout or rollback leaves an entry and the active snapshot.  *)
LEMMA RefusedSound ==
    ASSUME NEW nd, NodeSound(nd), NEW action \in {"rollout", "rollback"}, NEW version \in Versions \cup {None}
    PROVE  /\ NodeSound(Refused(nd, action, version).node)
           /\ Refused(nd, action, version).node.active = nd.active
           /\ Refused(nd, action, version).result = "rejected"
<1>1. Entry(action, "rejected", version) \in Entries
  BY DEF Entry, Entries
<1> QED
  BY Zenon, SMTT(20), <1>1, NotedSound DEF Refused

(* A rollout moves a node to a record of the registry or leaves it where   *)
(* it is (rollout.rs).                                                     *)
LEMMA RolloutSound ==
    ASSUME NEW nd, NodeSound(nd), NEW reg, Range(reg.records) \subseteq Record, NEW version \in Versions,
           NEW fieldsOk \in BOOLEAN, NEW hookOk \in BOOLEAN
    PROVE  LET did == RolloutAt(nd, reg, version, fieldsOk, hookOk)
           IN  /\ NodeSound(did.node) /\ Runs(nd, did.node, reg)
               /\ did.result \in {"applied", "unchanged", "rejected"}
<1>1. CASE ~ValidateRolloutRequest(version, fieldsOk) \/ version \notin DOMAIN reg.records
  <2>1. RolloutAt(nd, reg, version, fieldsOk, hookOk) = Refused(nd, "rollout", version)
    BY <1>1 DEF RolloutAt
  <2> QED
    BY <2>1, RefusedSound DEF Runs
<1>2. CASE ~(~ValidateRolloutRequest(version, fieldsOk) \/ version \notin DOMAIN reg.records)
  <2>1. RolloutAt(nd, reg, version, fieldsOk, hookOk)
            = ExecuteAction(nd, "rollout", reg.records[version], fieldsOk, hookOk)
    BY <1>2 DEF RolloutAt
  <2>2. reg.records[version] \in Range(reg.records)
    BY <1>2 DEF Range
  <2>3. LET did == ExecuteAction(nd, "rollout", reg.records[version], fieldsOk, hookOk)
        IN  /\ NodeSound(did.node) /\ did.node.active \in {nd.active, AppliedOf(reg.records[version])}
            /\ did.result \in {"applied", "unchanged", "rejected"}
    BY Zenon, SMTT(20), <2>2, ExecuteSound
  <2> QED
    BY Zenon, SMTT(20), <2>1, <2>2, <2>3 DEF Runs
<1> QED
  BY Zenon, SMTT(20), <1>1, <1>2

(* So does a rollback, with or without a target.                           *)
LEMMA RollbackSound ==
    ASSUME NEW nd, NodeSound(nd), NEW reg, Range(reg.records) \subseteq Record,
           NEW target \in Versions \cup {None}, NEW fieldsOk \in BOOLEAN, NEW hookOk \in BOOLEAN
    PROVE  LET did == RollbackAt(nd, reg, target, fieldsOk, hookOk)
           IN  /\ NodeSound(did.node) /\ Runs(nd, did.node, reg)
               /\ did.result \in {"applied", "unchanged", "rejected"}
<1> DEFINE version == IF target = None THEN RollbackCandidate(nd) ELSE target
           ill == target # None /\ ~ValidateRolloutRequest(target, fieldsOk)
           unfit == \/ version = None
                    \/ target # None /\ target \notin Range(nd.successful)
                    \/ version \notin DOMAIN reg.records
<1>1. version \in Versions \cup {None}
  BY CandidateKnown DEF NodeSound
<1>2. CASE ill
  <2>1. RollbackAt(nd, reg, target, fieldsOk, hookOk) = [node |-> nd, result |-> "rejected"]
    BY <1>2 DEF RollbackAt
  <2> QED
    BY <2>1 DEF Runs
<1>3. CASE ~ill /\ unfit
  <2>1. RollbackAt(nd, reg, target, fieldsOk, hookOk) = Refused(nd, "rollback", version)
    BY Zenon, SMTT(20), <1>3 DEF RollbackAt
  <2> HIDE DEF version
  <2>2. LET did == Refused(nd, "rollback", version)
        IN  NodeSound(did.node) /\ did.node.active = nd.active /\ did.result = "rejected"
    BY <1>1, RefusedSound
  <2> QED
    BY Zenon, SMTT(20), <2>1, <2>2 DEF Runs
<1>4. CASE ~ill /\ ~unfit
  <2>1. RollbackAt(nd, reg, target, fieldsOk, hookOk)
            = ExecuteAction(nd, "rollback", reg.records[version], fieldsOk, hookOk)
    BY Zenon, SMTT(20), <1>4 DEF RollbackAt
  <2>2. reg.records[version] \in Range(reg.records)
    BY <1>4 DEF Range
  <2> HIDE DEF version
  <2>3. LET did == ExecuteAction(nd, "rollback", reg.records[version], fieldsOk, hookOk)
        IN  /\ NodeSound(did.node) /\ did.node.active \in {nd.active, AppliedOf(reg.records[version])}
            /\ did.result \in {"applied", "unchanged", "rejected"}
    BY Zenon, SMTT(20), <2>2, ExecuteSound
  <2> QED
    BY Zenon, SMTT(20), <2>1, <2>2, <2>3 DEF Runs
<1> QED
  BY Zenon, SMTT(20), <1>2, <1>3, <1>4

----------------------------------------------------------------------------
(* The registry                                                            *)
Indexed(reg) ==
    /\ Range(reg.history) = DOMAIN reg.records
    /\ IsInjective(reg.history)
    /\ Range(reg.byDigest) = DOMAIN reg.records
    /\ \A v \in DOMAIN reg.records :
          /\ reg.records[v].version = v
          /\ reg.records[v].digest \in DOMAIN reg.byDigest
          /\ reg.byDigest[reg.records[v].digest] = v
          /\ VerifyIntegrity(reg.records[v].digest, reg.records[v].attestation)
          /\ Trim[v] \notin Malformed
    /\ \A e \in DOMAIN reg.byDigest : reg.records[reg.byDigest[e]].digest = e

RegistryOK(reg) == reg \in Registries /\ Indexed(reg)

(* The empty service is sound and exports nothing.                         *)
LEMMA NewRegistryOK == RegistryOK(NewRegistry) /\ Exported(NewRegistry) = <<>>
<1>1. NewRegistry.records = <<>> /\ NewRegistry.byDigest = <<>> /\ NewRegistry.history = <<>>
      /\ NewRegistry.audit = <<>>
  BY DEF NewRegistry
<1>2. DOMAIN <<>> = {} /\ \A S : <<>> \in Seq(S)
  OBVIOUS
<1>3. <<>> \in [{} -> Record] /\ <<>> \in [{} -> Versions]
  OBVIOUS
<1>4. NewRegistry \in Registries
  BY Zenon, SMTT(20), <1>2, <1>3 DEF NewRegistry, Registries
<1>5. Indexed(NewRegistry)
  BY <1>1, <1>2 DEF Indexed, Range, IsInjective
<1>6. Exported(NewRegistry) = <<>>
  BY <1>1, <1>2 DEF Exported
<1> QED
  BY <1>4, <1>5, <1>6 DEF RegistryOK

(* What the parts of a registry are.                                       *)
LEMMA RegistryParts ==
    ASSUME NEW reg \in Registries
    PROVE  /\ DOMAIN reg.records \subseteq Versions /\ reg.records \in [DOMAIN reg.records -> Record]
           /\ DOMAIN reg.byDigest \subseteq Digests /\ reg.byDigest \in [DOMAIN reg.byDigest -> Versions]
           /\ reg.history \in Seq(Versions) /\ reg.audit \in Seq(AuditEvents)
BY DEF Registries

(* The fields of a registry make a registry.                               *)
LEMMA RegistryFrom ==
    ASSUME NEW V \in SUBSET Versions, NEW records \in [V -> Record],
           NEW E \in SUBSET Digests, NEW byDigest \in [E -> Versions],
           NEW history \in Seq(Versions), NEW audit \in Seq(AuditEvents)
    PROVE  [records |-> records, byDigest |-> byDigest, history |-> history, audit |-> audit] \in Registries
BY DEF Registries

(* The audit log is no part of the indexes.                                *)
LEMMA AuditFree ==
    ASSUME NEW reg, RegistryOK(reg), NEW audit \in Seq(AuditEvents),
           NEW after, after = [reg EXCEPT !.audit = audit]
    PROVE  /\ RegistryOK(after) /\ Exported(after) = Exported(reg) /\ after.records = reg.records
           /\ after.audit = audit
<1>1. after.records = reg.records /\ after.byDigest = reg.byDigest /\ after.history = reg.history
      /\ after.audit = audit /\ after \in Registries
  BY Zenon, SMTT(20) DEF RegistryOK, Registries
<1>2. Indexed(after)
  BY <1>1 DEF RegistryOK, Indexed
<1>3. Exported(after) = Exported(reg)
  BY <1>1 DEF Exported
<1> QED
  BY <1>1, <1>2, <1>3 DEF RegistryOK

(* A record that may be stored: publishing checks exactly this.            *)
Storable(reg, record) ==
    /\ record \in Record
    /\ Trim[record.version] \notin Malformed /\ VerifyIntegrity(record.digest, record.attestation)
    /\ record.version \notin DOMAIN reg.records /\ record.digest \notin DOMAIN reg.byDigest

(* Storing a record keeps the indexes in step and lengthens the export by  *)
(* this record (publish_at, restore_record).                               *)
LEMMA AddRecordOK ==
    ASSUME NEW reg, RegistryOK(reg), NEW record, Storable(reg, record)
    PROVE  LET after == AddRecord(reg, record)
           IN  /\ RegistryOK(after) /\ after.audit = reg.audit
               /\ Exported(after) = Append(Exported(reg), record)
<1> DEFINE v == record.version
           d == record.digest
           after == AddRecord(reg, record)
           records == With(reg.records, v, record)
           byDigest == With(reg.byDigest, d, v)
           history == Append(reg.history, v)
<1>1. v \in Versions /\ d \in Digests /\ record \in Record
  BY DEF Storable, Record
<1>2. /\ DOMAIN reg.records \subseteq Versions /\ reg.records \in [DOMAIN reg.records -> Record]
      /\ DOMAIN reg.byDigest \subseteq Digests /\ reg.byDigest \in [DOMAIN reg.byDigest -> Versions]
      /\ reg.history \in Seq(Versions) /\ reg.audit \in Seq(AuditEvents)
  BY RegistryParts DEF RegistryOK
<1>3. after = [records |-> records, byDigest |-> byDigest, history |-> history, audit |-> reg.audit]
  <2>1. reg \in Registries
    BY DEF RegistryOK
  <2>2. after = [reg EXCEPT !.records = records, !.byDigest = byDigest, !.history = history]
    BY DEF AddRecord
  <2> HIDE DEF records, byDigest, history, after
  <2> QED
    BY Zenon, SMTT(20), <2>1, <2>2 DEF Registries
<1>4. /\ records \in [DOMAIN reg.records \cup {v} -> Record] /\ DOMAIN records = DOMAIN reg.records \cup {v}
      /\ records[v] = record /\ \A u \in DOMAIN reg.records : records[u] = reg.records[u]
  BY Zenon, SMTT(20), <1>1, <1>2 DEF With, Storable
<1>5. /\ byDigest \in [DOMAIN reg.byDigest \cup {d} -> Versions] /\ DOMAIN byDigest = DOMAIN reg.byDigest \cup {d}
      /\ byDigest[d] = v /\ \A e \in DOMAIN reg.byDigest : byDigest[e] = reg.byDigest[e]
  BY Zenon, SMTT(20), <1>1, <1>2 DEF With, Storable
<1>6. /\ history \in Seq(Versions) /\ Len(history) = Len(reg.history) + 1 /\ history[Len(reg.history) + 1] = v
      /\ \A i \in 1..Len(reg.history) : history[i] = reg.history[i]
      /\ DOMAIN history = 1..Len(reg.history) + 1 /\ DOMAIN reg.history = 1..Len(reg.history)
      /\ Len(reg.history) \in Nat
  BY <1>1, <1>2
<1> HIDE DEF records, byDigest, history
<1>7. after \in Registries
  <2>1. DOMAIN reg.records \cup {v} \in SUBSET Versions /\ DOMAIN reg.byDigest \cup {d} \in SUBSET Digests
    BY <1>1, <1>2
  <2> HIDE DEF after
  <2> QED
    BY Zenon, SMTT(20), <1>2, <1>3, <1>4, <1>5, <1>6, <2>1, RegistryFrom
<1>8. after.records = records /\ after.byDigest = byDigest /\ after.history = history /\ after.audit = reg.audit
  BY <1>3
<1> HIDE DEF after
<1>9. Range(history) = DOMAIN records
  <2>1. Range(reg.history) = DOMAIN reg.records
    BY Zenon, SMTT(20) DEF RegistryOK, Indexed
  <2>2. Range(history) = Range(reg.history) \cup {v}
    BY <1>6 DEF Range
  <2> QED
    BY <1>4, <2>1, <2>2
<1>10. IsInjective(history)
  <2>1. IsInjective(reg.history) /\ v \notin Range(reg.history)
    BY Zenon, SMTT(20) DEF RegistryOK, Indexed, Storable
  <2> QED
    BY SMTT(20), Zenon, <1>6, <2>1 DEF IsInjective, Range
<1>11. Range(byDigest) = DOMAIN records
  <2>1. Range(reg.byDigest) = DOMAIN reg.records
    BY Zenon, SMTT(20) DEF RegistryOK, Indexed
  <2>2. Range(byDigest) = Range(reg.byDigest) \cup {v}
    BY <1>5 DEF Range
  <2> QED
    BY <1>4, <2>1, <2>2
<1>12. \A u \in DOMAIN records :
          /\ records[u].version = u
          /\ records[u].digest \in DOMAIN byDigest
          /\ byDigest[records[u].digest] = u
          /\ VerifyIntegrity(records[u].digest, records[u].attestation)
          /\ Trim[u] \notin Malformed
  <2> SUFFICES ASSUME NEW u \in DOMAIN records
               PROVE  /\ records[u].version = u
                      /\ records[u].digest \in DOMAIN byDigest
                      /\ byDigest[records[u].digest] = u
                      /\ VerifyIntegrity(records[u].digest, records[u].attestation)
                      /\ Trim[u] \notin Malformed
    OBVIOUS
  <2>1. CASE u = v
    BY Zenon, SMTT(20), <1>4, <1>5, <2>1 DEF Storable
  <2>2. CASE u \in DOMAIN reg.records
    BY <1>4, <1>5, <2>2 DEF RegistryOK, Indexed
  <2> QED
    BY Zenon, SMTT(20), <1>4, <2>1, <2>2
<1>13. RegistryOK(after)
  <2>1. ASSUME NEW e \in DOMAIN byDigest
        PROVE  records[byDigest[e]].digest = e
    <3>1. CASE e = d
      BY Zenon, SMTT(20), <3>1, <1>4, <1>5
    <3>2. CASE e \in DOMAIN reg.byDigest
      <4>1. reg.byDigest[e] \in DOMAIN reg.records /\ reg.records[reg.byDigest[e]].digest = e
        BY Zenon, SMTT(20), <3>2 DEF RegistryOK, Indexed, Range
      <4> QED
        BY Zenon, SMTT(20), <3>2, <4>1, <1>4, <1>5
    <3> QED
      BY Zenon, SMTT(20), <1>5, <3>1, <3>2
  <2>2. Indexed(after)
    BY Zenon, SMTT(20), <1>8, <1>9, <1>10, <1>11, <1>12, <2>1 DEF Indexed
  <2> QED
    BY <1>7, <2>2 DEF RegistryOK
<1>14. Exported(after) = Append(Exported(reg), record)
  <2> DEFINE old == Exported(reg)
             new == [i \in 1..Len(reg.history) + 1 |-> records[history[i]]]
  <2>1. \A i \in 1..Len(reg.history) : reg.history[i] \in DOMAIN reg.records
    BY Zenon, SMTT(20), <1>6 DEF RegistryOK, Indexed, Range
  <2>2. old \in Seq(Record) /\ Len(old) = Len(reg.history)
        /\ \A i \in 1..Len(reg.history) : old[i] = reg.records[reg.history[i]]
    BY <1>2, <1>6, <2>1 DEF Exported
  <2>3. Exported(after) = new
    BY <1>6, <1>8 DEF Exported
  <2>4. new \in Seq(Record) /\ Len(new) = Len(reg.history) + 1
        /\ \A i \in 1..Len(reg.history) + 1 : new[i] = records[history[i]]
    <3>1. \A i \in 1..Len(reg.history) + 1 : history[i] \in DOMAIN records
      BY <1>9, <1>6 DEF Range
    <3> QED
      BY <1>4, <1>6, <3>1
  <2>5. \A i \in 1..Len(reg.history) + 1 : new[i] = Append(old, record)[i]
    <3> SUFFICES ASSUME NEW i \in 1..Len(reg.history) + 1
                 PROVE  new[i] = Append(old, record)[i]
      BY Zenon, SMTT(20)
    <3> HIDE DEF new, old
    <3>1. CASE i = Len(reg.history) + 1
      <4>1. Append(old, record)[Len(old) + 1] = record
        BY <1>1, <2>2
      <4> QED
        BY Zenon, SMTT(20), <4>1, <1>4, <1>6, <2>2, <2>4, <3>1
    <3>2. CASE i \in 1..Len(reg.history)
      <4>1. Append(old, record)[i] = old[i]
        BY <1>1, <2>2, <3>2
      <4> QED
        BY <4>1, <1>4, <1>6, <2>1, <2>2, <2>4, <3>2
    <3>3. i = Len(reg.history) + 1 \/ i \in 1..Len(reg.history)
      <4>1. Len(reg.history) \in Nat
        BY <1>6
      <4> QED
        BY <4>1
    <3> QED
      BY Zenon, SMTT(20), <3>1, <3>2, <3>3
  <2>6. Append(old, record) \in Seq(Record) /\ Len(Append(old, record)) = Len(reg.history) + 1
    BY <1>1, <2>2
  <2> HIDE DEF new, old
  <2>7. new = Append(old, record)
    BY Zenon, SMTT(20), <2>4, <2>5, <2>6, SeqEqual
  <2> QED
    BY <2>3, <2>7 DEF old
<1> QED
  BY <1>8, <1>13, <1>14 DEF after

(* A publication stores its record or leaves the indexes alone.            *)
LEMMA PublishOK ==
    ASSUME NEW reg, RegistryOK(reg), NEW req \in PublishRequests
    PROVE  RegistryOK(PublishAt(reg, req))
<1> DEFINE outcome == PublishOutcome(reg, req)
           stored == IF outcome = "published" THEN AddRecord(reg, RecordOf(req)) ELSE reg
<1>1. outcome = "published" => Storable(reg, RecordOf(req))
  BY DEF PublishOutcome, ValidatePublishRequest, Storable, RecordOf, PublishRequests, Record
<1>2. EventOf(outcome) \in AuditEvents
  BY DEF PublishOutcome, EventOf, AuditEvents
<1>3. RegistryOK(stored)
  BY <1>1, AddRecordOK
<1>4. PublishAt(reg, req) = [stored EXCEPT !.audit = Append(stored.audit, EventOf(outcome))]
  BY DEF PublishAt
<1> HIDE DEF stored, outcome
<1>5. Append(stored.audit, EventOf(outcome)) \in Seq(AuditEvents)
  <2>1. stored.audit \in Seq(AuditEvents)
    BY <1>3, RegistryParts DEF RegistryOK
  <2> QED
    BY <1>2, <2>1
<1> QED
  BY Zenon, SMTT(20), <1>3, <1>4, <1>5, AuditFree

(* What an export holds: every record once, each fit to be stored.         *)
ExportOK(records) ==
    /\ records \in Seq(Record)
    /\ \A i \in DOMAIN records :
           Trim[records[i].version] \notin Malformed /\ VerifyIntegrity(records[i].digest, records[i].attestation)
    /\ \A i, j \in DOMAIN records :
           i # j => records[i].version # records[j].version /\ records[i].digest # records[j].digest

(* Exporting a sound registry lists its records in the order of history.   *)
LEMMA ExportedOK ==
    ASSUME NEW reg, RegistryOK(reg)
    PROVE  /\ ExportOK(Exported(reg)) /\ Len(Exported(reg)) = Len(reg.history)
           /\ \A i \in DOMAIN reg.history : Exported(reg)[i] = reg.records[reg.history[i]]
<1>1. /\ reg.records \in [DOMAIN reg.records -> Record]
      /\ reg.history \in Seq(Versions) /\ DOMAIN reg.history = 1..Len(reg.history) /\ Len(reg.history) \in Nat
  BY RegistryParts DEF RegistryOK
<1>2. \A i \in 1..Len(reg.history) : reg.history[i] \in DOMAIN reg.records
  BY <1>1 DEF RegistryOK, Indexed, Range
<1>3. /\ Exported(reg) \in Seq(Record) /\ Len(Exported(reg)) = Len(reg.history)
      /\ DOMAIN Exported(reg) = 1..Len(reg.history)
      /\ \A i \in 1..Len(reg.history) : Exported(reg)[i] = reg.records[reg.history[i]]
  BY <1>1, <1>2 DEF Exported
<1>4. ASSUME NEW i \in 1..Len(reg.history)
      PROVE  /\ Trim[Exported(reg)[i].version] \notin Malformed
             /\ VerifyIntegrity(Exported(reg)[i].digest, Exported(reg)[i].attestation)
             /\ Exported(reg)[i].version = reg.history[i]
             /\ reg.byDigest[Exported(reg)[i].digest] = reg.history[i]
  BY <1>2, <1>3 DEF RegistryOK, Indexed
<1>5. ASSUME NEW i \in 1..Len(reg.history), NEW j \in 1..Len(reg.history), i # j
      PROVE  Exported(reg)[i].version # Exported(reg)[j].version /\ Exported(reg)[i].digest # Exported(reg)[j].digest
  <2>1. reg.history[i] # reg.history[j]
    BY Zenon, SMTT(20), <1>1, <1>5 DEF RegistryOK, Indexed, IsInjective
  <2> QED
    BY Zenon, SMTT(20), <2>1, <1>4
<1> QED
  BY Zenon, SMTT(20), <1>1, <1>3, <1>4, <1>5 DEF ExportOK

(* Pruning keeps the newest events, as many as the policy retains.         *)
LEMMA PruneOK ==
    ASSUME NEW events \in Seq(AuditEvents)
    PROVE  PrunePublishEvents(events) \in Seq(AuditEvents) /\ Len(PrunePublishEvents(events)) <= MaxAudit
<1> DEFINE from == (IF Len(events) > MaxAudit THEN Len(events) - MaxAudit ELSE 0) + 1
<1>1. MaxAudit \in Nat /\ Len(events) \in Nat
  BY ControlPlaneAssumption DEF ControlPlaneAssumption
<1>2. from \in 1..Len(events) + 1 /\ Len(events) - from + 1 <= MaxAudit
  BY <1>1
<1>3. PrunePublishEvents(events) = SubSeq(events, from, Len(events))
  BY DEF PrunePublishEvents
<1> HIDE DEF from
<1>4. SubSeq(events, from, Len(events)) \in Seq(AuditEvents)
      /\ Len(SubSeq(events, from, Len(events))) = IF from <= Len(events) THEN Len(events) - from + 1 ELSE 0
  <2>1. Len(events) \in from - 1..Len(events)
    BY <1>1, <1>2
  <2> QED
    BY <1>1, <1>2, <2>1, SubSeqProperties
<1> QED
  BY <1>1, <1>2, <1>3, <1>4

(* While an intact envelope is restored, its next record is one the        *)
(* registry can store: nothing restored before has its version or digest.  *)
LEMMA NextRestorable ==
    ASSUME NEW reg, RegistryOK(reg), NEW queue \in Seq(Record), queue # <<>>,
           ExportOK(Exported(reg) \o queue)
    PROVE  /\ Storable(reg, Head(queue)) /\ ValidatePublishRequest(RequestOf(Head(queue)))
           /\ Tail(queue) \in Seq(Record)
           /\ Append(Exported(reg), Head(queue)) \o Tail(queue) = Exported(reg) \o queue
<1> DEFINE out == Exported(reg)
           n == Len(out)
           all == out \o queue
<1>1. out \in Seq(Record) /\ n \in Nat /\ n = Len(reg.history) /\ reg.history \in Seq(Versions)
  BY ExportedOK, RegistryParts DEF ExportOK, RegistryOK
<1>2. \A i \in 1..n : out[i] = reg.records[reg.history[i]]
  BY <1>1, ExportedOK
<1> HIDE DEF out
<1>3. /\ Head(queue) \in Record /\ Tail(queue) \in Seq(Record) /\ Len(queue) \in Nat \ {0}
      /\ Append(out, Head(queue)) \o Tail(queue) = all
  BY <1>1
<1>4. /\ DOMAIN all = 1..(n + Len(queue)) /\ all[n + 1] = Head(queue)
      /\ \A i \in 1..n : all[i] = out[i]
  <2>1. queue[1] = Head(queue)
    BY <1>3
  <2>2. Len(all) = n + Len(queue) /\ \A i \in 1..(n + Len(queue)) : all[i] = IF i <= n THEN out[i] ELSE queue[i - n]
    BY SMTT(20), Zenon, <1>1
  <2>3. all \in Seq(Record)
    BY <1>1
  <2>4. (n + 1) - n = 1 /\ ~(n + 1 <= n) /\ n + 1 \in 1..(n + Len(queue))
    BY <1>1, <1>3
  <2>5. \A i \in 1..n : i \in 1..(n + Len(queue)) /\ i <= n
    BY <1>1, <1>3
  <2>6. DOMAIN all = 1..Len(all)
    BY <2>3
  <2> HIDE DEF all, n
  <2>7. all[n + 1] = Head(queue)
    <3>1. all[n + 1] = IF n + 1 <= n THEN out[n + 1] ELSE queue[(n + 1) - n]
      BY <2>2, <2>4, Zenon, SMTT(20)
    <3>2. all[n + 1] = queue[(n + 1) - n]
      BY <2>4, <3>1, Zenon, SMTT(20)
    <3>3. queue[(n + 1) - n] = queue[1]
      BY <2>4, Zenon, SMTT(20)
    <3> QED
      BY <2>1, <3>2, <3>3
  <2>8. \A i \in 1..n : all[i] = out[i]
    BY <2>2, <2>5
  <2> QED
    BY <2>2, <2>6, <2>7, <2>8
<1>5. n + 1 \in DOMAIN all /\ \A i \in 1..n : i \in DOMAIN all /\ i # n + 1
  BY <1>1, <1>3, <1>4
<1>6. /\ Trim[Head(queue).version] \notin Malformed
      /\ VerifyIntegrity(Head(queue).digest, Head(queue).attestation)
      /\ \A i \in 1..n : out[i].version # Head(queue).version /\ out[i].digest # Head(queue).digest
  BY Zenon, SMTT(20), <1>4, <1>5 DEF ExportOK, out
<1>7. Head(queue).version \notin DOMAIN reg.records
  <2> SUFFICES ASSUME Head(queue).version \in DOMAIN reg.records PROVE FALSE
    OBVIOUS
  <2>1. PICK i \in 1..n : reg.history[i] = Head(queue).version
    BY SMTT(20), Zenon, <1>1 DEF RegistryOK, Indexed, Range
  <2>2. out[i].version = reg.history[i]
    BY Zenon, SMTT(20), <1>2, <2>1 DEF RegistryOK, Indexed
  <2> QED
    BY Zenon, SMTT(20), <1>6, <2>1, <2>2
<1>8. Head(queue).digest \notin DOMAIN reg.byDigest
  <2> SUFFICES ASSUME Head(queue).digest \in DOMAIN reg.byDigest PROVE FALSE
    OBVIOUS
  <2>1. reg.byDigest[Head(queue).digest] \in DOMAIN reg.records
    BY DEF RegistryOK, Indexed, Range
  <2>2. PICK i \in 1..n : reg.history[i] = reg.byDigest[Head(queue).digest]
    BY SMTT(20), Zenon, <1>1, <2>1 DEF RegistryOK, Indexed, Range
  <2>3. out[i].digest = Head(queue).digest
    BY <1>2, <2>2 DEF RegistryOK, Indexed
  <2> QED
    BY Zenon, SMTT(20), <1>6, <2>3
<1>9. ValidatePublishRequest(RequestOf(Head(queue)))
  BY Zenon, SMTT(20), <1>6 DEF ValidatePublishRequest, RequestOf
<1> QED
  BY Zenon, SMTT(20), <1>3, <1>6, <1>7, <1>8, <1>9 DEF Storable, out

(* The registry, what was written from it, and a restore under way.        *)
EnvelopeOK ==
    envelope # None =>
       /\ envelope = [records |-> envelope.records, audit |-> envelope.audit, intact |-> envelope.intact]
       /\ ExportOK(envelope.records)
       /\ envelope.audit \in Seq(AuditEvents) /\ Len(envelope.audit) <= MaxAudit
       /\ envelope.intact \in BOOLEAN

RestoringOK ==
    /\ restoring \in [kind : {"idle", "backup", "durable"}, queue : Seq(Record)]
    /\ restoring.kind = "backup" => restoring.queue # <<>>
    /\ restoring.kind = "durable" =>
          /\ envelope # None
          /\ envelope.intact => Exported(registry) \o restoring.queue = envelope.records

RegistryInv ==
    /\ RegistryOK(registry)
    /\ bundle # None => bundle \in Seq(Record)
    /\ EnvelopeOK
    /\ RestoringOK

(* The empty service a restart begins with.                                *)
LEMMA RestartKeeps ==
    ASSUME RegistryInv, Restart
    PROVE  RegistryInv'
<1>1. registry' = NewRegistry /\ bundle' = bundle /\ envelope' = envelope
  BY DEF Restart
<1>2. RegistryOK(registry') /\ Exported(registry') = <<>>
  BY <1>1, NewRegistryOK
<1>3. EnvelopeOK' /\ (bundle' # None => bundle' \in Seq(Record))
  BY <1>1 DEF RegistryInv, EnvelopeOK
<1>4. \/ restoring' = Idle
      \/ envelope # None /\ restoring' = [kind |-> "durable", queue |-> envelope.records]
      \/ bundle \notin {None, <<>>} /\ restoring' = [kind |-> "backup", queue |-> bundle]
  BY DEF Restart
<1>5. RestoringOK'
  <2>1. CASE restoring' = Idle
    BY <2>1 DEF Idle, RestoringOK
  <2>2. CASE envelope # None /\ restoring' = [kind |-> "durable", queue |-> envelope.records]
    <3>1. envelope.records \in Seq(Record) /\ <<>> \o envelope.records = envelope.records
      BY <2>2 DEF RegistryInv, EnvelopeOK, ExportOK
    <3> QED
      BY <1>1, <1>2, <2>2, <3>1 DEF RestoringOK
  <2>3. CASE bundle \notin {None, <<>>} /\ restoring' = [kind |-> "backup", queue |-> bundle]
    BY <2>3 DEF RegistryInv, RestoringOK
  <2> QED
    BY <1>4, <2>1, <2>2, <2>3
<1> QED
  BY <1>2, <1>3, <1>5 DEF RegistryInv

(* A registry that is not being restored only has to be sound.             *)
LEMMA RegistryIdle ==
    ASSUME RegistryInv, RegistryOK(registry'), restoring' = Idle, bundle' = bundle, envelope' = envelope
    PROVE  RegistryInv'
<1>1. RestoringOK'
  BY DEF Idle, RestoringOK
<1>2. EnvelopeOK'
  BY DEF RegistryInv, EnvelopeOK
<1> QED
  BY <1>1, <1>2 DEF RegistryInv

(* Publications, exports and the steps of a restore keep the registry      *)
(* sound (control.rs, publish_at, restore_backup, restore_durable_state).  *)
LEMMA RegistryStepKeeps ==
    ASSUME RegistryInv, RegistryNext(Requests)
    PROVE  RegistryInv'
<1>1. CASE \E req \in Requests : Publish(req)
  <2>1. PICK req \in Requests : Publish(req)
    BY <1>1
  <2>2. req \in PublishRequests
    BY ControlPlaneAssumption DEF ControlPlaneAssumption
  <2>3. RegistryOK(registry')
    BY <2>1, <2>2, PublishOK DEF Publish, RegistryInv
  <2> QED
    BY <2>1, <2>3, RegistryIdle DEF Publish
<1>2. CASE ExportBackup
  <2>1. bundle' \in Seq(Record)
    BY Zenon, SMTT(20), <1>2, ExportedOK DEF ExportBackup, RegistryInv, ExportOK
  <2> QED
    BY Zenon, SMTT(20), <1>2, <2>1 DEF ExportBackup, RegistryInv, EnvelopeOK, RestoringOK
<1>3. CASE RestoreBackup
  <2>1. bundle # None /\ bundle # <<>> /\ bundle \in Seq(Record)
    BY <1>3 DEF RestoreBackup, RegistryInv
  <2>2. RestoringOK'
    BY <1>3, <2>1 DEF RestoreBackup, RestoringOK
  <2> QED
    BY Zenon, SMTT(20), <1>3, <2>2 DEF RestoreBackup, RegistryInv, EnvelopeOK
<1>4. CASE RestoreBackupStep
  <2> DEFINE record == Head(restoring.queue)
             rest == Tail(restoring.queue)
  <2>1. record \in Record /\ rest \in Seq(Record)
    BY <1>4 DEF RestoreBackupStep, RegistryInv, RestoringOK
  <2>2. RequestOf(record) \in PublishRequests
    BY Zenon, SMTT(20), <2>1 DEF RequestOf, PublishRequests, Record
  <2>3. RegistryOK(registry')
    BY Zenon, SMTT(20), <1>4, <2>2, PublishOK DEF RestoreBackupStep, RegistryInv
  <2>4. restoring' = Idle \/ (rest # <<>> /\ restoring' = [kind |-> "backup", queue |-> rest])
    BY Zenon, SMTT(20), <1>4 DEF RestoreBackupStep
  <2>5. bundle' = bundle /\ envelope' = envelope
    BY <1>4 DEF RestoreBackupStep
  <2>6. CASE restoring' = Idle
    BY <2>3, <2>5, <2>6, RegistryIdle
  <2>7. CASE rest # <<>> /\ restoring' = [kind |-> "backup", queue |-> rest]
    BY Zenon, SMTT(20), <2>1, <2>3, <2>5, <2>7 DEF RegistryInv, RestoringOK, EnvelopeOK
  <2> QED
    BY Zenon, SMTT(20), <2>4, <2>6, <2>7
<1>5. CASE ExportDurable
  <2> DEFINE records == Exported(registry)
             audit == PrunePublishEvents(registry.audit)
  <2>1. ExportOK(records)
    BY ExportedOK DEF RegistryInv
  <2>2. audit \in Seq(AuditEvents) /\ Len(audit) <= MaxAudit
    BY RegistryParts, PruneOK DEF RegistryInv, RegistryOK
  <2>3. envelope' = [records |-> records, audit |-> audit, intact |-> TRUE]
    BY <1>5 DEF ExportDurable
  <2>4. registry' = registry /\ bundle' = bundle /\ restoring' = restoring /\ restoring = Idle
    BY <1>5 DEF ExportDurable
  <2> HIDE DEF records, audit
  <2>5. EnvelopeOK'
    BY <2>1, <2>2, <2>3 DEF EnvelopeOK
  <2>6. RestoringOK'
    BY <2>4 DEF Idle, RestoringOK
  <2> QED
    BY <2>4, <2>5, <2>6 DEF RegistryInv
<1>6. CASE DamageEnvelope
  <2>1. envelope' = [envelope EXCEPT !.intact = FALSE] /\ envelope # None
    BY <1>6 DEF DamageEnvelope
  <2>2. registry' = registry /\ bundle' = bundle /\ restoring' = restoring /\ restoring = Idle
    BY <1>6 DEF DamageEnvelope
  <2>3. EnvelopeOK'
    BY Zenon, SMTT(20), <2>1 DEF RegistryInv, EnvelopeOK
  <2>4. RestoringOK'
    BY <2>2 DEF Idle, RestoringOK
  <2> QED
    BY <2>2, <2>3, <2>4 DEF RegistryInv
<1>7. CASE Restart
  BY <1>7, RestartKeeps
<1>8. CASE RestoreRecord
  <2> DEFINE queue == restoring.queue
  <2>1. /\ queue \in Seq(Record) /\ queue # <<>> /\ envelope # None
        /\ Exported(registry) \o queue = envelope.records
        /\ registry' = AddRecord(registry, Head(queue))
        /\ restoring' = [restoring EXCEPT !.queue = Tail(queue)] /\ restoring.kind = "durable"
        /\ bundle' = bundle /\ envelope' = envelope
    BY Zenon, SMTT(20), <1>8 DEF RestoreRecord, RegistryInv, RestoringOK
  <2>2. ExportOK(Exported(registry) \o queue) /\ RegistryOK(registry)
    BY Zenon, SMTT(20), <2>1 DEF RegistryInv, EnvelopeOK
  <2>3. /\ Storable(registry, Head(queue)) /\ Tail(queue) \in Seq(Record)
        /\ Append(Exported(registry), Head(queue)) \o Tail(queue) = envelope.records
    BY Zenon, SMTT(20), <2>1, <2>2, NextRestorable
  <2>4. RegistryOK(registry') /\ Exported(registry') = Append(Exported(registry), Head(queue))
    BY Zenon, SMTT(20), <2>1, <2>2, <2>3, AddRecordOK
  <2>5. restoring' = [kind |-> "durable", queue |-> Tail(queue)]
    BY Zenon, SMTT(20), <2>1 DEF RegistryInv, RestoringOK
  <2>6. RestoringOK'
    BY Zenon, SMTT(20), <2>1, <2>3, <2>4, <2>5 DEF RestoringOK
  <2> QED
    BY Zenon, SMTT(20), <2>1, <2>4, <2>6 DEF RegistryInv, EnvelopeOK
<1>9. CASE RestoreDone
  <2>1. PrunePublishEvents(envelope.audit) \in Seq(AuditEvents)
    BY <1>9, PruneOK DEF RestoreDone, RegistryInv, RestoringOK, EnvelopeOK
  <2>2. RegistryOK(registry')
    BY <1>9, <2>1, AuditFree DEF RestoreDone, RegistryInv
  <2> QED
    BY <1>9, <2>2, RegistryIdle DEF RestoreDone
<1>10. CASE RestoreFails
  BY <1>10, NewRegistryOK, RegistryIdle DEF RestoreFails
<1> QED
  BY <1>1, <1>2, <1>3, <1>4, <1>5, <1>6, <1>7, <1>8, <1>9, <1>10 DEF RegistryNext

(* What a run checks of the registry follows.                              *)
LEMMA RegistryInvSound ==
    ASSUME RegistryInv
    PROVE  RegistrySound
<1>1. RegistryConsistent
  BY Zenon, SMTT(20) DEF RegistryInv, RegistryOK, Indexed, RegistryConsistent
<1>2. ASSUME restoring.kind = "durable", envelope.intact
      PROVE  /\ Exported(registry) \o restoring.queue = envelope.records
             /\ restoring.queue # <<>> /\ Recompiles(Head(restoring.queue).digest) =>
                   RestorableRecord(registry, Head(restoring.queue))
  <2>1. /\ Exported(registry) \o restoring.queue = envelope.records
        /\ restoring.queue \in Seq(Record) /\ ExportOK(Exported(registry) \o restoring.queue)
    BY Zenon, SMTT(20), <1>2 DEF RegistryInv, RestoringOK, EnvelopeOK
  <2>2. ASSUME restoring.queue # <<>>
        PROVE  /\ Storable(registry, Head(restoring.queue))
               /\ ValidatePublishRequest(RequestOf(Head(restoring.queue)))
    BY Zenon, SMTT(20), <2>1, <2>2, NextRestorable DEF RegistryInv
  <2> QED
    BY Zenon, SMTT(20), <2>1, <2>2 DEF RestorableRecord, Storable
<1>3. envelope # None => Len(envelope.audit) <= MaxAudit
  BY DEF RegistryInv, EnvelopeOK
<1> QED
  BY Zenon, SMTT(20), <1>1, <1>2, <1>3 DEF RegistrySound, DurableRestoreComplete

----------------------------------------------------------------------------
(* The budget and the fleet operation                                      *)

BudgetTypes == [publish : Nat, upkeep : Nat, node : Nat, fleet : Nat, faults : Nat]

(* Only what is done to a node by an operator uses the node budget.        *)
LEMMA UseBudget ==
    ASSUME budget \in BudgetTypes, NEW kind \in {"publish", "upkeep", "node", "fleet", "faults"}, Use(kind)
    PROVE  /\ budget' \in BudgetTypes /\ budget'.node <= budget.node
           /\ kind = "node" => budget'.node < budget.node
           /\ kind # "node" => budget'.node = budget.node
<1>1. CASE kind = "publish"
  BY <1>1 DEF Use, BudgetTypes
<1>2. CASE kind = "upkeep"
  BY <1>2 DEF Use, BudgetTypes
<1>3. CASE kind = "node"
  BY <1>3 DEF Use, BudgetTypes
<1>4. CASE kind = "fleet"
  BY <1>4 DEF Use, BudgetTypes
<1>5. CASE kind = "faults"
  BY <1>5 DEF Use, BudgetTypes
<1> QED
  BY Zenon, SMTT(20), <1>1, <1>2, <1>3, <1>4, <1>5

StrategyTypes == [kind : {"immediate", "sequential"}] \cup [kind : {"canary"}, nodes : Nat]
Outcomes == {"applied", "unchanged", "rejected", "failed", "skipped"}
Sightings ==
    [state : {"converged", "diverged", "pending", "unavailable"}, good : Applied \cup {None}]

Ordered == NodeIds # <<>> /\ IsInjective(NodeIds)

Selecting ==
    /\ Ordered
    /\ op = [phase |-> "target", i |-> op.i, shared |-> op.shared, canary |-> op.canary]
    /\ op.i \in DOMAIN NodeIds

OperationTypes ==
    [phase : {"apply", "report", "finish", "gates"}, action : {"rollout", "rollback"},
     strategy : StrategyTypes, record : Record, i : DOMAIN NodeIds, halted : BOOLEAN,
     outcomes : Seq(Outcomes), seen : Seq(Sightings), since : Nat]

(* The operation without what a canary rollout carries along, which has no *)
(* type that matters here.                                                 *)
Typed(o) ==
    [phase |-> o.phase, action |-> o.action, strategy |-> o.strategy, record |-> o.record, i |-> o.i,
     halted |-> o.halted, outcomes |-> o.outcomes, seen |-> o.seen, since |-> o.since]

(* A rollout that was halted in time: a failed call that stops the rollout *)
(* has stopped it, and every node called has one outcome.                  *)
HaltedInTime ==
    op.phase = "apply" =>
       /\ Len(op.outcomes) = op.i - 1
       /\ op.seen = <<>>
       /\ \A e \in DOMAIN op.outcomes :
             op.outcomes[e] = "failed" /\ HaltsAfterFailure(op.strategy, e) => op.halted

(* What was seen of a node is still so, unless somebody acted on one.      *)
SeenStillTrue ==
    op.phase \in {"report", "finish"} =>
       \A j \in DOMAIN op.seen :
          op.seen[j].state = "converged" /\ budget.node = op.since =>
             j \in DOMAIN NodeIds /\ node[NodeIds[j]].active = AppliedOf(op.record)

Working ==
    /\ Ordered
    /\ op = [phase |-> op.phase, action |-> op.action, strategy |-> op.strategy, record |-> op.record,
             canary |-> op.canary, i |-> op.i, halted |-> op.halted, outcomes |-> op.outcomes,
             seen |-> op.seen, since |-> op.since]
    /\ Typed(op) \in OperationTypes
    /\ budget.node <= op.since
    /\ HaltedInTime
    /\ op.phase = "report" => Len(op.seen) = op.i - 1
    /\ SeenStillTrue

OperationInv == op = Resting \/ Selecting \/ Working

NodesInv ==
    /\ node \in [Nodes -> NodeStates]
    /\ \A n \in Nodes : NodeSound(node[n])
    /\ published \subseteq Record
    /\ Range(registry.records) \subseteq published

Inv == RegistryInv /\ NodesInv /\ budget \in BudgetTypes /\ OperationInv

(* The fields of an operation that works on the nodes.                     *)
LEMMA WorkingFields ==
    ASSUME Working
    PROVE  /\ op.phase \in {"apply", "report", "finish", "gates"} /\ op.action \in {"rollout", "rollback"}
           /\ op.strategy \in StrategyTypes /\ op.record \in Record /\ op.i \in DOMAIN NodeIds
           /\ op.halted \in BOOLEAN /\ op.outcomes \in Seq(Outcomes) /\ op.seen \in Seq(Sightings)
           /\ op.since \in Nat
BY Zenon, SMTT(20) DEF Working, Typed, OperationTypes

(* The phase tells which kind of operation is under way.                   *)
LEMMA OperationKnown ==
    ASSUME OperationInv
    PROVE  /\ op.phase \in {"idle", "target", "apply", "report", "finish", "gates"}
           /\ op # Resting => op.i \in DOMAIN NodeIds /\ op.phase # "idle"
           /\ op.phase \in {"apply", "report", "finish", "gates"} => Working
           /\ op.phase = "target" => Selecting
<1>1. CASE op = Resting
  <2>1. op.phase = "idle"
    BY <1>1 DEF Resting
  <2> QED
    BY <1>1, <2>1
<1>2. CASE Selecting
  <2>1. op.phase = "target" /\ op.i \in DOMAIN NodeIds
    BY <1>2 DEF Selecting
  <2> QED
    BY <1>2, <2>1
<1>3. CASE Working
  BY <1>3, WorkingFields
<1> QED
  BY Zenon, SMTT(20), <1>1, <1>2, <1>3 DEF OperationInv

(* The nodes' own records and the reported convergence are true.           *)
LEMMA InvTruthful ==
    ASSUME Inv
    PROVE  NodesTruthful
<1>1. TypeOK
  BY Zenon, SMTT(20), OperationKnown DEF Inv, RegistryInv, RegistryOK, NodesInv, NodeSound, TypeOK
<1>2. LastKnownGoodIsActive /\ ActiveIsLastSuccess
  BY DEF Inv, NodesInv, NodeSound, LastKnownGoodIsActive, ActiveIsLastSuccess
<1>3. ASSUME op.phase = "finish", ConvergenceState = "converged", budget.node = op.since,
             NEW i \in DOMAIN NodeIds
      PROVE  node[NodeIds[i]].active = AppliedOf(op.record)
  <2>1. SeenStillTrue
    BY <1>3, OperationKnown DEF Inv, Working
  <2>2. SeenAs("converged") = DOMAIN NodeIds
    BY <1>3 DEF ConvergenceState
  <2>3. i \in DOMAIN op.seen /\ op.seen[i].state = "converged"
    BY <1>3, <2>2 DEF SeenAs
  <2> QED
    BY <1>3, <2>1, <2>3 DEF SeenStillTrue
<1>4. ConvergedIsTrue
  BY <1>3 DEF ConvergedIsTrue
<1> QED
  BY <1>1, <1>2, <1>4 DEF NodesTruthful

(* A step that changes neither the operation nor a node it has seen.       *)
LEMMA OperationStays ==
    ASSUME OperationInv, op' = op, node' = node, budget \in BudgetTypes,
           budget' = budget \/ \E kind \in {"publish", "upkeep", "fleet", "faults"} : Use(kind)
    PROVE  OperationInv'
<1>1. budget'.node = budget.node
  BY UseBudget
<1>2. CASE op = Resting
  BY <1>2 DEF OperationInv, Resting
<1>3. CASE Selecting
  BY <1>3 DEF OperationInv, Selecting
<1>4. CASE Working
  BY Zenon, SMTT(20), <1>1, <1>4 DEF OperationInv, Working, HaltedInTime, SeenStillTrue, Typed
<1> QED
  BY <1>2, <1>3, <1>4 DEF OperationInv

(* Somebody acts on a node: nothing seen before counts any more.           *)
LEMMA OperationOutdated ==
    ASSUME OperationInv, op' = op, budget \in BudgetTypes, budget'.node < budget.node, budget' \in BudgetTypes
    PROVE  OperationInv'
<1>1. budget.node \in Nat /\ budget'.node \in Nat
  BY DEF BudgetTypes
<1>2. CASE op = Resting
  BY <1>2 DEF OperationInv, Resting
<1>3. CASE Selecting
  BY <1>3 DEF OperationInv, Selecting
<1>4. CASE Working
  <2>1. budget'.node <= op.since /\ budget'.node # op.since
    BY <1>1, <1>4, WorkingFields DEF Working
  <2>2. SeenStillTrue'
    BY <2>1 DEF SeenStillTrue
  <2> QED
    BY Zenon, SMTT(20), <1>4, <2>1, <2>2 DEF OperationInv, Working, HaltedInTime, Typed
<1> QED
  BY <1>2, <1>3, <1>4 DEF OperationInv

(* Operations begin with nothing done and nothing seen.                    *)
LEMMA StartedWorks ==
    ASSUME Ordered, NEW action \in {"rollout", "rollback"}, NEW strategy \in StrategyTypes,
           NEW record \in Record, NEW canary, budget \in BudgetTypes, budget'.node = budget.node,
           op' = Started(action, strategy, record, canary)
    PROVE  OperationInv'
<1>1. budget.node \in Nat
  BY DEF BudgetTypes
<1>2. 1 \in DOMAIN NodeIds
  BY ControlPlaneAssumption DEF ControlPlaneAssumption, Ordered
<1>3. /\ op'.phase = "apply" /\ op'.action = action /\ op'.strategy = strategy /\ op'.record = record
      /\ op'.canary = canary /\ op'.i = 1 /\ op'.halted = FALSE /\ op'.outcomes = <<>> /\ op'.seen = <<>>
      /\ op'.since = budget.node
  BY DEF Started
<1>4. op' = [phase |-> op'.phase, action |-> op'.action, strategy |-> op'.strategy, record |-> op'.record,
             canary |-> op'.canary, i |-> op'.i, halted |-> op'.halted, outcomes |-> op'.outcomes,
             seen |-> op'.seen, since |-> op'.since]
  BY DEF Started
<1>5. Typed(op') \in OperationTypes
  <2>1. <<>> \in Seq(Outcomes) /\ <<>> \in Seq(Sightings)
    OBVIOUS
  <2> QED
    BY Zenon, SMTT(20), <1>1, <1>2, <1>3, <2>1 DEF Typed, OperationTypes
<1>6. HaltedInTime'
  BY <1>3 DEF HaltedInTime
<1>7. SeenStillTrue'
  BY Zenon, SMTT(20), <1>3 DEF SeenStillTrue
<1>8. Working'
  BY <1>1, <1>3, <1>4, <1>5, <1>6, <1>7 DEF Working, Ordered
<1> QED
  BY <1>8 DEF OperationInv

(* A rollback to the shared version begins with the first node.            *)
LEMMA ChoosingSelects ==
    ASSUME Ordered, NEW canary, op' = Choosing(canary)
    PROVE  OperationInv'
<1>1. 1 \in DOMAIN NodeIds
  BY ControlPlaneAssumption DEF ControlPlaneAssumption, Ordered
<1>2. Selecting'
  BY <1>1 DEF Selecting, Choosing, Ordered
<1> QED
  BY <1>2 DEF OperationInv

(* The next node of a rollout (execute_action): its outcome is recorded,   *)
(* and the rollout goes on to the reports after the last one.              *)
LEMMA AdvanceKeeps ==
    ASSUME Working, op.phase = "apply", NEW outcome \in Outcomes, NEW halted \in BOOLEAN,
           Advance(outcome, halted), budget \in BudgetTypes, budget'.node = budget.node,
           op.halted => halted,
           outcome = "failed" /\ HaltsAfterFailure(op.strategy, op.i) => halted
    PROVE  OperationInv'
<1> DEFINE last == op.i = Len(NodeIds)
           outcomes == Append(op.outcomes, outcome)
<1>1. PICK i, phase :
         /\ op' = [op EXCEPT !.outcomes = outcomes, !.halted = halted, !.i = i, !.phase = phase]
         /\ i = IF last THEN 1 ELSE op.i + 1
         /\ phase = IF last THEN "report" ELSE "apply"
  BY Zenon, SMTT(20) DEF Advance
<1>2. /\ op.i \in 1..Len(NodeIds) /\ DOMAIN NodeIds = 1..Len(NodeIds) /\ Len(NodeIds) \in Nat
      /\ op.outcomes \in Seq(Outcomes) /\ op.seen = <<>> /\ Len(op.outcomes) = op.i - 1
  BY WorkingFields, ControlPlaneAssumption DEF ControlPlaneAssumption, Working, HaltedInTime
<1>3. /\ i \in DOMAIN NodeIds /\ phase \in {"apply", "report"}
      /\ phase = "report" => i = 1
      /\ phase = "apply" => i = op.i + 1
  BY <1>1, <1>2
<1>4. /\ outcomes \in Seq(Outcomes) /\ Len(outcomes) = op.i
      /\ DOMAIN outcomes = 1..op.i /\ outcomes[op.i] = outcome
      /\ \A e \in 1..op.i : e # op.i => e \in DOMAIN op.outcomes /\ outcomes[e] = op.outcomes[e]
  BY <1>2
<1> HIDE DEF outcomes, last
<1>5. /\ op' = [phase |-> phase, action |-> op.action, strategy |-> op.strategy, record |-> op.record,
               canary |-> op.canary, i |-> i, halted |-> halted, outcomes |-> outcomes,
               seen |-> op.seen, since |-> op.since]
  BY Zenon, SMTT(20), <1>1 DEF Working
<1>6. /\ op'.phase = phase /\ op'.action = op.action /\ op'.strategy = op.strategy /\ op'.record = op.record
      /\ op'.canary = op.canary /\ op'.i = i /\ op'.halted = halted /\ op'.outcomes = outcomes
      /\ op'.seen = op.seen /\ op'.since = op.since
  BY Zenon, SMTT(20), <1>5
<1>7. Typed(op') \in OperationTypes
  BY Zenon, SMTT(20), <1>3, <1>4, <1>6, WorkingFields DEF Typed, OperationTypes
<1>8. HaltedInTime'
  <2> SUFFICES ASSUME phase = "apply"
               PROVE  /\ Len(outcomes) = i - 1
                      /\ \A e \in DOMAIN outcomes :
                            outcomes[e] = "failed" /\ HaltsAfterFailure(op.strategy, e) => halted
    BY Zenon, SMTT(20), <1>2, <1>6 DEF HaltedInTime
  <2>1. Len(outcomes) = i - 1
    BY <1>2, <1>3, <1>4
  <2>2. ASSUME NEW e \in DOMAIN outcomes, outcomes[e] = "failed", HaltsAfterFailure(op.strategy, e)
        PROVE  halted
    <3>1. CASE e = op.i
      BY Zenon, SMTT(20), <1>4, <2>2, <3>1
    <3>2. CASE e # op.i
      <4>1. e \in DOMAIN op.outcomes /\ op.outcomes[e] = "failed"
        BY Zenon, SMTT(20), <1>4, <2>2, <3>2
      <4> QED
        BY Zenon, SMTT(20), <2>2, <4>1 DEF Working, HaltedInTime
    <3> QED
      BY <3>1, <3>2
  <2> QED
    BY <2>1, <2>2
<1>9. SeenStillTrue' /\ (op'.phase = "report" => Len(op'.seen) = op'.i - 1)
  BY <1>2, <1>3, <1>6 DEF SeenStillTrue
<1>10. Working'
  BY Zenon, SMTT(20), <1>5, <1>6, <1>7, <1>8, <1>9 DEF Working, Ordered
<1> QED
  BY SMTT(20), Zenon, <1>10 DEF OperationInv

(* The next report (build_convergence_report): a node seen on the desired  *)
(* snapshot runs it now.                                                   *)
LEMMA ObserveKeeps ==
    ASSUME Working, op.phase = "report", NEW s \in Sightings, Observe(s), node' = node,
           budget \in BudgetTypes, budget'.node = budget.node,
           s.state = "converged" => node[NodeIds[op.i]].active = AppliedOf(op.record)
    PROVE  OperationInv'
<1> DEFINE last == op.i = Len(NodeIds)
           seen == Append(op.seen, s)
<1>1. PICK i, phase :
         /\ op' = [op EXCEPT !.seen = seen, !.i = i, !.phase = phase]
         /\ i = IF last THEN 1 ELSE op.i + 1
         /\ phase = IF last THEN "finish" ELSE "report"
  BY Zenon, SMTT(20) DEF Observe
<1>2. /\ op.i \in 1..Len(NodeIds) /\ DOMAIN NodeIds = 1..Len(NodeIds) /\ Len(NodeIds) \in Nat
      /\ op.seen \in Seq(Sightings) /\ Len(op.seen) = op.i - 1
  BY WorkingFields, ControlPlaneAssumption DEF ControlPlaneAssumption, Working
<1>3. /\ i \in DOMAIN NodeIds /\ phase \in {"report", "finish"}
      /\ phase = "report" => i = op.i + 1
  BY <1>1, <1>2
<1>4. /\ seen \in Seq(Sightings) /\ Len(seen) = op.i
      /\ DOMAIN seen = 1..op.i /\ seen[op.i] = s
      /\ \A e \in 1..op.i : e # op.i => e \in DOMAIN op.seen /\ seen[e] = op.seen[e]
  BY <1>2
<1> HIDE DEF seen, last
<1>5. op' = [phase |-> phase, action |-> op.action, strategy |-> op.strategy, record |-> op.record,
             canary |-> op.canary, i |-> i, halted |-> op.halted, outcomes |-> op.outcomes,
             seen |-> seen, since |-> op.since]
  BY Zenon, SMTT(20), <1>1 DEF Working
<1>6. /\ op'.phase = phase /\ op'.action = op.action /\ op'.strategy = op.strategy /\ op'.record = op.record
      /\ op'.canary = op.canary /\ op'.i = i /\ op'.halted = op.halted /\ op'.outcomes = op.outcomes
      /\ op'.seen = seen /\ op'.since = op.since
  BY Zenon, SMTT(20), <1>5
<1>7. Typed(op') \in OperationTypes
  BY Zenon, SMTT(20), <1>3, <1>4, <1>6, WorkingFields DEF Typed, OperationTypes
<1>8. HaltedInTime'
  BY Zenon, SMTT(20), <1>3, <1>6 DEF HaltedInTime
<1>9. SeenStillTrue'
  <2> SUFFICES ASSUME NEW j \in 1..op.i, seen[j].state = "converged", budget.node = op.since
               PROVE  j \in DOMAIN NodeIds /\ node[NodeIds[j]].active = AppliedOf(op.record)
    BY <1>4, <1>6 DEF SeenStillTrue
  <2>1. CASE j = op.i
    BY Zenon, SMTT(20), <1>2, <1>4, <2>1
  <2>2. CASE j # op.i
    <3>1. j \in DOMAIN op.seen /\ op.seen[j].state = "converged"
      BY Zenon, SMTT(20), <1>4, <2>2
    <3> QED
      BY Zenon, SMTT(20), <3>1 DEF Working, SeenStillTrue
  <2> QED
    BY Zenon, SMTT(20), <2>1, <2>2
<1>10. op'.phase = "report" => Len(op'.seen) = op'.i - 1
  BY <1>2, <1>3, <1>4, <1>6
<1>11. Working'
  BY Zenon, SMTT(20), <1>5, <1>6, <1>7, <1>8, <1>9, <1>10 DEF Working, Ordered
<1> QED
  BY Zenon, SMTT(20), <1>11 DEF OperationInv

----------------------------------------------------------------------------
(* The steps                                                               *)

(* What the nodes serve, and the steps SnapshotDelivery allows.            *)
Serving == [n \in Nodes |-> node[n].active]
DeliveryStep == Delivery!Next \/ (published' = published /\ Serving' = Serving)

(* A node moves to a snapshot of the registry, or nowhere.                 *)
LEMMA NodeActs ==
    ASSUME RegistryInv, NodesInv, NEW n \in Nodes, NEW after, NodeSound(after),
           Runs(node[n], after, registry) \/ after.active = None,
           node' = [node EXCEPT ![n] = after], published' = published, UNCHANGED registryVars
    PROVE  RegistryInv' /\ NodesInv' /\ DeliveryStep
<1>1. RegistryInv'
  BY Zenon, SMTT(20) DEF RegistryInv, registryVars, EnvelopeOK, RestoringOK
<1>2. after \in NodeStates
  BY DEF NodeSound
<1>3. node' \in [Nodes -> NodeStates] /\ \A m \in Nodes : node'[m] = IF m = n THEN after ELSE node[m]
  BY <1>2 DEF NodesInv
<1>4. NodesInv'
  BY <1>3 DEF NodesInv, registryVars
<1>5. Serving' = [Serving EXCEPT ![n] = after.active]
  BY Zenon, SMTT(20), <1>3 DEF Serving
<1>6. CASE after.active = node[n].active
  <2>1. Serving' = Serving
    BY <1>3, <1>6 DEF Serving
  <2> QED
    BY <1>1, <1>4, <2>1 DEF DeliveryStep
<1>7. CASE \E record \in Range(registry.records) : after.active = AppliedOf(record)
  <2>1. PICK record \in published : after.active = AppliedOf(record)
    BY <1>7 DEF NodesInv
  <2>2. Serving' = [Serving EXCEPT ![n] = AppliedOf(record)]
    BY <1>5, <2>1
  <2>3. Delivery!Serve(n)
    BY Zenon, SMTT(20), <2>1, <2>2 DEF Delivery!Serve, Serving
  <2> QED
    BY <1>1, <1>4, <2>3 DEF DeliveryStep, Delivery!Next
<1>8. CASE after.active = None
  <2>1. Delivery!Stop(n)
    BY <1>5, <1>8 DEF Delivery!Stop, Serving
  <2> QED
    BY <1>1, <1>4, <2>1 DEF DeliveryStep, Delivery!Next
<1> QED
  BY <1>6, <1>7, <1>8 DEF Runs

(* A registry step only ever adds to what has been published.              *)
LEMMA RegistryTurnKeeps ==
    ASSUME Inv, RegistryTurn
    PROVE  Inv' /\ DeliveryStep
<1>1. RegistryInv'
  BY RegistryStepKeeps DEF Inv, RegistryTurn, RegistryStep
<1>2. Range(registry'.records) \subseteq Record
  BY <1>1, RegistryParts DEF RegistryInv, RegistryOK, Range
<1>3. node' = node /\ published' = published \cup Range(registry'.records)
  BY DEF RegistryTurn, RegistryStep
<1>4. NodesInv'
  BY <1>2, <1>3 DEF Inv, NodesInv
<1>5. budget' = budget \/ \E kind \in {"publish", "upkeep", "fleet", "faults"} : Use(kind)
  BY Zenon, SMTT(20) DEF RegistryTurn, RegistryStep, RegistryNext, Publish, ExportBackup, RestoreBackup, RestoreBackupStep,
         ExportDurable, DamageEnvelope, Restart, RestoreRecord, RestoreDone, RestoreFails
<1>6. budget' \in BudgetTypes
  BY <1>5, UseBudget DEF Inv
<1>7. OperationInv'
  BY <1>3, <1>5, OperationStays DEF Inv, RegistryTurn, fleetVars
<1>8. Delivery!Deliver
  BY <1>2, <1>3 DEF Inv, NodesInv, Delivery!Deliver
<1> QED
  BY <1>1, <1>4, <1>6, <1>7, <1>8 DEF Inv, DeliveryStep, Delivery!Next

(* A restart of the control plane in the middle of an operation drops it   *)
(* and empties the registry; the nodes go on with what they run.           *)
LEMMA RestartDropsKeeps ==
    ASSUME Inv, RestartDropsOperation
    PROVE  Inv' /\ DeliveryStep
<1>1. RegistryInv'
  BY RestartKeeps DEF Inv, RestartDropsOperation
<1>2. node' = node /\ published' = published /\ registry' = NewRegistry /\ op' = Resting
  BY DEF RestartDropsOperation, nodeVars, Restart
<1>3. Range(registry'.records) = {}
  BY <1>2 DEF NewRegistry, Range
<1>4. NodesInv'
  BY <1>2, <1>3 DEF Inv, NodesInv
<1>5. budget' \in BudgetTypes
  BY Zenon, SMTT(20), UseBudget DEF Inv, RestartDropsOperation, Restart
<1>6. OperationInv'
  BY <1>2 DEF OperationInv, Resting
<1>7. Serving' = Serving
  BY <1>2 DEF Serving
<1> QED
  BY <1>1, <1>2, <1>4, <1>5, <1>6, <1>7 DEF Inv, DeliveryStep

(* An operator's call on one node, or its restart.                         *)
LEMMA NodeStepKeeps ==
    ASSUME Inv, NEW n \in Nodes, NEW after, NodeSound(after),
           Runs(node[n], after, registry) \/ after.active = None, NodeStep(n, after), op' = op
    PROVE  Inv' /\ DeliveryStep
<1>1. RegistryInv' /\ NodesInv' /\ DeliveryStep
  <2>1. node' = [node EXCEPT ![n] = after] /\ published' = published /\ UNCHANGED registryVars
    BY DEF NodeStep, registryVars
  <2> QED
    BY Zenon, SMTT(20), <2>1, NodeActs DEF Inv
<1>2. budget' \in BudgetTypes /\ budget'.node < budget.node
  BY UseBudget DEF Inv, NodeStep
<1>3. OperationInv'
  BY <1>2, OperationOutdated DEF Inv
<1> QED
  BY <1>1, <1>2, <1>3 DEF Inv

(* What operators do to single nodes, at any point of a fleet operation.   *)
LEMMA OperatorTurnKeeps ==
    ASSUME Inv, OperatorTurn
    PROVE  Inv' /\ DeliveryStep
<1>1. op' = op /\ Range(registry.records) \subseteq Record /\ \A n \in Nodes : NodeSound(node[n])
  BY DEF OperatorTurn, fleetVars, Inv, NodesInv
<1>2. PICK n \in Nodes :
         \/ \E version \in Versions, ok, hookOk \in BOOLEAN : Rollout(n, version, ok, hookOk)
         \/ \E target \in Bases, ok, hookOk \in BOOLEAN : Rollback(n, target, ok, hookOk)
         \/ \E candidate \in Versions, base \in Bases, ack, hookOk \in BOOLEAN :
               Promote(n, candidate, base, ack, hookOk)
         \/ NodeRestart(n)
  BY DEF OperatorTurn
<1>3. CASE \E version \in Versions, ok, hookOk \in BOOLEAN : Rollout(n, version, ok, hookOk)
  <2>1. PICK version \in Versions, ok \in BOOLEAN, hookOk \in BOOLEAN : Rollout(n, version, ok, hookOk)
    BY <1>3
  <2> DEFINE after == RolloutAt(node[n], registry, version, ok, hookOk).node
  <2>2. NodeSound(after) /\ Runs(node[n], after, registry)
    BY Zenon, SMTT(20), <1>1, RolloutSound
  <2>3. NodeStep(n, after)
    BY <2>1 DEF Rollout
  <2> HIDE DEF after
  <2> QED
    BY <1>1, <2>2, <2>3, NodeStepKeeps
<1>4. CASE \E target \in Bases, ok, hookOk \in BOOLEAN : Rollback(n, target, ok, hookOk)
  <2>1. PICK target \in Bases, ok \in BOOLEAN, hookOk \in BOOLEAN : Rollback(n, target, ok, hookOk)
    BY <1>4
  <2> DEFINE after == RollbackAt(node[n], registry, target, ok, hookOk).node
  <2>2. target \in Versions \cup {None}
    BY Zenon, SMTT(20), ControlPlaneAssumption DEF ControlPlaneAssumption
  <2>3. NodeSound(after) /\ Runs(node[n], after, registry)
    BY Zenon, SMTT(20), <1>1, <2>2, RollbackSound
  <2>4. NodeStep(n, after)
    BY <2>1 DEF Rollback
  <2> HIDE DEF after
  <2> QED
    BY <1>1, <2>3, <2>4, NodeStepKeeps
<1>5. CASE \E candidate \in Versions, base \in Bases, ack, hookOk \in BOOLEAN :
              Promote(n, candidate, base, ack, hookOk)
  <2>1. PICK candidate \in Versions, base \in Bases, ack \in BOOLEAN, hookOk \in BOOLEAN :
                Promote(n, candidate, base, ack, hookOk)
    BY SMTT(20), Zenon, <1>5
  <2> DEFINE after == RolloutAt(node[n], registry, candidate, TRUE, hookOk).node
  <2>2. NodeSound(after) /\ Runs(node[n], after, registry)
    BY Zenon, SMTT(20), <1>1, RolloutSound
  <2>3. NodeStep(n, after)
    BY Zenon, SMTT(20), <2>1 DEF Promote
  <2> HIDE DEF after
  <2> QED
    BY <1>1, <2>2, <2>3, NodeStepKeeps
<1>6. CASE NodeRestart(n)
  <2>1. NodeStep(n, NewNode)
    BY <1>6 DEF NodeRestart
  <2>2. NodeSound(NewNode) /\ NewNode.active = None
    BY NewNodeSound DEF NewNode
  <2> QED
    BY <1>1, <2>1, <2>2, NodeStepKeeps
<1> QED
  BY <1>2, <1>3, <1>4, <1>5, <1>6

(* A step of the coordinator that leaves registry and nodes alone.         *)
LEMMA FleetOnly ==
    ASSUME Inv, UNCHANGED <<registryVars, nodeVars>>, OperationInv', budget' \in BudgetTypes
    PROVE  Inv' /\ DeliveryStep
<1>1. RegistryInv'
  BY Zenon, SMTT(20) DEF Inv, RegistryInv, registryVars, EnvelopeOK, RestoringOK
<1>2. NodesInv'
  BY DEF Inv, NodesInv, registryVars, nodeVars
<1>3. DeliveryStep
  BY DEF DeliveryStep, Serving, nodeVars
<1> QED
  BY <1>1, <1>2, <1>3 DEF Inv

(* A version of the registry has a record.                                 *)
LEMMA RecordKnown ==
    ASSUME Inv, NEW version \in DOMAIN registry.records
    PROVE  registry.records[version] \in Record
BY RegistryParts DEF Inv, RegistryInv, RegistryOK

(* A fleet operation begins.                                               *)
LEMMA FleetStartKeeps ==
    ASSUME Inv, FleetStart
    PROVE  Inv' /\ DeliveryStep
<1>1. ASSUME NEW started, Begin(started)
      PROVE  /\ UNCHANGED <<registryVars, nodeVars>> /\ op' = started
             /\ budget' \in BudgetTypes /\ budget'.node = budget.node /\ budget \in BudgetTypes
  BY <1>1, UseBudget DEF Begin, Inv
<1>2. ASSUME NEW action \in {"rollout", "rollback"}, NEW strategy \in StrategyTypes, NEW canary,
             NEW version \in DOMAIN registry.records, ValidateFleetRequest(strategy),
             Begin(Started(action, strategy, registry.records[version], canary))
      PROVE  Inv' /\ DeliveryStep
  <2>1. Ordered /\ registry.records[version] \in Record
    BY <1>2, RecordKnown DEF ValidateFleetRequest, Ordered
  <2>2. OperationInv'
    BY <1>1, <1>2, <2>1, StartedWorks
  <2> QED
    BY <1>1, <1>2, <2>2, FleetOnly
<1>3. ASSUME NEW version \in Versions, NEW strategy \in Strategies, FleetRolloutStart(version, strategy)
      PROVE  Inv' /\ DeliveryStep
  <2>1. strategy \in StrategyTypes
    BY ControlPlaneAssumption DEF ControlPlaneAssumption, StrategyTypes
  <2> QED
    BY <1>2, <1>3, <2>1 DEF FleetRolloutStart
<1>4. ASSUME NEW version \in Versions, FleetRollbackStart(version)
      PROVE  Inv' /\ DeliveryStep
  <2>1. Sequential \in StrategyTypes
    BY DEF Sequential, StrategyTypes
  <2> QED
    BY <1>2, <1>4, <2>1 DEF FleetRollbackStart
<1>5. ASSUME FleetRollbackToShared
      PROVE  Inv' /\ DeliveryStep
  <2>1. Ordered /\ Begin(Choosing(None))
    BY <1>5 DEF FleetRollbackToShared, ValidateFleetRequest, Ordered
  <2>2. OperationInv'
    BY <1>1, <2>1, ChoosingSelects
  <2> QED
    BY <1>1, <2>1, <2>2, FleetOnly
<1>6. ASSUME NEW candidate \in Versions, NEW base \in Bases, NEW ack \in BOOLEAN, NEW size \in 1..Len(NodeIds),
             ListenerCanaryStart(candidate, base, ack, size)
      PROVE  Inv' /\ DeliveryStep
  <2> DEFINE strategy == [kind |-> "canary", nodes |-> size]
             version == Trim[candidate]
  <2>1. strategy \in StrategyTypes
    BY DEF StrategyTypes
  <2>2. version \in DOMAIN registry.records /\ ValidateFleetRequest(strategy)
    BY Zenon, SMTT(20), <1>6 DEF ListenerCanaryStart, PreviewPossible
  <2>3. PICK canary : Begin(Started("rollout", strategy, registry.records[version], canary))
    BY Zenon, SMTT(20), <1>6 DEF ListenerCanaryStart
  <2> HIDE DEF strategy, version
  <2> QED
    BY Zenon, SMTT(20), <1>2, <2>1, <2>2, <2>3
<1> QED
  BY <1>3, <1>4, <1>5, <1>6 DEF FleetStart

(* shared_rollback_candidate asks the next node, starts the rollback or    *)
(* gives up.                                                               *)
LEMMA SharedCandidateKeeps ==
    ASSUME Inv, SharedCandidateStep
    PROVE  Inv' /\ DeliveryStep
<1> DEFINE good == node[NodeIds[op.i]].lastKnownGood
<1>1. Selecting /\ Ordered /\ UNCHANGED <<registryVars, nodeVars>>
  BY Zenon, SMTT(20), OperationKnown DEF Inv, SharedCandidateStep, Selecting
<1>2. budget \in BudgetTypes /\ budget' \in BudgetTypes /\ budget'.node = budget.node
  BY Zenon, SMTT(20), UseBudget DEF Inv, SharedCandidateStep
<1>3. \/ op' = Resting
      \/ op.i < Len(NodeIds) /\ op' = [op EXCEPT !.i = op.i + 1, !.shared = good.version]
      \/ /\ good.version \in DOMAIN registry.records
         /\ op' = Started("rollback", Sequential, registry.records[good.version], op.canary)
  BY Zenon, SMTT(20) DEF SharedCandidateStep, End
<1> HIDE DEF good
<1>4. CASE op' = Resting
  BY <1>1, <1>2, <1>4, FleetOnly DEF OperationInv
<1>5. CASE op.i < Len(NodeIds) /\ op' = [op EXCEPT !.i = op.i + 1, !.shared = good.version]
  <2>0. PICK i, shared : i = op.i + 1 /\ op' = [op EXCEPT !.i = i, !.shared = shared]
    BY Zenon, SMTT(20), <1>5
  <2>1. op' = [phase |-> "target", i |-> i, shared |-> shared, canary |-> op.canary]
    <3>1. PICK a, b, c : op = [phase |-> "target", i |-> a, shared |-> b, canary |-> c]
      BY <1>1 DEF Selecting
    <3> QED
      BY Zenon, SMTT(20), <2>0, <3>1
  <2>2. i \in DOMAIN NodeIds
    BY <1>1, <1>5, <2>0, ControlPlaneAssumption DEF Selecting, ControlPlaneAssumption
  <2>3. Selecting'
    BY <1>1, <2>1, <2>2 DEF Selecting, Ordered
  <2> QED
    BY SMTT(20), Zenon, <1>1, <1>2, <2>3, FleetOnly DEF OperationInv
<1>6. CASE /\ good.version \in DOMAIN registry.records
           /\ op' = Started("rollback", Sequential, registry.records[good.version], op.canary)
  <2>1. Sequential \in StrategyTypes
    BY DEF Sequential, StrategyTypes
  <2>2. registry.records[good.version] \in Record
    BY <1>6, RecordKnown
  <2>3. OperationInv'
    BY Zenon, SMTT(20), <1>1, <1>2, <1>6, <2>1, <2>2, StartedWorks
  <2> QED
    BY <1>1, <1>2, <2>3, FleetOnly
<1> QED
  BY <1>3, <1>4, <1>5, <1>6

(* What the call of the next node does to it.                              *)
LEMMA NodeOperationSound ==
    ASSUME Inv, op.phase = "apply", NEW hookOk \in BOOLEAN
    PROVE  LET n   == NodeIds[op.i]
               did == NodeOperation(node[n], hookOk)
           IN  /\ n \in Nodes /\ NodeSound(did.node) /\ Runs(node[n], did.node, registry)
               /\ did.result \in {"applied", "unchanged", "rejected"}
<1> DEFINE n == NodeIds[op.i]
           did == NodeOperation(node[n], hookOk)
<1>1. /\ op.i \in DOMAIN NodeIds /\ op.record.version \in Versions /\ op.action \in {"rollout", "rollback"}
  BY OperationKnown, WorkingFields DEF Inv, Record
<1>2. n \in Nodes
  BY <1>1, ControlPlaneAssumption DEF ControlPlaneAssumption
<1>3. NodeSound(node[n]) /\ Range(registry.records) \subseteq Record
  BY Zenon, SMTT(20), <1>2 DEF Inv, NodesInv
<1> HIDE DEF n
<1>4. CASE op.action = "rollout"
  <2>1. did = RolloutAt(node[n], registry, op.record.version, TRUE, hookOk)
    BY <1>4 DEF NodeOperation
  <2>2. LET d == RolloutAt(node[n], registry, op.record.version, TRUE, hookOk)
        IN  /\ NodeSound(d.node) /\ Runs(node[n], d.node, registry)
            /\ d.result \in {"applied", "unchanged", "rejected"}
    BY Zenon, SMTT(20), <1>1, <1>3, RolloutSound
  <2> QED
    BY Zenon, SMTT(20), <1>2, <2>1, <2>2 DEF n
<1>5. CASE op.action = "rollback"
  <2>1. did = RollbackAt(node[n], registry, op.record.version, TRUE, hookOk)
    BY <1>5 DEF NodeOperation
  <2>2. LET d == RollbackAt(node[n], registry, op.record.version, TRUE, hookOk)
        IN  /\ NodeSound(d.node) /\ Runs(node[n], d.node, registry)
            /\ d.result \in {"applied", "unchanged", "rejected"}
    BY Zenon, SMTT(20), <1>1, <1>3, RollbackSound
  <2> QED
    BY Zenon, SMTT(20), <1>2, <2>1, <2>2 DEF n
<1> QED
  BY Zenon, SMTT(20), <1>1, <1>4, <1>5

(* The calls of a rollout: skipped, answered, or lost.                     *)
LEMMA CallsKeep ==
    ASSUME Inv, SkipNode \/ (\E hookOk \in BOOLEAN : CallNode(hookOk)) \/ CallLost
    PROVE  Inv' /\ DeliveryStep
<1>1. Working /\ op.phase = "apply" /\ budget \in BudgetTypes
  BY Zenon, SMTT(20), OperationKnown DEF Inv, SkipNode, CallNode, CallLost
<1>2. HaltsAfterFailure(op.strategy, op.i) \in BOOLEAN
  BY DEF HaltsAfterFailure
<1>3. CASE SkipNode
  <2>1. OperationInv'
    BY Zenon, SMTT(20), <1>1, <1>3, AdvanceKeeps DEF SkipNode, Outcomes
  <2> QED
    BY <1>1, <1>3, <2>1, FleetOnly DEF SkipNode
<1>4. CASE \E hookOk \in BOOLEAN : CallNode(hookOk)
  <2>1. PICK hookOk \in BOOLEAN : CallNode(hookOk)
    BY <1>4
  <2> DEFINE n == NodeIds[op.i]
             did == NodeOperation(node[n], hookOk)
  <2>2. /\ n \in Nodes /\ NodeSound(did.node) /\ Runs(node[n], did.node, registry)
        /\ did.result \in {"applied", "unchanged", "rejected"}
    BY Zenon, SMTT(20), <1>1, NodeOperationSound
  <2>3. /\ ~op.halted /\ node' = [node EXCEPT ![n] = did.node] /\ published' = published
        /\ UNCHANGED registryVars /\ budget' = budget
        /\ \/ Advance("failed", HaltsAfterFailure(op.strategy, op.i))
           \/ Advance(did.result, FALSE)
    BY Zenon, SMTT(20), <2>1 DEF CallNode
  <2> HIDE DEF did, n
  <2>4. RegistryInv' /\ NodesInv' /\ DeliveryStep
    BY Zenon, SMTT(20), <2>2, <2>3, NodeActs DEF Inv
  <2>5. OperationInv'
    <3>1. CASE Advance("failed", HaltsAfterFailure(op.strategy, op.i))
      BY <1>1, <1>2, <2>3, <3>1, AdvanceKeeps DEF Outcomes
    <3>2. CASE Advance(did.result, FALSE)
      <4>1. did.result \in Outcomes /\ did.result # "failed"
        BY <2>2 DEF Outcomes
      <4> QED
        BY Zenon, SMTT(20), <1>1, <2>3, <3>2, <4>1, AdvanceKeeps
    <3> QED
      BY Zenon, SMTT(20), <2>3, <3>1, <3>2
  <2> QED
    BY <1>1, <2>3, <2>4, <2>5 DEF Inv
<1>5. CASE CallLost
  <2> DEFINE n == NodeIds[op.i]
             did == NodeOperation(node[n], TRUE)
  <2>1. n \in Nodes /\ NodeSound(did.node) /\ Runs(node[n], did.node, registry)
    BY Zenon, SMTT(20), <1>1, NodeOperationSound
  <2>2. /\ ~op.halted /\ (node' = node \/ node' = [node EXCEPT ![n] = did.node])
        /\ published' = published /\ UNCHANGED registryVars /\ Use("faults")
        /\ Advance("failed", HaltsAfterFailure(op.strategy, op.i))
    BY Zenon, SMTT(20), <1>5 DEF CallLost
  <2> HIDE DEF did, n
  <2>3. budget' \in BudgetTypes /\ budget'.node = budget.node
    BY <1>1, <2>2, UseBudget
  <2>4. OperationInv'
    BY <1>1, <1>2, <2>2, <2>3, AdvanceKeeps DEF Outcomes
  <2>5. CASE node' = node
    BY <2>2, <2>3, <2>4, <2>5, FleetOnly DEF nodeVars
  <2>6. CASE node' = [node EXCEPT ![n] = did.node]
    <3>1. RegistryInv' /\ NodesInv' /\ DeliveryStep
      BY Zenon, SMTT(20), <2>1, <2>2, <2>6, NodeActs DEF Inv
    <3> QED
      BY <2>3, <2>4, <3>1 DEF Inv
  <2> QED
    BY <2>2, <2>5, <2>6
<1> QED
  BY <1>3, <1>4, <1>5

(* The reports, the gates and the end of an operation.                     *)
LEMMA ReportKeeps ==
    ASSUME Inv, ReportNode
    PROVE  Inv' /\ DeliveryStep
<1> DEFINE nd == node[NodeIds[op.i]]
<1>1. Working /\ op.phase = "report" /\ budget \in BudgetTypes /\ UNCHANGED <<registryVars, nodeVars>>
  BY Zenon, SMTT(20), OperationKnown DEF Inv, ReportNode
<1>2. budget' \in BudgetTypes /\ budget'.node = budget.node
  BY Zenon, SMTT(20), <1>1, UseBudget DEF ReportNode
<1>3. nd.lastKnownGood \in Applied \cup {None}
  <2>1. NodeIds[op.i] \in Nodes
    BY <1>1, WorkingFields, ControlPlaneAssumption DEF ControlPlaneAssumption
  <2> QED
    BY Zenon, SMTT(20), <2>1 DEF Inv, NodesInv, NodeStates
<1>4. PICK state, good :
         /\ Observe(Seen(state, good))
         /\ \/ state = "unavailable" /\ good = None
            \/ good = nd.lastKnownGood /\ \E late \in BOOLEAN : state = NodeConvergence(nd, late)
  BY Zenon, SMTT(20) DEF ReportNode
<1>5. state \in {"converged", "diverged", "pending", "unavailable"} /\ good \in Applied \cup {None}
  BY Zenon, SMTT(20), <1>3, <1>4 DEF NodeConvergence
<1>6. state = "converged" => nd.active = AppliedOf(op.record)
  BY Zenon, SMTT(20), <1>4 DEF NodeConvergence
<1>7. Seen(state, good) \in Sightings /\ Seen(state, good).state = state
  BY <1>5 DEF Seen, Sightings
<1>8. OperationInv'
  BY Zenon, SMTT(20), <1>1, <1>2, <1>4, <1>6, <1>7, ObserveKeeps DEF nodeVars
<1> QED
  BY <1>1, <1>2, <1>8, FleetOnly

(* An operation ends, goes on to its gates, or to an automatic rollback.   *)
LEMMA FinishKeeps ==
    ASSUME Inv, FleetOperationDone \/ \E signals \in NodeSignals, late \in Lateness : EvaluateGates(signals, late)
    PROVE  Inv' /\ DeliveryStep
<1>1. Working /\ UNCHANGED <<registryVars, nodeVars>> /\ budget' = budget
  BY Zenon, SMTT(20), OperationKnown DEF Inv, FleetOperationDone, EvaluateGates
<1>2. \/ op' = Resting
      \/ \E canary : op' = Choosing(canary)
      \/ op' = [op EXCEPT !.phase = "gates"]
  BY Zenon, SMTT(20) DEF FleetOperationDone, EvaluateGates, End
<1>3. CASE op' = Resting
  BY <1>1, <1>3, FleetOnly DEF OperationInv, Inv
<1>4. CASE \E canary : op' = Choosing(canary)
  <2>1. OperationInv'
    BY Zenon, SMTT(20), <1>1, <1>4, ChoosingSelects DEF Working
  <2> QED
    BY <1>1, <2>1, FleetOnly DEF Inv
<1>5. CASE op' = [op EXCEPT !.phase = "gates"]
  <2>1. op' = [phase |-> "gates", action |-> op.action, strategy |-> op.strategy, record |-> op.record,
               canary |-> op.canary, i |-> op.i, halted |-> op.halted, outcomes |-> op.outcomes,
               seen |-> op.seen, since |-> op.since]
    BY <1>1, <1>5 DEF Working
  <2>2. /\ op'.phase = "gates" /\ op'.action = op.action /\ op'.strategy = op.strategy
        /\ op'.record = op.record /\ op'.canary = op.canary /\ op'.i = op.i /\ op'.halted = op.halted
        /\ op'.outcomes = op.outcomes /\ op'.seen = op.seen /\ op'.since = op.since
    BY Zenon, SMTT(20), <2>1
  <2>3. Typed(op') \in OperationTypes
    BY Zenon, SMTT(20), <1>1, <2>2, WorkingFields DEF Typed, OperationTypes
  <2>4. HaltedInTime' /\ SeenStillTrue'
    BY <2>2 DEF HaltedInTime, SeenStillTrue
  <2>5. Working'
    BY Zenon, SMTT(20), <1>1, <2>1, <2>2, <2>3, <2>4 DEF Working, Ordered
  <2> QED
    BY <1>1, <2>5, FleetOnly DEF OperationInv, Inv
<1> QED
  BY <1>2, <1>3, <1>4, <1>5

(* The steps of a fleet operation.                                         *)
LEMMA FleetProgressKeeps ==
    ASSUME Inv, FleetProgress
    PROVE  Inv' /\ DeliveryStep
BY SharedCandidateKeeps, CallsKeep, ReportKeeps, FinishKeeps DEF FleetProgress

(* The control plane begins with an empty registry and idle nodes.         *)
LEMMA Initially ==
    ASSUME Init
    PROVE  Inv
<1>1. RegistryInv
  BY NewRegistryOK DEF Init, RegistryInit, RegistryInv, EnvelopeOK, RestoringOK, Idle
<1>2. Range(registry.records) = {}
  BY DEF Init, RegistryInit, NewRegistry, Range
<1>3. NodesInv
  BY <1>2, NewNodeSound DEF Init, NodeInit, NodesInv, NodeSound
<1>4. budget \in BudgetTypes
  BY ControlPlaneAssumption DEF ControlPlaneAssumption, Init, RegistryInit, BudgetTypes
<1> QED
  BY <1>1, <1>3, <1>4 DEF Init, FleetInit, Inv, OperationInv

(* One step of the control plane keeps the invariant and is a step, or no  *)
(* step, of SnapshotDelivery.                                              *)
LEMMA StepKeeps ==
    ASSUME Inv, [Next]_vars
    PROVE  Inv' /\ DeliveryStep
<1>1. CASE Next
  BY <1>1, RegistryTurnKeeps, RestartDropsKeeps, OperatorTurnKeeps, FleetStartKeeps, FleetProgressKeeps DEF Next
<1>2. CASE UNCHANGED vars
  <2>1. /\ UNCHANGED <<registryVars, nodeVars>> /\ op' = op /\ budget' = budget /\ node' = node
    BY <1>2 DEF vars, fleetVars, nodeVars
  <2>2. OperationInv'
    BY <2>1, OperationStays DEF Inv
  <2> QED
    BY <2>1, <2>2, FleetOnly DEF Inv
<1> QED
  BY <1>1, <1>2

(* Nodes after a failed call that stops the rollout are not called.        *)
Untouched ==
    \A i \in DOMAIN NodeIds :
       /\ op.phase = "apply" /\ op' # op /\ op' # Resting
       /\ node'[NodeIds[i]] # node[NodeIds[i]]
       => \A earlier \in 1 .. i - 1 :
             op.outcomes[earlier] = "failed" =>
                /\ op.strategy.kind # "sequential"
                /\ op.strategy.kind = "canary" => earlier > op.strategy.nodes

(* A call that changes a node comes after no failure that stops the        *)
(* rollout.                                                                *)
LEMMA StepUntouched ==
    ASSUME Inv, [Next]_vars
    PROVE  Untouched
<1> SUFFICES ASSUME NEW i \in DOMAIN NodeIds, op.phase = "apply", op' # op, op' # Resting,
                    node'[NodeIds[i]] # node[NodeIds[i]], NEW earlier \in 1 .. i - 1,
                    op.outcomes[earlier] = "failed"
             PROVE  /\ op.strategy.kind # "sequential"
                    /\ op.strategy.kind = "canary" => earlier > op.strategy.nodes
  BY DEF Untouched
<1>1. Working
  BY OperationKnown DEF Inv
<1>2. (\E hookOk \in BOOLEAN : CallNode(hookOk)) \/ CallLost
  <2>1. op # Resting
    BY DEF Resting
  <2> QED
    BY Zenon, SMTT(20), <2>1 DEF Next, vars, fleetVars, nodeVars, RegistryTurn, RestartDropsOperation, OperatorTurn, FleetStart,
       FleetRolloutStart, FleetRollbackStart, FleetRollbackToShared, ListenerCanaryStart, MayBegin,
       FleetProgress, SharedCandidateStep, SkipNode, ReportNode, EvaluateGates, FleetOperationDone
<1>3. ~op.halted
  BY Zenon, SMTT(20), <1>2 DEF CallNode, CallLost
<1>4. \E after : node' = [node EXCEPT ![NodeIds[op.i]] = after] \/ node' = node
  BY Zenon, SMTT(20), <1>2 DEF CallNode, CallLost
<1>5. NodeIds[i] = NodeIds[op.i]
  <2>1. NodeIds[i] \in Nodes /\ node \in [Nodes -> NodeStates]
    BY ControlPlaneAssumption DEF ControlPlaneAssumption, Inv, NodesInv
  <2>2. PICK after : node' = [node EXCEPT ![NodeIds[op.i]] = after] \/ node' = node
    BY Zenon, SMTT(20), <1>4
  <2>3. NodeIds[i] # NodeIds[op.i] => node'[NodeIds[i]] = node[NodeIds[i]]
    BY <2>1, <2>2
  <2> QED
    BY Zenon, SMTT(20), <2>3
<1>6. i = op.i
  BY Zenon, SMTT(20), <1>1, <1>5, WorkingFields DEF Working, Ordered, IsInjective
<1>7. Len(op.outcomes) = op.i - 1 /\ op.outcomes \in Seq(Outcomes) /\ op.i \in Nat
  BY SMTT(20), Zenon, <1>1, WorkingFields, ControlPlaneAssumption DEF Working, HaltedInTime, ControlPlaneAssumption
<1>8. earlier \in DOMAIN op.outcomes /\ earlier \in Nat
  BY <1>6, <1>7
<1>9. ~HaltsAfterFailure(op.strategy, earlier)
  BY Zenon, SMTT(20), <1>1, <1>3, <1>8 DEF Working, HaltedInTime
<1>10. op.strategy \in StrategyTypes
  BY <1>1, WorkingFields
<1> QED
  BY <1>8, <1>9, <1>10 DEF HaltsAfterFailure, CanarySize, StrategyTypes

----------------------------------------------------------------------------
(* The invariant holds in every reachable state of the control plane.      *)
THEOREM InvKept == Spec => []Inv
<1>1. Init => Inv
  BY Initially
<1>2. Inv /\ [Next]_vars => Inv'
  BY StepKeeps
<1> QED
  BY <1>1, <1>2, PTL DEF Spec

(* The registry's indexes agree, and a restore of an intact envelope       *)
(* rebuilds what was exported, whatever is published, exported, damaged    *)
(* and restored in whatever order (control.rs).                            *)
THEOREM RegistrySoundKept == Spec => []RegistrySound
<1>1. Inv => RegistrySound
  BY RegistryInvSound DEF Inv
<1> QED
  BY <1>1, InvKept, PTL

(* What nodes and fleet reports say is what the nodes run (rollout.rs,     *)
(* config_application.rs, fleet_status.rs).                                *)
THEOREM NodesTruthfulKept == Spec => []NodesTruthful
<1>1. Inv => NodesTruthful
  BY InvTruthful
<1> QED
  BY <1>1, InvKept, PTL

(* No node after a failed one is changed by a rollout that its failure     *)
(* stops (fleet.rs, execute_action).                                       *)
THEOREM UntouchedKept == Spec => UntouchedAfterFailure
<1>1. Inv /\ [Next]_vars => [Untouched]_vars
  BY StepUntouched
<1>2. Spec => [][Untouched]_vars
  BY <1>1, InvKept, PTL DEF Spec
<1> QED
  BY <1>2 DEF UntouchedAfterFailure, Untouched

(* The control plane implements SnapshotDelivery: a node only moves to     *)
(* what has been published.                                                *)
THEOREM DeliveryRefined == Spec => DeliversPublished
<1>1. Init => Delivery!Init
  BY DEF Init, NodeInit, Delivery!Init, NewNode
<1>2. Inv /\ [Next]_vars => [Delivery!Next]_<<published, [n \in Nodes |-> node[n].active]>>
  BY StepKeeps DEF DeliveryStep, Serving
<1> QED
  BY <1>1, <1>2, InvKept, PTL DEF Spec, DeliversPublished, Delivery!Spec
=============================================================================

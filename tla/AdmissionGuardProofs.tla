------------------------ MODULE AdmissionGuardProofs ------------------------
(* Proofs about ListenerAdmission, first part: the inductive invariant, what  *)
(* the guards count, and every step of a connection's task up to the slot.    *)
(* AdmissionProofs.tla has the other steps and the theorem.                   *)
EXTENDS ListenerAdmission, FiniteSetTheorems, SequenceTheorems, TLAPS

-----------------------------------------------------------------------------
(* What a guard counts, as a function of the tasks cs.  The leases of a       *)
(* source are the tasks that hold one of guard i for it.                      *)
Holders(cs, i, key) == {c \in Connections : cs[c].lease = i /\ SourceKey(cs[c].source) = key}

Permits(cs, i) == {c \in Connections : cs[c].permit = i}

LeasedKeys(cs, i) == {SourceKey(cs[c].source) : c \in {d \in Connections : cs[d].lease = i}}

RejectionReasons == {"source_quota_exceeded", "tracked_source_limit_reached", "handshake_limit_reached"}

(* Guard g, the i-th of the listener, counts exactly what the tasks hold of   *)
(* it and is within its limits.                                               *)
GuardRecord(g) ==
    /\ g = [quota |-> g.quota, handshakes |-> g.handshakes, bySource |-> g.bySource,
            inflight |-> g.inflight, rejected |-> g.rejected]
    /\ g.quota \in {NoQuota} \cup [perSource : Nat \ {0}, tracked : Nat \ {0}]
    /\ g.handshakes \in Nat
    /\ g.rejected \subseteq RejectionReasons

Counted(g, cs, i) ==
    /\ g.bySource = [key \in LeasedKeys(cs, i) |-> Cardinality(Holders(cs, i, key))]
    /\ g.inflight = Cardinality(Permits(cs, i))

Within(g) ==
    /\ \A key \in DOMAIN g.bySource : g.bySource[key] <= g.quota.perSource
    /\ Cardinality(DOMAIN g.bySource) <= g.quota.tracked
    /\ g.inflight <= g.handshakes

Fits(g, cs, i) == GuardRecord(g) /\ Counted(g, cs, i) /\ Within(g)

-----------------------------------------------------------------------------
(* Where a task can be, and what it holds there.                              *)
Phases ==
    {"idle", "preface", "source", "handshake", "rejected", "answering", "slot", "cas", "admitted",
     "shedding", "securing", "serving", "finished", "closing", "done"}

LeasePhases == {"handshake", "slot", "cas", "admitted", "securing", "serving", "finished", "closing"}

TcpPhases == {"preface", "handshake", "rejected", "answering"}

PermitPhases == {"slot", "cas", "admitted", "securing"}

HoldsSlot(r, kind) ==
    \/ r.phase \in {"admitted", "securing", "serving"}
    \/ r.phase = "finished" /\ r.sync = "none"
    \/ r.phase = "source" /\ kind = "http3"

TaskFields(r) ==
    r = [phase |-> r.phase, source |-> r.source, lease |-> r.lease, permit |-> r.permit,
         slot |-> r.slot, seen |-> r.seen, sync |-> r.sync]

TaskRecord(r, n) ==
    /\ TaskFields(r)
    /\ r.phase \in Phases
    /\ r.sync \in {"none"} \cup Range(OverloadStates)
    /\ r.lease \in 0..n /\ r.permit \in 0..n

TaskHolds(r, kind, tls) ==
    /\ r.slot = HoldsSlot(r, kind)
    /\ r.lease # 0 => r.phase \in LeasePhases
    /\ r.lease # 0 /\ kind = "http3" => r.phase = "serving"
    /\ kind = "http3" => r.phase \notin TcpPhases
    /\ r.permit # 0 => r.phase \in PermitPhases /\ tls
    /\ r.phase \in {"admitted", "shedding"} => r.sync # "none"
    /\ r.sync # "none" => r.phase \in {"admitted", "shedding", "finished"}
    /\ r.phase = "cas" => r.seen[1] \in Nat /\ r.seen[2] \in Nat

TasksInv ==
    /\ conn = [c \in Connections |-> conn[c]]
    /\ \A c \in Connections : TaskRecord(conn[c], InForce) /\ TaskHolds(conn[c], listener.kind, listener.tls)

(* The listener's other state.                                                *)
ListenerShape ==
    /\ listener = [kind |-> listener.kind, tls |-> listener.tls, mode |-> listener.mode,
                   state |-> listener.state]
    /\ listener.kind \in {"public", "admin", "http3"} /\ listener.tls \in BOOLEAN
    /\ listener.kind = "http3" => listener.tls
    /\ listener.state \in {"running", "draining", "stopped", "drain_timeout_expired"}
    /\ listener.state \in {"stopped", "drain_timeout_expired"} =>
           \A c \in Connections : conn[c].phase \in {"idle", "done"}

CountersShape ==
    /\ counters \in [accepted : Nat, active : Nat, shed : Nat, completed : Nat,
                     overload : Range(OverloadStates)]
    /\ limit \in Nat

ManagerShape ==
    \/ manager = NoManager
    \/ /\ manager = [state |-> manager.state, samples |-> manager.samples,
                     disabled |-> DisabledFor(manager.state)]
       /\ manager.state \in Range(OverloadStates)

(* The policy reported is the one in force, or the one an update is about to  *)
(* put in force.                                                              *)
UpdateShape ==
    /\ InForce > 0
    /\ \/ update = [pc |-> "none"]
       \/ \E pc \in {"policy", "protection"}, spec \in ListenerSpecs :
              update = [pc |-> pc, spec |-> spec]
    /\ update.pc \in {"none", "policy"} =>
           policy = [quota |-> guards[InForce].quota, handshakes |-> guards[InForce].handshakes]
    /\ update.pc = "protection" =>
           policy = [quota |-> update.spec.quota, handshakes |-> update.spec.handshakes]

AllFit(gs, cs) == gs \in Seq(Range(gs)) /\ \A i \in 1..Len(gs) : Fits(gs[i], cs, i)

SameLimits(gs, hs) ==
    /\ Len(hs) = Len(gs)
    /\ \A i \in 1..Len(gs) : hs[i].quota = gs[i].quota /\ hs[i].handshakes = gs[i].handshakes

(* Tasks that a slot counts, and those counted as accepted and not yet as     *)
(* shed or completed.                                                         *)
Asks(r) == r.slot \/ r.phase \in {"slot", "cas"}

ActiveTasks(cs) == {c \in Connections : cs[c].slot}

OpenTasks(cs) == {c \in Connections : Asks(cs[c])}

Bit(b) == IF b THEN 1 ELSE 0

AdmissionInv ==
    /\ ListenerShape /\ CountersShape /\ ManagerShape /\ UpdateShape
    /\ TasksInv /\ AllFit(guards, conn) /\ SlotsHeld /\ ConnectionsAccounted
-----------------------------------------------------------------------------
(* A function on 1..n is the list of its values.                              *)
LEMMA ListOf ==
    ASSUME NEW n \in Nat, NEW f, DOMAIN f = 1..n, f = [i \in 1..n |-> f[i]]
    PROVE  f \in Seq(Range(f)) /\ Len(f) = n
<1>1. f \in [1..n -> Range(f)]
  BY DEF Range
<1>2. f \in Seq(Range(f))
  BY <1>1, SeqDef
<1>3. Len(f) \in Nat /\ DOMAIN f = 1..Len(f)
  BY <1>2, LenProperties
<1>4. QED
  BY <1>2, <1>3

(* One guard of the list replaced: the others stay, and so does the length.   *)
Replaced(gs, i, g) == [gs EXCEPT ![i] = g]

(* Replacing one guard leaves the length and the other guards of the list     *)
(* alone.                                                                     *)
LEMMA GuardReplaced ==
    ASSUME NEW gs, gs \in Seq(Range(gs)), NEW i \in 1..Len(gs), NEW g, NEW hs, hs = Replaced(gs, i, g)
    PROVE  /\ hs \in Seq(Range(hs)) /\ Len(hs) = Len(gs)
           /\ hs[i] = g
           /\ \A j \in 1..Len(gs) : j # i => hs[j] = gs[j]
<1>1. Len(gs) \in Nat /\ DOMAIN gs = 1..Len(gs)
  BY LenProperties
<1>2. DOMAIN hs = 1..Len(gs) /\ hs = [j \in 1..Len(gs) |-> hs[j]]
  BY Zenon, SMTT(20), <1>1 DEF Replaced
<1>3. hs \in Seq(Range(hs)) /\ Len(hs) = Len(gs)
  BY <1>1, <1>2, ListOf
<1>4. QED
  BY <1>1, <1>3 DEF Replaced

(* Sets of tasks are finite, and so are the keys their leases are for.        *)
LEMMA HeldFinite ==
    ASSUME NEW cs, NEW i
    PROVE  /\ \A key : IsFiniteSet(Holders(cs, i, key)) /\ Cardinality(Holders(cs, i, key)) \in Nat
           /\ IsFiniteSet(Permits(cs, i)) /\ Cardinality(Permits(cs, i)) \in Nat
           /\ IsFiniteSet(LeasedKeys(cs, i)) /\ Cardinality(LeasedKeys(cs, i)) \in Nat
<1>1. IsFiniteSet(Connections)
  BY AdmissionAssumption DEF AdmissionAssumption
<1>2. ASSUME NEW key
      PROVE  IsFiniteSet(Holders(cs, i, key)) /\ Cardinality(Holders(cs, i, key)) \in Nat
  <2>1. Holders(cs, i, key) \subseteq Connections
    BY DEF Holders
  <2>2. QED
    BY <1>1, <2>1, FS_Subset, FS_CardinalityType
<1>3. IsFiniteSet(Permits(cs, i)) /\ Cardinality(Permits(cs, i)) \in Nat
  <2>1. Permits(cs, i) \subseteq Connections
    BY DEF Permits
  <2>2. QED
    BY <1>1, <2>1, FS_Subset, FS_CardinalityType
<1>4. IsFiniteSet(LeasedKeys(cs, i)) /\ Cardinality(LeasedKeys(cs, i)) \in Nat
  <2> DEFINE D == {d \in Connections : cs[d].lease = i}
             f == [d \in D |-> SourceKey(cs[d].source)]
  <2>1. IsFiniteSet(D)
    BY <1>1, FS_Subset
  <2>2. f \in Surjection(D, LeasedKeys(cs, i))
    BY DEF LeasedKeys, Surjection
  <2>3. QED
    BY <2>1, <2>2, FS_Surjection, FS_CardinalityType
<1>5. QED
  BY <1>2, <1>3, <1>4

(* A guard fits as long as the tasks hold the same of it.                     *)
LEMMA SameHeld ==
    ASSUME NEW cs, NEW ds, NEW i, NEW g, Fits(g, cs, i),
           \A d \in Connections : /\ (ds[d].lease = i) <=> (cs[d].lease = i)
                                  /\ (ds[d].permit = i) <=> (cs[d].permit = i)
                                  /\ cs[d].lease = i => ds[d].source = cs[d].source
    PROVE  Fits(g, ds, i)
<1>1. \A key : Holders(ds, i, key) = Holders(cs, i, key)
  BY DEF Holders
<1>2. Permits(ds, i) = Permits(cs, i)
  BY DEF Permits
<1>3. LeasedKeys(ds, i) = LeasedKeys(cs, i)
  BY DEF LeasedKeys
<1>4. Counted(g, ds, i)
  BY <1>1, <1>2, <1>3 DEF Counted, Fits
<1>5. QED
  BY <1>4 DEF Fits

(* Rejecting a connection leaves the counts of a guard alone.                 *)
LEMMA RejectedFits ==
    ASSUME NEW cs, NEW i, NEW g, NEW reason \in RejectionReasons, Fits(g, cs, i)
    PROVE  /\ Fits(Rejected(g, reason), cs, i)
           /\ Rejected(g, reason).quota = g.quota
           /\ Rejected(g, reason).handshakes = g.handshakes
<1> DEFINE h == Rejected(g, reason)
<1>1. h = [quota |-> g.quota, handshakes |-> g.handshakes, bySource |-> g.bySource,
           inflight |-> g.inflight, rejected |-> g.rejected \cup {reason}]
  BY DEF Rejected, Fits, GuardRecord
<1> HIDE DEF h
<1>2. /\ h.quota = g.quota /\ h.handshakes = g.handshakes
      /\ h.bySource = g.bySource /\ h.inflight = g.inflight
      /\ h.rejected = g.rejected \cup {reason}
      /\ h = [quota |-> h.quota, handshakes |-> h.handshakes, bySource |-> h.bySource,
              inflight |-> h.inflight, rejected |-> h.rejected]
  BY <1>1
<1>3. Fits(h, cs, i)
  BY <1>2 DEF Fits, GuardRecord, Counted, Within
<1>4. QED
  BY <1>2, <1>3 DEF h
(* A lease granted by try_acquire is one more task of its source, within the  *)
(* limits of the quota.                                                       *)
LEMMA LeaseGranted ==
    ASSUME NEW cs, NEW ds, NEW i, NEW g, NEW c \in Connections, NEW key,
           Fits(g, cs, i), SourceVerdict(g, key) = "leased",
           cs[c].lease # i, ds[c].lease = i, SourceKey(ds[c].source) = key,
           (ds[c].permit = i) <=> (cs[c].permit = i),
           \A d \in Connections \ {c} : ds[d] = cs[d]
    PROVE  /\ Fits(Leased(g, key), ds, i)
           /\ Leased(g, key).quota = g.quota /\ Leased(g, key).handshakes = g.handshakes
<1> DEFINE h == Leased(g, key)
           n == Cardinality(Holders(cs, i, key))
           K == LeasedKeys(cs, i)
<1>1. GuardRecord(g) /\ Counted(g, cs, i) /\ Within(g)
  BY DEF Fits
<1>2. /\ \A k : IsFiniteSet(Holders(cs, i, k)) /\ Cardinality(Holders(cs, i, k)) \in Nat
      /\ IsFiniteSet(K) /\ Cardinality(K) \in Nat
  BY Zenon, SMTT(20), HeldFinite
<1>3. /\ \A k : k # key => Holders(ds, i, k) = Holders(cs, i, k)
      /\ Holders(ds, i, key) = Holders(cs, i, key) \cup {c}
      /\ c \notin Holders(cs, i, key)
  BY DEF Holders
<1>4. Cardinality(Holders(ds, i, key)) = n + 1
  <2>1. PICK H : H = Holders(cs, i, key)
    OBVIOUS
  <2>2. IsFiniteSet(H) /\ c \notin H /\ Holders(ds, i, key) = H \cup {c}
    BY <1>2, <1>3, <2>1
  <2>3. Cardinality(H \cup {c}) = Cardinality(H) + 1
    BY <2>2, FS_AddElement, Zenon, SMTT(20)
  <2>4. QED
    BY <2>1, <2>2, <2>3
<1>5. LeasedKeys(ds, i) = K \cup {key}
  BY DEF LeasedKeys
<1>6. Permits(ds, i) = Permits(cs, i)
  BY DEF Permits
<1>7. key \notin K => n = 0
  <2>1. key \notin K => Holders(cs, i, key) = {}
    BY DEF Holders, LeasedKeys
  <2>2. QED
    BY <2>1, FS_EmptySet
<1>8. DOMAIN g.bySource = K /\ \A k \in K : g.bySource[k] = Cardinality(Holders(cs, i, k))
  BY <1>1 DEF Counted
<1>9. h = [g EXCEPT !.bySource = [k \in K \cup {key} |-> Cardinality(Holders(ds, i, k))]]
  <2> DEFINE m == IF key \in DOMAIN g.bySource THEN g.bySource[key] ELSE 0
             b == [k \in DOMAIN g.bySource \cup {key} |-> IF k = key THEN m + 1 ELSE g.bySource[k]]
  <2>1. h = [g EXCEPT !.bySource = b]
    BY DEF Leased
  <2>2. DOMAIN b = K \cup {key} /\ b = [k \in K \cup {key} |-> b[k]]
    BY <1>8
  <2>3. b[key] = n + 1
    BY <1>2, <1>7, <1>8
  <2>4. \A k \in K : k # key => b[k] = Cardinality(Holders(ds, i, k))
    BY <1>3, <1>8
  <2> HIDE DEF b
  <2>5. b = [k \in K \cup {key} |-> Cardinality(Holders(ds, i, k))]
    BY <1>4, <2>2, <2>3, <2>4
  <2>6. QED
    BY <2>1, <2>5
<1> HIDE DEF h
<1>10. /\ h.quota = g.quota /\ h.handshakes = g.handshakes /\ h.inflight = g.inflight
       /\ h.rejected = g.rejected
       /\ h.bySource = [k \in K \cup {key} |-> Cardinality(Holders(ds, i, k))]
       /\ h = [quota |-> h.quota, handshakes |-> h.handshakes, bySource |-> h.bySource,
               inflight |-> h.inflight, rejected |-> h.rejected]
  BY <1>1, <1>9 DEF GuardRecord
<1>11. GuardRecord(h) /\ Counted(h, ds, i)
  BY Zenon, SMTT(20), <1>1, <1>5, <1>6, <1>10 DEF GuardRecord, Counted
<1>12. /\ g.quota # NoQuota
       /\ key \in K => n < g.quota.perSource
       /\ key \notin K => Cardinality(K) < g.quota.tracked
  BY <1>1, <1>2, <1>8 DEF SourceVerdict, GuardRecord
<1>13. g.quota.perSource \in Nat \ {0} /\ g.quota.tracked \in Nat \ {0}
  BY <1>1, <1>12 DEF GuardRecord
<1>14. \A k \in DOMAIN h.bySource : h.bySource[k] <= h.quota.perSource
  <2>1. n + 1 <= g.quota.perSource
    BY <1>2, <1>7, <1>12, <1>13
  <2>2. \A k \in K : Cardinality(Holders(cs, i, k)) <= g.quota.perSource
    BY <1>1, <1>8 DEF Within
  <2>3. QED
    BY SMTT(20), Zenon, <1>3, <1>4, <1>10, <2>1, <2>2
<1>15. Cardinality(DOMAIN h.bySource) <= h.quota.tracked
  <2>1. Cardinality(K) <= g.quota.tracked
    BY <1>1, <1>8 DEF Within
  <2>2. Cardinality(K \cup {key}) = IF key \in K THEN Cardinality(K) ELSE Cardinality(K) + 1
    BY Zenon, SMTT(20), <1>2, FS_AddElement
  <2>3. QED
    BY <1>2, <1>10, <1>12, <1>13, <2>1, <2>2
<1>16. QED
  BY Zenon, SMTT(20), <1>1, <1>10, <1>11, <1>14, <1>15 DEF Fits, Within, h

(* A lease given back is one task less; a source without leases is forgotten. *)
GivesBack(cs, ds, i, c, key) ==
    /\ SourceKey(cs[c].source) = key
    /\ cs[c].lease = i /\ ds[c].lease # i
    /\ (ds[c].permit = i) <=> (cs[c].permit = i)
    /\ \A d \in Connections \ {c} : ds[d] = cs[d]

(* A connection that gives its source lease back (Unleased: the count goes    *)
(* down, the entry goes with the last one) leaves the guard counting exactly  *)
(* the leases that are left.                                                  *)
LEMMA LeaseReturned ==
    ASSUME NEW cs, NEW ds, NEW i, NEW g, NEW c \in Connections, NEW key,
           Fits(g, cs, i), GivesBack(cs, ds, i, c, key)
    PROVE  /\ Fits(Unleased(g, key), ds, i)
           /\ Unleased(g, key).quota = g.quota /\ Unleased(g, key).handshakes = g.handshakes
<1> DEFINE h == Unleased(g, key)
           n == Cardinality(Holders(cs, i, key))
           K == LeasedKeys(cs, i)
           L == LeasedKeys(ds, i)
<1>1. GuardRecord(g) /\ Counted(g, cs, i) /\ Within(g)
  BY DEF Fits
<1>2. /\ \A k : IsFiniteSet(Holders(cs, i, k)) /\ Cardinality(Holders(cs, i, k)) \in Nat
      /\ IsFiniteSet(K) /\ Cardinality(K) \in Nat
  BY Zenon, SMTT(20), HeldFinite
<1>3. /\ \A k : k # key => Holders(ds, i, k) = Holders(cs, i, k)
      /\ Holders(ds, i, key) = Holders(cs, i, key) \ {c}
      /\ c \in Holders(cs, i, key)
  BY DEF Holders, GivesBack
<1>4. IsFiniteSet(Holders(ds, i, key)) /\ Cardinality(Holders(ds, i, key)) = n - 1
  BY <1>2, <1>3, FS_RemoveElement
<1>5. key \in K /\ L \subseteq K /\ K \subseteq L \cup {key}
  BY DEF LeasedKeys, GivesBack
<1>6. key \in L <=> n # 1
  <2>1. key \in L <=> Holders(ds, i, key) # {}
    BY DEF LeasedKeys, Holders, GivesBack
  <2>2. Holders(ds, i, key) # {} <=> Cardinality(Holders(ds, i, key)) # 0
    BY Zenon, SMTT(20), <1>4, FS_EmptySet
  <2>3. n \in Nat
    BY <1>2
  <2>4. QED
    BY <1>4, <2>1, <2>2, <2>3
<1>7. Permits(ds, i) = Permits(cs, i)
  BY DEF Permits, GivesBack
<1>8. DOMAIN g.bySource = K /\ \A k \in K : g.bySource[k] = Cardinality(Holders(cs, i, k))
  BY <1>1 DEF Counted
<1>9. h = [g EXCEPT !.bySource = [k \in L |-> Cardinality(Holders(ds, i, k))]]
  <2> DEFINE b == IF g.bySource[key] = 1 THEN Restrict(g.bySource, DOMAIN g.bySource \ {key})
                  ELSE [g.bySource EXCEPT ![key] = g.bySource[key] - 1]
  <2>1. h = [g EXCEPT !.bySource = b]
    BY DEF Unleased
  <2>2. CASE n = 1
    <3>1. L = K \ {key}
      BY <1>5, <1>6, <2>2
    <3>2. b = [k \in K \ {key} |-> g.bySource[k]]
      BY <1>5, <1>8, <2>2 DEF Restrict
    <3> HIDE DEF b
    <3>3. b = [k \in L |-> Cardinality(Holders(ds, i, k))]
      BY <1>3, <1>8, <3>1, <3>2
    <3>4. QED
      BY <2>1, <3>3
  <2>3. CASE n # 1
    <3>1. L = K
      BY <1>5, <1>6, <2>3
    <3>2. b = [g.bySource EXCEPT ![key] = g.bySource[key] - 1]
      BY <1>5, <1>8, <2>3
    <3>3. DOMAIN b = K /\ b = [k \in K |-> b[k]]
      BY <1>1, <1>8, <3>2 DEF Counted
    <3>4. b[key] = n - 1 /\ \A k \in K \ {key} : b[k] = g.bySource[k]
      BY <1>5, <1>8, <3>2
    <3> HIDE DEF b
    <3>5. b = [k \in L |-> Cardinality(Holders(ds, i, k))]
      BY <1>3, <1>4, <1>8, <3>1, <3>3, <3>4
    <3>6. QED
      BY <2>1, <3>5
  <2>4. QED
    BY <2>2, <2>3
<1> HIDE DEF h
<1>10. /\ h.quota = g.quota /\ h.handshakes = g.handshakes /\ h.inflight = g.inflight
       /\ h.rejected = g.rejected
       /\ h.bySource = [k \in L |-> Cardinality(Holders(ds, i, k))]
       /\ h = [quota |-> h.quota, handshakes |-> h.handshakes, bySource |-> h.bySource,
               inflight |-> h.inflight, rejected |-> h.rejected]
  BY <1>1, <1>9 DEF GuardRecord
<1>11. GuardRecord(h) /\ Counted(h, ds, i)
  BY <1>1, <1>7, <1>10 DEF GuardRecord, Counted
<1>12. g.quota.perSource \in Nat /\ g.quota.tracked \in Nat
  BY <1>1 DEF GuardRecord, NoQuota
<1>13. \A k \in DOMAIN h.bySource : h.bySource[k] <= h.quota.perSource
  <2>1. \A k \in K : Cardinality(Holders(cs, i, k)) <= g.quota.perSource
    BY <1>1, <1>8 DEF Within
  <2>2. n \in Nat /\ n <= g.quota.perSource
    BY <1>2, <1>5, <2>1
  <2>3. n - 1 <= g.quota.perSource
    BY <1>12, <2>2
  <2>4. QED
    BY <1>3, <1>4, <1>5, <1>10, <2>1, <2>3
<1>14. Cardinality(DOMAIN h.bySource) <= h.quota.tracked
  <2>1. Cardinality(K) <= g.quota.tracked
    BY <1>1, <1>8 DEF Within
  <2>2. IsFiniteSet(L) /\ Cardinality(L) \in Nat /\ Cardinality(L) <= Cardinality(K)
    BY <1>2, <1>5, FS_Subset, FS_CardinalityType
  <2>3. QED
    BY <1>2, <1>10, <1>12, <2>1, <2>2
<1>15. QED
  BY Zenon, SMTT(20), <1>1, <1>10, <1>11, <1>13, <1>14 DEF Fits, Within, h
(* A handshake permit taken or given back is counted, within the limit.       *)
LEMMA PermitCounted ==
    ASSUME NEW cs, NEW ds, NEW i, NEW g, NEW h, NEW c \in Connections,
           Fits(g, cs, i),
           \A d \in Connections : (ds[d].lease = i) <=> (cs[d].lease = i),
           \A d \in Connections : cs[d].lease = i => ds[d].source = cs[d].source,
           \A d \in Connections \ {c} : ds[d] = cs[d],
           \/ /\ g.inflight < g.handshakes
              /\ cs[c].permit # i /\ ds[c].permit = i
              /\ h = [g EXCEPT !.inflight = @ + 1]
           \/ /\ cs[c].permit = i /\ ds[c].permit # i
              /\ h = [g EXCEPT !.inflight = @ - 1]
    PROVE  Fits(h, ds, i) /\ h.quota = g.quota /\ h.handshakes = g.handshakes
<1> DEFINE n == Cardinality(Permits(cs, i))
<1>1. GuardRecord(g) /\ Counted(g, cs, i) /\ Within(g)
  BY DEF Fits
<1>2. IsFiniteSet(Permits(cs, i)) /\ n \in Nat
  BY HeldFinite
<1>3. /\ \A key : Holders(ds, i, key) = Holders(cs, i, key)
      /\ LeasedKeys(ds, i) = LeasedKeys(cs, i)
  BY DEF Holders, LeasedKeys
<1>4. g.inflight = n
  BY <1>1 DEF Counted
<1>5. \/ /\ n < g.handshakes
         /\ Cardinality(Permits(ds, i)) = n + 1 /\ h = [g EXCEPT !.inflight = n + 1]
      \/ Cardinality(Permits(ds, i)) = n - 1 /\ h = [g EXCEPT !.inflight = n - 1]
  <2>1. CASE /\ g.inflight < g.handshakes
             /\ cs[c].permit # i /\ ds[c].permit = i
             /\ h = [g EXCEPT !.inflight = @ + 1]
    <3>1. Permits(ds, i) = Permits(cs, i) \cup {c} /\ c \notin Permits(cs, i)
      BY <2>1 DEF Permits
    <3>2. Cardinality(Permits(ds, i)) = n + 1
      BY Zenon, SMTT(20), <1>2, <3>1, FS_AddElement
    <3>3. QED
      BY <1>4, <2>1, <3>2
  <2>2. CASE /\ cs[c].permit = i /\ ds[c].permit # i
             /\ h = [g EXCEPT !.inflight = @ - 1]
    <3>1. Permits(ds, i) = Permits(cs, i) \ {c} /\ c \in Permits(cs, i)
      BY <2>2 DEF Permits
    <3>2. Cardinality(Permits(ds, i)) = n - 1
      BY Zenon, SMTT(20), <1>2, <3>1, FS_RemoveElement
    <3>3. QED
      BY <1>4, <2>2, <3>2
  <2>3. QED
    BY <2>1, <2>2
<1>6. PICK m : /\ m = Cardinality(Permits(ds, i)) /\ h = [g EXCEPT !.inflight = m]
               /\ (n < g.handshakes /\ m = n + 1) \/ m = n - 1
  BY <1>5
<1>7. /\ h.quota = g.quota /\ h.handshakes = g.handshakes /\ h.bySource = g.bySource
      /\ h.rejected = g.rejected
      /\ h.inflight = m
      /\ h = [quota |-> h.quota, handshakes |-> h.handshakes, bySource |-> h.bySource,
              inflight |-> h.inflight, rejected |-> h.rejected]
  BY <1>1, <1>6 DEF GuardRecord
<1>8. g.handshakes \in Nat /\ n <= g.handshakes
  BY <1>1, <1>4 DEF GuardRecord, Within
<1>9. m <= g.handshakes
  BY <1>2, <1>6, <1>8
<1>10. GuardRecord(h) /\ Counted(h, ds, i) /\ Within(h)
  BY <1>1, <1>3, <1>6, <1>7, <1>9 DEF GuardRecord, Counted, Within
<1>11. QED
  BY <1>7, <1>10 DEF Fits

(* All tasks dropped: nothing of the guard is held any more.                  *)
LEMMA AllDroppedFits ==
    ASSUME NEW ds, NEW i, NEW g, Fits(g, conn, i),
           \A d \in Connections : ds[d].lease # i /\ ds[d].permit # i
    PROVE  /\ Fits(AllDropped(g, i), ds, i)
           /\ AllDropped(g, i).quota = g.quota /\ AllDropped(g, i).handshakes = g.handshakes
<1> DEFINE h == AllDropped(g, i)
<1>1. GuardRecord(g) /\ Counted(g, conn, i) /\ Within(g)
  BY DEF Fits
<1>2. /\ \A key : LeaseHolders(i, key) = Holders(conn, i, key)
      /\ PermitHolders(i) = Permits(conn, i)
  BY DEF LeaseHolders, Holders, PermitHolders, Permits
<1>3. /\ \A key : Cardinality(Holders(conn, i, key)) \in Nat
      /\ Cardinality(Permits(conn, i)) \in Nat
  BY Zenon, SMTT(20), HeldFinite
<1>4. {k \in DOMAIN g.bySource : g.bySource[k] > Cardinality(LeaseHolders(i, k))} = {}
  BY <1>1, <1>2, <1>3 DEF Counted
<1>5. g.inflight - Cardinality(PermitHolders(i)) = 0
  BY <1>1, <1>2, <1>3 DEF Counted
<1>6. PICK b : b = [key \in {k \in DOMAIN g.bySource : g.bySource[k] > Cardinality(LeaseHolders(i, k))} |->
                        g.bySource[key] - Cardinality(LeaseHolders(i, key))]
  BY Zenon, SMTT(20)
<1>7. h = [g EXCEPT !.bySource = b, !.inflight = 0]
  BY Zenon, SMTT(20), <1>5, <1>6 DEF AllDropped
<1>8. DOMAIN b = {} /\ b = [key \in {} |-> Cardinality(Holders(ds, i, key))]
  BY <1>4, <1>6
<1> HIDE DEF h
<1>9. /\ h.quota = g.quota /\ h.handshakes = g.handshakes /\ h.bySource = b /\ h.inflight = 0
      /\ h.rejected = g.rejected
      /\ h = [quota |-> h.quota, handshakes |-> h.handshakes, bySource |-> h.bySource,
              inflight |-> h.inflight, rejected |-> h.rejected]
  BY Zenon, SMTT(20), <1>1, <1>7 DEF GuardRecord
<1>10. LeasedKeys(ds, i) = {} /\ Permits(ds, i) = {}
  BY DEF LeasedKeys, Permits
<1>11. Cardinality({}) = 0
  BY FS_EmptySet
<1>12. GuardRecord(h) /\ Counted(h, ds, i)
  BY <1>1, <1>8, <1>9, <1>10, <1>11 DEF GuardRecord, Counted
<1>13. g.quota.tracked \in Nat /\ g.handshakes \in Nat
  BY <1>1 DEF GuardRecord, NoQuota
<1>14. Within(h)
  BY <1>8, <1>9, <1>11, <1>13 DEF Within
<1>15. QED
  BY <1>9, <1>12, <1>14 DEF Fits, h

(* A guard an update has just built counts nothing.                           *)
LEMMA NewGuardFits ==
    ASSUME NEW cs, NEW i, NEW spec \in ListenerSpecs,
           \A d \in Connections : cs[d].lease # i /\ cs[d].permit # i
    PROVE  /\ Fits(NewGuard(spec), cs, i)
           /\ NewGuard(spec).quota = spec.quota /\ NewGuard(spec).handshakes = spec.handshakes
<1> DEFINE h == NewGuard(spec)
<1>1. /\ spec.quota \in {NoQuota} \cup [perSource : Nat \ {0}, tracked : Nat \ {0}]
      /\ spec.handshakes \in Nat
  BY AdmissionAssumption DEF AdmissionAssumption
<1>2. /\ h.quota = spec.quota /\ h.handshakes = spec.handshakes
      /\ h.bySource = <<>> /\ h.inflight = 0 /\ h.rejected = {}
      /\ h = [quota |-> h.quota, handshakes |-> h.handshakes, bySource |-> h.bySource,
              inflight |-> h.inflight, rejected |-> h.rejected]
  BY DEF NewGuard
<1> HIDE DEF h
<1>3. LeasedKeys(cs, i) = {} /\ Permits(cs, i) = {}
  BY DEF LeasedKeys, Permits
<1>4. Cardinality({}) = 0
  BY FS_EmptySet
<1>5. DOMAIN h.bySource = {} /\ h.bySource = [key \in {} |-> Cardinality(Holders(cs, i, key))]
  BY <1>2
<1>6. GuardRecord(h) /\ Counted(h, cs, i)
  BY <1>1, <1>2, <1>3, <1>4, <1>5 DEF GuardRecord, Counted
<1>7. spec.quota.tracked \in Nat
  BY <1>1 DEF NoQuota
<1>8. Within(h)
  BY <1>1, <1>2, <1>4, <1>5, <1>7 DEF Within
<1>9. QED
  BY <1>2, <1>6, <1>8 DEF Fits, h
-----------------------------------------------------------------------------
(* Lists of guards.  The invariant gives their length and shape.              *)
LEMMA GuardsShape ==
    ASSUME AdmissionInv
    PROVE  /\ InForce \in Nat /\ InForce > 0 /\ InForce \in 1..InForce
           /\ guards \in Seq(Range(guards)) /\ DOMAIN guards = 1..InForce
           /\ AllFit(guards, conn)
<1>1. guards \in Seq(Range(guards)) /\ InForce > 0 /\ AllFit(guards, conn)
  BY DEF AdmissionInv, UpdateShape, AllFit
<1>2. InForce \in Nat /\ DOMAIN guards = 1..InForce
  BY <1>1, LenProperties DEF InForce
<1>3. QED
  BY <1>1, <1>2

(* What a task drops goes back to the guard that granted it; if it holds      *)
(* nothing, nothing changes.                                                  *)
LEMMA LeaseDropped ==
    ASSUME NEW gs, AllFit(gs, conn), NEW c \in Connections, conn[c].lease \in 0..Len(gs), NEW ds,
           ds[c].lease = 0, ds[c].permit = conn[c].permit,
           \A d \in Connections \ {c} : ds[d] = conn[d]
    PROVE  AllFit(DropLease(gs, c), ds) /\ SameLimits(gs, DropLease(gs, c))
<1>1. gs \in Seq(Range(gs)) /\ Len(gs) \in Nat /\ \A i \in 1..Len(gs) : Fits(gs[i], conn, i)
  BY LenProperties DEF AllFit
<1>2. \A i \in 1..Len(gs) : i # conn[c].lease => Fits(gs[i], ds, i)
  <2> SUFFICES ASSUME NEW i \in 1..Len(gs), i # conn[c].lease
               PROVE  Fits(gs[i], ds, i)
    OBVIOUS
  <2>1. Fits(gs[i], conn, i) /\ i # 0
    BY <1>1
  <2>2. \A d \in Connections : /\ (ds[d].lease = i) <=> (conn[d].lease = i)
                               /\ (ds[d].permit = i) <=> (conn[d].permit = i)
                               /\ conn[d].lease = i => ds[d].source = conn[d].source
    BY <2>1
  <2>3. QED
    BY <2>1, <2>2, SameHeld
<1>3. CASE conn[c].lease = 0
  <2>1. DropLease(gs, c) = gs
    BY <1>3 DEF DropLease
  <2>2. \A i \in 1..Len(gs) : i # conn[c].lease
    BY <1>3
  <2>3. QED
    BY <1>1, <1>2, <2>1, <2>2 DEF AllFit, SameLimits
<1>4. CASE conn[c].lease # 0
  <2> DEFINE i == conn[c].lease
             key == SourceKey(conn[c].source)
             g == gs[i]
             hs == DropLease(gs, c)
  <2>1. i \in 1..Len(gs)
    BY <1>1, <1>4
  <2>2. hs = Replaced(gs, i, Unleased(g, key))
    BY <1>4 DEF DropLease, Replaced
  <2>3. Fits(g, conn, i) /\ i # 0
    BY <1>1, <2>1
  <2> HIDE DEF i, key, g, hs
  <2>4. /\ hs \in Seq(Range(hs)) /\ Len(hs) = Len(gs)
        /\ hs[i] = Unleased(g, key)
        /\ \A j \in 1..Len(gs) : j # i => hs[j] = gs[j]
    BY <1>1, <2>1, <2>2, GuardReplaced
  <2>5. /\ Fits(Unleased(g, key), ds, i)
        /\ Unleased(g, key).quota = g.quota /\ Unleased(g, key).handshakes = g.handshakes
    <3>1. GivesBack(conn, ds, i, c, key)
      BY <2>3 DEF GivesBack, i, key
    <3>2. QED
      BY <2>3, <3>1, LeaseReturned
  <2>6. \A j \in 1..Len(gs) : Fits(hs[j], ds, j)
    BY <1>2, <2>4, <2>5 DEF i
  <2>7. SameLimits(gs, hs)
    BY <2>4, <2>5 DEF SameLimits, g
  <2>8. QED
    BY <2>4, <2>6, <2>7 DEF AllFit, hs
<1>5. QED
  BY <1>3, <1>4

(* Dropping the handshake permit (HandshakePermit's Drop) leaves every guard  *)
(* counting exactly the permits that are left.                                *)
LEMMA PermitDropped ==
    ASSUME NEW gs, NEW cs, AllFit(gs, cs), NEW c \in Connections,
           conn[c].permit \in 0..Len(gs), cs[c].permit = conn[c].permit, NEW ds,
           ds[c].permit = 0, ds[c].lease = cs[c].lease, ds[c].lease # 0 => ds[c].source = cs[c].source,
           \A d \in Connections \ {c} : ds[d] = cs[d]
    PROVE  AllFit(DropPermit(gs, c), ds) /\ SameLimits(gs, DropPermit(gs, c))
<1>1. gs \in Seq(Range(gs)) /\ Len(gs) \in Nat /\ \A i \in 1..Len(gs) : Fits(gs[i], cs, i)
  BY LenProperties DEF AllFit
<1>2. \A i \in 1..Len(gs) : i # conn[c].permit => Fits(gs[i], ds, i)
  <2> SUFFICES ASSUME NEW i \in 1..Len(gs), i # conn[c].permit
               PROVE  Fits(gs[i], ds, i)
    OBVIOUS
  <2>1. Fits(gs[i], cs, i) /\ i # 0
    BY <1>1
  <2>2. \A d \in Connections : /\ (ds[d].lease = i) <=> (cs[d].lease = i)
                               /\ (ds[d].permit = i) <=> (cs[d].permit = i)
                               /\ cs[d].lease = i => ds[d].source = cs[d].source
    BY <2>1
  <2>3. QED
    BY <2>1, <2>2, SameHeld
<1>3. CASE conn[c].permit = 0
  <2>1. DropPermit(gs, c) = gs
    BY <1>3 DEF DropPermit
  <2>2. \A i \in 1..Len(gs) : i # conn[c].permit
    BY <1>3
  <2>3. QED
    BY <1>1, <1>2, <2>1, <2>2 DEF AllFit, SameLimits
<1>4. CASE conn[c].permit # 0
  <2> DEFINE i == conn[c].permit
             g == gs[i]
             h == [g EXCEPT !.inflight = @ - 1]
             hs == DropPermit(gs, c)
  <2>1. i \in 1..Len(gs)
    BY <1>1, <1>4
  <2>2. hs = Replaced(gs, i, h)
    BY <1>4 DEF DropPermit, Replaced
  <2>3. Fits(g, cs, i) /\ i # 0
    BY <1>1, <2>1
  <2>4. Fits(h, ds, i) /\ h.quota = g.quota /\ h.handshakes = g.handshakes
    <3>1. /\ \A d \in Connections : (ds[d].lease = i) <=> (cs[d].lease = i)
          /\ \A d \in Connections : cs[d].lease = i => ds[d].source = cs[d].source
          /\ cs[c].permit = i /\ ds[c].permit # i
      BY <2>3
    <3> HIDE DEF i, g
    <3>2. QED
      BY <2>3, <3>1, PermitCounted
  <2> HIDE DEF i, g, h, hs
  <2>5. /\ hs \in Seq(Range(hs)) /\ Len(hs) = Len(gs)
        /\ hs[i] = h
        /\ \A j \in 1..Len(gs) : j # i => hs[j] = gs[j]
    BY <1>1, <2>1, <2>2, GuardReplaced
  <2>6. \A j \in 1..Len(gs) : Fits(hs[j], ds, j)
    BY <1>2, <2>4, <2>5 DEF i
  <2>7. SameLimits(gs, hs)
    BY <2>4, <2>5 DEF SameLimits, g
  <2>8. QED
    BY <2>5, <2>6, <2>7 DEF AllFit, hs
<1>5. QED
  BY <1>3, <1>4
(* A rejection noted by one of the guards.                                    *)
LEMMA GuardRejected ==
    ASSUME NEW gs, NEW cs, AllFit(gs, cs), NEW i \in 1..Len(gs), NEW reason \in RejectionReasons, NEW hs,
           hs = Replaced(gs, i, Rejected(gs[i], reason))
    PROVE  AllFit(hs, cs) /\ SameLimits(gs, hs)
<1>1. gs \in Seq(Range(gs)) /\ \A j \in 1..Len(gs) : Fits(gs[j], cs, j)
  BY DEF AllFit
<1>2. PICK g : g = gs[i]
  OBVIOUS
<1>3. PICK h : h = Rejected(g, reason)
  OBVIOUS
<1>4. Fits(h, cs, i) /\ h.quota = g.quota /\ h.handshakes = g.handshakes
  <2>1. Fits(g, cs, i)
    BY <1>1, <1>2
  <2>2. QED
    BY <1>3, <2>1, RejectedFits
<1>5. /\ hs \in Seq(Range(hs)) /\ Len(hs) = Len(gs) /\ hs[i] = h
      /\ \A j \in 1..Len(gs) : j # i => hs[j] = gs[j]
  <2>1. hs = Replaced(gs, i, h)
    BY <1>2, <1>3
  <2>2. QED
    BY <1>1, <2>1, GuardReplaced
<1>6. QED
  BY <1>1, <1>2, <1>4, <1>5 DEF AllFit, SameLimits

(* Two sets of connections that differ in one.                                *)
LEMMA OneMoved ==
    ASSUME NEW S, NEW T, S \subseteq Connections, T \subseteq Connections, NEW c \in Connections,
           \A d \in Connections \ {c} : (d \in S) <=> (d \in T)
    PROVE  /\ Cardinality(S) \in Nat /\ Cardinality(T) \in Nat
           /\ ((c \in S) <=> (c \in T)) => Cardinality(T) = Cardinality(S)
           /\ c \in T /\ c \notin S => Cardinality(T) = Cardinality(S) + 1
           /\ c \in S /\ c \notin T => Cardinality(S) = Cardinality(T) + 1
<1>1. IsFiniteSet(S) /\ IsFiniteSet(T) /\ Cardinality(S) \in Nat /\ Cardinality(T) \in Nat
  BY AdmissionAssumption, FS_Subset, FS_CardinalityType DEF AdmissionAssumption
<1>2. ((c \in S) <=> (c \in T)) => S = T
  OBVIOUS
<1>3. c \in T /\ c \notin S => T = S \cup {c}
  OBVIOUS
<1>4. c \in S /\ c \notin T => S = T \cup {c}
  OBVIOUS
<1>5. /\ c \notin S => Cardinality(S \cup {c}) = Cardinality(S) + 1
      /\ c \notin T => Cardinality(T \cup {c}) = Cardinality(T) + 1
  BY Zenon, SMTT(20), <1>1, FS_AddElement
<1>6. QED
  BY Zenon, SMTT(20), <1>1, <1>2, <1>3, <1>4, <1>5

(* The invariant after a step of one task, from what the step does to the     *)
(* task, the guards and the counters.                                         *)
GuardsMoved == AllFit(guards', conn') /\ SameLimits(guards, guards')

CountersMoved(old, new) ==
    /\ counters' \in [accepted : Nat, active : Int, shed : Nat, completed : Nat,
                      overload : Range(OverloadStates)]
    /\ counters'.active + Bit(old.slot) = counters.active + Bit(new.slot)
    /\ counters'.accepted + (counters.shed + counters.completed) + Bit(Asks(old))
         = counters.accepted + (counters'.shed + counters'.completed) + Bit(Asks(new))

(* A step of one connection keeps the invariant when its record, the guards   *)
(* and the counters move together: what it newly holds is counted, what it    *)
(* gave back is not.                                                          *)
LEMMA TaskMoved ==
    ASSUME AdmissionInv, NEW c \in Connections, NEW r, conn' = [conn EXCEPT ![c] = r],
           UNCHANGED <<listener, limit, policy, update>>,
           listener.state \in {"running", "draining"},
           TaskRecord(r, InForce), TaskHolds(r, listener.kind, listener.tls),
           ManagerShape', GuardsMoved, CountersMoved(conn[c], r)
    PROVE  AdmissionInv'
<1>1. conn = [d \in Connections |-> conn[d]] /\ DOMAIN conn = Connections
  BY DEF AdmissionInv, TasksInv
<1>2. /\ DOMAIN conn' = Connections /\ conn' = [d \in Connections |-> conn'[d]]
      /\ conn'[c] = r /\ \A d \in Connections \ {c} : conn'[d] = conn[d]
  BY <1>1
<1>3. InForce \in Nat /\ InForce > 0 /\ InForce \in 1..InForce
  BY GuardsShape
<1>4. InForce' = InForce
  BY DEF GuardsMoved, SameLimits, InForce
<1>5. TasksInv'
  <2>1. \A d \in Connections : TaskRecord(conn'[d], InForce) /\ TaskHolds(conn'[d], listener.kind, listener.tls)
    BY <1>2 DEF AdmissionInv, TasksInv
  <2>2. QED
    BY <1>2, <1>4, <2>1 DEF TasksInv
<1>6. AllFit(guards', conn')
  BY DEF GuardsMoved
<1>7. ListenerShape'
  BY DEF AdmissionInv, ListenerShape
<1>8. UpdateShape'
  <2>1. /\ guards'[InForce].quota = guards[InForce].quota
        /\ guards'[InForce].handshakes = guards[InForce].handshakes
    BY <1>3 DEF GuardsMoved, SameLimits, InForce
  <2>2. UpdateShape
    BY DEF AdmissionInv
  <2>3. QED
    BY Zenon, SMTT(20), <1>3, <1>4, <2>1, <2>2 DEF UpdateShape
<1>9. /\ Cardinality(ActiveTasks(conn)) \in Nat /\ Cardinality(ActiveTasks(conn')) \in Nat
      /\ Cardinality(ActiveTasks(conn')) + Bit(conn[c].slot) = Cardinality(ActiveTasks(conn)) + Bit(r.slot)
  <2>0. PICK S, T : S = ActiveTasks(conn) /\ T = ActiveTasks(conn')
    OBVIOUS
  <2>1. /\ ActiveTasks(conn) \subseteq Connections /\ ActiveTasks(conn') \subseteq Connections
        /\ \A d \in Connections \ {c} : (d \in ActiveTasks(conn)) <=> (d \in ActiveTasks(conn'))
        /\ (c \in ActiveTasks(conn)) <=> conn[c].slot
        /\ (c \in ActiveTasks(conn')) <=> r.slot
    BY <1>2 DEF ActiveTasks
  <2>2. /\ Cardinality(S) \in Nat /\ Cardinality(T) \in Nat
        /\ ((c \in S) <=> (c \in T)) => Cardinality(T) = Cardinality(S)
        /\ c \in T /\ c \notin S => Cardinality(T) = Cardinality(S) + 1
        /\ c \in S /\ c \notin T => Cardinality(S) = Cardinality(T) + 1
    BY Zenon, SMTT(20), <2>1, <2>0, OneMoved
  <2>3. QED
    BY <2>0, <2>1, <2>2 DEF Bit
<1>10. /\ Cardinality(OpenTasks(conn)) \in Nat /\ Cardinality(OpenTasks(conn')) \in Nat
       /\ Cardinality(OpenTasks(conn')) + Bit(Asks(conn[c])) = Cardinality(OpenTasks(conn)) + Bit(Asks(r))
  <2>0. PICK S, T : S = OpenTasks(conn) /\ T = OpenTasks(conn')
    OBVIOUS
  <2>1. /\ OpenTasks(conn) \subseteq Connections /\ OpenTasks(conn') \subseteq Connections
        /\ \A d \in Connections \ {c} : (d \in OpenTasks(conn)) <=> (d \in OpenTasks(conn'))
        /\ (c \in OpenTasks(conn)) <=> Asks(conn[c])
        /\ (c \in OpenTasks(conn')) <=> Asks(r)
    BY <1>2 DEF OpenTasks
  <2>2. /\ Cardinality(S) \in Nat /\ Cardinality(T) \in Nat
        /\ ((c \in S) <=> (c \in T)) => Cardinality(T) = Cardinality(S)
        /\ c \in T /\ c \notin S => Cardinality(T) = Cardinality(S) + 1
        /\ c \in S /\ c \notin T => Cardinality(S) = Cardinality(T) + 1
    BY Zenon, SMTT(20), <2>1, <2>0, OneMoved
  <2>3. QED
    BY <2>0, <2>1, <2>2 DEF Bit
<1>11. /\ counters.active = Cardinality(ActiveTasks(conn))
       /\ counters.accepted = counters.shed + counters.completed + Cardinality(OpenTasks(conn))
  BY DEF AdmissionInv, SlotsHeld, ConnectionsAccounted, ActiveTasks, OpenTasks, Asks
<1>12. /\ counters.accepted \in Nat /\ counters.active \in Nat /\ counters.shed \in Nat
       /\ counters.completed \in Nat
  BY DEF AdmissionInv, CountersShape
<1>13. /\ counters'.accepted \in Nat /\ counters'.active \in Int /\ counters'.shed \in Nat
       /\ counters'.completed \in Nat
  BY DEF CountersMoved
<1>14. /\ Bit(conn[c].slot) \in Int /\ Bit(r.slot) \in Int
       /\ Bit(Asks(conn[c])) \in Int /\ Bit(Asks(r)) \in Int
  BY DEF Bit
<1>15. counters'.active = Cardinality(ActiveTasks(conn'))
  <2>1. counters'.active + Bit(conn[c].slot) = counters.active + Bit(r.slot)
    BY DEF CountersMoved
  <2>2. QED
    BY SMTT(20), Zenon, <1>9, <1>11, <1>12, <1>13, <1>14, <2>1
<1>16. counters'.accepted = counters'.shed + counters'.completed + Cardinality(OpenTasks(conn'))
  <2>1. counters'.accepted + (counters.shed + counters.completed) + Bit(Asks(conn[c]))
          = counters.accepted + (counters'.shed + counters'.completed) + Bit(Asks(r))
    BY DEF CountersMoved
  <2>2. PICK a, b, s, t, m, n, x, y :
            /\ a = counters.accepted /\ b = counters'.accepted
            /\ s = counters.shed + counters.completed /\ t = counters'.shed + counters'.completed
            /\ m = Cardinality(OpenTasks(conn)) /\ n = Cardinality(OpenTasks(conn'))
            /\ x = Bit(Asks(conn[c])) /\ y = Bit(Asks(r))
    OBVIOUS
  <2>3. a \in Int /\ b \in Int /\ s \in Int /\ t \in Int /\ m \in Int /\ n \in Int /\ x \in Int /\ y \in Int
    BY <1>10, <1>12, <1>13, <1>14, <2>2
  <2>4. b + s + x = a + t + y /\ n + x = m + y /\ a = s + m
    BY Zenon, SMTT(20), <1>10, <1>11, <2>1, <2>2
  <2>5. b = t + n
    BY <2>3, <2>4
  <2>6. QED
    BY <2>2, <2>5
<1>17. CountersShape'
  <2>1. counters'.active \in Nat
    BY <1>9, <1>15
  <2>2. counters' \in [accepted : Nat, active : Nat, shed : Nat, completed : Nat,
                       overload : Range(OverloadStates)]
    BY <2>1 DEF CountersMoved
  <2>3. QED
    BY <2>2 DEF AdmissionInv, CountersShape
<1>18. SlotsHeld' /\ ConnectionsAccounted'
  BY <1>15, <1>16 DEF SlotsHeld, ConnectionsAccounted, ActiveTasks, OpenTasks, Asks
<1>19. QED
  BY <1>5, <1>6, <1>7, <1>8, <1>17, <1>18 DEF AdmissionInv

(* A task that has started and not ended belongs to a listener that runs or   *)
(* drains.                                                                    *)
LEMMA LiveTask ==
    ASSUME AdmissionInv, NEW c \in Connections, conn[c].phase \notin {"idle", "done"}
    PROVE  listener.state \in {"running", "draining"}
BY DEF AdmissionInv, ListenerShape

(* Guards that fit go on to fit when the task holds the same as before.       *)
LEMMA HeldAlike ==
    ASSUME AdmissionInv, NEW c \in Connections, NEW r, conn' = [conn EXCEPT ![c] = r],
           AllFit(guards', conn), SameLimits(guards, guards'),
           r.lease = conn[c].lease, r.permit = conn[c].permit,
           r.lease # 0 => r.source = conn[c].source
    PROVE  GuardsMoved
<1>1. conn'[c] = r /\ \A d \in Connections \ {c} : conn'[d] = conn[d]
  BY DEF AdmissionInv, TasksInv
<1>2. PICK gs, ds : gs = guards' /\ ds = conn'
  OBVIOUS
<1>3. gs \in Seq(Range(gs)) /\ \A i \in 1..Len(gs) : Fits(gs[i], conn, i)
  BY <1>2 DEF AllFit
<1>4. ASSUME NEW i \in 1..Len(gs)
      PROVE  Fits(gs[i], ds, i)
  <2>1. Fits(gs[i], conn, i) /\ i # 0
    BY <1>3
  <2>2. \A d \in Connections : /\ (ds[d].lease = i) <=> (conn[d].lease = i)
                               /\ (ds[d].permit = i) <=> (conn[d].permit = i)
                               /\ conn[d].lease = i => ds[d].source = conn[d].source
    BY <1>1, <1>2, <2>1
  <2>3. QED
    BY <2>1, <2>2, SameHeld
<1>5. AllFit(gs, ds)
  BY <1>3, <1>4 DEF AllFit
<1>6. QED
  BY <1>2, <1>5 DEF GuardsMoved

(* A step that leaves the guards alone and what the task holds of them.       *)
LEMMA GuardsStay ==
    ASSUME AdmissionInv, NEW c \in Connections, NEW r, conn' = [conn EXCEPT ![c] = r],
           guards' = guards, r.lease = conn[c].lease, r.permit = conn[c].permit,
           r.lease # 0 => r.source = conn[c].source
    PROVE  GuardsMoved
<1>1. AllFit(guards, conn)
  BY GuardsShape
<1>2. SameLimits(guards, guards)
  BY DEF SameLimits
<1>3. QED
  BY Zenon, SMTT(20), <1>1, <1>2, HeldAlike

(* Counters that do not change, of a task whose slot and asking do not.       *)
LEMMA CountersStay ==
    ASSUME AdmissionInv, NEW c \in Connections, NEW r, counters' = counters,
           r.slot = conn[c].slot, Asks(r) <=> Asks(conn[c])
    PROVE  CountersMoved(conn[c], r)
<1>1. counters \in [accepted : Nat, active : Nat, shed : Nat, completed : Nat,
                    overload : Range(OverloadStates)]
  BY DEF AdmissionInv, CountersShape
<1>2. counters \in [accepted : Nat, active : Int, shed : Nat, completed : Nat,
                    overload : Range(OverloadStates)]
  BY <1>1
<1>3. Bit(Asks(r)) = Bit(Asks(conn[c])) /\ Bit(r.slot) = Bit(conn[c].slot)
  BY DEF Bit
<1>4. QED
  BY <1>2, <1>3 DEF CountersMoved
(* classify_state returns one of the four states.                             *)
LEMMA ClassifyStateType ==
    ASSUME NEW count
    PROVE  ClassifyState(count) \in Range(OverloadStates)
<1> DEFINE S == {i \in 1..3 : count >= Thresholds[i]}
<1>1. IsFiniteSet(1..3) /\ Cardinality(1..3) = 3
  <2>1. 1 \in Int /\ 3 \in Int
    OBVIOUS
  <2>2. IsFiniteSet(1..3) /\ Cardinality(1..3) = IF 1 > 3 THEN 0 ELSE 3 - 1 + 1
    BY Zenon, SMTT(20), <2>1, FS_Interval
  <2>3. QED
    BY <2>2
<1>2. IsFiniteSet(S) /\ Cardinality(S) <= 3
  BY <1>1, FS_Subset
<1>3. Cardinality(S) \in Nat
  BY <1>2, FS_CardinalityType
<1>4. PICK n \in 0..3 : n = Cardinality(S)
  BY <1>2, <1>3
<1>5. OverloadStates[1 + n] \in Range(OverloadStates)
  BY <1>4 DEF OverloadStates, Range
<1>6. QED
  BY <1>4, <1>5 DEF ClassifyState

(* A signal or an observation leaves the manager in one of its states, with   *)
(* the features of that state, and the state stored for the listener is one   *)
(* of the four.                                                               *)
LEMMA ManagerMoved ==
    ASSUME AdmissionInv, NEW shed \in BOOLEAN, NEW active
    PROVE  /\ manager' = ManagerAfter(shed) => ManagerShape'
           /\ OverloadSeen(active, shed) \in Range(OverloadStates)
<1>1. ManagerShape
  BY DEF AdmissionInv
<1>2. CASE manager = NoManager
  <2>1. OverloadSeen(active, shed) \in {"shedding", "normal"}
    BY <1>2 DEF OverloadSeen
  <2>2. OverloadSeen(active, shed) \in Range(OverloadStates)
    BY <2>1 DEF Range, OverloadStates
  <2>3. ManagerAfter(shed) = NoManager
    BY <1>2 DEF ManagerAfter
  <2>4. QED
    BY <2>2, <2>3 DEF ManagerShape
<1>3. CASE manager # NoManager /\ shed
  <2>1. PICK m : m = RecordSignal(manager, now, {"concurrency_limited"})
    OBVIOUS
  <2>2. PICK s, x : /\ s \in Range(OverloadStates)
                    /\ m = [state |-> s, samples |-> x, disabled |-> DisabledFor(s)]
    BY Zenon, SMTT(20), <2>1, ClassifyStateType DEF RecordSignal
  <2>3. OverloadSeen(active, shed) = m.state /\ ManagerAfter(shed) = m
    BY <1>3, <2>1 DEF OverloadSeen, ManagerAfter
  <2>4. /\ m.state = s
        /\ m = [state |-> m.state, samples |-> m.samples, disabled |-> DisabledFor(m.state)]
    BY <2>2
  <2>5. QED
    BY <2>2, <2>3, <2>4 DEF ManagerShape
<1>4. CASE manager # NoManager /\ ~shed
  <2>1. PICK x : x = Evicted(manager.samples, now)
    OBVIOUS
  <2>2. PICK m : m = [manager EXCEPT !.samples = x]
    BY Zenon, SMTT(20)
  <2>3. m = Observe(manager, now)
    BY <2>1, <2>2 DEF Observe
  <2>4. PICK s \in Range(OverloadStates) : s = manager.state
    BY <1>1, <1>4 DEF ManagerShape
  <2>5. manager = [state |-> s, samples |-> manager.samples, disabled |-> DisabledFor(s)]
    BY <1>1, <1>4, <2>4 DEF ManagerShape
  <2>6. m = [state |-> s, samples |-> x, disabled |-> DisabledFor(s)]
    BY <2>2, <2>5
  <2>7. OverloadSeen(active, shed) = m.state /\ ManagerAfter(shed) = m
    BY <1>4, <2>3 DEF OverloadSeen, ManagerAfter
  <2>8. /\ m.state = s
        /\ m = [state |-> m.state, samples |-> m.samples, disabled |-> DisabledFor(m.state)]
    BY <2>6
  <2>9. QED
    BY <2>4, <2>7, <2>8 DEF ManagerShape
<1>5. QED
  BY <1>2, <1>3, <1>4

(* The task of a connection as a record.                                      *)
LEMMA TaskShape ==
    ASSUME AdmissionInv, NEW c \in Connections
    PROVE  /\ DOMAIN conn = Connections
           /\ TaskRecord(conn[c], InForce) /\ TaskHolds(conn[c], listener.kind, listener.tls)
           /\ conn[c].slot \in BOOLEAN
           /\ "none" \notin Range(OverloadStates)
<1>1. DOMAIN conn = Connections
  BY DEF AdmissionInv, TasksInv
<1>2. TaskRecord(conn[c], InForce) /\ TaskHolds(conn[c], listener.kind, listener.tls)
  BY DEF AdmissionInv, TasksInv
<1>3. "none" \notin Range(OverloadStates)
  BY DEF Range, OverloadStates
<1>4. conn[c].slot \in BOOLEAN
  BY <1>2 DEF TaskHolds, HoldsSlot
<1>5. QED
  BY <1>1, <1>2, <1>3, <1>4

-----------------------------------------------------------------------------
(* The actions.  Accepting a connection starts its task.                      *)
LEMMA AcceptInv ==
    ASSUME AdmissionInv, NEW c \in Connections, Accept(c)
    PROVE  AdmissionInv'
<1>1. /\ DOMAIN conn = Connections
      /\ TaskRecord(conn[c], InForce) /\ TaskHolds(conn[c], listener.kind, listener.tls)
  BY TaskShape
<1>2. PICK p : p = FirstPhase
  OBVIOUS
<1>3. listener.kind \in {"public", "admin", "http3"}
  BY DEF AdmissionInv, ListenerShape
<1>4. /\ p \in {"preface", "source", "slot"}
      /\ p = "slot" <=> listener.kind = "http3"
  BY <1>2, <1>3 DEF FirstPhase
<1>5. PICK r : r = [conn[c] EXCEPT !.source = Peers[c], !.phase = p]
  OBVIOUS
<1>6. conn' = [conn EXCEPT ![c] = r]
  BY Zenon, SMTT(20), <1>1, <1>2, <1>5 DEF Accept
<1>7. conn[c].phase = "idle" /\ conn[c].lease = 0 /\ conn[c].permit = 0 /\ conn[c].slot = FALSE
      /\ conn[c].sync = "none"
  BY <1>1 DEF Accept, TaskHolds, LeasePhases, PermitPhases, HoldsSlot
<1>8. r = [phase |-> p, source |-> Peers[c], lease |-> 0, permit |-> 0, slot |-> FALSE,
           seen |-> conn[c].seen, sync |-> "none"]
  BY Zenon, SMTT(20), <1>1, <1>5, <1>7 DEF TaskRecord, TaskFields
<1>9. /\ r.phase = p /\ r.lease = 0 /\ r.permit = 0 /\ r.slot = FALSE /\ r.sync = "none"
      /\ TaskFields(r)
  BY <1>8 DEF TaskFields
<1>10. InForce \in Nat
  BY GuardsShape
<1>11. TaskRecord(r, InForce)
  BY <1>4, <1>9, <1>10 DEF TaskRecord, Phases
<1>12. TaskHolds(r, listener.kind, listener.tls)
  BY Zenon, SMTT(20), <1>4, <1>9 DEF TaskHolds, HoldsSlot, TcpPhases
<1>13. GuardsMoved
  <2>1. guards' = guards
    BY Zenon, SMTT(20) DEF Accept
  <2>2. r.lease = conn[c].lease /\ r.permit = conn[c].permit /\ (r.lease # 0 => r.source = conn[c].source)
    BY Zenon, SMTT(20), <1>7, <1>9
  <2>. QED
    BY Zenon, SMTT(20), <1>6, <2>1, <2>2, GuardsStay
<1>14. CountersMoved(conn[c], r)
  <2>1. counters \in [accepted : Nat, active : Nat, shed : Nat, completed : Nat,
                      overload : Range(OverloadStates)]
    BY DEF AdmissionInv, CountersShape
  <2>2. CASE listener.kind = "http3"
    <3>1. ~Asks(conn[c]) /\ Asks(r)
      BY <1>4, <1>7, <1>9, <2>2 DEF Asks
    <3>2. counters' = [counters EXCEPT !.accepted = @ + 1]
      BY <2>2 DEF Accept
    <3>3. QED
      BY <1>7, <1>9, <2>1, <3>1, <3>2 DEF CountersMoved, Bit
  <2>3. CASE listener.kind # "http3"
    <3>1. ~Asks(conn[c]) /\ ~Asks(r)
      BY <1>4, <1>7, <1>9, <2>3 DEF Asks
    <3>2. counters' = counters
      BY <2>3 DEF Accept
    <3>3. QED
      BY Zenon, SMTT(20), <1>7, <1>9, <3>1, <3>2, CountersStay
  <2>4. QED
    BY <2>2, <2>3
<1>15. /\ UNCHANGED <<listener, limit, policy, update>>
       /\ listener.state \in {"running", "draining"} /\ ManagerShape'
  BY DEF Accept, AdmissionInv, ManagerShape
<1>16. QED
  BY Zenon, SMTT(20), <1>6, <1>11, <1>12, <1>13, <1>14, <1>15, TaskMoved
(* A step of a task that changes neither guards nor counters nor what the     *)
(* task holds.                                                                *)
LEMMA QuietStep ==
    ASSUME AdmissionInv, NEW c \in Connections, NEW r, conn' = [conn EXCEPT ![c] = r],
           UNCHANGED <<listener, limit, counters, manager, policy, guards, update>>,
           conn[c].phase \notin {"idle", "done"},
           TaskRecord(r, InForce), TaskHolds(r, listener.kind, listener.tls),
           r.lease = conn[c].lease, r.permit = conn[c].permit,
           r.lease # 0 => r.source = conn[c].source,
           r.slot = conn[c].slot, Asks(r) <=> Asks(conn[c])
    PROVE  AdmissionInv'
<1>1. GuardsMoved
  BY Zenon, SMTT(20), GuardsStay
<1>2. CountersMoved(conn[c], r)
  BY CountersStay
<1>3. listener.state \in {"running", "draining"}
  BY LiveTask
<1>4. ManagerShape'
  BY SMTT(20), Zenon DEF AdmissionInv, ManagerShape
<1>5. QED
  BY Zenon, SMTT(20), <1>1, <1>2, <1>3, <1>4, TaskMoved

(* The same for a step that only moves the task to another phase.             *)
LEMMA MoveInv ==
    ASSUME AdmissionInv, NEW c \in Connections, NEW p \in Phases, Move(c, p),
           UNCHANGED <<listener, limit, counters, manager, policy, guards, update>>,
           conn[c].phase \notin {"idle", "done"}, conn[c].sync = "none", p # "cas",
           p \notin {"admitted", "shedding"},
           conn[c].lease # 0 => p \in LeasePhases,
           conn[c].lease # 0 /\ listener.kind = "http3" => p = "serving",
           listener.kind = "http3" => p \notin TcpPhases,
           conn[c].permit # 0 => p \in PermitPhases,
           conn[c].slot <=> \/ p \in {"admitted", "securing", "serving", "finished"}
                            \/ p = "source" /\ listener.kind = "http3",
           p = "slot" <=> conn[c].phase \in {"slot", "cas"}
    PROVE  AdmissionInv'
<1>1. /\ DOMAIN conn = Connections /\ conn[c].slot \in BOOLEAN
      /\ TaskRecord(conn[c], InForce) /\ TaskHolds(conn[c], listener.kind, listener.tls)
  BY TaskShape
<1>2. PICK r : r = [conn[c] EXCEPT !.phase = p]
  BY Zenon, SMTT(20)
<1>3. conn' = [conn EXCEPT ![c] = r]
  BY <1>1, <1>2 DEF Move
<1>4. /\ r.phase = p /\ r.source = conn[c].source /\ r.lease = conn[c].lease
      /\ r.permit = conn[c].permit /\ r.slot = conn[c].slot /\ r.sync = "none"
      /\ TaskFields(r)
  BY SMTT(20), Zenon, <1>1, <1>2 DEF TaskRecord, TaskFields
<1>5. TaskRecord(r, InForce)
  BY <1>1, <1>4 DEF TaskRecord
<1>6. r.slot = HoldsSlot(r, listener.kind)
  BY Zenon, SMTT(20), <1>1, <1>4 DEF HoldsSlot
<1>7. TaskHolds(r, listener.kind, listener.tls)
  BY Zenon, SMTT(20), <1>1, <1>4, <1>6 DEF TaskHolds
<1>8. Asks(r) <=> Asks(conn[c])
  BY <1>4 DEF Asks
<1>9. QED
  BY Zenon, SMTT(20), <1>3, <1>4, <1>5, <1>7, <1>8, QuietStep

(* Reading the PROXY preface ends the task or names the source; the task      *)
(* holds nothing yet.                                                         *)
LEMMA ReadPrefaceInv ==
    ASSUME AdmissionInv, NEW c \in Connections, NEW preface, ReadPreface(c, preface)
    PROVE  AdmissionInv'
<1>1. /\ DOMAIN conn = Connections /\ conn[c].slot \in BOOLEAN
      /\ TaskRecord(conn[c], InForce) /\ TaskHolds(conn[c], listener.kind, listener.tls)
  BY TaskShape
<1>2. PICK s : s = PrefaceSource(listener.mode, preface, Peers[c])
  OBVIOUS
<1>3. PICK r : r = IF s = "error" THEN [Idle EXCEPT !.phase = "done"]
                   ELSE [conn[c] EXCEPT !.source = s, !.phase = "source"]
  BY Zenon, SMTT(20)
<1>4. conn' = [conn EXCEPT ![c] = r]
  BY Zenon, SMTT(20), <1>1, <1>2, <1>3 DEF ReadPreface
<1>5. /\ conn[c].phase = "preface" /\ conn[c].lease = 0 /\ conn[c].permit = 0
      /\ conn[c].slot = FALSE /\ conn[c].sync = "none"
  BY <1>1 DEF ReadPreface, TaskHolds, LeasePhases, PermitPhases, HoldsSlot
<1>6. PICK p : p = IF s = "error" THEN "done" ELSE "source"
  OBVIOUS
<1>7. /\ r.phase = p /\ r.lease = 0 /\ r.permit = 0 /\ r.slot = FALSE /\ r.sync = "none"
      /\ TaskFields(r) /\ p \in {"done", "source"}
  <2>1. CASE s = "error"
    <3>1. r = [phase |-> "done", source |-> <<>>, lease |-> 0, permit |-> 0,
               slot |-> FALSE, seen |-> <<>>, sync |-> "none"]
      BY Zenon, SMTT(20), <1>3, <2>1 DEF Idle
    <3>2. QED
      BY <1>6, <2>1, <3>1 DEF TaskFields
  <2>2. CASE s # "error"
    <3>1. r = [phase |-> "source", source |-> s, lease |-> 0, permit |-> 0,
               slot |-> FALSE, seen |-> conn[c].seen, sync |-> "none"]
      BY Zenon, SMTT(20), <1>1, <1>3, <1>5, <2>2 DEF TaskRecord, TaskFields
    <3>2. QED
      BY <1>6, <2>2, <3>1 DEF TaskFields
  <2>3. QED
    BY Zenon, SMTT(20), <2>1, <2>2
<1>8. InForce \in Nat
  BY GuardsShape
<1>9. TaskRecord(r, InForce)
  BY <1>7, <1>8 DEF TaskRecord, Phases
<1>10. QED
  <2>1. CASE p = "source" /\ listener.kind = "http3"
    <3>1. FALSE
      BY <1>1, <1>5, <2>1 DEF TaskHolds, TcpPhases
    <3>2. QED
      BY SMTT(20), Zenon, <3>1
  <2>2. CASE p # "source" \/ listener.kind # "http3"
    <3>1. TaskHolds(r, listener.kind, listener.tls)
      BY Zenon, SMTT(20), <1>7, <2>2 DEF TaskHolds, HoldsSlot, TcpPhases
    <3>2. Asks(r) <=> Asks(conn[c])
      BY <1>5, <1>7 DEF Asks
    <3>3. QED
      BY Zenon, SMTT(20), <1>4, <1>5, <1>7, <1>9, <3>1, <3>2, QuietStep DEF ReadPreface
  <2>3. QED
    BY <2>1, <2>2
(* The rejection path holds nothing but the lock.                             *)
LEMMA SnapshotRejectionInv ==
    ASSUME AdmissionInv, NEW c \in Connections, SnapshotRejection(c)
    PROVE  AdmissionInv'
<1>1. TaskRecord(conn[c], InForce) /\ TaskHolds(conn[c], listener.kind, listener.tls) /\ conn[c].slot \in BOOLEAN
  BY TaskShape
<1>2. /\ conn[c].phase = "rejected" /\ conn[c].lease = 0 /\ conn[c].permit = 0 /\ ~conn[c].slot
      /\ conn[c].sync = "none" /\ listener.kind # "http3"
  BY <1>1 DEF SnapshotRejection, TaskHolds, LeasePhases, PermitPhases, TcpPhases, HoldsSlot
<1>3. "answering" \in Phases
  BY DEF Phases
<1>4. QED
  BY <1>2, <1>3, MoveInv DEF SnapshotRejection

(* Answering a rejected connection (the 429 or the close) holds nothing and   *)
(* gives nothing back.                                                        *)
LEMMA AnswerRejectionInv ==
    ASSUME AdmissionInv, NEW c \in Connections, AnswerRejection(c)
    PROVE  AdmissionInv'
<1>1. TaskRecord(conn[c], InForce) /\ TaskHolds(conn[c], listener.kind, listener.tls) /\ conn[c].slot \in BOOLEAN
  BY TaskShape
<1>2. /\ conn[c].phase = "answering" /\ conn[c].lease = 0 /\ conn[c].permit = 0 /\ ~conn[c].slot
      /\ conn[c].sync = "none"
  BY <1>1 DEF AnswerRejection, TaskHolds, LeasePhases, PermitPhases, HoldsSlot
<1>3. "done" \in Phases /\ "done" \notin TcpPhases
  BY DEF Phases, TcpPhases
<1>4. QED
  BY SMTT(20), Zenon, <1>2, <1>3, MoveInv DEF AnswerRejection

(* The two loads before the compare-and-exchange.                             *)
LEMMA LoadSlotInv ==
    ASSUME AdmissionInv, NEW c \in Connections, LoadSlot(c)
    PROVE  AdmissionInv'
<1>1. /\ DOMAIN conn = Connections /\ conn[c].slot \in BOOLEAN
      /\ TaskRecord(conn[c], InForce) /\ TaskHolds(conn[c], listener.kind, listener.tls)
  BY TaskShape
<1>2. PICK seen : seen = <<counters.active, limit>>
  BY Zenon, SMTT(20)
<1>3. seen[1] \in Nat /\ seen[2] \in Nat
  BY <1>2 DEF AdmissionInv, CountersShape
<1>4. PICK r : r = [conn[c] EXCEPT !.seen = seen, !.phase = "cas"]
  OBVIOUS
<1>5. conn' = [conn EXCEPT ![c] = r]
  BY Zenon, SMTT(20), <1>1, <1>2, <1>4 DEF LoadSlot
<1>6. conn[c].phase = "slot" /\ conn[c].slot = FALSE /\ conn[c].sync = "none"
  BY <1>1 DEF LoadSlot, TaskHolds, HoldsSlot
<1>7. /\ r.phase = "cas" /\ r.source = conn[c].source /\ r.lease = conn[c].lease
      /\ r.permit = conn[c].permit /\ r.slot = FALSE /\ r.sync = "none" /\ r.seen = seen
      /\ TaskFields(r)
  BY Zenon, SMTT(20), <1>1, <1>4, <1>6 DEF TaskRecord, TaskFields
<1>8. TaskRecord(r, InForce)
  BY <1>1, <1>7 DEF TaskRecord, Phases
<1>9. TaskHolds(r, listener.kind, listener.tls)
  BY Zenon, SMTT(20), <1>1, <1>3, <1>6, <1>7 DEF TaskHolds, HoldsSlot, TcpPhases, LeasePhases, PermitPhases
<1>10. Asks(r) <=> Asks(conn[c])
  BY <1>6, <1>7 DEF Asks
<1>11. QED
  BY Zenon, SMTT(20), <1>5, <1>6, <1>7, <1>8, <1>9, <1>10, QuietStep DEF LoadSlot

(* The verdict of the source quota.                                           *)
LEMMA AcquireSourceInv ==
    ASSUME AdmissionInv, NEW c \in Connections, AcquireSource(c)
    PROVE  AdmissionInv'
<1>1. /\ DOMAIN conn = Connections /\ conn[c].slot \in BOOLEAN
      /\ TaskRecord(conn[c], InForce) /\ TaskHolds(conn[c], listener.kind, listener.tls)
  BY TaskShape
<1>2. /\ conn[c].phase = "source" /\ conn[c].lease = 0 /\ conn[c].permit = 0 /\ conn[c].sync = "none"
      /\ conn[c].slot <=> listener.kind = "http3"
  BY <1>1 DEF AcquireSource, TaskHolds, LeasePhases, PermitPhases, HoldsSlot
<1>3. PICK key : key = SourceKey(conn[c].source)
  OBVIOUS
<1>4. PICK verdict : verdict = SourceVerdict(guards[InForce], key)
  OBVIOUS
<1>5. PICK p : p = IF listener.kind = "http3" THEN "serving" ELSE "handshake"
  OBVIOUS
<1>6. /\ p \in Phases /\ p \in LeasePhases /\ p \notin {"cas", "slot", "admitted", "shedding"}
      /\ p = "serving" <=> listener.kind = "http3"
      /\ listener.kind = "http3" => p \notin TcpPhases
      /\ p \notin {"securing", "finished", "source"}
  BY <1>5 DEF Phases, LeasePhases, TcpPhases
<1>7. CASE verdict = "unlimited"
  <2>1. guards' = guards /\ Move(c, p)
    BY <1>3, <1>4, <1>5, <1>7 DEF AcquireSource
  <2>2. QED
    BY Zenon, SMTT(20), <1>2, <1>6, <2>1, MoveInv DEF AcquireSource
<1>8. CASE verdict \notin {"unlimited", "leased"}
  <2>1. PICK q : q = IF listener.kind = "http3" THEN "finished" ELSE "rejected"
    OBVIOUS
  <2>2. /\ guards' = [guards EXCEPT ![InForce] = Rejected(guards[InForce], verdict)]
        /\ conn' = [conn EXCEPT ![c].phase = q]
    BY Zenon, SMTT(20), <1>3, <1>4, <1>8, <2>1 DEF AcquireSource, Move
  <2>3. PICK r : r = [conn[c] EXCEPT !.phase = q]
    BY Zenon, SMTT(20)
  <2>4. conn' = [conn EXCEPT ![c] = r]
    BY <1>1, <2>2, <2>3
  <2>5. /\ r.phase = q /\ r.source = conn[c].source /\ r.lease = 0
        /\ r.permit = 0 /\ r.slot = conn[c].slot /\ r.sync = "none"
        /\ TaskFields(r)
    BY <1>1, <1>2, <2>3 DEF TaskRecord, TaskFields
  <2>6. TaskRecord(r, InForce)
    BY SMTT(20), Zenon, <1>1, <1>2, <2>1, <2>5 DEF TaskRecord, Phases
  <2>7. TaskHolds(r, listener.kind, listener.tls)
    BY Zenon, SMTT(20), <1>1, <1>2, <2>1, <2>5 DEF TaskHolds, HoldsSlot, TcpPhases
  <2>8. CountersMoved(conn[c], r)
    <3>1. Asks(r) <=> Asks(conn[c])
      BY SMTT(20), Zenon, <1>2, <2>1, <2>5 DEF Asks
    <3>2. QED
      BY Zenon, SMTT(20), <2>5, <3>1, CountersStay DEF AcquireSource
  <2>9. GuardsMoved
    <3>1. PICK hs : hs = Replaced(guards, InForce, Rejected(guards[InForce], verdict))
      OBVIOUS
    <3>2. AllFit(guards, conn) /\ InForce \in 1..Len(guards) /\ guards \in Seq(Range(guards))
      BY GuardsShape DEF InForce
    <3>3. AllFit(hs, conn) /\ SameLimits(guards, hs)
      <4>1. verdict \in RejectionReasons
        BY <1>4, <1>8 DEF SourceVerdict, RejectionReasons
      <4>2. QED
        BY SMTT(20), Zenon, <3>1, <3>2, <4>1, GuardRejected
    <3>4. hs = guards'
      BY SMTT(20), Zenon, <2>2, <3>1 DEF Replaced
    <3>5. QED
      BY Zenon, SMTT(20), <1>2, <2>4, <2>5, <3>3, <3>4, HeldAlike
  <2>10. QED
    <3>1. listener.state \in {"running", "draining"}
      BY <1>2, LiveTask
    <3>2. ManagerShape' /\ UNCHANGED <<listener, limit, policy, update>>
      BY DEF AcquireSource, AdmissionInv, ManagerShape
    <3>3. QED
      BY Zenon, SMTT(20), <2>4, <2>6, <2>7, <2>8, <2>9, <3>1, <3>2, TaskMoved
<1>9. CASE verdict = "leased"
  <2>1. /\ guards' = [guards EXCEPT ![InForce] = Leased(guards[InForce], key)]
        /\ conn' = [conn EXCEPT ![c].lease = InForce, ![c].phase = p]
    BY <1>3, <1>4, <1>5, <1>9 DEF AcquireSource
  <2>2. PICK r : r = [conn[c] EXCEPT !.lease = InForce, !.phase = p]
    OBVIOUS
  <2>3. conn' = [conn EXCEPT ![c] = r]
    BY Zenon, SMTT(20), <1>1, <2>1, <2>2
  <2>4. /\ r.phase = p /\ r.source = conn[c].source /\ r.lease = InForce
        /\ r.permit = 0 /\ r.slot = conn[c].slot /\ r.sync = "none"
        /\ TaskFields(r)
    BY Zenon, SMTT(20), <1>1, <1>2, <2>2 DEF TaskRecord, TaskFields
  <2>5. InForce \in Nat /\ InForce > 0 /\ InForce \in 1..InForce /\ guards \in Seq(Range(guards))
        /\ AllFit(guards, conn)
    BY SMTT(20), Zenon, GuardsShape
  <2>6. TaskRecord(r, InForce)
    BY SMTT(20), Zenon, <1>1, <1>6, <2>4, <2>5 DEF TaskRecord
  <2>7. TaskHolds(r, listener.kind, listener.tls)
    BY Zenon, SMTT(20), <1>1, <1>2, <1>6, <2>4 DEF TaskHolds, HoldsSlot
  <2>8. CountersMoved(conn[c], r)
    <3>1. Asks(r) <=> Asks(conn[c])
      BY SMTT(20), Zenon, <1>2, <1>6, <2>4 DEF Asks
    <3>2. QED
      BY Zenon, SMTT(20), <2>4, <3>1, CountersStay DEF AcquireSource
  <2>9. GuardsMoved
    <3>1. PICK n, g : n = InForce /\ g = guards[InForce]
      BY SMTT(20), Zenon
    <3>2. /\ guards' \in Seq(Range(guards')) /\ Len(guards') = n /\ guards'[n] = Leased(g, key)
          /\ \A j \in 1..n : j # n => guards'[j] = guards[j]
      <4>1. PICK hs, h : hs = guards' /\ h = Leased(g, key)
        OBVIOUS
      <4>2. n \in 1..Len(guards) /\ hs = Replaced(guards, n, h)
        BY <2>1, <2>5, <3>1, <4>1 DEF InForce, Replaced
      <4>3. QED
        BY <2>5, <3>1, <4>1, <4>2, GuardReplaced DEF InForce
    <3>3. conn'[c] = r /\ \A d \in Connections \ {c} : conn'[d] = conn[d]
      BY SMTT(20), Zenon, <1>1, <2>3
    <3>4. /\ Fits(Leased(g, key), conn', n)
          /\ Leased(g, key).quota = g.quota /\ Leased(g, key).handshakes = g.handshakes
      <4>1. PICK ds : ds = conn'
        BY SMTT(20), Zenon
      <4>2. /\ conn[c].lease # n /\ ds[c].lease = n /\ SourceKey(ds[c].source) = key
            /\ (ds[c].permit = n) <=> (conn[c].permit = n)
            /\ \A d \in Connections \ {c} : ds[d] = conn[d]
        BY SMTT(20), Zenon, <1>2, <1>3, <2>4, <2>5, <3>1, <3>3, <4>1
      <4>3. Fits(g, conn, n) /\ SourceVerdict(g, key) = "leased"
        BY Zenon, SMTT(20), <1>4, <1>9, <2>5, <3>1 DEF AllFit, InForce
      <4>4. QED
        BY <4>1, <4>2, <4>3, LeaseGranted
    <3>5. ASSUME NEW j \in 1..n, j # n
          PROVE  Fits(guards[j], conn', j)
      <4>1. PICK ds : ds = conn'
        OBVIOUS
      <4>2. Fits(guards[j], conn, j) /\ j # 0
        BY SMTT(20), Zenon, <2>5, <3>1 DEF AllFit, InForce
      <4>3. \A d \in Connections : /\ (ds[d].lease = j) <=> (conn[d].lease = j)
                                   /\ (ds[d].permit = j) <=> (conn[d].permit = j)
                                   /\ conn[d].lease = j => ds[d].source = conn[d].source
        BY SMTT(20), Zenon, <1>2, <2>4, <3>1, <3>3, <3>5, <4>1, <4>2
      <4>4. QED
        BY <4>1, <4>2, <4>3, SameHeld
    <3>6. QED
      BY <3>1, <3>2, <3>4, <3>5 DEF GuardsMoved, AllFit, SameLimits, InForce
  <2>10. QED
    <3>1. listener.state \in {"running", "draining"}
      BY <1>2, LiveTask
    <3>2. ManagerShape' /\ UNCHANGED <<listener, limit, policy, update>>
      BY DEF AcquireSource, AdmissionInv, ManagerShape
    <3>3. QED
      BY Zenon, SMTT(20), <2>3, <2>6, <2>7, <2>8, <2>9, <3>1, <3>2, TaskMoved
<1>10. QED
  BY <1>7, <1>8, <1>9
(* The verdict of the handshake guard: a rejected task drops its lease, an    *)
(* admitted one is counted as accepted and asks for a slot.                   *)
LEMMA AcquireHandshakeInv ==
    ASSUME AdmissionInv, NEW c \in Connections, AcquireHandshake(c)
    PROVE  AdmissionInv'
<1>1. /\ DOMAIN conn = Connections /\ conn[c].slot \in BOOLEAN
      /\ TaskRecord(conn[c], InForce) /\ TaskHolds(conn[c], listener.kind, listener.tls)
  BY TaskShape
<1>2. /\ conn[c].phase = "handshake" /\ conn[c].permit = 0 /\ conn[c].slot = FALSE
      /\ conn[c].sync = "none" /\ listener.kind # "http3"
  BY <1>1 DEF AcquireHandshake, TaskHolds, PermitPhases, TcpPhases, HoldsSlot
<1>3. /\ InForce \in Nat /\ InForce > 0 /\ InForce \in 1..InForce /\ guards \in Seq(Range(guards))
      /\ AllFit(guards, conn) /\ InForce = Len(guards)
  BY GuardsShape DEF InForce
<1>4. PICK g : g = guards[InForce]
  OBVIOUS
<1>5. /\ listener.state \in {"running", "draining"}
      /\ ManagerShape' /\ UNCHANGED <<listener, limit, policy, update>>
  BY Zenon, SMTT(20), <1>2, LiveTask DEF AcquireHandshake, AdmissionInv, ManagerShape
<1>6. Fits(g, conn, InForce)
  BY <1>3, <1>4 DEF AllFit
<1>7. g.handshakes \in Nat /\ g.inflight \in Nat
  BY <1>6, HeldFinite DEF Fits, GuardRecord, Counted
<1>8. CASE g.handshakes > 0 /\ g.inflight >= g.handshakes
  <2>1. /\ guards' = [DropLease(guards, c) EXCEPT ![InForce] = Rejected(@, "handshake_limit_reached")]
        /\ conn' = [conn EXCEPT ![c].lease = 0, ![c].phase = "rejected"]
        /\ counters' = counters
    BY <1>4, <1>7, <1>8 DEF AcquireHandshake
  <2>2. PICK r : r = [conn[c] EXCEPT !.lease = 0, !.phase = "rejected"]
    OBVIOUS
  <2>3. conn' = [conn EXCEPT ![c] = r]
    BY Zenon, SMTT(20), <1>1, <2>1, <2>2
  <2>4. /\ r.phase = "rejected" /\ r.lease = 0 /\ r.permit = 0 /\ r.slot = FALSE /\ r.sync = "none"
        /\ TaskFields(r)
    BY Zenon, SMTT(20), <1>1, <1>2, <2>2 DEF TaskRecord, TaskFields
  <2>5. TaskRecord(r, InForce)
    BY <1>3, <2>4 DEF TaskRecord, Phases
  <2>6. TaskHolds(r, listener.kind, listener.tls)
    BY Zenon, SMTT(20), <1>2, <2>4 DEF TaskHolds, HoldsSlot
  <2>7. CountersMoved(conn[c], r)
    <3>1. Asks(r) <=> Asks(conn[c])
      BY <1>2, <2>4 DEF Asks
    <3>2. QED
      BY Zenon, SMTT(20), <1>2, <2>1, <2>4, <3>1, CountersStay
  <2>8. GuardsMoved
    <3>1. PICK ds, gs : ds = conn' /\ gs = DropLease(guards, c)
      OBVIOUS
    <3>2. ds[c] = r /\ \A d \in Connections \ {c} : ds[d] = conn[d]
      BY SMTT(20), Zenon, <1>1, <2>3, <3>1
    <3>3. conn[c].lease \in 0..Len(guards)
      BY Zenon, SMTT(20), <1>1, <1>3 DEF TaskRecord, TaskFields
    <3>4. AllFit(gs, ds) /\ SameLimits(guards, gs)
      BY SMTT(20), Zenon, <1>2, <1>3, <2>4, <3>1, <3>2, <3>3, LeaseDropped
    <3>5. PICK hs : hs = Replaced(gs, InForce, Rejected(gs[InForce], "handshake_limit_reached"))
      OBVIOUS
    <3>6. InForce \in 1..Len(gs)
      BY <1>3, <3>4 DEF SameLimits
    <3>7. AllFit(hs, ds) /\ SameLimits(gs, hs)
      <4>1. "handshake_limit_reached" \in RejectionReasons
        BY DEF RejectionReasons
      <4>2. QED
        BY SMTT(20), Zenon, <3>4, <3>5, <3>6, <4>1, GuardRejected
    <3>8. guards' = hs
      BY <2>1, <3>1, <3>5 DEF Replaced
    <3>9. SameLimits(guards, hs)
      BY SMTT(20), Zenon, <3>4, <3>7 DEF SameLimits
    <3>10. QED
      BY <3>1, <3>7, <3>8, <3>9 DEF GuardsMoved
  <2>9. QED
    BY Zenon, SMTT(20), <1>5, <2>3, <2>5, <2>6, <2>7, <2>8, TaskMoved
<1>9. CASE g.handshakes = 0 \/ g.inflight < g.handshakes
  <2>1. PICK keeps : keeps = (g.handshakes > 0 /\ listener.tls)
    OBVIOUS
  <2>2. PICK m : m = IF keeps THEN InForce ELSE 0
    OBVIOUS
  <2>3. /\ guards' = IF keeps THEN [guards EXCEPT ![InForce].inflight = @ + 1] ELSE guards
        /\ conn' = [conn EXCEPT ![c].permit = m, ![c].phase = "slot"]
        /\ counters' = [counters EXCEPT !.accepted = @ + 1]
    <3>1. ~(g.handshakes > 0 /\ g.inflight >= g.handshakes)
      BY <1>7, <1>9
    <3>2. QED
      BY Zenon, SMTT(20), <1>4, <2>1, <2>2, <3>1 DEF AcquireHandshake
  <2>4. PICK r : r = [conn[c] EXCEPT !.permit = m, !.phase = "slot"]
    OBVIOUS
  <2>5. conn' = [conn EXCEPT ![c] = r]
    BY Zenon, SMTT(20), <1>1, <2>3, <2>4
  <2>6. /\ r.phase = "slot" /\ r.lease = conn[c].lease /\ r.permit = m /\ r.slot = FALSE
        /\ r.sync = "none" /\ r.source = conn[c].source
        /\ TaskFields(r)
    BY Zenon, SMTT(20), <1>1, <1>2, <2>4 DEF TaskRecord, TaskFields
  <2>7. TaskRecord(r, InForce)
    BY <1>1, <1>3, <2>2, <2>6 DEF TaskRecord, Phases
  <2>8. TaskHolds(r, listener.kind, listener.tls)
    BY Zenon, SMTT(20), <1>2, <2>1, <2>2, <2>6 DEF TaskHolds, HoldsSlot, LeasePhases, PermitPhases
  <2>9. CountersMoved(conn[c], r)
    <3>1. Asks(r) /\ ~Asks(conn[c])
      BY <1>2, <2>6 DEF Asks
    <3>2. counters \in [accepted : Nat, active : Nat, shed : Nat, completed : Nat,
                        overload : Range(OverloadStates)]
      BY DEF AdmissionInv, CountersShape
    <3>3. QED
      BY <1>2, <2>3, <2>6, <3>1, <3>2 DEF CountersMoved, Bit
  <2>10. GuardsMoved
    <3>1. CASE ~keeps
      <4>1. guards' = guards /\ r.lease = conn[c].lease /\ r.permit = conn[c].permit
        BY <1>2, <2>2, <2>3, <2>6, <3>1
      <4>2. QED
        BY Zenon, SMTT(20), <2>5, <2>6, <4>1, GuardsStay
    <3>2. CASE keeps
      <4>1. PICK n, h : n = InForce /\ h = [g EXCEPT !.inflight = @ + 1]
        BY Zenon, SMTT(20)
      <4>2. PICK ds, hs : ds = conn' /\ hs = guards'
        OBVIOUS
      <4>3. hs = Replaced(guards, n, h) /\ n \in 1..Len(guards) /\ n # 0
        BY SMTT(20), Zenon, <1>3, <1>4, <2>3, <3>2, <4>1, <4>2 DEF Replaced
      <4>4. /\ hs \in Seq(Range(hs)) /\ Len(hs) = n /\ hs[n] = h
            /\ \A j \in 1..n : j # n => hs[j] = guards[j]
        BY <1>3, <4>1, <4>3, GuardReplaced
      <4>5. ds[c] = r /\ \A d \in Connections \ {c} : ds[d] = conn[d]
        BY <1>1, <2>5, <4>2
      <4>6. Fits(h, ds, n) /\ h.quota = g.quota /\ h.handshakes = g.handshakes
        <5>1. /\ \A d \in Connections : (ds[d].lease = n) <=> (conn[d].lease = n)
              /\ \A d \in Connections : conn[d].lease = n => ds[d].source = conn[d].source
              /\ conn[c].permit # n /\ ds[c].permit = n
          BY SMTT(20), Zenon, <1>2, <2>2, <2>6, <3>2, <4>1, <4>3, <4>5
        <5>2. g.inflight < g.handshakes /\ Fits(g, conn, n)
          <6>1. g.handshakes > 0
            BY Zenon, SMTT(20), <2>1, <3>2
          <6>2. g.handshakes # 0
            BY <6>1
          <6>3. QED
            BY <1>6, <1>9, <4>1, <6>2
        <5>3. QED
          BY SMTT(20), Zenon, <4>1, <4>5, <5>1, <5>2, PermitCounted
      <4>7. ASSUME NEW j \in 1..n, j # n
            PROVE  Fits(guards[j], ds, j)
        <5>1. Fits(guards[j], conn, j) /\ j # 0
          BY <1>3, <4>1 DEF AllFit
        <5>2. \A d \in Connections : /\ (ds[d].lease = j) <=> (conn[d].lease = j)
                                     /\ (ds[d].permit = j) <=> (conn[d].permit = j)
                                     /\ conn[d].lease = j => ds[d].source = conn[d].source
          BY SMTT(20), Zenon, <1>2, <2>2, <2>6, <3>2, <4>1, <4>5, <4>7, <5>1
        <5>3. QED
          BY <5>1, <5>2, SameHeld
      <4>8. AllFit(hs, ds) /\ SameLimits(guards, hs)
        BY Zenon, SMTT(20), <1>3, <1>4, <4>1, <4>4, <4>6, <4>7 DEF AllFit, SameLimits
      <4>9. QED
        BY <4>2, <4>8 DEF GuardsMoved
    <3>3. QED
      BY <2>1, <3>1, <3>2
  <2>11. QED
    BY Zenon, SMTT(20), <1>5, <2>5, <2>7, <2>8, <2>9, <2>10, TaskMoved
<1>10. QED
  BY <1>7, <1>8, <1>9
=============================================================================

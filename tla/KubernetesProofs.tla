-------------------------- MODULE KubernetesProofs --------------------------
(***************************************************************************)
(* The Kubernetes side of the balancer: the controller's lease, for every  *)
(* number of replicas and all lease timings that its configuration admits  *)
(* (WritesFenced), and endpoint discovery, for every set of sources and    *)
(* ids, all grace periods and every sequence of snapshots (DiscoverySound).*)
(***************************************************************************)
EXTENDS Leadership, Discovery, WellFoundedInduction, TLAPS

----------------------------------------------------------------------------
(* The lease.                                                              *)

(* What each replica's pending read and pending update say about the       *)
(* lease: a read that would confirm r is still true of the lease; only an  *)
(* expired lease is acquired; only one's own lease is renewed or released; *)
(* and a confirmed leader holds a lease that nobody may acquire yet.       *)
ReadsHold ==
    \A r \in Replicas :
        (observed[r] # NoLease /\ observed[r].holder = r /\ observed[r].age <= RenewDeadline)
            => (lease.holder = r /\ lease.age <= observed[r].age)

UpdatesJustified ==
    \A r \in Replicas :
        /\ action[r] \in {"acquire", "renew", "release"} =>
              observed[r] = NoLease /\ against[r] # NoLease
        /\ action[r] = "acquire" => IsExpired(against[r])
        /\ action[r] \in {"renew", "release"} => against[r].holder = r
        /\ action[r] = "release" => state[r] = "relinquishing"

ConfirmedHold ==
    \A r \in Replicas :
        Confirmed(r) => (lease.holder = r /\ lease.age <= since[r] + RenewDeadline)

IInv == TypeOK /\ ReadsHold /\ UpdatesJustified /\ ConfirmedHold

(* The inductive invariant holds before any replica has read the lease.    *)
THEOREM Initially == Init => IInv
<1> SUFFICES ASSUME Init PROVE IInv
    OBVIOUS
<1> USE DEF Init
<1>1. TypeOK
  BY TimingAssumption, IdentityAssumption DEF TypeOK, LeaseRecord, Ages, MaxAge, TimingAssumption
<1>2. ReadsHold /\ UpdatesJustified
  BY DEF ReadsHold, UpdatesJustified
<1>3. ConfirmedHold
  BY DEF ConfirmedHold, Confirmed
<1> QED BY <1>1, <1>2, <1>3 DEF IInv

(* Ages only grow, and a lease that has expired stays expired.             *)
LEMMA AgesGrow ==
    ASSUME NEW a \in Ages PROVE Older(a) \in Ages /\ a <= Older(a) /\ Older(a) <= a + 1
                               /\ (Older(a) = a + 1 \/ a = MaxAge)
BY TimingAssumption DEF Older, Ages, MaxAge, TimingAssumption

(* Ages are numbers, and ageing keeps their order.                         *)
LEMMA AgesOrdered ==
    ASSUME NEW a \in Ages, NEW b \in Ages
    PROVE a \in Nat /\ Older(a) \in Nat /\ (a <= b => Older(a) <= Older(b))
BY TimingAssumption DEF Older, Ages, MaxAge, TimingAssumption

(* The passing of time keeps a lease a lease, with its holder.             *)
LEMMA AgedLease ==
    ASSUME NEW l \in LeaseRecord
    PROVE /\ Aged(l) \in LeaseRecord /\ Aged(l) # NoLease
          /\ Aged(l).holder = l.holder /\ Aged(l).age = Older(l.age)
          /\ IsExpired(l) => IsExpired(Aged(l))
<1>1. l # NoLease
  BY IdentityAssumption DEF IdentityAssumption
<1>2. Aged(l) = [l EXCEPT !.age = Older(l.age)]
  BY <1>1 DEF Aged
<1>3. l.age \in Ages /\ Older(l.age) \in Ages /\ l.age <= Older(l.age)
  BY AgesGrow DEF LeaseRecord
<1>4. /\ Aged(l) \in LeaseRecord
      /\ Aged(l).holder = l.holder /\ Aged(l).age = Older(l.age)
  BY <1>2, <1>3 DEF LeaseRecord
<1>5. Aged(l) # NoLease
  BY <1>4, IdentityAssumption DEF IdentityAssumption
<1>6. IsExpired(l) => IsExpired(Aged(l))
  BY <1>3, <1>4, TimingAssumption DEF IsExpired, Ages, MaxAge, TimingAssumption
<1> QED BY <1>4, <1>5, <1>6

(* Nothing read stays nothing read.                                        *)
LEMMA AgedNothing == Aged(NoLease) = NoLease
BY DEF Aged

(* Every variable keeps its type.                                          *)
THEOREM TypeCorrect == Spec => []TypeOK
<1>1. Init => TypeOK
  BY Initially DEF IInv
<1>2. TypeOK /\ [Next]_vars => TypeOK'
  <2> SUFFICES ASSUME TypeOK, [Next]_vars PROVE TypeOK'
      OBVIOUS
  <2> USE DEF TypeOK
  <2>1. ASSUME NEW r \in Replicas, ReadLease(r) PROVE TypeOK'
    BY <2>1 DEF ReadLease
  <2>2. ASSUME NEW r \in Replicas, Evaluate(r) PROVE TypeOK'
    <3>1. Verdict(r, observed[r])[1] \in {"starting", "follower", "leader", "lost"}
      BY DEF Verdict
    <3>2. Verdict(r, observed[r])[2] \in {"acquire", "renew", "standby", "fence"}
      BY DEF Verdict
    <3>3. 0 \in Ages
      BY TimingAssumption DEF Ages, MaxAge, TimingAssumption
    <3> QED BY <2>2, <3>1, <3>2, <3>3 DEF Evaluate
  <2>3. ASSUME NEW r \in Replicas, WriteLease(r) PROVE TypeOK'
    <3>1. 0 \in Ages
      BY TimingAssumption DEF Ages, MaxAge, TimingAssumption
    <3>2. lease' \in LeaseRecord
      BY <2>3, <3>1 DEF WriteLease, LeaseRecord
    <3> QED BY <2>3, <3>1, <3>2 DEF WriteLease, BecomeLeader
  <2>4. ASSUME NEW r \in Replicas, BeginRelinquish(r) PROVE TypeOK'
    BY <2>4 DEF BeginRelinquish
  <2>5. ASSUME Tick PROVE TypeOK'
    <3>1. \A r \in Replicas : Aged(observed[r]) \in LeaseRecord \cup {NoLease}
                            /\ Aged(against[r]) \in LeaseRecord \cup {NoLease}
      BY AgedLease, AgedNothing
    <3>2. Aged(lease) \in LeaseRecord
      BY AgedLease
    <3>3. \A r \in Replicas : Older(since[r]) \in Ages
      BY AgesGrow
    <3> QED BY <2>5, <3>1, <3>2, <3>3 DEF Tick
  <2>6. CASE UNCHANGED vars
    BY <2>6 DEF vars
  <2> QED BY <2>1, <2>2, <2>3, <2>4, <2>5, <2>6 DEF Next, Step
<1> QED BY <1>1, <1>2, PTL DEF Spec

(* IInv is inductive: each action in turn.                                 *)
LEMMA Inductive == IInv /\ TypeOK' /\ [Next]_vars => IInv'
<1> SUFFICES ASSUME IInv, TypeOK', [Next]_vars
             PROVE ReadsHold' /\ UpdatesJustified' /\ ConfirmedHold'
    BY DEF IInv
<1> USE DEF IInv
<1>lease. lease \in LeaseRecord /\ lease # NoLease /\ lease.age \in Ages
  BY IdentityAssumption DEF TypeOK, LeaseRecord, IdentityAssumption
<1>ages. Ages \subseteq Nat /\ LeaseDuration \in Nat /\ RenewDeadline \in Nat
         /\ RenewDeadline < LeaseDuration
  BY TimingAssumption DEF Ages, MaxAge, TimingAssumption
<1>1. ASSUME NEW r \in Replicas, ReadLease(r)
      PROVE ReadsHold' /\ UpdatesJustified' /\ ConfirmedHold'
  <2> USE <1>1 DEF ReadLease, TypeOK
  <2>1. ReadsHold'
    <3>1. lease.age \in Nat /\ lease.age <= lease.age
      BY <1>lease, AgesOrdered
    <3> QED BY <3>1, <1>lease DEF ReadsHold
  <2>2. UpdatesJustified'
    BY Zenon, SMTT(20) DEF UpdatesJustified, IsExpired
  <2>3. ConfirmedHold'
    BY DEF ConfirmedHold, Confirmed
  <2> QED BY <2>1, <2>2, <2>3
<1>2. ASSUME NEW r \in Replicas, Evaluate(r)
      PROVE ReadsHold' /\ UpdatesJustified' /\ ConfirmedHold'
  <2> DEFINE v == Verdict(r, observed[r])
  <2>1. /\ v[1] = "leader" \/ v[2] = "renew" =>
              observed[r].holder = r /\ observed[r].age <= RenewDeadline
        /\ v[2] = "renew" => v[1] = "leader"
        /\ v[2] = "acquire" => IsExpired(observed[r])
        /\ v[2] # "release"
    <3>1. observed[r] # NoLease /\ observed[r].age \in Ages
      BY Zenon, SMTT(20), <1>2 DEF Evaluate, TypeOK, LeaseRecord
    <3>2. observed[r].age \in Nat
      BY <3>1, AgesOrdered
    <3> QED BY <3>2, <1>ages DEF Verdict
  <2>2. /\ state' = [state EXCEPT ![r] = v[1]]
        /\ action' = [action EXCEPT ![r] = v[2]]
        /\ since' = [since EXCEPT ![r] = IF v[1] = "leader" THEN 0 ELSE @]
        /\ against' = [against EXCEPT ![r] = observed[r]]
        /\ observed' = [observed EXCEPT ![r] = NoLease]
        /\ lease' = lease /\ observed[r] # NoLease
    BY <1>2 DEF Evaluate
  <2> HIDE DEF v
  <2>3. ReadsHold'
    BY Zenon, SMTT(20), <2>2 DEF ReadsHold, TypeOK
  <2>4. UpdatesJustified'
    BY <2>1, <2>2 DEF UpdatesJustified, TypeOK, IsExpired
  <2>5. ConfirmedHold'
    <3> SUFFICES ASSUME NEW q \in Replicas, Confirmed(q)'
                 PROVE lease'.holder = q /\ lease'.age <= since'[q] + RenewDeadline
        BY DEF ConfirmedHold
    <3>1. CASE q = r
      <4>1. v[1] = "leader" /\ since'[q] = 0
        BY <2>2, <3>1 DEF TypeOK, Confirmed
      <4>2. lease.holder = r /\ lease.age <= observed[r].age /\ observed[r].age <= RenewDeadline
        BY Zenon, SMTT(20), <2>1, <2>2, <4>1 DEF ReadsHold
      <4>3. observed[r].age \in Nat /\ lease.age \in Nat
        BY Zenon, SMTT(20), <2>2, <1>ages, <1>lease DEF TypeOK, LeaseRecord
      <4> QED BY <2>2, <3>1, <4>1, <4>2, <4>3, <1>ages
    <3>2. CASE q # r
      BY <2>2, <3>2 DEF TypeOK, Confirmed, ConfirmedHold
    <3> QED BY <3>1, <3>2
  <2> QED BY <2>3, <2>4, <2>5
<1>3. ASSUME NEW r \in Replicas, WriteLease(r)
      PROVE ReadsHold' /\ UpdatesJustified' /\ ConfirmedHold'
  <2> USE <1>3
  <2>0. /\ action[r] \in {"acquire", "renew", "release"}
        /\ action' = [action EXCEPT ![r] = "standby"]
        /\ against' = [against EXCEPT ![r] = NoLease]
        /\ observed' = observed
        /\ observed[r] = NoLease
    BY DEF WriteLease, UpdatesJustified
  <2>1. UpdatesJustified'
    <3>1. \A q \in Replicas \ {r} : state'[q] = state[q]
      BY DEF WriteLease, TypeOK
    <3> QED BY <2>0, <3>1 DEF UpdatesJustified, TypeOK, IsExpired
  <2>2. CASE lease # against[r]
    <3>1. lease' = lease /\ state' = state /\ since' = since
      BY <2>2 DEF WriteLease
    <3> QED BY <2>0, <2>1, <3>1 DEF ReadsHold, ConfirmedHold, Confirmed
  <2>3. CASE lease = against[r] /\ action[r] = "acquire"
    <3>1. /\ lease' = [holder |-> r, age |-> 0]
          /\ state' = [state EXCEPT ![r] = "leader"]
          /\ since' = [since EXCEPT ![r] = 0]
      BY <2>3 DEF WriteLease, BecomeLeader
    <3>2. IsExpired(lease)
      BY <2>3 DEF UpdatesJustified
    <3>3. \A q \in Replicas : ~(lease.holder = q /\ lease.age <= LeaseDuration)
      <4>1. lease.age \in Nat
        BY <1>lease, AgesOrdered
      <4> QED BY <3>2, <4>1, <1>ages, IdentityAssumption DEF IsExpired, IdentityAssumption
    <3>4. ReadsHold'
      <4> SUFFICES ASSUME NEW q \in Replicas, observed[q] # NoLease, observed[q].holder = q,
                          observed[q].age <= RenewDeadline
                   PROVE FALSE
          BY Zenon, SMTT(20), <2>0, <3>1 DEF ReadsHold
      <4>1. lease.holder = q /\ lease.age <= observed[q].age
        BY DEF ReadsHold
      <4>2. observed[q].age \in Nat /\ lease.age \in Nat
        BY Zenon, SMTT(20), <1>ages, <1>lease DEF TypeOK, LeaseRecord
      <4> QED BY <4>1, <4>2, <3>3, <1>ages
    <3>5. ConfirmedHold'
      <4> SUFFICES ASSUME NEW q \in Replicas, Confirmed(q)'
                   PROVE lease'.holder = q /\ lease'.age <= since'[q] + RenewDeadline
          BY DEF ConfirmedHold
      <4>1. CASE q = r
        BY <3>1, <4>1, <1>ages DEF TypeOK
      <4>2. CASE q # r
        <5>1. Confirmed(q) /\ since[q] \in Nat
          BY Zenon, SMTT(20), <3>1, <4>2, <1>ages DEF TypeOK, Confirmed
        <5>2. lease.holder = q /\ lease.age <= since[q] + RenewDeadline
          BY <5>1 DEF ConfirmedHold
        <5>3. since[q] <= LeaseDuration - RenewDeadline
          BY <5>1 DEF Confirmed
        <5>4. lease.age \in Nat
          BY Zenon, SMTT(20), <1>ages, <1>lease
        <5> QED BY <5>1, <5>2, <5>3, <5>4, <3>3, <1>ages
      <4> QED BY <4>1, <4>2
    <3> QED BY <2>1, <3>4, <3>5
  <2>4. CASE lease = against[r] /\ action[r] # "acquire"
    <3>1. /\ lease'.age = 0 /\ lease'.holder = IF action[r] = "release" THEN Nobody ELSE r
          /\ state' = state /\ since' = since
      BY <2>4 DEF WriteLease
    <3>2. lease.holder = r /\ (action[r] = "release" => state[r] = "relinquishing")
      BY <2>0, <2>4 DEF UpdatesJustified
    <3>3. ReadsHold'
      <4> SUFFICES ASSUME NEW q \in Replicas, observed[q] # NoLease, observed[q].holder = q,
                          observed[q].age <= RenewDeadline
                   PROVE lease'.holder = q /\ lease'.age <= observed[q].age
          BY <2>0 DEF ReadsHold
      <4>1. lease.holder = q
        BY DEF ReadsHold
      <4>2. q = r
        BY <4>1, <3>2
      <4> QED BY <4>2, <2>0
    <3>4. ConfirmedHold'
      <4> SUFFICES ASSUME NEW q \in Replicas, Confirmed(q)'
                   PROVE lease'.holder = q /\ lease'.age <= since'[q] + RenewDeadline
          BY DEF ConfirmedHold
      <4>1. Confirmed(q) /\ state[q] = "leader"
        BY <3>1 DEF Confirmed
      <4>2. q = r
        BY <4>1, <3>2 DEF ConfirmedHold
      <4>3. action[r] # "release" /\ since[q] \in Nat
        BY Zenon, SMTT(20), <4>1, <4>2, <3>2, <1>ages DEF TypeOK
      <4> QED BY <4>2, <4>3, <3>1, <1>ages
    <3> QED BY <2>1, <3>3, <3>4
  <2> QED BY <2>2, <2>3, <2>4
<1>4. ASSUME NEW r \in Replicas, BeginRelinquish(r)
      PROVE ReadsHold' /\ UpdatesJustified' /\ ConfirmedHold'
  <2> USE <1>4 DEF BeginRelinquish, TypeOK
  <2>1. ReadsHold'
    BY DEF ReadsHold
  <2>2. UpdatesJustified'
    BY <1>lease DEF UpdatesJustified, IsExpired
  <2>3. ConfirmedHold'
    BY DEF ConfirmedHold, Confirmed
  <2> QED BY <2>1, <2>2, <2>3
<1>5. ASSUME Tick PROVE ReadsHold' /\ UpdatesJustified' /\ ConfirmedHold'
  <2>1. /\ lease'.holder = lease.holder /\ lease'.age = Older(lease.age)
        /\ state' = state /\ action' = action
        /\ \A q \in Replicas : /\ observed'[q] = Aged(observed[q])
                              /\ against'[q] = Aged(against[q])
                              /\ since'[q] = Older(since[q])
    BY <1>5, <1>lease, AgedLease DEF Tick
  <2>2. ReadsHold'
    <3> SUFFICES ASSUME NEW q \in Replicas, observed'[q] # NoLease, observed'[q].holder = q,
                        observed'[q].age <= RenewDeadline
                 PROVE lease'.holder = q /\ lease'.age <= observed'[q].age
        BY DEF ReadsHold
    <3>1. observed[q] \in LeaseRecord /\ observed[q] # NoLease
      BY <2>1, AgedNothing DEF TypeOK
    <3>2. /\ observed'[q].holder = observed[q].holder
          /\ observed'[q].age = Older(observed[q].age)
      BY <2>1, <3>1, AgedLease
    <3>3. observed[q].age \in Ages
      BY <3>1 DEF LeaseRecord
    <3>4. observed[q].age <= RenewDeadline
      <4> DEFINE a == observed[q].age
      <4>1. a \in Nat /\ Older(a) \in Nat /\ a <= Older(a) /\ Older(a) <= RenewDeadline
        BY Zenon, SMTT(20), <3>2, <3>3, AgesGrow, AgesOrdered
      <4> HIDE DEF a
      <4> QED BY <4>1, <1>ages DEF a
    <3>5. lease.holder = q /\ lease.age <= observed[q].age
      BY Zenon, SMTT(20), <3>1, <3>2, <3>4 DEF ReadsHold
    <3>6. Older(lease.age) <= Older(observed[q].age)
      BY <3>3, <3>5, <1>lease, AgesOrdered
    <3> QED BY Zenon, SMTT(20), <2>1, <3>2, <3>5, <3>6
  <2>3. UpdatesJustified'
    <3> SUFFICES ASSUME NEW q \in Replicas
                 PROVE /\ action[q] \in {"acquire", "renew", "release"} =>
                              Aged(observed[q]) = NoLease /\ Aged(against[q]) # NoLease
                       /\ action[q] = "acquire" => IsExpired(Aged(against[q]))
                       /\ action[q] \in {"renew", "release"} => Aged(against[q]).holder = q
                       /\ action[q] = "release" => state[q] = "relinquishing"
        BY <2>1 DEF UpdatesJustified, IsExpired
    <3>1. against[q] # NoLease => against[q] \in LeaseRecord
      BY DEF TypeOK
    <3> QED BY <3>1, AgedLease, AgedNothing DEF UpdatesJustified
  <2>4. ConfirmedHold'
    <3> SUFFICES ASSUME NEW q \in Replicas, Confirmed(q)'
                 PROVE lease'.holder = q /\ lease'.age <= since'[q] + RenewDeadline
        BY DEF ConfirmedHold
    <3>1. state[q] = "leader" /\ since[q] \in Ages /\ since'[q] = Older(since[q])
          /\ since'[q] <= LeaseDuration - RenewDeadline
      BY <2>1 DEF Confirmed, TypeOK
    <3> DEFINE a == since[q]
               b == Older(since[q])
               l == lease.age
               m == Older(lease.age)
    <3>2. a \in Nat /\ b \in Nat /\ a <= b /\ b <= a + 1 /\ (b = a + 1 \/ a = MaxAge)
      BY <3>1, AgesGrow, AgesOrdered
    <3>3. l \in Nat /\ m \in Nat /\ m <= l + 1
      BY <1>lease, AgesGrow, AgesOrdered
    <3>4. b <= LeaseDuration - RenewDeadline
      BY <3>1
    <3>5. b = a + 1 /\ a <= LeaseDuration - RenewDeadline
      <4> HIDE DEF a, b
      <4> QED BY <3>2, <3>4, <1>ages DEF MaxAge
    <3>6. lease.holder = q /\ l <= a + RenewDeadline
      BY <3>1, <3>5 DEF ConfirmedHold, Confirmed
    <3>7. m <= b + RenewDeadline
      <4> HIDE DEF a, b, l, m
      <4> QED BY <3>2, <3>3, <3>5, <3>6, <1>ages
    <3> QED BY <2>1, <3>1, <3>6, <3>7
  <2> QED BY <2>2, <2>3, <2>4
<1>6. CASE UNCHANGED vars
  BY Zenon, SMTT(20), <1>6 DEF vars, ReadsHold, UpdatesJustified, ConfirmedHold, Confirmed, IsExpired
<1> QED BY <1>1, <1>2, <1>3, <1>4, <1>5, <1>6 DEF Next, Step

(* No two replicas are confirmed leaders at once, for any number of        *)
(* replicas, any admissible timings and any delay between reading the      *)
(* lease, evaluating it and updating it (evaluate, main.rs:427-484).       *)
THEOREM WritesFencedKept == Spec => []WritesFenced
<1>1. Init => IInv
  BY Initially
<1>2. IInv /\ TypeOK' /\ [Next]_vars => IInv'
  BY Inductive
<1>3. IInv => WritesFenced
  BY DEF IInv, ConfirmedHold, WritesFenced
<1>4. Spec => []TypeOK
  BY TypeCorrect
<1> QED BY <1>1, <1>2, <1>3, <1>4, PTL DEF Spec

----------------------------------------------------------------------------
(* Endpoint discovery: maps and least elements.                            *)

(* A map is a function from some of the ids.                               *)
LEMMA MapParts ==
    ASSUME NEW R, NEW f \in Maps(R)
    PROVE  /\ f = [i \in DOMAIN f |-> f[i]] /\ DOMAIN f \subseteq Ids
           /\ \A i \in DOMAIN f : f[i] \in R
  BY DEF Maps

(* And a function from some of the ids is a map.                           *)
LEMMA MapBuilt ==
    ASSUME NEW R, NEW f, f = [i \in DOMAIN f |-> f[i]], DOMAIN f \subseteq Ids,
           \A i \in DOMAIN f : f[i] \in R
    PROVE  f \in Maps(R)
<1>1. f \in [DOMAIN f -> R]
  BY Zenon, SMTT(20)
<1>. QED
  BY Zenon, SMTT(20), <1>1 DEF Maps

(* Inserting one entry.                                                    *)
LEMMA PutMap ==
    ASSUME NEW R, NEW f \in Maps(R), NEW i \in Ids, NEW x \in R, NEW g, g = Put(f, i, x)
    PROVE  /\ g \in Maps(R) /\ DOMAIN g = DOMAIN f \cup {i}
           /\ g[i] = x /\ \A j \in DOMAIN f : j # i => g[j] = f[j]
<1>1. /\ DOMAIN g = DOMAIN f \cup {i} /\ g = [j \in DOMAIN g |-> g[j]]
      /\ g[i] = x /\ \A j \in DOMAIN f : j # i => g[j] = f[j]
  BY DEF Put
<1>2. DOMAIN f \subseteq Ids /\ \A j \in DOMAIN f : f[j] \in R
  BY Zenon, SMTT(20), MapParts
<1>3. DOMAIN g \subseteq Ids /\ \A j \in DOMAIN g : g[j] \in R
  BY <1>1, <1>2
<1>. QED
  BY Zenon, SMTT(20), <1>1, <1>3, MapBuilt

(* Removing entries.                                                       *)
LEMMA DropMap ==
    ASSUME NEW R, NEW f \in Maps(R), NEW S, NEW g, g = Drop(f, S)
    PROVE  /\ g \in Maps(R) /\ DOMAIN g = DOMAIN f \ S
           /\ \A j \in DOMAIN f \ S : g[j] = f[j]
<1>1. /\ DOMAIN g = DOMAIN f \ S /\ g = [j \in DOMAIN g |-> g[j]]
      /\ \A j \in DOMAIN f \ S : g[j] = f[j]
  BY DEF Drop, Restrict
<1>2. DOMAIN f \subseteq Ids /\ \A j \in DOMAIN f : f[j] \in R
  BY Zenon, SMTT(20), MapParts
<1>3. DOMAIN g \subseteq Ids /\ \A j \in DOMAIN g : g[j] \in R
  BY <1>1, <1>2
<1>. QED
  BY Zenon, SMTT(20), <1>1, <1>3, MapBuilt

(* The empty map.                                                          *)
LEMMA EmptyMap == ASSUME NEW R PROVE Empty \in Maps(R) /\ DOMAIN Empty = {}
<1>1. DOMAIN Empty = {} /\ Empty = [i \in DOMAIN Empty |-> Empty[i]]
  BY DEF Empty
<1>. QED
  BY Zenon, SMTT(20), <1>1, MapBuilt

(* The first of a non-empty set of names is one of them.                   *)
LEMMA FirstIn ==
    ASSUME NEW S \in SUBSET Nat, S # {}
    PROVE  Min(S) \in S
<1>1. PICK k \in S : \A j \in S : ~(<<j, k>> \in OpToRel(<, Nat))
  BY Zenon, SMTT(20), NatLessThanWellFounded, WFMin
<1>2. \A j \in S : ~(j < k)
  BY Zenon, SMTT(20), <1>1 DEF OpToRel
<1>3. \A j \in S : k <= j
  BY <1>2
<1>4. \E x \in S : \A y \in S : x <= y
  BY Zenon, SMTT(20), <1>3
<1>. QED
  BY Zenon, SMTT(20), <1>4 DEF Min

----------------------------------------------------------------------------
(* The inductive invariant.                                                *)

DiscoveryTypes ==
    /\ members \in [Sources -> Maps(Definitions)]
    /\ applied \in [Sources -> Nat \cup {-1}]
    /\ deadlines \in Maps(Nat)
    /\ lifecycle \in Maps({"active", "draining"})
    /\ registry \in Registries \cup {Absent}
    /\ now \in 0..MaxNow
    /\ call \in Calls \cup {NoCall}
    /\ outcome \in {"none", "stale", "invalid", "failed", "duplicate", "applied"}
    /\ DOMAIN received = Sources
    /\ \A s \in Sources : DOMAIN received[s] \subseteq Nat
    /\ disturbed \in BOOLEAN

(* What of an endpoint is in the registry and in the lifecycle table.      *)
ReadyAt(i) == i \in DOMAIN registry /\ registry[i].state = "ready" /\ i \notin DOMAIN deadlines

DrainingAt(i) == i \in DOMAIN registry /\ registry[i].state = "draining" /\ i \in DOMAIN deadlines

GoneAt(i) == i \notin DOMAIN registry /\ i \notin DOMAIN deadlines

Life(i, s) == i \in DOMAIN lifecycle /\ lifecycle[i] = s

DefinedBy(S, i) == \E t \in S : i \in DOMAIN members[t] /\ registry[i].def = members[t][i]

(* An endpoint that no call is working on.                                 *)
Settled(i) ==
    \/ i \in Advertised /\ ReadyAt(i) /\ Life(i, "active") /\ DefinedBy(Sources, i)
    \/ i \notin Advertised /\ DrainingAt(i) /\ Life(i, "draining")
    \/ i \notin Advertised /\ GoneAt(i) /\ i \notin DOMAIN lifecycle

(* One that the call in progress has yet to change or remove, ...          *)
Untouched(i) == Settled(i) /\ i \notin call.activated /\ i \notin call.draining

(* ... and one that is as the end of the call will want it.                *)
Handled(i) ==
    \/ /\ i \in DOMAIN call.endpoints \/ OtherSources(call.source, i) # {}
       /\ ReadyAt(i) /\ i \notin call.draining
       /\ i \in call.activated \/ Life(i, "active")
       /\ \/ i \in DOMAIN call.endpoints /\ registry[i].def = call.endpoints[i]
          \/ DefinedBy(Sources \ {call.source}, i)
    \/ /\ i \notin DOMAIN call.endpoints /\ OtherSources(call.source, i) = {}
       /\ i \notin call.activated
       /\ \/ DrainingAt(i) /\ i \in call.draining /\ Life(i, "active")
          \/ DrainingAt(i) /\ i \notin call.draining /\ Life(i, "draining")
          \/ GoneAt(i) /\ i \notin call.draining /\ i \notin DOMAIN lifecycle

Pending(i) == i \in call.changed \/ i \in call.removed

StoryInv ==
    ~disturbed =>
        /\ registry # Absent
        /\ call = NoCall => \A i \in Ids : Settled(i)
        /\ call # NoCall => \A i \in Ids : (Pending(i) /\ Untouched(i)) \/ (~Pending(i) /\ Handled(i))

(* What is left of the story when the cluster was removed at some time:    *)
(* nothing is installed that is neither advertised nor draining, and what  *)
(* is advertised never has a draining lifecycle.                           *)
CallInv ==
    /\ \A i \in Advertised \cap DOMAIN lifecycle : lifecycle[i] = "active"
    /\ registry # Absent => \A i \in DOMAIN registry :
           \/ i \in Advertised \/ i \in DOMAIN deadlines
           \/ call # NoCall /\ i \in DOMAIN call.endpoints /\ i \notin call.changed
    /\ call # NoCall =>
           /\ call.changed \subseteq DOMAIN call.endpoints
           /\ \A i \in call.removed : i \in DOMAIN members[call.source] /\ i \notin DOMAIN call.endpoints
           /\ \A i \in call.draining :
                  /\ i \in DOMAIN members[call.source] /\ i \notin DOMAIN call.endpoints
                  /\ OtherSources(call.source, i) = {}
           /\ \A i \in DOMAIN call.endpoints : i \in call.changed \/ i \in call.activated \/ i \in Advertised
           /\ \A i \in DOMAIN members[call.source] :
                  \/ i \in DOMAIN call.endpoints \/ i \in call.removed
                  \/ OtherSources(call.source, i) # {} \/ i \in DOMAIN deadlines

(* The generations of an ordered source: all valid ones it has delivered   *)
(* are at most the applied one, except the one a call is applying.         *)
Valid(s) == {g \in DOMAIN received[s] : Bad \notin Range(received[s][g])}

NewestInv ==
    ~disturbed => \A s \in Sources : HasMonotonicGenerations(s) =>
        /\ applied[s] = -1 \/ (applied[s] \in Valid(s) /\ members[s] = received[s][applied[s]])
        /\ \A g \in Valid(s) :
               g <= applied[s] \/ (call # NoCall /\ call.source = s /\ call.generation = g)
        /\ call # NoCall /\ call.source = s =>
               /\ call.generation \in Valid(s) /\ call.endpoints = received[s][call.generation]
               /\ applied[s] <= call.generation

DiscoveryInv == DiscoveryTypes /\ CallInv /\ StoryInv /\ NewestInv /\ UpdatesSucceed

----------------------------------------------------------------------------
(* The steps of a call.                                                    *)

NotChanging(c, i) == [c EXCEPT !.changed = @ \ {i}]
NotRemoving(c, i) == [c EXCEPT !.removed = @ \ {i}]
Activating(c, i) == [c EXCEPT !.activated = @ \cup {i}]
Withdrawing(c, i) == [c EXCEPT !.draining = @ \cup {i}]

(* Each of them changes one field of the call.                             *)
LEMMA NotChangingFields ==
    ASSUME NEW c \in Calls, NEW i \in Ids, NEW d, d = NotChanging(c, i)
    PROVE  /\ d \in Calls /\ d.source = c.source /\ d.generation = c.generation
           /\ d.endpoints = c.endpoints /\ d.changed = c.changed \ {i} /\ d.removed = c.removed
           /\ d.activated = c.activated /\ d.draining = c.draining
  BY DEF Calls, NotChanging

(* The second, ...                                                         *)
LEMMA NotRemovingFields ==
    ASSUME NEW c \in Calls, NEW i \in Ids, NEW d, d = NotRemoving(c, i)
    PROVE  /\ d \in Calls /\ d.source = c.source /\ d.generation = c.generation
           /\ d.endpoints = c.endpoints /\ d.changed = c.changed /\ d.removed = c.removed \ {i}
           /\ d.activated = c.activated /\ d.draining = c.draining
  BY DEF Calls, NotRemoving

(* ... the third ...                                                       *)
LEMMA ActivatingFields ==
    ASSUME NEW c \in Calls, NEW i \in Ids, NEW d, d = Activating(c, i)
    PROVE  /\ d \in Calls /\ d.source = c.source /\ d.generation = c.generation
           /\ d.endpoints = c.endpoints /\ d.changed = c.changed /\ d.removed = c.removed
           /\ d.activated = c.activated \cup {i} /\ d.draining = c.draining
  BY DEF Calls, Activating

(* ... and the last.                                                       *)
LEMMA WithdrawingFields ==
    ASSUME NEW c \in Calls, NEW i \in Ids, NEW d, d = Withdrawing(c, i)
    PROVE  /\ d \in Calls /\ d.source = c.source /\ d.generation = c.generation
           /\ d.endpoints = c.endpoints /\ d.changed = c.changed /\ d.removed = c.removed
           /\ d.activated = c.activated /\ d.draining = c.draining \cup {i}
  BY DEF Calls, Withdrawing

(* A call and the memberships it works on.                                 *)
LEMMA CallShape ==
    ASSUME DiscoveryInv, call # NoCall
    PROVE  /\ call \in Calls /\ call.source \in Sources /\ call.generation \in Nat
           /\ call.endpoints \in Maps(Definitions) /\ DOMAIN call.endpoints \subseteq Ids
           /\ call.changed \subseteq Ids /\ call.removed \subseteq Ids
           /\ call.activated \subseteq Ids /\ call.draining \subseteq Ids
<1>1. call \in Calls
  BY DEF DiscoveryInv, DiscoveryTypes
<1>2. /\ call.source \in Sources /\ call.generation \in Nat /\ call.endpoints \in Maps(Definitions)
      /\ call.changed \subseteq Ids /\ call.removed \subseteq Ids
      /\ call.activated \subseteq Ids /\ call.draining \subseteq Ids
  BY <1>1 DEF Calls
<1>3. DOMAIN call.endpoints \subseteq Ids
  BY Zenon, SMTT(20), <1>2, MapParts
<1>. QED
  BY <1>1, <1>2, <1>3

(* The members of a source are among the ids and are advertised.           *)
LEMMA MembersShape ==
    ASSUME DiscoveryInv
    PROVE  /\ \A s \in Sources : members[s] \in Maps(Definitions) /\ DOMAIN members[s] \subseteq Ids
           /\ \A s \in Sources : \A i \in DOMAIN members[s] : i \in Advertised /\ members[s][i] \in Definitions
           /\ Advertised \subseteq Ids
           /\ DOMAIN lifecycle \subseteq Ids /\ DOMAIN deadlines \subseteq Ids
           /\ registry # Absent => registry \in Registries /\ DOMAIN registry \subseteq Ids
<1>1. \A s \in Sources : members[s] \in Maps(Definitions)
  BY DEF DiscoveryInv, DiscoveryTypes
<1>2. \A s \in Sources : DOMAIN members[s] \subseteq Ids /\ \A i \in DOMAIN members[s] : members[s][i] \in Definitions
  BY Zenon, SMTT(20), <1>1, MapParts
<1>3. lifecycle \in Maps({"active", "draining"}) /\ deadlines \in Maps(Nat)
  BY DEF DiscoveryInv, DiscoveryTypes
<1>4. DOMAIN lifecycle \subseteq Ids /\ DOMAIN deadlines \subseteq Ids
  BY Zenon, SMTT(20), <1>3, MapParts
<1>5. registry # Absent => registry \in Registries
  BY DEF DiscoveryInv, DiscoveryTypes
<1>6. registry # Absent => DOMAIN registry \subseteq Ids
  BY Zenon, SMTT(20), <1>5, MapParts DEF Registries
<1>. QED
  BY Zenon, SMTT(20), <1>1, <1>2, <1>4, <1>5, <1>6 DEF Advertised

(* The other sources of an endpoint, and the first of them.                *)
LEMMA OtherFirst ==
    ASSUME NEW s \in Sources, NEW i, OtherSources(s, i) # {}
    PROVE  /\ Min(OtherSources(s, i)) \in Sources \ {s}
           /\ i \in DOMAIN members[Min(OtherSources(s, i))]
<1>1. OtherSources(s, i) \in SUBSET Nat
  BY Zenon, SMTT(20), DiscoveryAssumption DEF DiscoveryAssumption, OtherSources
<1>2. Min(OtherSources(s, i)) \in OtherSources(s, i)
  BY Zenon, SMTT(20), <1>1, FirstIn
<1>. QED
  BY <1>2 DEF OtherSources

(* A changed endpoint is left alone because another source installed the   *)
(* same, or is installed anew, or the cluster is missing: never is it      *)
(* refused as a duplicate.                                                 *)
LEMMA ChangeOutcome ==
    ASSUME DiscoveryInv, ChangeEndpoint
    PROVE  /\ call # NoCall /\ UNCHANGED <<members, applied, lifecycle, now, received, disturbed>>
           /\ \E i \in call.changed :
                 /\ deadlines' = Drop(deadlines, {i})
                 /\ \/ /\ OtherSources(call.source, i) # {} /\ i \notin DOMAIN deadlines
                       /\ i \notin DOMAIN members[call.source]
                       /\ call' = NotChanging(call, i) /\ UNCHANGED <<registry, outcome>>
                    \/ /\ registry # Absent
                       /\ registry' = Put(registry, i, [def |-> call.endpoints[i], state |-> "ready"])
                       /\ call' = Activating(NotChanging(call, i), i) /\ UNCHANGED outcome
                    \/ /\ registry = Absent /\ outcome' = "failed" /\ call' = NoCall
                       /\ UNCHANGED registry
<1>1. call # NoCall /\ call.changed # {}
  BY DEF ChangeEndpoint
<1>2. PICK i : i = Min(call.changed)
  OBVIOUS
<1>3. call.changed \in SUBSET Nat
  BY Zenon, SMTT(20), <1>1, CallShape, DiscoveryAssumption DEF DiscoveryAssumption
<1>4. i \in call.changed
  BY Zenon, SMTT(20), <1>1, <1>2, <1>3, FirstIn
<1>5. registry # Absent /\ ~InRegistry(call.source, i) => i \notin DOMAIN registry
  <2>. SUFFICES ASSUME registry # Absent, ~InRegistry(call.source, i), i \in DOMAIN registry PROVE FALSE
    OBVIOUS
  <2>1. i \notin DOMAIN deadlines /\ i \notin DOMAIN members[call.source] /\ OtherSources(call.source, i) = {}
    BY DEF InRegistry
  <2>2. i \notin Advertised
    BY <2>1 DEF Advertised, OtherSources
  <2>. QED
    BY Zenon, SMTT(20), <1>1, <1>4, <2>1, <2>2 DEF DiscoveryInv, CallInv
<1>6. /\ deadlines' = Drop(deadlines, {i})
      /\ \/ /\ OtherSources(call.source, i) # {} /\ i \notin DOMAIN deadlines
            /\ i \notin DOMAIN members[call.source]
            /\ call' = NotChanging(call, i) /\ UNCHANGED <<registry, outcome>>
         \/ Reinstall(i, call.endpoints[i], InRegistry(call.source, i), Activating(NotChanging(call, i), i))
      /\ UNCHANGED <<members, applied, lifecycle, now, received, disturbed>>
  BY Zenon, SMTT(20), <1>2 DEF ChangeEndpoint, NotChanging, Activating
<1>7. CASE Reinstall(i, call.endpoints[i], InRegistry(call.source, i), Activating(NotChanging(call, i), i))
  <2>1. CASE registry = Absent
    BY Zenon, SMTT(20), <1>1, <1>4, <1>6, <1>7, <2>1 DEF Reinstall, Fail
  <2>2. CASE registry # Absent
    BY Zenon, SMTT(20), <1>1, <1>4, <1>5, <1>6, <1>7, <2>2 DEF Reinstall
  <2>. QED
    BY Zenon, SMTT(20), <2>1, <2>2
<1>. QED
  BY Zenon, SMTT(20), <1>1, <1>4, <1>6, <1>7

(* A withdrawn endpoint stays as it is, adopts the definition of another   *)
(* source, or starts to drain; only the adoption needs the cluster.        *)
LEMMA RemoveOutcome ==
    ASSUME DiscoveryInv, RemoveEndpoint
    PROVE  /\ call # NoCall /\ call.changed = {}
           /\ UNCHANGED <<members, applied, lifecycle, now, received, disturbed>>
           /\ \E i \in call.removed :
                 \/ /\ OtherSources(call.source, i) # {} /\ UNCHANGED <<deadlines, registry, outcome>>
                    /\ OtherSourceDefinition(call.source, i) = members[call.source][i]
                    /\ call' = NotRemoving(call, i)
                 \/ /\ OtherSources(call.source, i) # {} /\ UNCHANGED <<deadlines, outcome>>
                    /\ registry # Absent
                    /\ registry' = Put(registry, i, [def |-> OtherSourceDefinition(call.source, i),
                                                     state |-> "ready"])
                    /\ call' = Activating(NotRemoving(call, i), i)
                 \/ /\ registry = Absent /\ outcome' = "failed" /\ call' = NoCall
                    /\ UNCHANGED <<registry, deadlines>>
                 \/ /\ OtherSources(call.source, i) = {} /\ UNCHANGED outcome
                    /\ call' = Withdrawing(NotRemoving(call, i), i)
                    /\ deadlines' = Put(deadlines, i, now + DrainGrace)
                    /\ registry' = IF registry # Absent /\ i \in DOMAIN registry
                                   THEN [registry EXCEPT ![i].state = "draining"] ELSE registry
<1>1. call # NoCall /\ call.changed = {} /\ call.removed # {}
  BY DEF RemoveEndpoint
<1>2. PICK i : i = Min(call.removed)
  OBVIOUS
<1>3. call.removed \in SUBSET Nat
  BY Zenon, SMTT(20), <1>1, CallShape, DiscoveryAssumption DEF DiscoveryAssumption
<1>4. i \in call.removed
  BY Zenon, SMTT(20), <1>1, <1>2, <1>3, FirstIn
<1>5. UNCHANGED <<members, applied, lifecycle, now, received, disturbed>>
  BY DEF RemoveEndpoint
<1>6. CASE OtherSources(call.source, i) = {}
  BY Zenon, SMTT(20), <1>1, <1>2, <1>4, <1>5, <1>6 DEF RemoveEndpoint, NotRemoving, Withdrawing
<1>7. CASE OtherSources(call.source, i) # {}
  <2>1. /\ UNCHANGED deadlines
        /\ \/ /\ OtherSourceDefinition(call.source, i) = members[call.source][i]
              /\ call' = NotRemoving(call, i) /\ UNCHANGED <<registry, outcome>>
           \/ Reinstall(i, OtherSourceDefinition(call.source, i), TRUE, Activating(NotRemoving(call, i), i))
    BY Zenon, SMTT(20), <1>2, <1>7 DEF RemoveEndpoint, NotRemoving, Activating
  <2>2. CASE Reinstall(i, OtherSourceDefinition(call.source, i), TRUE, Activating(NotRemoving(call, i), i))
    BY Zenon, SMTT(20), <1>1, <1>4, <1>5, <1>7, <2>1, <2>2 DEF Reinstall, Fail
  <2>. QED
    BY Zenon, SMTT(20), <1>1, <1>4, <1>5, <1>7, <2>1, <2>2
<1>. QED
  BY Zenon, SMTT(20), <1>6, <1>7

----------------------------------------------------------------------------
(* What the steps of a call do to the invariant.                           *)

(* Endpoints the step is not about stay untouched or handled.              *)
LEMMA Elsewhere ==
    ASSUME NEW j, UNCHANGED <<members, lifecycle>>,
           call'.source = call.source, call'.endpoints = call.endpoints,
           j \in call'.activated <=> j \in call.activated,
           j \in call'.draining <=> j \in call.draining,
           j \in DOMAIN registry' <=> j \in DOMAIN registry,
           j \in DOMAIN registry => registry'[j] = registry[j],
           j \in DOMAIN deadlines' <=> j \in DOMAIN deadlines
    PROVE  (Untouched(j) => Untouched(j)') /\ (Handled(j) => Handled(j)')
<1>1. /\ ReadyAt(j) => ReadyAt(j)' /\ (DefinedBy(Sources, j) => DefinedBy(Sources, j)')
      /\ ReadyAt(j) /\ DefinedBy(Sources \ {call.source}, j) => DefinedBy(Sources \ {call.source}, j)'
  BY DEF ReadyAt, DefinedBy
<1>2. (DrainingAt(j) => DrainingAt(j)') /\ (GoneAt(j) => GoneAt(j)')
  BY DEF DrainingAt, GoneAt
<1>3. (\A s : Life(j, s) <=> Life(j, s)') /\ (j \in Advertised <=> j \in Advertised')
  BY DEF Life, Advertised
<1>. QED
  BY Zenon, SMTT(20), <1>1, <1>2, <1>3 DEF Untouched, Settled, Handled, OtherSources, ReadyAt

(* A step that deals with one pending endpoint and leaves the others.      *)
LEMMA CallMoved ==
    ASSUME DiscoveryInv, call # NoCall, NEW i \in Ids, Pending(i),
           UNCHANGED <<members, applied, lifecycle, now, received, disturbed, outcome>>,
           call' \in Calls, call'.source = call.source, call'.generation = call.generation,
           call'.endpoints = call.endpoints,
           call'.changed = call.changed \ {i}, call'.removed = call.removed \ {i},
           call'.activated \in {call.activated, call.activated \cup {i}},
           call'.draining \in {call.draining, call.draining \cup {i}},
           deadlines' \in Maps(Nat), DOMAIN deadlines' \ {i} = DOMAIN deadlines \ {i},
           registry' \in Registries \cup {Absent}, registry' = Absent <=> registry = Absent,
           registry # Absent =>
               /\ DOMAIN registry' \ {i} = DOMAIN registry \ {i}
               /\ \A j \in DOMAIN registry \ {i} : registry'[j] = registry[j],
           ~disturbed /\ Untouched(i) => Handled(i)',
           registry # Absent /\ i \in DOMAIN registry' =>
               i \in Advertised \/ i \in DOMAIN deadlines' \/ i \in DOMAIN call.endpoints,
           i \in call'.draining =>
               /\ i \in DOMAIN members[call.source] /\ i \notin DOMAIN call.endpoints
               /\ OtherSources(call.source, i) = {},
           i \in DOMAIN call.endpoints => i \in call'.activated \/ i \in Advertised,
           i \in DOMAIN members[call.source] =>
               i \in DOMAIN call.endpoints \/ OtherSources(call.source, i) # {} \/ i \in DOMAIN deadlines'
    PROVE  DiscoveryInv'
<1>0. call' # NoCall /\ Advertised' = Advertised /\ \A s, j : OtherSources(s, j)' = OtherSources(s, j)
  BY DiscoveryAssumption DEF DiscoveryAssumption, Advertised, OtherSources
<1>1. DiscoveryTypes'
  BY Zenon, SMTT(20) DEF DiscoveryInv, DiscoveryTypes
<1>2. CallInv'
  <2>1. \A j \in Advertised' \cap DOMAIN lifecycle' : lifecycle'[j] = "active"
    BY Zenon, SMTT(20), <1>0 DEF DiscoveryInv, CallInv
  <2>2. ASSUME registry' # Absent, NEW j \in DOMAIN registry'
        PROVE  \/ j \in Advertised' \/ j \in DOMAIN deadlines'
               \/ call' # NoCall /\ j \in DOMAIN call'.endpoints /\ j \notin call'.changed
    <3>1. CASE j = i
      BY Zenon, SMTT(20), <1>0, <2>2, <3>1
    <3>2. CASE j # i
      <4>1. j \in DOMAIN registry /\ registry # Absent
        BY Zenon, SMTT(20), <2>2, <3>2
      <4>2. j \in Advertised \/ j \in DOMAIN deadlines \/ (j \in DOMAIN call.endpoints /\ j \notin call.changed)
        BY Zenon, SMTT(20), <4>1 DEF DiscoveryInv, CallInv
      <4>. QED
        BY Zenon, SMTT(20), <1>0, <3>2, <4>2
    <3>. QED
      BY Zenon, SMTT(20), <3>1, <3>2
  <2>3. /\ call.changed \subseteq DOMAIN call.endpoints
        /\ \A j \in call.removed : j \in DOMAIN members[call.source] /\ j \notin DOMAIN call.endpoints
        /\ \A j \in call.draining :
               /\ j \in DOMAIN members[call.source] /\ j \notin DOMAIN call.endpoints
               /\ OtherSources(call.source, j) = {}
        /\ \A j \in DOMAIN call.endpoints : j \in call.changed \/ j \in call.activated \/ j \in Advertised
        /\ \A j \in DOMAIN members[call.source] :
               \/ j \in DOMAIN call.endpoints \/ j \in call.removed
               \/ OtherSources(call.source, j) # {} \/ j \in DOMAIN deadlines
    BY Zenon, SMTT(20) DEF DiscoveryInv, CallInv
  <2>4. /\ call'.changed \subseteq DOMAIN call'.endpoints
        /\ \A j \in call'.removed : j \in DOMAIN members[call.source] /\ j \notin DOMAIN call.endpoints
    BY Zenon, SMTT(20), <2>3
  <2>5. \A j \in call'.draining :
               /\ j \in DOMAIN members[call.source] /\ j \notin DOMAIN call.endpoints
               /\ OtherSources(call.source, j) = {}
    BY <2>3
  <2>6. \A j \in DOMAIN call.endpoints : j \in call'.changed \/ j \in call'.activated \/ j \in Advertised
    BY Zenon, SMTT(20), <2>3
  <2>7. \A j \in DOMAIN members[call.source] :
               \/ j \in DOMAIN call.endpoints \/ j \in call'.removed
               \/ OtherSources(call.source, j) # {} \/ j \in DOMAIN deadlines'
    BY Zenon, SMTT(20), <2>3
  <2>. QED
    BY Zenon, SMTT(20), <1>0, <2>1, <2>2, <2>4, <2>5, <2>6, <2>7 DEF CallInv
<1>3. StoryInv'
  <2>. SUFFICES ASSUME ~disturbed PROVE StoryInv'
    BY Zenon, SMTT(20) DEF StoryInv
  <2>1. /\ registry # Absent
        /\ \A j \in Ids : (Pending(j) /\ Untouched(j)) \/ (~Pending(j) /\ Handled(j))
    BY Zenon, SMTT(20) DEF DiscoveryInv, StoryInv
  <2>2. ~Pending(i)' /\ Handled(i)'
    BY Zenon, SMTT(20), <2>1 DEF Pending
  <2>3. ASSUME NEW j \in Ids, j # i
        PROVE  (Pending(j)' /\ Untouched(j)') \/ (~Pending(j)' /\ Handled(j)')
    <3>1. Pending(j)' <=> Pending(j)
      BY Zenon, SMTT(20), <2>3 DEF Pending
    <3>2. /\ j \in call'.activated <=> j \in call.activated
          /\ j \in call'.draining <=> j \in call.draining
          /\ j \in DOMAIN registry' <=> j \in DOMAIN registry
          /\ j \in DOMAIN registry => registry'[j] = registry[j]
          /\ j \in DOMAIN deadlines' <=> j \in DOMAIN deadlines
      BY Zenon, SMTT(20), <2>1, <2>3
    <3>3. (Untouched(j) => Untouched(j)') /\ (Handled(j) => Handled(j)')
      BY Zenon, SMTT(20), <3>2, Elsewhere
    <3>. QED
      BY Zenon, SMTT(20), <2>1, <3>1, <3>3
  <2>4. \A j \in Ids : (Pending(j)' /\ Untouched(j)') \/ (~Pending(j)' /\ Handled(j)')
    BY Zenon, SMTT(20), <2>2, <2>3
  <2>. QED
    BY Zenon, SMTT(20), <1>0, <2>1, <2>4 DEF StoryInv
<1>4. NewestInv'
  BY <1>0 DEF DiscoveryInv, NewestInv, Valid
<1>5. UpdatesSucceed'
  BY Zenon, SMTT(20) DEF DiscoveryInv, UpdatesSucceed
<1>. QED
  BY Zenon, SMTT(20), <1>1, <1>2, <1>3, <1>4, <1>5 DEF DiscoveryInv

(* A call that fails because the cluster is missing.                       *)
LEMMA CallFailed ==
    ASSUME DiscoveryInv, registry = Absent, outcome' = "failed", call' = NoCall,
           UNCHANGED <<registry, members, applied, lifecycle, now, received, disturbed>>,
           deadlines' \in Maps(Nat)
    PROVE  DiscoveryInv'
<1>1. disturbed
  BY DEF DiscoveryInv, StoryInv
<1>2. DiscoveryTypes'
  BY DEF DiscoveryInv, DiscoveryTypes
<1>3. CallInv'
  BY DEF DiscoveryInv, CallInv, Advertised
<1>. QED
  BY Zenon, SMTT(20), <1>1, <1>2, <1>3 DEF DiscoveryInv, StoryInv, NewestInv, UpdatesSucceed

(* An endpoint that is new or changed (the first loop of                   *)
(* reconcile_snapshot).                                                    *)
LEMMA ChangeEndpointInv ==
    ASSUME DiscoveryInv, ChangeEndpoint
    PROVE  DiscoveryInv'
<1>1. call # NoCall /\ UNCHANGED <<members, applied, lifecycle, now, received, disturbed>>
  BY ChangeOutcome
<1>2. PICK i \in call.changed :
         /\ deadlines' = Drop(deadlines, {i})
         /\ \/ /\ OtherSources(call.source, i) # {} /\ i \notin DOMAIN deadlines
               /\ i \notin DOMAIN members[call.source]
               /\ call' = NotChanging(call, i) /\ UNCHANGED <<registry, outcome>>
            \/ /\ registry # Absent
               /\ registry' = Put(registry, i, [def |-> call.endpoints[i], state |-> "ready"])
               /\ call' = Activating(NotChanging(call, i), i) /\ UNCHANGED outcome
            \/ /\ registry = Absent /\ outcome' = "failed" /\ call' = NoCall
               /\ UNCHANGED registry
  BY Zenon, SMTT(20), ChangeOutcome
<1>3. /\ call \in Calls /\ call.source \in Sources /\ i \in Ids /\ Pending(i)
      /\ call.endpoints \in Maps(Definitions)
  BY <1>1, CallShape DEF Pending
<1>4. i \in DOMAIN call.endpoints /\ i \notin call.removed
  BY Zenon, SMTT(20), <1>1 DEF DiscoveryInv, CallInv
<1>5. call.endpoints[i] \in Definitions
  BY Zenon, SMTT(20), <1>3, <1>4, MapParts
<1>6. /\ deadlines' \in Maps(Nat) /\ DOMAIN deadlines' = DOMAIN deadlines \ {i}
  <2>1. deadlines \in Maps(Nat)
    BY DEF DiscoveryInv, DiscoveryTypes
  <2>. QED
    BY Zenon, SMTT(20), <1>2, <2>1, DropMap
<1>7. PICK c : c = NotChanging(call, i)
  OBVIOUS
<1>8. /\ c \in Calls /\ c.source = call.source /\ c.generation = call.generation
      /\ c.endpoints = call.endpoints /\ c.changed = call.changed \ {i}
      /\ c.removed = call.removed \ {i} /\ c.activated = call.activated /\ c.draining = call.draining
  <2>1. /\ c \in Calls /\ c.source = call.source /\ c.generation = call.generation
        /\ c.endpoints = call.endpoints /\ c.changed = call.changed \ {i}
        /\ c.removed = call.removed /\ c.activated = call.activated /\ c.draining = call.draining
    <3>1. call \in Calls /\ i \in Ids
      BY Zenon, SMTT(20), <1>3
    <3>. QED
      BY SMTT(20), Zenon, <1>7, <3>1, NotChangingFields
  <2>. QED
    BY <1>4, <2>1
<1>9. registry \in Registries \cup {Absent}
  BY DEF DiscoveryInv, DiscoveryTypes
<1>10. CASE registry = Absent /\ outcome' = "failed" /\ call' = NoCall /\ UNCHANGED registry
  BY <1>1, <1>6, <1>10, CallFailed
<1>11. CASE /\ OtherSources(call.source, i) # {} /\ i \notin DOMAIN deadlines
            /\ i \notin DOMAIN members[call.source]
            /\ call' = NotChanging(call, i) /\ UNCHANGED <<registry, outcome>>
  <2>1. i \in Advertised
    BY <1>11 DEF Advertised, OtherSources
  <2>2. Untouched(i) => Handled(i)'
    <3>. SUFFICES ASSUME Untouched(i) PROVE Handled(i)'
      OBVIOUS
    <3>1. ReadyAt(i) /\ Life(i, "active") /\ DefinedBy(Sources, i) /\ i \notin call.draining
      BY <2>1 DEF Untouched, Settled
    <3>2. DefinedBy(Sources \ {call.source}, i)
      BY Zenon, SMTT(20), <1>11, <3>1 DEF DefinedBy
    <3>3. /\ ReadyAt(i)' /\ Life(i, "active")'
      BY <1>1, <1>6, <1>11, <3>1 DEF ReadyAt, Life
    <3>4. (DefinedBy(Sources \ {call.source}, i))'
      BY Zenon, SMTT(20), <1>1, <1>7, <1>8, <1>11, <3>2 DEF DefinedBy
    <3>. QED
      BY Zenon, SMTT(20), <1>4, <1>7, <1>8, <1>11, <3>1, <3>3, <3>4 DEF Handled
  <2>3. i \notin call.draining
    BY Zenon, SMTT(20), <1>1, <1>4 DEF DiscoveryInv, CallInv
  <2>. QED
    BY Zenon, SMTT(20), <1>1, <1>3, <1>4, <1>6, <1>7, <1>8, <1>9, <1>11, <2>1, <2>2, <2>3, CallMoved
<1>12. CASE /\ registry # Absent
            /\ registry' = Put(registry, i, [def |-> call.endpoints[i], state |-> "ready"])
            /\ call' = Activating(NotChanging(call, i), i) /\ UNCHANGED outcome
  <2>1. PICK x : x = [def |-> call.endpoints[i], state |-> "ready"]
    BY Zenon, SMTT(20)
  <2>2. x \in [def : Definitions, state : {"ready", "draining"}] /\ x.state = "ready" /\ x.def = call.endpoints[i]
    BY <1>5, <2>1
  <2>3. registry \in Maps([def : Definitions, state : {"ready", "draining"}])
    BY <1>9, <1>12 DEF Registries
  <2>4. /\ registry' \in Registries /\ DOMAIN registry' = DOMAIN registry \cup {i} /\ registry'[i] = x
        /\ \A j \in DOMAIN registry : j # i => registry'[j] = registry[j]
    <3>1. registry' = Put(registry, i, x)
      BY <1>12, <2>1
    <3>2. ASSUME NEW R, registry \in Maps(R), x \in R PROVE registry' \in Maps(R)
      BY Zenon, SMTT(20), <1>3, <3>1, <3>2, PutMap
    <3>3. registry' \in Registries
      BY Zenon, SMTT(20), <2>2, <2>3, <3>2 DEF Registries
    <3>. QED
      BY <3>1, <3>3 DEF Put
  <2>5. registry' # Absent
    BY <2>4, DiscoveryAssumption DEF DiscoveryAssumption
  <2>6. /\ call' \in Calls /\ call'.source = call.source /\ call'.generation = call.generation
        /\ call'.endpoints = call.endpoints /\ call'.changed = call.changed \ {i}
        /\ call'.removed = call.removed \ {i} /\ call'.activated = call.activated \cup {i}
        /\ call'.draining = call.draining
    <3>1. call' = Activating(c, i)
      BY Zenon, SMTT(20), <1>7, <1>12
    <3>2. /\ call' \in Calls /\ call'.source = c.source /\ call'.generation = c.generation
          /\ call'.endpoints = c.endpoints /\ call'.changed = c.changed /\ call'.removed = c.removed
          /\ call'.activated = c.activated \cup {i} /\ call'.draining = c.draining
      BY SMTT(20), Zenon, <1>3, <1>8, <3>1, ActivatingFields
    <3>. QED
      BY Zenon, SMTT(20), <1>8, <3>2
  <2>7. i \notin call.draining
    BY Zenon, SMTT(20), <1>1, <1>4 DEF DiscoveryInv, CallInv
  <2>8. Handled(i)'
    BY Zenon, SMTT(20), <1>4, <1>6, <2>2, <2>4, <2>6, <2>7 DEF Handled, ReadyAt
  <2>9. i \in call'.activated
    BY <2>6
  <2>. QED
    BY <1>1, <1>3, <1>4, <1>6, <1>12, <2>4, <2>5, <2>6, <2>7, <2>8, <2>9, CallMoved
<1>. QED
  BY Zenon, SMTT(20), <1>2, <1>10, <1>11, <1>12

(* The source whose definition a withdrawn endpoint adopts.                *)
PickOther(s, i) == Min(OtherSources(s, i))

(* Marking an installed endpoint as draining.                              *)
Marked(f, i) == [f EXCEPT ![i].state = "draining"]

LEMMA MarkedMap ==
    ASSUME NEW f \in Registries, NEW i \in DOMAIN f
    PROVE  /\ Marked(f, i) \in Registries /\ DOMAIN Marked(f, i) = DOMAIN f
           /\ Marked(f, i)[i].state = "draining"
           /\ \A j \in DOMAIN f \ {i} : Marked(f, i)[j] = f[j]
<1>1. /\ f = [j \in DOMAIN f |-> f[j]] /\ DOMAIN f \subseteq Ids
      /\ \A j \in DOMAIN f : f[j] \in [def : Definitions, state : {"ready", "draining"}]
  BY Zenon, SMTT(20), MapParts DEF Registries
<1>2. PICK x : x = [f[i] EXCEPT !.state = "draining"]
  BY Zenon, SMTT(20)
<1>3. x \in [def : Definitions, state : {"ready", "draining"}] /\ x.state = "draining"
  BY <1>1, <1>2
<1>4. Marked(f, i) = [j \in DOMAIN f |-> IF j = i THEN x ELSE f[j]]
  BY <1>1, <1>2 DEF Marked
<1>5. /\ DOMAIN Marked(f, i) = DOMAIN f /\ Marked(f, i)[i] = x
      /\ \A j \in DOMAIN f \ {i} : Marked(f, i)[j] = f[j]
      /\ Marked(f, i) = [j \in DOMAIN Marked(f, i) |-> Marked(f, i)[j]]
  BY <1>4
<1>6. \A j \in DOMAIN Marked(f, i) : Marked(f, i)[j] \in [def : Definitions, state : {"ready", "draining"}]
  BY <1>1, <1>3, <1>5
<1>7. Marked(f, i) \in Registries
  BY Zenon, SMTT(20), <1>1, <1>5, <1>6, MapBuilt DEF Registries
<1>. QED
  BY <1>3, <1>5, <1>7

(* An endpoint that the snapshot no longer lists (the second loop of       *)
(* reconcile_snapshot).                                                    *)
LEMMA RemoveEndpointInv ==
    ASSUME DiscoveryInv, RemoveEndpoint
    PROVE  DiscoveryInv'
<1>1. call # NoCall /\ UNCHANGED <<members, applied, lifecycle, now, received, disturbed>>
  BY RemoveOutcome
<1>2. PICK i \in call.removed :
         \/ /\ OtherSources(call.source, i) # {} /\ UNCHANGED <<deadlines, registry, outcome>>
            /\ OtherSourceDefinition(call.source, i) = members[call.source][i]
            /\ call' = NotRemoving(call, i)
         \/ /\ OtherSources(call.source, i) # {} /\ UNCHANGED <<deadlines, outcome>>
            /\ registry # Absent
            /\ registry' = Put(registry, i, [def |-> OtherSourceDefinition(call.source, i),
                                             state |-> "ready"])
            /\ call' = Activating(NotRemoving(call, i), i)
         \/ /\ registry = Absent /\ outcome' = "failed" /\ call' = NoCall
            /\ UNCHANGED <<registry, deadlines>>
         \/ /\ OtherSources(call.source, i) = {} /\ UNCHANGED outcome
            /\ call' = Withdrawing(NotRemoving(call, i), i)
            /\ deadlines' = Put(deadlines, i, now + DrainGrace)
            /\ registry' = IF registry # Absent /\ i \in DOMAIN registry
                           THEN [registry EXCEPT ![i].state = "draining"] ELSE registry
  BY Zenon, SMTT(20), RemoveOutcome
<1>3. call \in Calls /\ call.source \in Sources /\ i \in Ids /\ Pending(i)
  BY <1>1, CallShape DEF Pending
<1>4. /\ i \in DOMAIN members[call.source] /\ i \notin DOMAIN call.endpoints /\ i \notin call.changed
      /\ i \in Advertised
  BY Zenon, SMTT(20), <1>1, <1>3, MembersShape DEF DiscoveryInv, CallInv
<1>5. PICK s \in Sources : s = call.source
  BY <1>3
<1>6. /\ deadlines \in Maps(Nat) /\ registry \in Registries \cup {Absent} /\ now \in 0..MaxNow
  BY DEF DiscoveryInv, DiscoveryTypes
<1>7. PICK c : c = NotRemoving(call, i)
  OBVIOUS
<1>8. /\ c \in Calls /\ c.source = call.source /\ c.generation = call.generation
      /\ c.endpoints = call.endpoints /\ c.changed = call.changed \ {i}
      /\ c.removed = call.removed \ {i} /\ c.activated = call.activated /\ c.draining = call.draining
  <2>1. /\ c \in Calls /\ c.source = call.source /\ c.generation = call.generation
        /\ c.endpoints = call.endpoints /\ c.changed = call.changed
        /\ c.removed = call.removed \ {i} /\ c.activated = call.activated /\ c.draining = call.draining
    BY SMTT(20), Zenon, <1>3, <1>7, NotRemovingFields
  <2>. QED
    BY <1>4, <2>1
<1>9. Untouched(i) => /\ ReadyAt(i) /\ Life(i, "active") /\ DefinedBy(Sources, i)
                      /\ i \notin call.draining /\ i \notin call.activated
  BY <1>4 DEF Untouched, Settled
<1>10. i \in call.draining => OtherSources(call.source, i) = {}
  BY Zenon, SMTT(20), <1>1 DEF DiscoveryInv, CallInv
<1>11. OtherSources(s, i) # {} =>
          PickOther(s, i) \in Sources \ {s} /\ i \in DOMAIN members[PickOther(s, i)]
  BY Zenon, SMTT(20), OtherFirst DEF PickOther
<1>12. \A j, t : OtherSources(t, j)' = OtherSources(t, j)
  BY <1>1 DEF OtherSources
<1>20. CASE /\ OtherSources(call.source, i) # {} /\ UNCHANGED <<deadlines, registry, outcome>>
            /\ OtherSourceDefinition(call.source, i) = members[call.source][i]
            /\ call' = NotRemoving(call, i)
  <2>1. ASSUME Untouched(i) PROVE Handled(i)'
    <3>1. PICK t \in Sources : i \in DOMAIN members[t] /\ registry[i].def = members[t][i]
      BY <1>9, <2>1 DEF DefinedBy
    <3>2. DefinedBy(Sources \ {s}, i)
      <4>1. CASE t # s
        BY <3>1, <4>1 DEF DefinedBy
      <4>2. CASE t = s
        <5>1. members[PickOther(s, i)][i] = registry[i].def
          BY <1>5, <1>20, <3>1, <4>2 DEF OtherSourceDefinition, PickOther
        <5>. QED
          BY Zenon, SMTT(20), <1>5, <1>11, <1>20, <5>1 DEF DefinedBy
      <4>. QED
        BY <4>1, <4>2
    <3>3. (DefinedBy(Sources \ {s}, i))'
      BY Zenon, SMTT(20), <1>1, <1>20, <3>2 DEF DefinedBy
    <3>4. ReadyAt(i)' /\ Life(i, "active")'
      BY <1>1, <1>9, <1>20, <2>1 DEF ReadyAt, Life
    <3>. QED
      BY Zenon, SMTT(20), <1>5, <1>7, <1>8, <1>9, <1>12, <1>20, <2>1, <3>3, <3>4 DEF Handled
  <2>. QED
    BY Zenon, SMTT(20), <1>1, <1>3, <1>4, <1>6, <1>7, <1>8, <1>10, <1>20, <2>1, CallMoved
<1>21. CASE /\ OtherSources(call.source, i) # {} /\ UNCHANGED <<deadlines, outcome>>
            /\ registry # Absent
            /\ registry' = Put(registry, i, [def |-> OtherSourceDefinition(call.source, i),
                                             state |-> "ready"])
            /\ call' = Activating(NotRemoving(call, i), i)
  <2>1. PICK x : x = [def |-> OtherSourceDefinition(call.source, i), state |-> "ready"]
    BY Zenon, SMTT(20)
  <2>2. PICK t \in Sources \ {s} : t = PickOther(s, i) /\ i \in DOMAIN members[t]
    BY Zenon, SMTT(20), <1>5, <1>11, <1>21
  <2>3. x.def = members[t][i] /\ x.state = "ready" /\ members[t][i] \in Definitions
    BY Zenon, SMTT(20), <1>5, <2>1, <2>2, MembersShape DEF OtherSourceDefinition, PickOther
  <2>4. x \in [def : Definitions, state : {"ready", "draining"}]
    BY SMTT(20), Zenon, <2>1, <2>3
  <2>5. registry \in Maps([def : Definitions, state : {"ready", "draining"}])
    BY <1>6, <1>21 DEF Registries
  <2>6. registry' = Put(registry, i, x)
    BY <1>21, <2>1
  <2>7. /\ registry' \in Registries /\ DOMAIN registry' = DOMAIN registry \cup {i} /\ registry'[i] = x
        /\ \A j \in DOMAIN registry : j # i => registry'[j] = registry[j]
    <3>1. ASSUME NEW R, registry \in Maps(R), x \in R PROVE registry' \in Maps(R)
      BY Zenon, SMTT(20), <1>3, <2>6, <3>1, PutMap
    <3>2. registry' \in Registries
      BY Zenon, SMTT(20), <2>4, <2>5, <3>1 DEF Registries
    <3>. QED
      BY <2>6, <3>2 DEF Put
  <2>8. registry' # Absent
    BY <2>7, DiscoveryAssumption DEF DiscoveryAssumption
  <2>9. /\ call' \in Calls /\ call'.source = call.source /\ call'.generation = call.generation
        /\ call'.endpoints = call.endpoints /\ call'.changed = call.changed \ {i}
        /\ call'.removed = call.removed \ {i} /\ call'.activated = call.activated \cup {i}
        /\ call'.draining = call.draining
    <3>1. call' = Activating(c, i)
      BY Zenon, SMTT(20), <1>7, <1>21
    <3>2. /\ call' \in Calls /\ call'.source = c.source /\ call'.generation = c.generation
          /\ call'.endpoints = c.endpoints /\ call'.changed = c.changed /\ call'.removed = c.removed
          /\ call'.activated = c.activated \cup {i} /\ call'.draining = c.draining
      BY SMTT(20), Zenon, <1>3, <1>8, <3>1, ActivatingFields
    <3>. QED
      BY Zenon, SMTT(20), <1>8, <3>2
  <2>10. ASSUME Untouched(i) PROVE Handled(i)'
    <3>1. (DefinedBy(Sources \ {s}, i))'
      BY <1>1, <2>2, <2>3, <2>7 DEF DefinedBy
    <3>2. ReadyAt(i)'
      BY Zenon, SMTT(20), <1>9, <1>21, <2>3, <2>7, <2>10 DEF ReadyAt
    <3>. QED
      BY Zenon, SMTT(20), <1>5, <1>9, <1>12, <1>21, <2>9, <2>10, <3>1, <3>2 DEF Handled
  <2>. QED
    BY Zenon, SMTT(20), <1>1, <1>3, <1>4, <1>6, <1>10, <1>21, <2>7, <2>8, <2>9, <2>10, CallMoved
<1>22. CASE /\ registry = Absent /\ outcome' = "failed" /\ call' = NoCall
            /\ UNCHANGED <<registry, deadlines>>
  BY <1>1, <1>6, <1>22, CallFailed
<1>23. CASE /\ OtherSources(call.source, i) = {} /\ UNCHANGED outcome
            /\ call' = Withdrawing(NotRemoving(call, i), i)
            /\ deadlines' = Put(deadlines, i, now + DrainGrace)
            /\ registry' = IF registry # Absent /\ i \in DOMAIN registry
                           THEN [registry EXCEPT ![i].state = "draining"] ELSE registry
  <2>1. now + DrainGrace \in Nat
    BY <1>6, DiscoveryAssumption DEF DiscoveryAssumption
  <2>2. deadlines' \in Maps(Nat) /\ DOMAIN deadlines' = DOMAIN deadlines \cup {i}
    <3>1. ASSUME NEW R, deadlines \in Maps(R), NEW x \in R, deadlines' = Put(deadlines, i, x)
          PROVE  deadlines' \in Maps(R) /\ DOMAIN deadlines' = DOMAIN deadlines \cup {i}
      BY <1>3, <3>1, PutMap
    <3>. QED
      BY Zenon, SMTT(20), <1>6, <1>23, <2>1, <3>1
  <2>3. /\ registry' \in Registries \cup {Absent} /\ (registry' = Absent <=> registry = Absent)
        /\ registry # Absent =>
              /\ DOMAIN registry' = DOMAIN registry
              /\ \A j \in DOMAIN registry \ {i} : registry'[j] = registry[j]
              /\ i \in DOMAIN registry => registry'[i].state = "draining"
    <3>1. CASE registry # Absent /\ i \in DOMAIN registry
      <4>1. registry' = Marked(registry, i) /\ registry \in Registries
        BY <1>6, <1>23, <3>1 DEF Marked
      <4>2. /\ registry' \in Registries /\ DOMAIN registry' = DOMAIN registry
            /\ \A j \in DOMAIN registry \ {i} : registry'[j] = registry[j]
            /\ registry'[i].state = "draining"
        BY Zenon, SMTT(20), <3>1, <4>1, MarkedMap
      <4>. QED
        BY <3>1, <4>2, DiscoveryAssumption DEF DiscoveryAssumption
    <3>2. CASE ~(registry # Absent /\ i \in DOMAIN registry)
      <4>1. registry' = registry
        BY <1>23, <3>2
      <4>. QED
        BY <1>6, <3>2, <4>1
    <3>. QED
      BY <3>1, <3>2
  <2>4. /\ call' \in Calls /\ call'.source = call.source /\ call'.generation = call.generation
        /\ call'.endpoints = call.endpoints /\ call'.changed = call.changed \ {i}
        /\ call'.removed = call.removed \ {i} /\ call'.activated = call.activated
        /\ call'.draining = call.draining \cup {i}
    <3>1. call' = Withdrawing(c, i)
      BY Zenon, SMTT(20), <1>7, <1>23
    <3>2. /\ call' \in Calls /\ call'.source = c.source /\ call'.generation = c.generation
          /\ call'.endpoints = c.endpoints /\ call'.changed = c.changed /\ call'.removed = c.removed
          /\ call'.activated = c.activated /\ call'.draining = c.draining \cup {i}
      BY SMTT(20), Zenon, <1>3, <1>8, <3>1, WithdrawingFields
    <3>. QED
      BY Zenon, SMTT(20), <1>8, <3>2
  <2>5. ASSUME ~disturbed, Untouched(i) PROVE Handled(i)'
    <3>1. registry # Absent /\ i \in DOMAIN registry
      BY <1>9, <2>5 DEF ReadyAt, DiscoveryInv, StoryInv
    <3>2. DrainingAt(i)'
      BY <2>2, <2>3, <3>1 DEF DrainingAt
    <3>3. Life(i, "active")'
      BY SMTT(20), Zenon, <1>1, <1>9, <2>5 DEF Life
    <3>4. i \notin DOMAIN call'.endpoints /\ i \notin call'.activated /\ i \in call'.draining
      BY <1>4, <1>9, <2>4, <2>5
    <3>5. OtherSources(call.source, i)' = {}
      BY <1>1, <1>23, <2>4 DEF OtherSources
    <3>. QED
      BY <3>2, <3>3, <3>4, <3>5 DEF Handled
  <2>. QED
    BY Zenon, SMTT(20), <1>1, <1>3, <1>4, <1>23, <2>2, <2>3, <2>4, <2>5, CallMoved
<1>. QED
  BY Zenon, SMTT(20), <1>2, <1>20, <1>21, <1>22, <1>23

(* What the lifecycle table holds when a call ends: start_draining never   *)
(* meets an endpoint that drains already.                                  *)
LEMMA LifecycleRecorded ==
    ASSUME DiscoveryInv, FinishReconcile
    PROVE  /\ lifecycle' \in Maps({"active", "draining"})
           /\ DOMAIN lifecycle' = DOMAIN lifecycle \cup call.activated \cup call.draining
           /\ \A i \in call.draining : lifecycle'[i] = "draining"
           /\ \A i \in call.activated \ call.draining : lifecycle'[i] = "active"
           /\ \A i \in DOMAIN lifecycle \ (call.activated \cup call.draining) : lifecycle'[i] = lifecycle[i]
<1>1. call # NoCall /\ lifecycle' = RecordLifecycle(call.activated, call.draining)
  BY DEF FinishReconcile
<1>2. /\ call.activated \subseteq Ids /\ call.draining \subseteq Ids /\ call.source \in Sources
      /\ DOMAIN lifecycle \subseteq Ids
  BY Zenon, SMTT(20), <1>1, CallShape, MembersShape
<1>3. \A i \in DOMAIN lifecycle : lifecycle[i] \in {"active", "draining"}
  BY Zenon, SMTT(20), MapParts DEF DiscoveryInv, DiscoveryTypes
<1>4. \A i \in call.draining : i \in DOMAIN lifecycle => lifecycle[i] = "active"
  <2>1. \A i \in call.draining : i \in DOMAIN members[call.source]
    BY Zenon, SMTT(20), <1>1 DEF DiscoveryInv, CallInv
  <2>2. \A i \in call.draining : i \in Advertised
    BY <1>2, <2>1 DEF Advertised
  <2>. QED
    BY Zenon, SMTT(20), <2>2 DEF DiscoveryInv, CallInv
<1>5. /\ DOMAIN lifecycle' = DOMAIN lifecycle \cup call.activated \cup call.draining
      /\ lifecycle' = [i \in DOMAIN lifecycle' |-> lifecycle'[i]]
      /\ \A i \in call.activated \ call.draining : lifecycle'[i] = "active"
      /\ \A i \in DOMAIN lifecycle \ (call.activated \cup call.draining) : lifecycle'[i] = lifecycle[i]
      /\ \A i \in call.draining :
            lifecycle'[i] = StartDraining(IF i \in DOMAIN lifecycle \ call.activated THEN lifecycle[i] ELSE "active")
  BY Zenon, SMTT(20), <1>1 DEF RecordLifecycle
<1>6. \A i \in call.draining : lifecycle'[i] = "draining"
  BY <1>4, <1>5 DEF StartDraining
<1>7. /\ DOMAIN lifecycle' \subseteq Ids
      /\ \A i \in DOMAIN lifecycle' : lifecycle'[i] \in {"active", "draining"}
  BY Zenon, SMTT(20), <1>2, <1>3, <1>5, <1>6
<1>8. lifecycle' \in Maps({"active", "draining"})
  BY Zenon, SMTT(20), <1>5, <1>7, MapBuilt
<1>. QED
  BY Zenon, SMTT(20), <1>5, <1>6, <1>8

(* The end of reconcile_snapshot.                                          *)
LEMMA FinishReconcileInv ==
    ASSUME DiscoveryInv, FinishReconcile
    PROVE  DiscoveryInv'
<1>1. /\ call # NoCall /\ call.changed = {} /\ call.removed = {} /\ call' = NoCall
      /\ members' = [members EXCEPT ![call.source] = call.endpoints]
      /\ applied' = [applied EXCEPT ![call.source] = call.generation]
      /\ outcome' = "applied"
      /\ UNCHANGED <<deadlines, registry, now, received, disturbed>>
  BY DEF FinishReconcile
<1>2. PICK s \in Sources : s = call.source
  BY <1>1, CallShape
<1>3. /\ members \in [Sources -> Maps(Definitions)] /\ applied \in [Sources -> Nat \cup {-1}]
      /\ call.endpoints \in Maps(Definitions) /\ call.generation \in Nat
  BY Zenon, SMTT(20), <1>1, CallShape DEF DiscoveryInv, DiscoveryTypes
<1>4. /\ members' \in [Sources -> Maps(Definitions)] /\ applied' \in [Sources -> Nat \cup {-1}]
      /\ members'[s] = call.endpoints /\ \A t \in Sources \ {s} : members'[t] = members[t]
      /\ applied'[s] = call.generation /\ \A t \in Sources \ {s} : applied'[t] = applied[t]
  BY Zenon, SMTT(20), <1>1, <1>2, <1>3
<1>5. \A i : i \in Advertised' <=> i \in DOMAIN call.endpoints \/ OtherSources(s, i) # {}
  BY <1>4 DEF Advertised, OtherSources
<1>6. \A i : i \in Advertised <=> i \in DOMAIN members[s] \/ OtherSources(s, i) # {}
  BY DEF Advertised, OtherSources
<1>7. /\ lifecycle' \in Maps({"active", "draining"})
      /\ DOMAIN lifecycle' = DOMAIN lifecycle \cup call.activated \cup call.draining
      /\ \A i \in call.draining : lifecycle'[i] = "draining"
      /\ \A i \in call.activated \ call.draining : lifecycle'[i] = "active"
      /\ \A i \in DOMAIN lifecycle \ (call.activated \cup call.draining) : lifecycle'[i] = lifecycle[i]
  BY LifecycleRecorded
<1>8. /\ \A i \in call.draining : i \notin DOMAIN call.endpoints /\ OtherSources(s, i) = {}
      /\ \A i \in DOMAIN call.endpoints : i \in call.activated \/ i \in Advertised
      /\ \A i \in DOMAIN members[s] :
            i \in DOMAIN call.endpoints \/ OtherSources(s, i) # {} \/ i \in DOMAIN deadlines
      /\ \A i \in Advertised \cap DOMAIN lifecycle : lifecycle[i] = "active"
  BY Zenon, SMTT(20), <1>1, <1>2 DEF DiscoveryInv, CallInv
<1>9. DiscoveryTypes'
  BY Zenon, SMTT(20), <1>1, <1>4, <1>7 DEF DiscoveryInv, DiscoveryTypes
<1>10. CallInv'
  <2>1. \A i \in Advertised' \cap DOMAIN lifecycle' : lifecycle'[i] = "active"
    BY Zenon, SMTT(20), <1>5, <1>6, <1>7, <1>8
  <2>2. registry # Absent => \A i \in DOMAIN registry :
           i \in Advertised \/ i \in DOMAIN deadlines \/ i \in DOMAIN call.endpoints
    BY DEF DiscoveryInv, CallInv
  <2>3. registry # Absent => \A i \in DOMAIN registry : i \in Advertised' \/ i \in DOMAIN deadlines
    BY <1>5, <1>6, <1>8, <2>2
  <2>. QED
    BY Zenon, SMTT(20), <1>1, <2>1, <2>3 DEF CallInv
<1>11. StoryInv'
  <2>. SUFFICES ASSUME ~disturbed PROVE registry # Absent /\ \A i \in Ids : Settled(i)'
    BY SMTT(20), Zenon, <1>1 DEF StoryInv
  <2>1. registry # Absent /\ \A i \in Ids : Handled(i)
    BY <1>1 DEF DiscoveryInv, StoryInv, Pending
  <2>2. ASSUME NEW i \in Ids PROVE Settled(i)'
    <3>1. /\ ReadyAt(i) => ReadyAt(i)' /\ (DrainingAt(i) => DrainingAt(i)') /\ (GoneAt(i) => GoneAt(i)')
      BY <1>1 DEF ReadyAt, DrainingAt, GoneAt
    <3>2. CASE /\ i \in DOMAIN call.endpoints \/ OtherSources(call.source, i) # {}
               /\ ReadyAt(i) /\ i \notin call.draining
               /\ i \in call.activated \/ Life(i, "active")
               /\ \/ i \in DOMAIN call.endpoints /\ registry[i].def = call.endpoints[i]
                  \/ DefinedBy(Sources \ {call.source}, i)
      <4>1. i \in Advertised' /\ ReadyAt(i)'
        BY Zenon, SMTT(20), <1>1, <1>2, <1>5, <3>2 DEF ReadyAt
      <4>2. Life(i, "active")'
        BY Zenon, SMTT(20), <1>7, <3>2 DEF Life
      <4>3. DefinedBy(Sources, i)'
        BY <1>1, <1>2, <1>4, <3>2 DEF DefinedBy
      <4>. QED
        BY <4>1, <4>2, <4>3 DEF Settled
    <3>3. CASE /\ i \notin DOMAIN call.endpoints /\ OtherSources(call.source, i) = {}
               /\ i \notin call.activated
               /\ \/ DrainingAt(i) /\ i \in call.draining /\ Life(i, "active")
                  \/ DrainingAt(i) /\ i \notin call.draining /\ Life(i, "draining")
                  \/ GoneAt(i) /\ i \notin call.draining /\ i \notin DOMAIN lifecycle
      <4>1. i \notin Advertised'
        BY <1>2, <1>5, <3>3
      <4>2. \/ DrainingAt(i) /\ Life(i, "draining")'
            \/ GoneAt(i) /\ i \notin DOMAIN lifecycle'
        BY Zenon, SMTT(20), <1>7, <3>3 DEF Life
      <4>3. \/ DrainingAt(i)' /\ Life(i, "draining")'
            \/ GoneAt(i)' /\ i \notin DOMAIN lifecycle'
        BY <1>1, <4>2 DEF DrainingAt, GoneAt
      <4>. QED
        BY SMTT(20), Zenon, <4>1, <4>3 DEF Settled
    <3>. QED
      BY Zenon, SMTT(20), <2>1, <3>2, <3>3 DEF Handled
  <2>. QED
    BY SMTT(20), Zenon, <2>1, <2>2
<1>12. NewestInv'
  <2>. SUFFICES ASSUME ~disturbed, NEW t \in Sources, HasMonotonicGenerations(t)
                PROVE  /\ applied'[t] = -1 \/ (applied'[t] \in Valid(t) /\ members'[t] = received[t][applied'[t]])
                       /\ \A g \in Valid(t) : g <= applied'[t]
    BY Zenon, SMTT(20), <1>1 DEF NewestInv, Valid, HasMonotonicGenerations
  <2>1. /\ applied[t] = -1 \/ (applied[t] \in Valid(t) /\ members[t] = received[t][applied[t]])
        /\ \A g \in Valid(t) :
               g <= applied[t] \/ (call.source = t /\ call.generation = g)
        /\ call.source = t =>
               /\ call.generation \in Valid(t) /\ call.endpoints = received[t][call.generation]
               /\ applied[t] <= call.generation
    BY Zenon, SMTT(20), <1>1 DEF DiscoveryInv, NewestInv
  <2>2. CASE t # s
    BY Zenon, SMTT(20), <1>2, <1>4, <2>1, <2>2
  <2>3. CASE t = s
    <3>1. \A g \in Valid(t) : g \in Nat
      BY DEF Valid, DiscoveryInv, DiscoveryTypes
    <3>2. applied[t] \in Int /\ call.generation \in Int
      BY <1>3
    <3>3. \A g \in Valid(t) : g <= call.generation
      BY <1>2, <2>1, <2>3, <3>1, <3>2
    <3>. QED
      BY Zenon, SMTT(20), <1>2, <1>4, <2>1, <2>3, <3>3
  <2>. QED
    BY Zenon, SMTT(20), <2>2, <2>3
<1>13. UpdatesSucceed'
  BY <1>1 DEF UpdatesSucceed
<1>. QED
  BY Zenon, SMTT(20), <1>9, <1>10, <1>11, <1>12, <1>13 DEF DiscoveryInv

(* What advance_time does, and that the drain windows it ends were over.   *)
LEMMA AdvanceTimeInv ==
    ASSUME DiscoveryInv, AdvanceTime
    PROVE  /\ DiscoveryInv'
           /\ (registry # Absent /\ registry' # Absent) =>
                \A i \in DOMAIN registry \ DOMAIN registry' :
                   /\ i \in DOMAIN deadlines /\ deadlines[i] <= now'
                   /\ disturbed \/ i \notin Advertised
<1>1. /\ call = NoCall /\ now < MaxNow /\ now' = now + 1
      /\ deadlines' = Drop(deadlines, Expired(now'))
      /\ lifecycle' = Drop(lifecycle, Expired(now'))
      /\ registry' = IF registry = Absent THEN Absent ELSE Drop(registry, Expired(now'))
      /\ UNCHANGED <<members, applied, call, outcome, received, disturbed>>
  BY DEF AdvanceTime, RecordRemoved
<1>2. PICK X : X = Expired(now') /\ X \subseteq DOMAIN deadlines /\ \A i \in X : deadlines[i] <= now'
  <2>1. Expired(now') \subseteq DOMAIN deadlines /\ \A i \in Expired(now') : deadlines[i] <= now'
    BY DEF Expired
  <2>. QED
    BY Zenon, SMTT(20), <2>1
<1>3. /\ deadlines \in Maps(Nat) /\ lifecycle \in Maps({"active", "draining"})
      /\ registry \in Registries \cup {Absent} /\ now \in 0..MaxNow
  BY DEF DiscoveryInv, DiscoveryTypes
<1>4. deadlines' \in Maps(Nat) /\ DOMAIN deadlines' = DOMAIN deadlines \ X
  <2>1. deadlines' = Drop(deadlines, X)
    BY Zenon, SMTT(20), <1>1, <1>2
  <2>. QED
    BY Zenon, SMTT(20), <1>3, <2>1, DropMap
<1>5. /\ lifecycle' \in Maps({"active", "draining"}) /\ DOMAIN lifecycle' = DOMAIN lifecycle \ X
      /\ \A i \in DOMAIN lifecycle \ X : lifecycle'[i] = lifecycle[i]
  <2>1. lifecycle' = Drop(lifecycle, X)
    BY Zenon, SMTT(20), <1>1, <1>2
  <2>2. ASSUME NEW R, lifecycle \in Maps(R)
        PROVE  /\ lifecycle' \in Maps(R) /\ DOMAIN lifecycle' = DOMAIN lifecycle \ X
               /\ \A i \in DOMAIN lifecycle \ X : lifecycle'[i] = lifecycle[i]
    BY <2>1, <2>2, DropMap
  <2>. QED
    BY Zenon, SMTT(20), <1>3, <2>2
<1>6. /\ registry' \in Registries \cup {Absent} /\ (registry' = Absent <=> registry = Absent)
      /\ registry # Absent =>
            /\ DOMAIN registry' = DOMAIN registry \ X
            /\ \A i \in DOMAIN registry \ X : registry'[i] = registry[i]
  <2>1. CASE registry = Absent
    BY <1>1, <2>1
  <2>2. CASE registry # Absent
    <3>1. registry \in Registries /\ registry' = Drop(registry, X)
      BY <1>1, <1>2, <1>3, <2>2
    <3>2. /\ registry' \in Registries /\ DOMAIN registry' = DOMAIN registry \ X
          /\ \A i \in DOMAIN registry \ X : registry'[i] = registry[i]
      BY SMTT(20), Zenon, <3>1, DropMap DEF Registries
    <3>. QED
      BY <2>2, <3>2, DiscoveryAssumption DEF DiscoveryAssumption
  <2>. QED
    BY <2>1, <2>2
<1>7. now' \in 0..MaxNow
  BY <1>1, <1>3, DiscoveryAssumption DEF DiscoveryAssumption
<1>8. Advertised' = Advertised
  BY <1>1 DEF Advertised
<1>9. ASSUME ~disturbed PROVE registry # Absent /\ \A i \in Ids : Settled(i)
  BY <1>1, <1>9 DEF DiscoveryInv, StoryInv
<1>10. DiscoveryTypes'
  BY Zenon, SMTT(20), <1>1, <1>4, <1>5, <1>6, <1>7 DEF DiscoveryInv, DiscoveryTypes
<1>11. CallInv'
  BY <1>1, <1>2, <1>4, <1>5, <1>6, <1>8 DEF DiscoveryInv, CallInv
<1>12. StoryInv'
  <2>. SUFFICES ASSUME ~disturbed, NEW i \in Ids PROVE registry' # Absent /\ Settled(i)'
    BY Zenon, SMTT(20), <1>1, <1>6, <1>9 DEF StoryInv
  <2>1. registry # Absent /\ Settled(i)
    BY SMTT(20), Zenon, <1>9
  <2>2. CASE i \in X
    <3>1. i \notin Advertised
      BY <1>2, <2>1, <2>2 DEF Settled, ReadyAt, GoneAt
    <3>. QED
      BY Zenon, SMTT(20), <1>4, <1>5, <1>6, <1>8, <2>1, <2>2, <3>1 DEF Settled, GoneAt
  <2>3. CASE i \notin X
    <3>1. /\ i \in DOMAIN registry' <=> i \in DOMAIN registry
          /\ i \in DOMAIN registry => registry'[i] = registry[i]
          /\ i \in DOMAIN deadlines' <=> i \in DOMAIN deadlines
          /\ i \in DOMAIN lifecycle' <=> i \in DOMAIN lifecycle
          /\ i \in DOMAIN lifecycle => lifecycle'[i] = lifecycle[i]
      BY <1>4, <1>5, <1>6, <2>1, <2>3
    <3>2. Settled(i)'
      BY Zenon, SMTT(20), <1>1, <1>8, <2>1, <3>1 DEF Settled, ReadyAt, DrainingAt, GoneAt, Life, DefinedBy
    <3>. QED
      BY <1>6, <2>1, <3>2
  <2>. QED
    BY <2>2, <2>3
<1>13. NewestInv' /\ UpdatesSucceed'
  BY Zenon, SMTT(20), <1>1 DEF DiscoveryInv, NewestInv, Valid, UpdatesSucceed, HasMonotonicGenerations
<1>14. ASSUME registry # Absent, registry' # Absent, NEW i \in DOMAIN registry \ DOMAIN registry'
       PROVE  /\ i \in DOMAIN deadlines /\ deadlines[i] <= now'
              /\ disturbed \/ i \notin Advertised
  <2>1. i \in X
    BY <1>6, <1>14
  <2>2. i \in Ids
    BY <1>14, MembersShape
  <2>3. ~disturbed => i \notin Advertised
    BY <1>2, <1>9, <2>1, <2>2 DEF Settled, ReadyAt
  <2>. QED
    BY <1>2, <2>1, <2>3
<1>. QED
  BY <1>10, <1>11, <1>12, <1>13, <1>14 DEF DiscoveryInv

(* A snapshot arrives: it is refused, or opens a call that has every       *)
(* difference between the snapshot and the memberships still to handle.    *)
LEMMA DeliverInv ==
    ASSUME DiscoveryInv, NEW s \in Sources, NEW g \in Nat, NEW endpoints \in Maps(Definitions),
           Deliver(s, g, endpoints)
    PROVE  DiscoveryInv' /\ UNCHANGED registry
<1>1. /\ call = NoCall
      /\ received' = [received EXCEPT ![s] = Put(received[s], g, endpoints)]
      /\ UNCHANGED <<members, applied, deadlines, lifecycle, registry, now, disturbed>>
      /\ (HasMonotonicGenerations(s) /\ g \in DOMAIN received[s]) => received[s][g] = endpoints
  BY Zenon, SMTT(20) DEF Deliver, ReconcileSnapshot
<1>2. DOMAIN received = Sources /\ \A t \in Sources : DOMAIN received[t] \subseteq Nat
  BY DEF DiscoveryInv, DiscoveryTypes
<1>3. /\ DOMAIN received' = Sources /\ received'[s] = Put(received[s], g, endpoints)
      /\ \A t \in Sources \ {s} : received'[t] = received[t]
  BY <1>1, <1>2
<1>4. /\ DOMAIN received'[s] = DOMAIN received[s] \cup {g} /\ received'[s][g] = endpoints
      /\ \A h \in DOMAIN received[s] \ {g} : received'[s][h] = received[s][h]
  BY Zenon, SMTT(20), <1>3 DEF Put
<1>5. \A t \in Sources : DOMAIN received'[t] \subseteq Nat
  BY <1>2, <1>3, <1>4
<1>6. \A t \in Sources \ {s} : Valid(t)' = Valid(t)
  BY <1>3 DEF Valid
<1>7. HasMonotonicGenerations(s) =>
         /\ Valid(s)' = IF Bad \in Range(endpoints) THEN Valid(s) ELSE Valid(s) \cup {g}
         /\ \A h \in DOMAIN received[s] : received'[s][h] = received[s][h]
  <2>. SUFFICES ASSUME HasMonotonicGenerations(s)
                PROVE  /\ Valid(s)' = IF Bad \in Range(endpoints) THEN Valid(s) ELSE Valid(s) \cup {g}
                       /\ \A h \in DOMAIN received[s] : received'[s][h] = received[s][h]
    OBVIOUS
  <2>1. \A h \in DOMAIN received[s] : received'[s][h] = received[s][h]
    BY Zenon, SMTT(20), <1>1, <1>4
  <2>2. Valid(s)' = {h \in DOMAIN received[s] \cup {g} : Bad \notin Range(received'[s][h])}
    BY <1>4 DEF Valid
  <2>3. \A h : h \in Valid(s)' <=> h \in Valid(s) \/ (h = g /\ Bad \notin Range(endpoints))
    BY Zenon, SMTT(20), <1>1, <1>4, <2>1, <2>2 DEF Valid
  <2>. QED
    BY <2>1, <2>3
<1>8. /\ ~disturbed => registry # Absent /\ \A i \in Ids : Settled(i)
      /\ \A i \in Advertised \cap DOMAIN lifecycle : lifecycle[i] = "active"
      /\ registry # Absent => \A i \in DOMAIN registry : i \in Advertised \/ i \in DOMAIN deadlines
  BY Zenon, SMTT(20), <1>1 DEF DiscoveryInv, StoryInv, CallInv
<1>9. /\ Advertised' = Advertised /\ \A t, i : OtherSources(t, i)' = OtherSources(t, i)
      /\ \A i : (ReadyAt(i)' <=> ReadyAt(i)) /\ (DrainingAt(i)' <=> DrainingAt(i)) /\ (GoneAt(i)' <=> GoneAt(i))
      /\ \A i, l : Life(i, l)' <=> Life(i, l)
      /\ \A S, i : DefinedBy(S, i)' <=> DefinedBy(S, i)
      /\ \A i : Settled(i)' <=> Settled(i)
  BY <1>1 DEF Advertised, OtherSources, ReadyAt, DrainingAt, GoneAt, Life, DefinedBy, Settled
<1>10. ASSUME ~disturbed, NEW t \in Sources, HasMonotonicGenerations(t)
       PROVE  /\ applied[t] = -1 \/ (applied[t] \in Valid(t) /\ members[t] = received[t][applied[t]])
              /\ \A h \in Valid(t) : h <= applied[t]
  BY Zenon, SMTT(20), <1>1, <1>10 DEF DiscoveryInv, NewestInv
<1>11. ASSUME ~disturbed, NEW t \in Sources, HasMonotonicGenerations(t)
       PROVE  applied'[t] = -1 \/ (applied'[t] \in Valid(t)' /\ members'[t] = received'[t][applied'[t]])
  <2>1. CASE t # s
    BY <1>1, <1>3, <1>6, <1>10, <1>11, <2>1
  <2>2. CASE t = s
    <3>1. \A h \in Valid(s) : h \in DOMAIN received[s]
      BY DEF Valid
    <3>. QED
      BY Zenon, SMTT(20), <1>1, <1>7, <1>10, <1>11, <2>2, <3>1
  <2>. QED
    BY SMTT(20), Zenon, <2>1, <2>2
<1>12. CASE Stale(s, g) \/ Bad \in Range(endpoints)
  <2>1. call' = call /\ outcome' \in {"stale", "invalid"}
    BY Zenon, SMTT(20), <1>12 DEF Deliver, ReconcileSnapshot
  <2>2. DiscoveryTypes'
    BY Zenon, SMTT(20), <1>1, <1>3, <1>5, <2>1 DEF DiscoveryInv, DiscoveryTypes
  <2>3. CallInv'
    BY Zenon, SMTT(20), <1>1, <1>8, <1>9, <2>1 DEF CallInv
  <2>4. StoryInv'
    BY Zenon, SMTT(20), <1>1, <1>8, <1>9, <2>1 DEF StoryInv
  <2>5. ASSUME ~disturbed, NEW t \in Sources, HasMonotonicGenerations(t), NEW h \in Valid(t)'
        PROVE  h <= applied'[t]
    <3>1. CASE t # s
      BY Zenon, SMTT(20), <1>1, <1>6, <1>10, <2>5, <3>1
    <3>2. CASE t = s
      <4>1. h \in Valid(s) \/ (h = g /\ Stale(s, g))
        BY <1>7, <1>12, <2>5, <3>2
      <4>2. applied[s] \in Nat \cup {-1}
        BY DEF DiscoveryInv, DiscoveryTypes
      <4>. QED
        BY SMTT(20), Zenon, <1>1, <1>10, <2>5, <3>2, <4>1, <4>2 DEF Stale
    <3>. QED
      BY <3>1, <3>2
  <2>6. NewestInv'
    BY Zenon, SMTT(20), <1>1, <1>11, <2>1, <2>5 DEF NewestInv, HasMonotonicGenerations
  <2>7. UpdatesSucceed'
    BY <2>1 DEF UpdatesSucceed
  <2>. QED
    BY <1>1, <2>2, <2>3, <2>4, <2>6, <2>7 DEF DiscoveryInv
<1>13. CASE ~Stale(s, g) /\ Bad \notin Range(endpoints)
  <2>1. /\ call' = [source |-> s, generation |-> g, endpoints |-> endpoints,
                    changed |-> {i \in DOMAIN endpoints :
                                   ~(i \in DOMAIN members[s] /\ members[s][i] = endpoints[i])},
                    removed |-> DOMAIN members[s] \ DOMAIN endpoints,
                    activated |-> {}, draining |-> {}]
        /\ UNCHANGED outcome
    BY Zenon, SMTT(20), <1>13 DEF Deliver, ReconcileSnapshot
  <2>2. DOMAIN endpoints \subseteq Ids /\ DOMAIN members[s] \subseteq Ids
    BY MapParts, MembersShape
  <2>3. /\ call'.source = s /\ call'.generation = g /\ call'.endpoints = endpoints
        /\ call'.changed = {i \in DOMAIN endpoints :
                              ~(i \in DOMAIN members[s] /\ members[s][i] = endpoints[i])}
        /\ call'.removed = DOMAIN members[s] \ DOMAIN endpoints
        /\ call'.activated = {} /\ call'.draining = {}
    BY Zenon, SMTT(20), <2>1
  <2>4. call' \in Calls
    <3>1. /\ {i \in DOMAIN endpoints :
                 ~(i \in DOMAIN members[s] /\ members[s][i] = endpoints[i])} \in SUBSET Ids
          /\ DOMAIN members[s] \ DOMAIN endpoints \in SUBSET Ids
      BY <2>2
    <3>. QED
      BY Zenon, SMTT(20), <2>1, <3>1 DEF Calls
  <2>5. call' # NoCall
    BY <2>4, DiscoveryAssumption DEF DiscoveryAssumption
  <2>6. DiscoveryTypes'
    BY Zenon, SMTT(20), <1>1, <1>3, <1>5, <2>1, <2>4 DEF DiscoveryInv, DiscoveryTypes
  <2>7. CallInv'
    <3>1. \A i \in DOMAIN members[s] : i \in Advertised
      BY DEF Advertised
    <3>. QED
      BY Zenon, SMTT(20), <1>1, <1>8, <1>9, <2>3, <2>5, <3>1 DEF CallInv
  <2>8. StoryInv'
    <3>. SUFFICES ASSUME ~disturbed, NEW i \in Ids
                  PROVE  (Pending(i)' /\ Untouched(i)') \/ (~Pending(i)' /\ Handled(i)')
      BY Zenon, SMTT(20), <1>1, <1>8, <2>5 DEF StoryInv
    <3>1. Settled(i) /\ Settled(i)'
      BY Zenon, SMTT(20), <1>8, <1>9
    <3>2. CASE Pending(i)'
      BY <2>3, <3>1, <3>2 DEF Untouched
    <3>3. CASE ~Pending(i)' /\ i \in DOMAIN endpoints
      <4>1. i \in DOMAIN members[s] /\ members[s][i] = endpoints[i] /\ i \in Advertised
        BY Zenon, SMTT(20), <2>3, <3>3 DEF Pending, Advertised
      <4>2. ReadyAt(i) /\ Life(i, "active") /\ DefinedBy(Sources, i)
        BY Zenon, SMTT(20), <3>1, <4>1 DEF Settled
      <4>3. registry[i].def = endpoints[i] \/ DefinedBy(Sources \ {s}, i)
        BY <4>1, <4>2 DEF DefinedBy
      <4>4. registry'[i].def = endpoints[i] \/ DefinedBy(Sources \ {s}, i)'
        BY Zenon, SMTT(20), <1>1, <1>9, <4>3
      <4>. QED
        BY Zenon, SMTT(20), <1>9, <2>3, <3>3, <4>2, <4>4 DEF Handled
    <3>4. CASE ~Pending(i)' /\ i \notin DOMAIN endpoints
      <4>1. i \notin DOMAIN members[s]
        BY <2>3, <3>4 DEF Pending
      <4>2. i \in Advertised <=> OtherSources(s, i) # {}
        BY <4>1 DEF Advertised, OtherSources
      <4>3. CASE i \in Advertised
        <5>1. ReadyAt(i) /\ Life(i, "active") /\ DefinedBy(Sources, i)
          BY SMTT(20), Zenon, <3>1, <4>3 DEF Settled
        <5>2. DefinedBy(Sources \ {s}, i)
          BY <4>1, <5>1 DEF DefinedBy
        <5>3. ReadyAt(i)' /\ Life(i, "active")' /\ DefinedBy(Sources \ {s}, i)' /\ OtherSources(s, i)' # {}
          BY <1>9, <4>2, <4>3, <5>1, <5>2
        <5>. QED
          BY Zenon, SMTT(20), <2>3, <3>4, <5>3 DEF Handled
      <4>4. CASE i \notin Advertised
        <5>1. \/ DrainingAt(i)' /\ Life(i, "draining")'
              \/ GoneAt(i)' /\ i \notin DOMAIN lifecycle'
          BY Zenon, SMTT(20), <1>1, <1>9, <3>1, <4>4 DEF Settled
        <5>2. OtherSources(s, i)' = {}
          BY <1>9, <4>2, <4>4
        <5>. QED
          BY Zenon, SMTT(20), <2>3, <3>4, <5>1, <5>2 DEF Handled
      <4>. QED
        BY <4>3, <4>4
    <3>. QED
      BY <3>2, <3>3, <3>4
  <2>9. ASSUME ~disturbed, NEW t \in Sources, HasMonotonicGenerations(t)
        PROVE  /\ \A h \in Valid(t)' : h <= applied'[t] \/ (t = s /\ h = g)
               /\ t = s => g \in Valid(t)' /\ endpoints = received'[t][g] /\ applied'[t] <= g
    <3>1. CASE t # s
      BY Zenon, SMTT(20), <1>1, <1>6, <1>10, <2>9, <3>1
    <3>2. CASE t = s
      <4>1. Valid(s)' = Valid(s) \cup {g}
        BY SMTT(20), Zenon, <1>7, <1>13, <2>9, <3>2
      <4>2. applied[s] \in Nat \cup {-1}
        BY DEF DiscoveryInv, DiscoveryTypes
      <4>3. applied[s] <= g
        BY SMTT(20), Zenon, <1>13, <2>9, <3>2, <4>2 DEF Stale
      <4>4. \A h \in Valid(s) : h <= applied[s]
        BY SMTT(20), Zenon, <1>10, <2>9, <3>2
      <4>. QED
        BY Zenon, SMTT(20), <1>1, <1>4, <3>2, <4>1, <4>3, <4>4
    <3>. QED
      BY <3>1, <3>2
  <2>10. NewestInv'
    BY <1>1, <1>11, <2>3, <2>5, <2>9 DEF NewestInv, HasMonotonicGenerations
  <2>11. UpdatesSucceed'
    BY Zenon, SMTT(20), <1>1, <2>1 DEF DiscoveryInv, UpdatesSucceed
  <2>. QED
    BY <1>1, <2>6, <2>7, <2>8, <2>10, <2>11 DEF DiscoveryInv
<1>. QED
  BY <1>1, <1>12, <1>13

(* A configuration reload removes the cluster or adds it again.            *)
LEMMA ClusterInv ==
    ASSUME DiscoveryInv, RemoveCluster \/ InsertCluster
    PROVE  DiscoveryInv'
<1>1. /\ UNCHANGED <<members, applied, deadlines, lifecycle, now, call, outcome, received>>
      /\ disturbed' = TRUE
      /\ registry' = Absent \/ registry' = Empty
  <2>1. CASE RemoveCluster
    BY <2>1 DEF RemoveCluster
  <2>2. CASE InsertCluster
    <3>1. disturbed
      BY <2>2 DEF InsertCluster, DiscoveryInv, StoryInv
    <3>2. disturbed = TRUE
      BY <3>1 DEF DiscoveryInv, DiscoveryTypes
    <3>. QED
      BY <2>2, <3>2 DEF InsertCluster
  <2>. QED
    BY Zenon, SMTT(20), <2>1, <2>2
<1>2. Empty \in Registries /\ DOMAIN Empty = {}
  BY EmptyMap DEF Registries
<1>3. DiscoveryTypes'
  BY Zenon, SMTT(20), <1>1, <1>2 DEF DiscoveryInv, DiscoveryTypes
<1>4. CallInv'
  <2>1. registry' # Absent => DOMAIN registry' = {}
    BY <1>1, <1>2
  <2>2. Advertised' = Advertised /\ \A t, i : OtherSources(t, i)' = OtherSources(t, i)
    BY <1>1 DEF Advertised, OtherSources
  <2>. QED
    BY Zenon, SMTT(20), <1>1, <2>1, <2>2 DEF DiscoveryInv, CallInv
<1>. QED
  BY Zenon, SMTT(20), <1>1, <1>3, <1>4 DEF DiscoveryInv, StoryInv, NewestInv, UpdatesSucceed

(* Before the first snapshot there is nothing.                             *)
LEMMA DiscoveryInitInv ==
    ASSUME DiscoveryInit
    PROVE  DiscoveryInv
<1>1. \A R : Empty \in Maps(R) /\ DOMAIN Empty = {}
  BY EmptyMap
<1>2. /\ members = [s \in Sources |-> Empty] /\ applied = [s \in Sources |-> -1]
      /\ deadlines = Empty /\ lifecycle = Empty /\ registry = Empty /\ now = 0 /\ call = NoCall
      /\ outcome = "none" /\ received = [s \in Sources |-> Empty] /\ disturbed = FALSE
  BY DEF DiscoveryInit
<1>3. Empty \in Registries /\ Empty # Absent
  BY <1>1, DiscoveryAssumption DEF DiscoveryAssumption, Registries
<1>4. now \in 0..MaxNow
  BY <1>2, DiscoveryAssumption DEF DiscoveryAssumption
<1>5. DiscoveryTypes
  BY Zenon, SMTT(20), <1>1, <1>2, <1>3, <1>4 DEF DiscoveryTypes
<1>6. Advertised = {}
  BY SMTT(20), Zenon, <1>1, <1>2 DEF Advertised
<1>7. CallInv
  BY <1>1, <1>2, <1>6 DEF CallInv
<1>8. StoryInv
  BY <1>1, <1>2, <1>3, <1>6 DEF StoryInv, Settled, GoneAt
<1>9. NewestInv
  BY <1>1, <1>2 DEF NewestInv, Valid
<1>. QED
  BY <1>2, <1>5, <1>7, <1>8, <1>9 DEF DiscoveryInv, UpdatesSucceed

(* Only advance_time takes an endpoint out of an existing cluster.         *)
DrainStep ==
    (registry # Absent /\ registry' # Absent) =>
        \A i \in DOMAIN registry \ DOMAIN registry' :
           /\ i \in DOMAIN deadlines /\ deadlines[i] <= now'
           /\ disturbed \/ i \notin Advertised

LEMMA NothingLeaves ==
    ASSUME DiscoveryInv, Continue
    PROVE  DrainStep
<1>1. CASE ChangeEndpoint
  <2>1. PICK i, x : registry' = registry \/ registry' = Put(registry, i, x)
    BY Zenon, SMTT(20), <1>1, ChangeOutcome
  <2>. QED
    BY <2>1 DEF DrainStep, Put
<1>2. CASE RemoveEndpoint
  <2>1. PICK i, x : \/ registry' = registry \/ registry' = Put(registry, i, x)
                    \/ registry' = [registry EXCEPT ![i].state = "draining"]
    BY Zenon, SMTT(20), <1>2, RemoveOutcome
  <2>2. DOMAIN registry \subseteq DOMAIN registry'
    BY SMTT(20), Zenon, <2>1 DEF Put
  <2>. QED
    BY <2>2 DEF DrainStep
<1>3. CASE FinishReconcile
  BY <1>3 DEF FinishReconcile, DrainStep
<1>. QED
  BY <1>1, <1>2, <1>3 DEF Continue

(* Every step keeps the invariant and honours the drain windows.           *)
LEMMA DiscoveryStep ==
    ASSUME DiscoveryInv, [DiscoveryNext]_discoveryVars
    PROVE  DiscoveryInv' /\ (UNCHANGED discoveryVars \/ DrainStep)
<1>1. CASE \E s \in Sources, g \in Nat, endpoints \in Maps(Definitions) : Deliver(s, g, endpoints)
  <2>1. DiscoveryInv' /\ UNCHANGED registry
    BY Zenon, SMTT(20), <1>1, DeliverInv
  <2>. QED
    BY <2>1 DEF DrainStep
<1>2. CASE Continue
  <2>1. DiscoveryInv'
    BY Zenon, SMTT(20), <1>2, ChangeEndpointInv, RemoveEndpointInv, FinishReconcileInv DEF Continue
  <2>. QED
    BY Zenon, SMTT(20), <1>2, <2>1, NothingLeaves
<1>3. CASE AdvanceTime
  BY Zenon, SMTT(20), <1>3, AdvanceTimeInv DEF DrainStep
<1>4. CASE RemoveCluster \/ InsertCluster
  <2>1. registry = Absent \/ registry' = Absent
    BY <1>4 DEF RemoveCluster, InsertCluster
  <2>. QED
    BY Zenon, SMTT(20), <1>4, <2>1, ClusterInv DEF DrainStep
<1>5. CASE UNCHANGED discoveryVars
  <2>1. UNCHANGED <<members, applied, deadlines, lifecycle, registry, now, call, outcome, received, disturbed>>
    BY <1>5 DEF discoveryVars
  <2>2. DiscoveryTypes' /\ UpdatesSucceed'
    BY Zenon, SMTT(20), <2>1 DEF DiscoveryInv, DiscoveryTypes, UpdatesSucceed
  <2>3. CallInv'
    BY <2>1 DEF DiscoveryInv, CallInv, Advertised, OtherSources
  <2>4. ASSUME NEW i \in Ids
        PROVE  /\ (Settled(i)' <=> Settled(i)) /\ (Untouched(i)' <=> Untouched(i))
               /\ (Handled(i)' <=> Handled(i)) /\ (Pending(i)' <=> Pending(i))
    <3>1. (Pending(i)' <=> Pending(i)) /\ Advertised' = Advertised
      BY <2>1 DEF Pending, Advertised
    <3>2. /\ DefinedBy(Sources, i)' <=> DefinedBy(Sources, i)
          /\ (DefinedBy(Sources \ {call.source}, i))' <=> DefinedBy(Sources \ {call.source}, i)
      BY <2>1 DEF DefinedBy
    <3>3. OtherSources(call.source, i)' = OtherSources(call.source, i)
      BY <2>1 DEF OtherSources
    <3>4. /\ (ReadyAt(i)' <=> ReadyAt(i)) /\ (DrainingAt(i)' <=> DrainingAt(i)) /\ (GoneAt(i)' <=> GoneAt(i))
          /\ (Life(i, "active")' <=> Life(i, "active")) /\ (Life(i, "draining")' <=> Life(i, "draining"))
      BY <2>1 DEF ReadyAt, DrainingAt, GoneAt, Life
    <3>5. Settled(i)' <=> Settled(i)
      BY Zenon, SMTT(20), <2>1, <3>1, <3>2, <3>4 DEF Settled
    <3>6. Untouched(i)' <=> Untouched(i)
      BY Zenon, SMTT(20), <2>1, <3>5 DEF Untouched
    <3>7. Handled(i)' <=> Handled(i)
      BY Zenon, SMTT(20), <2>1, <3>2, <3>3, <3>4 DEF Handled
    <3>. QED
      BY Zenon, SMTT(20), <3>1, <3>5, <3>6, <3>7
  <2>5. StoryInv'
    <3>1. CASE call = NoCall
      <4>. SUFFICES ASSUME ~disturbed, NEW i \in Ids PROVE registry' # Absent /\ Settled(i)'
        BY <2>1, <3>1 DEF DiscoveryInv, StoryInv
      <4>. QED
        BY <2>1, <2>4, <3>1 DEF DiscoveryInv, StoryInv
    <3>2. CASE call # NoCall
      <4>. SUFFICES ASSUME ~disturbed, NEW i \in Ids
                    PROVE  registry' # Absent /\ ((Pending(i) /\ Untouched(i)) \/ (~Pending(i) /\ Handled(i)))'
        BY Zenon, SMTT(20), <2>1, <3>2 DEF DiscoveryInv, StoryInv
      <4>. QED
        BY Zenon, SMTT(20), <2>1, <2>4, <3>2 DEF DiscoveryInv, StoryInv
    <3>. QED
      BY <3>1, <3>2
  <2>6. NewestInv'
    BY Zenon, SMTT(20), <2>1 DEF DiscoveryInv, NewestInv, Valid, HasMonotonicGenerations
  <2>. QED
    BY Zenon, SMTT(20), <1>5, <2>2, <2>3, <2>5, <2>6 DEF DiscoveryInv
<1>. QED
  BY Zenon, SMTT(20), <1>1, <1>2, <1>3, <1>4, <1>5 DEF DiscoveryNext

(* What the invariant says of the state between calls.                     *)
LEMMA DiscoveryInvSays ==
    ASSUME DiscoveryInv
    PROVE  DiscoveryTypeOK /\ OneStory /\ UpdatesSucceed /\ NewestWins
<1>1. DiscoveryTypeOK
  <2>1. \A i \in DOMAIN lifecycle : lifecycle[i] \in {"active", "draining"}
    BY Zenon, SMTT(20), MapParts DEF DiscoveryInv, DiscoveryTypes
  <2>2. Range(lifecycle) \subseteq {"active", "draining"}
    BY Zenon, SMTT(20), <2>1 DEF Range
  <2>. QED
    BY Zenon, SMTT(20), <2>2, MembersShape DEF DiscoveryTypeOK, DiscoveryInv, DiscoveryTypes
<1>2. OneStory
  <2>. SUFFICES ASSUME call = NoCall, ~disturbed PROVE OneStory
    BY DEF OneStory
  <2>1. registry # Absent /\ \A i \in Ids : Settled(i)
    BY DEF DiscoveryInv, StoryInv
  <2>2. /\ DOMAIN registry \subseteq Ids /\ DOMAIN deadlines \subseteq Ids
        /\ DOMAIN lifecycle \subseteq Ids /\ Advertised \subseteq Ids
    BY <2>1, MembersShape
  <2>3. \A i \in Ids : /\ i \in DOMAIN registry <=> i \in Advertised \/ i \in DOMAIN deadlines
                       /\ ~(i \in Advertised /\ i \in DOMAIN deadlines)
                       /\ i \in DOMAIN lifecycle <=> i \in DOMAIN registry
    BY <2>1 DEF Settled, ReadyAt, DrainingAt, GoneAt, Life
  <2>4. \A i \in Advertised :
           /\ registry[i].state = "ready" /\ lifecycle[i] = "active"
           /\ \E s \in Sources : i \in DOMAIN members[s] /\ registry[i].def = members[s][i]
    BY Zenon, SMTT(20), <2>1, <2>2 DEF Settled, ReadyAt, Life, DefinedBy
  <2>5. \A i \in DOMAIN deadlines : registry[i].state = "draining" /\ lifecycle[i] = "draining"
    BY <2>1, <2>2 DEF Settled, ReadyAt, DrainingAt, GoneAt, Life
  <2>6. /\ DOMAIN registry = Advertised \cup DOMAIN deadlines
        /\ Advertised \cap DOMAIN deadlines = {} /\ DOMAIN lifecycle = DOMAIN registry
    BY <2>2, <2>3
  <2>. QED
    BY Zenon, SMTT(20), <2>4, <2>5, <2>6 DEF OneStory
<1>3. NewestWins
  <2>. SUFFICES ASSUME call = NoCall, ~disturbed, NEW s \in Sources, HasMonotonicGenerations(s),
                       Valid(s) # {}
                PROVE  members[s] = received[s][Max(Valid(s))]
    BY Zenon, SMTT(20) DEF NewestWins, Valid
  <2>1. /\ applied[s] = -1 \/ (applied[s] \in Valid(s) /\ members[s] = received[s][applied[s]])
        /\ \A g \in Valid(s) : g <= applied[s]
    BY DEF DiscoveryInv, NewestInv
  <2>2. applied[s] \in Nat \cup {-1} /\ Valid(s) \subseteq Nat
    BY DEF DiscoveryInv, DiscoveryTypes, Valid
  <2>3. applied[s] \in Valid(s) /\ \A g \in Valid(s) : applied[s] >= g
    BY <2>1, <2>2
  <2>4. Max(Valid(s)) \in Valid(s) /\ \A g \in Valid(s) : Max(Valid(s)) >= g
    BY Zenon, SMTT(20), <2>3 DEF Max
  <2>5. Max(Valid(s)) = applied[s]
    BY <2>2, <2>3, <2>4
  <2>. QED
    BY <2>1, <2>2, <2>3, <2>5
<1>. QED
  BY <1>1, <1>2, <1>3 DEF DiscoveryInv

(* DiscoverySound for any number of sources, endpoints and generations, in *)
(* whatever order the snapshots arrive and with the cluster removed and    *)
(* added at any moment (discovery.rs:244-435).                             *)
THEOREM DiscoverySoundKept == DiscoverySpec => DiscoverySound
<1>1. DiscoveryInit => DiscoveryInv
  BY Zenon, SMTT(20), DiscoveryInitInv
<1>2. DiscoveryInv /\ [DiscoveryNext]_discoveryVars => DiscoveryInv'
  BY Zenon, SMTT(20), DiscoveryStep
<1>3. DiscoveryInv => DiscoveryTypeOK /\ OneStory /\ UpdatesSucceed /\ NewestWins
  BY Zenon, SMTT(20), DiscoveryInvSays
<1>4. DiscoveryInv /\ [DiscoveryNext]_discoveryVars =>
         [(registry # Absent /\ registry' # Absent) =>
            \A i \in DOMAIN registry \ DOMAIN registry' :
               /\ i \in DOMAIN deadlines /\ deadlines[i] <= now'
               /\ disturbed \/ i \notin Advertised]_discoveryVars
  BY Zenon, SMTT(20), DiscoveryStep DEF DrainStep
<1>. QED
  BY <1>1, <1>2, <1>3, <1>4, PTL DEF DiscoverySpec, DiscoverySound, DrainHonoured

=============================================================================

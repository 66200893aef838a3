----------------------------- MODULE Leadership -----------------------------
(***************************************************************************)
(* LeadershipCoordinator (binaries/lb-k8s-controller/src/main.rs) in       *)
(* several replicas that compete for one Lease object.                     *)
(*                                                                         *)
(* The Lease lives in the API server: reading it and the conditional       *)
(* update that carries out the returned LeaseAction are external, and time *)
(* passes between the read, the evaluation and the update.  Instants are   *)
(* kept as ages, which stop counting once they are past every deadline.    *)
(***************************************************************************)
EXTENDS Integers

CONSTANTS
    Replicas,
    LeaseDuration,
    RenewDeadline,
    Nobody,       \* no holder
    NoLease       \* nothing was read yet

(* ControllerConfig::from_env_map refuses other timings.                   *)
ASSUME TimingAssumption ==
    /\ LeaseDuration \in Nat
    /\ RenewDeadline \in Nat
    /\ RenewDeadline < LeaseDuration

VARIABLES
    lease,        \* [holder, age of renew_time]
    observed,     \* what each replica last read, NoLease when it has used it
    state,        \* LeadershipState
    action,       \* the LeaseAction that is to be carried out
    against,      \* the lease that the conditional update expects
    since         \* how long ago state was set to leader

vars == <<lease, observed, state, action, against, since>>

MaxAge == LeaseDuration + 1
Ages == 0..MaxAge
Older(a) == IF a < MaxAge THEN a + 1 ELSE a
LeaseRecord == [holder : Replicas \cup {Nobody}, age : Ages]

ASSUME IdentityAssumption == Nobody \notin Replicas /\ NoLease \notin LeaseRecord

IsExpired(l) == l.holder = Nobody \/ l.age > LeaseDuration

Init ==
    /\ lease = [holder |-> Nobody, age |-> MaxAge]
    /\ observed = [r \in Replicas |-> NoLease]
    /\ state = [r \in Replicas |-> "starting"]
    /\ action = [r \in Replicas |-> "standby"]
    /\ against = [r \in Replicas |-> NoLease]
    /\ since = [r \in Replicas |-> MaxAge]

(* The replica reads the Lease (external).                                 *)
ReadLease(r) ==
    /\ action[r] \in {"standby", "fence"}
    /\ observed[r] = NoLease
    /\ observed' = [observed EXCEPT ![r] = lease]
    /\ UNCHANGED <<lease, state, action, against, since>>

BecomeLeader(r) == since' = [since EXCEPT ![r] = 0]

MutantEvaluateUntilExpiry(r, l) ==
    IF l.holder = r
    THEN IF l.age > LeaseDuration THEN <<"lost", "fence">> ELSE <<"leader", "renew">>
    ELSE IF ~IsExpired(l)
         THEN IF state[r] = "leader" THEN <<"lost", "fence">> ELSE <<"follower", "standby">>
    ELSE IF state[r] = "leader" THEN <<"lost", "fence">>
    ELSE IF state[r] = "relinquishing" THEN <<"follower", "standby">>
    ELSE <<"starting", "acquire">>

(* evaluate: the new state and the action, from the lease that was read.   *)
Verdict(r, l) ==
    IF l.holder = r
    THEN IF l.age > RenewDeadline THEN <<"lost", "fence">> ELSE <<"leader", "renew">>
    ELSE IF ~IsExpired(l)
         THEN IF state[r] = "leader" THEN <<"lost", "fence">> ELSE <<"follower", "standby">>
    ELSE IF state[r] = "leader" THEN <<"lost", "fence">>
    ELSE IF state[r] = "relinquishing" THEN <<"follower", "standby">>
    ELSE <<"starting", "acquire">>

Evaluate(r) ==
    /\ observed[r] # NoLease
    /\ LET verdict == Verdict(r, observed[r]) IN
       /\ state' = [state EXCEPT ![r] = verdict[1]]
       /\ action' = [action EXCEPT ![r] = verdict[2]]
       /\ since' = [since EXCEPT ![r] = IF verdict[1] = "leader" THEN 0 ELSE @]
    /\ against' = [against EXCEPT ![r] = observed[r]]
    /\ observed' = [observed EXCEPT ![r] = NoLease]
    /\ UNCHANGED lease

(* The update of the Lease (external) succeeds only on the lease that was  *)
(* evaluated; record_acquired follows a successful acquisition.            *)
WriteLease(r) ==
    /\ action[r] \in {"acquire", "renew", "release"}
    /\ action' = [action EXCEPT ![r] = "standby"]
    /\ IF lease = against[r]
       THEN /\ lease' = [holder |-> IF action[r] = "release" THEN Nobody ELSE r, age |-> 0]
            /\ IF action[r] = "acquire"
               THEN state' = [state EXCEPT ![r] = "leader"] /\ BecomeLeader(r)
               ELSE UNCHANGED <<state, since>>
       ELSE UNCHANGED <<lease, state, since>>
    /\ against' = [against EXCEPT ![r] = NoLease]
    /\ UNCHANGED observed

(* begin_relinquish: only a leader has something to release, and it        *)
(* releases the lease that it holds now.                                   *)
BeginRelinquish(r) ==
    /\ state[r] \in {"leader", "relinquishing"}
    /\ action[r] = "standby"
    /\ state' = [state EXCEPT ![r] = "relinquishing"]
    /\ observed' = [observed EXCEPT ![r] = NoLease]
    /\ IF lease.holder = r
       THEN /\ action' = [action EXCEPT ![r] = "release"]
            /\ against' = [against EXCEPT ![r] = lease]
       ELSE UNCHANGED <<action, against>>
    /\ UNCHANGED <<lease, since>>

Aged(l) == IF l = NoLease THEN l ELSE [l EXCEPT !.age = Older(@)]

Tick ==
    /\ lease' = Aged(lease)
    /\ observed' = [r \in Replicas |-> Aged(observed[r])]
    /\ against' = [r \in Replicas |-> Aged(against[r])]
    /\ since' = [r \in Replicas |-> Older(since[r])]
    /\ UNCHANGED <<state, action>>

Step(r) == ReadLease(r) \/ Evaluate(r) \/ WriteLease(r)

Next ==
    \/ \E r \in Replicas : Step(r) \/ BeginRelinquish(r)
    \/ Tick

Spec == Init /\ [][Next]_vars

----------------------------------------------------------------------------
TypeOK ==
    /\ lease \in LeaseRecord
    /\ observed \in [Replicas -> LeaseRecord \cup {NoLease}]
    /\ against \in [Replicas -> LeaseRecord \cup {NoLease}]
    /\ state \in [Replicas -> {"starting", "follower", "leader", "relinquishing", "lost"}]
    /\ action \in [Replicas -> {"acquire", "renew", "release", "standby", "fence"}]
    /\ since \in [Replicas -> Ages]

(* A replica may write for LeaseDuration - RenewDeadline after it was      *)
(* confirmed as the leader.                                                *)
Confirmed(r) == state[r] = "leader" /\ since[r] <= LeaseDuration - RenewDeadline

(* The Lease fences the write-bearing reconcile work (drive_once,          *)
(* main.rs:576): no two replicas are confirmed leaders at once, however    *)
(* old the lease was that they had read and however their updates race.    *)
WritesFenced ==
    \A r, q \in Replicas : Confirmed(r) /\ Confirmed(q) => r = q
=============================================================================

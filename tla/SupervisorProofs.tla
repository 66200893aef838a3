--------------------------- MODULE SupervisorProofs ---------------------------
(***************************************************************************)
(* The supervisor, for any configurations, listeners, admin connections,   *)
(* edits, failures and crashes: reloads and warm restarts keep the         *)
(* listeners accounted for, and the journal never names as applied a       *)
(* configuration that has not served.                                      *)
(***************************************************************************)
EXTENDS SupervisorListenerProofs

----------------------------------------------------------------------------
(* The swap                                                                *)

(* The listener started for a name is the only one.                        *)
LEMMA StartedFacts ==
    ASSUME Inv, op # None, op.at = "start"
    PROVE  /\ \A n : StartedFor(n) # {} <=> n \in StartedNames
           /\ \A n : \A i, j \in StartedFor(n) : i = j
           /\ \A n : \A i \in StartedFor(n) :
                /\ i \in Range(op.started) /\ i \in SocketIds /\ i \notin InSlots
                /\ sockets[i] = [name |-> n, spec |-> ListenersOf[op.config][n], state |-> "running"]
           /\ StartedNames \subseteq DOMAIN ListenersOf[op.config]
<1>1. \A n : StartedFor(n) # {} <=> n \in StartedNames
  BY SMTT(20), Zenon DEF StartedFor, StartedNames
<1>2. /\ \A j, k \in DOMAIN op.started : sockets[op.started[j]].name = sockets[op.started[k]].name => j = k
      /\ \A j \in Range(op.started) :
            sockets[j].name \in DOMAIN ListenersOf[op.config] /\ sockets[j].spec = ListenersOf[op.config][sockets[j].name]
  BY SMTT(20), Zenon DEF Inv, ListenersInv, Staging
<1>3. \A n : \A i, j \in StartedFor(n) : i = j
  BY <1>2 DEF StartedFor, Range
<1>4. Range(op.started) \subseteq InOp /\ InOp \subseteq SocketIds
  BY OwnedIds DEF InOp, Inv
<1>5. op.queue = <<>>
  BY DEF Inv, ListenersInv, Holdings
<1>6. Signalling \subseteq InStop
  <2>1. First(op.queue) = {}
    BY <1>5 DEF First
  <2>2. stopping # None => First(stopping) \subseteq InStop
    BY SMTT(20), Zenon, OwnedIds, EmptyQueue DEF Inv, InStop
  <2> QED
    BY <2>1, <2>2 DEF Signalling
<1>7. ASSUME NEW i \in Range(op.started)
      PROVE  /\ i \in SocketIds /\ i \notin InSlots
             /\ sockets[i] = [name |-> sockets[i].name, spec |-> ListenersOf[op.config][sockets[i].name], state |-> "running"]
  <2>1. i \in SocketIds /\ i \notin InSlots /\ sockets[i] # None /\ sockets[i].state = "running"
    BY <1>4, <1>6 DEF Inv, ListenersInv, Owned
  <2>2. sockets[i] \in Listener
    BY <2>1 DEF Inv, ListenersInv, ListenerTypes
  <2>3. sockets[i] = [name |-> sockets[i].name, spec |-> sockets[i].spec, state |-> sockets[i].state]
    BY <2>2 DEF Listener
  <2> QED
    BY Zenon, SMTT(20), <1>2, <2>1, <2>3
<1>8. \A n : \A i \in StartedFor(n) : i \in Range(op.started) /\ sockets[i].name = n
  BY DEF StartedFor
<1>9. StartedNames \subseteq DOMAIN ListenersOf[op.config]
  BY SMTT(20), Zenon, <1>2 DEF StartedNames
<1> QED
  BY <1>1, <1>3, <1>7, <1>8, <1>9

(* A slot keeps its listener, or takes the one started for it.             *)
LEMMA SlotAfterFacts ==
    ASSUME Inv, op # None, op.at = "start", NEW n \in DOMAIN slots \cup StartedNames
    PROVE  /\ SlotAfter(n) \in Slot
           /\ n \in StartedNames => SlotAfter(n).socket \in StartedFor(n)
           /\ n \notin StartedNames => SlotAfter(n).socket = slots[n].socket
           /\ SlotAfter(n).draining = IF n \notin DOMAIN slots THEN <<>>
                                      ELSE IF n \in StartedNames
                                      THEN Append(slots[n].draining, Identity(Current(n)))
                                      ELSE slots[n].draining
<1>1. slots \in [DOMAIN slots -> Slot] /\ DOMAIN slots \subseteq Names
  BY DEF Inv, ListenersInv, ListenerTypes
<1>2. StartedFor(n) # {} <=> n \in StartedNames
  BY StartedFacts
<1> DEFINE i == CHOOSE i \in StartedFor(n) : TRUE
<1>3. n \in StartedNames => i \in StartedFor(n) /\ i \in SocketIds
  BY Zenon, SMTT(20), <1>2, StartedFacts
<1> HIDE DEF i
<1>4. CASE n \notin DOMAIN slots
  <2>1. n \in StartedNames /\ SlotAfter(n) = NewSlot(i)
    BY <1>4 DEF SlotAfter, i
  <2>2. <<>> \in Seq(Identities)
    OBVIOUS
  <2>3. NewSlot(i) \in Slot /\ NewSlot(i).socket = i /\ NewSlot(i).draining = <<>>
    BY <1>3, <2>1, <2>2 DEF NewSlot, Slot
  <2> QED
    BY <1>3, <1>4, <2>1, <2>3
<1>5. CASE n \in DOMAIN slots /\ n \in StartedNames
  <2> DEFINE s == slots[n]
             d == Append(s.draining, Identity(Current(n)))
  <2>1. s \in Slot
    BY <1>1, <1>5
  <2>2. Current(n) \in Specs
    <3>1. s.socket \in SocketIds /\ s.socket \in InSlots
      BY <1>5, <2>1 DEF Slot, InSlots
    <3>2. sockets[s.socket] \in Listener
      BY <3>1 DEF Inv, ListenersInv, ListenerTypes, Owned
    <3>3. sockets[s.socket].spec \in Specs
      BY <3>2 DEF Listener
    <3> QED
      BY <3>3 DEF Current
  <2>3. Identity(Current(n)) \in Identities
    BY <2>2 DEF Identities
  <2>4. s.draining \in Seq(Identities)
    BY <2>1 DEF Slot
  <2>5. d \in Seq(Identities)
    BY <2>3, <2>4
  <2>6. SlotAfter(n) = [s EXCEPT !.socket = i, !.draining = d, !.failed_start = FALSE]
    BY <1>2, <1>5, <2>1 DEF SlotAfter, i, Slot
  <2> HIDE DEF s, d
  <2>7. SlotAfter(n) \in Slot /\ SlotAfter(n).socket = i /\ SlotAfter(n).draining = d
    BY Zenon, SMTT(20), <1>3, <1>5, <2>1, <2>5, <2>6 DEF Slot
  <2> QED
    BY <1>3, <1>5, <2>7 DEF s, d
<1>6. CASE n \in DOMAIN slots /\ n \notin StartedNames
  <2> DEFINE f == IF n \in InPlace THEN FALSE ELSE slots[n].failed_start
  <2>1. slots[n] \in Slot
    BY <1>1, <1>6
  <2>2. f \in BOOLEAN
    BY Zenon, SMTT(20), <2>1 DEF Slot
  <2>3. SlotAfter(n) = [slots[n] EXCEPT !.failed_start = f]
    BY <1>2, <1>6, <2>1 DEF SlotAfter, Slot
  <2>4. ASSUME NEW r \in Slot, NEW g \in BOOLEAN
        PROVE  LET v == [r EXCEPT !.failed_start = g]
               IN  v \in Slot /\ v.socket = r.socket /\ v.draining = r.draining
    BY DEF Slot
  <2> HIDE DEF f
  <2>5. /\ SlotAfter(n) \in Slot /\ SlotAfter(n).socket = slots[n].socket
        /\ SlotAfter(n).draining = slots[n].draining
    BY <2>1, <2>2, <2>3, <2>4
  <2> QED
    BY <1>6, <2>5
<1> QED
  BY <1>4, <1>5, <1>6

(* The retired listeners: the removed ones, then the replaced ones.        *)
RetiredQueue(r, p) ==
    [k \in DOMAIN r |-> [socket |-> slots[r[k]].socket, slot |-> None]]
    \o [k \in DOMAIN p |-> [socket |-> slots[p[k]].socket, slot |-> p[k]]]

(* A queue of the listeners of the slots in R, and of those in P for their *)
(* slots.                                                                  *)
Retires(queue, R, P) ==
    /\ queue \in Seq(Queued) /\ Once(queue)
    /\ \A k \in DOMAIN queue : \E n \in R \cup P :
          queue[k].socket = slots[n].socket /\ queue[k].slot = IF n \in P THEN n ELSE None
    /\ \A n \in R \cup P : \E k \in DOMAIN queue :
          queue[k].socket = slots[n].socket /\ queue[k].slot = IF n \in P THEN n ELSE None

(* The retired listeners are such a queue: each is shut down once.         *)
LEMMA RetiredFacts ==
    ASSUME ListenersInv, NEW R \in SUBSET DOMAIN slots, NEW P \in SUBSET DOMAIN slots, R \cap P = {},
           NEW queue, queue = RetiredQueue(InOrder(R), InOrder(P))
    PROVE  Retires(queue, R, P)
<1> DEFINE r == InOrder(R)
           p == InOrder(P)
           a == [k \in DOMAIN r |-> [socket |-> slots[r[k]].socket, slot |-> None]]
           b == [k \in DOMAIN p |-> [socket |-> slots[p[k]].socket, slot |-> p[k]]]
           q == a \o b
<1>1. slots \in [DOMAIN slots -> Slot] /\ DOMAIN slots \subseteq Names
  BY DEF ListenersInv, ListenerTypes
<1>2. \A n \in DOMAIN slots : slots[n].socket \in SocketIds
  <2>1. \A n \in DOMAIN slots : slots[n] \in Slot
    BY <1>1
  <2> QED
    BY <2>1 DEF Slot
<1>3. \A m, n \in DOMAIN slots : slots[m].socket = slots[n].socket => m = n
  BY DEF ListenersInv, Owned
<1>4. /\ r \in Seq(R) /\ Range(r) = R /\ \A i, j \in DOMAIN r : r[i] = r[j] => i = j
  BY <1>1, InOrderFacts
<1>5. /\ p \in Seq(P) /\ Range(p) = P /\ \A i, j \in DOMAIN p : p[i] = p[j] => i = j
  BY <1>1, InOrderFacts
<1> HIDE DEF r, p
<1>6. Len(r) \in Nat /\ DOMAIN r = 1..Len(r) /\ Len(p) \in Nat /\ DOMAIN p = 1..Len(p)
  BY <1>4, <1>5
<1>7. \A k \in DOMAIN r : r[k] \in R
  BY <1>4
<1>8. \A k \in DOMAIN p : p[k] \in P
  BY <1>5
<1>9. a \in Seq(Queued) /\ Len(a) = Len(r)
  <2>1. \A k \in DOMAIN r : [socket |-> slots[r[k]].socket, slot |-> None] \in Queued
    BY <1>2, <1>7 DEF Queued
  <2> QED
    BY <1>6, <2>1
<1>10. b \in Seq(Queued) /\ Len(b) = Len(p)
  <2>1. \A k \in DOMAIN p : [socket |-> slots[p[k]].socket, slot |-> p[k]] \in Queued
    BY SMTT(20), Zenon, <1>1, <1>2, <1>8 DEF Queued
  <2> QED
    BY <1>6, <2>1
<1>11. /\ \A k \in DOMAIN r : a[k].socket = slots[r[k]].socket /\ a[k].slot = None
       /\ \A k \in DOMAIN p : b[k].socket = slots[p[k]].socket /\ b[k].slot = p[k]
  OBVIOUS
<1> HIDE DEF a, b
<1>12. /\ q \in Seq(Queued) /\ DOMAIN q = 1..(Len(r) + Len(p))
       /\ \A k \in 1..Len(r) : q[k] = a[k]
       /\ \A k \in (Len(r) + 1)..(Len(r) + Len(p)) : q[k] = b[k - Len(r)]
  BY SMTT(20), Zenon, <1>6, <1>9, <1>10
<1> HIDE DEF q
<1> DEFINE nm(k) == IF k <= Len(r) THEN r[k] ELSE p[k - Len(r)]
<1>13. ASSUME NEW k \in DOMAIN q
       PROVE  /\ k <= Len(r) => nm(k) \in R /\ k \in DOMAIN r
              /\ k > Len(r) => nm(k) \in P /\ k - Len(r) \in DOMAIN p
              /\ q[k].socket = slots[nm(k)].socket /\ q[k].slot = IF nm(k) \in P THEN nm(k) ELSE None
  <2>1. CASE k <= Len(r)
    <3>1. k \in 1..Len(r)
      BY <1>6, <1>12, <2>1
    <3>2. nm(k) = r[k] /\ r[k] \in R /\ r[k] \notin P /\ k \in DOMAIN r
      BY <1>6, <1>7, <2>1, <3>1
    <3> QED
      BY SMTT(20), Zenon, <1>6, <1>11, <1>12, <2>1, <3>1, <3>2
  <2>2. CASE k > Len(r)
    <3>1. k \in (Len(r) + 1)..(Len(r) + Len(p)) /\ k - Len(r) \in 1..Len(p) /\ ~(k <= Len(r))
      BY <1>6, <1>12, <2>2
    <3>2. nm(k) = p[k - Len(r)] /\ p[k - Len(r)] \in P /\ k - Len(r) \in DOMAIN p
      BY <1>6, <1>8, <3>1
    <3> QED
      BY <1>11, <1>12, <3>1, <3>2
  <2> QED
    BY SMTT(20), Zenon, <1>6, <1>12, <2>1, <2>2
<1>14. ASSUME NEW k \in DOMAIN q, NEW l \in DOMAIN q, nm(k) = nm(l) PROVE k = l
  <2>1. k \in Int /\ l \in Int /\ Len(r) \in Int
    BY <1>6, <1>12
  <2>2. CASE k <= Len(r) /\ l <= Len(r)
    BY <1>4, <1>13, <1>14, <2>2
  <2>3. CASE k > Len(r) /\ l > Len(r)
    <3>1. nm(k) = p[k - Len(r)] /\ nm(l) = p[l - Len(r)]
      BY SMTT(20), Zenon, <2>1, <2>3
    <3>2. k - Len(r) = l - Len(r)
      BY Zenon, SMTT(20), <1>5, <1>13, <1>14, <2>3, <3>1
    <3> QED
      BY <2>1, <3>2
  <2>4. CASE (k <= Len(r) /\ l > Len(r)) \/ (k > Len(r) /\ l <= Len(r))
    BY <1>13, <1>14, <2>4
  <2> QED
    BY <2>1, <2>2, <2>3, <2>4
<1>15. \A k \in DOMAIN q : nm(k) \in R \cup P
  <2> SUFFICES ASSUME NEW k \in DOMAIN q PROVE nm(k) \in R \cup P
    OBVIOUS
  <2>1. k <= Len(r) \/ k > Len(r)
    BY <1>6, <1>12
  <2> QED
    BY <1>13, <2>1
<1>16. Once(q)
  <2> SUFFICES ASSUME NEW k \in DOMAIN q, NEW l \in DOMAIN q, q[k].socket = q[l].socket PROVE k = l
    BY DEF Once
  <2>1. nm(k) \in DOMAIN slots /\ nm(l) \in DOMAIN slots
    BY <1>15
  <2>2. slots[nm(k)].socket = slots[nm(l)].socket
    BY <1>13
  <2>3. nm(k) = nm(l)
    BY <1>3, <2>1, <2>2
  <2> QED
    BY <1>14, <2>3
<1>17. ASSUME NEW n \in R \cup P PROVE \E k \in DOMAIN q : nm(k) = n
  <2>1. CASE n \in R
    <3>1. PICK k \in DOMAIN r : r[k] = n
      BY <1>4, <2>1 DEF Range
    <3>2. k \in DOMAIN q /\ k <= Len(r)
      BY <1>6, <1>12
    <3> QED
      BY <3>1, <3>2
  <2>2. CASE n \in P
    <3>1. PICK k \in DOMAIN p : p[k] = n
      BY <1>5, <2>2 DEF Range
    <3>2. k + Len(r) \in DOMAIN q /\ ~(k + Len(r) <= Len(r)) /\ (k + Len(r)) - Len(r) = k
      BY <1>6, <1>12
    <3>3. nm(k + Len(r)) = n
      BY <3>1, <3>2
    <3> QED
      BY <3>2, <3>3
  <2> QED
    BY <2>1, <2>2
<1>18. queue = q
  BY Zenon, SMTT(20) DEF RetiredQueue, q, a, b, r, p
<1> HIDE DEF nm
<1>19. \A k \in DOMAIN q : \E n \in R \cup P : q[k].socket = slots[n].socket /\ q[k].slot = IF n \in P THEN n ELSE None
  BY <1>13, <1>15
<1>20. ASSUME NEW n \in R \cup P
       PROVE  \E k \in DOMAIN q : q[k].socket = slots[n].socket /\ q[k].slot = IF n \in P THEN n ELSE None
  BY <1>13, <1>17
<1> QED
  BY <1>12, <1>16, <1>18, <1>19, <1>20 DEF Retires

(* Updated in place, removed, activated: the listeners of the new snapshot *)
(* serve, the others are the operation's to shut down.                     *)
LEMMA SwapKeeps ==
    ASSUME Inv, Swap
    PROVE  ListenersInv'
<1> DEFINE specs == ListenersOf[op.config]
           updated == {slots[n].socket : n \in InPlace}
           R == DOMAIN slots \ DOMAIN specs
           P == {n \in DOMAIN slots : StartedFor(n) # {}}
           queue == RetiredQueue(InOrder(R), InOrder(P))
           base == [i \in SocketIds |-> IF i \in updated THEN [sockets[i] EXCEPT !.spec = Updated(@, specs[sockets[i].name])]
                                        ELSE sockets[i]]
           keep == (DOMAIN slots \cap DOMAIN specs) \cup StartedNames
<1>1. /\ op # None /\ op.at = "start" /\ op.start = <<>> /\ op \in Operation
      /\ op.started \in Seq(SocketIds) /\ op.config \in DOMAIN ListenersOf /\ op.mode \in {"reload", "restart"}
  BY SMTT(20), Zenon DEF Inv, ListenersInv, ListenerTypes, Swap, Operation
<1>2. /\ sockets' = Signalled(base, First(queue))
      /\ slots' = [n \in keep |-> SlotAfter(n)]
      /\ op' = [op EXCEPT !.at = "drain", !.started = <<>>, !.queue = queue]
      /\ active' = op.config
      /\ UNCHANGED <<stopping, cut>>
  BY Zenon, SMTT(20) DEF Swap, RetiredQueue, StartedNames
<1>3. op.queue = <<>>
  BY <1>1 DEF Inv, ListenersInv, Holdings
<1>4. /\ \A n : StartedFor(n) # {} <=> n \in StartedNames
      /\ \A n : \A i, j \in StartedFor(n) : i = j
      /\ \A n : \A i \in StartedFor(n) :
            /\ i \in Range(op.started) /\ i \in SocketIds /\ i \notin InSlots
            /\ sockets[i] = [name |-> n, spec |-> specs[n], state |-> "running"]
      /\ StartedNames \subseteq DOMAIN specs
  BY <1>1, StartedFacts
<1>5. /\ InSlots \subseteq SocketIds /\ InOp \subseteq SocketIds /\ InStop \subseteq SocketIds
      /\ stopping # None => stopping \in Seq(Queued)
  BY OwnedIds DEF Inv
<1>6. /\ InSlots \cap InOp = {} /\ InSlots \cap InStop = {} /\ InOp \cap InStop = {}
      /\ \A j \in InSlots \cup InOp \cup InStop :
          sockets[j] # None /\ (sockets[j].state = "running" <=> j \notin Signalling)
      /\ \A j \in SocketIds : sockets[j] # None /\ sockets[j].state = "running" => j \in InSlots \cup InOp \cup InStop
      /\ \A n \in DOMAIN slots : sockets[slots[n].socket].name = n
      /\ stopping # None => Once(stopping)
  BY DEF Inv, ListenersInv, Owned
<1>7. \A n \in DOMAIN slots : slots[n].socket \in InSlots /\ slots[n].socket \in SocketIds
  BY <1>5 DEF InSlots
<1>8. \A m, n \in DOMAIN slots : slots[m].socket = slots[n].socket => m = n
  BY <1>6
<1>9. DOMAIN specs \subseteq Names /\ DOMAIN slots \subseteq Names /\ slots \in [DOMAIN slots -> Slot]
  BY SMTT(20), Zenon, <1>1, SupervisorAssumption DEF SupervisorAssumption, Inv, ListenersInv, ListenerTypes
<1>10. R \in SUBSET DOMAIN slots /\ P \in SUBSET DOMAIN slots /\ R \cap P = {} /\ P = DOMAIN slots \cap StartedNames
  BY SMTT(20), Zenon, <1>4
<1>11. /\ queue \in Seq(Queued) /\ Once(queue)
       /\ \A k \in DOMAIN queue : \E n \in R \cup P :
             queue[k].socket = slots[n].socket /\ queue[k].slot = IF n \in P THEN n ELSE None
       /\ \A n \in R \cup P : \E k \in DOMAIN queue :
             queue[k].socket = slots[n].socket /\ queue[k].slot = IF n \in P THEN n ELSE None
  <2>1. ListenersInv /\ R \in SUBSET DOMAIN slots /\ P \in SUBSET DOMAIN slots /\ R \cap P = {}
    BY <1>10 DEF Inv
  <2> HIDE DEF R, P, queue
  <2>2. queue = RetiredQueue(InOrder(R), InOrder(P))
    BY DEF queue
  <2>3. Retires(queue, R, P)
    BY <2>1, <2>2, RetiredFacts
  <2> QED
    BY <2>3 DEF Retires
<1> HIDE DEF queue
<1>12. SocketsOf(queue) = {slots[n].socket : n \in R \cup P} /\ First(queue) \subseteq SocketsOf(queue)
  <2> HIDE DEF R, P
  <2> QED
    BY <1>11, EmptyQueue DEF SocketsOf
<1>13. sockets \in [SocketIds -> Listener \cup {None}]
  BY DEF Inv, ListenersInv, ListenerTypes
<1>14. \A n \in InPlace : n \in DOMAIN slots /\ n \in DOMAIN specs /\ matches_spec(Current(n), specs[n])
  BY DEF InPlace
<1>15. ASSUME NEW j \in SocketIds
       PROVE  /\ base[j] = None <=> sockets[j] = None
              /\ base[j] \in Listener \cup {None}
              /\ j \notin updated => base[j] = sockets[j]
              /\ sockets[j] # None => base[j].name = sockets[j].name /\ base[j].state = sockets[j].state
              /\ j \in updated => base[j].spec = Updated(sockets[j].spec, specs[sockets[j].name])
                                  /\ sockets[j].name \in InPlace
                                  /\ j = slots[sockets[j].name].socket
  <2>1. CASE j \in updated
    <3>1. PICK n \in InPlace : j = slots[n].socket
      BY SMTT(20), Zenon, <2>1
    <3>2. sockets[j] # None /\ sockets[j].name = n
      BY Zenon, SMTT(20), <1>6, <1>7, <1>14, <3>1
    <3>3. sockets[j] \in Listener /\ None \notin Listener
      BY SMTT(20), Zenon, <1>13, <3>2, SupervisorAssumption DEF SupervisorAssumption
    <3> DEFINE u == Updated(sockets[j].spec, specs[n])
    <3>4. u \in Specs
      <4>1. specs[n] \in Specs
        BY <1>1, <1>14, <3>1 DEF Specs
      <4>2. sockets[j].spec \in Specs
        BY <3>3 DEF Listener
      <4> QED
        BY <4>1, <4>2 DEF Updated
    <3>5. ASSUME NEW s \in Listener, NEW x \in Specs
          PROVE  LET v == [s EXCEPT !.spec = x]
                 IN  v \in Listener /\ v.name = s.name /\ v.state = s.state /\ v.spec = x
      BY DEF Listener
    <3> HIDE DEF u
    <3> DEFINE v == [sockets[j] EXCEPT !.spec = u]
    <3>6. v \in Listener /\ v.name = sockets[j].name /\ v.state = sockets[j].state /\ v.spec = u
      BY <3>3, <3>4, <3>5
    <3>7. base[j] = v
      BY SMTT(20), Zenon, <2>1, <3>2 DEF u
    <3>8. u = Updated(sockets[j].spec, specs[sockets[j].name])
      BY <3>2 DEF u
    <3> HIDE DEF base, v
    <3> QED
      BY Zenon, SMTT(20), <2>1, <3>1, <3>2, <3>3, <3>6, <3>7, <3>8
  <2>2. CASE j \notin updated
    <3>1. base[j] = sockets[j]
      BY <2>2
    <3> HIDE DEF base
    <3> QED
      BY <1>13, <2>2, <3>1
  <2> QED
    BY Zenon, SMTT(20), <2>1, <2>2
<1>16. base \in [SocketIds -> Listener \cup {None}]
  BY Zenon, SMTT(20), <1>15
<1> HIDE DEF base
<1>17. /\ sockets' \in [SocketIds -> Listener \cup {None}]
       /\ \A j \in SocketIds :
             /\ sockets'[j] = None <=> sockets[j] = None
             /\ j \notin First(queue) => sockets'[j] = base[j]
             /\ sockets[j] # None => sockets'[j].name = sockets[j].name /\ sockets'[j].spec = base[j].spec
             /\ sockets[j] # None /\ j \in First(queue) => sockets'[j].state = "draining"
             /\ sockets[j] # None /\ j \notin First(queue) => sockets'[j].state = sockets[j].state
  <2> HIDE DEF SocketIds
  <2>1. Signalled(base, First(queue)) \in [SocketIds -> Listener \cup {None}]
    BY <1>16, SignalledFacts DEF Signalled
  <2> DEFINE S == Signalled(base, First(queue))
  <2>2. \A j \in SocketIds :
             /\ S[j] = None <=> base[j] = None
             /\ j \notin First(queue) => S[j] = base[j]
             /\ base[j] # None => S[j].name = base[j].name /\ S[j].spec = base[j].spec
             /\ base[j] # None /\ j \in First(queue) => S[j].state = "draining"
    BY <1>16, SignalledFacts
  <2>3. sockets' = S
    BY SMTT(20), Zenon, <1>2
  <2> HIDE DEF S, updated
  <2>4. \A j \in SocketIds :
             /\ base[j] = None <=> sockets[j] = None
             /\ sockets[j] # None => base[j].name = sockets[j].name /\ base[j].state = sockets[j].state
    BY <1>15
  <2>5. ASSUME NEW j \in SocketIds
        PROVE  /\ sockets'[j] = None <=> sockets[j] = None
               /\ j \notin First(queue) => sockets'[j] = base[j]
               /\ sockets[j] # None => sockets'[j].name = sockets[j].name /\ sockets'[j].spec = base[j].spec
               /\ sockets[j] # None /\ j \in First(queue) => sockets'[j].state = "draining"
               /\ sockets[j] # None /\ j \notin First(queue) => sockets'[j].state = sockets[j].state
    BY <2>2, <2>3, <2>4
  <2>6. sockets' \in [SocketIds -> Listener \cup {None}]
    BY <2>1, <2>3 DEF S
  <2> QED
    BY <2>5, <2>6
<1>18. /\ op' \in Operation /\ op' # None /\ op'.at = "drain" /\ op'.started = <<>> /\ op'.queue = queue
  <2>1. <<>> \in Seq(SocketIds)
    OBVIOUS
  <2>2. /\ op' \in Operation /\ op'.at = "drain" /\ op'.started = <<>> /\ op'.queue = queue
    BY Zenon, SMTT(20), <1>1, <1>2, <1>11, <2>1 DEF Operation
  <2> QED
    BY <2>2, SupervisorAssumption DEF SupervisorAssumption
<1>19. /\ DOMAIN slots' = keep /\ keep \subseteq Names /\ \A n \in keep : slots'[n] = SlotAfter(n)
  BY <1>2, <1>4, <1>9
<1>20. \A n \in keep :
          /\ slots'[n] \in Slot
          /\ n \in StartedNames => slots'[n].socket \in StartedFor(n)
          /\ n \notin StartedNames => slots'[n].socket = slots[n].socket /\ n \in DOMAIN slots \cap DOMAIN specs
          /\ slots'[n].draining = IF n \notin DOMAIN slots THEN <<>>
                                  ELSE IF n \in StartedNames THEN Append(slots[n].draining, Identity(Current(n)))
                                  ELSE slots[n].draining
  BY Zenon, SMTT(20), <1>1, <1>19, SlotAfterFacts
<1>21. slots' \in [DOMAIN slots' -> Slot]
  BY Zenon, SMTT(20), <1>2, <1>19, <1>20
<1> DEFINE K == (DOMAIN slots \cap DOMAIN specs) \ StartedNames
           Kept == {slots[n].socket : n \in K}
           Gone == {slots[n].socket : n \in R \cup P}
<1>22. keep = K \cup StartedNames /\ K \cap (R \cup P) = {} /\ DOMAIN slots = K \cup (R \cup P) /\ K \cap StartedNames = {}
  BY Zenon, SMTT(20), <1>4, <1>10
<1> HIDE DEF keep, updated
<1>23. InSlots' = Kept \cup Range(op.started)
  <2>1. InSlots' = {slots'[n].socket : n \in keep}
    BY <1>19 DEF InSlots
  <2>2. ASSUME NEW n \in keep PROVE slots'[n].socket \in Kept \cup Range(op.started)
    <3>1. CASE n \in StartedNames
      BY Zenon, SMTT(20), <1>4, <1>20, <3>1
    <3>2. CASE n \notin StartedNames
      BY SMTT(20), Zenon, <1>20, <3>2
    <3> QED
      BY <3>1, <3>2
  <2>3. ASSUME NEW n \in K PROVE slots[n].socket \in InSlots'
    BY Zenon, SMTT(20), <1>20, <1>22, <2>1
  <2>4. ASSUME NEW i \in Range(op.started) PROVE i \in InSlots'
    <3>1. i \in StartedFor(sockets[i].name)
      BY DEF StartedFor
    <3>2. sockets[i].name \in StartedNames
      BY SMTT(20), Zenon DEF StartedNames
    <3>3. slots'[sockets[i].name].socket = i
      BY SMTT(20), Zenon, <1>4, <1>20, <1>22, <3>1, <3>2
    <3> QED
      BY Zenon, SMTT(20), <1>22, <2>1, <3>2, <3>3
  <2> HIDE DEF K
  <2> QED
    BY <2>1, <2>2, <2>3, <2>4
<1>24. InOp' = Gone /\ InOp = Range(op.started) /\ InStop' = InStop /\ InSlots = Kept \cup Gone /\ Kept \cap Gone = {}
  <2>1. Range(<<>>) = {} /\ SocketsOf(<<>>) = {}
    BY DEF Range, SocketsOf
  <2>2. InOp' = Gone /\ InOp = Range(op.started) /\ InStop' = InStop
    BY <1>1, <1>2, <1>3, <1>12, <1>18, <2>1 DEF InOp, InStop
  <2>3. InSlots = Kept \cup Gone
    <3> HIDE DEF R, P, K
    <3> QED
      BY <1>22 DEF InSlots
  <2>4. Kept \cap Gone = {}
    <3> HIDE DEF R, P, K
    <3> QED
      BY <1>8, <1>22
  <2> QED
    BY Zenon, SMTT(20), <2>2, <2>3, <2>4
<1>25. First(queue) \subseteq Gone /\ Signalling \subseteq InStop /\ Signalling' = First(queue) \cup Signalling
  <2>1. First(op.queue) = {}
    BY <1>3 DEF First
  <2>2. stopping # None => First(stopping) \subseteq InStop
    BY <1>5, EmptyQueue DEF InStop
  <2> QED
    BY <1>1, <1>2, <1>12, <1>18, <2>1, <2>2 DEF Signalling
<1> HIDE DEF K, R, P, Gone, Kept
<1>26. ListenerTypes'
  BY Zenon, SMTT(20), <1>1, <1>2, <1>17, <1>18, <1>19, <1>21 DEF Inv, ListenersInv, ListenerTypes, MaybeConfig
<1>27. Owned'
  <2>1. InSlots' \cap InOp' = {} /\ InSlots' \cap InStop' = {} /\ InOp' \cap InStop' = {}
    BY Zenon, SMTT(20), <1>6, <1>23, <1>24
  <2>2. ASSUME NEW j \in InSlots' \cup InOp' \cup InStop'
        PROVE  sockets'[j] # None /\ (sockets'[j].state = "running" <=> j \notin Signalling')
    <3>1. j \in InSlots \cup InOp \cup InStop /\ j \in SocketIds
      BY SMTT(20), Zenon, <1>5, <1>23, <1>24
    <3>2. sockets[j] # None /\ (sockets[j].state = "running" <=> j \notin Signalling)
      BY SMTT(20), Zenon, <1>6, <3>1
    <3> QED
      BY <1>17, <1>25, <3>1, <3>2
  <2>3. ASSUME NEW j \in SocketIds, sockets'[j] # None, sockets'[j].state = "running"
        PROVE  j \in InSlots' \cup InOp' \cup InStop'
    <3>1. sockets[j] # None /\ j \notin First(queue)
      BY <1>17, <2>3
    <3>2. sockets[j].state = "running"
      BY <1>17, <2>3, <3>1
    <3> QED
      BY SMTT(20), Zenon, <1>6, <1>23, <1>24, <3>1, <3>2
  <2>4. ASSUME NEW n \in DOMAIN slots' PROVE sockets'[slots'[n].socket].name = n
    <3>1. n \in keep
      BY <1>19
    <3>2. CASE n \in StartedNames
      <4>1. slots'[n].socket \in SocketIds /\ sockets[slots'[n].socket] # None /\ sockets[slots'[n].socket].name = n
        <5>1. slots'[n].socket \in StartedFor(n)
          BY SMTT(20), Zenon, <1>20, <3>1, <3>2
        <5>2. slots'[n].socket \in InOp /\ slots'[n].socket \in SocketIds
          BY Zenon, SMTT(20), <1>4, <1>24, <5>1
        <5>3. sockets[slots'[n].socket] = [name |-> n, spec |-> specs[n], state |-> "running"]
          BY <1>4, <5>1
        <5>4. sockets[slots'[n].socket] # None
          BY SMTT(20), Zenon, <1>6, <5>2
        <5> QED
          BY SMTT(20), Zenon, <5>2, <5>3, <5>4
      <4> QED
        BY <1>17, <4>1
    <3>3. CASE n \notin StartedNames
      <4>1. n \in DOMAIN slots /\ slots'[n].socket = slots[n].socket
        BY <1>20, <3>1, <3>3
      <4> QED
        BY SMTT(20), Zenon, <1>6, <1>7, <1>17, <4>1
    <3> QED
      BY <3>2, <3>3
  <2>5. Once(op'.queue) /\ (stopping' # None => Once(stopping'))
    BY <1>2, <1>6, <1>11, <1>18
  <2> QED
    BY SMTT(20), Zenon, <2>1, <2>2, <2>3, <2>4, <2>5 DEF Owned
<1>28. Holdings'
  <2>1. ASSUME NEW k \in DOMAIN queue, NEW l \in DOMAIN queue, queue[k].slot = queue[l].slot, queue[k].slot # None
        PROVE  k = l
    <3>1. PICK m \in R \cup P : queue[k].socket = slots[m].socket /\ queue[k].slot = IF m \in P THEN m ELSE None
      BY <1>11
    <3>2. PICK n \in R \cup P : queue[l].socket = slots[n].socket /\ queue[l].slot = IF n \in P THEN n ELSE None
      BY <1>11
    <3>3. m = n
      BY Zenon, SMTT(20), <2>1, <3>1, <3>2
    <3> QED
      BY SMTT(20), Zenon, <1>11, <3>1, <3>2, <3>3 DEF Once
  <2> QED
    BY <1>18, <2>1 DEF Holdings
<1>29. Staging'
  BY <1>18 DEF Staging
<1>30. ASSUME stopping' = None, NEW n \in keep
       PROVE  InForce(sockets'[slots'[n].socket], n, specs[n])
  <2>1. {m \in DOMAIN specs : Staged(m, specs[m])} = StartedNames
    <3>1. Range(op.start) = {}
      BY SMTT(20), Zenon, <1>1 DEF Range
    <3> QED
      BY Zenon, SMTT(20), <1>1, <1>2, <1>30, <3>1 DEF Inv, ListenersInv, Staging
  <2>2. CASE n \in StartedNames
    <3> DEFINE i == slots'[n].socket
    <3>1. i \in SocketIds /\ i \notin InSlots /\ sockets[i] = [name |-> n, spec |-> specs[n], state |-> "running"]
      BY Zenon, SMTT(20), <1>4, <1>20, <2>2
    <3>2. i \notin updated /\ i \notin First(queue)
      BY Zenon, SMTT(20), <1>7, <1>14, <1>24, <1>25, <3>1 DEF updated
    <3>3. sockets'[i] = sockets[i] /\ sockets[i] # None
      <4>1. i \in Range(op.started)
        BY Zenon, SMTT(20), <1>4, <1>20, <2>2
      <4>2. i \in InOp
        BY Zenon, SMTT(20), <1>1, <4>1 DEF InOp
      <4>3. sockets'[i] = base[i] /\ base[i] = sockets[i]
        BY Zenon, SMTT(20), <1>15, <1>17, <3>1, <3>2
      <4> QED
        BY Zenon, SMTT(20), <1>6, <4>2, <4>3
    <3>4. sockets[i].name = n /\ sockets[i].spec = specs[n] /\ sockets[i].state = "running"
      BY SMTT(20), Zenon, <3>1
    <3> QED
      BY Zenon, SMTT(20), <3>3, <3>4 DEF InForce
  <2>3. CASE n \notin StartedNames
    <3> DEFINE i == slots[n].socket
    <3>1. slots'[n].socket = i /\ n \in DOMAIN slots /\ n \in DOMAIN specs /\ i \in SocketIds /\ i \in InSlots
      BY Zenon, SMTT(20), <1>7, <1>20, <2>3
    <3>2. ~Staged(n, specs[n])
      BY SMTT(20), Zenon, <2>1, <2>3, <3>1
    <3>3. matches_spec(Current(n), specs[n]) /\ ~ForceReplace(op.mode, Current(n))
      BY SMTT(20), Zenon, <3>1, <3>2 DEF Staged
    <3>4. sockets[i] # None /\ sockets[i].state = "running" /\ sockets[i].name = n
      BY Zenon, SMTT(20), <1>6, <1>25, <3>1
    <3>5. Current(n) = sockets[i].spec /\ sockets[i] \in Listener
      BY <1>13, <3>1, <3>4 DEF Current
    <3>6. Current(n).class \in {"public", "admin"}
      <4>1. Current(n) \in Specs
        BY <3>5 DEF Listener
      <4> QED
        BY <4>1, SupervisorAssumption DEF SupervisorAssumption
    <3>7. n \in InPlace
      BY <1>1, <3>1, <3>3, <3>6 DEF InPlace, ForceReplace
    <3>8. i \in updated
      BY <3>7 DEF updated
    <3>9. i \notin First(queue)
      <4>1. i \in Kept
        BY Zenon, SMTT(20), <1>22, <2>3, <3>1 DEF Kept, K
      <4> QED
        BY SMTT(20), Zenon, <1>24, <1>25, <4>1
    <3>10. sockets'[i] = base[i] /\ base[i] # None /\ base[i].name = n /\ base[i].state = "running"
           /\ base[i].spec = Updated(sockets[i].spec, specs[n])
      BY SMTT(20), Zenon, <1>15, <1>17, <3>1, <3>4, <3>8, <3>9
    <3>11. Identity(base[i].spec) = Identity(specs[n]) /\ (specs[n].protocol # "http3" => base[i].spec = specs[n])
      <4>1. Identity(sockets[i].spec) = Identity(specs[n])
        BY <3>3, <3>5 DEF matches_spec
      <4>2. sockets[i].spec.protocol = specs[n].protocol
        BY <4>1 DEF Identity
      <4> QED
        BY Zenon, SMTT(20), <3>10, <4>1, <4>2 DEF Updated
    <3> QED
      BY Zenon, SMTT(20), <3>1, <3>10, <3>11 DEF InForce
  <2> QED
    BY <2>2, <2>3
<1>31. stopping' = None => keep = DOMAIN specs
  <2> SUFFICES ASSUME stopping' = None PROVE keep = DOMAIN specs
    OBVIOUS
  <2>1. {m \in DOMAIN specs : Staged(m, specs[m])} = StartedNames
    <3>1. Range(op.start) = {}
      BY <1>1 DEF Range
    <3> QED
      BY Zenon, SMTT(20), <1>1, <1>2, <3>1 DEF Inv, ListenersInv, Staging
  <2>2. \A m \in DOMAIN specs : m \notin DOMAIN slots => m \in StartedNames
    BY <2>1 DEF Staged
  <2> QED
    BY Zenon, SMTT(20), <1>4, <2>2 DEF keep
<1>32. ConfigInForce'
  BY <1>2, <1>19, <1>30, <1>31 DEF ConfigInForce
<1>33. DrainsAccounted'
  <2> SUFFICES ASSUME ~cut', NEW n \in keep
               PROVE  /\ Replaced(n)' = {} => slots'[n].draining = <<>>
                      /\ \A j \in Replaced(n)' : slots'[n].draining = <<Identity(sockets'[j].spec)>>
    BY <1>19 DEF DrainsAccounted
  <2>1. Replaced(n)' = {queue[k].socket : k \in {k \in DOMAIN queue : queue[k].slot = n}}
    BY <1>18 DEF Replaced
  <2>2. n # None
    BY <1>19, SupervisorAssumption DEF SupervisorAssumption
  <2>3. n \in DOMAIN slots => slots[n].draining = <<>>
    <3>1. Replaced(n) = {}
      BY <1>1 DEF Replaced
    <3> QED
      BY <1>2, <3>1 DEF Inv, ListenersInv, DrainsAccounted
  <2>4. CASE n \notin P
    <3>1. Replaced(n)' = {}
      <4>1. \A k \in DOMAIN queue : queue[k].slot # n
        BY <1>11, <2>2, <2>4
      <4> QED
        BY <2>1, <4>1
    <3>2. slots'[n].draining = <<>>
      BY SMTT(20), Zenon, <1>10, <1>20, <2>3, <2>4
    <3> QED
      BY <3>1, <3>2
  <2>5. CASE n \in P
    <3>1. n \in DOMAIN slots /\ n \in StartedNames
      BY <1>10, <2>5
    <3> DEFINE i == slots[n].socket
    <3>2. Replaced(n)' = {i}
      <4>1. \A k \in DOMAIN queue : queue[k].slot = n => queue[k].socket = i
        BY <1>11, <2>2
      <4>2. \E k \in DOMAIN queue : queue[k].slot = n /\ queue[k].socket = i
        BY <1>11, <2>5
      <4> QED
        BY <2>1, <4>1, <4>2
    <3>3. slots'[n].draining = Append(slots[n].draining, Identity(Current(n)))
      BY Zenon, SMTT(20), <1>20, <3>1
    <3>4. slots'[n].draining = <<Identity(Current(n))>>
      <4>1. ASSUME NEW x PROVE Append(<<>>, x) = <<x>>
        OBVIOUS
      <4>2. slots'[n].draining = Append(<<>>, Identity(Current(n)))
        BY Zenon, SMTT(20), <2>3, <3>1, <3>3
      <4> QED
        BY <4>1, <4>2
    <3>5. i \in SocketIds /\ sockets[i] # None /\ sockets[i].name = n /\ Current(n) = sockets[i].spec
      BY Zenon, SMTT(20), <1>6, <1>7, <3>1 DEF Current
    <3>6. sockets'[i].spec = base[i].spec
      BY Zenon, SMTT(20), <1>17, <3>5
    <3>7. Identity(base[i].spec) = Identity(Current(n))
      <4>1. CASE i \in updated
        <5>1. base[i].spec = Updated(Current(n), specs[n]) /\ n \in InPlace
          BY Zenon, SMTT(20), <1>15, <3>5, <4>1
        <5> QED
          BY SMTT(20), Zenon, <1>14, <5>1 DEF matches_spec, Updated
      <4>2. CASE i \notin updated
        BY Zenon, SMTT(20), <1>15, <3>5, <4>2
      <4> QED
        BY Zenon, SMTT(20), <4>1, <4>2
    <3> QED
      BY Zenon, SMTT(20), <3>2, <3>4, <3>6, <3>7
  <2> QED
    BY <2>4, <2>5
<1> QED
  BY SMTT(20), Zenon, <1>26, <1>27, <1>28, <1>29, <1>32, <1>33 DEF ListenersInv

----------------------------------------------------------------------------
(* The journal                                                             *)

(* An image of a journal whose applied configuration has served.           *)
LEMMA ImageFacts ==
    ASSUME NEW j \in Journals, NEW h \in Healths
    PROVE  Image(j, h) \in Images /\ Image(j, h).applied = j.applied /\ Image(j, h) # None
<1>1. Image(j, h) \in Images /\ Image(j, h).applied = j.applied
  BY SMTT(20), Zenon DEF Image, Images, Journals
<1> QED
  BY <1>1, SupervisorAssumption DEF SupervisorAssumption

(* A task that is idle, or stops with a result.                            *)
LEMMA TaskFacts ==
    /\ Proper(IdleTask)
    /\ \A r : Proper(r) => /\ Proper([r EXCEPT !.at = "report", !.image = None])
                           /\ Proper([r EXCEPT !.at = "failed", !.image = None])
                           /\ Proper([r EXCEPT !.image = None])
<1>1. IdleTask \in Task /\ IdleTask.at = "idle" /\ IdleTask.image = None
  BY DEF IdleTask, Task, Points
<1>2. Proper(IdleTask)
  BY <1>1 DEF Proper
<1>3. ASSUME NEW r \in Task, NEW a \in Points
      PROVE  LET v == [r EXCEPT !.at = a, !.image = None]
             IN  v \in Task /\ v.at = a /\ v.image = None /\ v.kind = r.kind
  BY Zenon, SMTT(20) DEF Task
<1>4. ASSUME NEW r \in Task
      PROVE  LET v == [r EXCEPT !.image = None]
             IN  v \in Task /\ v.at = r.at /\ v.image = None /\ v.kind = r.kind
  BY DEF Task
<1>5. "report" \in Points /\ "failed" \in Points
  BY DEF Points
<1>6. ASSUME NEW r, Proper(r)
      PROVE  /\ Proper([r EXCEPT !.at = "report", !.image = None])
             /\ Proper([r EXCEPT !.at = "failed", !.image = None])
             /\ Proper([r EXCEPT !.image = None])
  <2>1. r \in Task
    BY <1>6 DEF Proper
  <2>2. Proper([r EXCEPT !.at = "report", !.image = None])
    BY Zenon, SMTT(20), <1>3, <1>5, <2>1 DEF Proper
  <2>3. Proper([r EXCEPT !.at = "failed", !.image = None])
    BY Zenon, SMTT(20), <1>3, <1>5, <2>1 DEF Proper
  <2>4. Proper([r EXCEPT !.image = None])
    BY <1>4, <1>6, <2>1 DEF Proper
  <2> QED
    BY <2>2, <2>3, <2>4
<1> QED
  BY Zenon, SMTT(20), <1>2, <1>6

(* One task goes on.                                                       *)
LEMMA OneTask ==
    ASSUME TasksInv, NEW t \in Tasks, NEW r, Proper(r), task' = [task EXCEPT ![t] = r], served' = served
    PROVE  TasksInv'
<1>1. r \in Task
  BY DEF Proper
<1>2. task' \in [Tasks -> Task]
  BY <1>1 DEF TasksInv
<1>3. \A u \in Tasks : task'[u] = (IF u = t THEN r ELSE task[u])
  BY DEF TasksInv
<1>4. \A u \in Tasks : Proper(task'[u])
  BY <1>3 DEF TasksInv
<1>5. \A u \in Tasks : Proper(task[u])'
  BY <1>4 DEF Proper, Vouched
<1> QED
  BY <1>2, <1>5 DEF TasksInv

(* A task takes the result of its operation.                               *)
LEMMA ReturnKeeps ==
    ASSUME TasksInv, NEW t \in Tasks, NEW ok, task' = Return(t, ok), served' = served
    PROVE  TasksInv'
<1> DEFINE r == IF t = "hup" THEN IdleTask
                ELSE [task[t] EXCEPT !.at = IF t = "boot" /\ ~ok THEN "failed" ELSE "report", !.image = None]
<1>1. task \in [Tasks -> Task] /\ Proper(task[t])
  BY DEF TasksInv
<1>2. task' = [task EXCEPT ![t] = r]
  BY <1>1 DEF Return
<1>3. r = IdleTask \/ r = [task[t] EXCEPT !.at = "failed", !.image = None]
      \/ r = [task[t] EXCEPT !.at = "report", !.image = None]
  BY Zenon, SMTT(20)
<1>4. Proper(r)
  BY Zenon, SMTT(20), <1>1, <1>3, TaskFacts
<1> HIDE DEF r
<1> QED
  BY Zenon, SMTT(20), <1>2, <1>4, OneTask

(* What Vouched vouches for stays.                                         *)
LEMMA RestKeeps ==
    ASSUME JournalInv, UNCHANGED <<disk, journal, health>>, TasksInv', served' = served,
           op' # None /\ op'.at = "drain" => Vouched(op'.config)
    PROVE  JournalInv'
BY DEF JournalInv, Vouched

(* Steps of the process and of its environment.                            *)
LEMMA ProcessJournal ==
    ASSUME Inv, Exit \/ Boot \/ Hangup \/ Stop \/ (\E c \in Configs : Edit(c))
    PROVE  JournalInv'
<1>1. CASE Exit
  <2>1. NewJournal \in Journals /\ NewJournal.applied = None
    BY SMTT(20), Zenon DEF NewJournal, Journals, MaybeConfig
  <2>2. IdleTask \in Task
    BY Zenon, SMTT(20), TaskFacts DEF Proper
  <2>3. task' \in [Tasks -> Task] /\ \A t \in Tasks : task'[t] = IdleTask
    BY SMTT(20), Zenon, <1>1, <2>2 DEF Exit
  <2>4. \A t \in Tasks : Proper(task[t])'
    <3>1. \A t \in Tasks : Proper(task'[t])
      BY Zenon, SMTT(20), <2>3, TaskFacts
    <3> QED
      BY SMTT(20), Zenon, <1>1, <3>1 DEF Proper, Vouched, Exit
  <2>5. TasksInv'
    BY <2>3, <2>4 DEF TasksInv
  <2> QED
    BY Zenon, SMTT(20), <1>1, <2>1, <2>5 DEF Exit, Inv, JournalInv, Vouched, Healths
<1>2. CASE Boot
  <2> DEFINE interrupted == disk # None /\ disk.in_flight # None
             restored(r) == [desired |-> disk.desired, applied |-> disk.applied, in_flight |-> disk.in_flight, recovery |-> r]
  <2>1. disk = None => journal' = NewJournal
    BY <1>2 DEF Boot
  <2>2. disk # None => \E r \in {"needs_operator_action", "restored"} : journal' = restored(r)
    BY <1>2 DEF Boot
  <2>3. NewJournal \in Journals /\ NewJournal.applied = None
    BY DEF NewJournal, Journals, MaybeConfig
  <2>4. disk # None => disk \in Images /\ Vouched(disk.applied)
    BY DEF Inv, JournalInv
  <2>5. ASSUME disk # None, NEW r \in {"needs_operator_action", "restored"}
        PROVE  restored(r) \in Journals /\ restored(r).applied = disk.applied
    BY <2>4, <2>5 DEF Images, Journals
  <2>6. journal' \in Journals /\ Vouched(journal'.applied)
    <3>1. CASE disk = None
      BY <2>1, <2>3, <3>1 DEF Vouched
    <3>2. CASE disk # None
      BY <2>2, <2>4, <2>5, <3>2
    <3> QED
      BY <3>1, <3>2
  <2>7. health' \in Healths
    <3>1. disk # None => disk.health \in Healths
      BY <2>4 DEF Images
    <3> QED
      BY <1>2, <3>1 DEF Boot, Healths
  <2>8. disk' = disk \/ disk' = Image(journal', "failed")
    BY <1>2 DEF Boot
  <2>9. disk' \in Images \cup {None} /\ (disk' # None => Vouched(disk'.applied))
    <3>1. Image(journal', "failed") \in Images /\ Image(journal', "failed").applied = journal'.applied
      BY <2>6, ImageFacts DEF Healths
    <3> QED
      BY <2>6, <2>8, <3>1 DEF Inv, JournalInv
  <2>10. TasksInv'
    <3> DEFINE r == [IdleTask EXCEPT !.at = "lock", !.kind = "reload"]
    <3>1. Proper(r)
      BY Zenon, SMTT(20) DEF Proper, IdleTask, Task, Points
    <3>2. task' = [task EXCEPT !["boot"] = r] /\ served' = served /\ "boot" \in Tasks
      BY <1>2 DEF Boot, history, Tasks
    <3> HIDE DEF r
    <3> QED
      BY Zenon, SMTT(20), <3>1, <3>2, OneTask DEF Inv, JournalInv
  <2>11. op' = op /\ served' = served
    BY <1>2 DEF Boot, history
  <2> QED
    BY <2>6, <2>7, <2>9, <2>10, <2>11 DEF Inv, JournalInv, Vouched
<1>3. CASE Hangup
  <2> DEFINE r == [IdleTask EXCEPT !.at = "lock", !.kind = "reload"]
  <2>1. Proper(r)
    BY Zenon, SMTT(20) DEF Proper, IdleTask, Task, Points
  <2>2. task' = [task EXCEPT !["hup"] = r] /\ UNCHANGED <<disk, journal, health, op, served>> /\ "hup" \in Tasks
    BY SMTT(20), Zenon, <1>3 DEF Hangup, history, Tasks
  <2> HIDE DEF r
  <2>3. TasksInv'
    BY Zenon, SMTT(20), <2>1, <2>2, OneTask DEF Inv, JournalInv
  <2> QED
    BY Zenon, SMTT(20), <2>2, <2>3, RestKeeps DEF Inv, JournalInv
<1>4. CASE Stop \/ (\E c \in Configs : Edit(c))
  <2>1. UNCHANGED <<disk, journal, health, op, task, served>>
    BY Zenon, SMTT(20), <1>4 DEF Stop, Edit, history
  <2>2. TasksInv'
    BY Zenon, SMTT(20), <2>1 DEF Inv, JournalInv, TasksInv, Proper, Vouched
  <2> QED
    BY Zenon, SMTT(20), <2>1, <2>2, RestKeeps DEF Inv, JournalInv
<1> QED
  BY SMTT(20), Zenon, <1>1, <1>2, <1>3, <1>4

(* A request arrives.                                                      *)
LEMMA ArriveJournal ==
    ASSUME Inv, NEW c \in Clients, NEW i \in SocketIds, NEW kind \in {"reload", "restart", "other"}, Arrive(c, i, kind)
    PROVE  JournalInv'
<1> DEFINE a == IF kind = "other" THEN "report" ELSE "begin"
           r == [IdleTask EXCEPT !.at = a, !.kind = kind, !.on = i]
<1>1. task' = [task EXCEPT ![c] = r] /\ UNCHANGED <<disk, journal, health, op, served>> /\ c \in Tasks
  BY DEF Arrive, history, Tasks
<1>2. a \in Points /\ (a = "begin" => kind \in {"reload", "restart"}) /\ a \in {"report", "begin"}
  BY SMTT(20), Zenon DEF Points
<1> HIDE DEF a
<1>3. IdleTask \in Task /\ IdleTask.image = None
  BY Zenon, SMTT(20), TaskFacts DEF Proper, IdleTask
<1>4. ASSUME NEW w \in Task
      PROVE  LET v == [w EXCEPT !.at = a, !.kind = kind, !.on = i]
             IN  v \in Task /\ v.at = a /\ v.kind = kind /\ v.image = w.image
  BY Zenon, SMTT(20), <1>2 DEF Task
<1>5. r \in Task /\ r.at = a /\ r.kind = kind /\ r.image = None
  BY Zenon, SMTT(20), <1>3, <1>4
<1>6. Proper(r)
  BY SMTT(20), Zenon, <1>2, <1>5 DEF Proper
<1> HIDE DEF r
<1>7. TasksInv'
  BY Zenon, SMTT(20), <1>1, <1>6, OneTask DEF Inv, JournalInv
<1> QED
  BY Zenon, SMTT(20), <1>1, <1>7, RestKeeps DEF Inv, JournalInv

(* The journal file is replaced, or left alone.                            *)
LEMMA WrittenKeeps ==
    ASSUME JournalInv, NEW t \in Tasks, NEW ok \in BOOLEAN, Written(task[t].image, ok),
           UNCHANGED <<journal, health, served>>, TasksInv', op' # None /\ op'.at = "drain" => Vouched(op'.config)
    PROVE  JournalInv'
<1>1. disk' = task[t].image \/ disk' = disk
  BY DEF Written
<1>2. task[t].image \in Images \cup {None} /\ (task[t].image # None => Vouched(task[t].image.applied))
  BY SMTT(20), Zenon DEF JournalInv, TasksInv, Proper, Task
<1>3. disk' \in Images \cup {None} /\ (disk' # None => Vouched(disk'.applied))
  BY <1>1, <1>2 DEF JournalInv
<1> QED
  BY <1>3 DEF JournalInv, Vouched

(* record_admin_audit and reconcile_control_plane_recovery.                *)
LEMMA AuditJournal ==
    ASSUME Inv, NEW t \in Tasks, ReadImage(t) \/ WriteImage(t)
    PROVE  JournalInv'
<1>0. task \in [Tasks -> Task] /\ Proper(task[t]) /\ task[t] \in Task
  BY SMTT(20), Zenon DEF Inv, JournalInv, TasksInv, Proper
<1>1. CASE ReadImage(t)
  <2> DEFINE a == IF task[t].at = "begin" THEN "begin_write" ELSE "report_write"
             m == Image(journal, health)
             r == [task[t] EXCEPT !.at = a, !.image = m]
  <2>1. task' = [task EXCEPT ![t] = r] /\ UNCHANGED <<disk, journal, health, op, served>>
    BY Zenon, SMTT(20), <1>0, <1>1 DEF ReadImage, history
  <2>2. a \in Points /\ (a = "begin_write" => task[t].kind \in {"reload", "restart"}) /\ a \in {"begin_write", "report_write"}
    BY <1>0 DEF Points, Proper
  <2>3. m \in Images /\ Vouched(m.applied)
    BY ImageFacts DEF Inv, JournalInv
  <2> HIDE DEF a, m
  <2>4. r \in Task /\ r.at = a /\ r.kind = task[t].kind /\ r.image = m
    BY Zenon, SMTT(20), <1>0, <2>2, <2>3 DEF Task
  <2>5. Proper(r)
    BY <2>2, <2>3, <2>4 DEF Proper
  <2> HIDE DEF r
  <2>6. TasksInv'
    BY Zenon, SMTT(20), <2>1, <2>5, OneTask DEF Inv, JournalInv
  <2> QED
    BY Zenon, SMTT(20), <2>1, <2>6, RestKeeps DEF Inv, JournalInv
<1>2. CASE WriteImage(t)
  <2>1. PICK ok \in BOOLEAN :
          /\ Written(task[t].image, ok)
          /\ task' = [task EXCEPT ![t] =
                      IF task[t].at = "begin_write" THEN [task[t] EXCEPT !.at = "lock", !.image = None]
                      ELSE IF t = "boot" /\ ~ok THEN [task[t] EXCEPT !.at = "failed", !.image = None]
                      ELSE IdleTask]
    BY Zenon, SMTT(20), <1>0, <1>2 DEF WriteImage
  <2>2. UNCHANGED <<journal, health, op, served>>
    BY <1>2 DEF WriteImage, history
  <2> DEFINE r == IF task[t].at = "begin_write" THEN [task[t] EXCEPT !.at = "lock", !.image = None]
                  ELSE IF t = "boot" /\ ~ok THEN [task[t] EXCEPT !.at = "failed", !.image = None]
                  ELSE IdleTask
  <2>3. Proper(r)
    <3>1. CASE task[t].at = "begin_write"
      <4> DEFINE v == [task[t] EXCEPT !.at = "lock", !.image = None]
      <4>1. v \in Task /\ v.at = "lock" /\ v.image = None /\ v.kind = task[t].kind
        BY Zenon, SMTT(20), <1>0 DEF Task, Points
      <4>2. task[t].kind \in {"reload", "restart"}
        BY <1>0, <3>1 DEF Proper
      <4>3. Proper(v)
        BY <4>1, <4>2 DEF Proper
      <4> QED
        BY <3>1, <4>3
    <3>2. CASE task[t].at # "begin_write"
      BY Zenon, SMTT(20), <1>0, <3>2, TaskFacts
    <3> QED
      BY <3>1, <3>2
  <2>4. task' = [task EXCEPT ![t] = r]
    BY SMTT(20), Zenon, <2>1
  <2> HIDE DEF r
  <2>5. TasksInv'
    BY Zenon, SMTT(20), <2>2, <2>3, <2>4, OneTask DEF Inv, JournalInv
  <2> QED
    BY Zenon, SMTT(20), <2>1, <2>2, <2>5, WrittenKeeps DEF Inv, JournalInv
<1> QED
  BY SMTT(20), Zenon, <1>1, <1>2

(* reload_guard is taken, and a reload entered in the journal.             *)
LEMMA AcquireJournal ==
    ASSUME Inv, NEW t \in Tasks, Acquire(t)
    PROVE  JournalInv'
<1>0. task \in [Tasks -> Task] /\ Proper(task[t]) /\ task[t] \in Task /\ op = None
  BY DEF Inv, JournalInv, TasksInv, Proper, Acquire
<1>1. UNCHANGED <<disk, health, served>>
  BY DEF Acquire, history
<1>2. CASE ~Compiles(file)
  <2>1. task' = Return(t, FALSE) /\ UNCHANGED <<journal, op>>
    BY <1>2 DEF Acquire
  <2>2. TasksInv'
    BY Zenon, SMTT(20), <1>1, <2>1, ReturnKeeps DEF Inv, JournalInv
  <2> QED
    BY <1>0, <1>1, <2>1, <2>2, RestKeeps DEF Inv
<1>3. CASE Compiles(file)
  <2>1. journal' = journal \/ journal' = [journal EXCEPT !.desired = file, !.in_flight = file]
    BY <1>3 DEF Acquire
  <2>2. journal' \in Journals /\ journal'.applied = journal.applied
    BY Zenon, SMTT(20), <1>3, <2>1 DEF Inv, JournalInv, Journals, Compiles, MaybeConfig
  <2> DEFINE m == IF task[t].kind = "restart" THEN None ELSE Image(journal', health)
             r == [task[t] EXCEPT !.at = "apply", !.image = m]
  <2>3. m \in Images \cup {None} /\ (m # None => Vouched(m.applied))
    BY <2>2, ImageFacts DEF Inv, JournalInv
  <2>4. task' = [task EXCEPT ![t] = r]
    BY Zenon, SMTT(20), <1>0, <1>3 DEF Acquire
  <2> HIDE DEF m
  <2>5. r \in Task /\ r.at = "apply" /\ r.image = m
    BY Zenon, SMTT(20), <1>0, <2>3 DEF Task, Points
  <2>6. Proper(r)
    BY <2>3, <2>5 DEF Proper
  <2> HIDE DEF r
  <2>7. TasksInv'
    BY Zenon, SMTT(20), <1>1, <2>4, <2>6, OneTask DEF Inv, JournalInv
  <2>8. op'.at # "drain"
    BY <1>3 DEF Acquire
  <2> QED
    BY <1>1, <2>2, <2>7, <2>8 DEF Inv, JournalInv, Vouched
<1> QED
  BY <1>2, <1>3

(* The operation works on the listeners; the swap puts its configuration   *)
(* in force.                                                               *)
LEMMA OperationJournal ==
    ASSUME Inv, Plan \/ StartNext \/ StartFails \/ PrepareFails \/ Swap \/ EndUndo
    PROVE  JournalInv'
<1>1. UNCHANGED <<disk, journal, health, task>> /\ op \in Operation
  BY Zenon, SMTT(20) DEF Plan, StartNext, StartFails, PrepareFails, Undo, Swap, EndUndo, Inv, ListenersInv, ListenerTypes
<1>2. CASE Swap
  <2>1. served' = served \cup {op.config}
    BY Zenon, SMTT(20), <1>2 DEF Swap
  <2>2. \A c : Vouched(c) => Vouched(c)'
    BY SMTT(20), Zenon, <2>1 DEF Vouched
  <2>3. TasksInv'
    BY <1>1, <2>2 DEF Inv, JournalInv, TasksInv, Proper
  <2>4. op'.config = op.config
    <3> DEFINE v(q) == [op EXCEPT !.at = "drain", !.started = <<>>, !.queue = q]
    <3>1. \E q : op' = v(q)
      BY Zenon, SMTT(20), <1>2 DEF Swap
    <3>2. \A q : v(q).config = op.config
      BY <1>1 DEF Operation
    <3> QED
      BY SMTT(20), Zenon, <3>1, <3>2
  <2>5. op'.config \in served'
    BY <2>1, <2>4
  <2> QED
    BY SMTT(20), Zenon, <1>1, <2>2, <2>3, <2>5 DEF Inv, JournalInv, Vouched
<1>3. CASE ~Swap
  <2>1. served' = served
    BY Zenon, SMTT(20), <1>3 DEF Plan, StartNext, StartFails, PrepareFails, Undo, EndUndo, history
  <2>2. TasksInv'
    BY <1>1, <2>1 DEF Inv, JournalInv, TasksInv, Proper, Vouched
  <2>3. op'.at # "drain"
    <3>1. CASE Plan
      BY <1>1, <3>1 DEF Plan, Operation
    <3>2. CASE StartNext
      <4> DEFINE v(i) == [op EXCEPT !.start = Tail(op.start), !.started = Append(op.started, i)]
      <4>1. op.at = "start" /\ \E i : op' = v(i)
        BY Zenon, SMTT(20), <1>1, <3>2 DEF StartNext, Operation
      <4>2. \A i : v(i).at = op.at
        BY <1>1 DEF Operation
      <4> QED
        BY SMTT(20), Zenon, <4>1, <4>2
    <3>3. CASE StartFails \/ PrepareFails
      <4> DEFINE v(f, q) == [op EXCEPT !.at = "undo", !.ok = FALSE, !.failed = f, !.started = <<>>, !.start = <<>>, !.queue = q]
      <4>1. \E f, q : op' = v(f, q)
        BY Zenon, SMTT(20), <3>3 DEF StartFails, PrepareFails, Undo
      <4>2. \A f, q : v(f, q).at = "undo"
        BY <1>1 DEF Operation
      <4> QED
        BY SMTT(20), Zenon, <4>1, <4>2
    <3>4. CASE EndUndo
      BY <1>1, <3>4 DEF EndUndo, Operation
    <3> QED
      BY <1>3, <3>1, <3>2, <3>3, <3>4
  <2> QED
    BY <1>1, <2>1, <2>2, <2>3, RestKeeps DEF Inv
<1> QED
  BY <1>2, <1>3

(* A listener's loop ends, and with it the requests it still served.       *)
LEMMA DrainedJournal ==
    ASSUME Inv, NEW i \in SocketIds, Drained(i)
    PROVE  JournalInv'
<1> DEFINE on == {t \in Tasks : task[t].at # "idle" /\ task[t].on = i}
<1>1. UNCHANGED <<disk, journal, health, served>>
  BY Zenon, SMTT(20) DEF Drained
<1>2. task' = [t \in Tasks |-> IF t \in on THEN IdleTask ELSE task[t]]
  BY SMTT(20), Zenon DEF Drained
<1>3. Proper(IdleTask) /\ IdleTask \in Task /\ \A t \in Tasks : Proper(task[t]) /\ task[t] \in Task
  BY Zenon, SMTT(20), TaskFacts DEF Inv, JournalInv, TasksInv, Proper
<1> HIDE DEF on
<1>4. task' \in [Tasks -> Task] /\ \A t \in Tasks : Proper(task'[t])
  BY SMTT(20), Zenon, <1>2, <1>3
<1>5. TasksInv'
  BY <1>1, <1>4 DEF TasksInv, Proper, Vouched
<1>6. op' = None \/ op' = [op EXCEPT !.queue = Tail(@)] \/ op' = op
  BY Zenon, SMTT(20) DEF Drained
<1>7. op # None => op \in Operation
  BY DEF Inv, ListenersInv, ListenerTypes
<1>8. op' # None /\ op'.at = "drain" => Vouched(op'.config)
  <2> SUFFICES ASSUME op' # None, op'.at = "drain" PROVE Vouched(op'.config)
    OBVIOUS
  <2>1. CASE op # None
    <3>1. op'.at = op.at /\ op'.config = op.config
      BY <1>6, <1>7, <2>1 DEF Operation
    <3> QED
      BY <2>1, <3>1 DEF Inv, JournalInv
  <2>2. CASE op = None
    BY <2>2 DEF Drained
  <2> QED
    BY <2>1, <2>2
<1> QED
  BY <1>1, <1>5, <1>8, RestKeeps DEF Inv

(* A failed drain ends the operation with the requests its listener still  *)
(* served.                                                                 *)
LEMMA DrainFailsJournal ==
    ASSUME Inv, NEW i \in SocketIds, DrainFails(i)
    PROVE  JournalInv'
<1> DEFINE on == {t \in Tasks : task[t].at # "idle" /\ task[t].on = i}
<1>1. UNCHANGED <<disk, journal, health, served>> /\ op # None
  BY Zenon, SMTT(20) DEF DrainFails
<1>2. task' = [t \in Tasks |-> IF t \in on THEN IdleTask ELSE task[t]]
  BY SMTT(20), Zenon DEF DrainFails
<1>3. Proper(IdleTask) /\ IdleTask \in Task /\ \A t \in Tasks : Proper(task[t]) /\ task[t] \in Task
  BY Zenon, SMTT(20), TaskFacts DEF Inv, JournalInv, TasksInv, Proper
<1> HIDE DEF on
<1>4. task' \in [Tasks -> Task] /\ \A t \in Tasks : Proper(task'[t])
  BY SMTT(20), Zenon, <1>2, <1>3
<1>5. TasksInv'
  BY <1>1, <1>4 DEF TasksInv, Proper, Vouched
<1>6. op'.at # "drain"
  <2>1. op' = [op EXCEPT !.at = "finish", !.ok = FALSE, !.queue = <<>>]
    BY Zenon, SMTT(20) DEF DrainFails
  <2>2. op \in Operation
    BY <1>1 DEF Inv, ListenersInv, ListenerTypes
  <2> QED
    BY <2>1, <2>2 DEF Operation
<1> QED
  BY <1>1, <1>5, <1>6, RestKeeps DEF Inv

(* prepare_reload_persistence and finish_reload_persistence.               *)
LEMMA PersistenceJournal ==
    ASSUME Inv, WritePrepare \/ Finish \/ WriteFinish
    PROVE  JournalInv'
<1>0. op # None /\ op \in Operation /\ op.by \in Tasks /\ served' = served
  BY Zenon, SMTT(20) DEF WritePrepare, Finish, WriteFinish, Inv, ListenersInv, ListenerTypes, Operation, history
<1>t. task \in [Tasks -> Task] /\ Proper(task[op.by]) /\ task[op.by] \in Task
  BY <1>0 DEF Inv, JournalInv, TasksInv, Proper
<1>1. CASE WritePrepare
  <2>1. PICK ok \in BOOLEAN :
          /\ Written(task[op.by].image, ok)
          /\ op' = IF ok THEN [op EXCEPT !.at = "plan"] ELSE None
          /\ task' = IF ok THEN [task EXCEPT ![op.by].image = None] ELSE Return(op.by, FALSE)
    BY Zenon, SMTT(20), <1>1 DEF WritePrepare
  <2>2. UNCHANGED <<journal, health>>
    BY <1>1 DEF WritePrepare
  <2>3. op' # None => op'.at # "drain"
    BY <1>0, <2>1 DEF Operation
  <2>4. TasksInv'
    <3>1. CASE ok
      <4> DEFINE r == [task[op.by] EXCEPT !.image = None]
      <4>1. task' = [task EXCEPT ![op.by] = r]
        BY <1>t, <2>1, <3>1
      <4>2. Proper(r)
        BY Zenon, SMTT(20), <1>t, TaskFacts
      <4> HIDE DEF r
      <4> QED
        BY Zenon, SMTT(20), <1>0, <4>1, <4>2, OneTask DEF Inv, JournalInv
    <3>2. CASE ~ok
      BY Zenon, SMTT(20), <1>0, <2>1, <3>2, ReturnKeeps DEF Inv, JournalInv
    <3> QED
      BY <3>1, <3>2
  <2> QED
    BY <1>0, <2>1, <2>2, <2>3, <2>4, WrittenKeeps DEF Inv
<1>2. CASE Finish
  <2>1. UNCHANGED <<disk>> /\ (op.at = "finish" \/ op.at = "drain")
    BY <1>2 DEF Finish
  <2>2. CASE op.mode = "restart"
    <3>1. op' = None /\ task' = Return(op.by, op.ok) /\ UNCHANGED <<journal, health>>
      BY SMTT(20), Zenon, <1>2, <2>2 DEF Finish
    <3>2. TasksInv'
      BY <1>0, <3>1, ReturnKeeps DEF Inv, JournalInv
    <3> QED
      BY <1>0, <2>1, <3>1, <3>2, RestKeeps DEF Inv
  <2>3. CASE op.mode # "restart"
    <3>1. /\ health' = (IF op.ok THEN "healthy" ELSE "failed")
          /\ journal' = Finished(journal)
          /\ op' = [op EXCEPT !.at = "finish_write"]
          /\ task' = [task EXCEPT ![op.by].image = Image(journal', health')]
      BY <1>2, <2>3 DEF Finish
    <3>2. health' \in Healths
      BY SMTT(20), Zenon, <3>1 DEF Healths
    <3>3. op.ok => Vouched(op.config)
      BY SMTT(20), Zenon, <1>0, <2>1 DEF Inv, ListenersInv, Holdings, JournalInv
    <3> DEFINE ap == IF op.ok THEN op.config ELSE journal.applied
               rec == IF op.by # "boot" /\ journal.recovery = "needs_operator_action" THEN "resolved" ELSE journal.recovery
    <3>4. journal \in Journals /\ journal.recovery \in {"none", "restored", "needs_operator_action", "resolved"}
          /\ journal.applied \in MaybeConfig /\ op.config \in MaybeConfig /\ None \in MaybeConfig
      BY <1>0 DEF Inv, JournalInv, Journals, Operation, MaybeConfig
    <3>5. ap \in MaybeConfig /\ Vouched(ap)
      BY <3>3, <3>4 DEF Inv, JournalInv
    <3>6. rec \in {"none", "restored", "needs_operator_action", "resolved"}
      BY <3>4
    <3>7. journal' = [journal EXCEPT !.applied = ap, !.in_flight = None, !.recovery = rec]
      BY <3>1, <3>4 DEF Finished, Journals
    <3> HIDE DEF ap, rec
    <3>8. journal' \in Journals /\ journal'.applied = ap
      BY Zenon, SMTT(20), <3>4, <3>5, <3>6, <3>7 DEF Journals
    <3> DEFINE m == Image(journal', health')
               r == [task[op.by] EXCEPT !.image = m]
    <3>9. m \in Images /\ m.applied = ap
      BY <3>2, <3>8, ImageFacts
    <3>10. task' = [task EXCEPT ![op.by] = r]
      BY <1>t, <3>1
    <3> HIDE DEF m
    <3>11. r \in Task /\ r.at = task[op.by].at /\ r.kind = task[op.by].kind /\ r.image = m
      BY <1>t, <3>9 DEF Task
    <3>12. Proper(r)
      BY Zenon, SMTT(20), <1>t, <3>5, <3>9, <3>11 DEF Proper
    <3> HIDE DEF r
    <3>13. TasksInv'
      BY Zenon, SMTT(20), <1>0, <3>10, <3>12, OneTask DEF Inv, JournalInv
    <3>14. op'.at # "drain"
      BY <1>0, <3>1 DEF Operation
    <3> QED
      BY <1>0, <2>1, <3>2, <3>5, <3>8, <3>13, <3>14 DEF Inv, JournalInv, Vouched
  <2> QED
    BY <2>2, <2>3
<1>3. CASE WriteFinish
  <2>1. PICK ok \in BOOLEAN : Written(task[op.by].image, ok) /\ task' = Return(op.by, op.ok /\ ok)
    BY SMTT(20), Zenon, <1>3 DEF WriteFinish
  <2>2. UNCHANGED <<journal, health>> /\ op' = None
    BY Zenon, SMTT(20), <1>3 DEF WriteFinish
  <2>3. TasksInv'
    BY Zenon, SMTT(20), <1>0, <2>1, ReturnKeeps DEF Inv, JournalInv
  <2> QED
    BY SMTT(20), Zenon, <1>0, <2>1, <2>2, <2>3, WrittenKeeps DEF Inv
<1> QED
  BY <1>1, <1>2, <1>3

----------------------------------------------------------------------------
(* The theorems                                                            *)

(* Nothing runs, nothing is journaled and no task has begun.               *)
LEMMA Initially == Init => Inv
<1> SUFFICES ASSUME Init PROVE Inv
  OBVIOUS
<1>0. None \in MaybeConfig /\ DOMAIN slots = {} /\ op = None /\ stopping = None /\ active = None
  BY DEF Init, MaybeConfig
<1>1. ListenerTypes
  <2>1. sockets \in [SocketIds -> Listener \cup {None}]
    BY DEF Init
  <2>2. slots \in [DOMAIN slots -> Slot]
    BY SMTT(20), Zenon, <1>0 DEF Init
  <2> QED
    BY <1>0, <2>1, <2>2 DEF ListenerTypes
<1>2. Owned
  BY Zenon, SMTT(20), <1>0 DEF Owned, InSlots, InOp, InStop, Init
<1>3. Holdings /\ Staging /\ ConfigInForce /\ DrainsAccounted
  BY <1>0 DEF Holdings, Staging, ConfigInForce, DrainsAccounted
<1>4. TasksInv
  <2>1. task = [t \in Tasks |-> IdleTask]
    BY SMTT(20), Zenon DEF Init
  <2>2. Proper(IdleTask) /\ IdleTask \in Task
    BY Zenon, SMTT(20), TaskFacts DEF Proper
  <2> QED
    BY <2>1, <2>2 DEF TasksInv
<1>5. journal \in Journals /\ journal.applied = None
  BY SMTT(20), Zenon, <1>0 DEF Init, NewJournal, Journals
<1>6. JournalInv
  BY <1>0, <1>4, <1>5 DEF JournalInv, Init, Healths, Vouched
<1> QED
  BY <1>1, <1>2, <1>3, <1>6 DEF Inv, ListenersInv

(* Every step keeps the invariant.                                         *)
LEMMA StepKeeps == Inv /\ [Next]_vars => Inv'
<1> SUFFICES ASSUME Inv, [Next]_vars PROVE Inv'
  OBVIOUS
<1>0. ListenersInv
  BY DEF Inv
<1>1. CASE Boot \/ Hangup \/ \E c \in Configs : Edit(c)
  <2>1. UNCHANGED <<listeners, op, stopping, cut>>
    BY <1>1 DEF Boot, Hangup, Edit, listeners, history
  <2> QED
    BY <1>0, <1>1, <2>1, QuietKeeps, ProcessJournal DEF Inv
<1>2. CASE Crash \/ Abandon \/ EndStop
  <2>1. Exit
    BY Zenon, SMTT(20), <1>2 DEF Crash, Abandon, EndStop
  <2> QED
    BY <1>0, <2>1, ExitKeeps, ProcessJournal DEF Inv
<1>3. CASE Stop
  BY <1>3, StopKeeps, ProcessJournal DEF Inv
<1>4. ASSUME NEW c \in Clients, NEW i \in SocketIds, NEW kind \in {"reload", "restart", "other"}, Arrive(c, i, kind)
      PROVE  Inv'
  <2>1. UNCHANGED <<listeners, op, stopping, cut>>
    BY <1>4 DEF Arrive, listeners, history
  <2> QED
    BY <1>0, <1>4, <2>1, QuietKeeps, ArriveJournal DEF Inv
<1>5. ASSUME NEW t \in Tasks, ReadImage(t) \/ WriteImage(t)
      PROVE  Inv'
  <2>1. UNCHANGED <<listeners, op, stopping, cut>>
    BY <1>5 DEF ReadImage, WriteImage, listeners, history
  <2> QED
    BY <1>0, <1>5, <2>1, QuietKeeps, AuditJournal DEF Inv
<1>6. ASSUME NEW t \in Tasks, Acquire(t)
      PROVE  Inv'
  BY <1>6, AcquireKeeps, AcquireJournal DEF Inv
<1>7. CASE WritePrepare \/ Finish \/ WriteFinish
  BY <1>7, PersistenceKeeps, PersistenceJournal DEF Inv
<1>8. CASE Plan \/ StartNext \/ StartFails \/ PrepareFails \/ Swap \/ EndUndo
  <2>1. JournalInv'
    BY <1>8, OperationJournal
  <2>2. ListenersInv'
    BY <1>8, PlanKeeps, StartNextKeeps, FailedStartKeeps, SwapKeeps, EndUndoKeeps
  <2> QED
    BY <2>1, <2>2 DEF Inv
<1>9. ASSUME NEW i \in SocketIds, Drained(i) \/ DrainFails(i)
      PROVE  Inv'
  BY <1>9, DrainedKeeps, DrainedJournal, DrainFailsKeeps, DrainFailsJournal DEF Inv
<1>10. CASE UNCHANGED vars
  <2>1. UNCHANGED <<listeners, op, stopping, cut>> /\ UNCHANGED <<disk, journal, health, task, served, op>>
    BY <1>10 DEF vars, listeners, history
  <2>2. ListenersInv'
    BY SMTT(20), Zenon, <1>0, <2>1, QuietKeeps
  <2>3. JournalInv'
    BY SMTT(20), Zenon, <2>1 DEF Inv, JournalInv, TasksInv, Proper, Vouched
  <2> QED
    BY <2>2, <2>3 DEF Inv
<1> QED
  BY SMTT(20), Zenon, <1>1, <1>2, <1>3, <1>4, <1>5, <1>6, <1>7, <1>8, <1>9, <1>10 DEF Next

(* The invariant accounts for every listener that accepts.                 *)
LEMMA NothingLeaked == Inv => NoListenerLeaked
<1> SUFFICES ASSUME Inv, NEW i \in SocketIds, sockets[i] # None, sockets[i].state = "running"
             PROVE  \/ \E n \in DOMAIN slots : slots[n].socket = i
                    \/ op # None /\ (i \in Range(op.started) \/ \E e \in Range(op.queue) : e.socket = i)
                    \/ stopping # None /\ \E e \in Range(stopping) : e.socket = i
  BY DEF NoListenerLeaked
<1>1. i \in InSlots \cup InOp \cup InStop
  BY SMTT(20), Zenon DEF Inv, ListenersInv, Owned
<1>2. \A q : i \in SocketsOf(q) => \E e \in Range(q) : e.socket = i
  BY DEF SocketsOf, Range
<1>3. CASE i \in InSlots
  BY SMTT(20), Zenon, <1>3 DEF InSlots
<1>4. CASE i \in InOp
  BY SMTT(20), Zenon, <1>2, <1>4 DEF InOp
<1>5. CASE i \in InStop
  BY <1>2, <1>5 DEF InStop
<1> QED
  BY Zenon, SMTT(20), <1>1, <1>3, <1>4, <1>5

(* Whatever is edited, reloaded, restarted, fails to bind, times out or    *)
(* crashes, the supervisor keeps the inductive invariant.                  *)
THEOREM InvKept == Spec => []Inv
BY Initially, StepKeeps, PTL DEF Spec

(* The listeners of the active snapshot serve, each with the configuration *)
(* the snapshot gives it; a listener that accepts is a slot's, or one that *)
(* the reload in progress has just started or is about to shut down; and   *)
(* the draining identities a slot reports are the listeners still to be    *)
(* drained (apply_compiled_runtime_with_mode, finish_draining).            *)
THEOREM ListenersAccountedKept == Spec => []ListenersAccounted
<1>1. Inv => ListenersAccounted
  BY NothingLeaked DEF Inv, ListenersInv, ListenersAccounted
<1> QED
  BY <1>1, InvKept, PTL

(* The control-plane journal, in memory and on disk, names as applied only *)
(* a configuration that has served, also when a journal write fails, a     *)
(* stale image is written late, or the process dies between two writes.    *)
THEOREM AppliedWasServedKept == Spec => []AppliedWasServed
<1>1. Inv => AppliedWasServed
  BY DEF Inv, JournalInv, Vouched, AppliedWasServed
<1> QED
  BY <1>1, InvKept, PTL
=============================================================================

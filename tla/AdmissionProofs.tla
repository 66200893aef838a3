--------------------------- MODULE AdmissionProofs ---------------------------
(* Proofs about ListenerAdmission, for any connections, sources, limits and   *)
(* updates: slots, source leases and handshake permits are exactly those of   *)
(* the connections being served.                                              *)
EXTENDS AdmissionGuardProofs

-----------------------------------------------------------------------------
(* The compare-and-exchange takes the slot, starts over or sheds.             *)
LEMMA SlotTakenInv ==
    ASSUME AdmissionInv, NEW c \in Connections, conn[c].phase = "cas", SlotTaken(c),
           UNCHANGED <<listener, limit, policy, update, now>>
    PROVE  AdmissionInv'
<1>1. /\ DOMAIN conn = Connections /\ conn[c].slot \in BOOLEAN
      /\ TaskRecord(conn[c], InForce) /\ TaskHolds(conn[c], listener.kind, listener.tls)
      /\ "none" \notin Range(OverloadStates)
  BY TaskShape
<1>2. conn[c].slot = FALSE /\ conn[c].sync = "none"
  BY <1>1 DEF TaskHolds, HoldsSlot
<1>3. PICK s : s = OverloadSeen(counters.active + 1, FALSE)
  BY Zenon, SMTT(20)
<1>4. s \in Range(OverloadStates) /\ ManagerShape'
  BY Zenon, SMTT(20), <1>3, ManagerMoved DEF SlotTaken
<1>5. PICK r : r = [conn[c] EXCEPT !.slot = TRUE, !.phase = "admitted", !.sync = s]
  OBVIOUS
<1>6. conn' = [conn EXCEPT ![c] = r]
  BY Zenon, SMTT(20), <1>1, <1>3, <1>5 DEF SlotTaken
<1>7. /\ r.phase = "admitted" /\ r.lease = conn[c].lease /\ r.permit = conn[c].permit
      /\ r.slot = TRUE /\ r.sync = s /\ r.source = conn[c].source
      /\ TaskFields(r)
  BY Zenon, SMTT(20), <1>1, <1>5 DEF TaskRecord, TaskFields
<1>8. TaskRecord(r, InForce)
  BY <1>1, <1>4, <1>7 DEF TaskRecord, Phases
<1>9. TaskHolds(r, listener.kind, listener.tls)
  BY Zenon, SMTT(20), <1>1, <1>4, <1>7 DEF TaskHolds, HoldsSlot, LeasePhases, PermitPhases, TcpPhases
<1>10. CountersMoved(conn[c], r)
  <2>1. Asks(r) /\ Asks(conn[c])
    BY <1>7 DEF Asks
  <2>2. counters \in [accepted : Nat, active : Nat, shed : Nat, completed : Nat,
                      overload : Range(OverloadStates)]
    BY DEF AdmissionInv, CountersShape
  <2>3. counters' = [counters EXCEPT !.active = @ + 1]
    BY DEF SlotTaken
  <2>4. QED
    BY <1>2, <1>7, <2>1, <2>2, <2>3 DEF CountersMoved, Bit
<1>11. GuardsMoved
  BY Zenon, SMTT(20), <1>6, <1>7, GuardsStay DEF SlotTaken
<1>12. listener.state \in {"running", "draining"}
  BY SMTT(20), Zenon, LiveTask
<1>13. QED
  BY Zenon, SMTT(20), <1>4, <1>6, <1>8, <1>9, <1>10, <1>11, <1>12, TaskMoved

(* A connection that finds the listener full is shed and takes no slot.       *)
LEMMA SlotRefusedInv ==
    ASSUME AdmissionInv, NEW c \in Connections, conn[c].phase = "cas", SlotRefused(c),
           UNCHANGED <<listener, limit, policy, update, now>>
    PROVE  AdmissionInv'
<1>1. /\ DOMAIN conn = Connections /\ conn[c].slot \in BOOLEAN
      /\ TaskRecord(conn[c], InForce) /\ TaskHolds(conn[c], listener.kind, listener.tls)
      /\ "none" \notin Range(OverloadStates)
  BY TaskShape
<1>2. conn[c].slot = FALSE /\ conn[c].sync = "none"
  BY <1>1 DEF TaskHolds, HoldsSlot
<1>3. PICK s : s = OverloadSeen(counters.active, TRUE)
  BY Zenon, SMTT(20)
<1>4. s \in Range(OverloadStates) /\ ManagerShape'
  BY Zenon, SMTT(20), <1>3, ManagerMoved DEF SlotRefused
<1>5. PICK r : r = [conn[c] EXCEPT !.lease = 0, !.permit = 0, !.phase = "shedding", !.sync = s]
  OBVIOUS
<1>6. conn' = [conn EXCEPT ![c] = r]
  BY Zenon, SMTT(20), <1>1, <1>3, <1>5 DEF SlotRefused
<1>7. /\ r.phase = "shedding" /\ r.lease = 0 /\ r.permit = 0
      /\ r.slot = FALSE /\ r.sync = s
      /\ TaskFields(r)
  BY Zenon, SMTT(20), <1>1, <1>2, <1>5 DEF TaskRecord, TaskFields
<1>8. InForce \in Nat /\ AllFit(guards, conn) /\ InForce = Len(guards)
  BY GuardsShape DEF InForce
<1>9. TaskRecord(r, InForce)
  BY SMTT(20), Zenon, <1>4, <1>7, <1>8 DEF TaskRecord, Phases
<1>10. TaskHolds(r, listener.kind, listener.tls)
  BY Zenon, SMTT(20), <1>1, <1>4, <1>7 DEF TaskHolds, HoldsSlot, TcpPhases
<1>11. CountersMoved(conn[c], r)
  <2>1. ~Asks(r) /\ Asks(conn[c])
    BY <1>7 DEF Asks
  <2>2. counters \in [accepted : Nat, active : Nat, shed : Nat, completed : Nat,
                      overload : Range(OverloadStates)]
    BY DEF AdmissionInv, CountersShape
  <2>3. counters' = [counters EXCEPT !.shed = @ + 1]
    BY DEF SlotRefused
  <2>4. QED
    BY <1>2, <1>7, <2>1, <2>2, <2>3 DEF CountersMoved, Bit
<1>12. GuardsMoved
  <2>1. PICK cs, gs : cs = [conn EXCEPT ![c] = [conn[c] EXCEPT !.lease = 0]] /\ gs = DropLease(guards, c)
    BY Zenon, SMTT(20)
  <2>2. PICK ds, hs : ds = conn' /\ hs = DropPermit(gs, c)
    OBVIOUS
  <2>3. /\ cs[c].lease = 0 /\ cs[c].permit = conn[c].permit
        /\ \A d \in Connections \ {c} : cs[d] = conn[d]
    BY <1>1, <2>1 DEF TaskRecord, TaskFields
  <2>4. conn[c].lease \in 0..Len(guards) /\ conn[c].permit \in 0..Len(guards)
    BY Zenon, SMTT(20), <1>1, <1>8 DEF TaskRecord, TaskFields
  <2>5. AllFit(gs, cs) /\ SameLimits(guards, gs)
    BY Zenon, SMTT(20), <1>8, <2>1, <2>3, <2>4, LeaseDropped
  <2>6. /\ ds[c].permit = 0 /\ ds[c].lease = 0
        /\ \A d \in Connections \ {c} : ds[d] = cs[d]
    BY Zenon, SMTT(20), <1>1, <1>6, <1>7, <2>2, <2>3
  <2>7. conn[c].permit \in 0..Len(gs)
    BY SMTT(20), Zenon, <2>4, <2>5 DEF SameLimits
  <2>8. AllFit(hs, ds) /\ SameLimits(gs, hs)
    <3>1. ds[c].lease = cs[c].lease /\ (ds[c].lease # 0 => ds[c].source = cs[c].source)
      BY <2>3, <2>6
    <3>2. ds[c].permit = 0 /\ cs[c].permit = conn[c].permit /\ AllFit(gs, cs)
          /\ \A d \in Connections \ {c} : ds[d] = cs[d]
      BY SMTT(20), Zenon, <2>3, <2>5, <2>6
    <3>3. AllFit(DropPermit(gs, c), ds) /\ SameLimits(gs, DropPermit(gs, c))
      BY SMTT(20), Zenon, <2>7, <3>1, <3>2, PermitDropped
    <3>4. QED
      BY <2>2, <3>3
  <2>9. guards' = hs /\ SameLimits(guards, hs)
    BY Zenon, SMTT(20), <2>1, <2>2, <2>5, <2>8 DEF SameLimits, SlotRefused
  <2>10. QED
    BY <2>2, <2>8, <2>9 DEF GuardsMoved
<1>13. listener.state \in {"running", "draining"}
  BY LiveTask
<1>14. QED
  BY Zenon, SMTT(20), <1>4, <1>6, <1>9, <1>10, <1>11, <1>12, <1>13, TaskMoved

(* The compare-exchange of the active count either takes the slot, refuses    *)
(* it, or is retried because another task moved the count.                    *)
LEMMA ExchangeSlotInv ==
    ASSUME AdmissionInv, NEW c \in Connections, ExchangeSlot(c)
    PROVE  AdmissionInv'
<1>1. conn[c].phase = "cas" /\ UNCHANGED <<listener, limit, policy, update, now>>
  BY Zenon, SMTT(20) DEF ExchangeSlot
<1>2. CASE SlotTaken(c)
  BY <1>1, <1>2, SlotTakenInv
<1>3. CASE SlotRefused(c)
  BY <1>1, <1>3, SlotRefusedInv
<1>4. CASE SlotMoved(c)
  <2>1. TaskHolds(conn[c], listener.kind, listener.tls) /\ conn[c].slot \in BOOLEAN
    BY TaskShape
  <2>2. /\ conn[c].slot = FALSE /\ conn[c].sync = "none"
        /\ conn[c].lease # 0 => listener.kind # "http3"
    BY <1>1, <2>1 DEF TaskHolds, HoldsSlot
  <2>3. "slot" \in Phases /\ "slot" \in LeasePhases /\ "slot" \in PermitPhases /\ "slot" \notin TcpPhases
    BY DEF Phases, LeasePhases, PermitPhases, TcpPhases
  <2>4. QED
    BY <1>1, <1>4, <2>2, <2>3, MoveInv DEF SlotMoved
<1>5. QED
  BY Zenon, SMTT(20), <1>2, <1>3, <1>4 DEF ExchangeSlot

(* Storing the overload state computed a moment ago; the task goes on.        *)
LEMMA StoreOverloadInv ==
    ASSUME AdmissionInv, NEW c \in Connections, StoreOverload(c)
    PROVE  AdmissionInv'
<1>1. /\ DOMAIN conn = Connections /\ conn[c].slot \in BOOLEAN
      /\ TaskRecord(conn[c], InForce) /\ TaskHolds(conn[c], listener.kind, listener.tls)
      /\ "none" \notin Range(OverloadStates)
  BY TaskShape
<1>2. PICK p : p = PhaseAfterStore(conn[c].phase)
  OBVIOUS
<1>3. /\ conn[c].phase \in {"admitted", "shedding", "finished"} /\ conn[c].sync # "none"
      /\ conn[c].phase = "shedding" => p = "done"
      /\ conn[c].phase = "finished" => p = "closing"
      /\ conn[c].phase = "admitted" => p = IF listener.tls THEN "securing" ELSE "serving"
  BY <1>2 DEF StoreOverload, PhaseAfterStore
<1>4. PICK r : r = [conn[c] EXCEPT !.sync = "none", !.phase = p]
  OBVIOUS
<1>5. conn' = [conn EXCEPT ![c] = r]
  BY Zenon, SMTT(20), <1>1, <1>2, <1>4 DEF StoreOverload
<1>6. /\ r.phase = p /\ r.lease = conn[c].lease /\ r.permit = conn[c].permit
      /\ r.slot = conn[c].slot /\ r.sync = "none" /\ r.source = conn[c].source
      /\ TaskFields(r)
  BY Zenon, SMTT(20), <1>1, <1>4 DEF TaskRecord, TaskFields
<1>7. TaskRecord(r, InForce)
  BY Zenon, SMTT(20), <1>1, <1>3, <1>6 DEF TaskRecord, Phases
<1>8. conn[c].slot <=> conn[c].phase = "admitted"
  BY Zenon, SMTT(20), <1>1, <1>3 DEF TaskHolds, HoldsSlot
<1>9. listener.kind = "http3" => listener.tls
  BY DEF AdmissionInv, ListenerShape
<1>10. conn[c].permit # 0 => p = "securing"
  <2>1. conn[c].permit # 0 => conn[c].phase = "admitted" /\ listener.tls
    BY <1>1, <1>3 DEF TaskHolds, PermitPhases
  <2>2. QED
    BY SMTT(20), Zenon, <1>3, <2>1
<1>11. r.slot = HoldsSlot(r, listener.kind)
  BY Zenon, SMTT(20), <1>1, <1>3, <1>6, <1>8 DEF HoldsSlot
<1>12. r.lease # 0 => r.phase \in LeasePhases /\ listener.kind # "http3"
  BY Zenon, SMTT(20), <1>1, <1>3, <1>6 DEF TaskHolds, LeasePhases
<1>13. TaskHolds(r, listener.kind, listener.tls)
  BY Zenon, SMTT(20), <1>1, <1>3, <1>6, <1>10, <1>11, <1>12 DEF TaskHolds, PermitPhases, TcpPhases
<1>14. Asks(r) <=> Asks(conn[c])
  BY <1>3, <1>6, <1>8 DEF Asks
<1>15. CountersMoved(conn[c], r)
  <2>1. counters \in [accepted : Nat, active : Nat, shed : Nat, completed : Nat,
                      overload : Range(OverloadStates)]
    BY DEF AdmissionInv, CountersShape
  <2>2. counters' = [counters EXCEPT !.overload = conn[c].sync] /\ conn[c].sync \in Range(OverloadStates)
    BY Zenon, SMTT(20), <1>1, <1>3 DEF StoreOverload, TaskRecord, TaskFields
  <2>3. Bit(Asks(r)) = Bit(Asks(conn[c])) /\ Bit(r.slot) = Bit(conn[c].slot)
    BY <1>6, <1>14 DEF Bit
  <2>4. QED
    BY <2>1, <2>2, <2>3 DEF CountersMoved
<1>16. GuardsMoved
  BY Zenon, SMTT(20), <1>5, <1>6, GuardsStay DEF StoreOverload
<1>17. /\ listener.state \in {"running", "draining"}
       /\ ManagerShape' /\ UNCHANGED <<listener, limit, policy, update>>
  BY Zenon, SMTT(20), <1>3, LiveTask DEF StoreOverload, AdmissionInv, ManagerShape
<1>18. QED
  BY Zenon, SMTT(20), <1>5, <1>7, <1>13, <1>15, <1>16, <1>17, TaskMoved
(* The end of a handshake gives the permit back.                              *)
LEMMA EndHandshakeInv ==
    ASSUME AdmissionInv, NEW c \in Connections, NEW succeeds \in BOOLEAN, EndHandshake(c, succeeds)
    PROVE  AdmissionInv'
<1>1. /\ DOMAIN conn = Connections /\ conn[c].slot \in BOOLEAN
      /\ TaskRecord(conn[c], InForce) /\ TaskHolds(conn[c], listener.kind, listener.tls)
  BY TaskShape
<1>2. /\ conn[c].phase = "securing" /\ conn[c].slot = TRUE /\ conn[c].sync = "none"
      /\ listener.kind = "http3" => conn[c].lease = 0
  BY <1>1 DEF EndHandshake, TaskHolds, HoldsSlot
<1>3. PICK p : p = IF ~succeeds THEN "finished" ELSE IF listener.kind = "http3" THEN "source" ELSE "serving"
  OBVIOUS
<1>4. PICK r : r = [conn[c] EXCEPT !.permit = 0, !.phase = p]
  OBVIOUS
<1>5. conn' = [conn EXCEPT ![c] = r]
  BY Zenon, SMTT(20), <1>1, <1>3, <1>4 DEF EndHandshake
<1>6. /\ r.phase = p /\ r.lease = conn[c].lease /\ r.permit = 0
      /\ r.slot = TRUE /\ r.sync = "none" /\ r.source = conn[c].source
      /\ TaskFields(r)
  BY Zenon, SMTT(20), <1>1, <1>2, <1>4 DEF TaskRecord, TaskFields
<1>7. InForce \in Nat /\ AllFit(guards, conn) /\ InForce = Len(guards)
  BY GuardsShape DEF InForce
<1>8. TaskRecord(r, InForce)
  BY SMTT(20), Zenon, <1>1, <1>3, <1>6, <1>7 DEF TaskRecord, Phases
<1>9. TaskHolds(r, listener.kind, listener.tls)
  BY Zenon, SMTT(20), <1>2, <1>3, <1>6 DEF TaskHolds, HoldsSlot, LeasePhases, TcpPhases
<1>10. CountersMoved(conn[c], r)
  <2>1. Asks(r) /\ Asks(conn[c])
    BY <1>2, <1>6 DEF Asks
  <2>2. QED
    BY Zenon, SMTT(20), <1>2, <1>6, <2>1, CountersStay DEF EndHandshake
<1>11. GuardsMoved
  <2>1. PICK ds, hs : ds = conn' /\ hs = DropPermit(guards, c)
    OBVIOUS
  <2>2. /\ ds[c].permit = 0 /\ ds[c].lease = conn[c].lease /\ ds[c].source = conn[c].source
        /\ \A d \in Connections \ {c} : ds[d] = conn[d]
    BY SMTT(20), Zenon, <1>1, <1>5, <1>6, <2>1
  <2>3. conn[c].permit \in 0..Len(guards)
    BY Zenon, SMTT(20), <1>1, <1>7 DEF TaskRecord, TaskFields
  <2>4. AllFit(hs, ds) /\ SameLimits(guards, hs)
    BY SMTT(20), Zenon, <1>7, <2>1, <2>2, <2>3, PermitDropped
  <2>5. QED
    BY <2>1, <2>4 DEF GuardsMoved, EndHandshake
<1>12. /\ listener.state \in {"running", "draining"}
       /\ ManagerShape' /\ UNCHANGED <<listener, limit, policy, update>>
  BY <1>2, LiveTask DEF EndHandshake, AdmissionInv, ManagerShape
<1>13. QED
  BY Zenon, SMTT(20), <1>5, <1>8, <1>9, <1>10, <1>11, <1>12, TaskMoved

(* The exchange is over; an HTTP/3 task gives its lease back here.            *)
LEMMA EndServingInv ==
    ASSUME AdmissionInv, NEW c \in Connections, EndServing(c)
    PROVE  AdmissionInv'
<1>1. /\ DOMAIN conn = Connections /\ conn[c].slot \in BOOLEAN
      /\ TaskRecord(conn[c], InForce) /\ TaskHolds(conn[c], listener.kind, listener.tls)
  BY TaskShape
<1>2. /\ conn[c].phase = "serving" /\ conn[c].slot = TRUE /\ conn[c].sync = "none"
      /\ conn[c].permit = 0
  BY <1>1 DEF EndServing, TaskHolds, HoldsSlot, PermitPhases
<1>3. CASE listener.kind # "http3"
  <2>1. guards' = guards /\ Move(c, "finished")
    <3>1. conn' = [conn EXCEPT ![c].phase = "finished", ![c].lease = @]
      BY <1>3 DEF EndServing
    <3>2. [conn[c] EXCEPT !.phase = "finished", !.lease = @] = [conn[c] EXCEPT !.phase = "finished"]
      BY Zenon, SMTT(20), <1>1 DEF TaskRecord, TaskFields
    <3>3. conn' = [conn EXCEPT ![c].phase = "finished"]
      BY Zenon, SMTT(20), <1>1, <3>1, <3>2
    <3>4. QED
      BY Zenon, SMTT(20), <1>3, <3>3 DEF EndServing, Move
  <2>2. "finished" \in Phases /\ "finished" \in LeasePhases /\ "finished" \notin TcpPhases
    BY DEF Phases, LeasePhases, TcpPhases
  <2>3. QED
    BY <1>2, <1>3, <2>1, <2>2, MoveInv DEF EndServing
<1>4. CASE listener.kind = "http3"
  <2>1. PICK r : r = [conn[c] EXCEPT !.phase = "finished", !.lease = 0]
    OBVIOUS
  <2>2. conn' = [conn EXCEPT ![c] = r] /\ guards' = DropLease(guards, c)
    BY Zenon, SMTT(20), <1>1, <1>4, <2>1 DEF EndServing
  <2>3. /\ r.phase = "finished" /\ r.lease = 0 /\ r.permit = 0
        /\ r.slot = TRUE /\ r.sync = "none"
        /\ TaskFields(r)
    BY Zenon, SMTT(20), <1>1, <1>2, <2>1 DEF TaskRecord, TaskFields
  <2>4. InForce \in Nat /\ AllFit(guards, conn) /\ InForce = Len(guards)
    BY GuardsShape DEF InForce
  <2>5. TaskRecord(r, InForce)
    BY <2>3, <2>4 DEF TaskRecord, Phases
  <2>6. TaskHolds(r, listener.kind, listener.tls)
    BY Zenon, SMTT(20), <2>3 DEF TaskHolds, HoldsSlot, TcpPhases
  <2>7. CountersMoved(conn[c], r)
    <3>1. Asks(r) /\ Asks(conn[c])
      BY <1>2, <2>3 DEF Asks
    <3>2. QED
      BY Zenon, SMTT(20), <1>2, <2>3, <3>1, CountersStay DEF EndServing
  <2>8. GuardsMoved
    <3>1. PICK ds, hs : ds = conn' /\ hs = DropLease(guards, c)
      OBVIOUS
    <3>2. /\ ds[c].lease = 0 /\ ds[c].permit = conn[c].permit
          /\ \A d \in Connections \ {c} : ds[d] = conn[d]
      BY SMTT(20), Zenon, <1>1, <1>2, <2>2, <2>3, <3>1
    <3>3. conn[c].lease \in 0..Len(guards)
      BY Zenon, SMTT(20), <1>1, <2>4 DEF TaskRecord, TaskFields
    <3>4. AllFit(hs, ds) /\ SameLimits(guards, hs)
      BY <2>4, <3>1, <3>2, <3>3, LeaseDropped
    <3>5. QED
      BY <2>2, <3>1, <3>4 DEF GuardsMoved
  <2>9. /\ listener.state \in {"running", "draining"}
        /\ ManagerShape' /\ UNCHANGED <<listener, limit, policy, update>>
    BY <1>2, LiveTask DEF EndServing, AdmissionInv, ManagerShape
  <2>10. QED
    BY Zenon, SMTT(20), <2>2, <2>5, <2>6, <2>7, <2>8, <2>9, TaskMoved
<1>5. QED
  BY <1>3, <1>4

(* The slot goes back, and the overload state is computed from what is left.  *)
LEMMA ReleaseSlotInv ==
    ASSUME AdmissionInv, NEW c \in Connections, ReleaseSlot(c)
    PROVE  AdmissionInv'
<1>1. /\ DOMAIN conn = Connections /\ conn[c].slot \in BOOLEAN
      /\ TaskRecord(conn[c], InForce) /\ TaskHolds(conn[c], listener.kind, listener.tls)
      /\ "none" \notin Range(OverloadStates)
  BY TaskShape
<1>2. conn[c].phase = "finished" /\ conn[c].slot = TRUE /\ conn[c].permit = 0
  BY <1>1 DEF ReleaseSlot, TaskHolds, HoldsSlot, PermitPhases
<1>3. PICK s : s = OverloadSeen(counters.active - 1, FALSE)
  BY Zenon, SMTT(20)
<1>4. s \in Range(OverloadStates) /\ ManagerShape'
  BY Zenon, SMTT(20), <1>3, ManagerMoved DEF ReleaseSlot
<1>5. PICK r : r = [conn[c] EXCEPT !.slot = FALSE, !.sync = s]
  OBVIOUS
<1>6. conn' = [conn EXCEPT ![c] = r]
  BY Zenon, SMTT(20), <1>1, <1>3, <1>5 DEF ReleaseSlot
<1>7. /\ r.phase = "finished" /\ r.lease = conn[c].lease /\ r.permit = 0
      /\ r.slot = FALSE /\ r.sync = s /\ r.source = conn[c].source
      /\ TaskFields(r)
  BY Zenon, SMTT(20), <1>1, <1>2, <1>5 DEF TaskRecord, TaskFields
<1>8. TaskRecord(r, InForce)
  <2>1. InForce \in Nat
    BY GuardsShape
  <2>2. r.lease \in 0..InForce
    BY SMTT(20), Zenon, <1>1, <1>7 DEF TaskRecord
  <2>3. QED
    BY SMTT(20), Zenon, <1>4, <1>7, <2>1, <2>2 DEF TaskRecord, Phases
<1>9. TaskHolds(r, listener.kind, listener.tls)
  BY Zenon, SMTT(20), <1>1, <1>2, <1>4, <1>7 DEF TaskHolds, HoldsSlot, TcpPhases
<1>10. CountersMoved(conn[c], r)
  <2>1. ~Asks(r) /\ Asks(conn[c])
    BY <1>2, <1>7 DEF Asks
  <2>2. counters \in [accepted : Nat, active : Nat, shed : Nat, completed : Nat,
                      overload : Range(OverloadStates)]
    BY DEF AdmissionInv, CountersShape
  <2>3. counters' = [counters EXCEPT !.active = @ - 1, !.completed = @ + 1]
    BY DEF ReleaseSlot
  <2>4. Bit(conn[c].slot) = 1 /\ Bit(r.slot) = 0 /\ Bit(Asks(conn[c])) = 1 /\ Bit(Asks(r)) = 0
    BY SMTT(20), Zenon, <1>2, <1>7, <2>1 DEF Bit
  <2>5. /\ counters'.accepted = counters.accepted /\ counters'.active = counters.active - 1
        /\ counters'.shed = counters.shed /\ counters'.completed = counters.completed + 1
        /\ counters' \in [accepted : Nat, active : Int, shed : Nat, completed : Nat,
                          overload : Range(OverloadStates)]
        /\ counters.accepted \in Nat /\ counters.active \in Nat /\ counters.shed \in Nat
        /\ counters.completed \in Nat
    <3>1. counters' = [accepted |-> counters.accepted, active |-> counters.active - 1,
                       shed |-> counters.shed, completed |-> counters.completed + 1,
                       overload |-> counters.overload]
      BY Zenon, SMTT(20), <2>2, <2>3
    <3>2. /\ counters.accepted \in Nat /\ counters.active \in Nat /\ counters.shed \in Nat
          /\ counters.completed \in Nat /\ counters.overload \in Range(OverloadStates)
      BY <2>2
    <3>3. counters.active - 1 \in Int /\ counters.completed + 1 \in Nat
      BY <3>2
    <3>4. QED
      BY <3>1, <3>2, <3>3
  <2>6. QED
    BY <2>4, <2>5 DEF CountersMoved
<1>11. GuardsMoved
  <2>1. guards' = guards /\ r.lease = conn[c].lease /\ r.permit = conn[c].permit /\ r.source = conn[c].source
    BY <1>2, <1>7 DEF ReleaseSlot
  <2>2. QED
    BY Zenon, SMTT(20), <1>6, <2>1, GuardsStay
<1>12. /\ listener.state \in {"running", "draining"} /\ UNCHANGED <<listener, limit, policy, update>>
  BY SMTT(20), Zenon, <1>2, LiveTask DEF ReleaseSlot
<1>13. QED
  BY Zenon, SMTT(20), <1>4, <1>6, <1>8, <1>9, <1>10, <1>11, <1>12, TaskMoved

(* The task ends and its lease goes back.                                     *)
LEMMA EndTaskInv ==
    ASSUME AdmissionInv, NEW c \in Connections, EndTask(c)
    PROVE  AdmissionInv'
<1>1. /\ DOMAIN conn = Connections /\ conn[c].slot \in BOOLEAN
      /\ TaskRecord(conn[c], InForce) /\ TaskHolds(conn[c], listener.kind, listener.tls)
  BY TaskShape
<1>2. /\ conn[c].phase = "closing" /\ conn[c].slot = FALSE /\ conn[c].permit = 0
      /\ conn[c].sync = "none"
  BY <1>1 DEF EndTask, TaskHolds, HoldsSlot, PermitPhases
<1>3. PICK r : r = [conn[c] EXCEPT !.lease = 0, !.phase = "done"]
  OBVIOUS
<1>4. conn' = [conn EXCEPT ![c] = r] /\ guards' = DropLease(guards, c)
  BY Zenon, SMTT(20), <1>1, <1>3 DEF EndTask
<1>5. /\ r.phase = "done" /\ r.lease = 0 /\ r.permit = 0
      /\ r.slot = FALSE /\ r.sync = "none"
      /\ TaskFields(r)
  BY Zenon, SMTT(20), <1>1, <1>2, <1>3 DEF TaskRecord, TaskFields
<1>6. InForce \in Nat /\ AllFit(guards, conn) /\ InForce = Len(guards)
  BY GuardsShape DEF InForce
<1>7. TaskRecord(r, InForce)
  BY <1>5, <1>6 DEF TaskRecord, Phases
<1>8. TaskHolds(r, listener.kind, listener.tls)
  BY Zenon, SMTT(20), <1>5 DEF TaskHolds, HoldsSlot, TcpPhases
<1>9. CountersMoved(conn[c], r)
  <2>1. ~Asks(r) /\ ~Asks(conn[c])
    BY SMTT(20), Zenon, <1>2, <1>5 DEF Asks
  <2>2. QED
    BY Zenon, SMTT(20), <1>2, <1>5, <2>1, CountersStay DEF EndTask
<1>10. GuardsMoved
  <2>1. PICK ds, hs : ds = conn' /\ hs = DropLease(guards, c)
    OBVIOUS
  <2>2. /\ ds[c].lease = 0 /\ ds[c].permit = conn[c].permit
        /\ \A d \in Connections \ {c} : ds[d] = conn[d]
    BY SMTT(20), Zenon, <1>1, <1>2, <1>4, <1>5, <2>1
  <2>3. conn[c].lease \in 0..Len(guards)
    BY SMTT(20), Zenon, <1>1, <1>6 DEF TaskRecord, TaskFields
  <2>4. AllFit(hs, ds) /\ SameLimits(guards, hs)
    BY <1>6, <2>1, <2>2, <2>3, LeaseDropped
  <2>5. QED
    BY <1>4, <2>1, <2>4 DEF GuardsMoved
<1>11. /\ listener.state \in {"running", "draining"}
       /\ ManagerShape' /\ UNCHANGED <<listener, limit, policy, update>>
  BY <1>2, LiveTask DEF EndTask, AdmissionInv, ManagerShape
<1>12. QED
  BY Zenon, SMTT(20), <1>4, <1>7, <1>8, <1>9, <1>10, <1>11, TaskMoved
-----------------------------------------------------------------------------
(* Steps that leave tasks, guards and counters alone.                         *)
LEMMA AroundTasks ==
    ASSUME AdmissionInv, UNCHANGED <<counters, guards, conn>>, limit' \in Nat,
           ManagerShape', UpdateShape',
           listener'.kind = listener.kind, listener'.tls = listener.tls, ListenerShape',
           listener'.state = "drain_timeout_expired" => listener.state = "drain_timeout_expired",
           listener.state = "drain_timeout_expired" => listener'.state = "drain_timeout_expired"
    PROVE  AdmissionInv'
<1>1. InForce' = InForce
  BY DEF InForce
<1>2. TasksInv'
  BY <1>1 DEF AdmissionInv, TasksInv
<1>3. CountersShape'
  BY DEF AdmissionInv, CountersShape
<1>4. AllFit(guards', conn')
  BY DEF AdmissionInv
<1>5. SlotsHeld' /\ ConnectionsAccounted'
  BY DEF AdmissionInv, SlotsHeld, ConnectionsAccounted
<1>6. QED
  BY <1>2, <1>3, <1>4, <1>5 DEF AdmissionInv

(* An in-place update: limit and manager, policy, then a fresh guard.         *)
LEMMA NewManagerShape ==
    ASSUME NEW managed, manager' = IF managed THEN NewManager ELSE NoManager
    PROVE  ManagerShape'
<1>1. DisabledFor("normal") = {}
  BY DEF DisabledFor, ShouldDisable
<1>2. NewManager = [state |-> "normal", samples |-> <<>>, disabled |-> DisabledFor("normal")]
  BY <1>1 DEF NewManager
<1>3. "normal" \in Range(OverloadStates)
  BY DEF Range, OverloadStates
<1>4. CASE manager' = NewManager
  <2>1. PICK m : m = manager'
    OBVIOUS
  <2>2. /\ m = [state |-> m.state, samples |-> m.samples, disabled |-> DisabledFor(m.state)]
        /\ m.state = "normal"
    BY <1>2, <1>4, <2>1
  <2>3. QED
    BY <1>3, <2>1, <2>2 DEF ManagerShape
<1>5. CASE manager' = NoManager
  BY <1>5 DEF ManagerShape
<1>6. QED
  BY <1>4, <1>5

(* A reload first replaces the connection limit and the overload manager;     *)
(* guards and holders stay.                                                   *)
LEMMA BeginUpdateInv ==
    ASSUME AdmissionInv, NEW spec \in ListenerSpecs, BeginUpdate(spec)
    PROVE  AdmissionInv'
<1>1. limit' \in Nat
  BY AdmissionAssumption DEF AdmissionAssumption, BeginUpdate
<1>2. ManagerShape'
  BY SMTT(20), Zenon, NewManagerShape DEF BeginUpdate
<1>3. UpdateShape'
  BY DEF AdmissionInv, UpdateShape, BeginUpdate, InForce
<1>4. ListenerShape' /\ listener' = listener
  BY DEF AdmissionInv, ListenerShape, BeginUpdate
<1>5. QED
  BY SMTT(20), Zenon, <1>1, <1>2, <1>3, <1>4, AroundTasks DEF BeginUpdate

(* It then replaces the reported admission policy,                            *)
LEMMA WritePolicyInv ==
    ASSUME AdmissionInv, WritePolicy
    PROVE  AdmissionInv'
<1>1. PICK spec \in ListenerSpecs : update = [pc |-> "policy", spec |-> spec]
  BY DEF AdmissionInv, UpdateShape, WritePolicy
<1>2. /\ update' = [pc |-> "protection", spec |-> spec]
      /\ policy' = [quota |-> spec.quota, handshakes |-> spec.handshakes]
  BY <1>1 DEF WritePolicy
<1>3. UpdateShape'
  BY Zenon, SMTT(20), <1>2 DEF AdmissionInv, UpdateShape, WritePolicy, InForce
<1>4. ListenerShape' /\ ManagerShape' /\ limit' \in Nat
  BY DEF AdmissionInv, ListenerShape, ManagerShape, CountersShape, WritePolicy
<1>5. QED
  BY <1>3, <1>4, AroundTasks DEF WritePolicy

(* and last puts a new guard in force; leases and permits of the old guards   *)
(* stay theirs.                                                               *)
LEMMA WriteProtectionInv ==
    ASSUME AdmissionInv, WriteProtection
    PROVE  AdmissionInv'
<1>1. PICK spec \in ListenerSpecs : update = [pc |-> "protection", spec |-> spec]
  BY DEF AdmissionInv, UpdateShape, WriteProtection
<1>2. PICK n, g : n = InForce /\ g = NewGuard(spec)
  OBVIOUS
<1>3. /\ guards' = Append(guards, g) /\ update' = [pc |-> "none"]
      /\ UNCHANGED <<listener, limit, counters, manager, policy, conn>>
  BY <1>1, <1>2 DEF WriteProtection
<1>4. /\ n \in Nat /\ n > 0 /\ guards \in Seq(Range(guards)) /\ AllFit(guards, conn)
      /\ n = Len(guards)
  BY <1>2, GuardsShape DEF InForce
<1>5. PICK hs : hs = guards'
  OBVIOUS
<1>6. /\ Len(hs) = n + 1 /\ hs[n + 1] = g /\ \A j \in 1..n : hs[j] = guards[j]
      /\ hs \in Seq(Range(hs))
  <2>1. /\ hs \in Seq(Range(guards) \cup {g}) /\ Len(hs) = n + 1
        /\ hs[n + 1] = g /\ \A j \in 1..n : hs[j] = guards[j]
    BY <1>3, <1>4, <1>5, AppendProperties
  <2>2. DOMAIN hs = 1..(n + 1) /\ hs = [j \in 1..(n + 1) |-> hs[j]]
    BY <2>1, LenProperties, SeqDef
  <2>3. n + 1 \in Nat
    BY <1>4
  <2>4. hs \in Seq(Range(hs))
    BY <2>2, <2>3, ListOf
  <2>5. QED
    BY <2>1, <2>4
<1>7. InForce' = n + 1
  BY <1>5, <1>6 DEF InForce
<1>8. \A d \in Connections : conn[d].lease \in 0..n /\ conn[d].permit \in 0..n
  BY <1>2 DEF AdmissionInv, TasksInv, TaskRecord, TaskFields
<1>9. Fits(g, conn, n + 1) /\ g.quota = spec.quota /\ g.handshakes = spec.handshakes
  <2>1. PICK m : m = n + 1
    OBVIOUS
  <2>2. \A d \in Connections : conn[d].lease # m /\ conn[d].permit # m
    BY <1>4, <1>8, <2>1
  <2>3. Fits(g, conn, m) /\ g.quota = spec.quota /\ g.handshakes = spec.handshakes
    BY <1>2, <2>2, NewGuardFits
  <2>4. QED
    BY <2>1, <2>3
<1>10. AllFit(hs, conn)
  <2>1. \A j \in 1..n : Fits(guards[j], conn, j)
    BY <1>4 DEF AllFit
  <2>2. \A j \in 1..(n + 1) : j \in 1..n \/ j = n + 1
    BY <1>4
  <2>3. QED
    BY <1>6, <1>9, <2>1, <2>2 DEF AllFit
<1>11. TasksInv'
  <2>1. \A d \in Connections : TaskRecord(conn[d], n + 1)
    <3> SUFFICES ASSUME NEW d \in Connections PROVE TaskRecord(conn[d], n + 1)
      OBVIOUS
    <3>1. TaskRecord(conn[d], n)
      BY SMTT(20), Zenon, <1>2 DEF AdmissionInv, TasksInv
    <3>2. QED
      BY <1>4, <3>1 DEF TaskRecord, TaskFields
  <2>2. QED
    BY SMTT(20), Zenon, <1>3, <1>7, <2>1 DEF AdmissionInv, TasksInv
<1>12. UpdateShape'
  <2>1. policy = [quota |-> spec.quota, handshakes |-> spec.handshakes]
    BY <1>1 DEF AdmissionInv, UpdateShape
  <2>2. guards'[InForce'] = g /\ InForce' > 0
    BY SMTT(20), Zenon, <1>4, <1>5, <1>6, <1>7
  <2>3. QED
    BY SMTT(20), Zenon, <1>3, <1>9, <2>1, <2>2 DEF UpdateShape
<1>13. ListenerShape' /\ ManagerShape' /\ CountersShape' /\ SlotsHeld' /\ ConnectionsAccounted'
  BY Zenon, SMTT(20), <1>3 DEF AdmissionInv, ListenerShape, ManagerShape, CountersShape, SlotsHeld, ConnectionsAccounted
<1>14. QED
  BY SMTT(20), Zenon, <1>3, <1>5, <1>10, <1>11, <1>12, <1>13 DEF AdmissionInv

-----------------------------------------------------------------------------
(* Shutdown, the end of a drain and its timeout.                              *)
LEMMA ShutdownInv ==
    ASSUME AdmissionInv, Shutdown \/ Drained \/ Tick
    PROVE  AdmissionInv'
<1>1. ManagerShape' /\ limit' \in Nat
  BY DEF AdmissionInv, ManagerShape, CountersShape, Shutdown, Drained, Tick
<1>2. UpdateShape'
  BY DEF AdmissionInv, UpdateShape, InForce, Shutdown, Drained, Tick
<1>3. /\ ListenerShape' /\ listener'.kind = listener.kind /\ listener'.tls = listener.tls
      /\ (listener'.state = "drain_timeout_expired") <=> (listener.state = "drain_timeout_expired")
  <2>1. CASE Shutdown
    <3>1. listener' = [kind |-> listener.kind, tls |-> listener.tls, mode |-> listener.mode,
                       state |-> "draining"]
      BY <2>1 DEF AdmissionInv, ListenerShape, Shutdown
    <3>2. QED
      BY <2>1, <3>1 DEF AdmissionInv, ListenerShape, Shutdown
  <2>2. CASE Drained
    <3>1. listener' = [kind |-> listener.kind, tls |-> listener.tls, mode |-> listener.mode,
                       state |-> "stopped"]
      BY <2>2 DEF AdmissionInv, ListenerShape, Drained
    <3>2. QED
      BY <2>2, <3>1 DEF AdmissionInv, ListenerShape, Drained
  <2>3. CASE Tick
    BY <2>3 DEF AdmissionInv, ListenerShape, Tick
  <2>4. QED
    BY <2>1, <2>2, <2>3
<1>4. UNCHANGED <<counters, guards, conn>>
  BY DEF Shutdown, Drained, Tick
<1>5. QED
  BY <1>1, <1>2, <1>3, <1>4, AroundTasks

(* When the drain times out the remaining tasks are aborted, and dropping     *)
(* them returns every lease, permit and slot.                                 *)
LEMMA DrainTimeoutInv ==
    ASSUME AdmissionInv, DrainTimeout
    PROVE  AdmissionInv'
<1>1. PICK n, hs, ds : n = InForce /\ hs = guards' /\ ds = conn'
  OBVIOUS
<1>2. /\ n \in Nat /\ n > 0 /\ n \in 1..n /\ AllFit(guards, conn) /\ n = Len(guards)
  BY <1>1, GuardsShape DEF InForce
<1>3. PICK r : r = [Idle EXCEPT !.phase = "done"]
  BY Zenon, SMTT(20)
<1>4. r = [phase |-> "done", source |-> <<>>, lease |-> 0, permit |-> 0, slot |-> FALSE,
           seen |-> <<>>, sync |-> "none"]
  BY Zenon, SMTT(20), <1>3 DEF Idle
<1>5. ds = [c \in Connections |-> r]
  BY <1>1, <1>3 DEF DrainTimeout
<1>6. hs = [i \in 1..n |-> AllDropped(guards[i], i)]
  BY <1>1 DEF DrainTimeout
<1>7. hs \in Seq(Range(hs)) /\ Len(hs) = n
  <2>1. DOMAIN hs = 1..n /\ hs = [i \in 1..n |-> hs[i]]
    BY <1>6
  <2>2. QED
    BY <1>2, <2>1, ListOf
<1>8. ASSUME NEW i \in 1..n
      PROVE  Fits(hs[i], ds, i) /\ hs[i].quota = guards[i].quota /\ hs[i].handshakes = guards[i].handshakes
  <2>1. PICK g : g = guards[i]
    OBVIOUS
  <2>2. Fits(g, conn, i)
    BY <1>2, <2>1 DEF AllFit
  <2>3. \A d \in Connections : ds[d].lease # i /\ ds[d].permit # i
    BY <1>4, <1>5
  <2>4. hs[i] = AllDropped(g, i)
    BY <1>6, <2>1
  <2>5. QED
    BY SMTT(20), Zenon, <2>1, <2>2, <2>3, <2>4, AllDroppedFits
<1>9. AllFit(hs, ds) /\ InForce' = n
  BY <1>1, <1>7, <1>8 DEF AllFit, InForce
<1>10. TasksInv'
  <2>1. TaskRecord(r, n) /\ TaskHolds(r, listener.kind, listener.tls)
    BY <1>2, <1>4 DEF TaskRecord, TaskFields, TaskHolds, HoldsSlot, Phases, TcpPhases
  <2>2. listener'.kind = listener.kind /\ listener'.tls = listener.tls
    BY DEF DrainTimeout, AdmissionInv, ListenerShape
  <2>3. ds = [c \in Connections |-> ds[c]] /\ \A c \in Connections : ds[c] = r
    BY <1>5
  <2>4. QED
    BY SMTT(20), Zenon, <1>1, <1>9, <2>1, <2>2, <2>3 DEF TasksInv
<1>11. ListenerShape'
  <2>1. listener' = [kind |-> listener.kind, tls |-> listener.tls, mode |-> listener.mode,
                     state |-> "drain_timeout_expired"]
    BY DEF AdmissionInv, ListenerShape, DrainTimeout
  <2>2. \A c \in Connections : conn'[c].phase = "done"
    BY SMTT(20), Zenon, <1>1, <1>4, <1>5
  <2>3. QED
    BY <2>1, <2>2 DEF AdmissionInv, ListenerShape
<1>12. UpdateShape'
  <2>1. /\ guards'[InForce'].quota = guards[InForce].quota
        /\ guards'[InForce'].handshakes = guards[InForce].handshakes
    BY <1>1, <1>2, <1>8, <1>9
  <2>2. UpdateShape /\ UNCHANGED <<policy, update>>
    BY DEF AdmissionInv, DrainTimeout
  <2>3. InForce' > 0
    BY <1>2, <1>9
  <2>4. QED
    BY Zenon, SMTT(20), <2>1, <2>2, <2>3 DEF UpdateShape
<1>13. ManagerShape' /\ CountersShape'
  BY DEF AdmissionInv, ManagerShape, CountersShape, DrainTimeout
<1>14. SlotsHeld' /\ ConnectionsAccounted'
  <2>1. listener'.state = "drain_timeout_expired"
    BY DEF DrainTimeout, AdmissionInv, ListenerShape
  <2>2. QED
    BY <2>1 DEF SlotsHeld, ConnectionsAccounted
<1>15. QED
  BY SMTT(20), Zenon, <1>1, <1>9, <1>10, <1>11, <1>12, <1>13, <1>14 DEF AdmissionInv
-----------------------------------------------------------------------------
(* A listener that has just started.                                          *)
LEMMA StartInv ==
    ASSUME AdmissionInit
    PROVE  AdmissionInv
<1>1. PICK kind \in {"public", "admin", "http3"}, tls \in BOOLEAN,
           mode \in {"disabled", "v1", "v2"}, spec \in ListenerSpecs :
               StartListener(kind, kind = "http3" \/ tls, mode, spec)
  BY DEF AdmissionInit
<1>2. PICK g : g = NewGuard(spec)
  BY SMTT(20), Zenon
<1>3. guards = <<g>> /\ InForce = 1
  BY Zenon, SMTT(20), <1>1, <1>2 DEF StartListener, InForce
<1>4. conn = [c \in Connections |-> Idle]
  BY <1>1 DEF StartListener
<1>5. Idle = [phase |-> "idle", source |-> <<>>, lease |-> 0, permit |-> 0, slot |-> FALSE,
              seen |-> <<>>, sync |-> "none"]
  BY DEF Idle
<1>6. Fits(g, conn, 1) /\ g.quota = spec.quota /\ g.handshakes = spec.handshakes
  <2>1. \A d \in Connections : conn[d].lease # 1 /\ conn[d].permit # 1
    BY <1>4, <1>5
  <2>2. QED
    BY SMTT(20), Zenon, <1>2, <2>1, NewGuardFits
<1>7. AllFit(guards, conn)
  <2>1. DOMAIN guards = 1..1 /\ guards = [i \in 1..1 |-> guards[i]] /\ guards[1] = g
    BY <1>3
  <2>2. guards \in Seq(Range(guards)) /\ Len(guards) = 1
    BY Zenon, SMTT(20), <2>1, ListOf
  <2>3. QED
    BY <1>6, <2>1, <2>2 DEF AllFit
<1>8. TasksInv
  <2>1. /\ Idle.phase = "idle" /\ Idle.lease = 0 /\ Idle.permit = 0 /\ Idle.slot = FALSE
        /\ Idle.sync = "none"
    BY <1>5
  <2>2. TaskRecord(Idle, 1)
    BY SMTT(20), Zenon, <1>5, <2>1 DEF TaskRecord, TaskFields, Phases
  <2>3. TaskHolds(Idle, listener.kind, listener.tls)
    BY Zenon, SMTT(20), <2>1 DEF TaskHolds, HoldsSlot, TcpPhases
  <2>4. QED
    BY <1>3, <1>4, <2>2, <2>3 DEF TasksInv
<1>9. ListenerShape
  BY Zenon, SMTT(20), <1>1, <1>4, <1>5 DEF StartListener, ListenerShape
<1>10. ManagerShape
  <2>1. DisabledFor("normal") = {}
    BY DEF DisabledFor, ShouldDisable
  <2>2. CASE manager = NewManager
    <3>1. /\ manager.state = "normal"
          /\ manager = [state |-> manager.state, samples |-> manager.samples,
                        disabled |-> DisabledFor("normal")]
      BY Zenon, SMTT(20), <2>1, <2>2 DEF NewManager
    <3>2. "normal" \in Range(OverloadStates)
      BY DEF Range, OverloadStates
    <3>3. QED
      BY SMTT(20), Zenon, <3>1, <3>2 DEF ManagerShape
  <2>3. CASE manager = NoManager
    BY <2>3 DEF ManagerShape
  <2>4. QED
    BY <1>1, <2>2, <2>3 DEF StartListener
<1>11. CountersShape
  <2>1. "normal" \in Range(OverloadStates)
    BY DEF Range, OverloadStates
  <2>2. limit \in Nat
    BY Zenon, SMTT(20), <1>1, AdmissionAssumption DEF StartListener, AdmissionAssumption
  <2>3. counters = [accepted |-> 0, active |-> 0, shed |-> 0, completed |-> 0, overload |-> "normal"]
    BY <1>1 DEF StartListener
  <2>4. counters \in [accepted : Nat, active : Nat, shed : Nat, completed : Nat,
                      overload : Range(OverloadStates)]
    BY SMTT(20), Zenon, <2>1, <2>3
  <2>5. QED
    BY SMTT(20), Zenon, <2>2, <2>4 DEF CountersShape
<1>12. UpdateShape
  <2>1. guards[InForce] = g
    BY <1>3
  <2>2. QED
    BY <1>1, <1>3, <1>6, <2>1 DEF StartListener, UpdateShape
<1>13. SlotsHeld /\ ConnectionsAccounted
  <2>1. ActiveTasks(conn) = {} /\ OpenTasks(conn) = {}
    BY <1>4, <1>5 DEF ActiveTasks, OpenTasks, Asks
  <2>2. Cardinality({}) = 0
    BY SMTT(20), Zenon, FS_EmptySet
  <2>3. /\ counters.active = 0 /\ counters.accepted = 0 /\ counters.shed = 0
        /\ counters.completed = 0
    BY <1>1 DEF StartListener
  <2>4. /\ counters.active = Cardinality(ActiveTasks(conn))
        /\ counters.accepted = counters.shed + counters.completed + Cardinality(OpenTasks(conn))
    BY <2>1, <2>2, <2>3
  <2>5. QED
    BY <2>4 DEF SlotsHeld, ConnectionsAccounted, ActiveTasks, OpenTasks, Asks
<1>14. QED
  BY SMTT(20), Zenon, <1>7, <1>8, <1>9, <1>10, <1>11, <1>12, <1>13 DEF AdmissionInv

(* Every step of the listener keeps the invariant.                            *)
LEMMA StepInv ==
    ASSUME AdmissionInv, [AdmissionNext]_admissionVars
    PROVE  AdmissionInv'
<1>1. ASSUME NEW c \in Connections, TaskStep(c, Prefaces)
      PROVE  AdmissionInv'
  BY SMTT(20), Zenon, <1>1, ReadPrefaceInv, AcquireSourceInv, AcquireHandshakeInv, SnapshotRejectionInv,
     AnswerRejectionInv, LoadSlotInv, ExchangeSlotInv, StoreOverloadInv, EndHandshakeInv,
     EndServingInv, ReleaseSlotInv, EndTaskInv DEF TaskStep
<1>2. CASE UNCHANGED admissionVars
  <2>1. ManagerShape' /\ UpdateShape' /\ ListenerShape' /\ limit' \in Nat
    BY <1>2 DEF admissionVars, AdmissionInv, ManagerShape, UpdateShape, ListenerShape, CountersShape, InForce
  <2>2. QED
    BY SMTT(20), Zenon, <1>2, <2>1, AroundTasks DEF admissionVars
<1>3. QED
  BY SMTT(20), Zenon, <1>1, <1>2, AcceptInv, BeginUpdateInv, WritePolicyInv, WriteProtectionInv, ShutdownInv,
     DrainTimeoutInv DEF AdmissionNext

(* What the invariant says of the guards: leases and permits are counted and  *)
(* within the limits, and readiness reports a guard saturated when it is.     *)
LEMMA GuardsExact ==
    ASSUME AdmissionInv
    PROVE  GuardsCountLeases
<1>1. InForce \in Nat /\ \A i \in 1..InForce : Fits(guards[i], conn, i)
  BY GuardsShape DEF AllFit, InForce
<1>2. ASSUME NEW i \in 1..InForce, NEW g, g = guards[i],
             NEW holders, holders = {c \in Connections : conn[c].lease = i}
      PROVE  /\ \A key \in {SourceKey(conn[c].source) : c \in holders} \cup DOMAIN g.bySource :
                    /\ key \in DOMAIN g.bySource
                    /\ g.bySource[key] = Cardinality({c \in holders : SourceKey(conn[c].source) = key})
                    /\ g.bySource[key] <= g.quota.perSource
             /\ Cardinality(DOMAIN g.bySource) <= g.quota.tracked
             /\ g.inflight = Cardinality({c \in Connections : conn[c].permit = i})
             /\ g.inflight <= g.handshakes
  <2>1. Counted(g, conn, i) /\ Within(g)
    BY SMTT(20), Zenon, <1>1, <1>2 DEF Fits
  <2>2. /\ {SourceKey(conn[c].source) : c \in holders} = LeasedKeys(conn, i)
        /\ \A key : {c \in holders : SourceKey(conn[c].source) = key} = Holders(conn, i, key)
        /\ {c \in Connections : conn[c].permit = i} = Permits(conn, i)
    BY <1>2 DEF LeasedKeys, Holders, Permits
  <2>3. QED
    BY Zenon, SMTT(20), <2>1, <2>2 DEF Counted, Within
<1>3. QED
  BY Zenon, SMTT(20), <1>2 DEF GuardsCountLeases

(* Outside an update the reported saturation is that of the guard in force.   *)
LEMMA SaturationExact ==
    ASSUME AdmissionInv
    PROVE  SaturationTruthful
<1> SUFFICES ASSUME update.pc = "none" PROVE SaturationTruthful
  BY Zenon, SMTT(20) DEF SaturationTruthful
<1>1. PICK g : g = guards[InForce]
  OBVIOUS
<1>2. Fits(g, conn, InForce)
  BY SMTT(20), Zenon, <1>1, GuardsShape DEF AllFit, InForce
<1>3. policy.quota = g.quota /\ policy.handshakes = g.handshakes
  BY <1>1 DEF AdmissionInv, UpdateShape
<1>4. g.rejected \subseteq RejectionReasons
  BY <1>2 DEF Fits, GuardRecord
<1>5. <<"a source without leases">> \notin DOMAIN g.bySource
  <2>1. DOMAIN g.bySource = LeasedKeys(conn, InForce)
    BY <1>2 DEF Fits, Counted
  <2>2. \A ip : SourceKey(ip) # <<"a source without leases">>
    BY Zenon, SMTT(20) DEF SourceKey
  <2>3. QED
    BY Zenon, SMTT(20), <2>1, <2>2 DEF LeasedKeys
<1>6. ("tracked_source_capacity_saturated" \in NotReadyReasons)
         <=> (g.quota # NoQuota /\ Cardinality(DOMAIN g.bySource) >= g.quota.tracked)
  BY <1>1, <1>3, <1>4 DEF NotReadyReasons, AbuseReasons, RejectionReasons
<1>7. ("handshake_guard_saturated" \in NotReadyReasons)
         <=> (g.handshakes > 0 /\ g.inflight >= g.handshakes)
  BY <1>1, <1>3, <1>4 DEF NotReadyReasons, AbuseReasons, RejectionReasons
<1>8. (SourceVerdict(g, <<"a source without leases">>) = "tracked_source_limit_reached")
         <=> (g.quota # NoQuota /\ Cardinality(DOMAIN g.bySource) >= g.quota.tracked)
  BY Zenon, SMTT(20), <1>5 DEF SourceVerdict
<1>9. QED
  BY Zenon, SMTT(20), <1>1, <1>6, <1>7, <1>8 DEF SaturationTruthful

(* Only the compare-and-exchange raises the count of active connections, and  *)
(* only while it is below the limit the task has read.                        *)
LEMMA OnlyTakenRaises ==
    ASSUME AdmissionInv, AdmissionNext, counters'.active > counters.active
    PROVE  \E c \in Connections : /\ ~conn[c].slot /\ conn'[c].slot
                                  /\ counters'.active <= conn[c].seen[2]
<1>1. counters \in [accepted : Nat, active : Nat, shed : Nat, completed : Nat,
                    overload : Range(OverloadStates)]
  BY DEF AdmissionInv, CountersShape
<1>2. counters' # counters
  BY SMTT(20), Zenon, <1>1
<1>3. PICK c \in Connections : \/ Accept(c) \/ AcquireHandshake(c) \/ ExchangeSlot(c)
                               \/ StoreOverload(c) \/ ReleaseSlot(c)
  BY Zenon, SMTT(20), <1>2 DEF AdmissionNext, TaskStep, ReadPreface, AcquireSource, SnapshotRejection, AnswerRejection,
     LoadSlot, EndHandshake, EndServing, EndTask, BeginUpdate, WritePolicy, WriteProtection,
     Shutdown, Drained, DrainTimeout, Tick
<1>4. CASE Accept(c)
  <2>1. counters'.active = counters.active
    BY <1>1, <1>4 DEF Accept
  <2>2. QED
    BY <1>1, <2>1
<1>5. CASE AcquireHandshake(c)
  <2>1. counters'.active = counters.active
    BY Zenon, SMTT(20), <1>1, <1>5 DEF AcquireHandshake
  <2>2. QED
    BY <1>1, <2>1
<1>6. CASE StoreOverload(c)
  <2>1. counters'.active = counters.active
    BY <1>1, <1>6 DEF StoreOverload
  <2>2. QED
    BY <1>1, <2>1
<1>7. CASE ReleaseSlot(c)
  <2>1. counters'.active = counters.active - 1
    BY SMTT(20), Zenon, <1>1, <1>7 DEF ReleaseSlot
  <2>2. QED
    BY <1>1, <2>1
<1>8. CASE ExchangeSlot(c)
  <2>1. /\ DOMAIN conn = Connections /\ TaskRecord(conn[c], InForce)
        /\ TaskHolds(conn[c], listener.kind, listener.tls)
    BY SMTT(20), Zenon, TaskShape
  <2>2. conn[c].seen[1] \in Nat /\ conn[c].seen[2] \in Nat /\ ~conn[c].slot
    BY <1>8, <2>1 DEF ExchangeSlot, TaskHolds, HoldsSlot
  <2>3. CASE SlotTaken(c)
    <3>1. counters'.active = counters.active + 1
      BY <1>1, <2>3 DEF SlotTaken
    <3>2. conn'[c].slot = TRUE
      BY <2>1, <2>3 DEF SlotTaken, TaskRecord, TaskFields
    <3>3. counters'.active <= conn[c].seen[2]
      BY <1>1, <2>2, <2>3, <3>1 DEF SlotTaken
    <3>4. QED
      BY <2>2, <3>2, <3>3
  <2>4. CASE SlotMoved(c)
    BY <1>2, <2>4 DEF SlotMoved
  <2>5. CASE SlotRefused(c)
    <3>1. counters'.active = counters.active
      BY <1>1, <2>5 DEF SlotRefused
    <3>2. QED
      BY <1>1, <3>1
  <2>6. QED
    BY SMTT(20), Zenon, <1>8, <2>3, <2>4, <2>5 DEF ExchangeSlot
<1>9. QED
  BY SMTT(20), Zenon, <1>3, <1>4, <1>5, <1>6, <1>7, <1>8

(* Whatever connections, sources, limits, updates and drains: slots, leases   *)
(* and permits are exactly those of the tasks that hold them, the counters    *)
(* add up, readiness is truthful, and no connection is admitted above the     *)
(* limit its task has read (try_acquire_listener_slot, SourceQuotaTracker,    *)
(* the handshake guard, apply_update).                                        *)
THEOREM ListenerSoundKept == AdmissionSpec => ListenerSound
<1>1. AdmissionInit => AdmissionInv
  BY StartInv
<1>2. AdmissionInv /\ [AdmissionNext]_admissionVars => AdmissionInv'
  BY SMTT(20), Zenon, StepInv
<1>3. AdmissionInv => AdmissionTypeOK
  BY DEF AdmissionInv, AdmissionTypeOK, ListenerShape, CountersShape, TasksInv, TaskRecord, TaskFields
<1>4. AdmissionInv => SlotsHeld /\ GuardsCountLeases /\ ConnectionsAccounted /\ SaturationTruthful
  BY GuardsExact, SaturationExact DEF AdmissionInv
<1>5. AdmissionInv => BrownoutCoherent
  <2> SUFFICES ASSUME AdmissionInv, manager # NoManager
               PROVE  /\ manager.disabled = DisabledFor(manager.state)
                      /\ ~Sheds(manager, "critical")
                      /\ Sheds(manager, "default") => Sheds(manager, "best_effort")
    BY DEF BrownoutCoherent
  <2>1. manager.disabled = DisabledFor(manager.state)
    BY DEF AdmissionInv, ManagerShape
  <2>2. QED
    BY <2>1 DEF Sheds
<1>6. AdmissionInv /\ [AdmissionNext]_admissionVars =>
          [counters'.active > counters.active =>
             \E c \in Connections : /\ ~conn[c].slot /\ conn'[c].slot
                                    /\ counters'.active <= conn[c].seen[2]]_admissionVars
  BY OnlyTakenRaises
<1>7. QED
  BY <1>1, <1>2, <1>3, <1>4, <1>5, <1>6, PTL DEF AdmissionSpec, ListenerSound, AdmittedUnderLimit
=============================================================================

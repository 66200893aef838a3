---------------------- MODULE SupervisorListenerProofs ----------------------
(***************************************************************************)
(* The listeners of the supervisor, first part: the inductive invariant    *)
(* with what its queues and orders are, and every step that starts, undoes *)
(* or drains a listener keeps the listeners accounted for.                 *)
(* SupervisorProofs.tla has the swap, the journal and the theorems.        *)
(***************************************************************************)
EXTENDS Supervisor, FiniteSetTheorems, TLAPS

----------------------------------------------------------------------------
(* The inductive invariant                                                 *)

Identities == {Identity(spec) : spec \in Specs}
Slot == [socket : SocketIds, draining : Seq(Identities), timed_out : BOOLEAN, failed_start : BOOLEAN]
Journals ==
    [desired : MaybeConfig, applied : MaybeConfig, in_flight : MaybeConfig,
     recovery : {"none", "restored", "needs_operator_action", "resolved"}]
Points == {"idle", "begin", "begin_write", "lock", "apply", "report", "report_write", "failed"}
Task ==
    [at : Points, kind : {"reload", "restart", "other", None}, on : SocketIds \cup {0},
     image : Images \cup {None}]

(* The sockets of a queue of listeners to be shut down.                    *)
SocketsOf(queue) == {queue[k].socket : k \in DOMAIN queue}

(* A queue holds a listener once.                                          *)
Once(queue) == \A k, l \in DOMAIN queue : queue[k].socket = queue[l].socket => k = l

(* A listener belongs to a slot, to the operation in progress or to the    *)
(* shutdown in progress.                                                   *)
InSlots == {slots[n].socket : n \in DOMAIN slots}
InOp == IF op = None THEN {} ELSE Range(op.started) \cup SocketsOf(op.queue)
InStop == IF stopping = None THEN {} ELSE SocketsOf(stopping)
Signalling == (IF op = None THEN {} ELSE First(op.queue)) \cup (IF stopping = None THEN {} ELSE First(stopping))

ListenerTypes ==
    /\ sockets \in [SocketIds -> Listener \cup {None}]
    /\ slots \in [DOMAIN slots -> Slot] /\ DOMAIN slots \subseteq Names
    /\ op \in Operation \cup {None}
    /\ stopping \in Seq(Queued) \cup {None}
    /\ active \in MaybeConfig

(* To one of them only; it exists, and accepts until its turn has come.    *)
(* Nothing else accepts.                                                   *)
Owned ==
    /\ InSlots \cap InOp = {} /\ InSlots \cap InStop = {} /\ InOp \cap InStop = {}
    /\ \A i \in InSlots \cup InOp \cup InStop :
          sockets[i] # None /\ (sockets[i].state = "running" <=> i \notin Signalling)
    /\ \A i \in SocketIds :
          sockets[i] # None /\ sockets[i].state = "running" => i \in InSlots \cup InOp \cup InStop
    /\ \A n \in DOMAIN slots : sockets[slots[n].socket].name = n
    /\ op # None => Once(op.queue)
    /\ stopping # None => Once(stopping)

(* What the operation owns, by where it is.                                *)
Holdings ==
    op # None =>
       /\ op.at # "start" => op.started = <<>>
       /\ op.at \notin {"undo", "drain"} => op.queue = <<>>
       /\ op.at \in {"undo", "finish"} => ~op.ok
       /\ op.at = "drain" => \A k, l \in DOMAIN op.queue :
             op.queue[k].slot = op.queue[l].slot /\ op.queue[k].slot # None => k = l

(* The names of the listeners started so far.                              *)
StartedNames == {sockets[i].name : i \in Range(op.started)}

(* While listeners are started, those still to start and those started are *)
(* the ones the plan stages, each once.                                    *)
Staging ==
    op # None /\ op.at = "start" =>
       LET specs == ListenersOf[op.config]
       IN  /\ Range(op.start) \subseteq DOMAIN specs
           /\ \A j, k \in DOMAIN op.start : op.start[j] = op.start[k] => j = k
           /\ \A j, k \in DOMAIN op.started :
                 sockets[op.started[j]].name = sockets[op.started[k]].name => j = k
           /\ \A i \in Range(op.started) :
                 sockets[i].name \in DOMAIN specs /\ sockets[i].spec = specs[sockets[i].name]
           /\ Range(op.start) \cap StartedNames = {}
           /\ stopping = None =>
                 {n \in DOMAIN specs : Staged(n, specs[n])} = Range(op.start) \cup StartedNames

ListenersInv == ListenerTypes /\ Owned /\ Holdings /\ Staging /\ ConfigInForce /\ DrainsAccounted

Vouched(config) == config \in served \cup {None}

(* A task that asks for an operation says which, and the image it is about *)
(* to write names as applied a configuration that has served.              *)
Proper(r) ==
    /\ r \in Task
    /\ r.at \in {"begin", "begin_write", "lock"} => r.kind \in {"reload", "restart"}
    /\ r.image # None => Vouched(r.image.applied)

TasksInv == task \in [Tasks -> Task] /\ \A t \in Tasks : Proper(task[t])

(* Every image of the journal, in memory, on disk or on its way there,     *)
(* names as applied a configuration that has served.                       *)
JournalInv ==
    /\ disk \in Images \cup {None}
    /\ journal \in Journals
    /\ health \in Healths
    /\ TasksInv
    /\ Vouched(journal.applied)
    /\ disk # None => Vouched(disk.applied)
    /\ op # None /\ op.at = "drain" => Vouched(op.config)

Inv == ListenersInv /\ JournalInv

----------------------------------------------------------------------------
(* Names in order                                                          *)

(* The empty queue, and the others.                                        *)
LEMMA EmptySeq ==
    ASSUME NEW S
    PROVE  /\ <<>> \in Seq(S) /\ Len(<<>>) = 0
           /\ \A s \in Seq(S) : s # <<>> => Len(s) \in Nat \ {0}
  OBVIOUS

(* A set of natural numbers has a least element.                           *)
LEMMA LeastExists ==
    ASSUME NEW I, I \subseteq Nat, I # {}
    PROVE  \E m \in I : \A j \in I : m <= j
<1>1. PICK m \in I : \A y \in I : ~(<<y, m>> \in OpToRel(<, Nat))
  BY Zenon, SMTT(20), NatLessThanWellFounded, WFMin
<1>2. \A y \in I : ~(y < m)
  BY Zenon, SMTT(20), <1>1 DEF OpToRel
<1> QED
  BY <1>2

Increasing(q) == \A i, j \in DOMAIN q : i < j => q[i] < q[j]

(* A finite set of numbers can be listed in order: the least first, and    *)
(* then the rest.                                                          *)
LEMMA OrderExists ==
    ASSUME NEW S, S \subseteq Nat, IsFiniteSet(S)
    PROVE  \E q \in [1..Cardinality(S) -> S] : Increasing(q)
<1> DEFINE Listed(T) == \E q \in [1..Cardinality(T) -> T] : Increasing(q)
           Bad == {n \in Nat : \E T \in SUBSET S : Cardinality(T) = n /\ ~Listed(T)}
<1>1. SUFFICES Bad = {}
  <2>1. Cardinality(S) \in Nat
    BY FS_CardinalityType
  <2> QED
    BY <2>1
<1>2. SUFFICES ASSUME Bad # {} PROVE FALSE
  OBVIOUS
<1>3. PICK n \in Bad : \A m \in Bad : n <= m
  <2> HIDE DEF Bad
  <2>1. Bad \subseteq Nat
    BY DEF Bad
  <2> QED
    BY Zenon, SMTT(20), <1>2, <2>1, LeastExists
<1>4. PICK T \in SUBSET S : Cardinality(T) = n /\ ~Listed(T)
  BY <1>3
<1>5. IsFiniteSet(T) /\ n \in Nat
  BY Zenon, SMTT(20), <1>3, FS_Subset
<1>6. T # {}
  <2>1. SUFFICES ASSUME T = {} PROVE FALSE
    OBVIOUS
  <2>2. n = 0
    BY <1>4, <2>1, FS_EmptySet
  <2> DEFINE q == [i \in 1..0 |-> 0]
  <2>3. q \in [1..0 -> T] /\ Increasing(q)
    BY DEF Increasing
  <2> QED
    BY Zenon, SMTT(20), <1>4, <2>2, <2>3
<1>7. PICK least \in T : \A j \in T : least <= j
  BY Zenon, SMTT(20), <1>6, LeastExists
<1> DEFINE Rest == T \ {least}
<1>8. IsFiniteSet(Rest) /\ Cardinality(Rest) = n - 1
  BY <1>4, <1>5, FS_RemoveElement
<1>9. n - 1 \in Nat
  BY <1>8, FS_CardinalityType
<1>10. Listed(Rest)
  <2>1. n - 1 \notin Bad
    BY <1>3, <1>5
  <2>2. Rest \in SUBSET S
    OBVIOUS
  <2> QED
    BY Zenon, SMTT(20), <1>8, <1>9, <2>1, <2>2
<1>11. PICK r \in [1..(n - 1) -> Rest] : Increasing(r)
  BY Zenon, SMTT(20), <1>8, <1>10
<1> DEFINE q == [i \in 1..n |-> IF i = 1 THEN least ELSE r[i - 1]]
<1>12. q \in [1..n -> T]
  BY <1>5, <1>9, <1>11
<1>13. Increasing(q)
  <2> SUFFICES ASSUME NEW i \in 1..n, NEW j \in 1..n, i < j PROVE q[i] < q[j]
    BY DEF Increasing
  <2>1. j - 1 \in 1..(n - 1) /\ j # 1 /\ q[j] = r[j - 1]
    BY <1>5
  <2>2. r[j - 1] \in T /\ r[j - 1] # least
    BY <1>11, <2>1
  <2>3. CASE i = 1
    <3>1. least <= r[j - 1] /\ least \in Nat /\ r[j - 1] \in Nat
      BY Zenon, SMTT(20), <1>7, <2>2
    <3> QED
      BY <2>1, <2>2, <2>3, <3>1
  <2>4. CASE i # 1
    <3>1. i - 1 \in 1..(n - 1) /\ q[i] = r[i - 1] /\ i - 1 < j - 1
      BY <1>5, <2>4
    <3> QED
      BY <1>11, <2>1, <3>1 DEF Increasing
  <2> QED
    BY <2>3, <2>4
<1> QED
  BY <1>4, <1>12, <1>13

(* InOrder lists every name once.                                          *)
LEMMA InOrderFacts ==
    ASSUME NEW S \in SUBSET Names
    PROVE  /\ InOrder(S) \in Seq(S) /\ Range(InOrder(S)) = S
           /\ \A i, j \in DOMAIN InOrder(S) : InOrder(S)[i] = InOrder(S)[j] => i = j
<1>1. IsFiniteSet(S) /\ S \subseteq Nat
  BY Zenon, SMTT(20), SupervisorAssumption, FS_Subset DEF SupervisorAssumption
<1> DEFINE c == Cardinality(S)
           q == InOrder(S)
<1>2. c \in Nat
  BY <1>1, FS_CardinalityType
<1>3. q \in [1..c -> S] /\ Increasing(q)
  <2>1. \E f \in [1..c -> S] : Increasing(f)
    BY Zenon, SMTT(20), <1>1, OrderExists
  <2> QED
    BY Zenon, SMTT(20), <2>1 DEF InOrder, Increasing
<1> HIDE DEF q, c
<1>4. \A i, j \in 1..c : q[i] = q[j] => i = j
  <2> SUFFICES ASSUME NEW i \in 1..c, NEW j \in 1..c, q[i] = q[j], i # j PROVE FALSE
    OBVIOUS
  <2>1. i < j \/ j < i
    BY <1>2
  <2>2. q[i] \in Nat /\ q[j] \in Nat
    BY Zenon, SMTT(20), <1>1, <1>3
  <2> QED
    BY <1>3, <2>1, <2>2 DEF Increasing
<1>5. q \in Injection(1..c, S)
  BY <1>3, <1>4 DEF Injection, IsInjective
<1>6. Cardinality(1..c) = c
  BY <1>2, FS_Interval
<1>7. q \in Surjection(1..c, S)
  BY <1>1, <1>5, <1>6, FS_Injection DEF c
<1>8. Range(q) = S
  BY <1>3, <1>7 DEF Surjection, Range
<1>9. q \in Seq(S)
  BY <1>2, <1>3
<1> QED
  BY <1>3, <1>4, <1>8, <1>9 DEF q

----------------------------------------------------------------------------
(* Queues of listeners to shut down                                        *)

(* The head of a queue is signalled; the rest follows it.                  *)
LEMMA QueueFacts ==
    ASSUME NEW q \in Seq(Queued), Once(q), q # <<>>
    PROVE  /\ Head(q) \in Queued /\ Tail(q) \in Seq(Queued) /\ Once(Tail(q))
           /\ First(q) = {Head(q).socket} /\ First(q) \subseteq SocketsOf(q)
           /\ SocketsOf(Tail(q)) = SocketsOf(q) \ First(q)
           /\ First(Tail(q)) \subseteq SocketsOf(Tail(q))
           /\ 1 \in DOMAIN q /\ Head(q) = q[1]
           /\ \A k \in DOMAIN Tail(q) : k + 1 \in DOMAIN q /\ Tail(q)[k] = q[k + 1]
<1>1. Len(q) \in Nat \ {0} /\ DOMAIN q = 1..Len(q) /\ Head(q) = q[1] /\ 1 \in DOMAIN q
  BY EmptySeq
<1>2. Tail(q) \in Seq(Queued) /\ Len(Tail(q)) = Len(q) - 1 /\ DOMAIN Tail(q) = 1..(Len(q) - 1)
  BY <1>1
<1>3. \A k \in DOMAIN Tail(q) : k + 1 \in DOMAIN q /\ Tail(q)[k] = q[k + 1]
  BY <1>1, <1>2
<1>4. Once(Tail(q))
  <2> SUFFICES ASSUME NEW k \in DOMAIN Tail(q), NEW l \in DOMAIN Tail(q), Tail(q)[k].socket = Tail(q)[l].socket
               PROVE  k = l
    BY DEF Once
  <2>1. k + 1 = l + 1 /\ k \in Int /\ l \in Int
    BY <1>2, <1>3 DEF Once
  <2> QED
    BY <2>1
<1>5. First(q) = {Head(q).socket} /\ First(q) \subseteq SocketsOf(q)
  BY <1>1 DEF First, SocketsOf
<1>6. SocketsOf(Tail(q)) = SocketsOf(q) \ First(q)
  <2>1. ASSUME NEW k \in DOMAIN Tail(q)
        PROVE  Tail(q)[k].socket \in SocketsOf(q) \ First(q)
    <3>1. k + 1 # 1 /\ k + 1 \in DOMAIN q
      BY <1>2, <1>3
    <3>2. q[k + 1].socket # q[1].socket
      BY <1>1, <3>1 DEF Once
    <3> QED
      BY <1>1, <1>3, <1>5, <3>1, <3>2 DEF SocketsOf
  <2>2. ASSUME NEW k \in DOMAIN q, q[k].socket \notin First(q)
        PROVE  q[k].socket \in SocketsOf(Tail(q))
    <3>1. k # 1
      BY <1>1, <1>5, <2>2
    <3>2. k - 1 \in DOMAIN Tail(q) /\ (k - 1) + 1 = k
      BY <1>1, <1>2, <3>1
    <3> QED
      BY <1>3, <3>2 DEF SocketsOf
  <2> QED
    BY SMTT(20), Zenon, <2>1, <2>2 DEF SocketsOf
<1>7. First(Tail(q)) \subseteq SocketsOf(Tail(q))
  <2>1. CASE Tail(q) = <<>>
    BY <2>1 DEF First
  <2>2. CASE Tail(q) # <<>>
    BY <1>2, <2>2, EmptySeq DEF First, SocketsOf
  <2> QED
    BY <2>1, <2>2
<1> QED
  BY <1>1, <1>2, <1>3, <1>4, <1>5, <1>6, <1>7

(* An empty queue.                                                         *)
LEMMA EmptyQueue ==
    ASSUME NEW q \in Seq(Queued)
    PROVE  /\ q = <<>> => SocketsOf(q) = {} /\ First(q) = {} /\ Once(q)
           /\ First(q) \subseteq SocketsOf(q) /\ SocketsOf(q) \subseteq SocketIds
<1>1. q = <<>> => DOMAIN q = {}
  OBVIOUS
<1>2. q # <<>> => 1 \in DOMAIN q /\ Head(q) = q[1]
  BY EmptySeq
<1>3. ASSUME NEW k \in DOMAIN q PROVE q[k].socket \in SocketIds
  <2>1. q[k] \in Queued
    OBVIOUS
  <2> QED
    BY <2>1 DEF Queued
<1> QED
  BY <1>1, <1>2, <1>3 DEF SocketsOf, First, Once

(* Signalling listeners ends their accepting, and changes nothing else.    *)
LEMMA SignalledFacts ==
    ASSUME NEW S \in [SocketIds -> Listener \cup {None}], NEW ids, NEW i \in SocketIds
    PROVE  /\ Signalled(S, ids) \in [SocketIds -> Listener \cup {None}]
           /\ Signalled(S, ids)[i] = None <=> S[i] = None
           /\ i \notin ids => Signalled(S, ids)[i] = S[i]
           /\ S[i] # None => /\ Signalled(S, ids)[i].name = S[i].name
                             /\ Signalled(S, ids)[i].spec = S[i].spec
                             /\ i \in ids => Signalled(S, ids)[i].state = "draining"
<1>1. ASSUME NEW r \in Listener
      PROVE  LET w == [r EXCEPT !.state = "draining"]
             IN  w \in Listener /\ w.name = r.name /\ w.spec = r.spec /\ w.state = "draining"
  BY DEF Listener
<1>2. None \notin Listener
  BY SupervisorAssumption DEF SupervisorAssumption
<1>3. \A j \in SocketIds : S[j] # None => S[j] \in Listener
  OBVIOUS
<1> DEFINE W(j) == [S[j] EXCEPT !.state = "draining"]
<1>4. \A j \in SocketIds : S[j] # None =>
          W(j) \in Listener /\ W(j).name = S[j].name /\ W(j).spec = S[j].spec /\ W(j).state = "draining"
  BY <1>1, <1>3
<1>5. Signalled(S, ids) = [j \in SocketIds |-> IF j \in ids /\ S[j] # None THEN W(j) ELSE S[j]]
  BY DEF Signalled
<1> HIDE DEF W
<1> QED
  BY <1>2, <1>3, <1>4, <1>5

(* The one identity a slot drains is removed.                              *)
LEMMA RemoveOnly ==
    ASSUME NEW x
    PROVE  RemoveFirst(<<x>>, x) = <<>>
<1> DEFINE s == <<x>>
<1>1. DOMAIN s = {1} /\ Len(s) = 1 /\ s[1] = x /\ s \in Seq({x})
  OBVIOUS
<1>2. RemoveFirst(s, x) = SubSeq(s, 1, 1 - 1) \o SubSeq(s, 1 + 1, Len(s))
  BY <1>1 DEF RemoveFirst
<1>3. SubSeq(s, 1, 0) = <<>> /\ SubSeq(s, 2, 1) = <<>>
  BY <1>1
<1> QED
  BY <1>1, <1>2, <1>3

(* What is left of the draining identities are identities.                 *)
LEMMA RemoveType ==
    ASSUME NEW s \in Seq(Identities), NEW x
    PROVE  RemoveFirst(s, x) \in Seq(Identities)
<1>1. CASE \A i \in DOMAIN s : s[i] # x
  BY <1>1 DEF RemoveFirst
<1>2. CASE \E i \in DOMAIN s : s[i] = x
  <2> DEFINE I == {i \in DOMAIN s : s[i] = x}
  <2>1. I \subseteq Nat /\ I # {} /\ I \subseteq 1..Len(s)
    BY <1>2
  <2>2. \E m \in I : \A j \in I : m <= j
    <3> HIDE DEF I
    <3> QED
      BY Zenon, SMTT(20), <2>1, LeastExists
  <2>3. PICK m \in 1..Len(s) : RemoveFirst(s, x) = SubSeq(s, 1, m - 1) \o SubSeq(s, m + 1, Len(s))
    BY Zenon, SMTT(20), <1>2, <2>1, <2>2 DEF RemoveFirst
  <2>4. SubSeq(s, 1, m - 1) \in Seq(Identities) /\ SubSeq(s, m + 1, Len(s)) \in Seq(Identities)
    OBVIOUS
  <2> QED
    BY <2>3, <2>4
<1> QED
  BY <1>1, <1>2

(* Everything owned is a socket.                                           *)
LEMMA OwnedIds ==
    ASSUME ListenersInv
    PROVE  /\ InSlots \subseteq SocketIds /\ InOp \subseteq SocketIds /\ InStop \subseteq SocketIds
           /\ op # None => op.queue \in Seq(Queued) /\ op.started \in Seq(SocketIds) /\ op.config \in DOMAIN ListenersOf
           /\ stopping # None => stopping \in Seq(Queued)
           /\ Signalling \subseteq InOp \cup InStop
<1>1. op # None => op.queue \in Seq(Queued) /\ op.started \in Seq(SocketIds) /\ op.config \in DOMAIN ListenersOf
  BY DEF ListenersInv, ListenerTypes, Operation
<1>2. stopping # None => stopping \in Seq(Queued)
  BY DEF ListenersInv, ListenerTypes
<1>3. InSlots \subseteq SocketIds
  <2>1. \A n \in DOMAIN slots : slots[n] \in Slot
    BY DEF ListenersInv, ListenerTypes
  <2> QED
    BY <2>1 DEF InSlots, Slot
<1>4. op # None => Range(op.started) \subseteq SocketIds
  BY <1>1 DEF Range
<1> QED
  BY <1>1, <1>2, <1>3, <1>4, EmptyQueue DEF InOp, InStop, Signalling

----------------------------------------------------------------------------
(* Draining                                                                *)

(* finish_draining changes what its slot reports, and no listener.         *)
LEMMA RetireFacts ==
    ASSUME ListenersInv, NEW e, NEW b \in BOOLEAN
    PROVE  LET v == Retire(e, b)
           IN  /\ v \in [DOMAIN slots -> Slot]
               /\ \A n \in DOMAIN slots :
                     /\ v[n].socket = slots[n].socket
                     /\ op.at # "drain" \/ n # e.slot => v[n].draining = slots[n].draining
                     /\ op.at = "drain" /\ n = e.slot =>
                           v[n].draining = RemoveFirst(slots[n].draining, Identity(sockets[e.socket].spec))
<1>1. slots \in [DOMAIN slots -> Slot]
  BY DEF ListenersInv, ListenerTypes
<1>2. CASE op.at # "drain" \/ e.slot \notin DOMAIN slots
  BY Zenon, SMTT(20), <1>1, <1>2 DEF Retire
<1>3. CASE op.at = "drain" /\ e.slot \in DOMAIN slots
  <2> DEFINE s == slots[e.slot]
             d == RemoveFirst(s.draining, Identity(sockets[e.socket].spec))
             w == [s EXCEPT !.draining = d, !.timed_out = @ \/ b]
  <2>1. s \in Slot
    BY <1>1, <1>3
  <2>2. s.draining \in Seq(Identities) /\ s.timed_out \in BOOLEAN
    BY <2>1 DEF Slot
  <2>3. d \in Seq(Identities)
    BY <2>2, RemoveType
  <2>4. (s.timed_out \/ b) \in BOOLEAN
    BY <2>2
  <2>5. ASSUME NEW r \in Slot, NEW x \in Seq(Identities), NEW y \in BOOLEAN
        PROVE  LET u == [r EXCEPT !.draining = x, !.timed_out = y]
               IN  u \in Slot /\ u.socket = r.socket /\ u.draining = x
    BY Zenon, SMTT(20) DEF Slot
  <2> HIDE DEF d, s
  <2>6. w \in Slot /\ w.socket = s.socket /\ w.draining = d
    <3> DEFINE u == [s EXCEPT !.draining = d, !.timed_out = (s.timed_out \/ b)]
    <3>1. u \in Slot /\ u.socket = s.socket /\ u.draining = d
      BY Zenon, SMTT(20), <2>1, <2>3, <2>4, <2>5
    <3>2. w = u
      BY <2>1 DEF Slot
    <3> QED
      BY <3>1, <3>2
  <2>7. Retire(e, b) = [slots EXCEPT ![e.slot] = w]
    BY Zenon, SMTT(20), <1>1, <1>3 DEF Retire, d, s
  <2> HIDE DEF w
  <2> QED
    BY <1>1, <1>3, <2>6, <2>7 DEF d, s
<1> QED
  BY <1>2, <1>3

(* A listener's loop has ended.  What it was waiting in is a queue it was  *)
(* first in, or none; the next of the queue is signalled, and what a       *)
(* reload cut off has started or has still to shut down is signalled too.  *)
LEMMA DrainedKeeps ==
    ASSUME Inv, NEW i \in SocketIds, Drained(i)
    PROVE  ListenersInv'
<1> DEFINE on == {t \in Tasks : task[t].at # "idle" /\ task[t].on = i}
           cut_off == op # None /\ op.by \in on
           op_waits == op # None /\ ~cut_off /\ i \in First(op.queue)
           stop_waits == stopping # None /\ i \in First(stopping)
           next == (IF op_waits THEN First(Tail(op.queue)) ELSE {})
                   \cup (IF stop_waits THEN First(Tail(stopping)) ELSE {})
                   \cup (IF cut_off THEN Range(op.started) \cup {e.socket : e \in Range(op.queue)} ELSE {})
<1>1. PICK timed_out \in BOOLEAN :
            /\ sockets' = [Signalled(sockets, next) EXCEPT ![i] = None]
            /\ slots' = IF op_waits THEN Retire(Head(op.queue), timed_out) ELSE slots
            /\ op' = IF cut_off THEN None
                     ELSE IF op_waits THEN [op EXCEPT !.queue = Tail(@)] ELSE op
            /\ stopping' = IF stop_waits THEN Tail(stopping) ELSE stopping
            /\ cut' = (cut \/ cut_off)
            /\ active' = active
  <2>1. \A b \in DrainTimesOut(i, on) : b \in BOOLEAN
    BY Zenon, SMTT(20) DEF DrainTimesOut
  <2> QED
    BY Zenon, SMTT(20), <2>1 DEF Drained
<1>2. sockets[i] # None /\ sockets[i].state = "draining"
  BY Zenon, SMTT(20) DEF Drained
<1> HIDE DEF cut_off
<1>3. /\ InSlots \subseteq SocketIds /\ InOp \subseteq SocketIds /\ InStop \subseteq SocketIds
      /\ op # None => op.queue \in Seq(Queued) /\ op.started \in Seq(SocketIds) /\ op.config \in DOMAIN ListenersOf
      /\ stopping # None => stopping \in Seq(Queued)
      /\ Signalling \subseteq InOp \cup InStop
  BY OwnedIds DEF Inv
<1>4. /\ InSlots \cap InOp = {} /\ InSlots \cap InStop = {} /\ InOp \cap InStop = {}
      /\ \A j \in InSlots \cup InOp \cup InStop :
          sockets[j] # None /\ (sockets[j].state = "running" <=> j \notin Signalling)
      /\ \A j \in SocketIds : sockets[j] # None /\ sockets[j].state = "running" => j \in InSlots \cup InOp \cup InStop
      /\ \A n \in DOMAIN slots : sockets[slots[n].socket].name = n
      /\ op # None => Once(op.queue)
      /\ stopping # None => Once(stopping)
  BY DEF Inv, ListenersInv, Owned
<1>5. i \notin InSlots /\ (i \in InOp \cup InStop => i \in Signalling)
  BY <1>2, <1>3, <1>4
<1>6. op # None => SocketsOf(op.queue) \subseteq InOp /\ First(op.queue) \subseteq InOp /\ Range(op.started) \subseteq InOp
                   /\ {e.socket : e \in Range(op.queue)} = SocketsOf(op.queue)
  <2>1. {e.socket : e \in Range(op.queue)} = SocketsOf(op.queue)
    BY DEF Range, SocketsOf
  <2> QED
    BY <1>3, <2>1, EmptyQueue DEF InOp
<1>7. stopping # None => First(stopping) \subseteq InStop /\ InStop = SocketsOf(stopping)
  BY <1>3, EmptyQueue DEF InStop
<1>8. op # None /\ op.queue # <<>> => op.started = <<>> /\ op.at \in {"undo", "drain"}
  BY DEF Inv, ListenersInv, Holdings
<1>9. First(<<>>) = {} /\ Range(<<>>) = {}
  BY DEF First, Range
<1>10. ASSUME op_waits
       PROVE  /\ op.queue # <<>> /\ i = Head(op.queue).socket /\ First(op.queue) = {i}
              /\ Tail(op.queue) \in Seq(Queued) /\ Once(Tail(op.queue))
              /\ SocketsOf(Tail(op.queue)) = InOp \ {i} /\ First(Tail(op.queue)) \subseteq InOp \ {i}
              /\ InOp = SocketsOf(op.queue)
  <2>1. op.queue # <<>> /\ op # None /\ i \in First(op.queue)
    BY <1>9, <1>10
  <2>2. InOp = SocketsOf(op.queue)
    BY SMTT(20), Zenon, <1>8, <1>9, <2>1 DEF InOp
  <2> QED
    BY <1>3, <1>4, <2>1, <2>2, QueueFacts
<1>11. ASSUME stop_waits
       PROVE  /\ stopping # <<>> /\ First(stopping) = {i} /\ Tail(stopping) \in Seq(Queued) /\ Once(Tail(stopping))
              /\ SocketsOf(Tail(stopping)) = InStop \ {i} /\ First(Tail(stopping)) \subseteq InStop \ {i}
  <2>1. stopping # <<>> /\ stopping # None /\ i \in First(stopping)
    BY <1>9, <1>11
  <2> QED
    BY <1>3, <1>4, <1>7, <2>1, QueueFacts
<1>12. i \in InOp /\ ~cut_off => op_waits
  <2> SUFFICES ASSUME i \in InOp, ~cut_off PROVE op_waits
    OBVIOUS
  <2>1. op # None /\ i \in Signalling /\ i \notin InStop
    BY <1>4, <1>5 DEF InOp
  <2>2. i \in First(op.queue)
    BY <1>7, <2>1 DEF Signalling
  <2> QED
    BY <2>1, <2>2
<1>13. i \in InStop => stop_waits
  <2> SUFFICES ASSUME i \in InStop PROVE stop_waits
    OBVIOUS
  <2>1. stopping # None /\ i \in Signalling /\ i \notin InOp
    BY <1>4, <1>5 DEF InStop
  <2>2. i \in First(stopping)
    BY <1>6, <2>1 DEF Signalling
  <2> QED
    BY <2>1, <2>2
<1>14. cut_off => op # None /\ ~op_waits
  BY DEF cut_off
<1> DEFINE opNext == IF op_waits THEN First(Tail(op.queue)) ELSE {}
           stopNext == IF stop_waits THEN First(Tail(stopping)) ELSE {}
           cutNext == IF cut_off THEN InOp ELSE {}
<1>15. next = opNext \cup stopNext \cup cutNext
  BY <1>6, <1>14 DEF InOp
<1>16. opNext \subseteq InOp \ {i} /\ stopNext \subseteq InStop \ {i} /\ cutNext \subseteq InOp
  BY <1>10, <1>11
<1> HIDE DEF next, op_waits, stop_waits
<1>17. /\ op' \in Operation \cup {None}
       /\ op' # None => /\ op # None /\ op \in Operation /\ ~cut_off /\ op'.at = op.at /\ op'.config = op.config
                        /\ op'.mode = op.mode /\ op'.started = op.started /\ op'.start = op.start /\ op'.ok = op.ok
                        /\ op'.queue = (IF op_waits THEN Tail(op.queue) ELSE op.queue)
       /\ op' = None <=> (op = None \/ cut_off)
  <2>1. op \in Operation \cup {None} /\ None \notin Operation
    BY SupervisorAssumption DEF Inv, ListenersInv, ListenerTypes, SupervisorAssumption
  <2>2. CASE op_waits /\ ~cut_off
    <3>1. op # None /\ op \in Operation
      BY <2>1, <2>2 DEF op_waits
    <3>2. Tail(op.queue) \in Seq(Queued)
      BY <1>10, <2>2
    <3>3. ASSUME NEW q \in Seq(Queued)
          PROVE  LET v == [op EXCEPT !.queue = q]
                 IN  /\ v \in Operation /\ v.at = op.at /\ v.config = op.config /\ v.mode = op.mode
                     /\ v.started = op.started /\ v.start = op.start /\ v.ok = op.ok /\ v.queue = q
      BY SMTT(20), Zenon, <3>1 DEF Operation
    <3>4. op' = [op EXCEPT !.queue = Tail(op.queue)]
      BY <1>1, <2>2
    <3>5. /\ op' \in Operation /\ op'.at = op.at /\ op'.config = op.config /\ op'.mode = op.mode
          /\ op'.started = op.started /\ op'.start = op.start /\ op'.ok = op.ok /\ op'.queue = Tail(op.queue)
      BY Zenon, SMTT(20), <3>2, <3>3, <3>4
    <3> QED
      BY <2>1, <2>2, <3>1, <3>5
  <2>3. CASE cut_off
    BY <1>1, <2>3
  <2>4. CASE ~op_waits /\ ~cut_off
    BY <1>1, <2>1, <2>4
  <2> QED
    BY <2>2, <2>3, <2>4
<1>18. /\ stopping' \in Seq(Queued) \cup {None}
       /\ stopping' = None <=> stopping = None
       /\ stopping' # None => stopping' = (IF stop_waits THEN Tail(stopping) ELSE stopping) /\ Once(stopping')
  <2>1. stopping \in Seq(Queued) \cup {None} /\ None \notin Seq(Queued)
    BY SupervisorAssumption DEF Inv, ListenersInv, ListenerTypes, SupervisorAssumption
  <2>2. CASE stop_waits
    BY <1>1, <1>11, <2>1, <2>2 DEF stop_waits
  <2>3. CASE ~stop_waits
    BY <1>1, <1>4, <2>1, <2>3
  <2> QED
    BY <2>2, <2>3
<1> DEFINE sigOp == IF op = None THEN {} ELSE First(op.queue)
           sigStop == IF stopping = None THEN {} ELSE First(stopping)
<1>19. InOp' = IF cut_off THEN {} ELSE InOp \ {i}
  <2>1. CASE cut_off
    BY <1>17, <2>1 DEF InOp
  <2>2. CASE op_waits /\ ~cut_off
    <3>1. op # None /\ op' # None /\ op.started = <<>>
      BY <1>8, <1>10, <1>17, <2>2 DEF op_waits
    <3>2. InOp' = Range(op'.started) \cup SocketsOf(op'.queue)
      BY <3>1 DEF InOp
    <3> QED
      BY Zenon, SMTT(20), <1>9, <1>10, <1>17, <2>2, <3>1, <3>2
  <2>3. CASE ~op_waits /\ ~cut_off
    <3>1. i \notin InOp
      BY <1>12, <2>3
    <3> QED
      BY <1>17, <2>3, <3>1 DEF InOp
  <2> QED
    BY <2>1, <2>2, <2>3
<1>20. InStop' = InStop \ {i}
  <2>1. CASE stop_waits
    <3>1. stopping # None /\ stopping' # None
      BY <1>18, <2>1 DEF stop_waits
    <3> QED
      BY Zenon, SMTT(20), <1>11, <1>18, <2>1, <3>1 DEF InStop
  <2>2. CASE ~stop_waits
    BY <1>13, <1>18, <2>2 DEF InStop
  <2> QED
    BY <2>1, <2>2
<1>21. /\ slots' \in [DOMAIN slots -> Slot] /\ DOMAIN slots' = DOMAIN slots
       /\ \A n \in DOMAIN slots : slots'[n].socket = slots[n].socket
       /\ ~op_waits => slots' = slots
  <2>1. slots \in [DOMAIN slots -> Slot]
    BY DEF Inv, ListenersInv, ListenerTypes
  <2>2. CASE op_waits
    BY <1>1, <2>2, RetireFacts DEF Inv
  <2>3. CASE ~op_waits
    BY <1>1, <2>1, <2>3
  <2> QED
    BY <2>2, <2>3
<1>22. InSlots' = InSlots
  BY <1>21 DEF InSlots
<1>23. /\ sockets' \in [SocketIds -> Listener \cup {None}] /\ sockets'[i] = None
       /\ \A j \in SocketIds : j # i =>
             /\ sockets'[j] = None <=> sockets[j] = None
             /\ j \notin next => sockets'[j] = sockets[j]
             /\ sockets[j] # None => sockets'[j].name = sockets[j].name /\ sockets'[j].spec = sockets[j].spec
             /\ sockets[j] # None /\ j \in next => sockets'[j].state = "draining"
  <2>1. sockets \in [SocketIds -> Listener \cup {None}]
    BY DEF Inv, ListenersInv, ListenerTypes
  <2> DEFINE S == Signalled(sockets, next)
  <2> HIDE DEF SocketIds
  <2>2. S \in [SocketIds -> Listener \cup {None}]
    BY Zenon, SMTT(20), <2>1, SignalledFacts
  <2>3. \A j \in SocketIds :
             /\ S[j] = None <=> sockets[j] = None
             /\ j \notin next => S[j] = sockets[j]
             /\ sockets[j] # None => S[j].name = sockets[j].name /\ S[j].spec = sockets[j].spec
             /\ sockets[j] # None /\ j \in next => S[j].state = "draining"
    BY <2>1, SignalledFacts
  <2>4. sockets' = [S EXCEPT ![i] = None]
    BY <1>1
  <2> HIDE DEF S
  <2> QED
    BY <2>2, <2>3, <2>4
<1>24. /\ Signalling = sigOp \cup sigStop /\ sigOp \subseteq InOp /\ sigStop \subseteq InStop
       /\ Signalling' = (IF op_waits THEN opNext ELSE IF cut_off THEN {} ELSE sigOp)
                         \cup (IF stop_waits THEN stopNext ELSE sigStop)
       /\ (op_waits => sigOp = {i}) /\ (stop_waits => sigStop = {i})
  <2>1. Signalling = sigOp \cup sigStop /\ sigOp \subseteq InOp /\ sigStop \subseteq InStop
    BY <1>6, <1>7 DEF Signalling
  <2>2. (op_waits => sigOp = {i}) /\ (stop_waits => sigStop = {i})
    BY <1>10, <1>11 DEF op_waits, stop_waits
  <2>3. (IF op' = None THEN {} ELSE First(op'.queue)) = IF op_waits THEN opNext ELSE IF cut_off THEN {} ELSE sigOp
    <3>1. CASE op_waits
      BY <1>14, <1>17, <3>1 DEF op_waits
    <3>2. CASE ~op_waits
      BY <1>17, <3>2
    <3> QED
      BY <3>1, <3>2
  <2>4. (IF stopping' = None THEN {} ELSE First(stopping')) = IF stop_waits THEN stopNext ELSE sigStop
    <3>1. CASE stop_waits
      BY Zenon, SMTT(20), <1>18, <3>1 DEF stop_waits
    <3>2. CASE ~stop_waits
      BY <1>18, <3>2
    <3> QED
      BY <3>1, <3>2
  <2> QED
    BY Zenon, SMTT(20), <2>1, <2>2, <2>3, <2>4 DEF Signalling
<1> HIDE DEF opNext, stopNext, sigOp, sigStop
<1>25. \A j \in InSlots' \cup InOp' \cup InStop' : j # i /\ j \in SocketIds /\ j \in InSlots \cup InOp \cup InStop
  BY <1>3, <1>5, <1>19, <1>20, <1>22
<1>26. ASSUME NEW j \in InSlots' \cup InOp' \cup InStop'
       PROVE  /\ j \in next => j \in Signalling'
              /\ j \notin next => (j \in Signalling' <=> j \in Signalling)
  <2>1. cut_off => j \notin InOp
    BY <1>4, <1>19, <1>20, <1>22
  <2>2. j \in next => j \in Signalling'
    BY <1>14, <1>15, <1>24, <2>1 DEF opNext, stopNext
  <2>3. j \notin next => (j \in Signalling' <=> j \in Signalling)
    BY <1>15, <1>24, <1>25, <2>1
  <2> QED
    BY <2>2, <2>3
<1>27. ListenerTypes'
  BY Zenon, SMTT(20), <1>1, <1>17, <1>18, <1>21, <1>23 DEF Inv, ListenersInv, ListenerTypes
<1>28. next \cap InSlots = {}
  BY <1>4, <1>15, <1>16
<1>29. \A n \in DOMAIN slots : slots[n].socket \in SocketIds /\ slots[n].socket # i /\ slots[n].socket \notin next
          /\ sockets'[slots[n].socket] = sockets[slots[n].socket]
  <2>1. \A n \in DOMAIN slots : slots[n].socket \in InSlots
    BY DEF InSlots
  <2> QED
    BY <1>3, <1>5, <1>23, <1>28, <2>1
<1>30. Owned'
  <2>1. InSlots' \cap InOp' = {} /\ InSlots' \cap InStop' = {} /\ InOp' \cap InStop' = {}
    BY <1>4, <1>19, <1>20, <1>22
  <2>2. ASSUME NEW j \in InSlots' \cup InOp' \cup InStop'
        PROVE  sockets'[j] # None /\ (sockets'[j].state = "running" <=> j \notin Signalling')
    <3>1. j # i /\ j \in SocketIds /\ sockets[j] # None /\ (sockets[j].state = "running" <=> j \notin Signalling)
      BY <1>4, <1>25
    <3>2. CASE j \in next
      BY <1>23, <1>26, <3>1, <3>2
    <3>3. CASE j \notin next
      BY <1>23, <1>26, <3>1, <3>3
    <3> QED
      BY <3>2, <3>3
  <2>3. ASSUME NEW j \in SocketIds, sockets'[j] # None, sockets'[j].state = "running"
        PROVE  j \in InSlots' \cup InOp' \cup InStop'
    <3>1. j # i /\ sockets[j] # None
      BY <1>23, <2>3
    <3>2. j \notin next
      BY <1>23, <2>3, <3>1
    <3>3. j \in InSlots \cup InOp \cup InStop
      BY <1>4, <1>23, <2>3, <3>1, <3>2
    <3>4. cut_off => j \notin InOp
      BY <1>15, <3>2
    <3> QED
      BY <1>19, <1>20, <1>22, <3>1, <3>3, <3>4
  <2>4. \A n \in DOMAIN slots' : sockets'[slots'[n].socket].name = n
    BY <1>4, <1>21, <1>29
  <2>5. op' # None => Once(op'.queue)
    BY Zenon, SMTT(20), <1>4, <1>10, <1>17
  <2> QED
    BY SMTT(20), Zenon, <1>18, <2>1, <2>2, <2>3, <2>4, <2>5 DEF Owned
<1>31. op_waits => \A k \in DOMAIN Tail(op.queue) : k \in Nat /\ k + 1 \in DOMAIN op.queue /\ Tail(op.queue)[k] = op.queue[k + 1]
  <2> SUFFICES ASSUME op_waits
               PROVE  \A k \in DOMAIN Tail(op.queue) : k \in Nat /\ k + 1 \in DOMAIN op.queue /\ Tail(op.queue)[k] = op.queue[k + 1]
    OBVIOUS
  <2>1. op # None /\ op.queue \in Seq(Queued) /\ Once(op.queue) /\ op.queue # <<>>
    BY Zenon, SMTT(20), <1>3, <1>4, <1>10 DEF op_waits
  <2>2. DOMAIN Tail(op.queue) \subseteq Nat
    BY <1>10
  <2> QED
    BY <2>1, <2>2, QueueFacts
<1>32. Holdings'
  <2> SUFFICES ASSUME op' # None PROVE Holdings'
    BY DEF Holdings
  <2>1. /\ op'.at # "start" => op'.started = <<>>
        /\ op'.at \notin {"undo", "drain"} => op'.queue = <<>>
        /\ op'.at \in {"undo", "finish"} => ~op'.ok
    BY Zenon, SMTT(20), <1>8, <1>10, <1>17 DEF Inv, ListenersInv, Holdings
  <2>2. ASSUME op'.at = "drain", NEW k \in DOMAIN op'.queue, NEW l \in DOMAIN op'.queue,
               op'.queue[k].slot = op'.queue[l].slot, op'.queue[k].slot # None
        PROVE  k = l
    <3>1. \A x, y \in DOMAIN op.queue : op.queue[x].slot = op.queue[y].slot /\ op.queue[x].slot # None => x = y
      BY Zenon, SMTT(20), <1>17, <2>2 DEF Inv, ListenersInv, Holdings
    <3>2. CASE op_waits
      <4>1. op'.queue = Tail(op.queue)
        BY <1>17, <3>2
      <4>2. k + 1 = l + 1 /\ k \in Nat /\ l \in Nat
        BY <1>31, <2>2, <3>1, <3>2, <4>1
      <4> QED
        BY <4>2
    <3>3. CASE ~op_waits
      BY Zenon, SMTT(20), <1>17, <2>2, <3>1, <3>3
    <3> QED
      BY <3>2, <3>3
  <2> QED
    BY <2>1, <2>2 DEF Holdings
<1>33. Staging'
  <2> SUFFICES ASSUME op' # None, op'.at = "start" PROVE Staging'
    BY DEF Staging
  <2>1. op # None /\ op.at = "start" /\ ~cut_off /\ ~op_waits
    BY <1>8, <1>10, <1>17
  <2>2. i \notin InOp /\ next \cap InOp = {}
    BY Zenon, SMTT(20), <1>4, <1>12, <1>15, <1>16, <2>1 DEF opNext
  <2>3. \A j \in Range(op.started) : sockets'[j] = sockets[j]
    BY Zenon, SMTT(20), <1>3, <1>6, <1>23, <2>1, <2>2
  <2>4. StartedNames' = StartedNames
    BY <1>17, <2>3 DEF StartedNames
  <2>5. \A j \in DOMAIN op.started : op.started[j] \in Range(op.started)
    BY DEF Range
  <2> DEFINE specs == ListenersOf[op.config]
  <2>6. {m \in DOMAIN specs : Staged(m, specs[m])'} = {m \in DOMAIN specs : Staged(m, specs[m])}
    BY SMTT(20), Zenon, <1>17, <1>21, <1>29 DEF Staged, Current
  <2>7. /\ Range(op.start) \subseteq DOMAIN specs
        /\ \A j, k \in DOMAIN op.start : op.start[j] = op.start[k] => j = k
        /\ \A j, k \in DOMAIN op.started : sockets[op.started[j]].name = sockets[op.started[k]].name => j = k
        /\ \A j \in Range(op.started) : sockets[j].name \in DOMAIN specs /\ sockets[j].spec = specs[sockets[j].name]
        /\ Range(op.start) \cap StartedNames = {}
        /\ stopping = None => {m \in DOMAIN specs : Staged(m, specs[m])} = Range(op.start) \cup StartedNames
    BY Zenon, SMTT(20), <2>1 DEF Inv, ListenersInv, Staging
  <2>8. \A j, k \in DOMAIN op.started : sockets'[op.started[j]].name = sockets'[op.started[k]].name => j = k
    BY Zenon, SMTT(20), <2>3, <2>5, <2>7
  <2>9. \A j \in Range(op.started) : sockets'[j].name \in DOMAIN specs /\ sockets'[j].spec = specs[sockets'[j].name]
    BY Zenon, SMTT(20), <2>3, <2>7
  <2>10. stopping' = None => {m \in DOMAIN specs : Staged(m, specs[m])'} = Range(op.start) \cup StartedNames'
    BY Zenon, SMTT(20), <1>18, <2>4, <2>6, <2>7
  <2>11. op'.start = op.start /\ op'.started = op.started /\ op'.config = op.config
    BY Zenon, SMTT(20), <1>17
  <2> QED
    BY Zenon, SMTT(20), <2>4, <2>7, <2>8, <2>9, <2>10, <2>11 DEF Staging
<1>34. ConfigInForce'
  BY Zenon, SMTT(20), <1>1, <1>18, <1>21, <1>29 DEF Inv, ListenersInv, ConfigInForce
<1>35. DrainsAccounted'
  <2> SUFFICES ASSUME ~cut', NEW n \in DOMAIN slots
               PROVE  /\ Replaced(n)' = {} => slots'[n].draining = <<>>
                      /\ \A j \in Replaced(n)' : slots'[n].draining = <<Identity(sockets'[j].spec)>>
    BY <1>21 DEF DrainsAccounted
  <2>1. ~cut /\ ~cut_off
    BY Zenon, SMTT(20), <1>1
  <2>2. /\ Replaced(n) = {} => slots[n].draining = <<>>
        /\ \A j \in Replaced(n) : slots[n].draining = <<Identity(sockets[j].spec)>>
    BY <2>1 DEF Inv, ListenersInv, DrainsAccounted
  <2>3. \A j \in Replaced(n) : j \in InOp
    BY SMTT(20), Zenon, <1>6 DEF Replaced, SocketsOf
  <2>4. \A j \in InOp : j # i => Identity(sockets'[j].spec) = Identity(sockets[j].spec)
    BY Zenon, SMTT(20), <1>3, <1>4, <1>23
  <2>5. CASE ~op_waits
    <3>1. i \notin InOp
      BY <1>12, <2>1, <2>5
    <3>2. Replaced(n)' = Replaced(n)
      BY Zenon, SMTT(20), <1>17, <2>1, <2>5 DEF Replaced
    <3> QED
      BY <1>21, <2>2, <2>3, <2>4, <2>5, <3>1, <3>2
  <2>6. CASE op_waits
    <3> DEFINE e == Head(op.queue)
    <3>1. /\ op # None /\ op' # None /\ op'.at = op.at /\ op'.queue = Tail(op.queue) /\ e.socket = i
          /\ op.queue \in Seq(Queued) /\ Once(op.queue) /\ op.queue # <<>>
      BY Zenon, SMTT(20), <1>3, <1>4, <1>10, <1>17, <2>1, <2>6 DEF op_waits
    <3>2. 1 \in DOMAIN op.queue /\ e = op.queue[1] /\ DOMAIN op.queue = 1..Len(op.queue) /\ Len(op.queue) \in Nat
          /\ DOMAIN Tail(op.queue) = 1..(Len(op.queue) - 1)
      BY <3>1, EmptySeq
    <3>3. slots'[n].draining = IF op.at = "drain" /\ n = e.slot
                               THEN RemoveFirst(slots[n].draining, Identity(sockets[i].spec))
                               ELSE slots[n].draining
      BY SMTT(20), Zenon, <1>1, <2>6, <3>1, RetireFacts DEF Inv
    <3>4. CASE op.at # "drain"
      BY Zenon, SMTT(20), <2>2, <3>1, <3>3, <3>4 DEF Replaced
    <3>5. CASE op.at = "drain" /\ n # e.slot
      <4>1. ASSUME NEW k \in DOMAIN op.queue, op.queue[k].slot = n
            PROVE  k - 1 \in DOMAIN Tail(op.queue) /\ Tail(op.queue)[k - 1] = op.queue[k]
        <5>1. k # 1
          BY <3>2, <3>5, <4>1
        <5>2. k - 1 \in DOMAIN Tail(op.queue) /\ (k - 1) + 1 = k
          BY SMTT(20), Zenon, <3>2, <5>1
        <5> QED
          BY <1>31, <2>6, <5>2
      <4>2. Replaced(n)' = {Tail(op.queue)[k].socket : k \in {k \in DOMAIN Tail(op.queue) : Tail(op.queue)[k].slot = n}}
        BY <3>1, <3>5 DEF Replaced
      <4>3. Replaced(n) = {op.queue[k].socket : k \in {k \in DOMAIN op.queue : op.queue[k].slot = n}}
        BY <3>1, <3>5 DEF Replaced
      <4>4. Replaced(n)' = Replaced(n)
        BY <1>31, <2>6, <4>1, <4>2, <4>3
      <4>5. i \notin Replaced(n)
        <5>1. ASSUME NEW k \in DOMAIN op.queue, op.queue[k].slot = n PROVE op.queue[k].socket # i
          BY <3>1, <3>2, <3>5, <5>1 DEF Once
        <5> QED
          BY <4>3, <5>1
      <4> QED
        BY Zenon, SMTT(20), <2>2, <2>3, <2>4, <3>3, <3>5, <4>4, <4>5
    <3>6. CASE op.at = "drain" /\ n = e.slot
      <4>1. n # None
        BY SupervisorAssumption DEF SupervisorAssumption, Inv, ListenersInv, ListenerTypes
      <4>2. i \in Replaced(n)
        BY <3>1, <3>2, <3>6 DEF Replaced
      <4>3. slots'[n].draining = <<>>
        BY Zenon, SMTT(20), <2>2, <3>3, <3>6, <4>2, RemoveOnly
      <4>4. \A x, y \in DOMAIN op.queue : op.queue[x].slot = op.queue[y].slot /\ op.queue[x].slot # None => x = y
        BY Zenon, SMTT(20), <3>1, <3>6 DEF Inv, ListenersInv, Holdings
      <4>5. ASSUME NEW k \in DOMAIN Tail(op.queue) PROVE Tail(op.queue)[k].slot # n
        <5>1. k + 1 \in DOMAIN op.queue /\ Tail(op.queue)[k] = op.queue[k + 1] /\ k + 1 # 1
          BY <1>31, <2>6, <3>2
        <5> QED
          BY <3>2, <3>6, <4>1, <4>4, <5>1
      <4>6. Replaced(n)' = {}
        BY SMTT(20), Zenon, <3>1, <4>5 DEF Replaced
      <4> QED
        BY <4>3, <4>6
    <3> QED
      BY Zenon, SMTT(20), <3>4, <3>5, <3>6
  <2> QED
    BY <2>5, <2>6
<1> QED
  BY <1>27, <1>30, <1>32, <1>33, <1>34, <1>35 DEF ListenersInv

(* The loop of a listener that is being shut down has failed: the          *)
(* operation lets go of the listeners it has yet to shut down, and each is *)
(* told to shut down by that.                                              *)
LEMMA DrainFailsKeeps ==
    ASSUME Inv, NEW i \in SocketIds, DrainFails(i)
    PROVE  ListenersInv'
<1> DEFINE next == {e.socket : e \in Range(Tail(op.queue))}
<1>1. /\ op # None /\ op.at = "drain" /\ i \in First(op.queue)
      /\ sockets' = [Signalled(sockets, next) EXCEPT ![i] = None]
      /\ op' = [op EXCEPT !.at = "finish", !.ok = FALSE, !.queue = <<>>]
      /\ cut' = TRUE /\ UNCHANGED <<slots, stopping, active>>
  BY Zenon, SMTT(20) DEF DrainFails
<1>2. /\ InSlots \subseteq SocketIds /\ InOp \subseteq SocketIds /\ InStop \subseteq SocketIds
      /\ op.queue \in Seq(Queued) /\ op.started \in Seq(SocketIds)
      /\ stopping # None => stopping \in Seq(Queued)
  BY <1>1, OwnedIds DEF Inv
<1>3. /\ InSlots \cap InOp = {} /\ InSlots \cap InStop = {} /\ InOp \cap InStop = {}
      /\ \A j \in InSlots \cup InOp \cup InStop :
          sockets[j] # None /\ (sockets[j].state = "running" <=> j \notin Signalling)
      /\ \A j \in SocketIds : sockets[j] # None /\ sockets[j].state = "running" => j \in InSlots \cup InOp \cup InStop
      /\ \A n \in DOMAIN slots : sockets[slots[n].socket].name = n
      /\ Once(op.queue)
      /\ stopping # None => Once(stopping)
  BY <1>1 DEF Inv, ListenersInv, Owned
<1>4. op \in Operation /\ op.started = <<>> /\ Range(<<>>) = {} /\ First(<<>>) = {} /\ SocketsOf(<<>>) = {}
  <2>1. op \in Operation
    BY <1>1 DEF Inv, ListenersInv, ListenerTypes
  <2>2. op.started = <<>>
    BY <1>1 DEF Inv, ListenersInv, Holdings
  <2> QED
    BY <2>1, <2>2 DEF Range, First, SocketsOf
<1>5. InOp = SocketsOf(op.queue)
  BY <1>1, <1>4 DEF InOp
<1>6. First(op.queue) = {i} /\ next = InOp \ {i} /\ i \in InOp
  <2>1. op.queue # <<>>
    BY <1>1, <1>4
  <2>2. First(op.queue) = {i} /\ SocketsOf(Tail(op.queue)) = SocketsOf(op.queue) \ {i}
    BY <1>1, <1>2, <1>3, <2>1, QueueFacts
  <2>3. next = SocketsOf(Tail(op.queue))
    BY DEF Range, SocketsOf
  <2>4. First(op.queue) \subseteq SocketsOf(op.queue)
    BY <1>2, EmptyQueue
  <2> QED
    BY Zenon, SMTT(20), <1>1, <1>5, <2>2, <2>3, <2>4
<1> HIDE DEF next
<1>7. /\ op' \in Operation /\ op' # None /\ op'.at = "finish" /\ op'.started = <<>> /\ op'.queue = <<>> /\ op'.ok = FALSE
  <2>1. None \notin Operation /\ <<>> \in Seq(Queued)
    BY SupervisorAssumption, EmptySeq DEF SupervisorAssumption
  <2>2. op' \in Operation /\ op'.at = "finish" /\ op'.ok = FALSE /\ op'.started = op.started /\ op'.queue = <<>>
    BY Zenon, SMTT(20), <1>1, <1>4, <2>1 DEF Operation
  <2> QED
    BY <1>4, <2>1, <2>2
<1>8. InOp' = {} /\ InSlots' = InSlots /\ InStop' = InStop
  <2>1. InOp' = {}
    BY Zenon, SMTT(20), <1>4, <1>7 DEF InOp
  <2>2. InSlots' = InSlots /\ InStop' = InStop
    BY Zenon, SMTT(20), <1>1 DEF InSlots, InStop
  <2> QED
    BY <2>1, <2>2
<1>9. Signalling' = (IF stopping = None THEN {} ELSE First(stopping)) /\ Signalling = {i} \cup Signalling'
  <2>1. Signalling' = (IF stopping = None THEN {} ELSE First(stopping))
    BY Zenon, SMTT(20), <1>1, <1>4, <1>7 DEF Signalling
  <2> QED
    BY <1>1, <1>6, <2>1 DEF Signalling
<1>10. /\ sockets' \in [SocketIds -> Listener \cup {None}] /\ sockets'[i] = None
       /\ \A j \in SocketIds : j # i =>
             /\ j \notin next => sockets'[j] = sockets[j]
             /\ sockets[j] # None /\ j \in next => sockets'[j].state = "draining"
  <2>1. sockets \in [SocketIds -> Listener \cup {None}]
    BY DEF Inv, ListenersInv, ListenerTypes
  <2> DEFINE S == Signalled(sockets, next)
  <2> HIDE DEF SocketIds
  <2>2. S \in [SocketIds -> Listener \cup {None}]
    BY Zenon, SMTT(20), <2>1, SignalledFacts
  <2>3. \A j \in SocketIds :
             /\ j \notin next => S[j] = sockets[j]
             /\ sockets[j] # None /\ j \in next => S[j].state = "draining"
    BY <2>1, SignalledFacts
  <2>4. sockets' = [S EXCEPT ![i] = None]
    BY <1>1
  <2> HIDE DEF S
  <2> QED
    BY <2>2, <2>3, <2>4
<1>11. \A j \in InSlots \cup InStop : j # i /\ sockets'[j] = sockets[j]
  BY <1>2, <1>3, <1>6, <1>10
<1>12. \A n \in DOMAIN slots : slots[n].socket \in InSlots /\ sockets'[slots[n].socket] = sockets[slots[n].socket]
  BY <1>11 DEF InSlots
<1>13. ListenerTypes'
  BY Zenon, SMTT(20), <1>1, <1>7, <1>10 DEF Inv, ListenersInv, ListenerTypes
<1>14. Owned'
  <2>1. \A j \in InSlots \cup InStop :
           sockets'[j] # None /\ (sockets'[j].state = "running" <=> j \notin Signalling')
    BY <1>3, <1>9, <1>11
  <2>2. ASSUME NEW j \in SocketIds, sockets'[j] # None, sockets'[j].state = "running"
        PROVE  j \in InSlots \cup InStop
    <3>1. j # i
      BY <1>10, <2>2
    <3>2. CASE j \in next
      <4>1. sockets[j] # None
        BY <1>3, <1>6, <3>2
      <4> QED
        BY <1>10, <2>2, <3>1, <3>2, <4>1
    <3>3. CASE j \notin next
      BY <1>3, <1>6, <1>10, <2>2, <3>1, <3>3
    <3> QED
      BY <3>2, <3>3
  <2>3. \A n \in DOMAIN slots' : sockets'[slots'[n].socket].name = n
    BY Zenon, SMTT(20), <1>1, <1>3, <1>12
  <2>4. Once(op'.queue) /\ (stopping' # None => Once(stopping'))
    BY <1>1, <1>3, <1>7 DEF Once
  <2> QED
    BY Zenon, SMTT(20), <1>3, <1>8, <2>1, <2>2, <2>3, <2>4 DEF Owned
<1>15. Holdings' /\ Staging' /\ DrainsAccounted'
  BY <1>1, <1>7 DEF Holdings, Staging, DrainsAccounted
<1>16. ConfigInForce'
  BY Zenon, SMTT(20), <1>1, <1>12 DEF Inv, ListenersInv, ConfigInForce
<1> QED
  BY <1>13, <1>14, <1>15, <1>16 DEF ListenersInv

----------------------------------------------------------------------------
(* Steps that leave the listeners alone                                    *)

OpPoints == {"prepare", "plan", "start", "undo", "drain", "finish", "finish_write"}

(* The operation goes on to another point.                                 *)
LEMMA OpAt ==
    ASSUME NEW o \in Operation, NEW a \in OpPoints
    PROVE  LET v == [o EXCEPT !.at = a]
           IN  /\ v \in Operation /\ v.at = a /\ v.ok = o.ok /\ v.config = o.config /\ v.mode = o.mode
               /\ v.started = o.started /\ v.queue = o.queue /\ v.start = o.start
BY Zenon, SMTT(20) DEF Operation, OpPoints

(* Nothing of the listeners, the operation or the shutdown has changed.    *)
LEMMA QuietKeeps ==
    ASSUME ListenersInv, UNCHANGED <<listeners, op, stopping, cut>>
    PROVE  ListenersInv'
<1>1. ListenerTypes'
  BY DEF ListenersInv, ListenerTypes, listeners
<1>2. Owned'
  BY DEF ListenersInv, Owned, InSlots, InOp, InStop, Signalling, listeners
<1>3. Holdings' /\ Staging'
  <2>1. Holdings'
    BY SMTT(20), Zenon DEF ListenersInv, Holdings
  <2>2. Staging'
    BY DEF ListenersInv, Staging, StartedNames, Staged, Current, listeners
  <2> QED
    BY <2>1, <2>2
<1>4. ConfigInForce'
  BY DEF ListenersInv, ConfigInForce, listeners
<1>5. DrainsAccounted'
  <2>1. \A n : Replaced(n)' = Replaced(n)
    BY DEF Replaced
  <2> QED
    BY <2>1 DEF ListenersInv, DrainsAccounted, listeners
<1> QED
  BY <1>1, <1>2, <1>3, <1>4, <1>5 DEF ListenersInv

(* The process has gone.                                                   *)
LEMMA ExitKeeps ==
    ASSUME ListenersInv, Exit
    PROVE  ListenersInv'
<1>1. DOMAIN slots' = {} /\ sockets' = [i \in SocketIds |-> None] /\ op' = None /\ stopping' = None /\ active' = None
  BY DEF Exit
<1>2. ListenerTypes'
  BY <1>1 DEF ListenerTypes, MaybeConfig, Exit
<1>3. Owned'
  BY <1>1 DEF Owned, InSlots, InOp, InStop, Signalling
<1>4. Holdings' /\ Staging' /\ ConfigInForce' /\ DrainsAccounted'
  BY <1>1 DEF Holdings, Staging, ConfigInForce, DrainsAccounted
<1> QED
  BY <1>2, <1>3, <1>4 DEF ListenersInv

(* An operation that owns no listener.                                     *)
Empty(o) == o = None \/ (o.started = <<>> /\ o.queue = <<>>)

(* Such an operation begins, goes on or ends.                              *)
LEMMA EmptyOpKeeps ==
    ASSUME ListenersInv, Empty(op), Empty(op'), UNCHANGED <<active, sockets, stopping, cut>>,
           op' \in Operation \cup {None}, op' # None => op'.at \notin {"undo", "drain"} /\ (op'.at = "finish" => ~op'.ok),
           slots' \in [DOMAIN slots -> Slot],
           \A n \in DOMAIN slots : slots'[n].socket = slots[n].socket /\ slots'[n].draining = slots[n].draining,
           Staging'
    PROVE  ListenersInv'
<1>1. /\ Range(<<>>) = {} /\ SocketsOf(<<>>) = {} /\ First(<<>>) = {} /\ Once(<<>>)
  BY DEF Range, SocketsOf, First, Once
<1>2. InOp = {} /\ InOp' = {}
  BY <1>1 DEF InOp, Empty
<1>3. DOMAIN slots' = DOMAIN slots
  OBVIOUS
<1>4. InSlots' = InSlots /\ InStop' = InStop
  BY <1>3 DEF InSlots, InStop
<1>5. Signalling' = Signalling
  BY <1>1 DEF Signalling, Empty
<1>6. ListenerTypes'
  BY <1>3 DEF ListenersInv, ListenerTypes
<1>7. Owned'
  BY Zenon, SMTT(20), <1>1, <1>2, <1>3, <1>4, <1>5 DEF ListenersInv, Owned, Empty
<1>8. Holdings'
  BY DEF Holdings, Empty
<1>9. ConfigInForce'
  BY <1>3 DEF ListenersInv, ConfigInForce
<1>10. DrainsAccounted'
  <2>1. \A n : Replaced(n) = {} /\ Replaced(n)' = {}
    BY DEF Replaced, Empty
  <2> QED
    BY <1>3, <2>1 DEF ListenersInv, DrainsAccounted
<1> QED
  BY <1>6, <1>7, <1>8, <1>9, <1>10 DEF ListenersInv

(* reload_guard is taken.                                                  *)
LEMMA AcquireKeeps ==
    ASSUME Inv, NEW t \in Tasks, Acquire(t)
    PROVE  ListenersInv'
<1>1. CASE ~Compiles(file)
  BY <1>1, QuietKeeps DEF Acquire, Inv, history
<1>2. CASE Compiles(file)
  <2>1. task[t].kind \in {"reload", "restart"} /\ file \in DOMAIN ListenersOf
    BY <1>2 DEF Acquire, Inv, JournalInv, TasksInv, Proper, Compiles
  <2>2. <<>> \in Seq(Names) /\ <<>> \in Seq(SocketIds) /\ <<>> \in Seq(Queued)
    OBVIOUS
  <2>3. /\ op' \in Operation /\ op'.started = <<>> /\ op'.queue = <<>> /\ op'.at \in {"plan", "prepare"}
    <3> DEFINE a == IF task[t].kind = "restart" THEN "plan" ELSE "prepare"
               o(b) == [by |-> t, mode |-> task[t].kind, config |-> file, at |-> b,
                        start |-> <<>>, started |-> <<>>, queue |-> <<>>, failed |-> None, ok |-> TRUE]
    <3>1. op' = o(a) /\ a \in {"plan", "prepare"}
      BY <1>2 DEF Acquire
    <3>2. \A b \in {"plan", "prepare"} :
             o(b) \in Operation /\ o(b).started = <<>> /\ o(b).queue = <<>> /\ o(b).at = b
      BY <2>1, <2>2 DEF Operation
    <3> HIDE DEF a, o
    <3> QED
      BY <3>1, <3>2
  <2>4. op = None /\ UNCHANGED <<listeners, stopping, cut>>
    BY DEF Acquire, history
  <2>5. Staging'
    BY <2>3 DEF Staging
  <2>6. slots' \in [DOMAIN slots -> Slot]
    BY <2>4 DEF listeners, Inv, ListenersInv, ListenerTypes
  <2> QED
    BY <2>3, <2>4, <2>5, <2>6, EmptyOpKeeps DEF Inv, Empty, listeners
<1> QED
  BY <1>1, <1>2

(* The journal entries of a reload, and its end.                           *)
LEMMA PersistenceKeeps ==
    ASSUME Inv, WritePrepare \/ Finish \/ WriteFinish
    PROVE  ListenersInv'
<1>1. op \in Operation /\ op # None
  BY Zenon, SMTT(20) DEF Inv, ListenersInv, ListenerTypes, WritePrepare, Finish, WriteFinish
<1>2. Empty(op)
  BY Zenon, SMTT(20), <1>1 DEF Inv, ListenersInv, Holdings, Empty, WritePrepare, Finish, WriteFinish
<1>3. op' = None \/ op' = [op EXCEPT !.at = "plan"] \/ op' = [op EXCEPT !.at = "finish_write"]
  BY Zenon, SMTT(20) DEF WritePrepare, Finish, WriteFinish
<1>4. "plan" \in OpPoints /\ "finish_write" \in OpPoints
  BY DEF OpPoints
<1>5. op' = None \/ (op' \in Operation /\ op'.at \in {"plan", "finish_write"} /\ op'.started = op.started
                     /\ op'.queue = op.queue)
  <2>1. CASE op' = [op EXCEPT !.at = "plan"]
    BY <1>1, <1>4, <2>1, OpAt
  <2>2. CASE op' = [op EXCEPT !.at = "finish_write"]
    BY <1>1, <1>4, <2>2, OpAt
  <2> QED
    BY <1>3, <2>1, <2>2
<1>6. UNCHANGED <<listeners, stopping, cut>>
  BY Zenon, SMTT(20) DEF WritePrepare, Finish, WriteFinish, history
<1>7. Staging'
  BY <1>5 DEF Staging
<1>8. slots' \in [DOMAIN slots -> Slot]
  BY <1>6 DEF listeners, Inv, ListenersInv, ListenerTypes
<1>9. Empty(op')
  BY <1>1, <1>2, <1>5 DEF Empty
<1> QED
  BY <1>2, <1>5, <1>6, <1>7, <1>8, <1>9, EmptyOpKeeps DEF Inv, listeners

(* The error of a failed start is recorded in its slot.                    *)
LEMMA EndUndoKeeps ==
    ASSUME Inv, EndUndo
    PROVE  ListenersInv'
<1>1. op \in Operation /\ op # None /\ op.at = "undo" /\ op.queue = <<>>
  BY DEF Inv, ListenersInv, ListenerTypes, EndUndo
<1>2. Empty(op) /\ ~op.ok
  BY <1>1 DEF Inv, ListenersInv, Holdings, Empty
<1>3. "finish" \in OpPoints
  BY DEF OpPoints
<1>4. op' \in Operation /\ op'.at = "finish" /\ op'.started = op.started /\ op'.queue = op.queue /\ op'.ok = op.ok
  BY <1>1, <1>3, OpAt DEF EndUndo
<1>5. slots \in [DOMAIN slots -> Slot]
  BY DEF Inv, ListenersInv, ListenerTypes
<1>6. /\ slots' \in [DOMAIN slots -> Slot]
      /\ \A n \in DOMAIN slots : slots'[n].socket = slots[n].socket /\ slots'[n].draining = slots[n].draining
  <2>1. ASSUME NEW r \in Slot
        PROVE  LET v == [r EXCEPT !.failed_start = TRUE]
               IN  v \in Slot /\ v.socket = r.socket /\ v.draining = r.draining
    BY Zenon, SMTT(20) DEF Slot
  <2>2. CASE op.failed \in DOMAIN slots
    <3> DEFINE v == [slots[op.failed] EXCEPT !.failed_start = TRUE]
    <3>1. slots[op.failed] \in Slot
      BY <1>5, <2>2
    <3>2. v \in Slot /\ v.socket = slots[op.failed].socket /\ v.draining = slots[op.failed].draining
      BY <2>1, <3>1
    <3>3. slots' = [slots EXCEPT ![op.failed] = v]
      BY <2>2 DEF EndUndo
    <3> HIDE DEF v
    <3> QED
      BY Zenon, SMTT(20), <1>5, <3>2, <3>3
  <2>3. CASE op.failed \notin DOMAIN slots
    BY <1>5, <2>3 DEF EndUndo
  <2> QED
    BY <2>2, <2>3
<1>7. UNCHANGED <<active, sockets, stopping, cut>>
  BY DEF EndUndo, history
<1>8. Staging'
  BY <1>4 DEF Staging
<1>9. Empty(op')
  BY <1>2, <1>1, <1>4 DEF Empty
<1> QED
  BY <1>2, <1>4, <1>6, <1>7, <1>8, <1>9, EmptyOpKeeps DEF Inv

(* The plan stages what has to be started, or is refused.                  *)
LEMMA PlanKeeps ==
    ASSUME Inv, Plan
    PROVE  ListenersInv'
<1> DEFINE specs == ListenersOf[op.config]
           staged == {n \in DOMAIN specs : Staged(n, specs[n])}
<1>1. op \in Operation /\ op # None /\ op.at = "plan" /\ op.config \in DOMAIN ListenersOf
  BY DEF Inv, ListenersInv, ListenerTypes, Plan, Operation
<1>2. op.started = <<>> /\ op.queue = <<>>
  BY <1>1 DEF Inv, ListenersInv, Holdings
<1>3. UNCHANGED <<listeners, stopping, cut>>
  BY DEF Plan, history
<1>4. slots' \in [DOMAIN slots -> Slot]
  BY <1>3 DEF listeners, Inv, ListenersInv, ListenerTypes
<1>5. CASE op' = [op EXCEPT !.at = "finish", !.ok = FALSE]
  <2>1. op' \in Operation /\ op'.at = "finish" /\ op'.ok = FALSE /\ op'.started = op.started /\ op'.queue = op.queue
    BY Zenon, SMTT(20), <1>1, <1>5 DEF Operation
  <2>2. Staging'
    BY <2>1 DEF Staging
  <2> QED
    BY <1>2, <1>3, <1>4, <2>1, <2>2, EmptyOpKeeps DEF Inv, Empty, listeners
<1>6. CASE op' = [op EXCEPT !.at = "start", !.start = InOrder(staged)]
  <2>1. staged \in SUBSET Names /\ staged \subseteq DOMAIN specs
    BY <1>1, SupervisorAssumption DEF SupervisorAssumption
  <2> DEFINE q == InOrder(staged)
  <2>2. q \in Seq(Names) /\ Range(q) = staged /\ \A i, j \in DOMAIN q : q[i] = q[j] => i = j
    <3> HIDE DEF staged
    <3>1. InOrder(staged) \in Seq(staged)
      BY <2>1, InOrderFacts
    <3> QED
      BY <2>1, <3>1, InOrderFacts
  <2> HIDE DEF q
  <2>3. op' = [op EXCEPT !.at = "start", !.start = q]
    BY <1>6 DEF q
  <2>4. /\ op' \in Operation /\ op'.at = "start" /\ op'.start = q /\ op'.started = <<>> /\ op'.queue = <<>>
        /\ op'.config = op.config /\ op'.mode = op.mode
    BY Zenon, SMTT(20), <1>1, <1>2, <2>2, <2>3 DEF Operation
  <2>5. StartedNames' = {}
    BY <2>4 DEF StartedNames, Range
  <2>6. {n \in DOMAIN specs : Staged(n, specs[n])'} = staged
    BY SMTT(20), Zenon, <1>3, <2>4 DEF Staged, Current, listeners
  <2>7. Staging'
    BY <2>1, <2>2, <2>4, <2>5, <2>6 DEF Staging, Range
  <2> QED
    BY <1>2, <1>3, <1>4, <2>4, <2>7, EmptyOpKeeps DEF Inv, Empty, listeners
<1> QED
  BY <1>5, <1>6 DEF Plan

----------------------------------------------------------------------------
(* Starting listeners                                                      *)

(* The next listener is started.                                           *)
LEMMA StartNextKeeps ==
    ASSUME Inv, StartNext
    PROVE  ListenersInv'
<1> DEFINE n == Head(op.start)
           specs == ListenersOf[op.config]
           free == {j \in SocketIds : sockets[j] = None}
           new == [name |-> n, spec |-> specs[n], state |-> "running"]
<1>1. op \in Operation /\ op # None /\ op.at = "start" /\ op.start # <<>> /\ op.start \in Seq(Names)
      /\ op.started \in Seq(SocketIds) /\ op.config \in DOMAIN ListenersOf
  BY SMTT(20), Zenon DEF Inv, ListenersInv, ListenerTypes, StartNext, Operation
<1>2. PICK i \in free : sockets' = [sockets EXCEPT ![i] = new]
                        /\ op' = [op EXCEPT !.start = Tail(@), !.started = Append(@, i)]
  <2>1. free \subseteq Nat /\ free # {}
    BY SupervisorAssumption DEF StartNext, SupervisorAssumption, SocketIds
  <2>2. \E i \in free : \A j \in free : i <= j
    <3> HIDE DEF free
    <3> QED
      BY Zenon, SMTT(20), <2>1, LeastExists
  <2> DEFINE i == CHOOSE i \in free : \A j \in free : i <= j
  <2>3. i \in free
    BY <2>2
  <2>4. sockets' = [sockets EXCEPT ![i] = new] /\ op' = [op EXCEPT !.start = Tail(@), !.started = Append(@, i)]
    BY DEF StartNext
  <2> HIDE DEF i, free
  <2> QED
    BY Zenon, SMTT(20), <2>3, <2>4
<1>3. /\ n \in Range(op.start) /\ n \in Names /\ Tail(op.start) \in Seq(Names)
      /\ Range(Tail(op.start)) = Range(op.start) \ {n}
      /\ \A j, k \in DOMAIN Tail(op.start) : Tail(op.start)[j] = Tail(op.start)[k] => j = k
  <2> DEFINE s == op.start
  <2>1. /\ s \in Seq(Names) /\ s # <<>> /\ \A j, k \in DOMAIN s : s[j] = s[k] => j = k
    BY <1>1 DEF Inv, ListenersInv, Staging
  <2> HIDE DEF s
  <2>2. Len(s) \in Nat \ {0} /\ DOMAIN s = 1..Len(s) /\ Head(s) = s[1] /\ 1 \in DOMAIN s
    BY <2>1, EmptySeq
  <2>3. /\ Tail(s) \in Seq(Names) /\ DOMAIN Tail(s) = 1..(Len(s) - 1)
        /\ \A k \in DOMAIN Tail(s) : k + 1 \in DOMAIN s /\ k + 1 # 1 /\ Tail(s)[k] = s[k + 1]
    BY <2>1, <2>2
  <2>4. \A k \in DOMAIN s : k # 1 => k - 1 \in DOMAIN Tail(s) /\ (k - 1) + 1 = k
    BY <2>2, <2>3
  <2>5. \A k \in DOMAIN s : k # 1 => s[k] = Tail(s)[k - 1]
    BY SMTT(20), Zenon, <2>3, <2>4
  <2>6. Range(Tail(s)) = Range(s) \ {s[1]}
    BY <2>1, <2>2, <2>3, <2>4, <2>5 DEF Range
  <2>7. \A j, k \in DOMAIN Tail(s) : Tail(s)[j] = Tail(s)[k] => j = k
    <3> SUFFICES ASSUME NEW j \in DOMAIN Tail(s), NEW k \in DOMAIN Tail(s), Tail(s)[j] = Tail(s)[k] PROVE j = k
      OBVIOUS
    <3>1. j + 1 = k + 1
      BY <2>1, <2>3
    <3> QED
      BY <2>3, <3>1
  <2>8. s[1] \in Range(s) /\ s[1] \in Names
    BY SMTT(20), Zenon, <2>1, <2>2 DEF Range
  <2> QED
    BY Zenon, SMTT(20), <2>2, <2>3, <2>6, <2>7, <2>8 DEF s
<1>4. n \in DOMAIN specs /\ specs[n] \in Specs
  BY <1>1, <1>3 DEF Inv, ListenersInv, Staging, Specs
<1>5. new \in Listener /\ new # None /\ new.name = n /\ new.spec = specs[n] /\ new.state = "running"
  <2>1. new \in Listener
    BY <1>3, <1>4 DEF Listener
  <2> QED
    BY <2>1, SupervisorAssumption DEF SupervisorAssumption
<1> HIDE DEF new
<1>6. /\ op' \in Operation /\ op' # None /\ op'.at = "start" /\ op'.config = op.config /\ op'.mode = op.mode
      /\ op'.start = Tail(op.start) /\ op'.started = Append(op.started, i) /\ op'.queue = op.queue /\ op.queue = <<>>
  <2>1. Append(op.started, i) \in Seq(SocketIds)
    BY <1>1
  <2>2. op' \in Operation /\ op'.at = "start" /\ op'.config = op.config /\ op'.mode = op.mode
        /\ op'.start = Tail(op.start) /\ op'.started = Append(op.started, i) /\ op'.queue = op.queue
    BY Zenon, SMTT(20), <1>1, <1>2, <1>3, <2>1 DEF Operation
  <2>3. op.queue = <<>>
    BY <1>1 DEF Inv, ListenersInv, Holdings
  <2> QED
    BY <2>2, <2>3, SupervisorAssumption DEF SupervisorAssumption
<1>7. UNCHANGED <<active, slots, stopping, cut>>
  BY DEF StartNext, history
<1>8. sockets \in [SocketIds -> Listener \cup {None}] /\ i \in SocketIds /\ sockets[i] = None
  BY DEF Inv, ListenersInv, ListenerTypes
<1>9. sockets' \in [SocketIds -> Listener \cup {None}] /\ sockets'[i] = new
      /\ \A j \in SocketIds : j # i => sockets'[j] = sockets[j]
  BY <1>2, <1>5, <1>8
<1>10. i \notin InSlots \cup InOp \cup InStop
  BY <1>8 DEF Inv, ListenersInv, Owned
<1>11. /\ Len(op.started) \in Nat /\ DOMAIN op.started = 1..Len(op.started)
       /\ DOMAIN op'.started = DOMAIN op.started \cup {Len(op.started) + 1}
       /\ op'.started[Len(op.started) + 1] = i
       /\ \A k \in DOMAIN op.started : op'.started[k] = op.started[k] /\ k # Len(op.started) + 1
  BY <1>1, <1>6
<1>12. Range(op'.started) = Range(op.started) \cup {i}
  BY <1>11 DEF Range
<1>13. InSlots' = InSlots /\ InStop' = InStop /\ InOp' = InOp \cup {i} /\ Signalling' = Signalling
  BY <1>1, <1>6, <1>7, <1>12 DEF InSlots, InStop, InOp, Signalling
<1>14. InSlots \subseteq SocketIds /\ InOp \subseteq SocketIds /\ InStop \subseteq SocketIds /\ Signalling \subseteq InOp \cup InStop
  BY OwnedIds DEF Inv
<1>15. \A m \in DOMAIN slots : slots[m].socket \in SocketIds /\ slots[m].socket # i
       /\ sockets'[slots[m].socket] = sockets[slots[m].socket]
  BY <1>9, <1>10, <1>14 DEF InSlots
<1>16. ListenerTypes'
  BY <1>6, <1>7, <1>9 DEF Inv, ListenersInv, ListenerTypes
<1>17. Owned'
  <2>1. InSlots' \cap InOp' = {} /\ InSlots' \cap InStop' = {} /\ InOp' \cap InStop' = {}
    BY <1>10, <1>13 DEF Inv, ListenersInv, Owned
  <2>2. \A j \in InSlots' \cup InOp' \cup InStop' :
           sockets'[j] # None /\ (sockets'[j].state = "running" <=> j \notin Signalling')
    BY SMTT(20), Zenon, <1>5, <1>9, <1>10, <1>13, <1>14 DEF Inv, ListenersInv, Owned
  <2>3. \A j \in SocketIds :
           sockets'[j] # None /\ sockets'[j].state = "running" => j \in InSlots' \cup InOp' \cup InStop'
    BY SMTT(20), Zenon, <1>9, <1>13 DEF Inv, ListenersInv, Owned
  <2>4. \A m \in DOMAIN slots' : sockets'[slots'[m].socket].name = m
    BY <1>7, <1>15 DEF Inv, ListenersInv, Owned
  <2>5. Once(op'.queue) /\ (stopping' # None => Once(stopping'))
    BY <1>1, <1>6, <1>7 DEF Inv, ListenersInv, Owned
  <2> QED
    BY <2>1, <2>2, <2>3, <2>4, <2>5 DEF Owned
<1>18. Holdings'
  BY SMTT(20), Zenon, <1>6 DEF Holdings
<1>19. Staging'
  <2>1. /\ Range(op.start) \subseteq DOMAIN specs
        /\ \A j, k \in DOMAIN op.started : sockets[op.started[j]].name = sockets[op.started[k]].name => j = k
        /\ \A j \in Range(op.started) : sockets[j].name \in DOMAIN specs /\ sockets[j].spec = specs[sockets[j].name]
        /\ Range(op.start) \cap StartedNames = {}
        /\ stopping = None => {m \in DOMAIN specs : Staged(m, specs[m])} = Range(op.start) \cup StartedNames
    BY Zenon, SMTT(20), <1>1 DEF Inv, ListenersInv, Staging
  <2>2. \A j \in Range(op.started) : j \in SocketIds /\ j # i /\ sockets'[j] = sockets[j] /\ sockets[j].name \in StartedNames
    BY <1>1, <1>9, <1>10, <1>14 DEF InOp, StartedNames
  <2>3. StartedNames' = StartedNames \cup {n}
    BY <1>5, <1>9, <1>12, <2>2 DEF StartedNames
  <2>4. \A j \in DOMAIN op.started : op.started[j] \in Range(op.started)
    BY DEF Range
  <2>5. \A j, k \in DOMAIN op'.started : sockets'[op'.started[j]].name = sockets'[op'.started[k]].name => j = k
    <3> DEFINE last == Len(op.started) + 1
    <3>1. \A j, k \in DOMAIN op.started : sockets[op.started[j]].name = sockets[op.started[k]].name => j = k
      BY Zenon, SMTT(20), <2>1
    <3>2. \A j \in DOMAIN op.started : /\ sockets'[op'.started[j]].name = sockets[op.started[j]].name
                                     /\ sockets[op.started[j]].name \in StartedNames
      BY <1>11, <2>2, <2>4
    <3>3. sockets'[op'.started[last]].name = n
      BY <1>5, <1>9, <1>11
    <3>4. n \notin StartedNames
      BY Zenon, SMTT(20), <1>3, <2>1
    <3> HIDE DEF last
    <3> QED
      BY SMTT(20), Zenon, <1>11, <3>1, <3>2, <3>3, <3>4 DEF last
  <2>6. \A j \in Range(op'.started) : sockets'[j].name \in DOMAIN specs /\ sockets'[j].spec = specs[sockets'[j].name]
    <3>1. \A j \in Range(op.started) : sockets[j].name \in DOMAIN specs /\ sockets[j].spec = specs[sockets[j].name]
      BY Zenon, SMTT(20), <2>1
    <3>2. \A j \in Range(op.started) : sockets'[j] = sockets[j]
      BY Zenon, SMTT(20), <2>2
    <3>3. sockets'[i].name \in DOMAIN specs /\ sockets'[i].spec = specs[sockets'[i].name]
      BY <1>4, <1>5, <1>9
    <3> QED
      BY Zenon, SMTT(20), <1>12, <3>1, <3>2, <3>3
  <2>7. {m \in DOMAIN specs : Staged(m, specs[m])'} = {m \in DOMAIN specs : Staged(m, specs[m])}
    BY Zenon, SMTT(20), <1>6, <1>7, <1>15 DEF Staged, Current
  <2>8. Range(op'.start) \cap StartedNames' = {}
    BY Zenon, SMTT(20), <1>3, <1>6, <2>1, <2>3
  <2>9. stopping' = None => {m \in DOMAIN specs : Staged(m, specs[m])'} = Range(op'.start) \cup StartedNames'
    <3> DEFINE staged == {m \in DOMAIN specs : Staged(m, specs[m])}
    <3>1. stopping = None => staged = Range(op.start) \cup StartedNames
      BY Zenon, SMTT(20), <2>1
    <3>2. Range(op'.start) = Range(op.start) \ {n} /\ n \in Range(op.start)
      BY Zenon, SMTT(20), <1>3, <1>6
    <3> HIDE DEF staged
    <3>3. stopping = None => staged = Range(op'.start) \cup StartedNames'
      BY <2>3, <3>1, <3>2
    <3> QED
      BY Zenon, SMTT(20), <1>7, <2>7, <3>3 DEF staged
  <2> QED
    BY Zenon, SMTT(20), <1>3, <1>6, <2>1, <2>5, <2>6, <2>8, <2>9 DEF Staging
<1>20. ConfigInForce'
  BY <1>7, <1>15 DEF Inv, ListenersInv, ConfigInForce
<1>21. DrainsAccounted'
  <2>1. \A m : Replaced(m) = {} /\ Replaced(m)' = {}
    BY <1>1, <1>6 DEF Replaced
  <2> QED
    BY <1>7, <2>1 DEF Inv, ListenersInv, DrainsAccounted
<1> QED
  BY <1>16, <1>17, <1>18, <1>19, <1>20, <1>21 DEF ListenersInv

(* A start or an update has failed: what was started is shut down again.   *)
LEMMA UndoKeeps ==
    ASSUME Inv, op # None, op.at = "start", NEW failed \in Names \cup {None}, Undo(failed)
    PROVE  ListenersInv'
<1> DEFINE queue == [k \in DOMAIN op.started |-> [socket |-> op.started[k], slot |-> None]]
<1>1. op \in Operation /\ op.started \in Seq(SocketIds) /\ op.config \in DOMAIN ListenersOf
  BY DEF Inv, ListenersInv, ListenerTypes, Operation
<1>2. op.queue = <<>>
  BY DEF Inv, ListenersInv, Holdings
<1>3. queue \in Seq(Queued) /\ DOMAIN queue = DOMAIN op.started
  <2>1. \A k \in DOMAIN op.started : [socket |-> op.started[k], slot |-> None] \in Queued
    BY <1>1 DEF Queued
  <2>2. DOMAIN op.started = 1..Len(op.started) /\ Len(op.started) \in Nat
    BY <1>1
  <2> QED
    BY <2>1, <2>2
<1>4. SocketsOf(queue) = Range(op.started)
  BY Zenon, SMTT(20) DEF SocketsOf, Range
<1>5. Once(queue)
  BY Zenon, SMTT(20) DEF Once, Inv, ListenersInv, Staging
<1>6. /\ op' = [op EXCEPT !.at = "undo", !.ok = FALSE, !.failed = failed, !.started = <<>>, !.start = <<>>, !.queue = queue]
      /\ sockets' = Signalled(sockets, First(queue))
      /\ UNCHANGED <<active, slots, stopping, cut>>
  BY DEF Undo, history
<1> HIDE DEF queue
<1>7. /\ op' \in Operation /\ op' # None /\ op'.at = "undo" /\ op'.ok = FALSE /\ op'.started = <<>> /\ op'.queue = queue
  <2>1. <<>> \in Seq(Names) /\ <<>> \in Seq(SocketIds)
    OBVIOUS
  <2>2. /\ op' \in Operation /\ op'.at = "undo" /\ op'.ok = FALSE /\ op'.started = <<>> /\ op'.queue = queue
    BY Zenon, SMTT(20), <1>1, <1>3, <1>6, <2>1 DEF Operation
  <2> QED
    BY <2>2, SupervisorAssumption DEF SupervisorAssumption
<1>8. Range(<<>>) = {} /\ SocketsOf(<<>>) = {} /\ First(<<>>) = {}
  BY DEF Range, SocketsOf, First
<1>9. InSlots' = InSlots /\ InStop' = InStop /\ InOp' = InOp
  BY <1>2, <1>4, <1>6, <1>7, <1>8 DEF InSlots, InStop, InOp
<1>10. Signalling' = Signalling \cup First(queue)
  BY <1>2, <1>6, <1>7, <1>8 DEF Signalling
<1>11. First(queue) \subseteq InOp /\ First(queue) \subseteq SocketIds
  <2>1. First(queue) \subseteq SocketsOf(queue) /\ SocketsOf(queue) \subseteq SocketIds
    BY <1>3, EmptyQueue
  <2> QED
    BY <1>4, <2>1 DEF InOp
<1>12. sockets \in [SocketIds -> Listener \cup {None}]
  BY DEF Inv, ListenersInv, ListenerTypes
<1>13. sockets' \in [SocketIds -> Listener \cup {None}]
       /\ \A j \in SocketIds : /\ sockets'[j] = None <=> sockets[j] = None
                               /\ j \notin First(queue) => sockets'[j] = sockets[j]
                               /\ sockets[j] # None /\ j \in First(queue) => sockets'[j].state = "draining"
  <2> HIDE DEF SocketIds
  <2>1. Signalled(sockets, First(queue)) \in [SocketIds -> Listener \cup {None}]
    BY <1>12, SignalledFacts DEF Signalled
  <2> QED
    BY <1>6, <1>12, <2>1, SignalledFacts
<1>14. InSlots \subseteq SocketIds /\ InOp \subseteq SocketIds /\ InStop \subseteq SocketIds
  BY OwnedIds DEF Inv
<1>15. \A m \in DOMAIN slots : slots[m].socket \in SocketIds /\ sockets'[slots[m].socket] = sockets[slots[m].socket]
  <2>1. \A m \in DOMAIN slots : slots[m].socket \in InSlots
    BY DEF InSlots
  <2>2. InSlots \cap First(queue) = {}
    BY <1>11 DEF Inv, ListenersInv, Owned
  <2> QED
    BY <1>13, <1>14, <2>1, <2>2
<1>16. ListenerTypes'
  BY SMTT(20), Zenon, <1>6, <1>7, <1>13 DEF Inv, ListenersInv, ListenerTypes
<1>17. Owned'
  <2>1. InSlots' \cap InOp' = {} /\ InSlots' \cap InStop' = {} /\ InOp' \cap InStop' = {}
    BY SMTT(20), Zenon, <1>9 DEF Inv, ListenersInv, Owned
  <2>2. \A j \in InSlots' \cup InOp' \cup InStop' :
           sockets'[j] # None /\ (sockets'[j].state = "running" <=> j \notin Signalling')
    BY SMTT(20), Zenon, <1>9, <1>10, <1>13, <1>14 DEF Inv, ListenersInv, Owned
  <2>3. \A j \in SocketIds :
           sockets'[j] # None /\ sockets'[j].state = "running" => j \in InSlots' \cup InOp' \cup InStop'
    BY <1>9, <1>13 DEF Inv, ListenersInv, Owned
  <2>4. \A m \in DOMAIN slots' : sockets'[slots'[m].socket].name = m
    BY <1>6, <1>15 DEF Inv, ListenersInv, Owned
  <2>5. Once(op'.queue) /\ (stopping' # None => Once(stopping'))
    BY SMTT(20), Zenon, <1>5, <1>6, <1>7 DEF Inv, ListenersInv, Owned
  <2> QED
    BY SMTT(20), Zenon, <2>1, <2>2, <2>3, <2>4, <2>5 DEF Owned
<1>18. Holdings' /\ Staging'
  BY <1>7 DEF Holdings, Staging
<1>19. ConfigInForce'
  BY <1>6, <1>15 DEF Inv, ListenersInv, ConfigInForce
<1>20. DrainsAccounted'
  <2>1. \A m : Replaced(m) = {} /\ Replaced(m)' = {}
    BY <1>7 DEF Replaced
  <2> QED
    BY <1>6, <2>1 DEF Inv, ListenersInv, DrainsAccounted
<1> QED
  BY <1>16, <1>17, <1>18, <1>19, <1>20 DEF ListenersInv

(* A listener does not start, or an update in place cannot be prepared.    *)
LEMMA FailedStartKeeps ==
    ASSUME Inv, StartFails \/ PrepareFails
    PROVE  ListenersInv'
<1>1. CASE StartFails
  <2>1. op \in Operation /\ op # None /\ op.at = "start" /\ op.start # <<>>
    BY <1>1 DEF StartFails, Inv, ListenersInv, ListenerTypes
  <2>2. op.start \in Seq(Names)
    BY <2>1 DEF Operation
  <2>3. Head(op.start) \in Names
    BY <2>1, <2>2, EmptySeq
  <2> QED
    BY <1>1, <2>1, <2>3, UndoKeeps DEF StartFails
<1>2. CASE PrepareFails
  BY <1>2, UndoKeeps DEF PrepareFails
<1> QED
  BY <1>1, <1>2

----------------------------------------------------------------------------
(* Shutdown                                                                *)

(* Every slot's listener is handed to the shutdown.                        *)
LEMMA StopKeeps ==
    ASSUME Inv, Stop
    PROVE  ListenersInv'
<1> DEFINE names == InOrder(DOMAIN slots)
           queue == [k \in DOMAIN names |-> [socket |-> slots[names[k]].socket, slot |-> None]]
<1>1. DOMAIN slots \in SUBSET Names /\ slots \in [DOMAIN slots -> Slot]
  BY DEF Inv, ListenersInv, ListenerTypes
<1>2. /\ names \in Seq(DOMAIN slots) /\ Range(names) = DOMAIN slots
      /\ \A i, j \in DOMAIN names : names[i] = names[j] => i = j
  BY SMTT(20), Zenon, <1>1, InOrderFacts
<1>3. /\ stopping = None /\ stopping' = queue /\ slots' = <<>> /\ sockets' = Signalled(sockets, First(queue))
      /\ UNCHANGED <<active, op, cut>>
  BY SMTT(20), Zenon DEF Stop, history
<1> HIDE DEF names
<1>4. queue \in Seq(Queued)
  <2>1. ASSUME NEW k \in DOMAIN names PROVE [socket |-> slots[names[k]].socket, slot |-> None] \in Queued
    <3>1. names[k] \in DOMAIN slots
      BY <1>2
    <3>2. slots[names[k]].socket \in SocketIds
      BY <1>1, <3>1 DEF Slot
    <3> QED
      BY <3>2 DEF Queued
  <2>2. DOMAIN names = 1..Len(names) /\ Len(names) \in Nat
    BY <1>2
  <2> QED
    BY <2>1, <2>2
<1>5. SocketsOf(queue) = InSlots
  BY <1>2 DEF SocketsOf, InSlots, Range
<1>6. \A m, n \in DOMAIN slots : slots[m].socket = slots[n].socket => m = n
  BY DEF Inv, ListenersInv, Owned
<1>7. Once(queue)
  <2> SUFFICES ASSUME NEW k \in DOMAIN names, NEW l \in DOMAIN names, slots[names[k]].socket = slots[names[l]].socket
               PROVE  k = l
    BY DEF Once
  <2>1. names[k] \in DOMAIN slots /\ names[l] \in DOMAIN slots
    BY <1>2
  <2> QED
    BY SMTT(20), Zenon, <1>2, <1>6, <2>1
<1> HIDE DEF queue
<1>8. DOMAIN slots' = {} /\ stopping' # None
  BY SMTT(20), Zenon, <1>3, <1>4, SupervisorAssumption DEF SupervisorAssumption
<1>9. InSlots' = {} /\ InStop' = InSlots /\ InOp' = InOp /\ InStop = {}
  BY <1>3, <1>5, <1>8 DEF InSlots, InStop, InOp
<1>10. Signalling' = Signalling \cup First(queue)
  BY <1>3, <1>8 DEF Signalling
<1>11. First(queue) \subseteq InSlots /\ InSlots \subseteq SocketIds /\ InOp \subseteq SocketIds
  BY <1>4, <1>5, EmptyQueue, OwnedIds DEF Inv
<1>12. sockets \in [SocketIds -> Listener \cup {None}]
  BY DEF Inv, ListenersInv, ListenerTypes
<1>13. sockets' \in [SocketIds -> Listener \cup {None}]
       /\ \A j \in SocketIds : /\ sockets'[j] = None <=> sockets[j] = None
                               /\ j \notin First(queue) => sockets'[j] = sockets[j]
                               /\ sockets[j] # None /\ j \in First(queue) => sockets'[j].state = "draining"
  <2> HIDE DEF SocketIds
  <2>1. Signalled(sockets, First(queue)) \in [SocketIds -> Listener \cup {None}]
    BY <1>12, SignalledFacts DEF Signalled
  <2> QED
    BY <1>3, <1>12, <2>1, SignalledFacts
<1>14. ListenerTypes'
  BY SMTT(20), Zenon, <1>3, <1>4, <1>8, <1>13 DEF Inv, ListenersInv, ListenerTypes
<1>15. Owned'
  <2>1. InSlots' \cap InOp' = {} /\ InSlots' \cap InStop' = {} /\ InOp' \cap InStop' = {}
    BY SMTT(20), Zenon, <1>9 DEF Inv, ListenersInv, Owned
  <2>2. \A j \in InSlots' \cup InOp' \cup InStop' :
           sockets'[j] # None /\ (sockets'[j].state = "running" <=> j \notin Signalling')
    BY SMTT(20), Zenon, <1>9, <1>10, <1>11, <1>13 DEF Inv, ListenersInv, Owned
  <2>3. \A j \in SocketIds :
           sockets'[j] # None /\ sockets'[j].state = "running" => j \in InSlots' \cup InOp' \cup InStop'
    <3> SUFFICES ASSUME NEW j \in SocketIds, sockets'[j] # None, sockets'[j].state = "running"
                 PROVE  j \in InSlots' \cup InOp' \cup InStop'
      OBVIOUS
    <3>1. sockets[j] # None /\ j \notin First(queue)
      BY <1>13
    <3>2. sockets[j].state = "running"
      BY <1>13, <3>1
    <3> QED
      BY SMTT(20), Zenon, <1>9, <3>1, <3>2 DEF Inv, ListenersInv, Owned
  <2>4. (op' # None => Once(op'.queue)) /\ Once(stopping')
    BY <1>3, <1>7 DEF Inv, ListenersInv, Owned
  <2> QED
    BY SMTT(20), Zenon, <1>8, <2>1, <2>2, <2>3, <2>4 DEF Owned
<1>16. Holdings'
  BY SMTT(20), Zenon, <1>3 DEF Inv, ListenersInv, Holdings
<1>17. Staging'
  <2> SUFFICES ASSUME op # None, op.at = "start"
               PROVE  Staging'
    BY Zenon, SMTT(20), <1>3 DEF Staging
  <2>1. \A j \in Range(op.started) : j \in SocketIds /\ j \notin First(queue) /\ sockets'[j] = sockets[j]
    <3>1. Range(op.started) \subseteq InOp
      BY SMTT(20), Zenon DEF InOp
    <3>2. InOp \cap First(queue) = {}
      BY <1>11 DEF Inv, ListenersInv, Owned
    <3> QED
      BY <1>11, <1>13, <3>1, <3>2
  <2>2. StartedNames' = StartedNames
    BY <1>3, <2>1 DEF StartedNames
  <2>3. \A j \in DOMAIN op.started : op.started[j] \in Range(op.started)
    BY DEF Range
  <2> DEFINE specs == ListenersOf[op.config]
  <2>4. /\ Range(op.start) \subseteq DOMAIN specs
        /\ \A j, k \in DOMAIN op.start : op.start[j] = op.start[k] => j = k
        /\ \A j, k \in DOMAIN op.started : sockets[op.started[j]].name = sockets[op.started[k]].name => j = k
        /\ \A j \in Range(op.started) : sockets[j].name \in DOMAIN specs /\ sockets[j].spec = specs[sockets[j].name]
        /\ Range(op.start) \cap StartedNames = {}
    BY Zenon, SMTT(20) DEF Inv, ListenersInv, Staging
  <2>5. \A j, k \in DOMAIN op.started : sockets'[op.started[j]].name = sockets'[op.started[k]].name => j = k
    BY Zenon, SMTT(20), <2>1, <2>3, <2>4
  <2>6. \A j \in Range(op.started) : sockets'[j].name \in DOMAIN specs /\ sockets'[j].spec = specs[sockets'[j].name]
    BY Zenon, SMTT(20), <2>1, <2>4
  <2> QED
    BY Zenon, SMTT(20), <1>3, <1>8, <2>2, <2>4, <2>5, <2>6 DEF Staging
<1>18. ConfigInForce' /\ DrainsAccounted'
  BY SMTT(20), Zenon, <1>8 DEF ConfigInForce, DrainsAccounted
<1> QED
  BY <1>14, <1>15, <1>16, <1>17, <1>18 DEF ListenersInv
=============================================================================

----------------------------- MODULE Supervisor -----------------------------
(***************************************************************************)
(* The supervisor of lb-dataplane serve (binaries/lb-dataplane/src/        *)
(* workspace_serve): reloads and warm restarts that replace and drain      *)
(* listeners, the admin requests that ask for them, the control-plane      *)
(* journal written next to the configuration file, and what a start        *)
(* recovers from it.                                                       *)
(*                                                                         *)
(* A task is the startup, the SIGHUP handler or an admin request; a        *)
(* request runs on the listener that accepted it.  A journal write is two  *)
(* steps, as in persist_control_plane_journal: the image is read, and      *)
(* later written and renamed.  The audit ring, outcome codes and texts are *)
(* left out.                                                               *)
(***************************************************************************)
EXTENDS Integers, FiniteSets, Sequences, Functions

CONSTANTS
    Names,        \* listener names, numbers in the order of the names
    Configs,      \* what the configuration file may hold
    FirstConfigs, \* what it may hold at first
    ListenersOf,  \* the compiled listeners of every configuration that compiles
    Clients,      \* admin connections open at the same time
    MaxListeners, \* listener sockets at the same time
    MaxEdits,     \* bound on edits of the configuration file
    MaxFaults,    \* bound on crashes, failed writes and starts, and stops
    None

Tasks == {"boot", "hup"} \cup Clients
SocketIds == 1..MaxListeners

Specs == UNION {{ListenersOf[c][n] : n \in DOMAIN ListenersOf[c]} : c \in DOMAIN ListenersOf}
MaybeConfig == DOMAIN ListenersOf \cup {None}
Healths == {"not_requested", "healthy", "failed"}
Images == [desired : MaybeConfig, applied : MaybeConfig, in_flight : MaybeConfig, health : Healths]
Queued == [socket : SocketIds, slot : Names \cup {None}]
Listener == [name : Names, spec : Specs, state : {"running", "draining"}]
Operation ==
    [by : Tasks, mode : {"reload", "restart"}, config : DOMAIN ListenersOf,
     at : {"prepare", "plan", "start", "undo", "drain", "finish", "finish_write"},
     start : Seq(Names), started : Seq(SocketIds), queue : Seq(Queued),
     failed : Names \cup {None}, ok : BOOLEAN]

\* A configuration that compiles names public and admin listeners; None is none
\* of the values an Option may hold.
ASSUME SupervisorAssumption ==
    /\ MaxListeners \in Nat
    /\ IsFiniteSet(Names) /\ Names \subseteq Nat
    /\ \A c \in DOMAIN ListenersOf : DOMAIN ListenersOf[c] \subseteq Names
    /\ \A spec \in Specs : spec.class \in {"public", "admin"}
    /\ None \notin Names /\ None \notin DOMAIN ListenersOf /\ None \notin Images /\ None \notin Listener
    /\ None \notin Operation /\ None \notin Seq(Queued)

VARIABLES
    file,      \* the configuration file
    disk,      \* the journal file
    process,   \* "down", "booting" or "up"
    journal,   \* ControlPlaneJournalRuntime
    health,    \* WorkspaceServeState.reload_health
    active,    \* ServeSupervisorInner.active_snapshot
    slots,     \* ServeSupervisorInner.listeners
    sockets,   \* the listener tasks that run
    op,        \* what the holder of reload_guard is doing
    task,      \* where every task is
    stopping,  \* listeners ServeSupervisor::shutdown has still to drain
    edits,
    faults,
    served,    \* history: the configurations that have been active
    cut        \* history: a reload left listeners it had yet to see drained

history == <<served, cut>>
bounds == <<edits, faults>>
listeners == <<active, slots, sockets>>
vars == <<file, disk, process, journal, health, listeners, op, task, stopping, bounds, history>>

Compiles(c) == c \in DOMAIN ListenersOf

\* An ephemeral port is configured as 0 and never equals a configured bind.
LocalAddr(spec) == IF spec.bind = 0 THEN -1 ELSE spec.bind

Identity(spec) == [class |-> spec.class, protocol |-> spec.protocol, bind |-> spec.bind]

matches_spec(current, spec) == Identity(current) = Identity(spec)

can_stage_replacement(current, spec) == spec.bind # LocalAddr(current)

Current(n) == sockets[slots[n].socket].spec

\* ApplyMode::force_replace_listener: a warm restart replaces public listeners.
ForceReplace(mode, current) == mode = "restart" /\ current.class = "public"

\* The names in order, as a BTreeMap gives them.
InOrder(S) == CHOOSE q \in [1..Cardinality(S) -> S] : \A i, j \in DOMAIN q : i < j => q[i] < q[j]

NewSlot(i) == [socket |-> i, draining |-> <<>>, timed_out |-> FALSE, failed_start |-> FALSE]

NewJournal == [desired |-> None, applied |-> None, in_flight |-> None, recovery |-> "none"]

\* The payload persist_control_plane_journal writes.
Image(j, h) ==
    [desired |-> j.desired, applied |-> j.applied, in_flight |-> j.in_flight, health |-> h]

IdleTask == [at |-> "idle", kind |-> None, on |-> 0, image |-> None]

Init ==
    /\ file \in FirstConfigs
    /\ disk = None
    /\ process = "down"
    /\ journal = NewJournal
    /\ health = "not_requested"
    /\ active = None
    /\ slots = <<>>
    /\ sockets = [i \in SocketIds |-> None]
    /\ op = None
    /\ task = [t \in Tasks |-> IdleTask]
    /\ stopping = None
    /\ edits = 0 /\ faults = 0
    /\ served = {} /\ cut = FALSE

-----------------------------------------------------------------------------
(* The process and its environment.                                        *)

\* Everything in memory goes with the process.
Exit ==
    /\ process' = "down"
    /\ journal' = NewJournal
    /\ health' = "not_requested"
    /\ active' = None
    /\ slots' = <<>>
    /\ sockets' = [i \in SocketIds |-> None]
    /\ op' = None
    /\ task' = [t \in Tasks |-> IdleTask]
    /\ stopping' = None
    /\ cut' = FALSE
    /\ UNCHANGED <<file, disk, edits, served>>

\* Something goes wrong, or not; what goes wrong is counted.
Fault(happens) == faults' = faults + (IF happens THEN 1 ELSE 0) /\ faults' <= MaxFaults

Crash == process # "down" /\ Fault(TRUE) /\ Exit

\* ServeSupervisor::start gave up.
Abandon == task["boot"].at = "failed" /\ Exit /\ UNCHANGED faults

Edit(c) ==
    /\ edits < MaxEdits
    /\ c # file
    /\ file' = c
    /\ edits' = edits + 1
    /\ UNCHANGED <<disk, process, journal, health, listeners, op, task, stopping, faults, history>>

\* restore_control_plane_journal, and the startup's own reload comes next.
Boot ==
    /\ process = "down"
    /\ LET interrupted == disk # None /\ disk.in_flight # None
       IN /\ journal' = IF disk = None THEN NewJournal
                        ELSE [desired |-> disk.desired, applied |-> disk.applied,
                              in_flight |-> disk.in_flight,
                              recovery |-> IF interrupted THEN "needs_operator_action"
                                           ELSE "restored"]
          /\ health' = IF disk = None THEN "not_requested"
                       ELSE IF interrupted THEN "failed" ELSE disk.health
          /\ disk' = IF interrupted THEN Image(journal', "failed") ELSE disk
    /\ process' = "booting"
    /\ task' = [task EXCEPT !["boot"] = [IdleTask EXCEPT !.at = "lock", !.kind = "reload"]]
    /\ UNCHANGED <<file, listeners, op, stopping, bounds, history>>

\* A request reaches an admin listener that accepts; a reload or restart is
\* audited before it begins, every request when it has been answered.
Arrive(c, i, kind) ==
    /\ task[c].at = "idle"
    /\ sockets[i] # None /\ sockets[i].state = "running" /\ sockets[i].spec.class = "admin"
    /\ task' = [task EXCEPT ![c] = [IdleTask EXCEPT !.at = IF kind = "other" THEN "report" ELSE "begin",
                                                    !.kind = kind, !.on = i]]
    /\ UNCHANGED <<file, disk, process, journal, health, listeners, op, stopping, bounds, history>>

Hangup ==
    /\ process = "up" /\ stopping = None /\ task["hup"].at = "idle"
    /\ task' = [task EXCEPT !["hup"] = [IdleTask EXCEPT !.at = "lock", !.kind = "reload"]]
    /\ UNCHANGED <<file, disk, process, journal, health, listeners, op, stopping, bounds, history>>

-----------------------------------------------------------------------------
(* record_admin_audit and reconcile_control_plane_recovery: read, write.   *)

ReadImage(t) ==
    /\ task[t].at \in {"begin", "report"}
    /\ task' = [task EXCEPT ![t].at = IF @ = "begin" THEN "begin_write" ELSE "report_write",
                            ![t].image = Image(journal, health)]
    /\ UNCHANGED <<file, disk, process, journal, health, listeners, op, stopping, bounds, history>>

\* fs::write or fs::rename may fail and then leave the journal file alone.
Written(image, ok) ==
    /\ disk' = IF ok THEN image ELSE disk
    /\ Fault(~ok)

\* A failed write is only logged, except by the startup.
WriteImage(t) ==
    /\ task[t].at \in {"begin_write", "report_write"}
    /\ \E ok \in BOOLEAN :
        /\ Written(task[t].image, ok)
        /\ process' = IF t = "boot" /\ ok THEN "up" ELSE process
        /\ task' = [task EXCEPT ![t] =
                      IF task[t].at = "begin_write" THEN [@ EXCEPT !.at = "lock", !.image = None]
                      ELSE IF t = "boot" /\ ~ok THEN [@ EXCEPT !.at = "failed", !.image = None]
                      ELSE IdleTask]
    /\ UNCHANGED <<file, journal, health, listeners, op, stopping, edits, history>>

-----------------------------------------------------------------------------
(* reload_with_recovery_resolution and warm_restart.                       *)

\* Mutant of Return: a reload that fails is tried again.
ReturnRetries(t, ok) ==
    [task EXCEPT ![t] = IF ~ok THEN [@ EXCEPT !.at = "lock", !.image = None]
                        ELSE IF t = "hup" THEN IdleTask
                        ELSE [@ EXCEPT !.at = "report", !.image = None]]

\* What the task does with the result: a request reports it, the startup goes
\* on or gives up.
Return(t, ok) ==
    [task EXCEPT ![t] = IF t = "hup" THEN IdleTask
                        ELSE [@ EXCEPT !.at = IF t = "boot" /\ ~ok THEN "failed" ELSE "report",
                                       !.image = None]]

\* reload_guard is taken and the file compiled.  A reload is then entered in
\* the journal, prepare_reload_persistence; a warm restart is not.
Acquire(t) ==
    /\ task[t].at = "lock" /\ op = None
    /\ IF ~Compiles(file)
       THEN task' = Return(t, FALSE) /\ UNCHANGED <<journal, op>>
       ELSE /\ journal' = IF task[t].kind = "restart" THEN journal
                          ELSE [journal EXCEPT !.desired = file, !.in_flight = file]
            /\ op' = [by |-> t, mode |-> task[t].kind, config |-> file,
                      at |-> IF task[t].kind = "restart" THEN "plan" ELSE "prepare",
                      start |-> <<>>, started |-> <<>>, queue |-> <<>>, failed |-> None, ok |-> TRUE]
            /\ task' = [task EXCEPT ![t].at = "apply",
                                    ![t].image = IF task[t].kind = "restart" THEN None
                                                 ELSE Image(journal', health)]
    /\ UNCHANGED <<file, disk, process, health, listeners, stopping, bounds, history>>

WritePrepare ==
    /\ op # None /\ op.at = "prepare"
    /\ \E ok \in BOOLEAN :
        /\ Written(task[op.by].image, ok)
        /\ op' = IF ok THEN [op EXCEPT !.at = "plan"] ELSE None
        /\ task' = IF ok THEN [task EXCEPT ![op.by].image = None] ELSE Return(op.by, FALSE)
    /\ UNCHANGED <<file, process, journal, health, listeners, stopping, edits, history>>

\* The start of apply_compiled_runtime_with_mode: which listeners to start.
Staged(n, spec) ==
    \/ n \notin DOMAIN slots
    \/ ForceReplace(op.mode, Current(n))
    \/ ~matches_spec(Current(n), spec)

Blocked(n, spec) ==
    n \in DOMAIN slots /\ Staged(n, spec) /\ ~can_stage_replacement(Current(n), spec)

Plan ==
    /\ op # None /\ op.at = "plan"
    /\ LET specs == ListenersOf[op.config]
       IN op' = IF \E n \in DOMAIN specs : Blocked(n, specs[n])
                THEN [op EXCEPT !.at = "finish", !.ok = FALSE]
                ELSE [op EXCEPT !.at = "start",
                                !.start = InOrder({n \in DOMAIN specs : Staged(n, specs[n])})]
    /\ UNCHANGED <<file, disk, process, journal, health, listeners, task, stopping, bounds, history>>

\* The operating system binds an address once; a draining listener keeps its own.
Bindable(spec) ==
    spec.bind = 0 \/ \A i \in SocketIds : sockets[i] # None => LocalAddr(sockets[i].spec) # spec.bind

StartNext ==
    /\ op # None /\ op.at = "start" /\ op.start # <<>>
    /\ LET n == Head(op.start)
           spec == ListenersOf[op.config][n]
           free == {i \in SocketIds : sockets[i] = None}
           i == CHOOSE i \in free : \A j \in free : i <= j
       IN /\ free # {} /\ Bindable(spec)
          /\ sockets' = [sockets EXCEPT ![i] = [name |-> n, spec |-> spec, state |-> "running"]]
          /\ op' = [op EXCEPT !.start = Tail(@), !.started = Append(@, i)]
    /\ UNCHANGED <<file, disk, process, journal, health, active, slots, task, stopping, bounds, history>>

\* ManagedServeListener::shutdown signals the listener and then waits for it;
\* a listener that is dropped is signalled too, and nobody waits.
Signalled(S, ids) ==
    [i \in SocketIds |-> IF i \in ids /\ S[i] # None THEN [S[i] EXCEPT !.state = "draining"] ELSE S[i]]

First(queue) == IF queue = <<>> THEN {} ELSE {Head(queue).socket}

UndoForgotten(failed) ==
    /\ op' = [op EXCEPT !.at = "undo", !.ok = FALSE, !.failed = failed, !.started = <<>>, !.start = <<>>]
    /\ UNCHANGED <<file, disk, process, journal, health, listeners, task, stopping, edits, history>>

\* The listeners started so far are shut down again, one after the other.
Undo(failed) ==
    LET queue == [k \in DOMAIN op.started |-> [socket |-> op.started[k], slot |-> None]]
    IN /\ op' = [op EXCEPT !.at = "undo", !.ok = FALSE, !.failed = failed,
                           !.started = <<>>, !.start = <<>>, !.queue = queue]
       /\ sockets' = Signalled(sockets, First(queue))
       /\ UNCHANGED <<file, disk, process, journal, health, active, slots, task, stopping, edits, history>>

\* The address is taken, or something else keeps the listener from starting.
StartFails ==
    /\ op # None /\ op.at = "start" /\ op.start # <<>>
    /\ Fault(Bindable(ListenersOf[op.config][Head(op.start)]))
    /\ Undo(Head(op.start))

\* The listeners that take their new policies where they are.
InPlace ==
    {n \in DOMAIN ListenersOf[op.config] \cap DOMAIN slots :
        /\ op.mode = "reload" \/ Current(n).class = "admin"
        /\ matches_spec(Current(n), ListenersOf[op.config][n])}

\* build_listener_overload_runtime failed for one of them.
PrepareFails ==
    /\ op # None /\ op.at = "start" /\ op.start = <<>> /\ InPlace # {}
    /\ Fault(TRUE)
    /\ Undo(None)

StartedFor(n) == {i \in Range(op.started) : sockets[i].name = n}

\* apply_in_place, ManagedListenerSlot::new and activate_replacement.
SlotAfter(n) ==
    IF n \notin DOMAIN slots THEN NewSlot(CHOOSE i \in StartedFor(n) : TRUE)
    ELSE IF StartedFor(n) # {}
         THEN [slots[n] EXCEPT !.socket = CHOOSE i \in StartedFor(n) : TRUE,
                               !.draining = Append(@, Identity(Current(n))),
                               !.failed_start = FALSE]
         ELSE [slots[n] EXCEPT !.failed_start = IF n \in InPlace THEN FALSE ELSE @]

\* apply_update: a running HTTP/3 loop has a proxy configuration of its own, which
\* the update does not reach.  The drain timeout, which no running loop takes over,
\* is not part of a spec.
Updated(old, new) == IF old.protocol = "http3" THEN old ELSE new

\* Under the inner lock: update in place, remove, activate; then the first of
\* the retired listeners is signalled.
Swap ==
    /\ op # None /\ op.at = "start" /\ op.start = <<>>
    /\ LET specs == ListenersOf[op.config]
           updated == {slots[n].socket : n \in InPlace}
           removed == InOrder(DOMAIN slots \ DOMAIN specs)
           replaced == InOrder({n \in DOMAIN slots : StartedFor(n) # {}})
           queue == [k \in DOMAIN removed |-> [socket |-> slots[removed[k]].socket, slot |-> None]]
                    \o [k \in DOMAIN replaced |->
                          [socket |-> slots[replaced[k]].socket, slot |-> replaced[k]]]
       IN /\ sockets' = Signalled([i \in SocketIds |->
                                      IF i \in updated
                                      THEN [sockets[i] EXCEPT !.spec = Updated(@, specs[sockets[i].name])]
                                      ELSE sockets[i]], First(queue))
          /\ slots' = [n \in (DOMAIN slots \cap DOMAIN specs)
                             \cup {sockets[i].name : i \in Range(op.started)} |-> SlotAfter(n)]
          /\ op' = [op EXCEPT !.at = "drain", !.started = <<>>, !.queue = queue]
    /\ active' = op.config
    /\ served' = served \cup {op.config}
    /\ UNCHANGED <<file, disk, process, journal, health, task, stopping, bounds, cut>>

-----------------------------------------------------------------------------
(* Draining.                                                               *)

\* The list without the first entry that equals e.
RemoveFirst(s, e) ==
    IF \A i \in DOMAIN s : s[i] # e THEN s
    ELSE LET k == CHOOSE k \in DOMAIN s : s[k] = e /\ \A j \in DOMAIN s : s[j] = e => k <= j
         IN  SubSeq(s, 1, k - 1) \o SubSeq(s, k + 1, Len(s))

\* finish_draining, if the slot is still there.
Retire(entry, timed_out) ==
    IF op.at # "drain" \/ entry.slot \notin DOMAIN slots THEN slots
    ELSE [slots EXCEPT ![entry.slot].draining = RemoveFirst(@, Identity(sockets[entry.socket].spec)),
                       ![entry.slot].timed_out = @ \/ timed_out]

\* Whether drain_timeout cuts the drain short; requests are the connections of
\* an admin listener, those of a public one are not modelled.
DrainTimesOut(i, on) == IF sockets[i].spec.class = "admin" THEN {on # {}} ELSE BOOLEAN

\* The listener's loop ends: its connections are done or drain_timeout has
\* passed, and those that remain are aborted.  A request among them takes the
\* reload it runs, and the listeners that one owns, with it.
Drained(i) ==
    /\ sockets[i] # None /\ sockets[i].state = "draining"
    /\ LET on == {t \in Tasks : task[t].at # "idle" /\ task[t].on = i}
           cut_off == op # None /\ op.by \in on
           op_waits == op # None /\ ~cut_off /\ i \in First(op.queue)
           stop_waits == stopping # None /\ i \in First(stopping)
           next == (IF op_waits THEN First(Tail(op.queue)) ELSE {})
                   \cup (IF stop_waits THEN First(Tail(stopping)) ELSE {})
                   \cup (IF cut_off THEN Range(op.started) \cup {e.socket : e \in Range(op.queue)}
                         ELSE {})
       IN \E timed_out \in DrainTimesOut(i, on) :
            /\ sockets' = [Signalled(sockets, next) EXCEPT ![i] = None]
            /\ slots' = IF op_waits THEN Retire(Head(op.queue), timed_out) ELSE slots
            /\ op' = IF cut_off THEN None
                     ELSE IF op_waits THEN [op EXCEPT !.queue = Tail(@)] ELSE op
            /\ stopping' = IF stop_waits THEN Tail(stopping) ELSE stopping
            /\ task' = [t \in Tasks |-> IF t \in on THEN IdleTask ELSE task[t]]
            /\ cut' = (cut \/ cut_off)
    /\ UNCHANGED <<file, disk, process, journal, health, active, bounds, served>>

\* The loop of a listener that a reload replaced or removed, or its probe task, has
\* failed: the reload returns the error, although its configuration is in force, and
\* drops the listeners it has not shut down yet.  While starts are undone the error
\* is ignored; in ServeSupervisor::shutdown it ends the process, as a crash does.
DrainFails(i) ==
    /\ op # None /\ op.at = "drain" /\ i \in First(op.queue)
    /\ sockets[i] # None /\ sockets[i].state = "draining" /\ Fault(TRUE)
    /\ LET on == {t \in Tasks : task[t].at # "idle" /\ task[t].on = i}
       IN /\ op.by \notin on
          /\ sockets' = [Signalled(sockets, {e.socket : e \in Range(Tail(op.queue))}) EXCEPT ![i] = None]
          /\ task' = [t \in Tasks |-> IF t \in on THEN IdleTask ELSE task[t]]
    /\ op' = [op EXCEPT !.at = "finish", !.ok = FALSE, !.queue = <<>>]
    /\ cut' = TRUE
    /\ UNCHANGED <<file, disk, process, journal, health, active, slots, stopping, edits, served>>

\* record_failed_start, then the error is returned.
EndUndo ==
    /\ op # None /\ op.at = "undo" /\ op.queue = <<>>
    /\ slots' = IF op.failed \in DOMAIN slots THEN [slots EXCEPT ![op.failed].failed_start = TRUE]
                ELSE slots
    /\ op' = [op EXCEPT !.at = "finish"]
    /\ UNCHANGED <<file, disk, process, journal, health, active, sockets, task, stopping, bounds, history>>

-----------------------------------------------------------------------------
(* finish_reload_persistence.                                              *)

\* Mutant of Finished: the configuration is taken as applied in any case.
FinishedAlways(j) == [j EXCEPT !.applied = op.config, !.in_flight = None]

\* The journal after a reload, applied or failed; the startup's own reload leaves
\* the recovery open.
Finished(j) ==
    [j EXCEPT !.applied = IF op.ok THEN op.config ELSE @,
              !.in_flight = None,
              !.recovery = IF op.by # "boot" /\ @ = "needs_operator_action" THEN "resolved" ELSE @]

Finish ==
    /\ op # None
    /\ op.at = "finish" \/ (op.at = "drain" /\ op.queue = <<>>)
    /\ IF op.mode = "restart"
       THEN /\ op' = None
            /\ task' = Return(op.by, op.ok)
            /\ UNCHANGED <<journal, health>>
       ELSE /\ health' = IF op.ok THEN "healthy" ELSE "failed"
            /\ journal' = Finished(journal)
            /\ op' = [op EXCEPT !.at = "finish_write"]
            /\ task' = [task EXCEPT ![op.by].image = Image(journal', health')]
    /\ UNCHANGED <<file, disk, process, listeners, stopping, bounds, history>>

WriteFinish ==
    /\ op # None /\ op.at = "finish_write"
    /\ \E ok \in BOOLEAN :
        /\ Written(task[op.by].image, ok)
        /\ task' = Return(op.by, op.ok /\ ok)
    /\ op' = None
    /\ UNCHANGED <<file, process, journal, health, listeners, stopping, edits, history>>

-----------------------------------------------------------------------------
(* ServeSupervisor::shutdown, after Ctrl-C; it does not take reload_guard. *)

Stop ==
    /\ process = "up" /\ stopping = None /\ task["hup"].at = "idle" /\ Fault(TRUE)
    /\ LET names == InOrder(DOMAIN slots)
       IN stopping' = [k \in DOMAIN names |-> [socket |-> slots[names[k]].socket, slot |-> None]]
    /\ slots' = <<>>
    /\ sockets' = Signalled(sockets, First(stopping'))
    /\ UNCHANGED <<file, disk, process, journal, health, active, op, task, edits, history>>

EndStop == stopping = <<>> /\ Exit /\ UNCHANGED faults

-----------------------------------------------------------------------------
Next ==
    \/ Boot \/ Crash \/ Abandon \/ Hangup \/ Stop \/ EndStop
    \/ \E c \in Configs : Edit(c)
    \/ \E c \in Clients, i \in SocketIds, kind \in {"reload", "restart", "other"} : Arrive(c, i, kind)
    \/ \E t \in Tasks : ReadImage(t) \/ WriteImage(t) \/ Acquire(t)
    \/ WritePrepare \/ Plan \/ StartNext \/ StartFails \/ PrepareFails \/ Swap
    \/ \E i \in SocketIds : Drained(i) \/ DrainFails(i)
    \/ EndUndo \/ Finish \/ WriteFinish

Spec == Init /\ [][Next]_vars

\* A task goes on when it can, and reload_guard serves its waiters in turn.
TaskStep(t) == ReadImage(t) \/ WriteImage(t) \/ Acquire(t) \/ (t = "boot" /\ Abandon)

\* The holder of reload_guard goes on, and drain_timeout bounds every drain.
OpStep ==
    \/ WritePrepare \/ Plan \/ StartNext \/ StartFails \/ PrepareFails \/ Swap
    \/ \E i \in SocketIds : Drained(i) \/ DrainFails(i)
    \/ EndUndo \/ Finish \/ WriteFinish

FairSpec == Spec /\ WF_vars(OpStep) /\ \A t \in Tasks : SF_vars(TaskStep(t))

-----------------------------------------------------------------------------
(* Properties.                                                             *)

\* The supervisor's state has the shape its structs give it; every queue
\* entry, slot and started listener names a socket that exists.
TypeOK ==
    /\ file \in Configs
    /\ disk \in Images \cup {None}
    /\ process \in {"down", "booting", "up"}
    /\ journal \in [desired : MaybeConfig, applied : MaybeConfig, in_flight : MaybeConfig,
                    recovery : {"none", "restored", "needs_operator_action", "resolved"}]
    /\ health \in Healths
    /\ active \in MaybeConfig
    /\ DOMAIN slots \subseteq Names
    /\ \A n \in DOMAIN slots : slots[n].socket \in SocketIds
    /\ \A i \in SocketIds : sockets[i] # None => sockets[i] \in Listener
    /\ op # None =>
          /\ op \in Operation /\ task[op.by].at = "apply"
          /\ \A i \in Range(op.started) \cup {e.socket : e \in Range(op.queue)} : sockets[i] # None
    /\ \A t \in Tasks :
          /\ task[t].at \in {"idle", "begin", "begin_write", "lock", "apply", "report",
                             "report_write", "failed"}
          /\ task[t].on \in SocketIds \cup {0}
          /\ task[t].image \in Images \cup {None}
    /\ stopping # None => stopping \in Seq(Queued)

\* A listener of that name accepts, as the spec says.
InForce(s, n, spec) ==
    /\ s # None /\ s.name = n /\ s.state = "running"
    /\ Identity(s.spec) = Identity(spec)
    /\ spec.protocol # "http3" => s.spec = spec

\* apply_compiled_runtime_with_mode is all or nothing and leaves no gap: from
\* the first reload on, through replacements, failed starts, failed updates
\* and drains, exactly the listeners of the active snapshot have a slot, and
\* each is accepting where that snapshot says and, except for an HTTP/3
\* listener, with that snapshot's settings.
ConfigInForce ==
    active # None /\ stopping = None =>
        /\ DOMAIN slots = DOMAIN ListenersOf[active]
        /\ \A n \in DOMAIN slots : InForce(sockets[slots[n].socket], n, ListenersOf[active][n])

\* No listener is leaked: one that still accepts is a slot's, was just started
\* by the operation in progress, or waits its turn to be shut down ("the
\* freshly started replacements are shut down instead of leaking").
NoListenerLeaked ==
    \A i \in SocketIds : sockets[i] # None /\ sockets[i].state = "running" =>
        \/ \E n \in DOMAIN slots : slots[n].socket = i
        \/ op # None /\ (i \in Range(op.started) \/ \E e \in Range(op.queue) : e.socket = i)
        \/ stopping # None /\ \E e \in Range(stopping) : e.socket = i

\* The listeners replaced in slot n that the operation in progress has still to
\* see drained.
Replaced(n) ==
    IF op = None \/ op.at # "drain" THEN {}
    ELSE {op.queue[k].socket : k \in {k \in DOMAIN op.queue : op.queue[k].slot = n}}

\* The draining identities a slot reports are the listeners the operation in
\* progress has replaced and not yet seen drained, so none remain once a
\* reload or warm restart is over that was neither cut off nor failed by a drain.
DrainsAccounted ==
    ~cut => \A n \in DOMAIN slots :
        /\ Replaced(n) = {} => slots[n].draining = <<>>
        /\ \A i \in Replaced(n) : slots[n].draining = <<Identity(sockets[i].spec)>>

\* The journal, in memory and on disk, never names as applied a configuration
\* that never served, whatever fails or crashes in between.
AppliedWasServed ==
    /\ journal.applied \in served \cup {None}
    /\ disk # None => disk.applied \in served \cup {None}

\* Every request, reload and startup ends: no reload waits for ever for a
\* drain, a journal write or reload_guard, not even for the drain of the
\* listener its own request came in on.
EveryTaskEnds == \A t \in Tasks : task[t].at # "idle" ~> task[t].at = "idle"

\* A reload that has put its configuration in force is finished, also when a
\* drain times out: while nobody holds reload_guard no reload is in flight.
\* TLC refutes it: a reload dropped with its own admin listener never finishes
\* (supervisor.rs:879).
ReloadFinished == process = "up" /\ op = None => journal.in_flight = None

\* The recovery is resolved by a reload that succeeds.  TLC refutes it: one that
\* fails resolves it too (supervisor.rs:561).
ResolvedBySuccess ==
    [][journal.recovery = "needs_operator_action" /\ journal'.recovery = "resolved"
         => health' = "healthy"]_vars

\* While a reload changes listeners the journal file names it, so that the
\* next start notices if the process goes away.  TLC refutes it: an older image
\* of the journal may be written last (state.rs:548).
MarkedWhileApplying ==
    op # None /\ op.mode = "reload" /\ op.at \in {"plan", "start", "undo", "drain", "finish"}
        => disk # None /\ disk.in_flight = op.config

\* Reloads, warm restarts, failed starts and drains that fail or are cut off keep the
\* listeners accounted for: those of the active snapshot serve, none is leaked and
\* the draining ones are those still to be drained.
ListenersAccounted == ConfigInForce /\ NoListenerLeaked /\ DrainsAccounted
=============================================================================

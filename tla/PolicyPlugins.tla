--------------------------- MODULE PolicyPlugins ---------------------------
(***************************************************************************)
(* The extension surface of the runtime (crates/runtime/src/               *)
(* extension_surface.rs): the life cycle of registered extensions, and the *)
(* registry of policy plugins, which runs a plugin on a thread of its own, *)
(* waits for it for a bounded time, and isolates one that keeps failing.   *)
(* Time is counted in ticks.  The binaries do not use either registry yet. *)
(***************************************************************************)
EXTENDS Integers, FiniteSets, FiniteSetsExt

CONSTANTS
    PluginNames,
    MaxConsecutiveFailures,     \* PolicyPluginIsolationPolicy
    IsolationCooldown

ASSUME PluginsAssumption == MaxConsecutiveFailures \in Nat /\ IsolationCooldown \in Nat

VARIABLES
    ticks,          \* Instant::now()
    extensions,     \* ExtensionRegistry: name -> lifecycle state
    plugins,        \* PolicyPluginRegistry: name -> RegisteredPolicyPlugin
    workers,        \* plugin threads nobody waits for any more
    verdict,        \* the outcome of the last evaluation
    failing,        \* failures of each plugin since it last answered or was isolated (history)
    tripped         \* when each plugin last reached the failures allowed, or 0 (history)

pluginVars == <<ticks, extensions, plugins, workers, verdict, failing, tripped>>

NoVerdict == [name |-> "none", ran |-> FALSE, decision |-> "none", said |-> "none", at |-> 0, tripped |-> 0]

PluginsInit ==
    /\ ticks = 1 /\ extensions = <<>> /\ plugins = <<>> /\ workers = 0 /\ verdict = NoVerdict
    /\ failing = [n \in PluginNames |-> 0] /\ tripped = [n \in PluginNames |-> 0]

Supports(api_version) == api_version = "v1"

With(f, name, value) == [n \in DOMAIN f \cup {name} |-> IF n = name THEN value ELSE f[n]]

----------------------------------------------------------------------------
(* Extensions.                                                             *)
RegisterExtension(name, api_version) ==
    /\ name \notin DOMAIN extensions /\ Supports(api_version)
    /\ extensions' = With(extensions, name, "registered")
    /\ UNCHANGED <<ticks, plugins, workers, verdict, failing, tripped>>

Transitions ==
    [activate |-> [from |-> {"registered", "stopped"}, to |-> "active"],
     begin_drain |-> [from |-> {"active"}, to |-> "draining"],
     stop |-> [from |-> {"registered", "active", "draining"}, to |-> "stopped"],
     fail |-> [from |-> {"registered", "active", "draining", "stopped", "failed"}, to |-> "failed"]]

MoveExtension(name, call) ==
    /\ name \in DOMAIN extensions /\ extensions[name] \in Transitions[call].from
    /\ extensions' = [extensions EXCEPT ![name] = Transitions[call].to]
    /\ UNCHANGED <<ticks, plugins, workers, verdict, failing, tripped>>

----------------------------------------------------------------------------
(* Policy plugins.                                                         *)
RegisterPlugin(name, api_version, required, fallback) ==
    /\ name \notin DOMAIN plugins /\ Supports(api_version)
    /\ plugins' = With(plugins, name,
           [required |-> required, fallback |-> fallback, disabled |-> FALSE,
            consecutive_failures |-> 0, isolated_until |-> 0])
    /\ UNCHANGED <<ticks, extensions, workers, verdict, failing, tripped>>

set_disabled(name, disabled) ==
    /\ name \in DOMAIN plugins
    /\ plugins' = [plugins EXCEPT ![name].disabled = disabled]
    /\ UNCHANGED <<ticks, extensions, workers, verdict, failing, tripped>>

Isolated(entry) == ticks < entry.isolated_until

MutantTolerant(entry) ==
    LET failures == entry.consecutive_failures + 1
    IN  IF failures > MaxConsecutiveFailures
        THEN [entry EXCEPT !.consecutive_failures = 0, !.isolated_until = ticks + IsolationCooldown]
        ELSE [entry EXCEPT !.consecutive_failures = failures]

record_plugin_failure(entry) ==
    LET failures == entry.consecutive_failures + 1
    IN  IF failures >= Max({MaxConsecutiveFailures, 1})
        THEN [entry EXCEPT !.consecutive_failures = 0,
                           !.isolated_until = ticks + Max({IsolationCooldown, 1})]
        ELSE [entry EXCEPT !.consecutive_failures = failures]

Verdict(name, ran, decision, said) ==
    verdict' = [name |-> name, ran |-> ran, decision |-> decision, said |-> said, at |-> ticks,
                tripped |-> tripped[name]]

(* A plugin that is not run: a required one is an error, an optional one   *)
(* has its fallback decision.                                              *)
NotRun(entry) == IF entry.required THEN "error" ELSE entry.fallback

EvaluateIdle(name) ==
    /\ name \in DOMAIN plugins
    /\ Isolated(plugins[name]) \/ plugins[name].disabled
    /\ Verdict(name, FALSE, NotRun(plugins[name]), "none")
    /\ UNCHANGED <<ticks, extensions, plugins, workers, failing, tripped>>

(* evaluate: the plugin answers in time.                                   *)
EvaluateAnswered(name, decision) ==
    /\ name \in DOMAIN plugins /\ ~Isolated(plugins[name]) /\ ~plugins[name].disabled
    /\ plugins' = [plugins EXCEPT ![name].consecutive_failures = 0, ![name].isolated_until = 0]
    /\ Verdict(name, TRUE, decision, decision)
    /\ failing' = [failing EXCEPT ![name] = 0]
    /\ UNCHANGED <<ticks, extensions, workers, tripped>>

(* evaluate: the plugin fails, panics or is not done in time; in the last  *)
(* case its thread runs on and what it answers is dropped.                 *)
EvaluateFailed(name, how) ==
    /\ name \in DOMAIN plugins /\ ~Isolated(plugins[name]) /\ ~plugins[name].disabled
    /\ plugins' = [plugins EXCEPT ![name] = record_plugin_failure(@)]
    /\ workers' = IF how = "timed_out" THEN workers + 1 ELSE workers
    /\ Verdict(name, TRUE, "error", how)
    /\ IF failing[name] + 1 = Max({MaxConsecutiveFailures, 1})
       THEN failing' = [failing EXCEPT ![name] = 0] /\ tripped' = [tripped EXCEPT ![name] = ticks]
       ELSE failing' = [failing EXCEPT ![name] = @ + 1] /\ UNCHANGED tripped
    /\ UNCHANGED <<ticks, extensions>>

WorkerEnds ==
    /\ workers > 0 /\ workers' = workers - 1
    /\ UNCHANGED <<ticks, extensions, plugins, verdict, failing, tripped>>

PluginTick ==
    /\ ticks' = ticks + 1 /\ verdict' = NoVerdict
    /\ UNCHANGED <<extensions, plugins, workers, failing, tripped>>

ExtensionCall(name) ==
    \/ \E api_version \in {"v1", "v2"} : RegisterExtension(name, api_version)
    \/ \E call \in DOMAIN Transitions : MoveExtension(name, call)

Registration(name) ==
    \E api_version \in {"v1", "v2"}, required \in BOOLEAN, fallback \in {"allow", "deny"} :
        RegisterPlugin(name, api_version, required, fallback)

Switch(name) == \E disabled \in BOOLEAN : set_disabled(name, disabled)

Evaluation(name) ==
    \/ EvaluateIdle(name)
    \/ \E decision \in {"allow", "deny"} : EvaluateAnswered(name, decision)
    \/ \E how \in {"failed", "timed_out"} : EvaluateFailed(name, how)

PluginsNext ==
    \/ \E name \in PluginNames :
           ExtensionCall(name) \/ Registration(name) \/ Switch(name) \/ Evaluation(name)
    \/ WorkerEnds
    \/ PluginTick

PluginsSpec == PluginsInit /\ [][PluginsNext]_pluginVars

----------------------------------------------------------------------------
PluginsTypeOK ==
    /\ ticks \in Nat /\ workers \in Nat
    /\ \A n \in DOMAIN extensions :
           extensions[n] \in {"registered", "active", "draining", "stopped", "failed"}
    /\ \A n \in DOMAIN plugins : plugins[n].consecutive_failures < Max({MaxConsecutiveFailures, 1})

(* A plugin that failed as often in a row as is allowed is not run again   *)
(* before its cool-down is over, whatever is enabled, disabled or          *)
(* evaluated in between (docs/configuration.md:466, "repeated plugin       *)
(* execution failures trigger temporary isolation").                       *)
IsolationServed ==
    verdict.ran /\ verdict.tripped > 0 => verdict.at >= verdict.tripped + IsolationCooldown

(* A required plugin never lets a request pass without having been asked:  *)
(* whatever is disabled, isolated or late, its decision is its own answer  *)
(* (docs/configuration.md:464, "required plugins fail closed when          *)
(* disabled", and 467).                                                    *)
RequiredFailsClosed ==
    verdict.name # "none" /\ plugins[verdict.name].required /\ verdict.decision # "error" =>
        verdict.said = verdict.decision

(* An extension that failed is never brought back by the calls that start  *)
(* and stop extensions.                                                    *)
FailedIsFinal ==
    [][\A n \in DOMAIN extensions : extensions[n] = "failed" => extensions'[n] = "failed"]_pluginVars

(* An isolated plugin rests for its cool-down, and a required one that     *)
(* cannot run lets nothing through.                                        *)
PluginsSound == [](PluginsTypeOK /\ IsolationServed /\ RequiredFailsClosed) /\ FailedIsFinal
=============================================================================

------------------------------- MODULE Daemon -------------------------------
(***************************************************************************)
(* daemon() and daemon_guard (src/src/main.rs) over several interfaces,   *)
(* each with its own IfContext.  Module Orchestrator details one context's *)
(* reconfigure against the kernel maps and the data plane; here a          *)
(* reconfigure is one step that either installs the configuration of the  *)
(* queried addresses or fails (RuntimeConfig implements AtomicReconcile   *)
(* when no map operation fails), and the state is the part that spans     *)
(* contexts:                                                               *)
(*   - startup resolves and queries every interface and builds its       *)
(*     InstanceConfig (`?`: one bad interface stops the daemon before     *)
(*     anything is loaded), then awaits the load tasks in the order of    *)
(*     the inst_configs HashMap (`??`), then attaches the contexts in the *)
(*     `contexts` HashMap's order, each followed by its hairpin set-up,   *)
(*     whose rule-priority check can fail after attach;                   *)
(*   - one monitor loop serves every interface's events, and runs only if *)
(*     some Instance is not static;                                        *)
(*   - daemon_guard calls IfContext::detach on every context: the hooks    *)
(*     (egress, then ingress, stopping at the first error), then the      *)
(*     hairpin routing, each result only logged.                          *)
(* Address sets are model values: which addresses they are is the business *)
(* of module ConfigBuilder.                                                *)
(***************************************************************************)
EXTENDS Integers, Sequences, FiniteSets

CONSTANTS
    Ifs,             \* configured interfaces
    IfOrder,         \* Ifs in the inst_configs HashMap's iteration order
    OtherIf,         \* an interface the daemon does not manage
    AddrSets,        \* the address sets an interface may have
    InitAddrs,       \* each interface's addresses when they are queried at startup
    MaxAddrChanges,  \* bound on address changes by the environment
    MaxFailures,     \* bound on failed queries, loads, attaches, map writes, detaches
    IfConfigs,       \* the ConfigNetIf records an interface may have
    Ipv6Feature,     \* cfg!(feature = "ipv6")
    ConfigError,     \* model value: InstanceConfig::try_from returned Err
    None,            \* model value: an Option that is None
    RodataDefault    \* model value: a rodata slot's compiled-in value

IC == INSTANCE InstanceConfig

Hooks == {"ingress", "egress"}
HairpinSetups == {"off", "on", "badPref"}   \* disabled, enabled, priority >= local

VARIABLES
    ifCfg,        \* each interface's ConfigNetIf
    rodata,       \* each interface's eBPF object read-only data
    matcher,      \* interfaces whose InstanceConfig is not static
    hairpinCfg,   \* each interface's ipv4_hairpin_route setting
    phase,        \* "configuring", "loading", "attaching", "running", "exiting", "exited", "killed"
    contexts,     \* interfaces inserted into `contexts`
    attached,     \* contexts the attach loop has handled
    inKernel,     \* hooks attached (held by the Instance until daemon_guard)
    routing,      \* v4_hairpin_routing is Some
    rules,        \* hairpin rules and routes present in the host
    cleaned,      \* contexts daemon_guard has detached
    hookErr,      \* contexts whose Instance::detach failed
    routeErr,     \* contexts whose hairpin deconfigure failed
    ifAddrs,      \* each interface's addresses, as the kernel has them
    known,        \* ctx.addresses.ipv4
    kernelAddrs,  \* the addresses the context's eBPF maps were built from
    events,       \* the route monitor's event stream (interface indexes)
    changes,      \* address changes so far
    cur,          \* interface of the event being handled
    mpc,          \* monitor loop: "wait", "query", "hairpin"
    failures      \* failures injected so far

cfgVars == <<ifCfg, rodata, matcher, hairpinCfg>>
hookVars == <<inKernel, routing, rules>>
exitVars == <<cleaned, hookErr, routeErr>>
monVars == <<ifAddrs, known, kernelAddrs, events, changes, cur, mpc>>
vars == <<cfgVars, phase, contexts, attached, hookVars, exitVars, monVars, failures>>

Fail == failures < MaxFailures /\ failures' = failures + 1

\* daemon() returns an error or Ok: daemon_guard takes over.
Exit == phase' = "exiting"

\* Mutant: need_monitor only when every Instance has a matcher.
NeedMonitorAll == matcher = Ifs

\* need_monitor: some InstanceConfig is not static.
NeedMonitor == matcher # {}

Init ==
    /\ ifCfg \in [Ifs -> IfConfigs]
    /\ rodata = [i \in Ifs |-> IC!Rodata0]
    /\ matcher = {}
    /\ hairpinCfg \in [Ifs -> HairpinSetups]
    /\ phase = "configuring" /\ contexts = {} /\ attached = {}
    /\ inKernel = [i \in Ifs |-> {}]
    /\ routing = [i \in Ifs |-> FALSE] /\ rules = [i \in Ifs |-> FALSE]
    /\ cleaned = {} /\ hookErr = {} /\ routeErr = {}
    /\ ifAddrs = [i \in Ifs |-> InitAddrs] /\ known = ifAddrs
    /\ kernelAddrs = known
    /\ events = <<>> /\ changes = 0 /\ cur = OtherIf /\ mpc = "wait"
    /\ failures = 0

(***************************************************************************)
(* Startup.                                                                *)
(***************************************************************************)
\* `for if_config in config.interfaces`: resolve_index, query_link_info and
\* query_all_addresses (`?`, a failure), then InstanceConfig::try_from (`?`);
\* with every interface configured, need_monitor is computed from
\* is_static.  Nothing is loaded yet, so an error leaves no context.
Configure ==
    /\ phase = "configuring"
    /\ LET ic == [i \in Ifs |-> IC!TryFrom(ifCfg[i])] IN
       \/ /\ \A i \in Ifs : ic[i] # ConfigError
          /\ matcher' = {i \in Ifs : ~IC!IsStatic(ic[i])}
          /\ phase' = "loading"
          /\ UNCHANGED failures
       \/ /\ \E i \in Ifs : ic[i] = ConfigError
          /\ Exit
          /\ UNCHANGED <<matcher, failures>>
       \/ /\ Fail /\ Exit
          /\ UNCHANGED matcher
    /\ UNCHANGED <<ifCfg, rodata, hairpinCfg, contexts, attached, hookVars, exitVars, monVars>>

\* `task.await??` for the next load task, in inst_configs' order:
\* InstanceConfig::load applied the ConstConfig to the opened object's
\* rodata, loaded it and applied the configuration of the addresses queried
\* before, or failed (the object is then dropped).
Load ==
    /\ phase = "loading"
    /\ LET i == IfOrder[Cardinality(contexts) + 1] IN
       \/ /\ contexts' = contexts \cup {i}
          /\ rodata' = [rodata EXCEPT ![i] =
                           IC!ConstConfigApply(@, IC!TryFrom(ifCfg[i]).constConfig)]
          /\ phase' = IF contexts' = Ifs THEN "attaching" ELSE "loading"
          /\ UNCHANGED failures
       \/ /\ Fail /\ Exit
          /\ UNCHANGED <<contexts, rodata>>
    /\ UNCHANGED <<ifCfg, matcher, hairpinCfg, attached, hookVars, exitVars, monVars>>

\* One pass of `for ctx in contexts.values_mut()`: Instance::attach (the
\* ingress hook, then the egress hook, `?`), then hairpin set-up: the
\* rule-priority check returns an error with the hooks in place; configure
\* may fail and is only warned.
Attach(i) ==
    /\ phase = "attaching" /\ i \in contexts \ attached
    /\ attached' = attached \cup {i}
    /\ \/ /\ Fail /\ Exit
          /\ \E h \in {{}, {"ingress"}} : inKernel' = [inKernel EXCEPT ![i] = h]
          /\ UNCHANGED <<routing, rules>>
       \/ /\ inKernel' = [inKernel EXCEPT ![i] = Hooks]
          /\ CASE hairpinCfg[i] = "badPref" -> Exit /\ UNCHANGED <<routing, rules, failures>>
               [] hairpinCfg[i] = "off" -> UNCHANGED <<phase, routing, rules, failures>>
               [] hairpinCfg[i] = "on" ->
                    /\ UNCHANGED phase
                    /\ \/ /\ routing' = [routing EXCEPT ![i] = TRUE]
                          /\ rules' = [rules EXCEPT ![i] = TRUE]
                          /\ UNCHANGED failures
                       \/ Fail /\ UNCHANGED <<routing, rules>>
    /\ UNCHANGED <<cfgVars, contexts, exitVars, monVars>>

\* The SIGINT and SIGTERM handlers are installed; select! starts.
InstallSignals ==
    /\ phase = "attaching" /\ attached = contexts
    /\ phase' = "running"
    /\ UNCHANGED <<cfgVars, contexts, attached, hookVars, exitVars, monVars, failures>>

(***************************************************************************)
(* The environment: the route monitor sees an address change of a managed *)
(* interface, or an event of an interface the daemon does not manage.     *)
(***************************************************************************)
AddressChange ==
    /\ changes < MaxAddrChanges
    /\ \/ \E i \in Ifs : \E a \in AddrSets \ {ifAddrs[i]} :
            /\ ifAddrs' = [ifAddrs EXCEPT ![i] = a]
            /\ events' = Append(events, i)
       \/ /\ events' = Append(events, OtherIf)
          /\ UNCHANGED ifAddrs
    /\ changes' = changes + 1
    /\ UNCHANGED <<cfgVars, phase, contexts, attached, hookVars, exitVars,
                   known, kernelAddrs, cur, mpc, failures>>

(***************************************************************************)
(* The monitor loop.                                                       *)
(***************************************************************************)
\* events.next(); an index without a context is skipped.
TakeEvent ==
    /\ phase = "running" /\ NeedMonitor /\ mpc = "wait" /\ events # <<>>
    /\ cur' = Head(events)
    /\ events' = Tail(events)
    /\ mpc' = IF Head(events) \in contexts THEN "query" ELSE "wait"
    /\ UNCHANGED <<cfgVars, phase, contexts, attached, hookVars, exitVars,
                   ifAddrs, known, kernelAddrs, changes, failures>>

\* query_all_addresses (`?`), then, for a new address set,
\* reconfigure_v4_addresses (`?`) and ctx.addresses = new_addresses.
Query ==
    /\ phase = "running" /\ mpc = "query"
    /\ LET q == ifAddrs[cur] IN
       \/ /\ Fail /\ Exit
          /\ UNCHANGED <<known, kernelAddrs, mpc>>
       \/ /\ q = known[cur]
          /\ mpc' = "hairpin"
          /\ UNCHANGED <<phase, known, kernelAddrs, failures>>
       \/ /\ q # known[cur]
          /\ known' = [known EXCEPT ![cur] = q]
          /\ kernelAddrs' = [kernelAddrs EXCEPT ![cur] = q]
          /\ mpc' = "hairpin"
          /\ UNCHANGED <<phase, failures>>
       \/ /\ q # known[cur]
          /\ Fail /\ Exit
          /\ UNCHANGED <<known, kernelAddrs, mpc>>
    /\ UNCHANGED <<cfgVars, contexts, attached, hookVars, exitVars,
                   ifAddrs, events, changes, cur>>

\* reconfigure_dests is awaited if the context has routing; errors logged.
HairpinReconfigured ==
    /\ phase = "running" /\ mpc = "hairpin"
    /\ mpc' = "wait"
    /\ UNCHANGED <<cfgVars, phase, contexts, attached, hookVars, exitVars,
                   ifAddrs, known, kernelAddrs, events, changes, cur, failures>>

(***************************************************************************)
(* Shutdown.                                                               *)
(***************************************************************************)
\* Before the handlers exist the signal ends the process; afterwards
\* select! drops the monitor future at an await point.
Signal ==
    /\ \/ phase \in {"configuring", "loading", "attaching"} /\ phase' = "killed"
       \/ phase = "running" /\ Exit
    /\ UNCHANGED <<cfgVars, contexts, attached, hookVars, exitVars, monVars, failures>>

\* The outcome of IfContext::detach when hook hf ("none": no hook) fails to
\* detach and rf says whether hairpin deconfigure fails.  Instance::detach
\* takes the egress hook and detaches it, then the ingress hook, and
\* returns at the first error, so a failure on egress leaves ingress alone.
HooksLeft(i, hf) ==
    CASE hf = "none"    -> {}
      [] hf = "egress"  -> inKernel[i]
      [] hf = "ingress" -> {"ingress"}

DetachOutcome(i, hf, rf, rulesLeft) ==
    LET n == (IF hf = "none" THEN 0 ELSE 1) + (IF rf THEN 1 ELSE 0)
    IN  /\ rf => routing[i]
        /\ failures + n <= MaxFailures
        /\ failures' = failures + n
        /\ inKernel' = [inKernel EXCEPT ![i] = HooksLeft(i, hf)]
        /\ hookErr' = IF hf = "none" THEN hookErr ELSE hookErr \cup {i}
        /\ routeErr' = IF rf THEN routeErr \cup {i} ELSE routeErr
        /\ routing' = [routing EXCEPT ![i] = FALSE]
        /\ rules' = [rules EXCEPT ![i] = rulesLeft]

\* Mutant: IfContext::detach returns at once (`self.inst.detach()?`) when
\* Instance::detach fails, before the hairpin routing is deconfigured.
DetachShortCircuit(i) ==
    \E hf \in {"none"} \cup inKernel[i], rf \in BOOLEAN :
        DetachOutcome(i, hf, rf /\ hf = "none", IF hf = "none" THEN rf ELSE rules[i])

\* IfContext::detach: the results of Instance::detach and of the hairpin
\* routing's deconfigure are collected, so deconfigure runs whatever
\* Instance::detach did.
Detach(i) ==
    \E hf \in {"none"} \cup inKernel[i], rf \in BOOLEAN :
        DetachOutcome(i, hf, rf, rules[i] /\ rf)

\* daemon_guard: one pass of `for ctx in contexts.values_mut()`.
Cleanup(i) ==
    /\ phase = "exiting" /\ i \in contexts \ cleaned
    /\ cleaned' = cleaned \cup {i}
    /\ Detach(i)
    /\ UNCHANGED <<cfgVars, phase, contexts, attached, monVars>>

\* daemon_guard returns once every context is detached.
Exited ==
    /\ phase = "exiting" /\ cleaned = contexts
    /\ phase' = "exited"
    /\ UNCHANGED <<cfgVars, contexts, attached, hookVars, exitVars, monVars, failures>>

Next ==
    \/ Configure \/ Load \/ (\E i \in Ifs : Attach(i)) \/ InstallSignals \/ AddressChange
    \/ TakeEvent \/ Query \/ HairpinReconfigured
    \/ Signal \/ (\E i \in Ifs : Cleanup(i)) \/ Exited

(***************************************************************************)
(* The daemon's own steps are weakly fair (tokio runs them whenever they  *)
(* can); the environment's address changes and signals are not.           *)
(***************************************************************************)
Fairness ==
    /\ WF_vars(Configure) /\ WF_vars(Load) /\ WF_vars(InstallSignals)
    /\ \A i \in Ifs : WF_vars(Attach(i)) /\ WF_vars(Cleanup(i))
    /\ WF_vars(TakeEvent) /\ WF_vars(Query) /\ WF_vars(HairpinReconfigured)
    /\ WF_vars(Exited)

Spec == Init /\ [][Next]_vars /\ Fairness

-----------------------------------------------------------------------------
Stopped == phase \in {"exiting", "exited", "killed"}

(* Once addresses stop changing, every interface with a matcher eventually *)
(* has, and keeps, eBPF maps built from its current addresses, unless the *)
(* daemon stopped.  need_monitor is computed over all interfaces: one     *)
(* static interface must not keep the loop from another's events, and     *)
(* events of one interface queue behind another's.                        *)
\* The interface's configuration has an External with a matcher: one it
\* lists, or a match-any one default_externals adds for an enabled family.
HasMatcher(c) ==
    \/ "matcher" \in {c.externals[k] : k \in DOMAIN c.externals}
    \/ c.defaultExternals /\ (c.nat44 \/ (Ipv6Feature /\ c.nat66))

(* Once addresses stop changing, every interface whose configuration has a *)
(* matcher (listed or added by default_externals) eventually has, and     *)
(* keeps, eBPF maps built from its current addresses, unless the daemon   *)
(* stopped.  need_monitor is computed by try_from and is_static over all  *)
(* interfaces: one static interface must not keep the loop from another's *)
(* events, and events of one interface queue behind another's.            *)
Converges ==
    <>[](Stopped \/ \A i \in Ifs : HasMatcher(ifCfg[i]) => kernelAddrs[i] = ifAddrs[i])

(* Spec 4.7 and section 9 note 1: load applies the ConstConfig to the     *)
(* object's read-only data, so every option the interface's configuration *)
(* sets is in its own rodata slot once the Instance is loaded.            *)
ConstConfigInRodata ==
    \A i \in contexts :
        LET cc == IC!TryFrom(ifCfg[i]).constConfig
        IN  \A f \in DOMAIN cc : cc[f] # None => rodata[i][f] = cc[f]

(* When daemon_guard is done, a hook is left in the kernel only on an      *)
(* interface whose Instance::detach failed, and hairpin rules only where   *)
(* their deconfigure failed: whatever ended daemon() (a failed load,      *)
(* attach or hairpin check part-way through the interfaces, a query or     *)
(* reconfigure error, a signal), every context is cleaned and a failure    *)
(* on one neither skips another context nor the other half of its own.   *)
CleanupLeavesOnlyFailures ==
    phase = "exited" =>
        \A i \in Ifs : /\ inKernel[i] # {} => i \in hookErr
                      /\ rules[i] => i \in routeErr

=============================================================================

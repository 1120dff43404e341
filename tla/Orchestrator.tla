---------------------------- MODULE Orchestrator ----------------------------
(***************************************************************************)
(* The daemon of src/src/main.rs for one interface, composed with the      *)
(* builder (module ConfigBuilder) and the reconciliation engine and data  *)
(* plane (module RuntimeConfig):                                           *)
(*   - startup: the loaded Instance is attached (Instance::attach, ingress *)
(*     then egress hook), then hairpin routing is configured (an await),  *)
(*     then the termination-signal handlers are installed;                *)
(*   - the monitor loop: take an address-change event, query the          *)
(*     interface's addresses (an await), and if they differ from          *)
(*     ctx.addresses reconfigure (build, then apply) and record them,     *)
(*     then reconfigure hairpin routing (an await, errors only logged);   *)
(*     an error of the query or of reconfigure ends the loop with `?`;    *)
(*   - a signal, at an await point, ends daemon(); daemon_guard then       *)
(*     detaches the Instance's hooks whatever daemon() returned.          *)
(* The route monitor (outside src/) is the environment: it changes the    *)
(* interface's addresses and queues one event per change.  Hairpin        *)
(* routing (outside src/) is the list of destinations it was last given.  *)
(***************************************************************************)
EXTENDS Integers, Sequences

CONSTANTS
    AddrKeys, Ports, Cpus, ExternalLists, KeyOrder,
    Absent, Unspecified, OtherFamily,
    InitAddrs,        \* the addresses queried at startup
    MaxAddrChanges,   \* bound on address changes by the environment
    MaxFailures       \* bound on failed map, hook and query operations

VARIABLES
    \* module RuntimeConfig's variables
    kDest, kExt, kAddr, deleting, bindOrig, bindReply, ct, dpPc, dpFlow,
    cfg, target, pending, pc, err, failures,
    \* this module's
    externals,  \* InstanceConfig.externals
    ifAddrs,    \* the interface's IPv4 addresses, as the kernel has them
    changes,    \* address changes so far
    events,     \* queued ChangeAddress events for the interface
    known,      \* ctx.addresses.ipv4
    queried,    \* new_addresses.ipv4 of the event being handled
    mpc,        \* monitor loop: "wait", "query", "reconf" or "hairpin"
    phase,      \* "loaded", "attached", "running", "exiting", "exited", "killed"
    exitCause,  \* why daemon() returned: "none", "startup", "query", "reconcile", "signal"
    ingress,    \* attached_ingress_hook is in the kernel
    egress,     \* attached_egress_hook is in the kernel
    hairpinOn,  \* ctx.v4_hairpin_routing is Some
    hairpin,    \* the hairpin destinations it was last given successfully
    hairpinErr  \* the last reconfigure_dests failed

rcVars == <<kDest, kExt, kAddr, deleting, bindOrig, bindReply, ct, dpPc, dpFlow,
            cfg, target, pending, pc, err, failures>>
oVars == <<externals, ifAddrs, changes, events, known, queried, mpc, phase, exitCause,
           ingress, egress, hairpinOn, hairpin, hairpinErr>>
hpVars == <<hairpinOn, hairpin, hairpinErr>>
ctlVars == <<kDest, kExt, kAddr, deleting, cfg, target, pending, pc, err, failures>>
vars == <<rcVars, oVars>>

CB == INSTANCE ConfigBuilder
        WITH DestKeys <- {}, NoSnatDests <- {}, addrs <- known, rc <- cfg

\* RuntimeV4Config::from with no no-snat destinations.
Build(a) == CB!Build({}, externals, a)

AllConfigs == {CB!Build({}, l, a) : l \in ExternalLists, a \in SUBSET AddrKeys}

RC == INSTANCE RuntimeConfig
        WITH Keys <- AddrKeys, DestValues <- CB!DestValues, Configs <- AllConfigs,
             InitConfig <- CHOOSE c \in AllConfigs : TRUE

\* Mutant: need_monitor negated (monitor only all-static instances).
NeedMonitorNegated == \A i \in DOMAIN externals : externals[i].kind = "static"

\* need_monitor: some External is a matcher (InstanceConfig::is_static).
NeedMonitor == \E i \in DOMAIN externals : externals[i].kind = "matcher"

Init ==
    /\ externals \in ExternalLists
    /\ LET c == Build(InitAddrs) IN
       /\ kDest = c.dest /\ kExt = c.ext /\ kAddr = c.extAddr
       /\ cfg = c /\ target = c
    /\ deleting = 0 /\ pending = <<>> /\ pc = "idle" /\ err = FALSE /\ failures = 0
    /\ RC!DataPlaneInit
    /\ ifAddrs = InitAddrs /\ known = InitAddrs /\ queried = InitAddrs
    /\ changes = 0 /\ events = 0
    /\ mpc = "wait" /\ phase = "loaded" /\ exitCause = "none"
    /\ ingress = FALSE /\ egress = FALSE
    /\ hairpinOn = FALSE /\ hairpin = <<>> /\ hairpinErr = FALSE

Exit(cause) ==
    /\ phase' = "exiting"
    /\ exitCause' = cause

(***************************************************************************)
(* Startup.                                                                *)
(***************************************************************************)
\* Instance::attach: the ingress hook is created and attached, then the
\* egress hook; either may fail and the error aborts startup.
Attach ==
    /\ phase = "loaded"
    /\ \/ /\ ingress' = TRUE /\ egress' = TRUE
          /\ phase' = "attached"
          /\ UNCHANGED <<exitCause, failures>>
       \/ /\ RC!InjectFailure
          /\ \E i \in BOOLEAN : ingress' = i
          /\ egress' = FALSE
          /\ Exit("startup")
    /\ UNCHANGED <<kDest, kExt, kAddr, deleting, bindOrig, bindReply, ct, dpPc, dpFlow,
                   cfg, target, pending, pc, err>>
    /\ UNCHANGED <<externals, ifAddrs, changes, events, known, queried, mpc, hpVars>>

\* hairpin_routing.configure with the stored config's hairpin_dests is
\* awaited; when routing is disabled or configure fails (only warned) the
\* context keeps no routing.  Then the signal handlers are installed and
\* the monitor future starts.
StartMonitor ==
    /\ phase = "attached"
    /\ \/ hairpinOn' = TRUE /\ hairpin' = CB!HairpinDests(cfg) /\ hairpinErr' = FALSE
       \/ UNCHANGED hpVars
    /\ phase' = "running"
    /\ UNCHANGED <<rcVars, externals, ifAddrs, changes, events, known, queried, mpc,
                   exitCause, ingress, egress>>

(***************************************************************************)
(* The environment: an address change and its event.                       *)
(***************************************************************************)
AddressChange ==
    /\ changes < MaxAddrChanges
    /\ \E a \in SUBSET AddrKeys \ {ifAddrs} : ifAddrs' = a
    /\ changes' = changes + 1
    /\ events' = events + 1
    /\ UNCHANGED <<rcVars, externals, known, queried, mpc, phase, exitCause, ingress, egress,
                   hpVars>>

(***************************************************************************)
(* The monitor loop.                                                       *)
(***************************************************************************)
TakeEvent ==
    /\ phase = "running" /\ NeedMonitor
    /\ mpc = "wait" /\ events > 0
    /\ events' = events - 1
    /\ mpc' = "query"
    /\ UNCHANGED <<rcVars, externals, ifAddrs, changes, known, queried, phase, exitCause,
                   ingress, egress, hpVars>>

\* query_all_addresses, then the comparison with ctx.addresses; a differing
\* set starts reconfigure_v4_addresses.
Query ==
    /\ phase = "running" /\ mpc = "query"
    /\ \/ /\ RC!InjectFailure
          /\ Exit("query")
          /\ UNCHANGED <<kDest, kExt, kAddr, deleting, bindOrig, bindReply, ct, dpPc, dpFlow,
                         cfg, target, pending, pc, err, queried, mpc>>
       \/ /\ queried' = ifAddrs
          /\ IF ifAddrs # known
             THEN /\ RC!StartApply(Build(ifAddrs))
                  /\ mpc' = "reconf"
             ELSE /\ mpc' = "hairpin"
                  /\ UNCHANGED <<kDest, kExt, kAddr, deleting, cfg, target, pending, pc,
                                 err, failures>>
          /\ UNCHANGED <<bindOrig, bindReply, ct, dpPc, dpFlow, exitCause, phase>>
    /\ UNCHANGED <<externals, ifAddrs, changes, events, known, ingress, egress, hpVars>>

\* A step of the running apply; the loop is blocked in reconfigure.
Reconfiguring ==
    /\ phase = "running" /\ mpc = "reconf"
    /\ RC!ApplyStep
    /\ UNCHANGED oVars

Reconciled ==
    /\ phase = "running" /\ mpc = "reconf" /\ pc = "idle"
    /\ IF cfg = Build(queried)
       THEN /\ known' = queried
            /\ mpc' = "hairpin"
            /\ UNCHANGED <<phase, exitCause>>
       ELSE /\ Exit("reconcile")
            /\ UNCHANGED <<known, mpc>>
    /\ UNCHANGED <<rcVars, externals, ifAddrs, changes, events, queried, ingress, egress,
                   hpVars>>

\* hairpin_routing.reconfigure_dests with the stored config's hairpin_dests
\* is awaited, if the context has routing; its error is only logged.
HairpinReconfigured ==
    /\ phase = "running" /\ mpc = "hairpin"
    /\ \/ /\ hairpinOn
          /\ hairpin' = CB!HairpinDests(cfg)
          /\ hairpinErr' = FALSE
          /\ UNCHANGED failures
       \/ /\ hairpinOn
          /\ RC!InjectFailure
          /\ hairpinErr' = TRUE
          /\ UNCHANGED hairpin
       \/ /\ ~hairpinOn
          /\ UNCHANGED <<hairpin, hairpinErr, failures>>
    /\ mpc' = "wait"
    /\ UNCHANGED <<kDest, kExt, kAddr, deleting, bindOrig, bindReply, ct, dpPc, dpFlow,
                   cfg, target, pending, pc, err>>
    /\ UNCHANGED <<externals, ifAddrs, changes, events, known, queried, phase,
                   exitCause, ingress, egress, hairpinOn>>

(***************************************************************************)
(* Shutdown.                                                               *)
(***************************************************************************)
\* SIGINT or SIGTERM.  Once the handlers are installed, tokio::select! drops
\* the monitor future at one of its await points; reconfigure itself has no
\* await.  Before that, the default disposition ends the process at once.
Signal ==
    \/ /\ phase = "running" /\ mpc \in {"wait", "query", "hairpin"}
       /\ Exit("signal")
       /\ UNCHANGED <<rcVars, externals, ifAddrs, changes, events, known, queried, mpc,
                      ingress, egress, hpVars>>
    \/ /\ phase \in {"loaded", "attached"}
       /\ phase' = "killed"
       /\ UNCHANGED <<rcVars, externals, ifAddrs, changes, events, known, queried, mpc,
                      exitCause, ingress, egress, hpVars>>

\* daemon_guard: IfContext::detach on every context, then exit.
Cleanup ==
    /\ phase = "exiting"
    /\ ingress' = FALSE /\ egress' = FALSE
    /\ phase' = "exited"
    /\ UNCHANGED <<rcVars, externals, ifAddrs, changes, events, known, queried, mpc,
                   exitCause, hpVars>>

\* The data plane runs only behind the attached egress hook; invocations
\* already started and the CT timers go on regardless.
DpInvocation(c) ==
    /\ RC!DpLookup(c) \/ RC!DpCreate(c)
    /\ UNCHANGED <<ctlVars, oVars>>

DataPlaneSteps ==
    \/ \E c \in Cpus : DpInvocation(c)
    \/ /\ \/ \E c \in Cpus : egress /\ RC!DpBegin(c)
          \/ RC!DpExpire
       /\ UNCHANGED <<ctlVars, oVars>>

Next ==
    \/ Attach \/ StartMonitor \/ AddressChange
    \/ TakeEvent \/ Query \/ Reconfiguring \/ Reconciled \/ HairpinReconfigured
    \/ Signal \/ Cleanup \/ DataPlaneSteps

(***************************************************************************)
(* Fairness.  The daemon's own steps are weakly fair: startup, the monitor *)
(* loop and the cleanup run on the tokio runtime whenever they can, and    *)
(* reconfigure runs to completion.  A data-plane invocation, once begun,   *)
(* runs to its end in the kernel.  Signals, address changes, new packets   *)
(* and timers are the environment and get no fairness.                     *)
(***************************************************************************)
Fairness ==
    /\ WF_vars(Attach) /\ WF_vars(StartMonitor)
    /\ WF_vars(TakeEvent) /\ WF_vars(Query) /\ WF_vars(Reconfiguring)
    /\ WF_vars(Reconciled) /\ WF_vars(HairpinReconfigured) /\ WF_vars(Cleanup)
    /\ \A c \in Cpus : WF_vars(DpInvocation(c))

Spec == Init /\ [][Next]_vars /\ Fairness

-----------------------------------------------------------------------------
(***************************************************************************)
(* Properties.                                                             *)
(***************************************************************************)
Stopped == phase \in {"exiting", "exited", "killed"}

\* The kernel holds the configuration built from address set a.
KernelReflects(a) ==
    LET c == Build(a) IN kDest = c.dest /\ kExt = c.ext /\ kAddr = c.extAddr

(* Once the interface's addresses stop changing, the kernel eventually    *)
(* holds, and keeps, the configuration built from them, unless the daemon *)
(* stopped (spec 4.6: the next event drives the change).  It covers the   *)
(* events queued during startup, events arriving while an earlier one is  *)
(* handled, and need_monitor = false, which is sound only because static  *)
(* Externals build the same configuration for every address set.           *)
Converges == <>[](Stopped \/ KernelReflects(ifAddrs))

HairpinRoutesFollowKernel ==
    phase = "running" /\ mpc \in {"wait", "query"} /\ hairpinOn /\ ~hairpinErr =>
        LET hs == {k \in AddrKeys : kDest[k] # Absent /\ kDest[k].hairpin}
        IN  /\ {hairpin[i] : i \in DOMAIN hairpin} = hs
            /\ \A i, j \in DOMAIN hairpin : hairpin[i] = hairpin[j] => i = j
            /\ kAddr \in hs => hairpin[1] = kAddr

(* Spec section 7: reconcile errors during the event loop are logged and   *)
(* do not terminate the process.                                           *)
ReconcileErrorsDoNotTerminate == exitCause # "reconcile"

(* Spec 4.6: shutdown on a termination signal detaches every Instance; no  *)
(* hook stays in the kernel once the daemon is gone.                       *)
NoHookOutlivesDaemon ==
    phase \in {"exited", "killed"} => ~ingress /\ ~egress

=============================================================================

----------------------------- MODULE DataPlane -----------------------------
(***************************************************************************)
(* The eBPF data plane as the control plane sees it.  Its C source is not  *)
(* part of src/, so this module is written from the spec (sections 4.5,    *)
(* 4.6, 5 and the glossary): on each CPU an invocation reads              *)
(* g_deleting_map_entries, and only if it is 0 may it go on to read the    *)
(* primary external address g_ipv4_external_addr and its external_config  *)
(* entry and create a binding (both directions) and a CT entry on a port  *)
(* of that entry's pool.  Idle entries expire by the data plane's timers. *)
(*                                                                         *)
(* A flow is abstracted to the external (address, port) it is bound to:   *)
(* bindOrig holds the ORIG_DIR binding keys (the external address is in    *)
(* the value's to_addr), bindReply the reply-direction keys (in the key's *)
(* from_addr), ct the CT keys (in external.src_addr).                     *)
(***************************************************************************)
EXTENDS Integers, FiniteSets

CONSTANTS
    Keys,         \* host-width prefixes of the address family (model values)
    Ports,        \* external ports
    Cpus,         \* CPUs running the data-plane programs concurrently
    Absent,       \* model value: no entry under this key in a map
    Unspecified   \* model value: the unspecified address (NAT disabled)

\* BpfExternalConfig, abstracted to its NO_SNAT flag and its port pool.
ExtValues == [noSnat : BOOLEAN, ports : SUBSET Ports]

Flow == [addr : Keys, port : Ports]

VARIABLES
    kExt,       \* kernel map external_config: [Keys -> ExtValues \cup {Absent}]
    kAddr,      \* kernel scalar g_ipv4_external_addr
    deleting,   \* kernel scalar g_deleting_map_entries
    bindOrig,   \* binding map, ORIG_DIR entries
    bindReply,  \* binding map, reply-direction entries
    ct,         \* CT map
    dpPc,       \* per CPU: "idle", "lookup" (saw the flag at 0) or "create"
    dpFlow      \* per CPU: the flow it is about to create

dpVars == <<bindOrig, bindReply, ct, dpPc, dpFlow>>

\* Some flow to fill dpFlow with when a CPU holds none.
NoFlow == CHOOSE f \in Flow : TRUE

DataPlaneInit ==
    /\ bindOrig = {} /\ bindReply = {} /\ ct = {}
    /\ dpPc = [c \in Cpus |-> "idle"]
    /\ dpFlow = [c \in Cpus |-> NoFlow]

\* An invocation starts and reads g_deleting_map_entries = 0; with the flag
\* raised it creates nothing and is not modelled.
DpBegin(c) ==
    /\ dpPc[c] = "idle"
    /\ deleting = 0
    /\ dpPc' = [dpPc EXCEPT ![c] = "lookup"]
    /\ UNCHANGED <<bindOrig, bindReply, ct, dpFlow>>

\* It reads the primary external address and its external_config entry and
\* picks a free port of the pool, or gives up (no entry, NO_SNAT, no ports).
DpLookup(c) ==
    /\ dpPc[c] = "lookup"
    /\ LET a == kAddr IN
       IF a # Unspecified /\ kExt[a] # Absent /\ ~kExt[a].noSnat
       THEN \E p \in kExt[a].ports :
               /\ dpPc' = [dpPc EXCEPT ![c] = "create"]
               /\ dpFlow' = [dpFlow EXCEPT ![c] = [addr |-> a, port |-> p]]
       ELSE /\ dpPc' = [dpPc EXCEPT ![c] = "idle"]
            /\ UNCHANGED dpFlow
    /\ UNCHANGED <<bindOrig, bindReply, ct>>

\* It inserts the binding pair and the CT entry from what it read.
DpCreate(c) ==
    /\ dpPc[c] = "create"
    /\ bindOrig' = bindOrig \cup {dpFlow[c]}
    /\ bindReply' = bindReply \cup {dpFlow[c]}
    /\ ct' = ct \cup {dpFlow[c]}
    /\ dpPc' = [dpPc EXCEPT ![c] = "idle"]
    /\ dpFlow' = [dpFlow EXCEPT ![c] = NoFlow]

\* A CT timer fires and removes the flow's CT entry and bindings; the maps
\* are stable while the control plane holds the flag (spec 4.5 step 3b).
DpExpire ==
    /\ deleting = 0
    /\ \E f \in ct :
          /\ ct' = ct \ {f}
          /\ bindOrig' = bindOrig \ {f}
          /\ bindReply' = bindReply \ {f}
    /\ UNCHANGED <<dpPc, dpFlow>>

DataPlaneNext ==
    \/ \E c \in Cpus : DpBegin(c) \/ DpLookup(c) \/ DpCreate(c)
    \/ DpExpire

\* The CPUs still running an invocation that saw the flag at 0.
InFlight == {c \in Cpus : dpPc[c] # "idle"}

=============================================================================

--------------------------- MODULE AtomicReconcile ---------------------------
(***************************************************************************)
(* What reconfigure promises its caller (spec 4.4, P8): the kernel's       *)
(* dest_config, external_config and primary external address go from the  *)
(* stored configuration to the new one in one step, and the stored         *)
(* configuration is always what the kernel holds.  Module RuntimeConfig   *)
(* implements this when no map operation fails.                           *)
(***************************************************************************)
CONSTANTS
    Configs,     \* the runtime configurations reconfigure may compute
    InitConfig   \* the one load applied

VARIABLES
    kernel,      \* [dest, ext, extAddr] as the data plane reads them
    stored       \* the configuration kept as previous

Init ==
    /\ kernel = InitConfig
    /\ stored = InitConfig

Reconcile(new) ==
    /\ kernel' = new
    /\ stored' = new

Next == \E new \in Configs : Reconcile(new)

Spec == Init /\ [][Next]_<<kernel, stored>>

=============================================================================

---------------------------- MODULE RuntimeConfig ----------------------------
(***************************************************************************)
(* The reconciliation engine of src/src/instance.rs: RuntimeConfig::apply *)
(* with a previous configuration, as Instance::reconfigure_v4_addresses    *)
(* drives it, with with_skel_deleting and remove_binding_and_ct_entries,   *)
(* running against the data plane of module DataPlane.                     *)
(*                                                                         *)
(* A runtime configuration is [dest, ext, extAddr]: the dest_config and    *)
(* external_config prefix maps (as total functions with Absent for a      *)
(* missing key) and the primary external address.  Every kernel map        *)
(* operation is one step; any of them may fail (at most MaxFailures       *)
(* injected failures), and the ones with NO_EXIST / EXIST semantics, and  *)
(* deletes, also fail when the key is present / absent.  An error ends     *)
(* the apply: with_skel_deleting still lowers the flag, then the error     *)
(* propagates and the stored configuration is not swapped.                 *)
(***************************************************************************)
EXTENDS DataPlane, Sequences

CONSTANTS
    DestValues,   \* BpfDestConfig values (flag sets)
    Configs,      \* the runtime configurations reconfigure may compute
    InitConfig,   \* the configuration applied by InstanceConfig::load
    KeyOrder,     \* Keys in the prefix maps' iteration order
    MaxFailures   \* bound on injected map-operation failures

RuntimeConfigs ==
    [dest : [Keys -> DestValues \cup {Absent}],
     ext : [Keys -> ExtValues \cup {Absent}],
     extAddr : Keys \cup {Unspecified}]

ASSUME Configs \subseteq RuntimeConfigs /\ InitConfig \in Configs
ASSUME KeyOrder \in Seq(Keys) /\ Len(KeyOrder) = Cardinality(Keys)

Change == [map : {"dest", "ext"}, op : {"insert", "update", "delete"},
           key : Keys, val : DestValues \cup ExtValues \cup {Absent}]

VARIABLES
    kDest,     \* kernel map dest_config
    cfg,       \* Instance.config.runtime_v4_config: the previous configuration
    target,    \* the new configuration being applied
    pending,   \* the diff changes not yet applied, head first
    pc,        \* where apply is
    err,       \* the current change failed inside with_skel_deleting
    failures   \* injected failures so far

ctlVars == <<kDest, kExt, kAddr, deleting, cfg, target, pending, pc, err, failures>>
vars == <<ctlVars, dpVars>>

(***************************************************************************)
(* PrefixMapDiff (src/utils.rs, not among the sources here; from spec      *)
(* 4.4): Insert for a key only in new, Delete for a key only in old,       *)
(* Update for a key in both with a different value, in key order.          *)
(***************************************************************************)
MapChangeOf(m, k, old, new) ==
    [map |-> m, key |-> k, val |-> new[k],
     op |-> IF old[k] = Absent THEN "insert" ELSE IF new[k] = Absent THEN "delete" ELSE "update"]

\* Mutant: a key is reported only when it appears or disappears, never when
\* its value changes.
PrefixMapDiffKeysOnly(m, old, new) ==
    LET differs(k) == (old[k] = Absent) # (new[k] = Absent)
        keys == SelectSeq(KeyOrder, differs)
    IN  [i \in 1..Len(keys) |-> MapChangeOf(m, keys[i], old, new)]

PrefixMapDiff(m, old, new) ==
    LET differs(k) == old[k] # new[k]
        keys == SelectSeq(KeyOrder, differs)
    IN  [i \in 1..Len(keys) |-> MapChangeOf(m, keys[i], old, new)]

Init ==
    \* InstanceConfig::load applied InitConfig to empty maps and attached.
    /\ kDest = InitConfig.dest
    /\ kExt = InitConfig.ext
    /\ kAddr = InitConfig.extAddr
    /\ deleting = 0
    /\ cfg = InitConfig
    /\ target = InitConfig
    /\ pending = <<>>
    /\ pc = "idle"
    /\ err = FALSE
    /\ failures = 0
    /\ DataPlaneInit

\* A map operation fails without a cause the model tracks (ENOMEM, ...).
InjectFailure ==
    /\ failures < MaxFailures
    /\ failures' = failures + 1

\* The `?` after a map operation outside with_skel_deleting: apply returns
\* the error and reconfigure returns before swapping the configuration.
Abort ==
    /\ pc' = "idle"
    /\ pending' = <<>>
    /\ target' = cfg
    /\ UNCHANGED cfg

\* The change at the head of pending is done; go on with the next one.
NextChange ==
    /\ pending' = Tail(pending)
    /\ UNCHANGED <<pc, cfg, target>>

(***************************************************************************)
(* Instance::reconfigure_v4_addresses: build the new configuration and     *)
(* start apply(Some(old)): the dest_config diff, then the external_config  *)
(* diff.                                                                   *)
(***************************************************************************)
StartApply(new) ==
    /\ pc = "idle"
    /\ target' = new
    /\ pending' = PrefixMapDiff("dest", cfg.dest, new.dest)
                    \o PrefixMapDiff("ext", cfg.ext, new.ext)
    /\ pc' = "apply"
    /\ UNCHANGED <<kDest, kExt, kAddr, deleting, cfg, err, failures>>

Reconfigure == \E new \in Configs : StartApply(new)

\* handle_dest_change: update with MapFlags::ANY, or delete.
DestChange ==
    /\ pc = "apply"
    /\ pending # <<>>
    /\ Head(pending).map = "dest"
    /\ LET ch == Head(pending) IN
       \/ /\ ch.op \in {"insert", "update"}
          /\ kDest' = [kDest EXCEPT ![ch.key] = ch.val]
          /\ NextChange /\ UNCHANGED failures
       \/ /\ ch.op = "delete" /\ kDest[ch.key] # Absent
          /\ kDest' = [kDest EXCEPT ![ch.key] = Absent]
          /\ NextChange /\ UNCHANGED failures
       \/ /\ ch.op = "delete" /\ kDest[ch.key] = Absent
          /\ Abort /\ UNCHANGED <<kDest, failures>>
       \/ /\ InjectFailure
          /\ Abort /\ UNCHANGED kDest
    /\ UNCHANGED <<kExt, kAddr, deleting, err>>

\* handle_external_change, Insert: update with MapFlags::NO_EXIST.
ExtInsert ==
    /\ pc = "apply"
    /\ pending # <<>>
    /\ Head(pending).map = "ext" /\ Head(pending).op = "insert"
    /\ LET ch == Head(pending) IN
       \/ /\ kExt[ch.key] = Absent
          /\ kExt' = [kExt EXCEPT ![ch.key] = ch.val]
          /\ NextChange /\ UNCHANGED failures
       \/ /\ kExt[ch.key] # Absent
          /\ Abort /\ UNCHANGED <<kExt, failures>>
       \/ /\ InjectFailure
          /\ Abort /\ UNCHANGED kExt
    /\ UNCHANGED <<kDest, kAddr, deleting, err>>

(***************************************************************************)
(* handle_external_change, Update and Delete, inside with_skel_deleting:  *)
(* raise g_deleting_map_entries, sleep 1 ms, run the body, lower the flag. *)
(* Update's body purges then overwrites (MapFlags::EXIST); Delete's body   *)
(* deletes then purges.                                                    *)
(***************************************************************************)
\* Mutant: g_deleting_map_entries is never set.
RaiseFlagNoFlag ==
    /\ pc = "apply"
    /\ pending # <<>>
    /\ Head(pending).map = "ext" /\ Head(pending).op \in {"update", "delete"}
    /\ pc' = "sleep"
    /\ UNCHANGED <<kDest, kExt, kAddr, deleting, cfg, target, pending, err, failures>>

RaiseFlag ==
    /\ pc = "apply"
    /\ pending # <<>>
    /\ Head(pending).map = "ext" /\ Head(pending).op \in {"update", "delete"}
    /\ deleting' = 1
    /\ pc' = "sleep"
    /\ UNCHANGED <<kDest, kExt, kAddr, cfg, target, pending, err, failures>>

\* Mutant: no grace period after raising the flag.
SleepNoGrace ==
    /\ pc = "sleep"
    /\ pc' = IF Head(pending).op = "update" THEN "purge_binding" ELSE "delete_ext"
    /\ UNCHANGED <<kDest, kExt, kAddr, deleting, cfg, target, pending, err, failures>>

\* Mutant: Update overwrites the entry without purging first.
SleepUpdateWithoutPurge ==
    /\ pc = "sleep"
    /\ InFlight = {}
    /\ pc' = IF Head(pending).op = "update" THEN "write_ext" ELSE "delete_ext"
    /\ UNCHANGED <<kDest, kExt, kAddr, deleting, cfg, target, pending, err, failures>>

\* The 1 ms sleep, modelled by what the code's comment expects of it: every
\* invocation that had not seen the flag at 1 has finished.
Sleep ==
    /\ pc = "sleep"
    /\ InFlight = {}
    /\ pc' = IF Head(pending).op = "update" THEN "purge_binding" ELSE "delete_ext"
    /\ UNCHANGED <<kDest, kExt, kAddr, deleting, cfg, target, pending, err, failures>>

\* Leave the body of with_skel_deleting with an error.
BodyFails ==
    /\ pc' = "lower"
    /\ err' = TRUE
    /\ UNCHANGED <<cfg, target, pending>>

(***************************************************************************)
(* remove_binding_and_ct_entries, first half: scan the binding map for    *)
(* ORIG_DIR entries whose value's to_addr and reply entries whose key's   *)
(* from_addr is the address, and delete_batch them.  A failed lookup or    *)
(* batch delete returns the error after deleting any part of the batch.   *)
(***************************************************************************)
PurgeBinding ==
    /\ pc = "purge_binding"
    /\ LET a == Head(pending).key
           origHit  == {f \in bindOrig : f.addr = a}
           replyHit == {f \in bindReply : f.addr = a}
       IN  \/ /\ bindOrig' = bindOrig \ origHit
              /\ bindReply' = bindReply \ replyHit
              /\ pc' = "purge_ct"
              /\ UNCHANGED <<cfg, target, pending, err, failures>>
           \/ /\ InjectFailure
              /\ \E o \in SUBSET origHit, r \in SUBSET replyHit :
                    /\ bindOrig' = bindOrig \ o
                    /\ bindReply' = bindReply \ r
              /\ BodyFails
    /\ UNCHANGED <<kDest, kExt, kAddr, deleting, ct, dpPc, dpFlow>>

\* Second half: the CT entries whose external.src_addr is the address.
PurgeCt ==
    /\ pc = "purge_ct"
    /\ LET a == Head(pending).key
           hit == {f \in ct : f.addr = a}
       IN  \/ /\ ct' = ct \ hit
              /\ pc' = IF Head(pending).op = "update" THEN "write_ext" ELSE "lower"
              /\ UNCHANGED <<cfg, target, pending, err, failures>>
           \/ /\ hit # {}
              /\ InjectFailure
              /\ \E d \in SUBSET hit : ct' = ct \ d
              /\ BodyFails
    /\ UNCHANGED <<kDest, kExt, kAddr, deleting, bindOrig, bindReply, dpPc, dpFlow>>

\* Update's overwrite, MapFlags::EXIST.
WriteExt ==
    /\ pc = "write_ext"
    /\ LET ch == Head(pending) IN
       \/ /\ kExt[ch.key] # Absent
          /\ kExt' = [kExt EXCEPT ![ch.key] = ch.val]
          /\ pc' = "lower"
          /\ UNCHANGED <<cfg, target, pending, err, failures>>
       \/ /\ kExt[ch.key] = Absent
          /\ BodyFails /\ UNCHANGED <<kExt, failures>>
       \/ /\ InjectFailure
          /\ BodyFails /\ UNCHANGED kExt
    /\ UNCHANGED <<kDest, kAddr, deleting>>

\* Delete's map delete, before its purge.
DeleteExt ==
    /\ pc = "delete_ext"
    /\ LET ch == Head(pending) IN
       \/ /\ kExt[ch.key] # Absent
          /\ kExt' = [kExt EXCEPT ![ch.key] = Absent]
          /\ pc' = "purge_binding"
          /\ UNCHANGED <<cfg, target, pending, err, failures>>
       \/ /\ kExt[ch.key] = Absent
          /\ BodyFails /\ UNCHANGED <<kExt, failures>>
       \/ /\ InjectFailure
          /\ BodyFails /\ UNCHANGED kExt
    /\ UNCHANGED <<kDest, kAddr, deleting>>

\* with_skel_deleting lowers the flag whatever the body returned; an error
\* then propagates out of apply.
\* Mutant: the error is propagated with `?` before the flag is lowered.
LowerFlagOnSuccessOnly ==
    /\ pc = "lower"
    /\ IF err
       THEN /\ Abort
            /\ err' = FALSE
            /\ UNCHANGED deleting
       ELSE /\ deleting' = 0
            /\ pending' = Tail(pending)
            /\ pc' = "apply"
            /\ UNCHANGED <<cfg, target, err>>
    /\ UNCHANGED <<kDest, kExt, kAddr, failures>>

LowerFlag ==
    /\ pc = "lower"
    /\ deleting' = 0
    /\ IF err
       THEN /\ Abort
            /\ err' = FALSE
       ELSE /\ pending' = Tail(pending)
            /\ pc' = "apply"
            /\ UNCHANGED <<cfg, target, err>>
    /\ UNCHANGED <<kDest, kExt, kAddr, failures>>

\* Mutant: apply(Some(old)) never writes g_ipv4_external_addr.
FinishSkipsScalar ==
    /\ pc = "apply"
    /\ pending = <<>>
    /\ cfg' = target
    /\ pc' = "idle"
    /\ UNCHANGED <<kDest, kExt, kAddr, deleting, target, pending, err, failures>>

\* Both diffs are drained: write the primary external address if it
\* changed (apply_external_addr), and reconfigure swaps in the new config.
Finish ==
    /\ pc = "apply"
    /\ pending = <<>>
    /\ kAddr' = IF cfg.extAddr # target.extAddr THEN target.extAddr ELSE kAddr
    /\ cfg' = target
    /\ pc' = "idle"
    /\ UNCHANGED <<kDest, kExt, deleting, target, pending, err, failures>>

\* One step of a running apply.  The purge steps are the only control-plane
\* steps that touch the binding and CT maps.
ApplyStep ==
    \/ /\ \/ DestChange \/ ExtInsert \/ RaiseFlag \/ Sleep
          \/ WriteExt \/ DeleteExt \/ LowerFlag \/ Finish
       /\ UNCHANGED dpVars
    \/ PurgeBinding
    \/ PurgeCt

ControlNext ==
    \/ Reconfigure /\ UNCHANGED dpVars
    \/ ApplyStep

Next ==
    \/ ControlNext
    \/ DataPlaneNext /\ UNCHANGED ctlVars

Spec == Init /\ [][Next]_vars

-----------------------------------------------------------------------------
(***************************************************************************)
(* Properties.                                                             *)
(***************************************************************************)
Flows == bindOrig \cup bindReply \cup ct

(* The data plane never sees a dangling binding (spec section 1): while   *)
(* the flag is down, every binding and CT entry is bound to an address     *)
(* that has an external_config entry, is not NO_SNAT, and whose pool       *)
(* holds its port.  Update and Delete purge before lowering the flag.      *)
NoDanglingBinding ==
    deleting = 0 =>
        \A f \in Flows : /\ kExt[f.addr] # Absent
                        /\ ~kExt[f.addr].noSnat
                        /\ f.port \in kExt[f.addr].ports

(* Weaker, and meant to hold even when map operations fail: no binding or  *)
(* CT entry is bound to an address that has an external_config entry      *)
(* unless that entry is not NO_SNAT and its pool holds the port.  Update   *)
(* purges before it overwrites, so a shrunk pool is never published while *)
(* bindings outside it remain.                                             *)
BindingsWithinPool ==
    deleting = 0 =>
        \A f \in Flows : kExt[f.addr] # Absent =>
                           ~kExt[f.addr].noSnat /\ f.port \in kExt[f.addr].ports

(* with_skel_deleting lowers g_deleting_map_entries on every path out of   *)
(* apply, the error paths included (spec P9, section 7).                   *)
FlagClearedWhenIdle ==
    pc = "idle" => deleting = 0

(* The control plane deletes binding and CT entries only with the flag up  *)
(* and after every data-plane invocation that saw it down has finished    *)
(* (spec P9, the 1 ms sleep of with_skel_deleting).                        *)
QuiescedPurge ==
    [][(pc \in {"purge_binding", "purge_ct"} /\ Flows' # Flows)
         => deleting = 1 /\ InFlight = {}]_vars

\* The kernel as the caller of reconfigure may see it: while an apply runs,
\* the configuration it started from.
KernelView ==
    IF pc = "idle" THEN [dest |-> kDest, ext |-> kExt, extAddr |-> kAddr] ELSE cfg

Atomic == INSTANCE AtomicReconcile WITH kernel <- KernelView, stored <- cfg

(* reconfigure implements an atomic replacement of the kernel            *)
(* configuration by the new one (spec 4.4, P8): with the steps of a      *)
(* running apply hidden, the kernel and the stored configuration change   *)
(* together, only when reconfigure returns, and only to a configuration   *)
(* reconfigure computed; the data plane's steps leave both unchanged.     *)
ImplementsAtomicReconcile == Atomic!Spec

=============================================================================

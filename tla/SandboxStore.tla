---------------------------- MODULE SandboxStore ----------------------------
(***************************************************************************)
(* store.go: the controller's in-memory map from pod name to *Sandbox.     *)
(*                                                                         *)
(* The map holds pointers.  ClaimIdle hands the pointer in the map to the  *)
(* caller, who goes on writing through it without the lock, while sync()   *)
(* replaces the map's pointer by a fresh object.  Field `by` is the        *)
(* request that holds the very object the map points to, so a write        *)
(* through that pointer is seen in the map exactly while by is the writer. *)
(***************************************************************************)
EXTENDS PoolBase

CONSTANT NoEntry    \* a name that is not in the map

VARIABLE store      \* [Pods -> Entry \cup {NoEntry}]

States == {"idle", "pending", "provisioning", "active", "failed"}

Entry == [state: States,
          det: Time,            \* DetachedAt
          exp: Time,            \* ExpiresAt
          exited: BOOLEAN,      \* Phase is neither Running nor Pending
          by: Requests \cup {NoReq}]

ASSUME NoEntryAssumption == NoEntry \notin Entry

StoreInit == store = [p \in Pods |-> NoEntry]

Known(p) == store[p] # NoEntry
IsIdle(p) == Known(p) /\ store[p].state = "idle"

ClaimIdle(r, p) ==
    /\ IsIdle(p)
    /\ store' = [store EXCEPT ![p].state = "provisioning", ![p].by = r]

Upsert(p, e) == store' = [store EXCEPT ![p] = e]

Remove(p) == Upsert(p, NoEntry)

\* Mutant: stale entries are counted but not deleted.
PruneNothing(live) == store' = store

Prune(live) ==
    store' = [p \in Pods |-> IF p \in live THEN store[p] ELSE NoEntry]
=============================================================================

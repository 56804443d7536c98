------------------------------ MODULE WarmPool ------------------------------
(***************************************************************************)
(* The warm-pool controller: the HTTP handlers that claim and delete       *)
(* sandboxes (handlers.go) and the reconciler that mirrors the cluster     *)
(* into the store and garbage-collects (reconciler.go), all sharing one    *)
(* store and one API server.  Every handler runs in a goroutine of its     *)
(* own; the reconciler is one goroutine.  A step of the model ends where   *)
(* the code takes the store's lock or calls the API server.                *)
(***************************************************************************)
EXTENDS KubePods, SandboxStore

CONSTANTS
    Admins,       \* clients that delete and restart pods
    GC,           \* the reconciler, as one more deleter of pods
    Lifetimes,    \* the durations a provision request may ask for
    Unlimited,    \* lifetime "unlimited"
    MaxLifetime,  \* the 2h clamp of handleProvision
    StaleAge,     \* maxUnlimitedLifetime, 24h
    NoPod,        \* a request that holds no pod
    MaxTime,      \* bound: the clock stops here
    MaxCrashes    \* bound: how often the controller restarts

ASSUME LifetimesAssumption == /\ Lifetimes \subseteq Int
                              /\ Unlimited \notin Int
                              /\ MaxLifetime \in Nat
                              /\ StaleAge \in Nat
ASSUME BoundsAssumption == MaxTime \in Nat /\ MaxCrashes \in Nat
ASSUME NamesAssumption == GC \notin Admins /\ NoPod \notin Pods

VARIABLES
    now,      \* the wall clock
    req,      \* provision requests: handleProvision's local variables
    syncPc,   \* where the reconciler is in sync()
    snap,     \* sync: the listed pods the loop has not reached yet
    live,     \* sync: liveNames
    draft,    \* sync: the sb built for a pod and not yet upserted
    reap,     \* per deleter: the pods it is going through, and why
    crashes   \* controller restarts so far

syncVars == <<syncPc, snap, live, draft>>
vars == <<api, store, now, req, syncPc, snap, live, draft, reap, crashes>>

Deleters == Admins \cup {GC}

\* gc()'s reasons, and "asked" for a deletion a client asked for.
Reasons == {"ttl_expired", "failed", "exited", "stale", "asked"}

NoPods == [p \in Pods |-> AbsentPod]
NoDraft == [p \in Pods |-> NoEntry]
NothingToReap == [p \in Pods |-> "no"]

-----------------------------------------------------------------------------
(***************************************************************************)
(* POST /api/provision                                                     *)
(***************************************************************************)
NewRequest == [pc |-> "new", pod |-> NoPod, at |-> 0, exp |-> NoTime,
               sb |-> NoEntry, late |-> FALSE]

\* Between ClaimIdle and the answer.
InFlightPcs == {"claimed", "detached", "failed", "recorded"}
InFlight(r) == req[r].pc \in InFlightPcs
Holds(r, p) == InFlight(r) /\ req[r].pod = p

\* expiresAt of a request: nil when unlimited, else clamped to two hours.
Expiry(life) ==
    CASE life = Unlimited     -> NoTime
      [] life > MaxLifetime   -> now + MaxLifetime
      [] OTHER                -> now + life

\* 503: no idle sandbox.
Refuse(r) ==
    /\ req[r].pc = "new"
    /\ \A p \in Pods : ~IsIdle(p)
    /\ req' = [req EXCEPT ![r].pc = "refused"]
    /\ UNCHANGED <<api, store, now, syncVars, reap, crashes>>

\* Mutant: a nil answer of ClaimIdle is not looked at.
ProvisionNilUnchecked(r, p, life) ==
    /\ req[r].pc = "new"
    /\ req' = [req EXCEPT ![r] = [pc |-> "claimed", pod |-> p, at |-> now,
                                  exp |-> Expiry(life), sb |-> store[p],
                                  late |-> FALSE]]
    /\ UNCHANGED <<api, store, now, syncVars, reap, crashes>>

\* The body is parsed, the expiry computed and an idle entry taken.
Provision(r, p, life) ==
    /\ req[r].pc = "new"
    /\ ClaimIdle(r, p)
    /\ req' = [req EXCEPT ![r] = [pc |-> "claimed", pod |-> p, at |-> now,
                                  exp |-> Expiry(life), sb |-> store'[p],
                                  late |-> FALSE]]
    /\ UNCHANGED <<api, now, syncVars, reap, crashes>>

\* The patch is applied and its success reported.
Detach(r) ==
    /\ req[r].pc = "claimed"
    /\ Patch(req[r].pod, req[r].at)
    /\ req' = [req EXCEPT ![r].pc = "detached"]
    /\ UNCHANGED <<store, now, syncVars, reap, crashes>>

\* Mutant: the error of the patch is logged and forgotten.
DetachFailsIgnored(r) ==
    /\ req[r].pc = "claimed"
    /\ req' = [req EXCEPT ![r].pc = "detached", ![r].late = Present(req[r].pod)]
    /\ UNCHANGED <<api, store, now, syncVars, reap, crashes>>

\* An error comes back: the pod is gone, or the call timed out or was
\* cancelled with its client and the patch may still be applied later.
DetachFails(r) ==
    /\ req[r].pc = "claimed"
    /\ req' = [req EXCEPT ![r].pc = "failed", ![r].late = Present(req[r].pod)]
    /\ UNCHANGED <<api, store, now, syncVars, reap, crashes>>

\* The API server applies a patch nobody waits for any more.
LateDetach(r) ==
    /\ req[r].late
    /\ Patch(req[r].pod, req[r].at)
    /\ req' = [req EXCEPT ![r].late = FALSE]
    /\ UNCHANGED <<store, now, syncVars, reap, crashes>>

\* Back to idle "so it can be claimed again".
Rollback(r) ==
    /\ req[r].pc = "failed"
    /\ Upsert(req[r].pod, [req[r].sb EXCEPT !.state = "idle", !.by = NoReq])
    /\ req' = [req EXCEPT ![r].pc = "error", ![r].sb = NoEntry]
    /\ UNCHANGED <<api, now, syncVars, reap, crashes>>

\* DetachedAt and ExpiresAt are written through the pointer: into the map when
\* the map still points to this object, into an orphaned object otherwise.
Record(r) ==
    LET p == req[r].pod
        sb == [req[r].sb EXCEPT !.det = now, !.exp = req[r].exp]
    IN  /\ req[r].pc = "detached"
        /\ req' = [req EXCEPT ![r].pc = "recorded", ![r].sb = sb]
        /\ store' = IF Known(p) /\ store[p].by = r
                    THEN [store EXCEPT ![p] = sb]
                    ELSE store
        /\ UNCHANGED <<api, now, syncVars, reap, crashes>>

\* Mutant: the object is put back as active, the state the documents promise.
GrantAsActive(r) ==
    /\ req[r].pc = "recorded"
    /\ Upsert(req[r].pod, [req[r].sb EXCEPT !.by = NoReq, !.state = "active"])
    /\ req' = [req EXCEPT ![r].pc = "granted", ![r].sb = NoEntry]
    /\ UNCHANGED <<api, now, syncVars, reap, crashes>>

\* The object is put back into the map and the client gets its 200.
Grant(r) ==
    /\ req[r].pc = "recorded"
    /\ Upsert(req[r].pod, [req[r].sb EXCEPT !.by = NoReq])
    /\ req' = [req EXCEPT ![r].pc = "granted", ![r].sb = NoEntry]
    /\ UNCHANGED <<api, now, syncVars, reap, crashes>>

ProvisionStep(r) ==
    \/ Refuse(r)
    \/ \E p \in Pods, life \in Lifetimes \cup {Unlimited} : Provision(r, p, life)
    \/ Detach(r)
    \/ DetachFails(r)
    \/ LateDetach(r)
    \/ Rollback(r)
    \/ Record(r)
    \/ Grant(r)

-----------------------------------------------------------------------------
(***************************************************************************)
(* sync(), first half: the cluster is listed once, then each listed pod is *)
(* merged with what the store holds of it and upserted.                    *)
(***************************************************************************)

\* sync's view of a listed pod.
Derived(pod) ==
    CASE pod.cond = "failed" -> "failed"
      [] pod.cond # "failed" /\ pod.claimed -> "active"
      [] pod.cond = "ready" /\ ~pod.claimed -> "idle"
      [] OTHER -> "pending"

\* DetachedAt of the fresh object: the annotation for a claimed pod the store
\* does not know (a restart of the controller), now for one it still has in the
\* pool, else what the existing object says.
DetachedAt(pod, existing) ==
    CASE existing = NoEntry /\ Derived(pod) # "active" -> NoTime
      [] existing = NoEntry /\ Derived(pod) = "active" ->
            IF pod.claimedAt # NoTime THEN pod.claimedAt ELSE now
      [] OTHER ->
            IF Derived(pod) = "active" /\ existing.state \in {"idle", "pending"}
            THEN now ELSE existing.det

\* Mutant: a pod the store thinks claimed is taken for active.
MergeTrustingStore(pod, existing) ==
    [state |-> IF existing # NoEntry /\ existing.state = "provisioning"
               THEN "active" ELSE Derived(pod),
     det |-> DetachedAt(pod, existing),
     exp |-> IF existing = NoEntry THEN NoTime ELSE existing.exp,
     exited |-> pod.cond = "exited",
     by |-> NoReq]

\* Mutant: the 24h clock of an active sandbox starts anew at every sync.
MergeRestartingClock(pod, existing) ==
    [state |-> Derived(pod),
     det |-> IF Derived(pod) = "active" THEN now ELSE DetachedAt(pod, existing),
     exp |-> IF existing = NoEntry THEN NoTime ELSE existing.exp,
     exited |-> pod.cond = "exited",
     by |-> NoReq]

\* Mutant: neither the expiry nor the detach time is carried over.
MergeForgetting(pod, existing) ==
    [state |-> Derived(pod),
     det |-> IF existing # NoEntry /\ existing.state \notin {"idle", "pending"}
             THEN NoTime ELSE DetachedAt(pod, existing),
     exp |-> NoTime,
     exited |-> pod.cond = "exited",
     by |-> NoReq]

\* The sb sync builds from the listed pod and the existing entry.  A pod whose
\* label says idle becomes idle again whatever the store thought of it.
Merge(pod, existing) ==
    [state |-> Derived(pod),
     det |-> DetachedAt(pod, existing),
     exp |-> IF existing = NoEntry THEN NoTime ELSE existing.exp,
     exited |-> pod.cond = "exited",
     by |-> NoReq]

ToMerge == {p \in Pods : snap[p].life = "live"}

\* Mutant: claimed pods are not listed (a label selector too many).
SyncStartPoolOnly ==
    /\ syncPc = "idle"
    /\ syncPc' = "scan"
    /\ live' = {p \in Pods : api[p].life = "live" /\ ~api[p].claimed}
    /\ snap' = [p \in Pods |-> IF p \in live' THEN api[p] ELSE AbsentPod]
    /\ UNCHANGED <<api, store, now, req, draft, reap, crashes>>

\* Pods.List; pods with a DeletionTimestamp are skipped.
SyncStart ==
    /\ syncPc = "idle"
    /\ syncPc' = "scan"
    /\ live' = {p \in Pods : api[p].life = "live"}
    /\ snap' = [p \in Pods |-> IF p \in live' THEN api[p] ELSE AbsentPod]
    /\ UNCHANGED <<api, store, now, req, draft, reap, crashes>>

\* store.Get, and the fresh object built from it.
SyncMerge(p) ==
    /\ p \in ToMerge
    /\ draft = NoDraft
    /\ draft' = [draft EXCEPT ![p] = Merge(snap[p], store[p])]
    /\ snap' = [snap EXCEPT ![p] = AbsentPod]
    /\ UNCHANGED <<api, store, now, req, syncPc, live, reap, crashes>>

\* store.Upsert of that object, over whatever the map holds by then.
SyncUpsert(p) ==
    /\ draft[p] # NoEntry
    /\ Upsert(p, draft[p])
    /\ draft' = [draft EXCEPT ![p] = NoEntry]
    /\ UNCHANGED <<api, now, req, syncPc, snap, live, reap, crashes>>

SyncPrune ==
    /\ syncPc = "scan"
    /\ ToMerge = {}
    /\ draft = NoDraft
    /\ Prune(live)
    /\ syncPc' = "pruned"
    /\ live' = {}
    /\ UNCHANGED <<api, now, req, snap, draft, reap, crashes>>

-----------------------------------------------------------------------------
(***************************************************************************)
(* sync(), second half: gc() and gcCompletedPods().                        *)
(***************************************************************************)

\* Mutant: a pod of the pool that exits is collected as exited.
ReasonExitedAnyState(e) ==
    IF e = NoEntry THEN "no"
    ELSE IF e.state = "active" /\ OlderThan(e.exp, 0, now) THEN "ttl_expired"
    ELSE IF e.state = "failed" THEN "failed"
    ELSE IF e.exited THEN "exited"
    ELSE IF e.state = "active" /\ e.exp = NoTime /\ OlderThan(e.det, StaleAge, now)
         THEN "stale"
    ELSE "no"

\* Mutant: an expiry that is reached but not yet passed counts as expired.
ReasonTooEarly(e) ==
    IF e = NoEntry THEN "no"
    ELSE IF e.state = "active" /\ OlderThan(e.exp, -1, now) THEN "ttl_expired"
    ELSE IF e.state = "failed" THEN "failed"
    ELSE IF e.state = "active" /\ e.exited THEN "exited"
    ELSE IF e.state = "active" /\ e.exp = NoTime /\ OlderThan(e.det, StaleAge, now)
         THEN "stale"
    ELSE "no"

\* gc's switch, its cases tried in order.
Reason(e) ==
    IF e = NoEntry THEN "no"
    ELSE IF e.state = "active" /\ OlderThan(e.exp, 0, now) THEN "ttl_expired"
    ELSE IF e.state = "failed" THEN "failed"
    ELSE IF e.state = "active" /\ e.exited THEN "exited"
    ELSE IF e.state = "active" /\ e.exp = NoTime /\ OlderThan(e.det, StaleAge, now)
         THEN "stale"
    ELSE "no"

\* store.List and the switch.  The loop reads the entries' fields one by one
\* and later, but only sync writes "active" and "failed" objects and nobody
\* writes to one afterwards, so each entry is judged as it is listed.
GcSelect ==
    /\ syncPc = "pruned"
    /\ syncPc' = "gc"
    /\ reap' = [reap EXCEPT ![GC] = [p \in Pods |-> Reason(store[p])]]
    /\ UNCHANGED <<api, store, now, req, snap, live, draft, crashes>>

GcDone ==
    /\ syncPc = "gc"
    /\ reap[GC] = NothingToReap
    /\ syncPc' = "sweep"
    /\ UNCHANGED <<api, store, now, req, snap, live, draft, reap, crashes>>

\* gcCompletedPods: a Succeeded pod is deleted when it is two minutes old;
\* ages are not modelled, so the sweep may pass over any of them.
SweepCompleted(p) ==
    /\ syncPc = "sweep"
    /\ api[p].cond = "exited"
    /\ ForceDelete(p)
    /\ UNCHANGED <<store, now, req, syncVars, reap, crashes>>

SyncDone ==
    /\ syncPc = "sweep"
    /\ syncPc' = "idle"
    /\ UNCHANGED <<api, store, now, req, snap, live, draft, reap, crashes>>

-----------------------------------------------------------------------------
(***************************************************************************)
(* Deleting pods: DELETE /api/sandboxes/{name}, POST .../restart,          *)
(* DELETE /api/claimed and gc() all make the same two calls per pod, the   *)
(* API server's Delete and then, if that succeeded, store.Remove.          *)
(***************************************************************************)
Ask(x, pods) ==
    /\ reap[x] = NothingToReap
    /\ reap' = [reap EXCEPT ![x] = [p \in Pods |-> IF p \in pods THEN "asked" ELSE "no"]]
    /\ UNCHANGED <<api, store, now, req, syncVars, crashes>>

\* The name comes from the URL; the store is not consulted.
HandleDelete(x, p) == api[p].life # "absent" /\ Ask(x, {p})

HandleRestart(x, p) == Known(p) /\ Ask(x, {p})

DeleteAllClaimed(x) == Ask(x, {p \in Pods : Present(p) /\ api[p].claimed})

\* One pod at a time: its Remove comes before the next Delete.
Removing(x) == \E p \in Pods : reap[x][p] = "removing"

ReapDelete(x, p) ==
    /\ reap[x][p] \in Reasons
    /\ ~Removing(x)
    /\ ForceDelete(p)
    /\ reap' = [reap EXCEPT ![x][p] = "removing"]
    /\ UNCHANGED <<store, now, req, syncVars, crashes>>

ReapRemove(x, p) ==
    /\ reap[x][p] = "removing"
    /\ Remove(p)
    /\ reap' = [reap EXCEPT ![x][p] = "no"]
    /\ UNCHANGED <<api, now, req, syncVars, crashes>>

\* The call reports an error; the pod is deleted all the same or is not.
ReapFails(x, p) ==
    /\ reap[x][p] \in Reasons
    /\ ~Removing(x)
    /\ ForceDelete(p) \/ UNCHANGED api
    /\ reap' = [reap EXCEPT ![x][p] = "no"]
    /\ UNCHANGED <<store, now, req, syncVars, crashes>>

ReapStep(x) ==
    \E p \in Pods : ReapDelete(x, p) \/ ReapRemove(x, p) \/ ReapFails(x, p)

AdminStep(x) ==
    \/ \E p \in Pods : HandleDelete(x, p) \/ HandleRestart(x, p)
    \/ DeleteAllClaimed(x)
    \/ ReapStep(x)

SyncStep ==
    \/ SyncStart
    \/ \E p \in Pods : SyncMerge(p) \/ SyncUpsert(p) \/ SweepCompleted(p)
    \/ SyncPrune
    \/ GcSelect
    \/ ReapStep(GC)
    \/ GcDone
    \/ SyncDone

-----------------------------------------------------------------------------
(***************************************************************************)
(* The process dies and is started again with an empty store.  Patches on  *)
(* their way may still be applied.                                         *)
(***************************************************************************)
Restart ==
    /\ crashes < MaxCrashes
    /\ crashes' = crashes + 1
    /\ store' = [p \in Pods |-> NoEntry]
    /\ req' = [r \in Requests |->
                 IF InFlight(r)
                 THEN [req[r] EXCEPT !.pc = "lost", !.sb = NoEntry,
                                     !.late = (req[r].pc = "claimed") \/ @]
                 ELSE req[r]]
    /\ syncPc' = "idle"
    /\ snap' = NoPods
    /\ live' = {}
    /\ draft' = NoDraft
    /\ reap' = [x \in Deleters |-> NothingToReap]
    /\ UNCHANGED <<api, now>>

Tick ==
    /\ now < MaxTime
    /\ now' = now + 1
    /\ UNCHANGED <<api, store, req, syncVars, reap, crashes>>

KubeStep ==
    /\ \E p \in Pods : \/ CreatePod(p)
                       \/ ScaleDown(p)
                       \/ Terminated(p)
                       \/ \E c \in Reported : Kubelet(p, c)
    /\ UNCHANGED <<store, now, req, syncVars, reap, crashes>>

Init ==
    /\ KubeInit
    /\ StoreInit
    /\ now = 0
    /\ req = [r \in Requests |-> NewRequest]
    /\ syncPc = "idle"
    /\ snap = NoPods
    /\ live = {}
    /\ draft = NoDraft
    /\ reap = [x \in Deleters |-> NothingToReap]
    /\ crashes = 0

Next ==
    \/ \E r \in Requests : ProvisionStep(r)
    \/ SyncStep
    \/ \E x \in Admins : AdminStep(x)
    \/ KubeStep
    \/ Restart
    \/ Tick

Spec == Init /\ [][Next]_vars
=============================================================================

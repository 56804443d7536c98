------------------------- MODULE WarmPoolInvariant --------------------------
(***************************************************************************)
(* The inductive invariant behind the safety properties of WarmPool, in    *)
(* six parts.  The properties themselves speak of single variables; what   *)
(* makes them inductive is that the same facts hold of every copy the      *)
(* program makes: the map, sync's snapshot and draft, the handlers'        *)
(* pointers.                                                               *)
(***************************************************************************)
EXTENDS WarmPoolProperties

\* A copy names only pods that exist or existed.
Existed(p) == api[p].life # "absent"

\* Only existing pods get into the store, into a snapshot or into the hands of a
\* request; sync's copies are those of the pods it listed.  A name not used yet is blank.
OnlyCreatedPods ==
    /\ \A p \in Pods : ~Existed(p) => api[p] = AbsentPod
    /\ \A p \in Pods : Known(p) => Existed(p)
    /\ \A p \in Pods, r \in Requests : Holds(r, p) => Existed(p)
    /\ \A p \in Pods : snap[p].life = "live" => Existed(p) /\ p \in live /\ syncPc = "scan"
    /\ \A p \in Pods : draft[p] # NoEntry => Existed(p) /\ p \in live /\ syncPc = "scan"

\* While sync works through its list, a pod that is not on it is dead, or so new
\* that neither the store nor a request has heard of it.
Unheld(p) == \A r \in Requests : ~Holds(r, p)
Unheard(p) == store[p] = NoEntry /\ Unheld(p)

UnlistedPods ==
    syncPc = "scan" =>
        \A p \in Pods \ live : api[p].life \in {"deleting", "gone"} \/ Unheard(p)

\* Every copy that takes a pod for claimed is right.
ActiveEntry(e) == e # NoEntry /\ e.state = "active"

ClaimedCopies ==
    /\ \A p \in Pods : ActiveEntry(store[p]) => api[p].claimed
    /\ \A p \in Pods : ActiveEntry(draft[p]) => api[p].claimed
    /\ \A p \in Pods : snap[p].claimed => api[p].claimed
    /\ \A r \in Requests : InFlight(r) => req[r].sb.state = "provisioning"
    /\ GcSparesPool

\* A request that got past the patch is at work on a detached pod.
DetachedRequests ==
    \A r \in Requests : req[r].pc \in {"detached", "recorded"} => api[req[r].pod].claimed

\* While the store calls a pod active, sync works from a list that shows it detached,
\* and the object it is about to upsert neither offers the pod again nor, when no
\* request is at work on the pod, changes its clock.
SettledCopies ==
    /\ \A p \in Pods : draft[p] # NoEntry => snap[p].life # "live"
    /\ \A p \in Pods : ActiveEntry(store[p]) =>
          /\ snap[p].life = "live" => snap[p].claimed
          /\ draft[p] # NoEntry => draft[p].state \in {"active", "failed"}
          /\ draft[p] # NoEntry /\ Unheld(p) =>
                draft[p].exp = store[p].exp /\ draft[p].det = store[p].det

\* t is the expiry some request asked for pod p.
AskedFor(p, t) ==
    t # NoTime => \E r \in Requests : req[r].pod = p /\ req[r].exp = t

\* By time t some request had claimed pod p.
ClaimedBy(p, t) ==
    t # NoTime => \E r \in Requests : req[r].pod = p /\ req[r].at <= t

HonestEntry(p, e) ==
    e # NoEntry => AskedFor(p, e.exp) /\ ClaimedBy(p, e.det)

\* A pod's label and annotation come from a claim made by now.
HonestPod(p, pod) ==
    /\ pod.claimed => ClaimedBy(p, now)
    /\ ClaimedBy(p, pod.claimedAt)

\* Every expiry and detach time of a pod, in whatever copy, goes back to a
\* request that claimed this very pod.
HonestTimes ==
    /\ \A p \in Pods : HonestEntry(p, store[p])
    /\ \A p \in Pods : HonestEntry(p, draft[p])
    /\ \A p \in Pods : HonestPod(p, api[p])
    /\ \A p \in Pods : HonestPod(p, snap[p])
    /\ \A r \in Requests : InFlight(r) => HonestEntry(req[r].pod, req[r].sb)
    /\ \A r \in Requests : req[r].at <= now
    /\ \A r \in Requests : req[r].pc \in {"new", "refused"} => req[r].pod = NoPod
    /\ DeletionsAreDue

\* The inductive invariant: InductiveInvariant and TypeOK hold initially and are kept
\* by every step (all of handlers.go's and reconciler.go's uses of the store).
InductiveInvariant ==
    /\ OnlyCreatedPods
    /\ UnlistedPods
    /\ ClaimedCopies
    /\ DetachedRequests
    /\ SettledCopies
    /\ HonestTimes
=============================================================================

------------------------- MODULE WarmPoolProperties -------------------------
(***************************************************************************)
(* What is claimed of WarmPool: the invariants, action properties and      *)
(* liveness properties that hold, and the promises of comments and         *)
(* documents that do not.                                                  *)
(***************************************************************************)
EXTENDS WarmPool

(***************************************************************************)
(* Types.                                                                  *)
(***************************************************************************)
RequestRecord ==
    [pc: {"new", "refused", "claimed", "detached", "failed", "recorded",
          "granted", "error", "lost"},
     pod: Pods \cup {NoPod}, at: Int, exp: Time,
     sb: Entry \cup {NoEntry}, late: BOOLEAN]

HoldsWhatItNeeds(q) ==
    /\ q.pc \in InFlightPcs => q.pod \in Pods /\ q.sb \in Entry
    /\ q.late => q.pod \in Pods

\* TypeOK: every variable keeps its shape.  Beyond shapes it says that a request
\* between ClaimIdle and the answer holds a *Sandbox of some pod (the nil check of
\* handlers.go:143), and that an abandoned patch names a pod.
TypeOK ==
    /\ api \in [Pods -> Pod]
    /\ store \in [Pods -> Entry \cup {NoEntry}]
    /\ now \in Nat
    /\ req \in [Requests -> RequestRecord]
    /\ \A r \in Requests : HoldsWhatItNeeds(req[r])
    /\ syncPc \in {"idle", "scan", "pruned", "gc", "sweep"}
    /\ snap \in [Pods -> Pod]
    /\ live \subseteq Pods
    /\ draft \in [Pods -> Entry \cup {NoEntry}]
    /\ reap \in [Deleters -> [Pods -> Reasons \cup {"no", "removing"}]]
    /\ crashes \in 0..MaxCrashes

-----------------------------------------------------------------------------
(***************************************************************************)
(* Invariants.                                                             *)
(***************************************************************************)

\* The store never calls a pod active that no claim detached: whatever sync
\* and the handlers interleave, "active" is only derived from a label that,
\* once false, stays false (reconciler.go:115-118, handlers.go:151).
ActiveIsClaimed ==
    \A p \in Pods : Known(p) /\ store[p].state = "active" => api[p].claimed

\* gc's lifetime rules never reach a pod of the pool: when a pod is on its way
\* to be deleted as ttl_expired, exited or stale, some claim has detached it
\* (reconciler.go:253-269; the store gc reads may be older than the cluster).
GcSparesPool ==
    \A p \in Pods :
        reap[GC][p] \in {"ttl_expired", "exited", "stale"} => api[p].claimed

\* A pod is never deleted before its time: ttl_expired needs a request for
\* this very pod whose expiry has passed, stale one that claimed it more than
\* 24 hours ago (expiries and detach times move between objects in
\* handleProvision and sync, none may end up on another pod).
DeletionsAreDue ==
    \A p \in Pods :
        /\ reap[GC][p] = "ttl_expired" =>
              \E r \in Requests : req[r].pod = p /\ OlderThan(req[r].exp, 0, now)
        /\ reap[GC][p] = "stale" =>
              \E r \in Requests : req[r].pod = p /\ OlderThan(req[r].at, StaleAge, now)

-----------------------------------------------------------------------------
(***************************************************************************)
(* Action properties.                                                      *)
(***************************************************************************)

\* Prune never drops a pod the cluster still runs, although the names it keeps
\* come from a list made before the loop: an entry missing from the list is of
\* a pod that is gone or terminating (store.go:188-201, reconciler.go:203).
PruneDropsOnlyDead ==
    [][SyncPrune => \A p \in Pods :
          Known(p) /\ store'[p] = NoEntry => api[p].life \in {"deleting", "gone"}]_vars

\* A claim the store has seen completed: a sync found the pod detached, and no
\* request is still working on it.
Settled(p) ==
    /\ Known(p) /\ store[p].state = "active"
    /\ \A r \in Requests : ~Holds(r, p)

\* Once a claim has settled, the pod is never offered again: no later sync,
\* rollback or restart makes its entry idle (reconciler.go:184-200 reverts
\* entries to idle on a stale list, handlers.go:159-163 on an error).
SettledIsFinal == \A p \in Pods : [](Settled(p) => []~IsIdle(p))

\* Once a claim has settled, its clock is fixed: the expiry and the detach time in
\* the store stay what they are for as long as the store knows the pod, through every
\* sync that replaces the object (reconciler.go:142-182, 200).
ClockIsKept ==
    [][\A p \in Pods : Settled(p) /\ store'[p] # NoEntry =>
          /\ store'[p].exp = store[p].exp
          /\ store'[p].det = store[p].det]_vars

-----------------------------------------------------------------------------
(***************************************************************************)
(* Liveness, under the fairness the program's scheduling gives.            *)
(***************************************************************************)

\* The ticker starts a sync every second and sync runs to its end; time
\* passes; and the API server does not refuse the reconciler's deletions for
\* ever.  Nothing is assumed of clients, requests or the cluster.
Fairness ==
    /\ WF_vars(SyncStep)
    /\ \A p \in Pods : SF_vars(ReapDelete(GC, p))
    /\ WF_vars(Tick)

FairSpec == Spec /\ Fairness

\* A settled claim that still has a clock within the modelled time:
\* an expiry, or a detach time for the 24h rule.
OnTheClock(p) ==
    /\ Settled(p)
    /\ \/ store[p].exp # NoTime /\ store[p].exp < MaxTime
       \/ /\ store[p].exp = NoTime
          /\ store[p].det # NoTime /\ store[p].det + StaleAge < MaxTime

\* Every settled claim that has an expiry or a detach time ends: its pod is
\* eventually removed from the cluster, whatever deletions fail on the way.
ClaimsEnd == \A p \in Pods : OnTheClock(p) ~> api[p].life = "gone"

\* Entries of removed pods, which handlers and sync can put back into the
\* store after their removal, do not stay (reconciler.go:203).
GhostsVanish ==
    \A p \in Pods : api[p].life = "gone" ~> store[p] = NoEntry

-----------------------------------------------------------------------------
(***************************************************************************)
(* The abstract specification.                                             *)
(***************************************************************************)
LeasedPod(p) ==
    CASE api[p].life = "absent" -> "none"
      [] Present(p) -> IF api[p].claimed THEN "leased" ELSE "pool"
      [] OTHER -> IF api[p].claimed THEN "ended" ELSE "gone"

LeaseState(r) ==
    CASE req[r].pc \in {"new", "refused"} -> "none"
      [] InFlight(r) -> "open"
      [] req[r].pc = "granted" -> "granted"
      [] OTHER -> "over"

LeaseOf(r) ==
    [st |-> LeaseState(r), pod |-> req[r].pod, at |-> req[r].at, exp |-> req[r].exp]

DoomOf(p) ==
    UNION {{reap[x][p] : x \in Deleters} \cap Reasons,
           IF api[p].life = "deleting" THEN {"scaled"} ELSE {},
           IF Present(p) /\ api[p].cond = "exited" THEN {"completed"} ELSE {}}

Lease == INSTANCE SandboxLease WITH
            pod <- [p \in Pods |-> LeasedPod(p)],
            lease <- [r \in Requests |-> LeaseOf(r)],
            doom <- [p \in Pods |-> DoomOf(p)]

\* The controller implements SandboxLease: every way a claimed pod can end has a
\* warrant at the time it was decided (gc's rules, a client, a scale-down from
\* before the claim), a 200 is only answered for a detached pod, and a detached
\* pod never returns to the pool (handlers.go:114-194, reconciler.go:249-313).
ImplementsLease == Lease!Spec

-----------------------------------------------------------------------------
(***************************************************************************)
(* Promises the code does not keep.                                        *)
(***************************************************************************)

\* store.go:131-133, ClaimIdle: "Uses a write lock to prevent two concurrent
\* callers from claiming the same sandbox."
ExclusiveClaims ==
    \A r1, r2 \in Requests :
        req[r1].pc = "granted" /\ req[r2].pc = "granted" /\ r1 # r2
            => req[r1].pod # req[r2].pod

\* reconciler.go:247-248: "The controller owns the full lifecycle: TTL expiry,
\* failed/crashed/OOM pods, and stale unlimited pods."  A settled active
\* sandbox has an expiry or a detach time, else none of gc's lifetime rules reaches it.
ClaimsAreReapable ==
    \A p \in Pods :
        Settled(p) /\ draft = NoDraft
            => store[p].exp # NoTime \/ store[p].det # NoTime

\* docs/specs/controller/integration-spec.md:86: "Claimed pods (warmpool=false)
\* are true orphans (ownerReferences cleared) and unaffected by replica
\* scaling": what a client is granted is not being scaled away.
GrantsSurviveScaling ==
    [][\A r \in Requests : req[r].pc = "granted" => ~Terminated(req[r].pod)]_vars

\* docs/specs/controller/integration-spec.md:126: gc deletes an "Active pod
\* past expiresAt", expiresAt being what the client was answered; it should
\* not depend on whether the controller was restarted since.
ExpirySurvivesRestart ==
    \A r \in Requests :
        crashes > 0 /\ req[r].pc = "granted" /\ req[r].exp # NoTime /\ Settled(req[r].pod)
            => store[req[r].pod].exp # NoTime
=============================================================================

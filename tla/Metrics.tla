------------------------------ MODULE Metrics ------------------------------
(***************************************************************************)
(* The controller's histograms beside the warm pool: ScheduleObserved,     *)
(* the flag of a *Sandbox that says its pod's start was measured, and the  *)
(* Prometheus registry that POST /api/metrics/reset takes the histograms   *)
(* out of and puts new ones into (metrics.go, store.go, reconciler.go).    *)
(*                                                                         *)
(* Every step of WarmPool is taken here too; those that read or write a    *)
(* flag do so in the same step.  Nothing here changes the pool.            *)
(* (ReadyObserved is written in several places and never read.)            *)
(***************************************************************************)
EXTENDS WarmPool, FiniteSets

CONSTANTS
    Resetters,   \* clients that reset the metrics
    MaxResets    \* bound: resets per client

ASSUME MaxResetsAssumption == MaxResets \in Nat
ASSUME RequestsAssumption == IsFiniteSet(Requests)

VARIABLES
    mark,      \* per pod: the flag of the object in the map
    held,      \* per request: the flag of the object it holds
    fresh,     \* per pod: the flag of sync's draft
    counted,   \* per pod: how often its start was observed and counted
    hist,      \* per histogram: the instance the global variable holds
    shown,     \* ... the instance that is registered, NoHist if none
    made,      \* ... how many instances there have been
    reset,     \* per client: where resetMetrics is, for which histogram
    cleared    \* how often ResetObservations has run

flagVars == <<mark, held, fresh, counted>>
registryVars == <<hist, shown, made, reset, cleared>>
metricsVars == <<flagVars, registryVars>>
allVars == <<vars, metricsVars>>

Histograms == {"schedule", "claim"}
NoHist == 0
ResetAt(pc, h, i, n) == [pc |-> pc, name |-> h, mine |-> i, n |-> n]
NoReset == ResetAt("idle", "schedule", NoHist, 0)

Resetting(x) == reset[x].pc \in {"unregister", "register", "assign", "flags"}

-----------------------------------------------------------------------------
(***************************************************************************)
(* The flags, as the steps of the pool carry them along.                   *)
(***************************************************************************)
ClaimFlag(r) ==
    /\ \E p \in Pods, life \in Lifetimes \cup {Unlimited} :
          Provision(r, p, life) /\ held' = [held EXCEPT ![r] = mark[p]]
    /\ UNCHANGED <<mark, fresh, counted, registryVars>>

\* The object that is put back brings its own flag with it.
PutBackFlag(r) ==
    /\ Rollback(r) \/ Grant(r)
    /\ mark' = [mark EXCEPT ![req[r].pod] = held[r]]
    /\ held' = [held EXCEPT ![r] = FALSE]
    /\ UNCHANGED <<fresh, counted, registryVars>>

\* Mutant: the flag of the existing object is not carried over.
KeptFlagLost(p) == FALSE

\* The flag sync copies from the existing object.
KeptFlag(p) == Known(p) /\ mark[p]

\* sync observes a pod of the pool that is ready and not marked.
MergeFlag(p) ==
    /\ SyncMerge(p)
    /\ LET ready == Derived(snap[p]) = "idle"
       IN  /\ fresh' = [fresh EXCEPT ![p] = KeptFlag(p) \/ ready]
           /\ counted' = [counted EXCEPT ![p] =
                            IF ready /\ ~KeptFlag(p) THEN @ + 1 ELSE @]
    /\ UNCHANGED <<mark, held, registryVars>>

UpsertFlag(p) ==
    /\ SyncUpsert(p)
    /\ mark' = [mark EXCEPT ![p] = fresh[p]]
    /\ fresh' = [fresh EXCEPT ![p] = FALSE]
    /\ UNCHANGED <<held, counted, registryVars>>

\* Steps that leave the objects in the map as they are, or remove some.
QuietStep ==
    /\ \/ \E r \in Requests : \/ Refuse(r) \/ Detach(r) \/ DetachFails(r)
                              \/ LateDetach(r) \/ Record(r)
       \/ SyncStart \/ SyncPrune \/ GcSelect \/ GcDone \/ SyncDone
       \/ \E p \in Pods : SweepCompleted(p)
       \/ ReapStep(GC)
       \/ \E x \in Admins : AdminStep(x)
       \/ KubeStep
       \/ Tick
    /\ mark' = [p \in Pods |-> mark[p] /\ store'[p] # NoEntry]
    /\ UNCHANGED <<held, fresh, counted, registryVars>>

-----------------------------------------------------------------------------
(***************************************************************************)
(* handleMetricsReset: for each histogram Unregister, NewHistogram and the *)
(* assignment to its variable, then ResetObservations.                     *)
(***************************************************************************)
At(x, pc) == reset[x].pc = pc
Goto(x, pc) == reset' = [reset EXCEPT ![x].pc = pc]

ResetStart(x) ==
    /\ ~Resetting(x)
    /\ reset[x].n < MaxResets
    /\ reset' = [reset EXCEPT ![x] = ResetAt("unregister", "schedule", NoHist, @.n + 1)]
    /\ UNCHANGED <<vars, flagVars, hist, shown, made, cleared>>

\* Mutant: the variable is set to nil meanwhile.
UnregisterAndClear(x) ==
    /\ At(x, "unregister")
    /\ shown' = [shown EXCEPT ![reset[x].name] = NoHist]
    /\ hist' = [hist EXCEPT ![reset[x].name] = NoHist]
    /\ Goto(x, "register")
    /\ UNCHANGED <<vars, flagVars, made, cleared>>

\* Unregister goes by the descriptor: it takes out whatever instance is in.
Unregister(x) ==
    /\ At(x, "unregister")
    /\ shown' = [shown EXCEPT ![reset[x].name] = NoHist]
    /\ Goto(x, "register")
    /\ UNCHANGED <<vars, flagVars, hist, made, cleared>>

\* Mutant: prometheus.NewHistogram, which does not register.
RegisterNothing(x) ==
    /\ At(x, "register")
    /\ made' = [made EXCEPT ![reset[x].name] = @ + 1]
    /\ UNCHANGED shown
    /\ reset' = [reset EXCEPT ![x] = ResetAt("assign", @.name, made[@.name] + 1, @.n)]
    /\ UNCHANGED <<vars, flagVars, hist, cleared>>

\* promauto.NewHistogram.
Register(x) ==
    LET h == reset[x].name
    IN  /\ At(x, "register")
        /\ shown[h] = NoHist
        /\ made' = [made EXCEPT ![h] = @ + 1]
        /\ shown' = [shown EXCEPT ![h] = made[h] + 1]
        /\ reset' = [reset EXCEPT ![x] = ResetAt("assign", h, made[h] + 1, @.n)]
        /\ UNCHANGED <<vars, flagVars, hist, cleared>>

\* It panics on a name that is taken; net/http recovers, the request is over.
RegisterPanics(x) ==
    /\ At(x, "register")
    /\ shown[reset[x].name] # NoHist
    /\ Goto(x, "panicked")
    /\ UNCHANGED <<vars, flagVars, hist, shown, made, cleared>>

\* Mutant: := declares a local variable of the same name.
AssignShadowed(x) ==
    LET h == reset[x].name
    IN  /\ At(x, "assign")
        /\ reset' = [reset EXCEPT ![x] =
              ResetAt(IF h = "schedule" THEN "unregister" ELSE "flags",
                      "claim", NoHist, @.n)]
        /\ UNCHANGED <<vars, flagVars, hist, shown, made, cleared>>

Assign(x) ==
    LET h == reset[x].name
    IN  /\ At(x, "assign")
        /\ hist' = [hist EXCEPT ![h] = reset[x].mine]
        /\ reset' = [reset EXCEPT ![x] =
              ResetAt(IF h = "schedule" THEN "unregister" ELSE "flags",
                      "claim", NoHist, @.n)]
        /\ UNCHANGED <<vars, flagVars, shown, made, cleared>>

\* ResetObservations: the objects in the map, also one that a request holds.
ClearFlags(x) ==
    /\ At(x, "flags")
    /\ mark' = [p \in Pods |-> FALSE]
    /\ held' = [r \in Requests |->
                  held[r] /\ ~\E p \in Pods : Known(p) /\ store[p].by = r]
    /\ Goto(x, "answered")
    /\ cleared' = cleared + 1
    /\ UNCHANGED <<vars, fresh, counted, hist, shown, made>>

ResetStep(x) ==
    \/ ResetStart(x) \/ Unregister(x) \/ Register(x) \/ RegisterPanics(x)
    \/ Assign(x) \/ ClearFlags(x)

-----------------------------------------------------------------------------
\* A process starts with no flag set, nothing counted and first instances.
NoFlags == [p \in Pods |-> FALSE]
NoneHeld == [r \in Requests |-> FALSE]
NothingCounted == [p \in Pods |-> 0]
FirstInstances == [h \in Histograms |-> 1]

MetricsInit ==
    /\ Init
    /\ mark = NoFlags
    /\ held = NoneHeld
    /\ fresh = NoFlags
    /\ counted = NothingCounted
    /\ hist = FirstInstances
    /\ shown = FirstInstances
    /\ made = FirstInstances
    /\ cleared = 0
    /\ reset = [x \in Resetters |-> NoReset]

RestartMetrics ==
    /\ Restart
    /\ mark' = NoFlags
    /\ held' = NoneHeld
    /\ fresh' = NoFlags
    /\ counted' = NothingCounted
    /\ hist' = FirstInstances
    /\ shown' = FirstInstances
    /\ made' = FirstInstances
    /\ cleared' = 0
    /\ reset' = [x \in Resetters |-> ResetAt("idle", "schedule", NoHist, reset[x].n)]

MetricsNext ==
    \/ \E r \in Requests : ClaimFlag(r) \/ PutBackFlag(r)
    \/ \E p \in Pods : MergeFlag(p) \/ UpsertFlag(p)
    \/ QuietStep
    \/ RestartMetrics
    \/ \E x \in Resetters : ResetStep(x)

MetricsSpec == MetricsInit /\ [][MetricsNext]_allVars

-----------------------------------------------------------------------------
\* The type invariant: instances are numbered as they are made.
MetricsTypeOK ==
    /\ mark \in [Pods -> BOOLEAN]
    /\ held \in [Requests -> BOOLEAN]
    /\ fresh \in [Pods -> BOOLEAN]
    /\ counted \in [Pods -> Nat]
    /\ made \in [Histograms -> Nat]
    /\ \A h \in Histograms : hist[h] \in 1..made[h] /\ shown[h] \in 0..made[h]
    /\ \A x \in Resetters :
          /\ reset[x].name \in Histograms
          /\ reset[x].mine \in 0..made[reset[x].name]
          /\ reset[x].n \in 0..MaxResets
          /\ At(x, "assign") => reset[x].mine # NoHist
    /\ cleared \in Nat

\* "resetMetrics re-registers histogram metrics, effectively zeroing them":
\* when no reset is running, what /metrics exposes is what is observed into.
RegisteredIsObserved ==
    (\A x \in Resetters : ~Resetting(x)) => shown = hist

\* It is so as long as only one client resets, however often, and then no
\* reset panics half-way.
OneClientIsSafe ==
    \A x \in Resetters :
        (\A y \in Resetters \ {x} : reset[y].n = 0) =>
            /\ ~At(x, "panicked")
            /\ ~Resetting(x) => shown = hist

\* Every histogram is exposed again after resets, however they overlapped.
ExposedAtRest ==
    (\A x \in Resetters : ~Resetting(x)) => \A h \in Histograms : shown[h] # NoHist

\* The requests that have put an object of the pod back into the map.
PutBackBy(p) == {r \in Requests : req[r].pod = p /\ req[r].pc \in {"error", "granted"}}

\* The start of a pod is counted again only for a reason (reconciler.go:191-197),
\* and once for each: a reset; after a reset, a request that puts its object of
\* the pod, with its cleared flag, back into the map (reconciler.go:161,
\* store.go:99-111); a deletion whose Remove comes between sync's List and its
\* Get, so that sync takes the pod for one it has not seen.  Failed claims, stale
\* lists, prunes and terminating pods are no reasons.
Excused(p) == IF cleared = 0 THEN 0 ELSE cleared + Cardinality(PutBackBy(p))

RecountNeedsReason ==
    \A p \in Pods :
        counted[p] <= 1 + Excused(p) + (IF api[p].life = "gone" THEN 1 ELSE 0)
=============================================================================

--------------------------- MODULE WarmPoolProofs ---------------------------
(***************************************************************************)
(* Proofs about WarmPool, for every number of pods, requests, clients and  *)
(* restarts and every value of the clock.                                  *)
(***************************************************************************)
EXTENDS WarmPoolInvariant, TLAPS

USE NoTimeAssumption, NoReqAssumption, NoEntryAssumption, ReportedAssumption,
    LifetimesAssumption, BoundsAssumption, NamesAssumption

-----------------------------------------------------------------------------
(***************************************************************************)
(* The operators the actions are built from return values of their types.  *)
(***************************************************************************)

\* What is left of a pod is a pod.
LEMMA GoneType == ASSUME NEW pod \in Pod PROVE Gone(pod) \in Pod
  BY DEF Gone, Pod, AbsentPod, Conditions, Time

\* A request's expiry is nil or a time.
LEMMA ExpiryType ==
  ASSUME now \in Nat, NEW life \in Lifetimes \cup {Unlimited}
  PROVE  Expiry(life) \in Time
  BY DEF Expiry, Time

\* sync derives one of the five states.
LEMMA DerivedType == ASSUME NEW pod \in Pod PROVE Derived(pod) \in States
  BY DEF Derived, States

\* sync's fresh object is an entry, whatever it is merged from.
LEMMA MergeType ==
  ASSUME now \in Nat, NEW pod \in Pod, NEW existing \in Entry \cup {NoEntry}
  PROVE  Merge(pod, existing) \in Entry
<1>1. DetachedAt(pod, existing) \in Time
  BY DEF DetachedAt, Entry, Pod, Time
<1>2. (IF existing = NoEntry THEN NoTime ELSE existing.exp) \in Time
  BY DEF Entry, Time
<1>3. QED
  BY <1>1, <1>2, DerivedType DEF Merge, Entry

\* gc's switch gives one of its reasons or none.
LEMMA ReasonType ==
  ASSUME NEW e PROVE Reason(e) \in Reasons \cup {"no"}
  BY DEF Reason, Reasons

-----------------------------------------------------------------------------
(***************************************************************************)
(* Type correctness.                                                       *)
(***************************************************************************)

\* The initial state is well typed.
LEMMA TypeInit == Init => TypeOK
<1> SUFFICES ASSUME Init PROVE TypeOK
  OBVIOUS
<1>1. AbsentPod \in Pod
  BY DEF AbsentPod, Pod, Conditions, Time
<1>2. NewRequest \in RequestRecord /\ HoldsWhatItNeeds(NewRequest)
  BY DEF NewRequest, RequestRecord, HoldsWhatItNeeds, InFlightPcs, Time
<1>3. api \in [Pods -> Pod] /\ snap \in [Pods -> Pod] /\ live \subseteq Pods
  BY <1>1 DEF Init, KubeInit, NoPods
<1>4. /\ store \in [Pods -> Entry \cup {NoEntry}]
      /\ draft \in [Pods -> Entry \cup {NoEntry}]
  BY DEF Init, StoreInit, NoDraft
<1>5. /\ req \in [Requests -> RequestRecord]
      /\ \A r \in Requests : HoldsWhatItNeeds(req[r])
  BY <1>2 DEF Init
<1>6. reap \in [Deleters -> [Pods -> Reasons \cup {"no", "removing"}]]
  BY DEF Init, NothingToReap
<1>7. now \in Nat /\ syncPc \in {"idle", "scan", "pruned", "gc", "sweep"}
      /\ crashes \in 0..MaxCrashes
  BY DEF Init
<1>8. QED
  BY <1>3, <1>4, <1>5, <1>6, <1>7 DEF TypeOK

\* Writing a typed entry or nothing keeps the store typed.
LEMMA UpsertType ==
  ASSUME TypeOK, NEW p \in Pods, NEW e \in Entry \cup {NoEntry}, Upsert(p, e)
  PROVE  store' \in [Pods -> Entry \cup {NoEntry}]
  BY DEF TypeOK, Upsert

\* So does writing one well-formed request record to req.
LEMMA RequestType ==
  ASSUME TypeOK, NEW r \in Requests, NEW q \in RequestRecord, HoldsWhatItNeeds(q),
         req' = [req EXCEPT ![r] = q]
  PROVE  /\ req' \in [Requests -> RequestRecord]
         /\ \A s \in Requests : HoldsWhatItNeeds(req'[s])
  BY DEF TypeOK

\* A patch leaves every pod a pod.
LEMMA PatchType ==
  ASSUME TypeOK, NEW p \in Pods, NEW t \in Int, Patch(p, t)
  PROVE  api' \in [Pods -> Pod]
<1> DEFINE q == [api[p] EXCEPT !.claimed = TRUE, !.claimedAt = t]
<1>1. t \in Time /\ api[p] \in Pod
  BY DEF Time, TypeOK
<1>2. q \in Pod
  BY <1>1 DEF Pod
<1>3. api' = [api EXCEPT ![p] = q]
  BY DEF Patch
<1>4. QED
  BY <1>2, <1>3 DEF TypeOK

\* So does a forced deletion.
LEMMA ForceDeleteType ==
  ASSUME TypeOK, NEW p \in Pods, ForceDelete(p)
  PROVE  api' \in [Pods -> Pod]
  BY GoneType DEF TypeOK, ForceDelete

\* The deletion calls, whoever makes them, keep the types.
LEMMA ReapType == ASSUME TypeOK, NEW x \in Deleters, ReapStep(x) PROVE TypeOK'
<1>1. PICK p \in Pods : ReapDelete(x, p) \/ ReapRemove(x, p) \/ ReapFails(x, p)
  BY DEF ReapStep
<1>2. CASE ReapDelete(x, p)
  BY <1>2, ForceDeleteType DEF ReapDelete, TypeOK, syncVars
<1>3. CASE ReapRemove(x, p)
  BY <1>3, UpsertType DEF ReapRemove, Remove, TypeOK, syncVars
<1>4. CASE ReapFails(x, p)
  BY <1>4, ForceDeleteType DEF ReapFails, TypeOK, syncVars
<1>5. QED
  BY <1>1, <1>2, <1>3, <1>4

\* The steps of a provision request keep the types.
LEMMA ProvisionType ==
  ASSUME TypeOK, NEW r \in Requests, ProvisionStep(r)
  PROVE  TypeOK'
<1> USE DEF TypeOK
<1>0. req[r] \in RequestRecord /\ HoldsWhatItNeeds(req[r])
  OBVIOUS
<1>1. CASE Refuse(r)
  <2> DEFINE q == [req[r] EXCEPT !.pc = "refused"]
  <2>1. q \in RequestRecord /\ HoldsWhatItNeeds(q)
    BY <1>0, <1>1 DEF RequestRecord, HoldsWhatItNeeds, InFlightPcs
  <2>2. req' = [req EXCEPT ![r] = q]
    BY <1>1 DEF Refuse
  <2>3. QED
    BY <1>1, <2>1, <2>2, RequestType DEF Refuse, syncVars
<1>2. ASSUME NEW p \in Pods, NEW life \in Lifetimes \cup {Unlimited}, Provision(r, p, life)
      PROVE  TypeOK'
  <2> DEFINE e == [store[p] EXCEPT !.state = "provisioning", !.by = r]
             q == [pc |-> "claimed", pod |-> p, at |-> now,
                   exp |-> Expiry(life), sb |-> e, late |-> FALSE]
  <2>1. store[p] \in Entry
    BY <1>2 DEF Provision, ClaimIdle, IsIdle, Known
  <2>2. e \in Entry
    BY <2>1 DEF Entry, States
  <2>3. store' = [store EXCEPT ![p] = e] /\ store'[p] = e
    BY <1>2, <2>1 DEF Provision, ClaimIdle, Entry
  <2>4. q \in RequestRecord /\ HoldsWhatItNeeds(q)
    BY <2>2, ExpiryType DEF RequestRecord, HoldsWhatItNeeds, InFlightPcs
  <2>5. req' = [req EXCEPT ![r] = q]
    BY <1>2, <2>3 DEF Provision
  <2>6. store' \in [Pods -> Entry \cup {NoEntry}]
    BY <2>2, <2>3
  <2>7. QED
    BY <1>2, <2>4, <2>5, <2>6, RequestType DEF Provision, syncVars
<1>3. CASE Detach(r)
  <2> DEFINE q == [req[r] EXCEPT !.pc = "detached"]
  <2>1. q \in RequestRecord /\ HoldsWhatItNeeds(q)
    BY <1>0, <1>3 DEF RequestRecord, HoldsWhatItNeeds, InFlightPcs, Detach
  <2>2. req' = [req EXCEPT ![r] = q]
    BY <1>3 DEF Detach
  <2>3. api' \in [Pods -> Pod]
    BY <1>0, <1>3, PatchType DEF Detach, HoldsWhatItNeeds, InFlightPcs, RequestRecord
  <2>4. QED
    BY <1>3, <2>1, <2>2, <2>3, RequestType DEF Detach, syncVars
<1>4. CASE DetachFails(r)
  <2> DEFINE q == [req[r] EXCEPT !.pc = "failed", !.late = Present(req[r].pod)]
  <2>1. Present(req[r].pod) \in BOOLEAN
    BY DEF Present
  <2>2. q \in RequestRecord /\ HoldsWhatItNeeds(q)
    BY <1>0, <1>4, <2>1 DEF RequestRecord, HoldsWhatItNeeds, InFlightPcs, DetachFails
  <2>3. req' = [req EXCEPT ![r] = q]
    BY <1>4 DEF DetachFails
  <2>4. QED
    BY <1>4, <2>2, <2>3, RequestType DEF DetachFails, syncVars
<1>5. CASE LateDetach(r)
  <2> DEFINE q == [req[r] EXCEPT !.late = FALSE]
  <2>1. q \in RequestRecord /\ HoldsWhatItNeeds(q)
    BY <1>0, <1>5 DEF RequestRecord, HoldsWhatItNeeds, InFlightPcs, LateDetach
  <2>2. req' = [req EXCEPT ![r] = q]
    BY <1>5 DEF LateDetach
  <2>3. api' \in [Pods -> Pod]
    BY <1>0, <1>5, PatchType DEF LateDetach, HoldsWhatItNeeds, RequestRecord
  <2>4. QED
    BY <1>5, <2>1, <2>2, <2>3, RequestType DEF LateDetach, syncVars
<1>6. CASE Rollback(r)
  <2> DEFINE q == [req[r] EXCEPT !.pc = "error", !.sb = NoEntry]
  <2>1. q \in RequestRecord /\ HoldsWhatItNeeds(q)
    BY <1>0, <1>6 DEF RequestRecord, HoldsWhatItNeeds, InFlightPcs, Rollback
  <2>2. req' = [req EXCEPT ![r] = q]
    BY <1>6 DEF Rollback
  <2>3. store' \in [Pods -> Entry \cup {NoEntry}]
    <3>1. req[r].pod \in Pods /\ req[r].sb \in Entry
      BY <1>0, <1>6 DEF Rollback, HoldsWhatItNeeds, InFlightPcs
    <3>2. [req[r].sb EXCEPT !.state = "idle", !.by = NoReq] \in Entry
      BY <3>1 DEF Entry, States
    <3>3. QED
      BY <1>6, <3>1, <3>2, UpsertType DEF Rollback
  <2>4. QED
    BY <1>6, <2>1, <2>2, <2>3, RequestType DEF Rollback, syncVars
<1>7. CASE Record(r)
  <2> DEFINE p == req[r].pod
             sb == [req[r].sb EXCEPT !.det = now, !.exp = req[r].exp]
             q == [req[r] EXCEPT !.pc = "recorded", !.sb = sb]
  <2>1. p \in Pods /\ req[r].sb \in Entry
    BY <1>0, <1>7 DEF Record, HoldsWhatItNeeds, InFlightPcs
  <2>2. sb \in Entry
    <3>1. now \in Time /\ req[r].exp \in Time
      BY <1>0 DEF RequestRecord, Time
    <3>2. QED
      BY <2>1, <3>1 DEF Entry
  <2>3. q \in RequestRecord /\ HoldsWhatItNeeds(q)
    BY <1>0, <1>7, <2>1, <2>2 DEF RequestRecord, HoldsWhatItNeeds, InFlightPcs
  <2>4. req' = [req EXCEPT ![r] = q]
    BY <1>7 DEF Record
  <2>5. store' \in [Pods -> Entry \cup {NoEntry}]
    BY <1>7, <2>1, <2>2 DEF Record
  <2>6. QED
    BY <1>7, <2>3, <2>4, <2>5, RequestType DEF Record, syncVars
<1>8. CASE Grant(r)
  <2> DEFINE q == [req[r] EXCEPT !.pc = "granted", !.sb = NoEntry]
  <2>1. q \in RequestRecord /\ HoldsWhatItNeeds(q)
    BY <1>0, <1>8 DEF RequestRecord, HoldsWhatItNeeds, InFlightPcs, Grant
  <2>2. req' = [req EXCEPT ![r] = q]
    BY <1>8 DEF Grant
  <2>3. store' \in [Pods -> Entry \cup {NoEntry}]
    <3>1. req[r].pod \in Pods /\ req[r].sb \in Entry
      BY <1>0, <1>8 DEF Grant, HoldsWhatItNeeds, InFlightPcs
    <3>2. [req[r].sb EXCEPT !.by = NoReq] \in Entry
      BY <3>1 DEF Entry
    <3>3. QED
      BY <1>8, <3>1, <3>2, UpsertType DEF Grant
  <2>4. QED
    BY <1>8, <2>1, <2>2, <2>3, RequestType DEF Grant, syncVars
<1>9. QED
  BY <1>1, <1>2, <1>3, <1>4, <1>5, <1>6, <1>7, <1>8 DEF ProvisionStep

\* The steps of sync keep the types.
LEMMA SyncType == ASSUME TypeOK, SyncStep PROVE TypeOK'
<1> USE DEF TypeOK
<1>0. AbsentPod \in Pod
  BY DEF AbsentPod, Pod, Conditions, Time
<1>1. CASE SyncStart
  BY <1>0, <1>1 DEF SyncStart
<1>2. ASSUME NEW p \in Pods, SyncMerge(p) PROVE TypeOK'
  <2>1. Merge(snap[p], store[p]) \in Entry
    BY MergeType
  <2>2. QED
    BY <1>0, <1>2, <2>1 DEF SyncMerge
<1>3. ASSUME NEW p \in Pods, SyncUpsert(p) PROVE TypeOK'
  <2>1. store' \in [Pods -> Entry \cup {NoEntry}]
    BY <1>3, UpsertType DEF SyncUpsert
  <2>2. QED
    BY <1>3, <2>1 DEF SyncUpsert
<1>4. CASE SyncPrune
  BY <1>4 DEF SyncPrune, Prune
<1>5. CASE GcSelect
  <2>1. [p \in Pods |-> Reason(store[p])] \in [Pods -> Reasons \cup {"no", "removing"}]
    BY ReasonType
  <2>2. QED
    BY <1>5, <2>1 DEF GcSelect
<1>6. CASE ReapStep(GC)
  BY <1>6, ReapType DEF Deleters
<1>7. CASE GcDone
  BY <1>7 DEF GcDone
<1>8. ASSUME NEW p \in Pods, SweepCompleted(p) PROVE TypeOK'
  BY <1>8, ForceDeleteType DEF SweepCompleted, syncVars
<1>9. CASE SyncDone
  BY <1>9 DEF SyncDone
<1>10. QED
  BY <1>1, <1>2, <1>3, <1>4, <1>5, <1>6, <1>7, <1>8, <1>9 DEF SyncStep

\* Asking for deletions keeps the types.
LEMMA AskType ==
  ASSUME TypeOK, NEW x \in Deleters, NEW pods, Ask(x, pods)
  PROVE  TypeOK'
<1>1. [p \in Pods |-> IF p \in pods THEN "asked" ELSE "no"]
        \in [Pods -> Reasons \cup {"no", "removing"}]
  BY DEF Reasons
<1>2. QED
  BY <1>1 DEF TypeOK, Ask, syncVars

\* So do a client's deletions.
LEMMA AdminType == ASSUME TypeOK, NEW x \in Admins, AdminStep(x) PROVE TypeOK'
  BY AskType, ReapType DEF AdminStep, HandleDelete, HandleRestart, DeleteAllClaimed, Deleters

\* So do the cluster's own steps.
LEMMA KubeType == ASSUME TypeOK, KubeStep PROVE TypeOK'
<1>1. api' \in [Pods -> Pod]
  <2>1. PICK p \in Pods : \/ CreatePod(p) \/ ScaleDown(p) \/ Terminated(p)
                          \/ \E c \in Reported : Kubelet(p, c)
    BY DEF KubeStep
  <2>2. Gone(api[p]) \in Pod
    BY GoneType DEF TypeOK
  <2>3. CASE CreatePod(p)
    BY <2>3 DEF CreatePod, TypeOK, Pod
  <2>4. CASE ScaleDown(p)
    BY <2>4 DEF ScaleDown, TypeOK, Pod
  <2>5. CASE Terminated(p)
    BY <2>2, <2>5 DEF Terminated, TypeOK
  <2>6. CASE \E c \in Reported : Kubelet(p, c)
    <3>1. PICK c \in Conditions : Kubelet(p, c)
      BY <2>6
    <3> DEFINE q == [api[p] EXCEPT !.cond = c]
    <3>2. q \in Pod
      <4>1. api[p] \in Pod
        BY DEF TypeOK
      <4>2. QED
        BY <4>1 DEF Pod
    <3>3. api' = [api EXCEPT ![p] = q]
      BY <3>1 DEF Kubelet
    <3>4. QED
      BY <3>2, <3>3 DEF TypeOK
  <2>7. QED
    BY <2>1, <2>3, <2>4, <2>5, <2>6
<1>2. QED
  BY <1>1 DEF KubeStep, TypeOK, syncVars

\* A restart leaves every request well formed, given up or as it was.
LEMMA RestartType == ASSUME TypeOK, Restart PROVE TypeOK'
<1>1. req' \in [Requests -> RequestRecord] /\ \A r \in Requests : HoldsWhatItNeeds(req'[r])
  <2>1. SUFFICES ASSUME NEW r \in Requests
                 PROVE  req'[r] \in RequestRecord /\ HoldsWhatItNeeds(req'[r])
    BY DEF Restart
  <2>2. req[r] \in RequestRecord /\ HoldsWhatItNeeds(req[r])
    BY DEF TypeOK
  <2>3. CASE InFlight(r)
    <3> DEFINE late == (req[r].pc = "claimed") \/ req[r].late
    <3>1. late \in BOOLEAN
      OBVIOUS
    <3>2. req'[r] = [req[r] EXCEPT !.pc = "lost", !.sb = NoEntry, !.late = late]
      BY <2>3 DEF Restart
    <3>3. req[r].pod \in Pods
      BY <2>2, <2>3 DEF InFlight, HoldsWhatItNeeds
    <3> HIDE DEF late
    <3>4. QED
      BY <2>2, <3>1, <3>2, <3>3 DEF RequestRecord, HoldsWhatItNeeds, InFlightPcs
  <2>4. CASE ~InFlight(r)
    BY <2>2, <2>4 DEF Restart
  <2>5. QED
    BY <2>3, <2>4
<1>2. AbsentPod \in Pod
  BY DEF AbsentPod, Pod, Conditions, Time
<1>3. /\ snap' \in [Pods -> Pod]
      /\ draft' \in [Pods -> Entry \cup {NoEntry}]
      /\ store' \in [Pods -> Entry \cup {NoEntry}]
      /\ reap' \in [Deleters -> [Pods -> Reasons \cup {"no", "removing"}]]
  BY <1>2 DEF Restart, NoPods, NoDraft, NothingToReap
<1>4. crashes' \in 0..MaxCrashes
  <2>1. crashes \in 0..MaxCrashes /\ crashes < MaxCrashes /\ crashes' = crashes + 1
    BY DEF Restart, TypeOK
  <2>2. QED
    BY <2>1
<1>5. QED
  BY <1>1, <1>3, <1>4 DEF Restart, TypeOK

\* Every step keeps the types.
LEMMA TypeStep == TypeOK /\ [Next]_vars => TypeOK'
<1> SUFFICES ASSUME TypeOK, [Next]_vars PROVE TypeOK'
  OBVIOUS
<1>1. CASE Tick
  BY <1>1 DEF Tick, TypeOK, syncVars
<1>2. CASE UNCHANGED vars
  BY <1>2 DEF vars, TypeOK
<1>3. QED
  BY <1>1, <1>2, ProvisionType, SyncType, AdminType, KubeType, RestartType DEF Next

\* WarmPool is type correct: every variable keeps its shape, a request that is being
\* served always holds a sandbox, and no patch is sent for a pod that has no name.
THEOREM TypeCorrect == Spec => []TypeOK
  BY TypeInit, TypeStep, PTL DEF Spec

-----------------------------------------------------------------------------
(***************************************************************************)
(* What never changes back.                                                *)
(***************************************************************************)

\* A pod that exists has existed ever after, one that does not is not written to, a
\* claim is never taken back, and a pod on its way out never becomes live again.
OneWay(p) ==
    /\ api'[p].life = "absent" => api'[p] = api[p]
    /\ api[p].claimed => api'[p].claimed
    /\ api[p].life \in {"deleting", "gone"} => api'[p].life \in {"deleting", "gone"}
    /\ api[p].life = "gone" => api'[p].life = "gone"

\* A claim's patch does not take a claim back or revive a pod.
LEMMA PatchOneWay ==
  ASSUME TypeOK, NEW q, NEW t, Patch(q, t), NEW p \in Pods
  PROVE  OneWay(p)
<1>1. api \in [Pods -> Pod]
  BY DEF TypeOK
<1>2. QED
  BY <1>1 DEF Patch, OneWay, Pod, Present

\* A forced deletion goes one way.
LEMMA ForceDeleteOneWay ==
  ASSUME TypeOK, NEW q, ForceDelete(q), NEW p \in Pods
  PROVE  OneWay(p)
<1>1. api \in [Pods -> Pod]
  BY DEF TypeOK
<1>2. QED
  BY <1>1 DEF ForceDelete, OneWay, Pod, Gone, AbsentPod

\* So do the ReplicaSet controller and the kubelet.
LEMMA KubeOneWay ==
  ASSUME TypeOK, KubeStep, NEW p \in Pods
  PROVE  OneWay(p)
<1>1. api \in [Pods -> Pod]
  BY DEF TypeOK
<1>2. PICK q \in Pods : \/ CreatePod(q) \/ ScaleDown(q) \/ Terminated(q)
                        \/ \E c \in Reported : Kubelet(q, c)
  BY DEF KubeStep
<1>3. CASE CreatePod(q)
  BY <1>1, <1>3 DEF CreatePod, OneWay, Pod
<1>4. CASE ScaleDown(q)
  BY <1>1, <1>4 DEF ScaleDown, OneWay, Pod
<1>5. CASE Terminated(q)
  BY <1>1, <1>5 DEF Terminated, OneWay, Pod, Gone, AbsentPod
<1>6. CASE \E c \in Reported : Kubelet(q, c)
  BY <1>1, <1>6 DEF Kubelet, OneWay, Pod, Present
<1>7. QED
  BY <1>2, <1>3, <1>4, <1>5, <1>6

\* Every step of the system goes one way on every pod.
LEMMA ApiOneWay ==
  ASSUME TypeOK, [Next]_vars, NEW p \in Pods
  PROVE  OneWay(p)
<1> USE PatchOneWay, ForceDeleteOneWay, KubeOneWay
<1>1. CASE api' = api
  BY <1>1 DEF OneWay
<1>2. ASSUME NEW r \in Requests, ProvisionStep(r) PROVE OneWay(p)
  BY <1>1, <1>2 DEF ProvisionStep, Refuse, Provision, Detach, DetachFails, LateDetach,
                    Rollback, Record, Grant
<1>3. ASSUME NEW x, ReapStep(x) PROVE OneWay(p)
  BY <1>1, <1>3 DEF ReapStep, ReapDelete, ReapRemove, ReapFails
<1>4. CASE SyncStep
  BY <1>1, <1>3, <1>4 DEF SyncStep, SyncStart, SyncMerge, SyncUpsert, SweepCompleted,
                          SyncPrune, GcSelect, GcDone, SyncDone
<1>5. ASSUME NEW x \in Admins, AdminStep(x) PROVE OneWay(p)
  BY <1>1, <1>3, <1>5 DEF AdminStep, HandleDelete, HandleRestart, DeleteAllClaimed, Ask
<1>6. QED
  BY <1>1, <1>2, <1>4, <1>5 DEF Next, Restart, Tick, vars

-----------------------------------------------------------------------------
(***************************************************************************)
(* OnlyCreatedPods and UnlistedPods.                                       *)
(***************************************************************************)

\* What a step of a request does to the store and to who holds which pod: at most
\* one entry is written, of the pod the request holds or takes from the store.
LEMMA ProvisionEffect ==
  ASSUME TypeOK, NEW r \in Requests, ProvisionStep(r), NEW p \in Pods
  PROVE  /\ Known(p)' => Known(p) \/ Holds(r, p)
         /\ Holds(r, p)' => Known(p) \/ Holds(r, p)
         /\ \A s \in Requests \ {r} : Holds(s, p)' = Holds(s, p)
         /\ UNCHANGED syncVars
<1> USE DEF Holds, InFlight, InFlightPcs, Known, syncVars
<1>0. /\ req \in [Requests -> RequestRecord]
      /\ store \in [Pods -> Entry \cup {NoEntry}]
      /\ NoEntry \notin Entry
  BY DEF TypeOK
<1>1. CASE Refuse(r)
  BY <1>0, <1>1 DEF Refuse, RequestRecord
<1>2. ASSUME NEW q \in Pods, NEW life, Provision(r, q, life)
      PROVE  /\ Known(p)' => Known(p) \/ Holds(r, p)
             /\ Holds(r, p)' => Known(p) \/ Holds(r, p)
             /\ \A s \in Requests \ {r} : Holds(s, p)' = Holds(s, p)
             /\ UNCHANGED syncVars
  BY <1>0, <1>2 DEF Provision, ClaimIdle, IsIdle, RequestRecord
<1>3. CASE Detach(r)
  BY <1>0, <1>3 DEF Detach, RequestRecord
<1>4. CASE DetachFails(r)
  BY <1>0, <1>4 DEF DetachFails, RequestRecord
<1>5. CASE LateDetach(r)
  BY <1>0, <1>5 DEF LateDetach, RequestRecord
<1>6. CASE Rollback(r)
  BY <1>0, <1>6 DEF Rollback, Upsert, RequestRecord
<1>7. CASE Record(r)
  BY <1>0, <1>7 DEF Record, RequestRecord
<1>8. CASE Grant(r)
  BY <1>0, <1>8 DEF Grant, Upsert, RequestRecord
<1>9. QED
  BY <1>1, <1>2, <1>3, <1>4, <1>5, <1>6, <1>7, <1>8 DEF ProvisionStep

\* After a restart nobody holds a sandbox, and what was asked stays asked.
LEMMA RestartDropsRequests ==
  ASSUME TypeOK, Restart, NEW s \in Requests
  PROVE  /\ ~InFlight(s)'
         /\ \A p : ~Holds(s, p)'
         /\ req'[s].pod = req[s].pod /\ req'[s].at = req[s].at /\ req'[s].exp = req[s].exp
         /\ req'[s].pc = "new" <=> req[s].pc = "new"
         /\ req'[s].pc = "refused" <=> req[s].pc = "refused"
<1>1. req[s] \in RequestRecord
  BY DEF TypeOK
<1>2. CASE InFlight(s)
  <2> DEFINE late == (req[s].pc = "claimed") \/ req[s].late
  <2>1. req'[s] = [req[s] EXCEPT !.pc = "lost", !.sb = NoEntry, !.late = late]
    BY <1>2 DEF Restart
  <2> HIDE DEF late
  <2>2. QED
    BY <1>1, <1>2, <2>1 DEF RequestRecord, InFlight, InFlightPcs, Holds
<1>3. CASE ~InFlight(s)
  <2>1. req'[s] = req[s]
    BY <1>3 DEF Restart
  <2>2. QED
    BY <1>3, <2>1 DEF InFlight, Holds
<1>4. QED
  BY <1>2, <1>3

\* The same for every other step: nothing but sync adds to the store, and nothing
\* but a request's own steps changes what it holds, except that a restart drops all.
LEMMA OtherEffect ==
  ASSUME TypeOK, [Next]_vars, \A r \in Requests : ~ProvisionStep(r), NEW p \in Pods
  PROVE  /\ Known(p)' => Known(p) \/ draft[p] # NoEntry
         /\ \A s \in Requests : Holds(s, p)' => Holds(s, p)
<1> USE DEF Holds, InFlight, InFlightPcs, Known
<1>0. /\ store \in [Pods -> Entry \cup {NoEntry}]
      /\ NoEntry \notin Entry
  BY DEF TypeOK
<1>1. CASE store' = store /\ req' = req
  BY <1>1
<1>2. ASSUME NEW x, ReapStep(x)
      PROVE  req' = req /\ (Known(p)' => Known(p))
  BY <1>0, <1>2 DEF ReapStep, ReapDelete, ReapRemove, ReapFails, Remove, Upsert
<1>3. ASSUME NEW q \in Pods, SyncUpsert(q)
      PROVE  req' = req /\ (Known(p)' => Known(p) \/ draft[p] # NoEntry)
  BY <1>0, <1>3 DEF SyncUpsert, Upsert
<1>4. CASE SyncPrune
  BY <1>0, <1>4 DEF SyncPrune, Prune
<1>5. CASE SyncStep
  BY <1>1, <1>2, <1>3, <1>4, <1>5 DEF SyncStep, SyncStart, SyncMerge, SweepCompleted,
                                      GcSelect, GcDone, SyncDone
<1>6. ASSUME NEW x \in Admins, AdminStep(x)
      PROVE  req' = req /\ (Known(p)' => Known(p))
  BY <1>2, <1>6 DEF AdminStep, HandleDelete, HandleRestart, DeleteAllClaimed, Ask
<1>7. CASE Restart
  <2>1. ~Known(p)'
    BY <1>7 DEF Restart
  <2>2. QED
    BY <1>7, <2>1, RestartDropsRequests
<1>8. QED
  BY <1>1, <1>5, <1>6, <1>7 DEF Next, KubeStep, Tick, vars

\* sync's copies are of listed pods, through every step of the system.
LEMMA SyncCopies ==
  ASSUME TypeOK, OnlyCreatedPods, [Next]_vars, NEW p \in Pods
  PROVE  /\ snap'[p].life = "live" => Existed(p) /\ p \in live' /\ syncPc' = "scan"
         /\ draft'[p] # NoEntry => Existed(p) /\ p \in live' /\ syncPc' = "scan"
<1>0. /\ \A q \in Pods : snap[q].life = "live" => Existed(q) /\ q \in live /\ syncPc = "scan"
      /\ \A q \in Pods : draft[q] # NoEntry => Existed(q) /\ q \in live /\ syncPc = "scan"
      /\ snap \in [Pods -> Pod]
      /\ draft \in [Pods -> Entry \cup {NoEntry}]
  BY DEF TypeOK, OnlyCreatedPods
<1>1. CASE UNCHANGED syncVars
  BY <1>0, <1>1 DEF syncVars
<1>2. CASE SyncStart
  BY <1>0, <1>2 DEF SyncStart, Existed, AbsentPod
<1>3. ASSUME NEW q \in Pods, SyncMerge(q)
      PROVE  /\ snap'[p].life = "live" => Existed(p) /\ p \in live' /\ syncPc' = "scan"
             /\ draft'[p] # NoEntry => Existed(p) /\ p \in live' /\ syncPc' = "scan"
  BY <1>0, <1>3 DEF SyncMerge, ToMerge, AbsentPod
<1>4. ASSUME NEW q \in Pods, SyncUpsert(q)
      PROVE  /\ snap'[p].life = "live" => Existed(p) /\ p \in live' /\ syncPc' = "scan"
             /\ draft'[p] # NoEntry => Existed(p) /\ p \in live' /\ syncPc' = "scan"
  BY <1>0, <1>4 DEF SyncUpsert
<1>5. CASE SyncPrune
  BY <1>0, <1>5 DEF SyncPrune, ToMerge, NoDraft
<1>6. CASE GcSelect \/ GcDone \/ SyncDone
  BY <1>0, <1>6 DEF GcSelect, GcDone, SyncDone
<1>7. CASE Restart
  BY <1>7 DEF Restart, NoPods, NoDraft, AbsentPod
<1>8. ASSUME NEW x, ReapStep(x) PROVE UNCHANGED syncVars
  BY <1>8 DEF ReapStep, ReapDelete, ReapRemove, ReapFails
<1>9. ASSUME NEW x \in Admins, AdminStep(x) PROVE UNCHANGED syncVars
  BY <1>8, <1>9 DEF AdminStep, HandleDelete, HandleRestart, DeleteAllClaimed, Ask
<1>10. ASSUME NEW r \in Requests, ProvisionStep(r) PROVE UNCHANGED syncVars
  BY <1>10, ProvisionEffect
<1>11. CASE SyncStep
  BY <1>1, <1>2, <1>3, <1>4, <1>5, <1>6, <1>8, <1>11 DEF SyncStep, SweepCompleted
<1>12. QED
  BY <1>1, <1>7, <1>9, <1>10, <1>11 DEF Next, KubeStep, Tick, vars, syncVars

\* OnlyCreatedPods is kept by every step.
LEMMA OnlyCreatedPodsStep ==
  ASSUME TypeOK, OnlyCreatedPods, [Next]_vars
  PROVE  OnlyCreatedPods'
<1>1. ASSUME NEW p \in Pods PROVE Existed(p) => Existed(p)'
  BY <1>1, ApiOneWay DEF OneWay, Existed
<1>2. ASSUME NEW p \in Pods
      PROVE  /\ Known(p)' => Existed(p)
             /\ \A s \in Requests : Holds(s, p)' => Existed(p)
  <2>1. CASE \E r \in Requests : ProvisionStep(r)
    <3>1. PICK r \in Requests : ProvisionStep(r)
      BY <2>1
    <3>2. QED
      BY <1>2, <3>1, ProvisionEffect DEF OnlyCreatedPods
  <2>2. CASE \A r \in Requests : ~ProvisionStep(r)
    BY <1>2, <2>2, OtherEffect DEF OnlyCreatedPods
  <2>3. QED
    BY <2>1, <2>2
<1>3. ASSUME NEW p \in Pods PROVE ~Existed(p)' => api'[p] = AbsentPod
  BY <1>3, ApiOneWay DEF OneWay, Existed, OnlyCreatedPods
<1>4. QED
  BY <1>1, <1>2, <1>3, SyncCopies DEF OnlyCreatedPods

\* The list sync works from stays right: a pod that is not on it cannot become both
\* live and known while the loop runs.
LEMMA UnlistedPodsStep ==
  ASSUME TypeOK, OnlyCreatedPods, UnlistedPods, [Next]_vars
  PROVE  UnlistedPods'
<1> SUFFICES ASSUME syncPc' = "scan", NEW p \in Pods, p \notin live'
             PROVE  api'[p].life \in {"deleting", "gone"} \/ Unheard(p)'
  BY DEF UnlistedPods
<1>1. CASE SyncStart
  <2>1. api[p].life # "live" /\ api' = api /\ store' = store /\ req' = req
    BY <1>1 DEF SyncStart
  <2>2. api[p] \in Pod
    BY DEF TypeOK
  <2>3. CASE api[p].life = "absent"
    BY <2>1, <2>3 DEF OnlyCreatedPods, Existed, Unheard, Unheld, Known, Holds, InFlight
  <2>4. QED
    BY <2>1, <2>2, <2>3 DEF Pod
<1>2. CASE syncPc = "scan" /\ live' = live
  <2>1. api[p].life \in {"deleting", "gone"} \/ Unheard(p)
    BY <1>2 DEF UnlistedPods
  <2>2. CASE api[p].life \in {"deleting", "gone"}
    BY <2>2, ApiOneWay DEF OneWay
  <2>3. CASE Unheard(p)
    <3>1. ~Known(p) /\ \A r \in Requests : ~Holds(r, p)
      BY <2>3 DEF Unheard, Unheld, Known
    <3>2. draft[p] = NoEntry
      BY <1>2 DEF OnlyCreatedPods
    <3>3. ~Known(p)' /\ \A r \in Requests : ~Holds(r, p)'
      <4>1. CASE \E r \in Requests : ProvisionStep(r)
        <5>1. PICK r \in Requests : ProvisionStep(r)
          BY <4>1
        <5>2. QED
          BY <3>1, <5>1, ProvisionEffect
      <4>2. CASE \A r \in Requests : ~ProvisionStep(r)
        BY <3>1, <3>2, <4>2, OtherEffect
      <4>3. QED
        BY <4>1, <4>2
    <3>4. QED
      BY <3>3 DEF Unheard, Unheld, Known
  <2>4. QED
    BY <2>1, <2>2, <2>3
<1>3. SyncStart \/ (syncPc = "scan" /\ live' = live)
  <2>1. ASSUME NEW x, ReapStep(x) PROVE UNCHANGED syncVars
    BY <2>1 DEF ReapStep, ReapDelete, ReapRemove, ReapFails
  <2>2. ASSUME NEW x \in Admins, AdminStep(x) PROVE UNCHANGED syncVars
    BY <2>1, <2>2 DEF AdminStep, HandleDelete, HandleRestart, DeleteAllClaimed, Ask
  <2>3. ASSUME NEW r \in Requests, ProvisionStep(r) PROVE UNCHANGED syncVars
    BY <2>3, ProvisionEffect
  <2>4. CASE SyncStep
    BY <2>1, <2>4 DEF SyncStep, SyncMerge, SyncUpsert, SweepCompleted, SyncPrune,
                      GcSelect, GcDone, SyncDone, syncVars
  <2>5. QED
    BY <2>2, <2>3, <2>4 DEF Next, KubeStep, Restart, Tick, vars, syncVars
<1>4. QED
  BY <1>1, <1>2, <1>3

-----------------------------------------------------------------------------
(***************************************************************************)
(* ClaimedCopies.                                                          *)
(***************************************************************************)

\* A request never makes an entry active: the object it puts back into the store is
\* the one ClaimIdle gave it, in state "provisioning" (or "idle" on an error).
LEMMA ProvisionStates ==
  ASSUME TypeOK, ClaimedCopies, NEW r \in Requests, ProvisionStep(r)
  PROVE  /\ \A p \in Pods : ActiveEntry(store'[p]) =>
               store'[p] = store[p] /\ \A s \in Requests : Holds(s, p) => Holds(s, p)'
         /\ \A s \in Requests : InFlight(s)' => req'[s].sb.state = "provisioning"
<1> USE DEF InFlight, InFlightPcs, Holds, ActiveEntry
<1>0. /\ req \in [Requests -> RequestRecord]
      /\ store \in [Pods -> Entry \cup {NoEntry}]
      /\ HoldsWhatItNeeds(req[r])
      /\ \A s \in Requests : InFlight(s) => req[s].sb.state = "provisioning"
  BY DEF TypeOK, ClaimedCopies
<1>1. CASE Refuse(r)
  BY <1>0, <1>1 DEF Refuse, RequestRecord
<1>2. ASSUME NEW p \in Pods, NEW life, Provision(r, p, life)
      PROVE  /\ \A q \in Pods : ActiveEntry(store'[q]) =>
                   store'[q] = store[q] /\ \A s \in Requests : Holds(s, q) => Holds(s, q)'
             /\ \A s \in Requests : InFlight(s)' => req'[s].sb.state = "provisioning"
  <2>1. store[p] \in Entry
    BY <1>0, <1>2 DEF Provision, ClaimIdle, IsIdle, Known
  <2>2. store'[p].state = "provisioning"
    BY <1>0, <1>2, <2>1 DEF Provision, ClaimIdle, Entry
  <2>3. \A q \in Pods \ {p} : store'[q] = store[q]
    BY <1>0, <1>2 DEF Provision, ClaimIdle
  <2>4. req'[r].sb = store'[p] /\ \A s \in Requests \ {r} : req'[s] = req[s]
    BY <1>0, <1>2 DEF Provision
  <2>5. req[r].pc = "new"
    BY <1>2 DEF Provision
  <2>6. QED
    BY <1>0, <2>2, <2>3, <2>4, <2>5
<1>3. CASE Detach(r)
  BY <1>0, <1>3 DEF Detach, RequestRecord
<1>4. CASE DetachFails(r)
  BY <1>0, <1>4 DEF DetachFails, RequestRecord
<1>5. CASE LateDetach(r)
  BY <1>0, <1>5 DEF LateDetach, RequestRecord
<1>6. CASE Rollback(r)
  <2>1. req[r].sb \in Entry /\ req[r].pod \in Pods
    BY <1>0, <1>6 DEF Rollback, HoldsWhatItNeeds
  <2>2. [req[r].sb EXCEPT !.state = "idle", !.by = NoReq].state = "idle"
    BY <2>1 DEF Entry
  <2>3. QED
    BY <1>0, <1>6, <2>2 DEF Rollback, Upsert, RequestRecord
<1>7. CASE Record(r)
  <2> DEFINE sb == [req[r].sb EXCEPT !.det = now, !.exp = req[r].exp]
  <2>1. req[r].sb \in Entry /\ req[r].pod \in Pods /\ req[r].sb.state = "provisioning"
    BY <1>0, <1>7 DEF Record, HoldsWhatItNeeds
  <2>2. sb.state = "provisioning"
    BY <2>1 DEF Entry
  <2>3. /\ req' = [req EXCEPT ![r].pc = "recorded", ![r].sb = sb]
        /\ store' = IF Known(req[r].pod) /\ store[req[r].pod].by = r
                    THEN [store EXCEPT ![req[r].pod] = sb]
                    ELSE store
    BY <1>7 DEF Record
  <2> HIDE DEF sb
  <2>4. QED
    BY <1>0, <2>2, <2>3 DEF RequestRecord
<1>8. CASE Grant(r)
  <2>1. req[r].sb \in Entry /\ req[r].pod \in Pods /\ req[r].sb.state = "provisioning"
    BY <1>0, <1>8 DEF Grant, HoldsWhatItNeeds
  <2>2. [req[r].sb EXCEPT !.by = NoReq].state = "provisioning"
    BY <2>1 DEF Entry
  <2>3. QED
    BY <1>0, <1>8, <2>2 DEF Grant, Upsert, RequestRecord
<1>9. QED
  BY <1>1, <1>2, <1>3, <1>4, <1>5, <1>6, <1>7, <1>8 DEF ProvisionStep

\* What gc holds against a pod for its lifetime, it holds against an active entry.
LEMMA ReasonActive ==
  ASSUME NEW e, Reason(e) \in {"ttl_expired", "exited", "stale"}
  PROVE  ActiveEntry(e)
  BY DEF Reason, ActiveEntry

\* Every other step makes copies of copies only.
LEMMA OtherStates ==
  ASSUME TypeOK, [Next]_vars, \A r \in Requests : ~ProvisionStep(r), NEW p \in Pods
  PROVE  /\ ActiveEntry(store'[p]) => ActiveEntry(store[p]) \/ ActiveEntry(draft[p])
         /\ ActiveEntry(draft'[p]) => ActiveEntry(draft[p]) \/ snap[p].claimed
         /\ snap'[p].claimed => snap[p].claimed \/ api[p].claimed
         /\ reap'[GC][p] \in {"ttl_expired", "exited", "stale"} =>
               reap'[GC][p] = reap[GC][p] \/ ActiveEntry(store[p])
         /\ (\A s \in Requests : req'[s] = req[s]) \/ Restart
<1> USE DEF ActiveEntry
<1> DEFINE Goal ==
         /\ ActiveEntry(store'[p]) => ActiveEntry(store[p]) \/ ActiveEntry(draft[p])
         /\ ActiveEntry(draft'[p]) => ActiveEntry(draft[p]) \/ snap[p].claimed
         /\ snap'[p].claimed => snap[p].claimed \/ api[p].claimed
         /\ reap'[GC][p] \in {"ttl_expired", "exited", "stale"} =>
               reap'[GC][p] = reap[GC][p] \/ ActiveEntry(store[p])
         /\ (\A s \in Requests : req'[s] = req[s]) \/ Restart
<1>0. /\ store \in [Pods -> Entry \cup {NoEntry}]
      /\ draft \in [Pods -> Entry \cup {NoEntry}]
      /\ snap \in [Pods -> Pod]
      /\ reap \in [Deleters -> [Pods -> Reasons \cup {"no", "removing"}]]
      /\ GC \in Deleters
  BY DEF TypeOK, Deleters
<1>1. CASE UNCHANGED vars
  BY <1>1 DEF vars
<1>2. CASE SyncStart
  BY <1>0, <1>2 DEF SyncStart, AbsentPod
<1>3. ASSUME NEW q \in Pods, SyncMerge(q) PROVE Goal
  <2>1. Merge(snap[q], store[q]).state = "active" => snap[q].claimed
    BY DEF Merge, Derived
  <2>2. QED
    BY <1>0, <1>3, <2>1 DEF SyncMerge, AbsentPod
<1>4. ASSUME NEW q \in Pods, SyncUpsert(q) PROVE Goal
  BY <1>0, <1>4 DEF SyncUpsert, Upsert
<1>5. CASE SyncPrune
  BY <1>0, <1>5 DEF SyncPrune, Prune
<1>6. CASE GcSelect
  <2>1. reap'[GC][p] = Reason(store[p])
    BY <1>0, <1>6 DEF GcSelect
  <2>2. QED
    BY <1>6, <2>1, ReasonActive DEF GcSelect
<1>7. CASE GcDone \/ SyncDone
  BY <1>7 DEF GcDone, SyncDone
<1>8. ASSUME NEW q \in Pods, SweepCompleted(q) PROVE Goal
  BY <1>8 DEF SweepCompleted, syncVars
<1>9. ASSUME NEW x \in Deleters, ReapStep(x) PROVE Goal
  <2>1. PICK q \in Pods : ReapDelete(x, q) \/ ReapRemove(x, q) \/ ReapFails(x, q)
    BY <1>9 DEF ReapStep
  <2>2. CASE ReapDelete(x, q)
    BY <1>0, <2>2 DEF ReapDelete, syncVars
  <2>3. CASE ReapRemove(x, q)
    BY <1>0, <2>3 DEF ReapRemove, Remove, Upsert, syncVars
  <2>4. CASE ReapFails(x, q)
    BY <1>0, <2>4 DEF ReapFails, syncVars
  <2>5. QED
    BY <2>1, <2>2, <2>3, <2>4
<1>10. ASSUME NEW x \in Admins, AdminStep(x) PROVE Goal
  <2>1. ASSUME NEW pods, Ask(x, pods) PROVE Goal
    BY <1>0, <2>1 DEF Ask, syncVars
  <2>2. QED
    BY <1>9, <1>10, <2>1 DEF AdminStep, HandleDelete, HandleRestart, DeleteAllClaimed,
                            Deleters
<1>11. CASE KubeStep \/ Tick
  BY <1>11 DEF KubeStep, Tick, syncVars
<1>12. CASE Restart
  BY <1>0, <1>12 DEF Restart, NoPods, NoDraft, AbsentPod, NothingToReap
<1>13. CASE SyncStep
  BY <1>0, <1>2, <1>3, <1>4, <1>5, <1>6, <1>7, <1>8, <1>9, <1>13 DEF SyncStep
<1>14. QED
  BY <1>1, <1>10, <1>11, <1>12, <1>13 DEF Next

\* ClaimedCopies is kept by every step: a copy that says "active" comes from a label
\* some copy has seen, and the label never goes back.
LEMMA ClaimedCopiesStep ==
  ASSUME TypeOK, ClaimedCopies, [Next]_vars
  PROVE  ClaimedCopies'
<1>1. ASSUME NEW p \in Pods PROVE api[p].claimed => api'[p].claimed
  BY <1>1, ApiOneWay DEF OneWay
<1>2. CASE \E r \in Requests : ProvisionStep(r)
  <2>1. PICK r \in Requests : ProvisionStep(r)
    BY <1>2
  <2>2. UNCHANGED <<snap, draft, reap>>
    BY <2>1 DEF ProvisionStep, Refuse, Provision, Detach, DetachFails, LateDetach,
                Rollback, Record, Grant, syncVars
  <2>3. QED
    BY <1>1, <2>1, <2>2, ProvisionStates DEF ClaimedCopies, GcSparesPool, ActiveEntry
<1>3. CASE \A r \in Requests : ~ProvisionStep(r)
  <2>1. ASSUME NEW r \in Requests, InFlight(r)' PROVE req'[r].sb.state = "provisioning"
    <3>1. CASE Restart
      BY <2>1, <3>1, RestartDropsRequests
    <3>2. CASE req'[r] = req[r]
      BY <2>1, <3>2 DEF ClaimedCopies, InFlight
    <3>3. QED
      <4>1. req'[r].pod \in Pods
        BY <2>1, TypeStep DEF TypeOK, InFlight, HoldsWhatItNeeds
      <4>2. req'[r] = req[r] \/ Restart
        BY <1>3, <4>1, OtherStates
      <4>3. QED
        BY <3>1, <3>2, <4>2
  <2>2. QED
    BY <1>1, <1>3, <2>1, OtherStates DEF ClaimedCopies, GcSparesPool, ActiveEntry
<1>4. QED
  BY <1>2, <1>3

-----------------------------------------------------------------------------
(***************************************************************************)
(* DetachedRequests.                                                       *)
(***************************************************************************)

\* A request's own step: it gets past the patch only by a patch that was applied.
LEMMA ProvisionDetached ==
  ASSUME TypeOK, NEW r \in Requests, ProvisionStep(r), NEW s \in Requests,
         req'[s].pc \in {"detached", "recorded"}
  PROVE  /\ req'[s].pod \in Pods /\ req'[s].pod = req[s].pod
         /\ req[s].pc \in {"detached", "recorded"} \/ api'[req[s].pod].claimed
<1>0. /\ req \in [Requests -> RequestRecord]
      /\ api \in [Pods -> Pod]
      /\ HoldsWhatItNeeds(req[s])
  BY DEF TypeOK
<1>1. CASE s # r
  <2>1. req'[s] = req[s]
    BY <1>0, <1>1 DEF ProvisionStep, Refuse, Provision, Detach, DetachFails, LateDetach,
                      Rollback, Record, Grant
  <2>2. QED
    BY <1>0, <2>1 DEF HoldsWhatItNeeds, InFlightPcs
<1>2. CASE s = r /\ Detach(r)
  <2>1. req[r].pc = "claimed" /\ req'[r].pod = req[r].pod
    BY <1>0, <1>2 DEF Detach, RequestRecord
  <2>2. req[r].pod \in Pods
    BY <1>0, <1>2, <2>1 DEF HoldsWhatItNeeds, InFlightPcs
  <2>3. api'[req[r].pod].claimed
    BY <1>0, <1>2, <2>2 DEF Detach, Patch, Pod
  <2>4. QED
    BY <1>2, <2>1, <2>2, <2>3
<1>3. CASE s = r /\ LateDetach(r)
  <2>1. req'[r].pc = req[r].pc /\ req'[r].pod = req[r].pod
    BY <1>0, <1>3 DEF LateDetach, RequestRecord
  <2>2. QED
    BY <1>0, <1>3, <2>1 DEF HoldsWhatItNeeds, InFlightPcs
<1>4. CASE s = r /\ Record(r)
  <2>1. req[r].pc = "detached" /\ req'[r].pod = req[r].pod
    BY <1>0, <1>4 DEF Record, RequestRecord
  <2>2. QED
    BY <1>0, <1>4, <2>1 DEF HoldsWhatItNeeds, InFlightPcs
<1>5. CASE s = r /\ (Refuse(r) \/ DetachFails(r) \/ Rollback(r) \/ Grant(r))
  BY <1>0, <1>5 DEF Refuse, DetachFails, Rollback, Grant, RequestRecord
<1>6. ASSUME NEW p \in Pods, NEW life, Provision(r, p, life), s = r PROVE FALSE
  BY <1>0, <1>6 DEF Provision
<1>7. QED
  BY <1>1, <1>2, <1>3, <1>4, <1>5, <1>6 DEF ProvisionStep

\* DetachedRequests is kept by every step, since no label ever goes back.
LEMMA DetachedRequestsStep ==
  ASSUME TypeOK, DetachedRequests, [Next]_vars
  PROVE  DetachedRequests'
<1> SUFFICES ASSUME NEW s \in Requests, req'[s].pc \in {"detached", "recorded"}
             PROVE  api'[req'[s].pod].claimed
  BY DEF DetachedRequests
<1>1. ASSUME NEW p \in Pods PROVE api[p].claimed => api'[p].claimed
  BY <1>1, ApiOneWay DEF OneWay
<1>2. CASE \E r \in Requests : ProvisionStep(r)
  BY <1>1, <1>2, ProvisionDetached DEF DetachedRequests
<1>3. CASE \A r \in Requests : ~ProvisionStep(r)
  <2>1. req'[s].pod \in Pods
    BY TypeStep DEF TypeOK, HoldsWhatItNeeds, InFlightPcs
  <2>2. req'[s] = req[s] \/ Restart
    BY <1>3, <2>1, OtherStates
  <2>3. CASE Restart
    BY <2>3, RestartDropsRequests DEF InFlight, InFlightPcs
  <2>4. CASE req'[s] = req[s]
    BY <1>1, <2>1, <2>4 DEF DetachedRequests
  <2>5. QED
    BY <2>2, <2>3, <2>4
<1>4. QED
  BY <1>2, <1>3

-----------------------------------------------------------------------------
(***************************************************************************)
(* SettledCopies.                                                          *)
(***************************************************************************)

\* What SettledCopies says of one pod.
SettledCopy(p) ==
    /\ draft[p] # NoEntry => snap[p].life # "live"
    /\ ActiveEntry(store[p]) =>
          /\ snap[p].life = "live" => snap[p].claimed
          /\ draft[p] # NoEntry => draft[p].state \in {"active", "failed"}
          /\ draft[p] # NoEntry /\ Unheld(p) =>
                draft[p].exp = store[p].exp /\ draft[p].det = store[p].det

\* A merge with an active entry keeps its clock, and a claimed pod is never offered.
LEMMA MergeSettled ==
  ASSUME NEW pod, pod.claimed, NEW e, ActiveEntry(e)
  PROVE  /\ Merge(pod, e).state \in {"active", "failed"}
         /\ Merge(pod, e).exp = e.exp
         /\ Merge(pod, e).det = e.det
  BY DEF Merge, Derived, DetachedAt, ActiveEntry

\* The steps that change neither the store's entry of p, nor sync's copies of it, nor
\* who holds it.
LEMMA SettledUnchanged ==
  ASSUME NEW p \in Pods, SettledCopy(p), snap'[p] = snap[p], draft'[p] = draft[p],
         ActiveEntry(store'[p]) => store'[p] = store[p],
         ActiveEntry(store'[p]) => \A r \in Requests : Holds(r, p) => Holds(r, p)'
  PROVE  SettledCopy(p)'
  BY DEF SettledCopy, Unheld, ActiveEntry

\* SettledCopies is kept by every step, for each pod.
LEMMA SettledCopyStep ==
  ASSUME TypeOK, OnlyCreatedPods, ClaimedCopies, [Next]_vars, NEW p \in Pods, SettledCopy(p)
  PROVE  SettledCopy(p)'
<1>0. /\ store \in [Pods -> Entry \cup {NoEntry}]
      /\ draft \in [Pods -> Entry \cup {NoEntry}]
      /\ snap \in [Pods -> Pod]
      /\ api \in [Pods -> Pod]
  BY DEF TypeOK
<1>1. ASSUME UNCHANGED <<snap, draft, req>>, store'[p] = store[p] \/ store'[p] = NoEntry
      PROVE  SettledCopy(p)'
  BY <1>1, SettledUnchanged DEF ActiveEntry, Holds, InFlight
<1>2. ASSUME NEW r \in Requests, ProvisionStep(r) PROVE SettledCopy(p)'
  <2>1. UNCHANGED syncVars
    BY <1>2, ProvisionEffect
  <2>2. QED
    BY <1>2, <2>1, ProvisionStates, SettledUnchanged DEF syncVars
<1>3. CASE SyncStart
  <2>1. draft[p] = NoEntry
    BY <1>3 DEF SyncStart, OnlyCreatedPods
  <2>2. snap'[p] = api[p] \/ snap'[p] = AbsentPod
    BY <1>3 DEF SyncStart
  <2>3. ActiveEntry(store[p]) => api[p].claimed
    BY DEF ClaimedCopies
  <2>4. store' = store /\ draft' = draft
    BY <1>3 DEF SyncStart
  <2>5. QED
    BY <2>1, <2>2, <2>3, <2>4 DEF SettledCopy, AbsentPod, ActiveEntry
<1>4. ASSUME NEW q \in Pods, SyncMerge(q) PROVE SettledCopy(p)'
  <2>1. CASE q = p
    <3>1. store' = store /\ snap'[p] = AbsentPod /\ draft'[p] = Merge(snap[p], store[p])
      BY <1>0, <1>4, <2>1 DEF SyncMerge
    <3>2. ActiveEntry(store[p]) => snap[p].claimed
      BY <1>4, <2>1 DEF SyncMerge, ToMerge, SettledCopy
    <3>3. QED
      BY <3>1, <3>2, MergeSettled DEF SettledCopy, AbsentPod, ActiveEntry
  <2>2. CASE q # p
    <3>1. store' = store /\ req' = req /\ snap'[p] = snap[p] /\ draft'[p] = draft[p]
      BY <1>0, <1>4, <2>2 DEF SyncMerge
    <3>2. QED
      BY <3>1, SettledUnchanged DEF Holds, InFlight
  <2>3. QED
    BY <2>1, <2>2
<1>5. ASSUME NEW q \in Pods, SyncUpsert(q) PROVE SettledCopy(p)'
  <2>1. CASE q = p
    <3>1. draft[p] # NoEntry /\ draft'[p] = NoEntry /\ snap' = snap
      BY <1>0, <1>5, <2>1 DEF SyncUpsert
    <3>2. QED
      BY <3>1 DEF SettledCopy
  <2>2. CASE q # p
    <3>1. store'[p] = store[p] /\ req' = req /\ snap' = snap /\ draft'[p] = draft[p]
      BY <1>0, <1>5, <2>2 DEF SyncUpsert, Upsert
    <3>2. QED
      BY <3>1, SettledUnchanged DEF Holds, InFlight
  <2>3. QED
    BY <2>1, <2>2
<1>6. ASSUME NEW x, ReapStep(x) PROVE SettledCopy(p)'
  BY <1>0, <1>1, <1>6 DEF ReapStep, ReapDelete, ReapRemove, ReapFails, Remove, Upsert, syncVars
<1>7. CASE SyncStep
  BY <1>0, <1>1, <1>3, <1>4, <1>5, <1>6, <1>7
     DEF SyncStep, SyncPrune, Prune, GcSelect, GcDone, SweepCompleted, SyncDone, syncVars
<1>8. ASSUME NEW x \in Admins, AdminStep(x) PROVE SettledCopy(p)'
  BY <1>1, <1>6, <1>8 DEF AdminStep, HandleDelete, HandleRestart, DeleteAllClaimed, Ask, syncVars
<1>9. CASE Restart
  BY <1>9 DEF Restart, SettledCopy, NoPods, NoDraft, ActiveEntry
<1>10. CASE KubeStep \/ Tick \/ UNCHANGED vars
  BY <1>1, <1>10 DEF KubeStep, Tick, vars, syncVars
<1>11. QED
  BY <1>2, <1>7, <1>8, <1>9, <1>10 DEF Next

\* SettledCopies is kept by every step.
LEMMA SettledCopiesStep ==
  ASSUME TypeOK, OnlyCreatedPods, ClaimedCopies, SettledCopies, [Next]_vars
  PROVE  SettledCopies'
<1>1. \A p \in Pods : SettledCopy(p)
  BY DEF SettledCopies, SettledCopy
<1>2. \A p \in Pods : SettledCopy(p)'
  BY <1>1, SettledCopyStep
<1>3. QED
  BY <1>2 DEF SettledCopies, SettledCopy

-----------------------------------------------------------------------------
(***************************************************************************)
(* HonestTimes.                                                            *)
(***************************************************************************)

\* A request that has claimed a pod keeps its claim, its time and its expiry, and
\* the clock does not go back.
LEMMA ClaimsLast ==
  ASSUME TypeOK, HonestTimes, [Next]_vars
  PROVE  /\ now <= now' /\ now' \in Nat
         /\ \A r \in Requests : req[r].pod \in Pods =>
               /\ req'[r].pod = req[r].pod
               /\ req'[r].at = req[r].at
               /\ req'[r].exp = req[r].exp
         /\ \A r \in Requests : req'[r].at <= now'
         /\ \A r \in Requests : req'[r].pc \in {"new", "refused"} => req'[r].pod = NoPod
<1> DEFINE Lasts(r) ==
               /\ req[r].pod \in Pods =>
                     /\ req'[r].pod = req[r].pod
                     /\ req'[r].at = req[r].at
                     /\ req'[r].exp = req[r].exp
               /\ req'[r].at <= now'
               /\ req'[r].pc \in {"new", "refused"} => req'[r].pod = NoPod
<1>0. /\ req \in [Requests -> RequestRecord]
      /\ now \in Nat
      /\ \A r \in Requests : req[r].at <= now /\ req[r].at \in Int
      /\ \A r \in Requests : req[r].pc \in {"new", "refused"} => req[r].pod = NoPod
  BY DEF TypeOK, HonestTimes, RequestRecord
<1>1. now' = now \/ (Tick /\ now' = now + 1)
  <2>1. ASSUME NEW r \in Requests, ProvisionStep(r) PROVE now' = now
    BY <2>1 DEF ProvisionStep, Refuse, Provision, Detach, DetachFails, LateDetach,
                Rollback, Record, Grant
  <2>2. ASSUME NEW x, ReapStep(x) PROVE now' = now
    BY <2>2 DEF ReapStep, ReapDelete, ReapRemove, ReapFails
  <2>3. ASSUME SyncStep PROVE now' = now
    BY <2>2, <2>3 DEF SyncStep, SyncStart, SyncMerge, SyncUpsert, SyncPrune, SweepCompleted,
                      GcSelect, GcDone, SyncDone
  <2>4. ASSUME NEW x \in Admins, AdminStep(x) PROVE now' = now
    BY <2>2, <2>4 DEF AdminStep, HandleDelete, HandleRestart, DeleteAllClaimed, Ask
  <2>5. QED
    BY <2>1, <2>3, <2>4 DEF Next, KubeStep, Restart, Tick, vars
<1>2. now <= now' /\ now' \in Nat
  BY <1>0, <1>1
<1>3. ASSUME NEW r \in Requests PROVE Lasts(r)
  <2>1. CASE req'[r] = req[r]
    BY <1>0, <1>2, <2>1
  <2>2. ASSUME NEW s \in Requests, ProvisionStep(s) PROVE Lasts(r)
    <3>1. CASE Refuse(s)
      BY <1>0, <1>2, <2>1, <3>1 DEF Refuse, RequestRecord
    <3>2. ASSUME NEW p \in Pods, NEW life, Provision(s, p, life) PROVE Lasts(r)
      BY <1>0, <1>2, <2>1, <3>2, NamesAssumption DEF Provision
    <3>3. CASE Detach(s)
      BY <1>0, <1>2, <2>1, <3>3 DEF Detach, RequestRecord
    <3>4. CASE DetachFails(s)
      BY <1>0, <1>2, <2>1, <3>4 DEF DetachFails, RequestRecord
    <3>5. CASE LateDetach(s)
      BY <1>0, <1>2, <2>1, <3>5 DEF LateDetach, RequestRecord
    <3>6. CASE Rollback(s)
      BY <1>0, <1>2, <2>1, <3>6 DEF Rollback, RequestRecord
    <3>7. CASE Record(s)
      BY <1>0, <1>2, <2>1, <3>7 DEF Record, RequestRecord
    <3>8. CASE Grant(s)
      BY <1>0, <1>2, <2>1, <3>8 DEF Grant, RequestRecord
    <3>9. QED
      BY <2>2, <3>1, <3>2, <3>3, <3>4, <3>5, <3>6, <3>7, <3>8 DEF ProvisionStep
  <2>3. CASE Restart
    BY <1>0, <1>2, <2>3, RestartDropsRequests
  <2>4. CASE UNCHANGED req
    BY <2>1, <2>4
  <2>5. ASSUME NEW x, ReapStep(x) PROVE UNCHANGED req
    BY <2>5 DEF ReapStep, ReapDelete, ReapRemove, ReapFails
  <2>6. ASSUME SyncStep PROVE UNCHANGED req
    BY <2>5, <2>6 DEF SyncStep, SyncStart, SyncMerge, SyncUpsert, SyncPrune, SweepCompleted,
                      GcSelect, GcDone, SyncDone
  <2>7. ASSUME NEW x \in Admins, AdminStep(x) PROVE UNCHANGED req
    BY <2>5, <2>7 DEF AdminStep, HandleDelete, HandleRestart, DeleteAllClaimed, Ask
  <2>8. QED
    BY <2>2, <2>3, <2>4, <2>6, <2>7 DEF Next, KubeStep, Tick, vars
<1>4. QED
  BY <1>2, <1>3

\* Whatever a request writes, into the store, its object or a pod, is honest.
LEMMA ProvisionHonest ==
  ASSUME TypeOK, HonestTimes, NEW r \in Requests, ProvisionStep(r)
  PROVE  /\ \A p \in Pods : HonestEntry(p, store'[p])
         /\ \A p \in Pods : HonestPod(p, api'[p])
         /\ UNCHANGED <<snap, draft, reap>>
<1>0. /\ req \in [Requests -> RequestRecord]
      /\ store \in [Pods -> Entry \cup {NoEntry}]
      /\ api \in [Pods -> Pod]
      /\ now \in Nat
      /\ HoldsWhatItNeeds(req[r])
  BY DEF TypeOK
<1>1. /\ \A p \in Pods : HonestEntry(p, store[p])
      /\ \A p \in Pods : HonestPod(p, api[p])
      /\ \A s \in Requests : InFlight(s) => HonestEntry(req[s].pod, req[s].sb)
      /\ \A s \in Requests : req[s].at <= now /\ req[s].at \in Int
  BY <1>0 DEF HonestTimes, RequestRecord
<1>2. CASE Refuse(r)
  BY <1>1, <1>2 DEF Refuse, syncVars
<1>3. ASSUME NEW p \in Pods, NEW life, Provision(r, p, life)
      PROVE  /\ \A q \in Pods : HonestEntry(q, store'[q])
             /\ UNCHANGED <<api, snap, draft, reap>>
  <2>1. store[p] \in Entry
    BY <1>0, <1>3 DEF Provision, ClaimIdle, IsIdle, Known
  <2>2. store'[p].det = store[p].det /\ store'[p].exp = store[p].exp
    BY <1>0, <1>3, <2>1 DEF Provision, ClaimIdle, Entry
  <2>3. \A q \in Pods \ {p} : store'[q] = store[q]
    BY <1>0, <1>3 DEF Provision, ClaimIdle
  <2>4. HonestEntry(p, store'[p])
    BY <1>1, <2>1, <2>2 DEF HonestEntry
  <2>5. QED
    BY <1>1, <1>3, <2>3, <2>4 DEF Provision, syncVars
<1>4. ASSUME NEW t, t = req[r].at, Patch(req[r].pod, t), req[r].pod \in Pods
      PROVE  \A p \in Pods : HonestPod(p, api'[p])
  <2>1. t \in Int /\ t <= now
    BY <1>1, <1>4
  <2>2. ClaimedBy(req[r].pod, now) /\ ClaimedBy(req[r].pod, t)
    BY <1>1, <1>4, <2>1 DEF ClaimedBy
  <2>3. api'[req[r].pod].claimedAt = t
    BY <1>0, <1>4 DEF Patch, Pod
  <2>4. \A p \in Pods \ {req[r].pod} : api'[p] = api[p]
    BY <1>0, <1>4 DEF Patch
  <2>5. QED
    BY <1>1, <2>2, <2>3, <2>4 DEF HonestPod
<1>5. CASE Detach(r)
  BY <1>0, <1>1, <1>4, <1>5 DEF Detach, HoldsWhatItNeeds, InFlightPcs, syncVars
<1>6. CASE DetachFails(r)
  BY <1>1, <1>6 DEF DetachFails, syncVars
<1>7. CASE LateDetach(r)
  BY <1>0, <1>1, <1>4, <1>7 DEF LateDetach, HoldsWhatItNeeds, syncVars
<1>8. CASE Rollback(r)
  <2> DEFINE e == [req[r].sb EXCEPT !.state = "idle", !.by = NoReq]
  <2>1. InFlight(r) /\ req[r].sb \in Entry /\ req[r].pod \in Pods
    BY <1>0, <1>8 DEF Rollback, HoldsWhatItNeeds, InFlight, InFlightPcs
  <2>2. e.det = req[r].sb.det /\ e.exp = req[r].sb.exp
    BY <2>1 DEF Entry
  <2>3. HonestEntry(req[r].pod, e)
    BY <1>1, <2>1, <2>2 DEF HonestEntry
  <2>4. store' = [store EXCEPT ![req[r].pod] = e] /\ UNCHANGED <<api, snap, draft, reap>>
    BY <1>8 DEF Rollback, Upsert, syncVars
  <2>5. QED
    BY <1>0, <1>1, <2>1, <2>3, <2>4
<1>9. CASE Record(r)
  <2> DEFINE e == [req[r].sb EXCEPT !.det = now, !.exp = req[r].exp]
  <2>1. req[r].sb \in Entry /\ req[r].pod \in Pods
    BY <1>0, <1>9 DEF Record, HoldsWhatItNeeds, InFlightPcs
  <2>2. e.det = now /\ e.exp = req[r].exp
    BY <2>1 DEF Entry
  <2>3. AskedFor(req[r].pod, req[r].exp) /\ ClaimedBy(req[r].pod, now)
    BY <1>1 DEF AskedFor, ClaimedBy
  <2>4. HonestEntry(req[r].pod, e)
    BY <2>2, <2>3 DEF HonestEntry
  <2>5. /\ store' = [store EXCEPT ![req[r].pod] = e] \/ store' = store
        /\ UNCHANGED <<api, snap, draft, reap>>
    BY <1>9 DEF Record, syncVars
  <2>6. QED
    BY <1>0, <1>1, <2>1, <2>4, <2>5
<1>10. CASE Grant(r)
  <2> DEFINE e == [req[r].sb EXCEPT !.by = NoReq]
  <2>1. InFlight(r) /\ req[r].sb \in Entry /\ req[r].pod \in Pods
    BY <1>0, <1>10 DEF Grant, HoldsWhatItNeeds, InFlight, InFlightPcs
  <2>2. e.det = req[r].sb.det /\ e.exp = req[r].sb.exp
    BY <2>1 DEF Entry
  <2>3. HonestEntry(req[r].pod, e)
    BY <1>1, <2>1, <2>2 DEF HonestEntry
  <2>4. store' = [store EXCEPT ![req[r].pod] = e] /\ UNCHANGED <<api, snap, draft, reap>>
    BY <1>10 DEF Grant, Upsert, syncVars
  <2>5. QED
    BY <1>0, <1>1, <2>1, <2>3, <2>4
<1>11. QED
  BY <1>1, <1>2, <1>3, <1>5, <1>6, <1>7, <1>8, <1>9, <1>10 DEF ProvisionStep

\* The objects in the hands of requests are honest after a request's step.
LEMMA ObjectsHonest ==
  ASSUME TypeOK, HonestTimes, NEW r \in Requests, ProvisionStep(r)
  PROVE  \A s \in Requests : InFlight(s)' => HonestEntry(req'[s].pod, req'[s].sb)
<1> USE DEF InFlight, InFlightPcs
<1>0. /\ req \in [Requests -> RequestRecord]
      /\ HoldsWhatItNeeds(req[r])
      /\ \A s \in Requests : InFlight(s) => HonestEntry(req[s].pod, req[s].sb)
      /\ \A s \in Requests : req[s].at <= now
  BY DEF TypeOK, HonestTimes
<1>1. CASE Refuse(r)
  BY <1>0, <1>1 DEF Refuse, RequestRecord
<1>2. ASSUME NEW p \in Pods, NEW life, Provision(r, p, life)
      PROVE  \A s \in Requests : InFlight(s)' => HonestEntry(req'[s].pod, req'[s].sb)
  <2>1. HonestEntry(p, store'[p])
    BY <1>2, ProvisionHonest DEF ProvisionStep
  <2>2. req'[r].pod = p /\ req'[r].sb = store'[p]
    BY <1>0, <1>2 DEF Provision
  <2>3. \A s \in Requests \ {r} : req'[s] = req[s]
    BY <1>0, <1>2 DEF Provision
  <2>4. QED
    BY <1>0, <2>1, <2>2, <2>3
<1>3. CASE Detach(r)
  BY <1>0, <1>3 DEF Detach, RequestRecord
<1>4. CASE DetachFails(r)
  BY <1>0, <1>4 DEF DetachFails, RequestRecord
<1>5. CASE LateDetach(r)
  BY <1>0, <1>5 DEF LateDetach, RequestRecord
<1>6. CASE Rollback(r)
  BY <1>0, <1>6 DEF Rollback, RequestRecord
<1>7. CASE Record(r)
  <2> DEFINE e == [req[r].sb EXCEPT !.det = now, !.exp = req[r].exp]
  <2>1. req[r].sb \in Entry /\ req[r].pod \in Pods
    BY <1>0, <1>7 DEF Record, HoldsWhatItNeeds
  <2>2. e.det = now /\ e.exp = req[r].exp
    BY <2>1 DEF Entry
  <2>3. HonestEntry(req[r].pod, e)
    BY <1>0, <2>2 DEF HonestEntry, AskedFor, ClaimedBy
  <2>4. req'[r].pod = req[r].pod /\ req'[r].sb = e
    BY <1>0, <1>7 DEF Record, RequestRecord
  <2>5. \A s \in Requests \ {r} : req'[s] = req[s]
    BY <1>0, <1>7 DEF Record
  <2>6. QED
    BY <1>0, <2>3, <2>4, <2>5
<1>8. CASE Grant(r)
  BY <1>0, <1>8 DEF Grant, RequestRecord
<1>9. QED
  BY <1>1, <1>2, <1>3, <1>4, <1>5, <1>6, <1>7, <1>8 DEF ProvisionStep

\* sync's merge of an honest view of a pod with an honest entry is honest.
LEMMA MergeHonest ==
  ASSUME NEW p \in Pods, NEW pod, HonestPod(p, pod), NEW e, HonestEntry(p, e)
  PROVE  HonestEntry(p, Merge(pod, e))
<1>1. AskedFor(p, Merge(pod, e).exp)
  BY DEF Merge, HonestEntry, AskedFor
<1>2. ClaimedBy(p, DetachedAt(pod, e))
  <2>1. Derived(pod) = "active" => ClaimedBy(p, now)
    BY DEF Derived, HonestPod
  <2>2. ClaimedBy(p, NoTime) /\ ClaimedBy(p, pod.claimedAt)
    BY DEF HonestPod, ClaimedBy
  <2>3. e # NoEntry => ClaimedBy(p, e.det)
    BY DEF HonestEntry
  <2>4. QED
    BY <2>1, <2>2, <2>3 DEF DetachedAt
<1>3. QED
  BY <1>1, <1>2 DEF HonestEntry, Merge

\* A verdict of gc on an honest entry is due.
DueTtl(p) == \E r \in Requests : req[r].pod = p /\ OlderThan(req[r].exp, 0, now)
DueStale(p) == \E r \in Requests : req[r].pod = p /\ OlderThan(req[r].at, StaleAge, now)

LEMMA ReasonDue ==
  ASSUME TypeOK, NEW p \in Pods, HonestEntry(p, store[p])
  PROVE  /\ Reason(store[p]) = "ttl_expired" => DueTtl(p)
         /\ Reason(store[p]) = "stale" => DueStale(p)
<1>0. /\ store[p] \in Entry \cup {NoEntry}
      /\ now \in Nat
      /\ \A r \in Requests : req[r].at \in Int
  BY DEF TypeOK, RequestRecord
<1>1. Reason(store[p]) = "ttl_expired" => DueTtl(p)
  BY <1>0 DEF Reason, HonestEntry, AskedFor, OlderThan, DueTtl
<1>2. ASSUME Reason(store[p]) = "stale" PROVE DueStale(p)
  <2>1. store[p].det \in Int /\ now - store[p].det > StaleAge /\ ClaimedBy(p, store[p].det)
    BY <1>0, <1>2 DEF Reason, HonestEntry, OlderThan, Entry, Time
  <2>2. PICK r \in Requests : req[r].pod = p /\ req[r].at <= store[p].det
    BY <2>1 DEF ClaimedBy
  <2>3. req[r].at \in Int /\ StaleAge \in Int /\ now \in Int
    BY <1>0
  <2>4. now - req[r].at > StaleAge /\ req[r].at # NoTime
    BY <2>1, <2>2, <2>3
  <2>5. QED
    BY <2>2, <2>4 DEF DueStale, OlderThan
<1>3. QED
  BY <1>1, <1>2

\* A deleted pod is honest, and so is one the cluster moves on.
LEMMA KubeHonest ==
  ASSUME TypeOK, HonestTimes, NEW p \in Pods,
         KubeStep \/ (\E q \in Pods : ForceDelete(q))
  PROVE  HonestPod(p, api'[p])
<1>0. api \in [Pods -> Pod] /\ HonestPod(p, api[p])
  BY DEF TypeOK, HonestTimes
<1>1. HonestPod(p, Gone(api[p]))
  BY <1>0 DEF HonestPod, Gone, AbsentPod, ClaimedBy
<1>2. \/ api'[p] = Gone(api[p])
      \/ api'[p].claimed = api[p].claimed /\ api'[p].claimedAt = api[p].claimedAt
  BY <1>0 DEF KubeStep, ForceDelete, CreatePod, ScaleDown, Terminated, Kubelet, Pod
<1>3. QED
  BY <1>0, <1>1, <1>2 DEF HonestPod

\* The steps that are not a request's copy honest values, or make honest ones.
LEMMA OtherHonest ==
  ASSUME TypeOK, HonestTimes, [Next]_vars, \A r \in Requests : ~ProvisionStep(r),
         NEW p \in Pods
  PROVE  /\ HonestEntry(p, store'[p])
         /\ HonestEntry(p, draft'[p])
         /\ HonestPod(p, api'[p])
         /\ HonestPod(p, snap'[p])
         /\ reap'[GC][p] = "ttl_expired" => DueTtl(p)
         /\ reap'[GC][p] = "stale" => DueStale(p)
<1> DEFINE Goal ==
         /\ HonestEntry(p, store'[p])
         /\ HonestEntry(p, draft'[p])
         /\ HonestPod(p, api'[p])
         /\ HonestPod(p, snap'[p])
         /\ reap'[GC][p] = "ttl_expired" => DueTtl(p)
         /\ reap'[GC][p] = "stale" => DueStale(p)
<1>0. /\ store \in [Pods -> Entry \cup {NoEntry}]
      /\ draft \in [Pods -> Entry \cup {NoEntry}]
      /\ snap \in [Pods -> Pod] /\ api \in [Pods -> Pod]
      /\ reap \in [Deleters -> [Pods -> Reasons \cup {"no", "removing"}]]
      /\ GC \in Deleters
  BY DEF TypeOK, Deleters
<1>1. /\ HonestEntry(p, store[p]) /\ HonestEntry(p, draft[p])
      /\ HonestPod(p, api[p]) /\ HonestPod(p, snap[p])
      /\ reap[GC][p] = "ttl_expired" => DueTtl(p)
      /\ reap[GC][p] = "stale" => DueStale(p)
  BY DEF HonestTimes, DeletionsAreDue, DueTtl, DueStale
<1>2. HonestEntry(p, NoEntry) /\ HonestPod(p, AbsentPod)
  BY DEF HonestEntry, HonestPod, AbsentPod, ClaimedBy
<1>3. CASE UNCHANGED vars
  BY <1>1, <1>3 DEF vars
<1>4. CASE SyncStart
  BY <1>0, <1>1, <1>2, <1>4 DEF SyncStart
<1>5. ASSUME NEW q \in Pods, SyncMerge(q) PROVE Goal
  <2>1. HonestEntry(p, Merge(snap[p], store[p]))
    BY <1>1, MergeHonest
  <2>2. QED
    BY <1>0, <1>1, <1>2, <1>5, <2>1 DEF SyncMerge
<1>6. ASSUME NEW q \in Pods, SyncUpsert(q) PROVE Goal
  BY <1>0, <1>1, <1>2, <1>6 DEF SyncUpsert, Upsert
<1>7. CASE SyncPrune
  BY <1>0, <1>1, <1>2, <1>7 DEF SyncPrune, Prune
<1>8. CASE GcSelect
  <2>1. reap'[GC][p] = Reason(store[p])
    BY <1>0, <1>8 DEF GcSelect
  <2>2. QED
    BY <1>1, <1>8, <2>1, ReasonDue DEF GcSelect
<1>9. CASE GcDone \/ SyncDone
  BY <1>1, <1>9 DEF GcDone, SyncDone
<1>10. ASSUME NEW q \in Pods, SweepCompleted(q) PROVE Goal
  BY <1>1, <1>10, KubeHonest DEF SweepCompleted, syncVars
<1>11. ASSUME NEW x \in Deleters, ReapStep(x) PROVE Goal
  <2>1. PICK q \in Pods : ReapDelete(x, q) \/ ReapRemove(x, q) \/ ReapFails(x, q)
    BY <1>11 DEF ReapStep
  <2>2. CASE ReapDelete(x, q)
    BY <1>0, <1>1, <2>2, KubeHonest DEF ReapDelete, syncVars
  <2>3. CASE ReapRemove(x, q)
    BY <1>0, <1>1, <1>2, <2>3 DEF ReapRemove, Remove, Upsert, syncVars
  <2>4. CASE ReapFails(x, q)
    BY <1>0, <1>1, <2>4, KubeHonest DEF ReapFails, syncVars
  <2>5. QED
    BY <2>1, <2>2, <2>3, <2>4
<1>12. ASSUME NEW x \in Admins, AdminStep(x) PROVE Goal
  <2>1. ASSUME NEW pods, Ask(x, pods) PROVE Goal
    BY <1>0, <1>1, <1>12, <2>1 DEF Ask, syncVars
  <2>2. QED
    BY <1>11, <1>12, <2>1 DEF AdminStep, HandleDelete, HandleRestart, DeleteAllClaimed,
                             Deleters
<1>13. CASE KubeStep
  BY <1>1, <1>13, KubeHonest DEF KubeStep, syncVars
<1>14. CASE Tick
  BY <1>1, <1>14 DEF Tick, syncVars
<1>15. CASE Restart
  BY <1>0, <1>1, <1>2, <1>15 DEF Restart, NoPods, NoDraft, NothingToReap
<1>16. CASE SyncStep
  BY <1>4, <1>5, <1>6, <1>7, <1>8, <1>9, <1>10, <1>11, <1>16 DEF SyncStep, Deleters
<1>17. QED
  BY <1>3, <1>12, <1>13, <1>14, <1>15, <1>16 DEF Next

\* HonestTimes is kept by every step: what is written is honest, and what was honest
\* stays so, because a claim lasts and the clock does not go back.
LEMMA HonestTimesStep ==
  ASSUME TypeOK, HonestTimes, [Next]_vars
  PROVE  HonestTimes'
<1>0. /\ TypeOK'
      /\ now \in Nat
      /\ \A r \in Requests : req[r].at \in Int
  BY TypeStep DEF TypeOK, RequestRecord
<1>1. ASSUME NEW p \in Pods
      PROVE  /\ HonestEntry(p, store'[p])
             /\ HonestEntry(p, draft'[p])
             /\ HonestPod(p, api'[p])
             /\ HonestPod(p, snap'[p])
             /\ reap'[GC][p] = "ttl_expired" => DueTtl(p)
             /\ reap'[GC][p] = "stale" => DueStale(p)
  <2>1. CASE \E r \in Requests : ProvisionStep(r)
    BY <2>1, ProvisionHonest DEF HonestTimes, DeletionsAreDue, DueTtl, DueStale
  <2>2. CASE \A r \in Requests : ~ProvisionStep(r)
    BY <2>2, OtherHonest
  <2>3. QED
    BY <2>1, <2>2
<1>2. ASSUME NEW r \in Requests, InFlight(r)'
      PROVE  HonestEntry(req'[r].pod, req'[r].sb) /\ req'[r].pod \in Pods
  <2>1. req'[r].pod \in Pods
    BY <1>0, <1>2 DEF TypeOK, InFlight, HoldsWhatItNeeds
  <2>2. CASE \E s \in Requests : ProvisionStep(s)
    BY <1>2, <2>1, <2>2, ObjectsHonest
  <2>3. CASE \A s \in Requests : ~ProvisionStep(s)
    <3>1. ~Restart
      BY <1>2, RestartDropsRequests
    <3>2. req'[r] = req[r]
      BY <2>1, <2>3, <3>1, OtherStates
    <3>3. QED
      BY <1>2, <2>1, <3>2 DEF HonestTimes, InFlight
  <2>4. QED
    BY <2>2, <2>3
<1>3. ASSUME NEW p \in Pods, NEW t PROVE AskedFor(p, t) =>
                 (t # NoTime => \E r \in Requests : req'[r].pod = p /\ req'[r].exp = t)
  BY <1>3, ClaimsLast DEF AskedFor
<1>4. ASSUME NEW p \in Pods, NEW t PROVE ClaimedBy(p, t) =>
                 (t # NoTime => \E r \in Requests : req'[r].pod = p /\ req'[r].at <= t)
  BY <1>4, ClaimsLast DEF ClaimedBy
<1>5. ASSUME NEW p \in Pods, ClaimedBy(p, now) PROVE ClaimedBy(p, now)'
  <2>1. PICK r \in Requests : req[r].pod = p /\ req[r].at <= now
    BY <1>0, <1>5 DEF ClaimedBy
  <2>2. req'[r].pod = p /\ req'[r].at = req[r].at /\ now <= now' /\ now' \in Nat
    BY <2>1, ClaimsLast
  <2>3. req'[r].at <= now'
    BY <1>0, <2>1, <2>2
  <2>4. QED
    BY <2>2, <2>3 DEF ClaimedBy
<1>6. ASSUME NEW p \in Pods
      PROVE  HonestEntry(p, store[p])' /\ HonestEntry(p, draft[p])'
  <2>1. ASSUME store'[p] # NoEntry
        PROVE  AskedFor(p, store[p].exp)' /\ ClaimedBy(p, store[p].det)'
    <3>1. AskedFor(p, store'[p].exp) /\ ClaimedBy(p, store'[p].det)
      BY <1>1, <2>1 DEF HonestEntry
    <3>2. AskedFor(p, store[p].exp)'
      BY <1>3, <3>1 DEF AskedFor
    <3>3. ClaimedBy(p, store[p].det)'
      BY <1>4, <3>1 DEF ClaimedBy
    <3>4. QED
      BY <3>2, <3>3
  <2>2. ASSUME draft'[p] # NoEntry
        PROVE  AskedFor(p, draft[p].exp)' /\ ClaimedBy(p, draft[p].det)'
    <3>1. AskedFor(p, draft'[p].exp) /\ ClaimedBy(p, draft'[p].det)
      BY <1>1, <2>2 DEF HonestEntry
    <3>2. AskedFor(p, draft[p].exp)'
      BY <1>3, <3>1 DEF AskedFor
    <3>3. ClaimedBy(p, draft[p].det)'
      BY <1>4, <3>1 DEF ClaimedBy
    <3>4. QED
      BY <3>2, <3>3
  <2>3. QED
    BY <2>1, <2>2 DEF HonestEntry
<1>7. ASSUME NEW p \in Pods
      PROVE  HonestPod(p, api[p])' /\ HonestPod(p, snap[p])'
  <2>1. (api'[p].claimed => ClaimedBy(p, now)') /\ (snap'[p].claimed => ClaimedBy(p, now)')
    BY <1>1, <1>5 DEF HonestPod
  <2>2. ClaimedBy(p, api[p].claimedAt)' /\ ClaimedBy(p, snap[p].claimedAt)'
    BY <1>1, <1>4 DEF HonestPod, ClaimedBy
  <2>3. QED
    BY <2>1, <2>2 DEF HonestPod
<1>8. ASSUME NEW r \in Requests, InFlight(r)'
      PROVE  HonestEntry(req[r].pod, req[r].sb)'
  <2> DEFINE p == req'[r].pod
  <2>1. ASSUME req'[r].sb # NoEntry
        PROVE  AskedFor(req[r].pod, req[r].sb.exp)' /\ ClaimedBy(req[r].pod, req[r].sb.det)'
    <3>1. p \in Pods /\ AskedFor(p, req'[r].sb.exp) /\ ClaimedBy(p, req'[r].sb.det)
      BY <1>2, <1>8, <2>1 DEF HonestEntry
    <3>2. AskedFor(req[r].pod, req[r].sb.exp)'
      BY <1>3, <3>1 DEF AskedFor
    <3>3. ClaimedBy(req[r].pod, req[r].sb.det)'
      BY <1>4, <3>1 DEF ClaimedBy
    <3>4. QED
      BY <3>2, <3>3
  <2>2. QED
    BY <2>1 DEF HonestEntry
<1>9. DeletionsAreDue'
  <2>1. ASSUME NEW p \in Pods, NEW r \in Requests, req[r].pod = p,
               OlderThan(req[r].exp, 0, now)
        PROVE  req'[r].pod = p /\ OlderThan(req'[r].exp, 0, now')
    <3>1. req'[r].pod = p /\ req'[r].exp = req[r].exp /\ now <= now' /\ now' \in Nat
      BY <2>1, ClaimsLast
    <3>2. req[r].exp \in Int
      BY <2>1 DEF TypeOK, RequestRecord, Time, OlderThan
    <3>3. QED
      BY <1>0, <2>1, <3>1, <3>2 DEF OlderThan
  <2>2. ASSUME NEW p \in Pods, NEW r \in Requests, req[r].pod = p,
               OlderThan(req[r].at, StaleAge, now)
        PROVE  req'[r].pod = p /\ OlderThan(req'[r].at, StaleAge, now')
    <3>1. req'[r].pod = p /\ req'[r].at = req[r].at /\ now <= now' /\ now' \in Nat
      BY <2>2, ClaimsLast
    <3>2. StaleAge \in Int /\ req[r].at \in Int
      BY <1>0
    <3>3. QED
      BY <1>0, <2>2, <3>1, <3>2 DEF OlderThan
  <2>3. QED
    BY <1>1, <2>1, <2>2 DEF DeletionsAreDue, DueTtl, DueStale
<1>10. QED
  BY <1>6, <1>7, <1>8, <1>9, ClaimsLast DEF HonestTimes

-----------------------------------------------------------------------------
(***************************************************************************)
(* The inductive invariant, and what follows from it.                      *)
(***************************************************************************)

\* The invariant holds of the empty store and the empty cluster.
LEMMA InvariantInit == Init => InductiveInvariant
<1> SUFFICES ASSUME Init PROVE InductiveInvariant
  OBVIOUS
<1> USE DEF Init, KubeInit, StoreInit, NoPods, NoDraft, NothingToReap, NewRequest,
            InFlight, InFlightPcs, AbsentPod
<1>1. OnlyCreatedPods
  BY DEF OnlyCreatedPods, Known, Holds, Existed
<1>2. UnlistedPods
  BY DEF UnlistedPods
<1>3. ClaimedCopies
  BY DEF ClaimedCopies, ActiveEntry, GcSparesPool, Deleters
<1>4. HonestTimes
  BY DEF HonestTimes, HonestEntry, HonestPod, AskedFor, ClaimedBy, DeletionsAreDue, Deleters
<1>5. SettledCopies
  BY DEF SettledCopies, ActiveEntry
<1>6. DetachedRequests
  BY DEF DetachedRequests
<1>7. QED
  BY <1>1, <1>2, <1>3, <1>4, <1>5, <1>6 DEF InductiveInvariant

\* The invariant: whatever sync and the handlers hold of a pod, in the store, in a
\* snapshot, in a fresh object or behind a pointer, is true of the cluster or of a claim
\* that was made of this very pod, and stays so through every step and every crash.
THEOREM Invariance == Spec => []InductiveInvariant
<1>1. TypeOK /\ InductiveInvariant /\ [Next]_vars => InductiveInvariant'
  BY OnlyCreatedPodsStep, UnlistedPodsStep, ClaimedCopiesStep, DetachedRequestsStep,
     SettledCopiesStep, HonestTimesStep DEF InductiveInvariant
<1>2. QED
  BY <1>1, InvariantInit, TypeCorrect, PTL DEF Spec

\* No interleaving of claims, errors, late patches, restarts and syncs makes the store
\* call a pod active that is not detached (reconciler.go:115-118, 185-200).
THEOREM ActiveIsClaimedAlways == Spec => []ActiveIsClaimed
<1>1. InductiveInvariant => ActiveIsClaimed
  BY DEF InductiveInvariant, ClaimedCopies, ActiveIsClaimed, ActiveEntry, Known
<1>2. QED
  BY <1>1, Invariance, PTL

\* gc never selects a pod of the pool by a lifetime rule (reconciler.go:253-269).
THEOREM GcSparesPoolAlways == Spec => []GcSparesPool
<1>1. InductiveInvariant => GcSparesPool
  BY DEF InductiveInvariant, ClaimedCopies
<1>2. QED
  BY <1>1, Invariance, PTL

\* gc never deletes a pod early: expiries and detach times never end up on another pod,
\* and a request's time is never exceeded unless it has passed (reconciler.go:253-269).
THEOREM DeletionsAreDueAlways == Spec => []DeletionsAreDue
<1>1. InductiveInvariant => DeletionsAreDue
  BY DEF InductiveInvariant, HonestTimes
<1>2. QED
  BY <1>1, Invariance, PTL

\* Prune drops only entries of pods that are gone or terminating, although the list it
\* works from is older than the store (store.go:188-201, reconciler.go:203).
THEOREM PruneIsSafe == Spec => PruneDropsOnlyDead
<1> DEFINE Safe == SyncPrune => \A p \in Pods :
                      Known(p) /\ store'[p] = NoEntry => api[p].life \in {"deleting", "gone"}
<1>1. InductiveInvariant => [Safe]_vars
  <2> SUFFICES ASSUME InductiveInvariant, SyncPrune, NEW p \in Pods, Known(p),
                      store'[p] = NoEntry
               PROVE  api[p].life \in {"deleting", "gone"}
    OBVIOUS
  <2>1. syncPc = "scan" /\ p \notin live
    BY DEF SyncPrune, Prune, Known
  <2>2. QED
    BY <2>1 DEF InductiveInvariant, UnlistedPods, Unheard, Unheld, Known
<1>2. QED
  BY <1>1, Invariance, PTL DEF PruneDropsOnlyDead

-----------------------------------------------------------------------------
(***************************************************************************)
(* Settled claims.                                                         *)
(***************************************************************************)

\* A request writes to the store only about the pod it holds or an idle one.
LEMMA ProvisionElsewhere ==
  ASSUME TypeOK, NEW r \in Requests, ProvisionStep(r), NEW p \in Pods, Unheld(p), ~IsIdle(p)
  PROVE  store'[p] = store[p] /\ Unheld(p)'
<1> USE DEF Unheld, Holds, InFlight, InFlightPcs
<1>0. /\ req \in [Requests -> RequestRecord]
      /\ store \in [Pods -> Entry \cup {NoEntry}]
  BY DEF TypeOK
<1>1. CASE Refuse(r)
  BY <1>0, <1>1 DEF Refuse, RequestRecord
<1>2. ASSUME NEW q \in Pods, NEW life, Provision(r, q, life)
      PROVE  store'[p] = store[p] /\ Unheld(p)'
  <2>1. q # p
    BY <1>2 DEF Provision, ClaimIdle
  <2>2. QED
    BY <1>0, <1>2, <2>1 DEF Provision, ClaimIdle
<1>3. CASE Detach(r)
  BY <1>0, <1>3 DEF Detach, RequestRecord
<1>4. CASE DetachFails(r)
  BY <1>0, <1>4 DEF DetachFails, RequestRecord
<1>5. CASE LateDetach(r)
  BY <1>0, <1>5 DEF LateDetach, RequestRecord
<1>6. CASE Rollback(r)
  BY <1>0, <1>6 DEF Rollback, Upsert, RequestRecord
<1>7. CASE Record(r)
  BY <1>0, <1>7 DEF Record, RequestRecord
<1>8. CASE Grant(r)
  BY <1>0, <1>8 DEF Grant, Upsert, RequestRecord
<1>9. QED
  BY <1>1, <1>2, <1>3, <1>4, <1>5, <1>6, <1>7, <1>8 DEF ProvisionStep

\* The only sources of what other steps write: a copy moves from the cluster to the
\* list, from the list to the fresh object, from there to the store, or is dropped.
LEMMA CopyWrites ==
  ASSUME TypeOK, [Next]_vars, \A r \in Requests : ~ProvisionStep(r), NEW p \in Pods
  PROVE  /\ \/ store'[p] \in {store[p], NoEntry}
            \/ draft[p] # NoEntry /\ store'[p] = draft[p]
         /\ \/ draft'[p] \in {draft[p], NoEntry}
            \/ snap[p].life = "live" /\ draft'[p] = Merge(snap[p], store[p])
         /\ snap'[p] \in {snap[p], AbsentPod, api[p]}
<1> DEFINE Goal ==
         /\ \/ store'[p] \in {store[p], NoEntry}
            \/ draft[p] # NoEntry /\ store'[p] = draft[p]
         /\ \/ draft'[p] \in {draft[p], NoEntry}
            \/ snap[p].life = "live" /\ draft'[p] = Merge(snap[p], store[p])
         /\ snap'[p] \in {snap[p], AbsentPod, api[p]}
<1>0. /\ store \in [Pods -> Entry \cup {NoEntry}]
      /\ draft \in [Pods -> Entry \cup {NoEntry}]
      /\ snap \in [Pods -> Pod]
  BY DEF TypeOK
<1>1. CASE UNCHANGED <<store, snap, draft>>
  BY <1>1
<1>2. CASE SyncStart
  BY <1>0, <1>2 DEF SyncStart
<1>3. ASSUME NEW q \in Pods, SyncMerge(q) PROVE Goal
  BY <1>0, <1>3 DEF SyncMerge, ToMerge
<1>4. ASSUME NEW q \in Pods, SyncUpsert(q) PROVE Goal
  BY <1>0, <1>4 DEF SyncUpsert, Upsert
<1>5. CASE SyncPrune
  BY <1>0, <1>5 DEF SyncPrune, Prune
<1>6. ASSUME NEW x, ReapStep(x) PROVE Goal
  BY <1>0, <1>1, <1>6 DEF ReapStep, ReapDelete, ReapRemove, ReapFails, Remove, Upsert, syncVars
<1>7. CASE SyncStep
  BY <1>1, <1>2, <1>3, <1>4, <1>5, <1>6, <1>7
     DEF SyncStep, GcSelect, GcDone, SweepCompleted, SyncDone, syncVars
<1>8. ASSUME NEW x \in Admins, AdminStep(x) PROVE Goal
  BY <1>1, <1>6, <1>8 DEF AdminStep, HandleDelete, HandleRestart, DeleteAllClaimed, Ask, syncVars
<1>9. CASE Restart
  BY <1>9 DEF Restart, NoPods, NoDraft
<1>10. QED
  BY <1>1, <1>7, <1>8, <1>9 DEF Next, KubeStep, Tick, vars, syncVars

\* Nobody but a request itself takes hold of a pod.
LEMMA UnheldElsewhere ==
  ASSUME TypeOK, [Next]_vars, \A r \in Requests : ~ProvisionStep(r), NEW p \in Pods, Unheld(p)
  PROVE  Unheld(p)'
  BY OtherEffect DEF Unheld

\* A pod that is retired from the pool: it is claimed, every copy agrees, and no request
\* is left that could put its entry back.
Unoffered(e) == e = NoEntry \/ e.state \in {"active", "failed"}

Retired(p) ==
    /\ api[p].claimed
    /\ snap[p].life = "live" => snap[p].claimed
    /\ Unoffered(store[p])
    /\ Unoffered(draft[p])
    /\ Unheld(p)

\* Once retired, always retired.
LEMMA RetiredStep ==
  ASSUME TypeOK, [Next]_vars, NEW p \in Pods, Retired(p)
  PROVE  Retired(p)'
<1>1. api'[p].claimed
  BY ApiOneWay DEF OneWay, Retired
<1>2. CASE \E r \in Requests : ProvisionStep(r)
  <2>1. PICK r \in Requests : ProvisionStep(r)
    BY <1>2
  <2>2. ~IsIdle(p)
    BY DEF Retired, Unoffered, IsIdle, Known
  <2>3. store'[p] = store[p] /\ Unheld(p)'
    BY <2>1, <2>2, ProvisionElsewhere DEF Retired
  <2>4. snap' = snap /\ draft' = draft
    BY <2>1, ProvisionEffect DEF syncVars
  <2>5. QED
    BY <1>1, <2>3, <2>4 DEF Retired, Unoffered
<1>3. CASE \A r \in Requests : ~ProvisionStep(r)
  <2>1. Unheld(p)'
    BY <1>3, UnheldElsewhere DEF Retired
  <2>2. Unoffered(store[p])'
    BY <1>3, CopyWrites DEF Retired, Unoffered
  <2>3. Unoffered(draft[p])'
    <3>1. snap[p].life = "live" => Merge(snap[p], store[p]).state \in {"active", "failed"}
      BY DEF Retired, Merge, Derived
    <3>2. QED
      BY <1>3, <3>1, CopyWrites DEF Retired, Unoffered
  <2>4. snap'[p].life = "live" => snap'[p].claimed
    BY <1>3, CopyWrites DEF Retired, AbsentPod
  <2>5. QED
    BY <1>1, <2>1, <2>2, <2>3, <2>4 DEF Retired
<1>4. QED
  BY <1>2, <1>3

\* A claim that has settled is never undone: no stale list, failed claim, late patch or
\* restart ever offers its pod again (reconciler.go:184-200, handlers.go:159-163).
THEOREM SettledIsFinalAlways == Spec => SettledIsFinal
<1> SUFFICES ASSUME NEW p \in Pods
             PROVE  Spec => [](Settled(p) => []~IsIdle(p))
  BY DEF SettledIsFinal
<1>1. InductiveInvariant /\ Settled(p) => Retired(p)
  BY DEF InductiveInvariant, ClaimedCopies, SettledCopies, Settled, Retired, Unoffered,
         Unheld, ActiveEntry, Known
<1>2. TypeOK /\ Retired(p) /\ [Next]_vars => Retired(p)'
  BY RetiredStep
<1>3. Retired(p) => ~IsIdle(p)
  BY DEF Retired, Unoffered, IsIdle, Known
<1>4. QED
  BY <1>1, <1>2, <1>3, Invariance, TypeCorrect, PTL DEF Spec

\* A settled claim keeps its expiry and its detach time in every object sync puts in its
\* place (reconciler.go:142-182, 200).
THEOREM ClockIsKeptAlways == Spec => ClockIsKept
<1> DEFINE Kept == \A p \in Pods : Settled(p) /\ store'[p] # NoEntry =>
                      /\ store'[p].exp = store[p].exp
                      /\ store'[p].det = store[p].det
<1>1. TypeOK /\ InductiveInvariant /\ [Next]_vars => [Kept]_vars
  <2> SUFFICES ASSUME TypeOK, InductiveInvariant, [Next]_vars, NEW p \in Pods, Settled(p),
                      store'[p] # NoEntry
               PROVE  store'[p].exp = store[p].exp /\ store'[p].det = store[p].det
    OBVIOUS
  <2>1. ActiveEntry(store[p]) /\ Unheld(p) /\ ~IsIdle(p)
    BY DEF Settled, ActiveEntry, Unheld, IsIdle, Known
  <2>2. CASE \E r \in Requests : ProvisionStep(r)
    BY <2>1, <2>2, ProvisionElsewhere
  <2>3. CASE \A r \in Requests : ~ProvisionStep(r)
    BY <2>1, <2>3, CopyWrites DEF InductiveInvariant, SettledCopies
  <2>4. QED
    BY <2>2, <2>3
<1>2. QED
  BY <1>1, Invariance, TypeCorrect, PTL DEF Spec, ClockIsKept
=============================================================================

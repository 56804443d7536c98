--------------------------- MODULE ScheduleProofs ---------------------------
(***************************************************************************)
(* RecountNeedsReason, for any sets of pods, requests, admins and          *)
(* resetting clients and any number of resets and crashes.                 *)
(*                                                                         *)
(* The argument is a budget.  A pod has one flag at a time that decides    *)
(* whether its start is counted by the next sync: the draft's while sync   *)
(* is about to upsert one, the map's otherwise.  Counting sets it, and     *)
(* only two things clear it while sync may still come to the pod again and *)
(* again: ResetObservations, and a request that puts back the object it    *)
(* took, which no request does twice.  A deletion clears it too, but a pod *)
(* that is gone is on no later list: the sync under way, if it has not     *)
(* reached the pod yet, is the only one to count it again.                 *)
(***************************************************************************)
EXTENDS MetricsProofs, FiniteSetTheorems

Dead(p) == api[p].life = "gone"

\* The running sync has still to come to the pod.
Listed(p) == snap[p].life = "live"

\* The pods whose flag still decides: sync has the pod on its list, or may list it.
Open(p) ==
    /\ ~Dead(p)
    /\ api[p].life = "deleting" => Listed(p)

\* A pod is removed from the store after it was removed from the cluster.
RemovingIsDead ==
    \A x \in Deleters, p \in Pods : reap[x][p] = "removing" => Dead(p)

\* A pod that is gone stays gone.
LEMMA DeadStaysDead ==
  ASSUME TypeOK, [Next]_vars, NEW p \in Pods, Dead(p)
  PROVE  Dead(p)'
  BY ApiOneWay DEF OneWay, Dead

\* Only live pods get on the list.
LEMMA ListedWhenLive ==
  ASSUME TypeOK, [Next]_vars, NEW p \in Pods, Listed(p)', ~Listed(p)
  PROVE  api[p].life = "live" /\ api' = api
<1> USE DEF Listed
<1>0. snap \in [Pods -> Pod]
  BY DEF TypeOK
<1>1. CASE snap' = snap
  BY <1>1
<1>2. CASE SyncStart
  <2>1. snap'[p] = IF api[p].life = "live" THEN api[p] ELSE AbsentPod
    BY <1>2 DEF SyncStart
  <2>2. QED
    BY <1>2, <2>1 DEF SyncStart, AbsentPod
<1>3. ASSUME NEW q \in Pods, SyncMerge(q) PROVE FALSE
  BY <1>0, <1>3 DEF SyncMerge, AbsentPod
<1>4. ASSUME NEW x, ReapStep(x) PROVE snap' = snap
  BY <1>4 DEF ReapStep, ReapDelete, ReapRemove, ReapFails, syncVars
<1>5. CASE SyncStep
  BY <1>1, <1>2, <1>3, <1>4, <1>5 DEF SyncStep, SyncUpsert, SweepCompleted, SyncPrune,
                                      GcSelect, GcDone, SyncDone, syncVars
<1>6. ASSUME NEW r \in Requests, ProvisionStep(r) PROVE snap' = snap
  BY <1>6 DEF ProvisionStep, Refuse, Provision, Detach, DetachFails, LateDetach,
              Rollback, Record, Grant, syncVars
<1>7. ASSUME NEW x \in Admins, AdminStep(x) PROVE snap' = snap
  BY <1>4, <1>7 DEF AdminStep, HandleDelete, HandleRestart, DeleteAllClaimed, Ask, syncVars
<1>8. CASE Restart
  BY <1>8 DEF Restart, NoPods, AbsentPod
<1>9. QED
  BY <1>1, <1>5, <1>6, <1>7, <1>8 DEF Next, KubeStep, Tick, syncVars, vars

\* A terminating pod that is off the list, and one that is gone, is not opened again.
LEMMA ClosedStaysClosed ==
  ASSUME TypeOK, [Next]_vars, NEW p \in Pods, ~Open(p)
  PROVE  ~Open(p)'
<1>1. CASE Dead(p)
  BY <1>1, DeadStaysDead DEF Open
<1>2. CASE ~Dead(p)
  <2>1. api[p].life = "deleting" /\ ~Listed(p)
    BY <1>2 DEF Open
  <2>2. ~Listed(p)'
    BY <2>1, ListedWhenLive
  <2>3. api'[p].life \in {"deleting", "gone"}
    BY <2>1, ApiOneWay DEF OneWay
  <2>4. QED
    BY <2>2, <2>3 DEF Open, Dead
<1>3. QED
  BY <1>1, <1>2

\* Only a deletion that succeeded is followed by a removal from the store.
LEMMA ReapRemoving ==
  ASSUME TypeOK, [Next]_vars, NEW x \in Deleters, NEW p \in Pods, reap'[x][p] = "removing"
  PROVE  reap[x][p] = "removing" \/ Dead(p)'
<1>0. /\ reap \in [Deleters -> [Pods -> Reasons \cup {"no", "removing"}]]
      /\ api \in [Pods -> Pod]
  BY DEF TypeOK
<1>1. CASE reap' = reap
  BY <1>1
<1>2. ASSUME NEW y \in Deleters, ReapStep(y) PROVE reap[x][p] = "removing" \/ Dead(p)'
  <2>1. PICK q \in Pods : ReapDelete(y, q) \/ ReapRemove(y, q) \/ ReapFails(y, q)
    BY <1>2 DEF ReapStep
  <2>2. CASE ReapDelete(y, q)
    <3>1. api'[q].life = "gone"
      BY <1>0, <2>2 DEF ReapDelete, ForceDelete, Gone, AbsentPod
    <3>2. QED
      BY <1>0, <2>2, <3>1 DEF ReapDelete, Dead
  <2>3. CASE ReapRemove(y, q) \/ ReapFails(y, q)
    BY <1>0, <2>3 DEF ReapRemove, ReapFails
  <2>4. QED
    BY <2>1, <2>2, <2>3
<1>3. ASSUME NEW y \in Deleters, NEW pods, Ask(y, pods) PROVE reap[x][p] = "removing"
  BY <1>0, <1>3 DEF Ask
<1>4. ASSUME NEW y \in Admins, AdminStep(y) PROVE reap[x][p] = "removing" \/ Dead(p)'
  BY <1>2, <1>3, <1>4 DEF AdminStep, HandleDelete, HandleRestart, DeleteAllClaimed, Deleters
<1>5. CASE GcSelect
  <2>1. reap'[x][p] = reap[x][p] \/ reap'[x][p] = Reason(store[p])
    BY <1>0, <1>5 DEF GcSelect
  <2>2. QED
    BY <2>1, ReasonType DEF Reasons
<1>6. CASE SyncStep
  BY <1>1, <1>2, <1>5, <1>6 DEF SyncStep, SyncStart, SyncMerge, SyncUpsert, SweepCompleted,
                                SyncPrune, GcDone, SyncDone, Deleters
<1>7. ASSUME NEW r \in Requests, ProvisionStep(r) PROVE reap' = reap
  BY <1>7 DEF ProvisionStep, Refuse, Provision, Detach, DetachFails, LateDetach,
              Rollback, Record, Grant
<1>8. CASE Restart
  BY <1>8 DEF Restart, NothingToReap
<1>9. QED
  BY <1>1, <1>4, <1>6, <1>7, <1>8 DEF Next, KubeStep, Tick, vars

LEMMA RemovingIsDeadAlways == Spec => []RemovingIsDead
<1>1. Init => RemovingIsDead
  BY DEF Init, NothingToReap, RemovingIsDead
<1>2. TypeOK /\ RemovingIsDead /\ [Next]_vars => RemovingIsDead'
  BY ReapRemoving, DeadStaysDead DEF RemovingIsDead
<1>3. QED
  BY <1>1, <1>2, TypeCorrect, PTL DEF Spec

-----------------------------------------------------------------------------
(***************************************************************************)
(* What the pool's steps do to the objects that carry the flags.           *)
(***************************************************************************)

\* The quiet steps leave the entry of an open pod in the map, make none idle, and do not
\* touch sync's draft, who holds the pod, or who has put it back.
LEMMA QuietKeeps ==
  ASSUME TypeOK, InductiveInvariant, RemovingIsDead, QuietStep, NEW p \in Pods, Open(p)
  PROVE  /\ Known(p) => store'[p] # NoEntry
         /\ IsIdle(p)' => IsIdle(p)
         /\ draft' = draft
         /\ \A r \in Requests : Holds(r, p)' => Holds(r, p)
         /\ PutBackBy(p)' = PutBackBy(p)
<1> DEFINE Goal ==
         /\ Known(p) => store'[p] # NoEntry
         /\ IsIdle(p)' => IsIdle(p)
         /\ draft' = draft
         /\ \A r \in Requests : Holds(r, p)' => Holds(r, p)
         /\ PutBackBy(p)' = PutBackBy(p)
<1> USE DEF IsIdle, Known, Holds, InFlight, InFlightPcs
<1>0. /\ req \in [Requests -> RequestRecord]
      /\ store \in [Pods -> Entry \cup {NoEntry}]
      /\ NoEntry \notin Entry
  BY NoEntryAssumption DEF TypeOK
<1>1. CASE store' = store /\ draft' = draft /\ req' = req
  BY <1>1 DEF PutBackBy
<1>2. ASSUME NEW r \in Requests, Refuse(r) \/ Detach(r) \/ DetachFails(r) \/ LateDetach(r)
      PROVE  Goal
  <2>1. /\ \A s \in Requests \ {r} : req'[s] = req[s]
        /\ req'[r].pod = req[r].pod
        /\ req'[r].pc \in InFlightPcs => req[r].pc \in InFlightPcs
        /\ req'[r].pc \in {"error", "granted"} <=> req[r].pc \in {"error", "granted"}
        /\ store' = store /\ draft' = draft
    BY <1>0, <1>2 DEF Refuse, Detach, DetachFails, LateDetach, RequestRecord, syncVars
  <2>2. PutBackBy(p)' = PutBackBy(p)
    BY <2>1 DEF PutBackBy
  <2>3. QED
    BY <2>1, <2>2
<1>3. ASSUME NEW r \in Requests, Record(r) PROVE Goal
  <2> DEFINE sb == [req[r].sb EXCEPT !.det = now, !.exp = req[r].exp]
  <2>1. /\ \A s \in Requests \ {r} : req'[s] = req[s]
        /\ req'[r].pod = req[r].pod
        /\ req[r].pc = "detached" /\ req'[r].pc = "recorded"
        /\ draft' = draft
    BY <1>0, <1>3 DEF Record, RequestRecord, syncVars
  <2>2. PutBackBy(p)' = PutBackBy(p)
    BY <2>1 DEF PutBackBy
  <2>3. sb \in Entry /\ sb.state # "idle"
    <3>1. HoldsWhatItNeeds(req[r]) /\ req[r].sb.state = "provisioning"
      BY <2>1 DEF TypeOK, InductiveInvariant, ClaimedCopies
    <3>2. req[r].sb \in Entry /\ now \in Time /\ req[r].exp \in Time
      BY <1>0, <2>1, <3>1 DEF HoldsWhatItNeeds, RequestRecord, TypeOK, Time
    <3>3. QED
      BY <3>1, <3>2 DEF Entry
  <2>4. store'[p] = store[p] \/ store'[p] = sb
    BY <1>0, <1>3 DEF Record
  <2> HIDE DEF sb
  <2>5. QED
    BY <1>0, <2>1, <2>2, <2>3, <2>4
<1>4. CASE SyncPrune
  <2>1. store'[p] = IF p \in live THEN store[p] ELSE NoEntry
    BY <1>4 DEF SyncPrune, Prune
  <2>2. p \in live \/ store[p] = NoEntry
    <3>1. api[p].life \notin {"deleting", "gone"}
      BY <1>4 DEF SyncPrune, ToMerge, Open, Dead, Listed
    <3>2. QED
      BY <1>4, <3>1 DEF SyncPrune, InductiveInvariant, UnlistedPods, Unheard
  <2>3. draft' = draft /\ req' = req
    BY <1>4 DEF SyncPrune
  <2>4. QED
    BY <2>1, <2>2, <2>3 DEF PutBackBy
<1>5. ASSUME NEW x \in Deleters, ReapStep(x) PROVE Goal
  <2>1. PICK q \in Pods : ReapDelete(x, q) \/ ReapRemove(x, q) \/ ReapFails(x, q)
    BY <1>5 DEF ReapStep
  <2>2. CASE ReapRemove(x, q)
    <3>1. q # p
      BY <2>2 DEF ReapRemove, RemovingIsDead, Open
    <3>2. store'[p] = store[p] /\ draft' = draft /\ req' = req
      BY <1>0, <2>2, <3>1 DEF ReapRemove, Remove, Upsert, syncVars
    <3>3. QED
      BY <3>2 DEF PutBackBy
  <2>3. QED
    BY <1>1, <2>1, <2>2 DEF ReapDelete, ReapFails, syncVars
<1>6. ASSUME NEW x \in Admins, AdminStep(x) PROVE Goal
  BY <1>1, <1>5, <1>6 DEF AdminStep, HandleDelete, HandleRestart, DeleteAllClaimed, Ask,
                          Deleters, syncVars
<1>7. QED
  BY <1>1, <1>2, <1>3, <1>4, <1>5, <1>6
     DEF QuietStep, SyncStart, GcSelect, GcDone, SyncDone, SweepCompleted, KubeStep, Tick,
         Deleters, syncVars

-----------------------------------------------------------------------------
(***************************************************************************)
(* The budget.                                                             *)
(***************************************************************************)

\* The flag that decides, and whether the pod's start may be counted again.
Flag(p) == IF draft[p] # NoEntry THEN fresh[p] ELSE mark[p]
Due(p) == IF Flag(p) THEN 0 ELSE 1

Allowance(p) == 1 + cleared + (IF cleared = 0 THEN 0 ELSE Cardinality(PutBackBy(p)))

Budget(p) == counted[p] + Due(p) <= Allowance(p)

\* Before the first reset every object that could offer a counted pod is marked.
Marked(p) ==
    /\ IsIdle(p) => mark[p]
    /\ draft[p] # NoEntry /\ draft[p].state = "idle" => fresh[p]
    /\ \A r \in Requests : Holds(r, p) => held[r]

FlagsOf(p) ==
    /\ mark[p] => Known(p)
    /\ Open(p) => Budget(p)
    /\ Open(p) /\ cleared = 0 => Marked(p)

FlagInvariant == \A p \in Pods : FlagsOf(p)

\* The terms of a budget are numbers, before and after a step.
LEMMA BudgetTypes ==
  ASSUME FlagShape, NEW p \in Pods
  PROVE  /\ counted[p] \in Nat /\ Due(p) \in {0, 1} /\ cleared \in Nat
         /\ Cardinality(PutBackBy(p)) \in Nat
         /\ Allowance(p) \in Nat
<1>1. Cardinality(PutBackBy(p)) \in Nat
  BY RequestsAssumption, FS_Subset, FS_CardinalityType DEF PutBackBy
<1>2. counted[p] \in Nat /\ cleared \in Nat
  BY DEF FlagShape
<1>3. Due(p) \in {0, 1}
  BY DEF Due
<1>4. QED
  BY <1>1, <1>2, <1>3 DEF Allowance

\* A step that raises neither the count nor what is due, and takes nothing back, keeps
\* the budget.
LEMMA BudgetKept ==
  ASSUME FlagShape, FlagShape', NEW p \in Pods, Budget(p), counted'[p] = counted[p],
         cleared' = cleared, PutBackBy(p)' = PutBackBy(p), Flag(p) => Flag(p)'
  PROVE  Budget(p)'
<1>1. Due(p)' <= Due(p)
  BY DEF Due
<1>2. Allowance(p)' = Allowance(p)
  BY DEF Allowance
<1>3. /\ counted[p] \in Nat /\ Due(p) \in {0, 1} /\ Allowance(p) \in Nat /\ Due(p)' \in {0, 1}
  BY BudgetTypes DEF Due
<1>4. QED
  BY <1>1, <1>2, <1>3 DEF Budget

\* A claim takes the flag of an idle entry along; the map keeps its own.
LEMMA ClaimKeepsFlags ==
  ASSUME TypeOK, FlagShape, FlagShape', FlagInvariant, NEW r \in Requests, ClaimFlag(r),
         NEW p \in Pods
  PROVE  FlagsOf(p)'
<1>0. /\ req \in [Requests -> RequestRecord]
      /\ store \in [Pods -> Entry \cup {NoEntry}]
      /\ NoEntry \notin Entry
      /\ held \in [Requests -> BOOLEAN]
  BY NoEntryAssumption, Zenon DEF TypeOK, FlagShape
<1>1. PICK q \in Pods, life \in Lifetimes \cup {Unlimited} :
         Provision(r, q, life) /\ held' = [held EXCEPT ![r] = mark[q]]
  BY Zenon DEF ClaimFlag
<1>2. /\ IsIdle(q) /\ store[q] \in Entry
      /\ store' = [store EXCEPT ![q].state = "provisioning", ![q].by = r]
      /\ api' = api /\ draft' = draft /\ snap' = snap
  BY <1>0, <1>1 DEF Provision, ClaimIdle, IsIdle, Known, syncVars
<1>3. /\ \A s \in Requests \ {r} : req'[s] = req[s]
      /\ req[r].pc = "new" /\ req'[r].pc = "claimed" /\ req'[r].pod = q
  BY <1>0, <1>1 DEF Provision
<1>4. UNCHANGED <<mark, fresh, counted, cleared>>
  BY Zenon DEF ClaimFlag, registryVars
<1>5. PutBackBy(p)' = PutBackBy(p)
  BY <1>3 DEF PutBackBy
<1>6. /\ store'[q] \in Entry /\ store'[q].state = "provisioning"
      /\ p # q => store'[p] = store[p]
  <2>1. store'[q] = [store[q] EXCEPT !.state = "provisioning", !.by = r]
    BY <1>0, <1>2
  <2>2. QED
    BY <1>0, <1>2, <2>1 DEF Entry, States
<1>7. Known(p) => Known(p)'
  BY <1>0, <1>6 DEF Known
<1>8. IsIdle(p)' => p # q /\ IsIdle(p)
  BY <1>6 DEF IsIdle, Known
<1>9. Flag(p)' = Flag(p) /\ Open(p)' = Open(p)
  BY <1>2, <1>4 DEF Flag, Open, Dead, Listed
<1>10. FlagsOf(p) /\ FlagsOf(q)
  BY Zenon DEF FlagInvariant
<1>11. Open(p)' => Budget(p)'
  BY <1>4, <1>5, <1>9, <1>10, BudgetKept DEF FlagsOf
<1>12. ASSUME Open(p)', cleared' = 0 PROVE Marked(p)'
  <2>1. Marked(p)
    BY <1>4, <1>9, <1>10, <1>12 DEF FlagsOf
  <2>2. ASSUME NEW s \in Requests, Holds(s, p)' PROVE held'[s]
    <3>1. CASE s # r
      <4>1. Holds(s, p)
        BY <1>3, <2>2, <3>1 DEF Holds, InFlight
      <4>2. held'[s] = held[s]
        BY <1>0, <1>1, <3>1
      <4>3. QED
        BY <2>1, <4>1, <4>2, Zenon DEF Marked
    <3>2. CASE s = r
      <4>1. p = q
        BY <1>3, <2>2, <3>2 DEF Holds
      <4>2. mark[q]
        BY <1>2, <2>1, <4>1, Zenon DEF Marked
      <4>3. held'[r] = mark[q]
        BY <1>0, <1>1, Zenon
      <4>4. QED
        BY <3>2, <4>2, <4>3
    <3>3. QED
      BY <3>1, <3>2
  <2>3. IsIdle(p)' => mark'[p]
    BY <1>4, <1>8, <2>1, Zenon DEF Marked
  <2>4. draft'[p] # NoEntry /\ draft'[p].state = "idle" => fresh'[p]
    BY <1>2, <1>4, <2>1 DEF Marked
  <2>5. QED
    BY <2>2, <2>3, <2>4, Zenon DEF Marked
<1>13. mark'[p] => Known(p)'
  BY <1>4, <1>7, <1>10, Zenon DEF FlagsOf
<1>14. QED
  BY <1>11, <1>12, <1>13, Zenon DEF FlagsOf

\* A request puts its object back once: that uses up one unit of the allowance, and none
\* before the first reset, when the object is marked.
LEMMA PutBackKeepsFlags ==
  ASSUME TypeOK, FlagShape, FlagShape', FlagInvariant, NEW r \in Requests, PutBackFlag(r),
         NEW p \in Pods
  PROVE  FlagsOf(p)'
<1>0. /\ req \in [Requests -> RequestRecord]
      /\ store \in [Pods -> Entry \cup {NoEntry}]
      /\ NoEntry \notin Entry
      /\ held \in [Requests -> BOOLEAN] /\ mark \in [Pods -> BOOLEAN]
  BY NoEntryAssumption, Zenon DEF TypeOK, FlagShape
<1>1. /\ mark' = [mark EXCEPT ![req[r].pod] = held[r]]
      /\ held' = [held EXCEPT ![r] = FALSE]
      /\ UNCHANGED <<fresh, counted, cleared>>
  BY Zenon DEF PutBackFlag, registryVars
<1>2. /\ \A s \in Requests \ {r} : req'[s] = req[s]
      /\ req'[r].pod = req[r].pod
      /\ req[r].pc \in {"failed", "recorded"} /\ req'[r].pc \in {"error", "granted"}
      /\ api' = api /\ draft' = draft /\ snap' = snap
  BY <1>0 DEF PutBackFlag, Rollback, Grant, RequestRecord, syncVars
<1>3. PICK q \in Pods : q = req[r].pod /\ req[r].sb \in Entry
  BY <1>2 DEF TypeOK, HoldsWhatItNeeds, InFlightPcs
<1>4. store'[q] \in Entry /\ \A o \in Pods \ {q} : store'[o] = store[o]
  <2>1. [req[r].sb EXCEPT !.state = "idle", !.by = NoReq] \in Entry
    BY <1>3 DEF Entry, States
  <2>2. [req[r].sb EXCEPT !.by = NoReq] \in Entry
    BY <1>3 DEF Entry
  <2>3. QED
    BY <1>0, <1>3, <2>1, <2>2 DEF PutBackFlag, Rollback, Grant, Upsert
<1>5. FlagsOf(p) /\ Open(p)' = Open(p)
  BY <1>2, Zenon DEF FlagInvariant, Open, Dead, Listed
<1>6. mark'[q] = held[r] /\ \A o \in Pods \ {q} : mark'[o] = mark[o]
  BY <1>0, <1>1, <1>3, Zenon
<1>7. mark'[p] => Known(p)'
  BY <1>0, <1>4, <1>5, <1>6 DEF FlagsOf, Known
<1>8. Holds(r, q) /\ ~Holds(r, p)' /\ \A s \in Requests : Holds(s, p)' => Holds(s, p)
  BY <1>2, <1>3 DEF Holds, InFlight, InFlightPcs
<1>9. ASSUME Open(p), cleared = 0
      PROVE  Marked(p)' /\ (Flag(p) => Flag(p)')
  <2>1. Marked(p)
    BY <1>5, <1>9, Zenon DEF FlagsOf
  <2>2. p = q => mark'[p]
    BY <1>6, <1>8, <2>1, Zenon DEF Marked
  <2>3. IsIdle(p)' => mark'[p]
    <3>1. CASE p = q
      BY <2>2, <3>1
    <3>2. CASE p # q
      <4>1. IsIdle(p)' = IsIdle(p)
        BY <1>4, <3>2 DEF IsIdle, Known
      <4>2. QED
        BY <1>6, <2>1, <3>2, <4>1, Zenon DEF Marked
    <3>3. QED
      BY <3>1, <3>2
  <2>4. draft'[p] # NoEntry /\ draft'[p].state = "idle" => fresh'[p]
    BY <1>1, <1>2, <2>1 DEF Marked
  <2>5. ASSUME NEW s \in Requests, Holds(s, p)' PROVE held'[s]
    <3>1. s # r /\ Holds(s, p)
      BY <1>8, <2>5
    <3>2. held'[s] = held[s]
      BY <1>0, <1>1, <3>1
    <3>3. QED
      BY <2>1, <3>1, <3>2, Zenon DEF Marked
  <2>6. Marked(p)'
    BY <2>3, <2>4, <2>5, Zenon DEF Marked
  <2>7. Flag(p) => Flag(p)'
    <3>1. CASE p = q
      BY <1>1, <1>2, <2>2, <3>1 DEF Flag
    <3>2. CASE p # q
      BY <1>1, <1>2, <1>6, <3>2 DEF Flag
    <3>3. QED
      BY <3>1, <3>2
  <2>8. QED
    BY <2>6, <2>7
<1>10. ASSUME Open(p) PROVE Budget(p)'
  <2>0. Budget(p)
    BY <1>5, <1>10, Zenon DEF FlagsOf
  <2>1. CASE p # q
    <3>1. PutBackBy(p)' = PutBackBy(p)
      BY <1>2, <1>3, <2>1 DEF PutBackBy
    <3>2. Flag(p) => Flag(p)'
      BY <1>1, <1>2, <1>6, <2>1 DEF Flag
    <3>3. QED
      BY <1>1, <2>0, <3>1, <3>2, BudgetKept
  <2>2. CASE p = q /\ cleared = 0
    <3>1. Due(p)' <= Due(p)
      BY <1>9, <1>10, <2>2 DEF Due
    <3>2. Allowance(p)' = 1 /\ Allowance(p) = 1
      BY <1>1, <2>2 DEF Allowance
    <3>3. counted[p] \in Nat /\ Due(p) \in {0, 1} /\ Due(p)' \in {0, 1}
      BY BudgetTypes DEF Due
    <3>4. QED
      BY <1>1, <2>0, <3>1, <3>2, <3>3 DEF Budget
  <2>3. CASE p = q /\ cleared # 0
    <3>1. PutBackBy(p)' = PutBackBy(p) \cup {r} /\ r \notin PutBackBy(p)
      BY <1>2, <1>3, <2>3 DEF PutBackBy
    <3>2. IsFiniteSet(PutBackBy(p))
      BY RequestsAssumption, FS_Subset DEF PutBackBy
    <3>3. Cardinality(PutBackBy(p)') = Cardinality(PutBackBy(p)) + 1
      BY <3>1, <3>2, FS_AddElement
    <3>4. /\ Allowance(p) = 1 + cleared + Cardinality(PutBackBy(p))
          /\ Allowance(p)' = 1 + cleared + Cardinality(PutBackBy(p)) + 1
      BY <1>1, <2>3, <3>3, BudgetTypes DEF Allowance
    <3>5. /\ counted[p] \in Nat /\ Due(p) \in {0, 1} /\ Due(p)' \in {0, 1} /\ cleared \in Nat
          /\ Cardinality(PutBackBy(p)) \in Nat
      BY BudgetTypes DEF Due
    <3>6. QED
      BY <1>1, <2>0, <3>4, <3>5 DEF Budget
  <2>4. QED
    BY <2>1, <2>2, <2>3
<1>11. QED
  BY <1>1, <1>5, <1>7, <1>9, <1>10, Zenon DEF FlagsOf

\* sync counts a start when no flag says it was counted, and its draft says so from then on.
LEMMA MergeKeepsFlags ==
  ASSUME TypeOK, FlagShape, FlagShape', FlagInvariant, NEW q \in Pods, MergeFlag(q),
         NEW p \in Pods
  PROVE  FlagsOf(p)'
<1> DEFINE ready == Derived(snap[q]) = "idle"
<1>0. /\ draft \in [Pods -> Entry \cup {NoEntry}]
      /\ fresh \in [Pods -> BOOLEAN] /\ counted \in [Pods -> Nat]
      /\ snap \in [Pods -> Pod]
  BY Zenon DEF TypeOK, FlagShape
<1>1. /\ draft = NoDraft /\ draft' = [draft EXCEPT ![q] = Merge(snap[q], store[q])]
      /\ snap' = [snap EXCEPT ![q] = AbsentPod]
      /\ UNCHANGED <<api, store, req>>
  BY DEF MergeFlag, SyncMerge
<1>2. /\ fresh' = [fresh EXCEPT ![q] = KeptFlag(q) \/ ready]
      /\ counted' = [counted EXCEPT ![q] =
                       IF ready /\ ~KeptFlag(q) THEN counted[q] + 1 ELSE counted[q]]
      /\ UNCHANGED <<mark, held, cleared>>
  BY Zenon DEF MergeFlag, registryVars
<1>3. FlagsOf(p) /\ FlagsOf(q)
  BY Zenon DEF FlagInvariant
<1>4. /\ Known(p)' = Known(p) /\ IsIdle(p)' = IsIdle(p)
      /\ \A s \in Requests : Holds(s, p)' = Holds(s, p)
      /\ PutBackBy(p)' = PutBackBy(p)
  BY <1>1 DEF Known, IsIdle, Holds, InFlight, PutBackBy
<1>4a. Open(p)' => Open(p)
  BY <1>0, <1>1 DEF Open, Dead, Listed, AbsentPod
<1>5. /\ draft'[q] = Merge(snap[q], store[q]) /\ draft'[q].state = Derived(snap[q])
      /\ draft'[q] # NoEntry
      /\ \A o \in Pods \ {q} : draft'[o] = draft[o]
  <2>1. Merge(snap[q], store[q]) \in Entry
    BY MergeType DEF TypeOK
  <2>2. QED
    BY <1>0, <1>1, <2>1, NoEntryAssumption DEF Merge
<1>6. fresh'[q] = (KeptFlag(q) \/ ready) /\ \A o \in Pods \ {q} : fresh'[o] = fresh[o]
  BY <1>0, <1>2, Zenon
<1>7. /\ counted'[q] = IF ready /\ ~KeptFlag(q) THEN counted[q] + 1 ELSE counted[q]
      /\ \A o \in Pods \ {q} : counted'[o] = counted[o]
  BY <1>0, <1>2
<1>8. Flag(q) = KeptFlag(q)
  <2>1. draft[q] = NoEntry
    BY <1>1 DEF NoDraft
  <2>2. Flag(q) = mark[q]
    BY <2>1, Zenon DEF Flag
  <2>3. mark[q] \in BOOLEAN
    BY Zenon DEF FlagShape
  <2>4. KeptFlag(q) = mark[q]
    BY <1>3, <2>3, Zenon DEF KeptFlag, FlagsOf, Known
  <2>5. QED
    BY <2>2, <2>4
<1>9. Flag(q)' <=> KeptFlag(q) \/ ready
  BY <1>5, <1>6, Zenon DEF Flag
<1>10. ASSUME Open(p), Budget(p) PROVE Budget(p)'
  <2>1. CASE p # q
    <3>1. Flag(p) => Flag(p)'
      BY <1>2, <1>5, <1>6, <2>1, Zenon DEF Flag
    <3>2. counted'[p] = counted[p]
      BY <1>7, <2>1
    <3>3. QED
      BY <1>2, <1>4, <1>10, <3>1, <3>2, BudgetKept
  <2>2. CASE p = q
    <3>1. counted'[q] + Due(q)' <= counted[q] + Due(q)
      <4>1. CASE ready /\ ~KeptFlag(q)
        <5>1. Due(q) = 1 /\ Due(q)' = 0
          BY <1>8, <1>9, <4>1, Zenon DEF Due
        <5>2. counted'[q] = counted[q] + 1 /\ counted[q] \in Nat
          BY <1>0, <1>7, <4>1
        <5>3. QED
          BY <5>1, <5>2
      <4>2. CASE ~(ready /\ ~KeptFlag(q))
        <5>1. Due(q)' = Due(q)
          BY <1>8, <1>9, <4>2, Zenon DEF Due
        <5>2. counted'[q] = counted[q] /\ counted[q] \in Nat
          BY <1>0, <1>7, <4>2
        <5>3. QED
          BY <5>1, <5>2, BudgetTypes
      <4>3. QED
        BY <4>1, <4>2
    <3>2. Allowance(p)' = Allowance(p)
      BY <1>2, <1>4 DEF Allowance
    <3>3. /\ counted[p] \in Nat /\ Due(p) \in {0, 1} /\ Allowance(p) \in Nat
          /\ counted'[p] \in Nat /\ Due(p)' \in {0, 1}
      BY BudgetTypes DEF Due, FlagShape
    <3>4. QED
      BY <1>10, <2>2, <3>1, <3>2, <3>3 DEF Budget
  <2>3. QED
    BY <2>1, <2>2
<1>11. ASSUME Open(p), cleared = 0 PROVE Marked(p)'
  <2>1. Marked(p)
    BY <1>3, <1>11, Zenon DEF FlagsOf
  <2>2. draft'[p] # NoEntry /\ draft'[p].state = "idle" => fresh'[p]
    <3>1. CASE p = q
      BY <1>5, <1>6, <3>1, Zenon
    <3>2. CASE p # q
      BY <1>5, <1>6, <2>1, <3>2, Zenon DEF Marked
    <3>3. QED
      BY <3>1, <3>2
  <2>3. /\ IsIdle(p)' => mark'[p]
        /\ \A s \in Requests : Holds(s, p)' => held'[s]
    BY <1>2, <1>4, <2>1, Zenon DEF Marked
  <2>4. QED
    BY <2>2, <2>3, Zenon DEF Marked
<1>12. mark'[p] => Known(p)'
  BY <1>2, <1>3, <1>4, Zenon DEF FlagsOf
<1>13. Budget(p)' \/ ~Open(p)
  BY <1>3, <1>10, Zenon DEF FlagsOf
<1>14. QED
  BY <1>2, <1>11, <1>12, <1>13, <1>4a, Zenon DEF FlagsOf

\* The upserted object brings the draft's flag, which decided already.
LEMMA UpsertKeepsFlags ==
  ASSUME TypeOK, FlagShape, FlagShape', FlagInvariant, NEW q \in Pods, UpsertFlag(q),
         NEW p \in Pods
  PROVE  FlagsOf(p)'
<1>0. /\ draft \in [Pods -> Entry \cup {NoEntry}] /\ store \in [Pods -> Entry \cup {NoEntry}]
      /\ mark \in [Pods -> BOOLEAN] /\ fresh \in [Pods -> BOOLEAN]
  BY Zenon DEF TypeOK, FlagShape
<1>1. /\ draft[q] # NoEntry /\ draft' = [draft EXCEPT ![q] = NoEntry]
      /\ store' = [store EXCEPT ![q] = draft[q]]
      /\ UNCHANGED <<api, snap, req>>
  BY DEF UpsertFlag, SyncUpsert, Upsert
<1>2. /\ mark' = [mark EXCEPT ![q] = fresh[q]]
      /\ fresh' = [fresh EXCEPT ![q] = FALSE]
      /\ UNCHANGED <<held, counted, cleared>>
  BY Zenon DEF UpsertFlag, registryVars
<1>3. FlagsOf(p)
  BY Zenon DEF FlagInvariant
<1>4. /\ Open(p)' = Open(p)
      /\ \A s \in Requests : Holds(s, p)' = Holds(s, p)
      /\ PutBackBy(p)' = PutBackBy(p)
  BY <1>1 DEF Open, Dead, Listed, Holds, InFlight, PutBackBy
<1>5. /\ store'[q] = draft[q] /\ draft'[q] = NoEntry
      /\ \A o \in Pods \ {q} : store'[o] = store[o] /\ draft'[o] = draft[o]
  BY <1>0, <1>1
<1>6. mark'[q] = fresh[q] /\ \A o \in Pods \ {q} : mark'[o] = mark[o] /\ fresh'[o] = fresh[o]
  BY <1>0, <1>2, Zenon
<1>7. Flag(p)' = Flag(p)
  <2>1. CASE p = q
    BY <1>1, <1>5, <1>6, <2>1, Zenon DEF Flag
  <2>2. CASE p # q
    BY <1>5, <1>6, <2>2, Zenon DEF Flag
  <2>3. QED
    BY <2>1, <2>2
<1>8. mark'[p] => Known(p)'
  <2>1. CASE p = q
    BY <1>1, <1>5, <2>1 DEF Known
  <2>2. CASE p # q
    BY <1>3, <1>5, <1>6, <2>2, Zenon DEF FlagsOf, Known
  <2>3. QED
    BY <2>1, <2>2
<1>9. Open(p) => Budget(p)'
  BY <1>2, <1>3, <1>4, <1>7, BudgetKept DEF FlagsOf
<1>10. ASSUME Open(p), cleared = 0 PROVE Marked(p)'
  <2>1. Marked(p)
    BY <1>3, <1>10, Zenon DEF FlagsOf
  <2>2. IsIdle(p)' => mark'[p]
    <3>1. CASE p = q
      BY <1>1, <1>5, <1>6, <2>1, <3>1, Zenon DEF Marked, IsIdle, Known
    <3>2. CASE p # q
      BY <1>5, <1>6, <2>1, <3>2, Zenon DEF Marked, IsIdle, Known
    <3>3. QED
      BY <3>1, <3>2
  <2>3. draft'[p] # NoEntry /\ draft'[p].state = "idle" => fresh'[p]
    <3>1. CASE p = q
      BY <1>5, <3>1
    <3>2. CASE p # q
      BY <1>5, <1>6, <2>1, <3>2, Zenon DEF Marked
    <3>3. QED
      BY <3>1, <3>2
  <2>4. \A s \in Requests : Holds(s, p)' => held'[s]
    BY <1>2, <1>4, <2>1, Zenon DEF Marked
  <2>5. QED
    BY <2>2, <2>3, <2>4, Zenon DEF Marked
<1>11. QED
  BY <1>2, <1>4, <1>8, <1>9, <1>10, Zenon DEF FlagsOf

\* The quiet steps drop flags only with the entries of closed pods.
LEMMA QuietKeepsFlags ==
  ASSUME TypeOK, InductiveInvariant, RemovingIsDead, [Next]_vars, QuietStep,
         FlagShape, FlagShape', FlagInvariant, NEW p \in Pods
  PROVE  FlagsOf(p)'
<1>1. /\ mark' = [o \in Pods |-> mark[o] /\ store'[o] # NoEntry]
      /\ UNCHANGED <<held, fresh, counted, cleared>>
  BY Zenon DEF QuietStep, registryVars
<1>2. mark'[p] <=> mark[p] /\ store'[p] # NoEntry
  BY <1>1, Zenon
<1>3. FlagsOf(p)
  BY Zenon DEF FlagInvariant
<1>4. mark'[p] => Known(p)'
  BY <1>2, Zenon DEF Known
<1>5. Open(p)' => Open(p)
  BY ClosedStaysClosed
<1>6. ASSUME Open(p) PROVE Budget(p)' /\ (cleared = 0 => Marked(p)')
  <2>1. /\ Known(p) => store'[p] # NoEntry
        /\ IsIdle(p)' => IsIdle(p)
        /\ draft' = draft
        /\ \A s \in Requests : Holds(s, p)' => Holds(s, p)
        /\ PutBackBy(p)' = PutBackBy(p)
    BY <1>6, QuietKeeps
  <2>2. mark[p] => mark'[p]
    BY <1>2, <1>3, <2>1, Zenon DEF FlagsOf
  <2>3. Flag(p) => Flag(p)'
    BY <1>1, <2>1, <2>2, Zenon DEF Flag
  <2>4. Budget(p)'
    BY <1>1, <1>3, <1>6, <2>1, <2>3, BudgetKept DEF FlagsOf
  <2>5. ASSUME cleared = 0 PROVE Marked(p)'
    <3>1. Marked(p)
      BY <1>3, <1>6, <2>5, Zenon DEF FlagsOf
    <3>2. IsIdle(p)' => mark'[p]
      BY <2>1, <2>2, <3>1, Zenon DEF Marked
    <3>3. draft'[p] # NoEntry /\ draft'[p].state = "idle" => fresh'[p]
      BY <1>1, <2>1, <3>1, Zenon DEF Marked
    <3>4. \A s \in Requests : Holds(s, p)' => held'[s]
      BY <1>1, <2>1, <3>1, Zenon DEF Marked
    <3>5. QED
      BY <3>2, <3>3, <3>4, Zenon DEF Marked
  <2>6. QED
    BY <2>4, <2>5
<1>7. QED
  BY <1>1, <1>4, <1>5, <1>6, Zenon DEF FlagsOf

\* ResetObservations makes at most one more count due per pod, and allows it.
LEMMA ClearKeepsFlags ==
  ASSUME FlagShape, FlagShape', FlagInvariant, NEW x \in Resetters, ClearFlags(x),
         NEW p \in Pods
  PROVE  FlagsOf(p)'
<1>1. /\ mark' = [o \in Pods |-> FALSE] /\ cleared' = cleared + 1
      /\ UNCHANGED <<vars, counted>>
  BY Zenon DEF ClearFlags
<1>2. FlagsOf(p)
  BY Zenon DEF FlagInvariant
<1>3. ~mark'[p]
  BY <1>1, Zenon
<1>4. Open(p)' = Open(p) /\ PutBackBy(p)' = PutBackBy(p)
  BY <1>1 DEF vars, Open, Dead, Listed, PutBackBy
<1>5. /\ counted[p] \in Nat /\ Due(p) \in {0, 1} /\ Due(p)' \in {0, 1} /\ cleared \in Nat
      /\ Cardinality(PutBackBy(p)) \in Nat
  BY BudgetTypes DEF Due
<1>6. Allowance(p)' >= Allowance(p) + 1
  <2>1. Allowance(p)' = 1 + cleared + 1 + Cardinality(PutBackBy(p))
    BY <1>1, <1>4, <1>5 DEF Allowance
  <2>2. QED
    BY <1>5, <2>1 DEF Allowance
<1>7. Open(p) => Budget(p)'
  <2>1. Allowance(p) \in Nat /\ Allowance(p)' \in Int
    BY <1>1, <1>4, <1>5, BudgetTypes DEF Allowance
  <2>2. Open(p) => counted[p] + Due(p) <= Allowance(p)
    BY <1>2, Zenon DEF FlagsOf, Budget
  <2>3. QED
    BY <1>1, <1>5, <1>6, <2>1, <2>2 DEF Budget
<1>8. cleared' # 0
  BY <1>1, <1>5
<1>9. QED
  BY <1>3, <1>4, <1>7, <1>8, Zenon DEF FlagsOf

\* The invariant of the flags holds in the first state and after a restart: nothing is
\* counted, and no entry, draft or claim is there yet.
LEMMA BlankFlags ==
  ASSUME NEW p \in Pods, ~mark[p], counted[p] = 0, cleared = 0, store[p] = NoEntry,
         draft[p] = NoEntry, \A r \in Requests : ~InFlight(r)
  PROVE  FlagsOf(p)
<1>1. Due(p) = 1 /\ Allowance(p) = 1
  BY DEF Due, Flag, Allowance
<1>2. Budget(p)
  BY <1>1 DEF Budget
<1>3. QED
  BY <1>2, Zenon DEF FlagsOf, Marked, IsIdle, Known, Holds

LEMMA BlankFlagsNext ==
  ASSUME NEW p \in Pods, ~mark'[p], counted'[p] = 0, cleared' = 0, store'[p] = NoEntry,
         draft'[p] = NoEntry, \A r \in Requests : ~InFlight(r)'
  PROVE  FlagsOf(p)'
<1>1. Due(p)' = 1 /\ Allowance(p)' = 1
  BY DEF Due, Flag, Allowance
<1>2. Budget(p)'
  BY <1>1 DEF Budget
<1>3. QED
  BY <1>2, Zenon DEF FlagsOf, Marked, IsIdle, Known, Holds

LEMMA FlagsStep ==
  ASSUME TypeOK, InductiveInvariant, RemovingIsDead, FlagShape, FlagShape', FlagInvariant,
         [MetricsNext]_allVars
  PROVE  FlagInvariant'
<1>1. SUFFICES ASSUME NEW p \in Pods PROVE FlagsOf(p)'
  BY Zenon DEF FlagInvariant
<1>2. [Next]_vars
  BY StepOfThePool
<1>3. ASSUME NEW r \in Requests, ClaimFlag(r) \/ PutBackFlag(r) PROVE FlagsOf(p)'
  BY <1>3, ClaimKeepsFlags, PutBackKeepsFlags
<1>4. ASSUME NEW q \in Pods, MergeFlag(q) \/ UpsertFlag(q) PROVE FlagsOf(p)'
  BY <1>4, MergeKeepsFlags, UpsertKeepsFlags
<1>5. CASE QuietStep
  BY <1>2, <1>5, QuietKeepsFlags
<1>6. CASE RestartMetrics
  <2>1. /\ ~mark'[p] /\ counted'[p] = 0 /\ cleared' = 0
    BY <1>6, Zenon DEF RestartMetrics, NoFlags, NothingCounted
  <2>2. store'[p] = NoEntry /\ draft'[p] = NoEntry
    BY <1>6 DEF RestartMetrics, Restart, NoDraft
  <2>3. \A r \in Requests : ~InFlight(r)'
    BY <1>6, RestartDropsRequests DEF RestartMetrics
  <2>4. QED
    BY <2>1, <2>2, <2>3, BlankFlagsNext
<1>7. CASE UNCHANGED <<vars, flagVars, cleared>>
  <2>1. FlagsOf(p)
    BY Zenon DEF FlagInvariant
  <2>2. UNCHANGED <<api, store, req, snap, draft, mark, held, fresh, counted, cleared>>
    BY <1>7, Zenon DEF vars, syncVars, flagVars
  <2>3. /\ Open(p)' = Open(p) /\ Known(p)' = Known(p) /\ IsIdle(p)' = IsIdle(p)
        /\ \A r \in Requests : Holds(r, p)' = Holds(r, p)
        /\ PutBackBy(p)' = PutBackBy(p) /\ (Flag(p) => Flag(p)')
    BY <2>2 DEF Open, Dead, Listed, Known, IsIdle, Holds, InFlight, PutBackBy, Flag
  <2>4. Open(p) => Budget(p)'
    BY <2>1, <2>2, <2>3, BudgetKept DEF FlagsOf
  <2>5. Marked(p) => Marked(p)'
    BY <2>2, <2>3, Zenon DEF Marked
  <2>6. QED
    BY <2>1, <2>2, <2>3, <2>4, <2>5, Zenon DEF FlagsOf
<1>8. ASSUME NEW x \in Resetters, ResetStep(x) PROVE FlagsOf(p)'
  <2>1. CASE ClearFlags(x)
    BY <2>1, ClearKeepsFlags
  <2>2. CASE ~ClearFlags(x)
    <3>1. UNCHANGED <<vars, flagVars, cleared>>
      BY <1>8, <2>2, Zenon
      DEF ResetStep, ResetStart, Unregister, Register, RegisterPanics, Assign
    <3>2. QED
      BY <1>7, <3>1
  <2>3. QED
    BY <2>1, <2>2
<1>9. CASE UNCHANGED allVars
  <2>1. UNCHANGED <<vars, flagVars, cleared>>
    BY <1>9, Zenon DEF allVars, metricsVars, flagVars, registryVars
  <2>2. QED
    BY <1>7, <2>1
<1>10. QED
  BY <1>3, <1>4, <1>5, <1>6, <1>8, <1>9, Zenon DEF MetricsNext

LEMMA FlagsInit == MetricsInit => FlagInvariant
<1> SUFFICES ASSUME MetricsInit, NEW p \in Pods PROVE FlagsOf(p)
  BY Zenon DEF FlagInvariant
<1>2. ~mark[p] /\ counted[p] = 0 /\ cleared = 0
  BY Zenon DEF MetricsInit, NoFlags, NothingCounted
<1>3. /\ store[p] = NoEntry /\ draft[p] = NoEntry
      /\ \A r \in Requests : ~InFlight(r)
  BY DEF MetricsInit, Init, StoreInit, NoDraft, NewRequest, InFlight, InFlightPcs
<1>4. QED
  BY <1>2, <1>3, BlankFlags

LEMMA FlagInvariantHolds == MetricsSpec => []FlagInvariant
<1>1. MetricsSpec => [](TypeOK /\ InductiveInvariant /\ RemovingIsDead /\ FlagShape)
  BY MetricsLeaveThePool, TypeCorrect, Invariance, RemovingIsDeadAlways, FlagsHold, PTL
<1>2. QED
  BY <1>1, FlagsInit, FlagsStep, PTL DEF MetricsSpec

-----------------------------------------------------------------------------
(***************************************************************************)
(* The pods that are closed, and what is left to count of them.            *)
(***************************************************************************)

\* A pod that is gone is counted by the running sync at most.
Pending(p) == IF Listed(p) THEN 1 ELSE 0

ReserveOf(p) ==
    IF Dead(p) THEN counted[p] + Pending(p) <= Allowance(p) + 1
               ELSE counted[p] <= Allowance(p)

Reserve == \A p \in Pods : ReserveOf(p)

\* No request that has put its object of a pod back takes that back.
LEMMA PutBackStays ==
  ASSUME TypeOK, [Next]_vars, NEW p \in Pods
  PROVE  PutBackBy(p) \subseteq PutBackBy(p)'
<1> SUFFICES ASSUME NEW s \in Requests, req[s].pod = p, req[s].pc \in {"error", "granted"}
             PROVE  req'[s] = req[s] \/ (req'[s].pod = p /\ req'[s].pc \in {"error", "granted"})
  BY DEF PutBackBy
<1>0. req \in [Requests -> RequestRecord]
  BY DEF TypeOK
<1>1. ASSUME NEW r \in Requests, ProvisionStep(r)
      PROVE  req'[s] = req[s] \/ (req'[s].pod = p /\ req'[s].pc \in {"error", "granted"})
  <2>1. CASE r # s
    BY <1>0, <1>1, <2>1 DEF ProvisionStep, Refuse, Provision, Detach, DetachFails, LateDetach,
                            Rollback, Record, Grant
  <2>2. CASE r = s
    <3>1. LateDetach(s)
      BY <1>1, <2>2 DEF ProvisionStep, Refuse, Provision, Detach, DetachFails, Rollback,
                        Record, Grant
    <3>2. QED
      BY <1>0, <3>1 DEF LateDetach, RequestRecord
  <2>3. QED
    BY <2>1, <2>2
<1>2. ASSUME NEW x, ReapStep(x) PROVE req' = req
  BY <1>2 DEF ReapStep, ReapDelete, ReapRemove, ReapFails
<1>3. CASE SyncStep
  BY <1>2, <1>3 DEF SyncStep, SyncStart, SyncMerge, SyncUpsert, SweepCompleted, SyncPrune,
                    GcSelect, GcDone, SyncDone
<1>4. ASSUME NEW x \in Admins, AdminStep(x) PROVE req' = req
  BY <1>2, <1>4 DEF AdminStep, HandleDelete, HandleRestart, DeleteAllClaimed, Ask
<1>5. CASE Restart
  BY <1>5 DEF Restart, InFlight, InFlightPcs
<1>6. QED
  BY <1>1, <1>3, <1>4, <1>5 DEF Next, KubeStep, Tick, vars

\* What is allowed of a pod grows until the counters start anew.
LEMMA AllowanceGrows ==
  ASSUME TypeOK, FlagShape, FlagShape', [MetricsNext]_allVars, ~RestartMetrics, NEW p \in Pods
  PROVE  Allowance(p) <= Allowance(p)'
<1>1. cleared' = cleared \/ cleared' = cleared + 1
  <2>1. ASSUME NEW x \in Resetters, ResetStep(x) PROVE cleared' = cleared \/ cleared' = cleared + 1
    BY <2>1, Zenon DEF ResetStep, ResetStart, Unregister, Register, RegisterPanics, Assign,
                       ClearFlags
  <2>2. QED
    BY <2>1, Zenon DEF MetricsNext, ClaimFlag, PutBackFlag, MergeFlag, UpsertFlag, QuietStep,
                       registryVars, metricsVars, allVars
<1>2. Cardinality(PutBackBy(p)) <= Cardinality(PutBackBy(p)')
  <2>1. PutBackBy(p) \subseteq PutBackBy(p)'
    BY StepOfThePool, PutBackStays
  <2>2. IsFiniteSet(PutBackBy(p)')
    BY RequestsAssumption, FS_Subset DEF PutBackBy
  <2>3. QED
    BY <2>1, <2>2, FS_Subset
<1>3. /\ cleared \in Nat /\ Cardinality(PutBackBy(p)) \in Nat
      /\ Cardinality(PutBackBy(p)') \in Nat
  <2>1. Cardinality(PutBackBy(p)') \in Nat
    BY RequestsAssumption, FS_Subset, FS_CardinalityType DEF PutBackBy
  <2>2. QED
    BY <2>1, BudgetTypes
<1>4. Allowance(p)' = 1 + cleared' + (IF cleared' = 0 THEN 0 ELSE Cardinality(PutBackBy(p)'))
  BY DEF Allowance
<1>5. QED
  BY <1>1, <1>2, <1>3, <1>4 DEF Allowance

\* Only sync counts, once per pod of its list, and within the budget of an open pod.
LEMMA CountedByMerge ==
  ASSUME TypeOK, FlagShape, FlagInvariant, [MetricsNext]_allVars, ~RestartMetrics,
         NEW p \in Pods, counted'[p] # counted[p]
  PROVE  /\ counted'[p] = counted[p] + 1
         /\ Listed(p) /\ ~Listed(p)' /\ api' = api
         /\ Open(p) => Due(p) = 1
<1>1. PICK q \in Pods : MergeFlag(q)
  <2>1. ASSUME NEW x \in Resetters, ResetStep(x) PROVE counted' = counted
    BY <2>1, Zenon DEF ResetStep, ResetStart, Unregister, Register, RegisterPanics, Assign,
                       ClearFlags, flagVars
  <2>2. QED
    BY <2>1, Zenon DEF MetricsNext, ClaimFlag, PutBackFlag, UpsertFlag, QuietStep, flagVars,
                       metricsVars, allVars
<1>2. counted' = [counted EXCEPT ![q] = IF Derived(snap[q]) = "idle" /\ ~KeptFlag(q)
                                        THEN counted[q] + 1 ELSE counted[q]]
  BY <1>1, Zenon DEF MergeFlag
<1>3. counted \in [Pods -> Nat] /\ snap \in [Pods -> Pod] /\ mark \in [Pods -> BOOLEAN]
  BY Zenon DEF FlagShape, TypeOK
<1>4. p = q /\ ~KeptFlag(p) /\ counted'[p] = counted[p] + 1
  BY <1>2, <1>3
<1>5. /\ snap[p].life = "live" /\ snap' = [snap EXCEPT ![p] = AbsentPod]
      /\ draft = NoDraft /\ api' = api
  BY <1>1, <1>4 DEF MergeFlag, SyncMerge, ToMerge
<1>6. Due(p) = 1
  <2>1. ~mark[p]
    BY <1>4, Zenon DEF KeptFlag, FlagInvariant, FlagsOf
  <2>2. draft[p] = NoEntry
    BY <1>5 DEF NoDraft
  <2>3. QED
    BY <2>1, <2>2, Zenon DEF Due, Flag
<1>7. QED
  BY <1>3, <1>4, <1>5, <1>6 DEF Listed, AbsentPod

LEMMA ReserveStep ==
  ASSUME TypeOK, FlagShape, FlagShape', FlagInvariant, Reserve, [MetricsNext]_allVars
  PROVE  Reserve'
<1> SUFFICES ASSUME NEW p \in Pods PROVE ReserveOf(p)'
  BY Zenon DEF Reserve
<1>1. /\ counted[p] \in Nat /\ Due(p) \in {0, 1} /\ Allowance(p) \in Nat
      /\ counted'[p] \in Nat /\ Allowance(p)' \in Nat
  <2>1. Cardinality(PutBackBy(p)') \in Nat
    BY RequestsAssumption, FS_Subset, FS_CardinalityType DEF PutBackBy
  <2>2. cleared' \in Nat /\ counted'[p] \in Nat
    BY DEF FlagShape
  <2>3. QED
    BY <2>1, <2>2, BudgetTypes DEF Allowance
<1>2. Pending(p) \in {0, 1} /\ Pending(p)' \in {0, 1}
  BY DEF Pending
<1>3. ReserveOf(p)
  BY Zenon DEF Reserve
<1>4. [Next]_vars
  BY StepOfThePool
<1>5. CASE RestartMetrics
  <2>1. counted'[p] = 0 /\ Allowance(p)' = 1
    BY <1>5 DEF RestartMetrics, NothingCounted, Allowance
  <2>2. QED
    BY <1>2, <2>1 DEF ReserveOf
<1>6. CASE ~RestartMetrics /\ counted'[p] = counted[p]
  <2>1. Allowance(p) <= Allowance(p)'
    BY <1>6, AllowanceGrows
  <2>2. Dead(p) => Dead(p)' /\ Pending(p)' <= Pending(p)
    <3>1. Dead(p) => (Listed(p)' => Listed(p))
      BY <1>4, ListedWhenLive DEF Dead
    <3>2. QED
      BY <1>2, <1>4, <3>1, DeadStaysDead DEF Pending
  <2>3. QED
    BY <1>1, <1>2, <1>3, <1>6, <2>1, <2>2 DEF ReserveOf
<1>7. CASE ~RestartMetrics /\ counted'[p] # counted[p]
  <2>1. Allowance(p) <= Allowance(p)'
    BY <1>7, AllowanceGrows
  <2>2. /\ counted'[p] = counted[p] + 1
        /\ Listed(p) /\ ~Listed(p)' /\ api' = api
        /\ Open(p) => Due(p) = 1
    BY <1>7, CountedByMerge
  <2>3. CASE Dead(p)
    BY <1>1, <1>3, <2>1, <2>2, <2>3 DEF ReserveOf, Pending, Dead
  <2>4. CASE ~Dead(p)
    <3>1. counted[p] + 1 <= Allowance(p)
      BY <1>1, <2>2, <2>4 DEF Open, FlagInvariant, FlagsOf, Budget
    <3>2. ~Dead(p)'
      BY <2>2, <2>4 DEF Dead
    <3>3. QED
      BY <1>1, <2>1, <2>2, <3>1, <3>2 DEF ReserveOf
  <2>5. QED
    BY <2>3, <2>4
<1>8. QED
  BY <1>5, <1>6, <1>7

\* The start of a pod is counted again only for a reason and once for each: a reset, a
\* request that puts its object back after one, a deletion that overtakes sync between
\* List and Get (reconciler.go:80, 139, 191-197, handlers.go:297, 324).
THEOREM RecountNeedsReasonAlways == MetricsSpec => []RecountNeedsReason
<1>1. MetricsInit => Reserve
  <2> SUFFICES ASSUME MetricsInit, NEW p \in Pods PROVE ReserveOf(p)
    BY Zenon DEF Reserve
  <2>1. counted[p] = 0 /\ Allowance(p) = 1 /\ Pending(p) \in {0, 1}
    BY DEF MetricsInit, NothingCounted, Allowance, Pending
  <2>2. QED
    BY <2>1 DEF ReserveOf
<1>2. MetricsSpec => []Reserve
  BY <1>1, ReserveStep, MetricsLeaveThePool, TypeCorrect, FlagsHold, FlagInvariantHolds, PTL
     DEF MetricsSpec
<1>3. FlagShape /\ Reserve => RecountNeedsReason
  <2> SUFFICES ASSUME FlagShape, Reserve, NEW p \in Pods
               PROVE  counted[p] <= 1 + Excused(p) + (IF api[p].life = "gone" THEN 1 ELSE 0)
    BY DEF RecountNeedsReason
  <2>1. Allowance(p) = 1 + Excused(p)
    BY BudgetTypes DEF Allowance, Excused
  <2>2. Pending(p) \in {0, 1} /\ counted[p] \in Nat /\ Allowance(p) \in Nat
    BY BudgetTypes DEF Pending
  <2>3. ReserveOf(p)
    BY Zenon DEF Reserve
  <2>4. QED
    BY <2>1, <2>2, <2>3 DEF ReserveOf, Dead
<1>4. QED
  BY <1>2, <1>3, FlagsHold, PTL
=============================================================================

---------------------------- MODULE LeaseProofs -----------------------------
(***************************************************************************)
(* WarmPool implements SandboxLease: under the mapping of                  *)
(* WarmPoolProperties, every step of the controller, the cluster or a      *)
(* client is one step of the promise, or changes nothing of it.  The       *)
(* lemmas go through the steps in the order of WarmPool; each uses the     *)
(* inductive invariant exactly where the promise asks for more than the    *)
(* step's own guard gives.                                                 *)
(***************************************************************************)
EXTENDS WarmPoolProofs

\* What a step of WarmPool is to SandboxLease.
LeaseStep == Lease!LeaseNext \/ UNCHANGED Lease!leaseVars

-----------------------------------------------------------------------------
(***************************************************************************)
(* The mapping.                                                            *)
(***************************************************************************)

\* The reasons a pod is doomed for, now and after a step.
LEMMA DoomMembers ==
  ASSUME NEW p, NEW why
  PROVE  /\ why \in DoomOf(p) <=>
               \/ why \in Reasons /\ \E x \in Deleters : reap[x][p] = why
               \/ why = "scaled" /\ api[p].life = "deleting"
               \/ why = "completed" /\ Present(p) /\ api[p].cond = "exited"
         /\ why \in DoomOf(p)' <=>
               \/ why \in Reasons /\ \E x \in Deleters : reap'[x][p] = why
               \/ why = "scaled" /\ api'[p].life = "deleting"
               \/ why = "completed" /\ Present(p)' /\ api'[p].cond = "exited"
  BY DEF DoomOf

\* A pod that is not written to looks the same.
LEMMA PodKept ==
  ASSUME NEW p, api'[p] = api[p]
  PROVE  LeasedPod(p)' = LeasedPod(p)
  BY DEF LeasedPod, Present

\* It is doomed for the same reasons while the deleters' plans for it are the same.
LEMMA DoomKept ==
  ASSUME NEW p, api'[p] = api[p], \A x \in Deleters : reap'[x][p] = reap[x][p]
  PROVE  DoomOf(p)' = DoomOf(p)
<1>1. {reap[x][p] : x \in Deleters}' = {reap[x][p] : x \in Deleters}
  OBVIOUS
<1>2. QED
  BY <1>1 DEF DoomOf, Present

\* A request that is not written to has the same lease.
LEMMA LeaseKept ==
  ASSUME NEW r, req'[r] = req[r]
  PROVE  LeaseOf(r)' = LeaseOf(r)
  BY DEF LeaseOf, LeaseState, InFlight

\* A request whose claim stays what it is has the same lease but for its state.
LEMMA LeaseMoves ==
  ASSUME NEW r, req'[r].pod = req[r].pod, req'[r].at = req[r].at, req'[r].exp = req[r].exp
  PROVE  LeaseOf(r)' = [LeaseOf(r) EXCEPT !.st = LeaseState(r)']
  BY DEF LeaseOf

\* A step that touches neither pods, nor claims, nor plans is not seen.
LEMMA NotSeen ==
  ASSUME now' = now, api' = api, reap' = reap, \A r \in Requests : LeaseOf(r)' = LeaseOf(r)
  PROVE  LeaseStep
<1>1. \A p \in Pods : LeasedPod(p)' = LeasedPod(p) /\ DoomOf(p)' = DoomOf(p)
  BY PodKept, DoomKept
<1>2. QED
  BY <1>1 DEF LeaseStep, Lease!leaseVars

\* A step that writes one request and leaves its claim alone moves one lease.
LEMMA OneLeaseMoves ==
  ASSUME NEW r \in Requests, \A s \in Requests \ {r} : req'[s] = req[s],
         req'[r].pod = req[r].pod, req'[r].at = req[r].at, req'[r].exp = req[r].exp
  PROVE  [s \in Requests |-> LeaseOf(s)]'
           = [[s \in Requests |-> LeaseOf(s)] EXCEPT ![r].st = LeaseState(r)']
<1>1. \A s \in Requests \ {r} : LeaseOf(s)' = LeaseOf(s)
  BY LeaseKept
<1>2. LeaseOf(r)' = [LeaseOf(r) EXCEPT !.st = LeaseState(r)']
  BY LeaseMoves
<1>3. QED
  BY <1>1, <1>2

-----------------------------------------------------------------------------
(***************************************************************************)
(* POST /api/provision.                                                    *)
(***************************************************************************)

\* What every step of a request but Provision keeps: the claim; and what every one but
\* the patches keeps besides: the cluster.
LEMMA ClaimKept ==
  ASSUME TypeOK, NEW r \in Requests,
         \/ Refuse(r) \/ Detach(r) \/ DetachFails(r) \/ LateDetach(r)
         \/ Rollback(r) \/ Record(r) \/ Grant(r)
  PROVE  /\ \A s \in Requests \ {r} : req'[s] = req[s]
         /\ req'[r].pod = req[r].pod /\ req'[r].at = req[r].at /\ req'[r].exp = req[r].exp
         /\ now' = now /\ reap' = reap
         /\ api' = api \/ Detach(r) \/ LateDetach(r)
<1>0. req \in [Requests -> RequestRecord]
  BY DEF TypeOK
<1>1. CASE Refuse(r) \/ Detach(r) \/ DetachFails(r) \/ LateDetach(r)
  BY <1>0, <1>1 DEF Refuse, Detach, DetachFails, LateDetach, RequestRecord
<1>2. CASE Rollback(r) \/ Record(r) \/ Grant(r)
  BY <1>0, <1>2 DEF Rollback, Record, Grant, RequestRecord
<1>3. QED
  BY <1>1, <1>2

\* Taking an idle entry is a claim of a pod that exists, with the expiry asked for.
LEMMA ProvisionClaims ==
  ASSUME TypeOK, OnlyCreatedPods, NEW r \in Requests, NEW p \in Pods,
         NEW life \in Lifetimes \cup {Unlimited}, Provision(r, p, life)
  PROVE  Lease!Claim(r, p)
<1>0. req \in [Requests -> RequestRecord] /\ api \in [Pods -> Pod] /\ now \in Nat
  BY DEF TypeOK
<1>1. LeaseOf(r).st = "none"
  BY DEF LeaseOf, LeaseState, InFlight, InFlightPcs, Provision
<1>2. LeasedPod(p) # "none"
  <2>1. Existed(p)
    BY DEF Provision, ClaimIdle, IsIdle, OnlyCreatedPods
  <2>2. QED
    BY <2>1 DEF LeasedPod, Existed
<1>3. LeaseOf(r)' = [st |-> "open", pod |-> p, at |-> now, exp |-> Expiry(life)]
  <2>1. req'[r] = [pc |-> "claimed", pod |-> p, at |-> now, exp |-> Expiry(life),
                   sb |-> store'[p], late |-> FALSE]
    BY <1>0 DEF Provision
  <2>2. LeaseState(r)' = "open"
    BY <2>1 DEF LeaseState, InFlight, InFlightPcs
  <2>3. QED
    BY <2>1, <2>2 DEF LeaseOf
<1>4. \A s \in Requests \ {r} : LeaseOf(s)' = LeaseOf(s)
  BY <1>0, LeaseKept DEF Provision
<1>5. \A q \in Pods : LeasedPod(q)' = LeasedPod(q) /\ DoomOf(q)' = DoomOf(q)
  BY PodKept, DoomKept DEF Provision
<1>6. Expiry(life) \in Lease!Time
  BY <1>0, ExpiryType DEF Time, Lease!Time
<1>7. [s \in Requests |-> LeaseOf(s)]'
        = [[s \in Requests |-> LeaseOf(s)] EXCEPT
              ![r] = [st |-> "open", pod |-> p, at |-> now, exp |-> Expiry(life)]]
  BY <1>3, <1>4
<1>8. UNCHANGED <<now, [q \in Pods |-> LeasedPod(q)], [q \in Pods |-> DoomOf(q)]>>
  BY <1>5 DEF Provision
<1>9. LeaseOf(r)'.exp = Expiry(life)
  BY <1>3
<1>10. QED
  BY <1>1, <1>2, <1>6, <1>7, <1>8, <1>9 DEF Lease!Claim

\* A patch that is applied, in time or late, detaches the pod of a claim that was made.
LEMMA PatchDetaches ==
  ASSUME TypeOK, HonestTimes, NEW r \in Requests, Detach(r) \/ LateDetach(r)
  PROVE  LeaseOf(r)' = LeaseOf(r) /\ Lease!Detach(r)
<1>0. /\ req \in [Requests -> RequestRecord]
      /\ api \in [Pods -> Pod]
      /\ HoldsWhatItNeeds(req[r])
  BY DEF TypeOK
<1>1. PICK p \in Pods : p = req[r].pod /\ req[r].pc \notin {"new", "refused"}
  BY <1>0, NamesAssumption DEF Detach, LateDetach, HoldsWhatItNeeds, InFlightPcs, HonestTimes
<1>2. /\ Present(p)
      /\ api' = [api EXCEPT ![p] = [api[p] EXCEPT !.claimed = TRUE, !.claimedAt = req[r].at]]
  BY <1>1 DEF Detach, LateDetach, Patch
<1>3. /\ \A q \in Pods \ {p} : api'[q] = api[q]
      /\ api'[p].life = api[p].life /\ api'[p].cond = api[p].cond /\ api'[p].claimed
  BY <1>0, <1>1, <1>2 DEF Pod
<1>4. LeaseState(r)' = LeaseState(r)
  BY <1>0 DEF Detach, LateDetach, LeaseState, InFlight, InFlightPcs, RequestRecord
<1>5. \A s \in Requests : LeaseOf(s)' = LeaseOf(s)
  BY <1>4, ClaimKept, LeaseKept DEF LeaseOf
<1>6. LeaseOf(r).st # "none" /\ LeaseOf(r).pod = p
  BY <1>1 DEF LeaseOf, LeaseState, InFlight, InFlightPcs
<1>7. LeasedPod(p) \in {"pool", "leased"} /\ LeasedPod(p)' = "leased"
  BY <1>2, <1>3 DEF LeasedPod, Present
<1>8. \A q \in Pods \ {p} : LeasedPod(q)' = LeasedPod(q)
  BY <1>3, PodKept
<1>9. \A q \in Pods : DoomOf(q)' = DoomOf(q)
  <2>1. DoomOf(p)' = DoomOf(p)
    BY <1>3, ClaimKept DEF DoomOf, Present
  <2>2. QED
    BY <2>1, <1>3, ClaimKept, DoomKept
<1>10. now' = now
  BY ClaimKept
<1>11. [q \in Pods |-> LeasedPod(q)]' = [[q \in Pods |-> LeasedPod(q)] EXCEPT ![p] = "leased"]
  BY <1>7, <1>8
<1>12. UNCHANGED <<[s \in Requests |-> LeaseOf(s)], [q \in Pods |-> DoomOf(q)]>>
  BY <1>5, <1>9
<1>13. QED
  BY <1>1, <1>5, <1>6, <1>7, <1>10, <1>11, <1>12 DEF Lease!Detach

\* The answer 200 is given for a pod that was detached; an error gives the claim up;
\* a refusal, the outcome of the patch and the record of it are not seen.
LEMMA AnswerIsSeen ==
  ASSUME TypeOK, OnlyCreatedPods, DetachedRequests, NEW r \in Requests,
         Refuse(r) \/ DetachFails(r) \/ Rollback(r) \/ Record(r) \/ Grant(r)
  PROVE  LeaseStep
<1>0. /\ req \in [Requests -> RequestRecord]
      /\ api \in [Pods -> Pod]
      /\ HoldsWhatItNeeds(req[r])
  BY DEF TypeOK
<1>1. UNCHANGED <<now, api, reap>>
  BY DEF Refuse, DetachFails, Rollback, Record, Grant
<1>2. \A p \in Pods : LeasedPod(p)' = LeasedPod(p) /\ DoomOf(p)' = DoomOf(p)
  BY <1>1, PodKept, DoomKept
<1>3. [s \in Requests |-> LeaseOf(s)]'
        = [[s \in Requests |-> LeaseOf(s)] EXCEPT ![r].st = LeaseState(r)']
  BY ClaimKept, OneLeaseMoves
<1>4. CASE Refuse(r) \/ DetachFails(r) \/ Record(r)
  <2>1. LeaseState(r)' = LeaseState(r)
    BY <1>0, <1>4 DEF Refuse, DetachFails, Record, LeaseState, InFlight, InFlightPcs,
                      RequestRecord
  <2>2. \A s \in Requests : LeaseOf(s)' = LeaseOf(s)
    BY <2>1, <1>4, ClaimKept, LeaseKept DEF LeaseOf
  <2>3. QED
    BY <1>1, <2>2, NotSeen
<1>5. CASE Rollback(r)
  <2>1. LeaseOf(r).st = "open" /\ LeaseState(r)' = "over"
    BY <1>0, <1>5 DEF Rollback, LeaseOf, LeaseState, InFlight, InFlightPcs, RequestRecord
  <2>2. Lease!GiveUp(r)
    BY <1>1, <1>2, <1>3, <2>1 DEF Lease!GiveUp
  <2>3. QED
    BY <2>2 DEF LeaseStep, Lease!LeaseNext
<1>6. CASE Grant(r)
  <2>1. LeaseOf(r).st = "open" /\ LeaseState(r)' = "granted"
    BY <1>0, <1>6 DEF Grant, LeaseOf, LeaseState, InFlight, InFlightPcs, RequestRecord
  <2>2. req[r].pod \in Pods /\ Existed(req[r].pod) /\ api[req[r].pod].claimed
    BY <1>0, <1>6 DEF Grant, HoldsWhatItNeeds, Holds, InFlight, InFlightPcs,
                      OnlyCreatedPods, DetachedRequests
  <2>3. LeasedPod(req[r].pod) \in {"leased", "ended"}
    BY <1>0, <2>2 DEF LeasedPod, Present, Existed, Pod
  <2>4. Lease!Grant(r)
    BY <1>1, <1>2, <1>3, <2>1, <2>2, <2>3 DEF Lease!Grant, LeaseOf
  <2>5. QED
    BY <2>4 DEF LeaseStep, Lease!LeaseNext
<1>7. QED
  BY <1>4, <1>5, <1>6

\* A request's step is a claim, a detachment, a grant, a surrender or nothing.
LEMMA ProvisionImplements ==
  ASSUME TypeOK, InductiveInvariant, NEW r \in Requests, ProvisionStep(r)
  PROVE  LeaseStep
<1> USE DEF InductiveInvariant
<1>1. ASSUME NEW p \in Pods, NEW life \in Lifetimes \cup {Unlimited}, Provision(r, p, life)
      PROVE  LeaseStep
  <2>1. Lease!Claim(r, p)
    BY <1>1, ProvisionClaims
  <2>2. QED
    BY <2>1 DEF LeaseStep, Lease!LeaseNext
<1>2. CASE Detach(r) \/ LateDetach(r)
  <2>1. Lease!Detach(r)
    BY <1>2, PatchDetaches
  <2>2. QED
    BY <2>1 DEF LeaseStep, Lease!LeaseNext
<1>3. CASE Refuse(r) \/ DetachFails(r) \/ Rollback(r) \/ Record(r) \/ Grant(r)
  BY <1>3, AnswerIsSeen
<1>4. QED
  BY <1>1, <1>2, <1>3 DEF ProvisionStep

-----------------------------------------------------------------------------
(***************************************************************************)
(* Deciding and carrying out deletions.                                    *)
(***************************************************************************)

\* A step that only decides, or calls off, deletions is a judgement when every decision
\* has its warrant.
LEMMA DecisionIsJudged ==
  ASSUME now' = now, \A r \in Requests : LeaseOf(r)' = LeaseOf(r),
         \A p \in Pods : LeasedPod(p)' = LeasedPod(p),
         \A p \in Pods : \A why \in DoomOf(p)' \ DoomOf(p) : Lease!Warranted(p, why)
  PROVE  LeaseStep
<1>1. Lease!Judge
  BY DEF Lease!Judge
<1>2. QED
  BY <1>1 DEF LeaseStep, Lease!LeaseNext

\* A pod that is removed while it is doomed is an ended lease, or a pod of the pool that
\* is gone; what else was planned for it may be dropped with it.
LEMMA RemovalEnds ==
  ASSUME TypeOK, NEW p \in Pods, Present(p), api' = [api EXCEPT ![p] = Gone(@)],
         DoomOf(p) # {}, now' = now, req' = req,
         \A x \in Deleters : reap'[x][p] \in Reasons => reap'[x][p] = reap[x][p],
         \A x \in Deleters, q \in Pods \ {p} : reap'[x][q] = reap[x][q]
  PROVE  LeaseStep
<1>0. api \in [Pods -> Pod]
  BY DEF TypeOK
<1>1. /\ \A q \in Pods \ {p} : api'[q] = api[q]
      /\ api'[p].life = "gone" /\ api'[p].claimed = api[p].claimed
  BY <1>0 DEF Gone, AbsentPod
<1>2. /\ LeasedPod(p) \in {"pool", "leased"}
      /\ LeasedPod(p)' = IF LeasedPod(p) = "pool" THEN "gone" ELSE "ended"
  BY <1>1 DEF LeasedPod, Present
<1>3. \A q \in Pods \ {p} : LeasedPod(q)' = LeasedPod(q) /\ DoomOf(q)' = DoomOf(q)
  BY <1>1, PodKept, DoomKept
<1>4. DoomOf(p)' \subseteq DoomOf(p)
  <2>1. SUFFICES ASSUME NEW why, why \in DoomOf(p)' PROVE why \in DoomOf(p)
    OBVIOUS
  <2>2. why \in Reasons /\ \E x \in Deleters : reap'[x][p] = why
    BY <1>1, <2>1, DoomMembers DEF Present
  <2>3. QED
    BY <2>2, DoomMembers
<1>5. \A r \in Requests : LeaseOf(r)' = LeaseOf(r)
  BY LeaseKept
<1>6. [q \in Pods |-> LeasedPod(q)]'
        = [[q \in Pods |-> LeasedPod(q)] EXCEPT ![p] = IF @ = "pool" THEN "gone" ELSE "ended"]
  BY <1>2, <1>3
<1>7. Lease!End(p)
  BY <1>2, <1>3, <1>4, <1>5, <1>6 DEF Lease!End
<1>8. QED
  BY <1>7 DEF LeaseStep, Lease!LeaseNext

\* Deletions a client asks for need no other warrant.
LEMMA AskIsJudged ==
  ASSUME TypeOK, NEW x \in Deleters, NEW pods, Ask(x, pods)
  PROVE  LeaseStep
<1>0. reap \in [Deleters -> [Pods -> Reasons \cup {"no", "removing"}]]
  BY DEF TypeOK
<1>1. UNCHANGED <<api, req, now>>
  BY DEF Ask
<1>2. ASSUME NEW p \in Pods, NEW why \in DoomOf(p)' \ DoomOf(p)
      PROVE  Lease!Warranted(p, why)
  <2>1. why \in Reasons /\ \E y \in Deleters : reap'[y][p] = why /\ reap[y][p] # why
    BY <1>1, <1>2, DoomMembers DEF Present
  <2>2. why = "asked"
    BY <1>0, <2>1 DEF Ask, Reasons
  <2>3. QED
    BY <2>2 DEF Lease!Warranted
<1>3. /\ \A p \in Pods : LeasedPod(p)' = LeasedPod(p)
      /\ \A r \in Requests : LeaseOf(r)' = LeaseOf(r)
  BY <1>1, PodKept, LeaseKept
<1>4. QED
  BY <1>1, <1>2, <1>3, DecisionIsJudged

\* gc's choices: what it selects by a lifetime rule is a pod some claim detached, and the
\* rule applies to a request that claimed this very pod.
LEMMA GcSelectIsJudged ==
  ASSUME TypeOK, OnlyCreatedPods, ClaimedCopies, HonestTimes, GcSelect
  PROVE  LeaseStep
<1>0. /\ reap \in [Deleters -> [Pods -> Reasons \cup {"no", "removing"}]]
      /\ api \in [Pods -> Pod]
      /\ GC \in Deleters
  BY DEF TypeOK, Deleters
<1>1. UNCHANGED <<api, req, now>>
  BY DEF GcSelect
<1>2. ASSUME NEW p \in Pods, NEW why \in DoomOf(p)' \ DoomOf(p)
      PROVE  Lease!Warranted(p, why)
  <2>1. why \in Reasons /\ \E y \in Deleters : reap'[y][p] = why /\ reap[y][p] # why
    BY <1>1, <1>2, DoomMembers DEF Present
  <2>2. why = Reason(store[p])
    BY <1>0, <2>1 DEF GcSelect
  <2>3. ASSUME why \in {"ttl_expired", "exited", "stale"}
        PROVE  LeasedPod(p) \in {"leased", "ended"}
    <3>1. ActiveEntry(store[p])
      BY <2>2, <2>3, ReasonActive
    <3>2. api[p].claimed /\ Existed(p)
      BY <3>1 DEF ClaimedCopies, OnlyCreatedPods, ActiveEntry, Known
    <3>3. QED
      BY <1>0, <3>2 DEF LeasedPod, Present, Existed, Pod
  <2>4. CASE why \in {"failed", "asked"}
    BY <2>4 DEF Lease!Warranted
  <2>5. CASE why = "exited"
    BY <2>3, <2>5 DEF Lease!Warranted
  <2>6. CASE why = "ttl_expired"
    <3>1. \E r \in Requests : req[r].pod = p /\ OlderThan(req[r].exp, 0, now)
      BY <2>2, <2>6, ReasonDue DEF HonestTimes, DueTtl
    <3>2. \E r \in Requests : LeaseOf(r).pod = p /\ Lease!OlderThan(LeaseOf(r).exp, 0, now)
      BY <3>1 DEF LeaseOf, OlderThan, Lease!OlderThan
    <3>3. QED
      BY <2>3, <2>6, <3>2 DEF Lease!Warranted
  <2>7. CASE why = "stale"
    <3>1. \E r \in Requests : req[r].pod = p /\ OlderThan(req[r].at, StaleAge, now)
      BY <2>2, <2>7, ReasonDue DEF HonestTimes, DueStale
    <3>2. \E r \in Requests : LeaseOf(r).pod = p /\ Lease!OlderThan(LeaseOf(r).at, StaleAge, now)
      BY <3>1 DEF LeaseOf, OlderThan, Lease!OlderThan
    <3>3. QED
      BY <2>3, <2>7, <3>2 DEF Lease!Warranted
  <2>8. QED
    BY <2>1, <2>4, <2>5, <2>6, <2>7 DEF Reasons
<1>3. /\ \A p \in Pods : LeasedPod(p)' = LeasedPod(p)
      /\ \A r \in Requests : LeaseOf(r)' = LeaseOf(r)
  BY <1>1, PodKept, LeaseKept
<1>4. QED
  BY <1>1, <1>2, <1>3, DecisionIsJudged

\* A deletion that is carried out, or reported to have failed, was planned before.
LEMMA ReapImplements ==
  ASSUME TypeOK, NEW x \in Deleters, ReapStep(x)
  PROVE  LeaseStep
<1>0. /\ reap \in [Deleters -> [Pods -> Reasons \cup {"no", "removing"}]]
      /\ "no" \notin Reasons /\ "removing" \notin Reasons
  BY DEF TypeOK, Reasons
<1>1. PICK p \in Pods : ReapDelete(x, p) \/ ReapRemove(x, p) \/ ReapFails(x, p)
  BY DEF ReapStep
<1>2. UNCHANGED <<req, now>>
  BY <1>1 DEF ReapDelete, ReapRemove, ReapFails
<1>3. /\ \A y \in Deleters : reap'[y][p] \in Reasons => reap'[y][p] = reap[y][p]
      /\ \A y \in Deleters, q \in Pods \ {p} : reap'[y][q] = reap[y][q]
  BY <1>0, <1>1 DEF ReapDelete, ReapRemove, ReapFails
<1>4. CASE ForceDelete(p) /\ reap[x][p] \in Reasons
  <2>1. DoomOf(p) # {}
    BY <1>4, DoomMembers
  <2>2. QED
    BY <1>2, <1>3, <1>4, <2>1, RemovalEnds DEF ForceDelete
<1>5. CASE api' = api
  <2>1. /\ \A q \in Pods : LeasedPod(q)' = LeasedPod(q)
        /\ \A r \in Requests : LeaseOf(r)' = LeaseOf(r)
    BY <1>2, <1>5, PodKept, LeaseKept
  <2>2. ASSUME NEW q \in Pods, NEW why, why \in DoomOf(q)' PROVE why \in DoomOf(q)
    <3>1. CASE why \in Reasons /\ \E y \in Deleters : reap'[y][q] = why
      BY <1>3, <3>1, DoomMembers
    <3>2. QED
      BY <1>5, <2>2, <3>1, DoomMembers DEF Present
  <2>3. QED
    BY <1>2, <2>1, <2>2, DecisionIsJudged
<1>6. QED
  BY <1>1, <1>4, <1>5 DEF ReapDelete, ReapRemove, ReapFails

\* gcCompletedPods deletes pods that have exited.
LEMMA SweepEnds ==
  ASSUME TypeOK, NEW p \in Pods, SweepCompleted(p)
  PROVE  LeaseStep
<1>1. /\ Present(p) /\ api[p].cond = "exited"
      /\ api' = [api EXCEPT ![p] = Gone(@)]
      /\ UNCHANGED <<req, now, reap>>
  BY DEF SweepCompleted, ForceDelete
<1>2. DoomOf(p) # {}
  BY <1>1, DoomMembers
<1>3. QED
  BY <1>1, <1>2, RemovalEnds

-----------------------------------------------------------------------------
(***************************************************************************)
(* sync, clients, the cluster, restarts and the clock.                     *)
(***************************************************************************)

\* Of sync only gc's choices and deletions are seen.
LEMMA SyncImplements ==
  ASSUME TypeOK, InductiveInvariant, SyncStep
  PROVE  LeaseStep
<1>1. CASE GcSelect
  BY <1>1, GcSelectIsJudged DEF InductiveInvariant
<1>2. ASSUME NEW p \in Pods, SweepCompleted(p) PROVE LeaseStep
  BY <1>2, SweepEnds
<1>3. CASE ReapStep(GC)
  BY <1>3, ReapImplements DEF Deleters
<1>4. CASE UNCHANGED <<api, req, now, reap>>
  BY <1>4, LeaseKept, NotSeen
<1>5. QED
  BY <1>1, <1>2, <1>3, <1>4 DEF SyncStep, SyncStart, SyncMerge, SyncUpsert, SyncPrune,
                                GcDone, SyncDone

\* A client's deletion is a decision, and then its execution.
LEMMA AdminImplements ==
  ASSUME TypeOK, NEW x \in Admins, AdminStep(x)
  PROVE  LeaseStep
  BY AskIsJudged, ReapImplements DEF AdminStep, HandleDelete, HandleRestart,
     DeleteAllClaimed, Deleters

\* The ReplicaSet creates pods of the pool and dooms only such pods; the kubelet dooms
\* those that exit; a pod is removed in the end only when it was doomed.
LEMMA KubeImplements ==
  ASSUME TypeOK, OnlyCreatedPods, KubeStep
  PROVE  LeaseStep
<1>0. api \in [Pods -> Pod] /\ UNCHANGED <<req, now, reap>>
  BY DEF TypeOK, KubeStep
<1>1. PICK p \in Pods : \/ CreatePod(p) \/ ScaleDown(p) \/ Terminated(p)
                        \/ \E c \in Reported : Kubelet(p, c)
  BY DEF KubeStep
<1>2. \A r \in Requests : LeaseOf(r)' = LeaseOf(r)
  BY <1>0, LeaseKept
<1>3. \A q \in Pods \ {p} : api'[q] = api[q]
  BY <1>0, <1>1 DEF CreatePod, ScaleDown, Terminated, Kubelet
<1>4. \A q \in Pods \ {p} : LeasedPod(q)' = LeasedPod(q) /\ DoomOf(q)' = DoomOf(q)
  BY <1>0, <1>3, PodKept, DoomKept
<1>5. CASE CreatePod(p)
  <2>1. api[p] = AbsentPod /\ api'[p] = [AbsentPod EXCEPT !.life = "live"]
    BY <1>0, <1>5 DEF CreatePod, OnlyCreatedPods, Existed
  <2>2. LeasedPod(p) = "none" /\ LeasedPod(p)' = "pool"
    BY <2>1 DEF LeasedPod, Present, AbsentPod
  <2>3. DoomOf(p)' = DoomOf(p)
    BY <1>0, <2>1 DEF DoomOf, Present, AbsentPod
  <2>4. [q \in Pods |-> LeasedPod(q)]' = [[q \in Pods |-> LeasedPod(q)] EXCEPT ![p] = "pool"]
    BY <1>4, <2>2
  <2>5. UNCHANGED <<now, [s \in Requests |-> LeaseOf(s)], [q \in Pods |-> DoomOf(q)]>>
    BY <1>0, <1>2, <1>4, <2>3
  <2>6. Lease!Create(p)
    BY <2>2, <2>4, <2>5 DEF Lease!Create
  <2>7. QED
    BY <2>6 DEF LeaseStep, Lease!LeaseNext
<1>6. CASE ScaleDown(p)
  <2>1. /\ api[p].life = "live" /\ ~api[p].claimed
        /\ api'[p].life = "deleting" /\ ~api'[p].claimed /\ api'[p].cond = api[p].cond
    BY <1>0, <1>6 DEF ScaleDown, Pod
  <2>2. LeasedPod(p) = "pool" /\ LeasedPod(p)' = "pool"
    BY <2>1 DEF LeasedPod, Present
  <2>3. ASSUME NEW why \in DoomOf(p)' \ DoomOf(p) PROVE Lease!Warranted(p, why)
    <3>1. why = "scaled"
      BY <1>0, <2>1, <2>3, DoomMembers DEF Present
    <3>2. QED
      BY <2>2, <3>1 DEF Lease!Warranted
  <2>4. QED
    BY <1>0, <1>2, <1>4, <2>2, <2>3, DecisionIsJudged
<1>7. CASE Terminated(p)
  <2>1. Present(p) /\ DoomOf(p) # {} /\ api' = [api EXCEPT ![p] = Gone(@)]
    BY <1>7, DoomMembers DEF Terminated, Present
  <2>2. QED
    BY <1>0, <2>1, RemovalEnds
<1>8. ASSUME NEW c \in Reported, Kubelet(p, c) PROVE LeaseStep
  <2>1. /\ api'[p].life = api[p].life /\ api'[p].claimed = api[p].claimed
        /\ Present(p) /\ api[p].cond # "exited"
    BY <1>0, <1>8 DEF Kubelet, Pod
  <2>2. LeasedPod(p)' = LeasedPod(p)
    BY <2>1 DEF LeasedPod, Present
  <2>3. ASSUME NEW why \in DoomOf(p)' \ DoomOf(p) PROVE Lease!Warranted(p, why)
    <3>1. why = "completed"
      BY <1>0, <2>1, <2>3, DoomMembers
    <3>2. QED
      BY <3>1 DEF Lease!Warranted
  <2>4. QED
    BY <1>0, <1>2, <1>4, <2>2, <2>3, DecisionIsJudged
<1>9. QED
  BY <1>1, <1>5, <1>6, <1>7, <1>8

\* A crash gives the open claims up and forgets the controller's own decisions.
LEMMA RestartForgets ==
  ASSUME TypeOK, Restart
  PROVE  Lease!Forget
<1>0. req \in [Requests -> RequestRecord]
  BY DEF TypeOK
<1>1. UNCHANGED <<api, now>>
  BY DEF Restart
<1>2. \A p \in Pods : LeasedPod(p)' = LeasedPod(p)
  BY <1>1, PodKept
<1>3. ASSUME NEW p \in Pods PROVE DoomOf(p)' \subseteq DoomOf(p)
  <2>1. \A x \in Deleters : reap'[x][p] \notin Reasons
    BY DEF Restart, NothingToReap, Reasons
  <2>2. QED
    BY <1>1, <2>1, DoomMembers DEF Present
<1>4. ASSUME NEW r \in Requests
      PROVE  LeaseOf(r)' = IF LeaseOf(r).st = "open"
                           THEN [LeaseOf(r) EXCEPT !.st = "over"] ELSE LeaseOf(r)
  <2>1. CASE InFlight(r)
    <3>1. req'[r].pc = "lost"
      BY <1>0, <2>1 DEF Restart, RequestRecord
    <3>2. LeaseState(r) = "open" /\ LeaseState(r)' = "over"
      BY <2>1, <3>1 DEF LeaseState, InFlight, InFlightPcs
    <3>3. LeaseOf(r)' = [LeaseOf(r) EXCEPT !.st = "over"]
      BY <3>2, RestartDropsRequests, LeaseMoves
    <3>4. QED
      BY <3>2, <3>3 DEF LeaseOf
  <2>2. CASE ~InFlight(r)
    <3>1. LeaseOf(r)' = LeaseOf(r)
      BY <2>2, LeaseKept DEF Restart
    <3>2. LeaseState(r) # "open"
      BY <2>2 DEF LeaseState, InFlight, InFlightPcs
    <3>3. QED
      BY <3>1, <3>2 DEF LeaseOf
  <2>3. QED
    BY <2>1, <2>2
<1>5. QED
  BY <1>1, <1>2, <1>3, <1>4 DEF Lease!Forget

\* Every step of WarmPool is a step of the promise or is not seen.
LEMMA EveryStepImplements ==
  TypeOK /\ InductiveInvariant /\ [Next]_vars => [Lease!LeaseNext]_(Lease!leaseVars)
<1> SUFFICES ASSUME TypeOK, InductiveInvariant, [Next]_vars PROVE LeaseStep
  BY DEF LeaseStep
<1>1. CASE Restart
  <2>1. Lease!Forget
    BY <1>1, RestartForgets
  <2>2. QED
    BY <2>1 DEF LeaseStep, Lease!LeaseNext
<1>2. CASE Tick
  <2>1. UNCHANGED <<api, req, reap>> /\ now' = now + 1
    BY <1>2 DEF Tick
  <2>2. /\ \A p \in Pods : LeasedPod(p)' = LeasedPod(p) /\ DoomOf(p)' = DoomOf(p)
        /\ \A r \in Requests : LeaseOf(r)' = LeaseOf(r)
    BY <2>1, PodKept, DoomKept, LeaseKept
  <2>3. Lease!Tick
    BY <2>1, <2>2 DEF Lease!Tick
  <2>4. QED
    BY <2>3 DEF LeaseStep, Lease!LeaseNext
<1>3. CASE KubeStep
  BY <1>3, KubeImplements DEF InductiveInvariant
<1>4. CASE UNCHANGED vars
  BY <1>4, LeaseKept, NotSeen DEF vars
<1>5. QED
  BY <1>1, <1>2, <1>3, <1>4, ProvisionImplements, SyncImplements, AdminImplements DEF Next

\* The controller starts where the promise starts.
LEMMA InitImplements == Init => Lease!LeaseInit
<1> SUFFICES ASSUME Init PROVE Lease!LeaseInit
  OBVIOUS
<1>1. \A p \in Pods : LeasedPod(p) = "none"
  BY DEF Init, KubeInit, AbsentPod, LeasedPod, Present
<1>2. \A r \in Requests : LeaseOf(r) = Lease!NoLease
  BY DEF Init, NewRequest, LeaseOf, LeaseState, InFlight, InFlightPcs, Lease!NoLease
<1>3. ASSUME NEW p \in Pods PROVE DoomOf(p) = {}
  <2>1. /\ api[p] = AbsentPod
        /\ \A x \in Deleters : reap[x][p] \notin Reasons
    BY DEF Init, KubeInit, NothingToReap, Reasons
  <2>2. \A why : why \notin DoomOf(p)
    BY <2>1, DoomMembers DEF Present, AbsentPod
  <2>3. QED
    BY <2>2
<1>4. now = 0
  BY DEF Init
<1>5. QED
  BY <1>1, <1>2, <1>3, <1>4 DEF Lease!LeaseInit

\* The controller implements SandboxLease, for any pods, requests, clients, lifetimes and
\* number of crashes: whatever ends a claimed pod was warranted when it was decided, a 200
\* means a detached pod, and none returns to the pool (handlers.go:114-194, 249-340,
\* reconciler.go:249-313).
THEOREM LeaseImplemented == Spec => ImplementsLease
<1>1. Spec => [](TypeOK /\ InductiveInvariant)
  BY TypeCorrect, Invariance, PTL
<1>2. QED
  BY <1>1, InitImplements, EveryStepImplements, PTL DEF Spec, Lease!Spec, ImplementsLease
=============================================================================

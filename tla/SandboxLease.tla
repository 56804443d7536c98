---------------------------- MODULE SandboxLease ----------------------------
(***************************************************************************)
(* What the controller promises of a sandbox, without store, sync or API   *)
(* calls: a pod waits in the pool, is leased to whoever claims it, never   *)
(* returns to the pool, and a lease is ended only with a warrant.          *)
(*                                                                         *)
(* The promise is deliberately the one the program keeps: a lease is not   *)
(* exclusive (see ExclusiveClaims in WarmPoolProperties).                  *)
(***************************************************************************)
EXTENDS PoolBase

CONSTANTS NoPod, StaleAge

VARIABLES
    now,
    pod,    \* [Pods -> {"none", "pool", "leased", "gone", "ended"}]
    lease,  \* [Requests -> [st, pod, at, exp]]
    doom    \* [Pods -> set of reasons to delete the pod that are being acted on]

leaseVars == <<now, pod, lease, doom>>

NoLease == [st |-> "none", pod |-> NoPod, at |-> 0, exp |-> NoTime]

\* A lease ends when one of its claims has expired, when one is older than a
\* day, when the container exited or failed, or when a client asks for it.
\* Scaling down takes pods of the pool only.
Warranted(p, why) ==
    CASE why = "scaled"      -> pod[p] = "pool"
      [] why = "ttl_expired" -> /\ pod[p] \in {"leased", "ended"}
                                /\ \E r \in Requests : /\ lease[r].pod = p
                                                       /\ OlderThan(lease[r].exp, 0, now)
      [] why = "stale"       -> /\ pod[p] \in {"leased", "ended"}
                                /\ \E r \in Requests : /\ lease[r].pod = p
                                                       /\ OlderThan(lease[r].at, StaleAge, now)
      [] why = "exited"      -> pod[p] \in {"leased", "ended"}
      [] OTHER               -> why \in {"failed", "completed", "asked"}

Create(p) ==
    /\ pod[p] = "none"
    /\ pod' = [pod EXCEPT ![p] = "pool"]
    /\ UNCHANGED <<now, lease, doom>>

\* Any pod that was ever created may be claimed, under any expiry.
Claim(r, p) ==
    LET exp == lease'[r].exp
    IN  /\ lease[r].st = "none"
        /\ pod[p] # "none"
        /\ exp \in Time
        /\ lease' = [lease EXCEPT ![r] = [st |-> "open", pod |-> p, at |-> now, exp |-> exp]]
        /\ UNCHANGED <<now, pod, doom>>

\* Any claim may detach its pod, also one that was given up meanwhile.
Detach(r) ==
    LET p == lease[r].pod
    IN  /\ lease[r].st # "none"
        /\ pod[p] \in {"pool", "leased"}
        /\ pod' = [pod EXCEPT ![p] = "leased"]
        /\ UNCHANGED <<now, lease, doom>>

Grant(r) ==
    /\ lease[r].st = "open"
    /\ pod[lease[r].pod] \in {"leased", "ended"}
    /\ lease' = [lease EXCEPT ![r].st = "granted"]
    /\ UNCHANGED <<now, pod, doom>>

GiveUp(r) ==
    /\ lease[r].st = "open"
    /\ lease' = [lease EXCEPT ![r].st = "over"]
    /\ UNCHANGED <<now, pod, doom>>

\* Deletions are decided, each with a warrant, or called off.
Judge ==
    /\ \A p \in Pods : \A why \in doom'[p] \ doom[p] : Warranted(p, why)
    /\ UNCHANGED <<now, pod, lease>>

\* A decision made earlier, and perhaps acted on late, is carried out.
End(p) ==
    /\ pod[p] \in {"pool", "leased"}
    /\ doom[p] # {}
    /\ pod' = [pod EXCEPT ![p] = IF @ = "pool" THEN "gone" ELSE "ended"]
    /\ doom'[p] \subseteq doom[p]
    /\ \A q \in Pods \ {p} : doom'[q] = doom[q]
    /\ UNCHANGED <<now, lease>>

\* The controller dies: open claims are given up, its decisions forgotten.
Forget ==
    /\ lease' = [r \in Requests |-> IF lease[r].st = "open"
                                    THEN [lease[r] EXCEPT !.st = "over"]
                                    ELSE lease[r]]
    /\ \A p \in Pods : doom'[p] \subseteq doom[p]
    /\ UNCHANGED <<now, pod>>

Tick ==
    /\ now' = now + 1
    /\ UNCHANGED <<pod, lease, doom>>

LeaseInit ==
    /\ now = 0
    /\ pod = [p \in Pods |-> "none"]
    /\ lease = [r \in Requests |-> NoLease]
    /\ doom = [p \in Pods |-> {}]

LeaseNext ==
    \/ \E p \in Pods : Create(p) \/ End(p)
    \/ \E r \in Requests : \/ \E p \in Pods : Claim(r, p)
                          \/ Detach(r) \/ Grant(r) \/ GiveUp(r)
    \/ Judge
    \/ Forget
    \/ Tick

Spec == LeaseInit /\ [][LeaseNext]_leaseVars
=============================================================================

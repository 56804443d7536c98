------------------------------ MODULE KubePods ------------------------------
(***************************************************************************)
(* The pods as the Kubernetes API server, the ReplicaSet controller and    *)
(* the kubelet keep them.  None of this is code of the repository: it is   *)
(* modelled from how the controller uses it (the calls in handlers.go and  *)
(* reconciler.go, the Deployment of manifests/sandbox).                    *)
(*                                                                         *)
(* Of a pod the model keeps what the controller's decisions depend on:     *)
(*   life      - created, given a DeletionTimestamp, removed;              *)
(*   claimed   - label warmpool=false, which a claim sets together with    *)
(*               emptying ownerReferences;                                 *)
(*   cond      - phase and container states, in the four classes sync()    *)
(*               and gc() tell apart;                                      *)
(*   claimedAt - the annotation sandbox.gvisor/claimed-at.                 *)
(***************************************************************************)
EXTENDS PoolBase

CONSTANT Reported    \* bound: the conditions the kubelet reports of a pod

VARIABLE api    \* [Pods -> Pod]

Conditions == {"starting",  \* Pending, or Running and not Ready
               "ready",     \* Running and Ready
               "failed",    \* Failed, Unknown, CrashLoopBackOff, non-zero exit
               "exited"}    \* phase Succeeded

Pod == [life: {"absent", "live", "deleting", "gone"}, claimed: BOOLEAN,
        cond: Conditions, claimedAt: Time]

ASSUME ReportedAssumption == Reported \subseteq Conditions

AbsentPod == [life |-> "absent", claimed |-> FALSE,
              cond |-> "starting", claimedAt |-> NoTime]

KubeInit == api = [p \in Pods |-> AbsentPod]

\* The API server still serves the pod (a GET or PATCH of it succeeds).
Present(p) == api[p].life \in {"live", "deleting"}

-----------------------------------------------------------------------------
\* The ReplicaSet of Deployment sandbox-pool creates a pod.
CreatePod(p) ==
    /\ api[p].life = "absent"
    /\ api' = [api EXCEPT ![p].life = "live"]

\* It scales down, choosing among the pods it owns: graceful deletion, the pod
\* carries a DeletionTimestamp until its grace period is over.
ScaleDown(p) ==
    /\ api[p].life = "live"
    /\ ~api[p].claimed
    /\ api' = [api EXCEPT ![p].life = "deleting"]

\* What is left of a pod the API server no longer serves.
Gone(pod) == [AbsentPod EXCEPT !.life = "gone", !.claimed = pod.claimed]

Terminated(p) ==
    /\ api[p].life = "deleting"
    /\ api' = [api EXCEPT ![p] = Gone(@)]

\* The kubelet reports another condition; only Succeeded is final.
Kubelet(p, c) ==
    /\ Present(p)
    /\ api[p].cond \notin {"exited", c}
    /\ api' = [api EXCEPT ![p].cond = c]

-----------------------------------------------------------------------------
\* The controller's calls.

\* The merge patch of a claim: label, annotations and ownerReferences at once.
Patch(p, t) ==
    /\ Present(p)
    /\ api' = [api EXCEPT ![p] = [api[p] EXCEPT !.claimed = TRUE, !.claimedAt = t]]

\* DELETE with gracePeriodSeconds 0.
ForceDelete(p) ==
    /\ Present(p)
    /\ api' = [api EXCEPT ![p] = Gone(@)]
=============================================================================

----------------------------- MODULE MCWarmPool -----------------------------
(***************************************************************************)
(* Instances of WarmPool for TLC.                                          *)
(***************************************************************************)
EXTENDS WarmPoolInvariant, TLC

\* The durations asked for: already over, within the clamp, beyond it.
MCLifetimes == {-1, 1, 3}
MCShortLifetimes == {1}
MCPastLifetimes == {-1}

\* What becomes of a pod: it just gets ready; or it may also fail, recover or exit.
MCReady == {"ready"}
MCAnything == {"starting", "ready", "failed", "exited"}

\* Pods and requests are interchangeable (safety runs only).
Symmetry == Permutations(Pods) \cup Permutations(Requests)
=============================================================================

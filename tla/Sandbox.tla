------------------------------ MODULE Sandbox ------------------------------
(***************************************************************************)
(* The process inside a sandbox pod (sandbox/main.go): it waits in the     *)
(* pool until the labels file says that the pod is detached, then          *)
(* downloads, writes to disk and burns CPU until it is told to stop.       *)
(* Around it: the label in the API server, the file the kubelet derives    *)
(* from it, and the kubelet that ends and restarts the container.  What is *)
(* fetched, written and computed is left out; every place where the code   *)
(* looks at its context is kept.  The network probe shares nothing with    *)
(* the rest but the context and is left out.                               *)
(***************************************************************************)
EXTENDS Integers, FiniteSets

CONSTANTS
    Cores,        \* how many cores the load may use
    MaxCrashes    \* bound: how often the process dies by itself

ASSUME CoresAssumption == Cores \in Nat \ {0}
ASSUME CrashesAssumption == MaxCrashes \in Nat

VARIABLES
    pod,        \* "live", "dying" (being deleted) or "gone"
    claimed,    \* warmpool=false in the API server
    file,       \* what /etc/podinfo/labels says: "pool", "claimed", "bare" when it
                \* has no warmpool line, "none" when it does not exist
    misread,    \* this process could not open a file that says "pool"
    sig,        \* a SIGTERM is on its way to the process
    crashes,
    pc,         \* where main is; "down": no process
    burning,    \* the load's worker goroutines
    phase,      \* sandboxState.Phase; "none" without a process
    cancelled,  \* ctx
    late        \* history: the phases begun since ctx was cancelled

podVars == <<pod, claimed, file, sig, crashes>>
mainVars == <<misread, pc, burning, phase, cancelled, late>>
sandboxVars == <<podVars, mainVars>>

Workers == 1..Cores
Up == pc # "down"
\* Main is past signal.Notify.
Armed == pc \in {"armed", "download", "toDisk", "disk", "toLoad", "load", "hold", "burn"}
Working == phase \in {"download", "disk", "load"}

\* The pod says nothing of a pool: local mode, or a label file without the label.
OutsidePool == file \in {"none", "bare"}

\* setPhase, when one of the three phases begins.
Shows(p) ==
    /\ phase' = p
    /\ late' = IF cancelled THEN late + 1 ELSE late

\* The process is gone, and all its goroutines with it.
ProcessEnds ==
    /\ pc' = "down"
    /\ burning' = {}
    /\ phase' = "none"
    /\ cancelled' = FALSE
    /\ misread' = FALSE
    /\ late' = 0
    /\ sig' = FALSE

-----------------------------------------------------------------------------
(***************************************************************************)
(* The API server and the kubelet.                                         *)
(***************************************************************************)
\* In local mode there is no pod to claim.
Claim ==
    /\ pod = "live"
    /\ ~claimed
    /\ file # "none"
    /\ claimed' = TRUE
    /\ UNCHANGED <<pod, file, sig, crashes, mainVars>>

\* The downward API volume follows the label, some time later.
RefreshFile ==
    /\ claimed
    /\ file \in {"pool", "bare"}
    /\ file' = "claimed"
    /\ UNCHANGED <<pod, claimed, sig, crashes, mainVars>>

\* A deletion: the kubelet sends SIGTERM.
Terminate ==
    /\ pod = "live"
    /\ pod' = "dying"
    /\ sig' = Up
    /\ UNCHANGED <<claimed, file, crashes, mainVars>>

\* The grace period is over, or the process crashes or runs out of memory.
Killed ==
    /\ Up
    /\ IF pod = "dying" THEN crashes' = crashes
       ELSE crashes < MaxCrashes /\ crashes' = crashes + 1
    /\ ProcessEnds
    /\ UNCHANGED <<pod, claimed, file>>

PodGone ==
    /\ pod = "dying"
    /\ ~Up
    /\ pod' = "gone"
    /\ UNCHANGED <<claimed, file, sig, crashes, mainVars>>

\* The container is started: main shows itself idle and looks for the file.
Start ==
    /\ pod = "live"
    /\ ~Up
    /\ pc' = IF file = "none" THEN "detached" ELSE "waiting"
    /\ phase' = "idle"
    /\ UNCHANGED <<podVars, misread, burning, cancelled, late>>

-----------------------------------------------------------------------------
(***************************************************************************)
(* waitForDetach, and what main sets up after it.                          *)
(***************************************************************************)

\* Mutant: any file that can be read counts as detached.
SaysDetached == file # "none"

\* Mutant: detached only when the label is gone.
NeedsNoLabel == file = "none"

\* isDetached, when the file can be read: any label but "true", or none.
FileDetached == file # "pool"

PollDetached ==
    /\ pc = "waiting"
    /\ FileDetached
    /\ pc' = "detached"
    /\ UNCHANGED <<podVars, misread, burning, phase, cancelled, late>>

\* A file that cannot be opened counts as detached.
PollFails ==
    /\ pc = "waiting"
    /\ misread' = (file = "pool")
    /\ pc' = "detached"
    /\ UNCHANGED <<podVars, burning, phase, cancelled, late>>

\* The context, signal.Notify and the goroutine that waits for the signal.
Arm ==
    /\ pc = "detached"
    /\ pc' = "armed"
    /\ UNCHANGED <<podVars, misread, burning, phase, cancelled, late>>

\* newMetricsClient returns, with a client or without; the probe and the
\* session are started, and the download.
Setup ==
    /\ pc = "armed"
    /\ pc' = "download"
    /\ Shows("download")
    /\ UNCHANGED <<podVars, misread, burning, cancelled>>

\* SIGTERM before Notify: the default action ends the process.
SignalDefault ==
    /\ sig
    /\ Up
    /\ ~Armed
    /\ ProcessEnds
    /\ UNCHANGED <<pod, claimed, file, crashes>>

\* SIGTERM through sigCh to the goroutine that cancels ctx.
SignalCaught ==
    /\ sig
    /\ Armed
    /\ sig' = FALSE
    /\ cancelled' = TRUE
    /\ UNCHANGED <<pod, claimed, file, crashes, misread, pc, burning, phase, late>>

-----------------------------------------------------------------------------
(***************************************************************************)
(* The phases.  A phase ends by itself or because ctx is cancelled; main   *)
(* returns in the second case.                                             *)
(***************************************************************************)
Return ==
    /\ cancelled
    /\ ProcessEnds
    /\ UNCHANGED <<pod, claimed, file, crashes>>

\* Mutant: main does not look at ctx between two phases.
LookNot(at, next) ==
    /\ pc = at
    /\ pc' = next
    /\ UNCHANGED <<podVars, misread, burning, phase, cancelled, late>>

\* phaseDownload has ended: five fetches, each done, failed or timed out, or no
\* directory to put them in.  phaseDiskWrite has: all written, or an error.  Main
\* looks at ctx and goes on.
Look(at, next) ==
    /\ pc = at
    /\ ~cancelled
    /\ pc' = next
    /\ UNCHANGED <<podVars, misread, burning, phase, cancelled, late>>

\* The next phase shows itself.  ctx may have been cancelled since the look.
Begin(at, next) ==
    /\ pc = at
    /\ pc' = next
    /\ Shows(next)
    /\ UNCHANGED <<podVars, misread, burning, cancelled>>

DownloadEnds == Look("download", "toDisk")
DiskBegins == Begin("toDisk", "disk")
DiskEnds == Look("disk", "toLoad")
LoadBegins == Begin("toLoad", "load")

PhaseCancelled == pc \in {"download", "disk", "load"} /\ Return

\* Mutant: one core too many at the peak.
LoadRoundOneMore(n) ==
    /\ pc = "load"
    /\ ~cancelled
    /\ pc' = IF n = 0 THEN "hold" ELSE "burn"
    /\ burning' = IF n = 0 THEN {} ELSE 1..(n + 1)
    /\ UNCHANGED <<podVars, misread, phase, cancelled, late>>

\* One round of phaseLoadLoop: 30 s without load, or on n cores.
LoadRound(n) ==
    /\ pc = "load"
    /\ ~cancelled
    /\ pc' = IF n = 0 THEN "hold" ELSE "burn"
    /\ burning' = 1..n
    /\ UNCHANGED <<podVars, misread, phase, cancelled, late>>

HoldOver ==
    /\ pc = "hold"
    /\ pc' = "load"
    /\ UNCHANGED <<podVars, misread, burning, phase, cancelled, late>>

\* Mutant: time.Sleep instead of the select, ctx is seen after the 30 s only.
HoldSleeps == FALSE

HoldCancelled == pc = "hold" /\ Return

\* A worker is done with its windows at the deadline, or sees ctx after one.
WorkerEnds(i) ==
    /\ i \in burning
    /\ burning' = burning \ {i}
    /\ UNCHANGED <<podVars, misread, pc, phase, cancelled, late>>

\* wg.Wait returns.
BurnDone ==
    /\ pc = "burn"
    /\ burning = {}
    /\ pc' = "load"
    /\ UNCHANGED <<podVars, misread, burning, phase, cancelled, late>>

-----------------------------------------------------------------------------
SandboxInit ==
    /\ pod = "live"
    /\ claimed = FALSE
    /\ file \in {"pool", "bare", "none"}
    /\ misread = FALSE
    /\ sig = FALSE
    /\ crashes = 0
    /\ pc = "down"
    /\ burning = {}
    /\ phase = "none"
    /\ cancelled = FALSE
    /\ late = 0

\* Steps the session takes no notice of.
SandboxStep ==
    \/ Claim \/ RefreshFile \/ Terminate \/ PodGone \/ Start
    \/ PollDetached \/ PollFails \/ Arm \/ SignalCaught
    \/ DownloadEnds \/ DiskBegins \/ DiskEnds \/ LoadBegins
    \/ \E n \in 0..Cores : LoadRound(n)
    \/ HoldOver
    \/ \E i \in Workers : WorkerEnds(i)
    \/ BurnDone
=============================================================================

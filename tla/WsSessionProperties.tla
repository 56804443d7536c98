------------------------ MODULE WsSessionProperties ------------------------
(***************************************************************************)
(* What a sandbox and its session promise, and the fairness under which    *)
(* they keep it.                                                           *)
(***************************************************************************)
EXTENDS WsSession

(***************************************************************************)
(* Everything that runs is scheduled; the network gives up on a dead       *)
(* connection (TCP retransmission, keepalive); the server can be reached   *)
(* again and again.  No fairness for deaths, failures and deletions, for   *)
(* a failing poll, and none for what only time brings to an end: a         *)
(* download, a write, a hold of 30 s, a worker's deadline.                 *)
(***************************************************************************)
Fairness ==
    /\ WF_vars(RefreshFile /\ UNCHANGED wsVars)
    /\ WF_vars(PodGone /\ UNCHANGED wsVars)
    /\ WF_vars(Start /\ UNCHANGED wsVars)
    /\ WF_vars(PollDetached /\ UNCHANGED wsVars)
    /\ WF_vars(Arm /\ UNCHANGED wsVars)
    /\ WF_vars(SessionStart)
    /\ WF_vars(SignalCaught /\ UNCHANGED wsVars)
    /\ WF_vars((DiskBegins \/ LoadBegins) /\ UNCHANGED wsVars)
    /\ WF_vars(StopsItself)
    /\ WF_vars(BurnDone /\ UNCHANGED wsVars)
    /\ WF_vars(cancelled /\ (\E i \in Workers : WorkerEnds(i)) /\ UNCHANGED wsVars)
    /\ WF_vars(WsTop)
    /\ WF_vars(DialFails)
    /\ SF_vars(~cancelled /\ \E c \in Conns : Dial(c))
    /\ WF_vars(SelectCancelled)
    /\ WF_vars(SelectError)
    /\ WF_vars(PingFails)
    /\ WF_vars(WsLost)
    /\ WF_vars(BackoffOver)
    /\ \A c \in Conns : /\ WF_vars(ReadFails(c))
                        /\ WF_vars(ReaderReports(c))
                        /\ WF_vars(ServerEnds(c))

FairSpec == Spec /\ Fairness

-----------------------------------------------------------------------------
\* The type invariant.  The reader of a connection has nothing in its channel
\* before it reports, and what is down leaves nothing behind.
SandboxTypeOK ==
    /\ pod \in {"live", "dying", "gone"}
    /\ claimed \in BOOLEAN
    /\ file \in {"pool", "claimed", "bare", "none"}
    /\ misread \in BOOLEAN
    /\ sig \in BOOLEAN
    /\ crashes \in 0..MaxCrashes
    /\ pc \in {"down", "waiting", "detached", "armed", "download", "toDisk", "disk",
               "toLoad", "load", "hold", "burn"}
    /\ burning \subseteq Workers
    /\ phase \in {"none", "idle", "download", "disk", "load"}
    /\ cancelled \in BOOLEAN
    /\ late \in Nat

ConnTypeOK ==
    /\ ws \in {"off", "top", "dialing", "connected", "lost", "backoff", "ended"}
    /\ cur \in Conns \cup {NoConn}
    /\ wsShown \in BOOLEAN
    /\ client \in [Conns -> {"none", "open", "closed"}]
    /\ reader \in [Conns -> {"none", "reading", "failed"}]
    /\ errs \in [Conns -> 0..ErrCap]
    /\ server \in [Conns -> BOOLEAN]
    /\ cut \in [Conns -> BOOLEAN]
    /\ active \in Int
    /\ faults \in 0..MaxFaults

SessionTypeOK == SandboxTypeOK /\ ConnTypeOK

\* The workload of a pod does not start while the pod is in the pool, whatever
\* the kubelet's delay, restarts and lost signals: only a claim, a pod outside the
\* pool (local mode, no label) or a labels file that cannot be opened starts it
\* (waitForDetach, isDetached).
WorkOnlyWhenClaimed == Working => claimed \/ OutsidePool \/ misread

\* "Each claimed sandbox maintains exactly one WebSocket connection": the sandbox
\* never has a second one open, whatever ended the one before (wsConnect's
\* deferred Close).  The server may still hold one the client has given up.
OneConnection ==
    \A c \in Conns : client[c] = "open" => ws = "connected" /\ c = cur

\* The reader goroutine can always put its error into errCh, also when nobody
\* receives any more, so that it does not outlive its connection (ws.go).
ReaderNeverBlocks == \A c \in Conns : reader[c] # "none" => errs[c] < ErrCap

\* The status page shows a connection only while the loop holds one or has just
\* returned from it, and shows none before the next attempt (setWSConnected).
ShownIsHeld == wsShown => ws \in {"connected", "lost"}

\* The server's count of active connections is the number of its handlers,
\* however connections end: close frame, read error, failed pong, time limit.
ActiveCounts == active = Cardinality({c \in Conns : server[c]})

\* A SIGTERM stops the workload within a phase: whatever moment it comes at, in
\* the set-up or between main's look at ctx and the setPhase of the next phase, at
\* most one more phase is begun, and not the one after that (main's looks at
\* ctx.Err(), the phases' at ctx.Done()).
OnePhaseOnceCancelled == late <= 1

\* How the stages of main hang together: what each knows of the claim, that the
\* session runs beside the phases only, and that a process starts uncancelled.
\* With it the properties above are inductive.
Stages ==
    /\ file = "claimed" => claimed
    /\ pc \notin {"down", "waiting"} => claimed \/ OutsidePool \/ misread
    /\ Working => pc \notin {"down", "waiting", "detached", "armed"}
    /\ pc \in {"down", "waiting", "detached", "armed"} => ws = "off"
    /\ cancelled => pc # "down"

\* When a phase can still be begun that is late, none has been.
LateCounted ==
    /\ late \in {0, 1}
    /\ ~cancelled => late = 0
    /\ late = 1 => pc \notin {"down", "waiting", "detached", "armed", "toDisk", "toLoad"}

-----------------------------------------------------------------------------
\* A SIGTERM ends the process, without waiting for a download, a hold or a
\* deadline to be over and without the SIGKILL at the end of the grace period.
StopsPromptly == (sig \/ cancelled) ~> ~Up

\* A claim reaches the process: the workload starts unless the pod is deleted
\* first, also when the container is restarted in between.
ClaimStartsWork == claimed ~> (Working \/ pod # "live")

\* A session that lost its connection, or whose connection is dead, gets a live
\* one again as long as the process runs and is not told to stop.
SessionRecovers ==
    (ws \notin {"off", "ended"}) ~>
        (cancelled \/ ~Up \/ (ws = "connected" /\ ~Dead(cur)))

\* Once the sandbox has closed a connection, or is gone, nothing is left of it:
\* its reader goroutine returns, and the server's handler ends and counts down,
\* close frame or not.
NothingIsLeft == \A c \in Conns : client[c] = "closed" ~> Done(c)
=============================================================================

-------------------------- MODULE WsSessionProofs --------------------------
(***************************************************************************)
(* The safety of the sandbox and its session for any finite set of         *)
(* connections, any capacity of errCh, and any number of crashes, faults   *)
(* and cores.                                                              *)
(***************************************************************************)
EXTENDS WsSessionProperties, FiniteSetTheorems, TLAPS

\* The parts of the type invariant that are no flags, and the flags.
SandboxShape ==
    /\ pod \in {"live", "dying", "gone"}
    /\ file \in {"pool", "claimed", "bare", "none"}
    /\ crashes \in 0..MaxCrashes
    /\ pc \in {"down", "waiting", "detached", "armed", "download", "toDisk", "disk",
               "toLoad", "load", "hold", "burn"}
    /\ burning \subseteq Workers
    /\ phase \in {"none", "idle", "download", "disk", "load"}

ConnShape ==
    /\ ws \in {"off", "top", "dialing", "connected", "lost", "backoff", "ended"}
    /\ cur \in Conns \cup {NoConn}
    /\ client \in [Conns -> {"none", "open", "closed"}]
    /\ reader \in [Conns -> {"none", "reading", "failed"}]
    /\ errs \in [Conns -> 0..ErrCap]
    /\ server \in [Conns -> BOOLEAN]
    /\ cut \in [Conns -> BOOLEAN]
    /\ active \in Int
    /\ faults \in 0..MaxFaults

Flags ==
    /\ claimed \in BOOLEAN
    /\ misread \in BOOLEAN
    /\ sig \in BOOLEAN
    /\ cancelled \in BOOLEAN
    /\ wsShown \in BOOLEAN

\* Overwriting an element keeps the set a function is from, in its domain or not.
LEMMA ExceptKeepsShape ==
    ASSUME NEW S, NEW T, NEW f \in [S -> T], NEW x, NEW v \in T
    PROVE  [f EXCEPT ![x] = v] \in [S -> T]
  OBVIOUS

\* What ends with wsConnect, on whatever connection.
LEMMA HangUpShape ==
    ASSUME ConnShape, HangUp, errs' \in [Conns -> 0..ErrCap]
    PROVE  ConnShape'
<1>1. client' \in [Conns -> {"none", "open", "closed"}]
  <2>1. client \in [Conns -> {"none", "open", "closed"}]
    BY Zenon DEF ConnShape
  <2>2. client' = [client EXCEPT ![cur] = "closed"]
    BY Zenon DEF HangUp
  <2> QED
    BY <2>1, <2>2, ExceptKeepsShape, Zenon
<1>2. ws' = "lost" /\ cur' = NoConn /\ UNCHANGED <<reader, serverVars, netVars>>
  BY Zenon DEF HangUp
<1> QED
  BY <1>1, <1>2, SMTT(30) DEF ConnShape, serverVars, netVars

\* The sandbox's own steps, the session's and those of both.
LEMMA SandboxShapeHolds == Spec => []SandboxShape
<1>1. Init => SandboxShape
  BY CoresAssumption, CrashesAssumption, SMT DEF Init, SandboxInit, SandboxShape
<1>2. SandboxShape /\ [Next]_vars => SandboxShape'
  <2> SUFFICES ASSUME SandboxShape, [Next]_vars PROVE SandboxShape'
    OBVIOUS
  <2> USE CoresAssumption, CrashesAssumption
      DEF SandboxShape, Workers, podVars, mainVars, sandboxVars
  <2>1. CASE SandboxStep
    <3>1. CASE Claim
      BY <3>1, SMTT(30) DEF Claim
    <3>2. CASE RefreshFile
      BY <3>2, SMTT(30) DEF RefreshFile
    <3>3. CASE Terminate
      BY <3>3, SMTT(30) DEF Terminate
    <3>4. CASE PodGone
      BY <3>4, SMTT(30) DEF PodGone
    <3>5. CASE Start
      BY <3>5, SMTT(30) DEF Start
    <3>6. CASE PollDetached
      BY <3>6, SMTT(30) DEF PollDetached
    <3>7. CASE PollFails
      BY <3>7, SMTT(30) DEF PollFails
    <3>8. CASE Arm
      BY <3>8, SMTT(30) DEF Arm
    <3>9. CASE SignalCaught
      BY <3>9, SMTT(30) DEF SignalCaught
    <3>10. CASE DownloadEnds
      BY <3>10, SMTT(30) DEF DownloadEnds, Look
    <3>11. CASE DiskEnds
      BY <3>11, SMTT(30) DEF DiskEnds, Look
    <3>9a. CASE DiskBegins
      BY <3>9a, SMTT(30) DEF DiskBegins, Begin, Shows
    <3>9b. CASE LoadBegins
      BY <3>9b, SMTT(30) DEF LoadBegins, Begin, Shows
    <3>12. CASE HoldOver
      BY <3>12, SMTT(30) DEF HoldOver
    <3>13. CASE BurnDone
      BY <3>13, SMTT(30) DEF BurnDone
    <3>14. ASSUME NEW n \in 0..Cores, LoadRound(n) PROVE SandboxShape'
      BY <3>14, SMTT(30) DEF LoadRound
    <3>15. ASSUME NEW i \in Workers, WorkerEnds(i) PROVE SandboxShape'
      BY <3>15, SMTT(30) DEF WorkerEnds
    <3> QED
      BY <2>1, <3>1, <3>2, <3>3, <3>4, <3>5, <3>6, <3>7, <3>8,
         <3>9, <3>10, <3>11, <3>12, <3>13, <3>14, <3>15, <3>9a, <3>9b DEF SandboxStep
  <2>2. CASE SessionStart
    BY <2>2, SMTT(30) DEF SessionStart, Setup, Shows
  <2>3. CASE StopsItself
    BY <2>3, SMTT(30)
    DEF StopsItself, SignalDefault, PhaseCancelled, HoldCancelled, Return, ProcessEnds
  <2>4. CASE Killed
    BY <2>4, SMTT(30) DEF Killed, ProcessEnds
  <2>5. CASE UNCHANGED sandboxVars
    BY <2>5, SMTT(30)
  <2>6. ASSUME LoopStep \/ (\E c \in Conns : ConnStep(c)) \/ ServerRestart \/ UNCHANGED vars
        PROVE UNCHANGED sandboxVars
    BY <2>6, ZenonT(30)
    DEF LoopStep, WsTop, DialFails, WsLost, BackoffOver, SelectCancelled, SelectError,
        PingFails, HangUp, ConnStep, Dial, DialHalf, ReadFails, ReaderReports,
        ServerEnds, ServerTimeout, Cut, ServerRestart, vars
  <2> QED
    BY <2>1, <2>2, <2>3, <2>4, <2>5, <2>6 DEF Next
<1> QED
  BY <1>1, <1>2, PTL DEF Spec

LEMMA ConnShapeHolds == Spec => []ConnShape
<1>1. Init => ConnShape
  BY ErrCapAssumption, FaultsAssumption, SMT DEF Init, ConnShape
<1>2. ConnShape /\ [Next]_vars => ConnShape'
  <2> SUFFICES ASSUME ConnShape, [Next]_vars PROVE ConnShape'
    OBVIOUS
  <2> USE ErrCapAssumption, FaultsAssumption
      DEF ConnShape, loopVars, connVars, serverVars, netVars, wsVars
  <2>1. CASE UNCHANGED wsVars
    BY <2>1, SMTT(30)
  <2>2. CASE SessionStart
    BY <2>2, SMTT(30) DEF SessionStart
  <2>3. CASE SessionDies
    BY <2>3, SMTT(30) DEF SessionDies
  <2>4. CASE LoopStep
    <3>1. CASE WsTop
      BY <3>1, SMTT(30) DEF WsTop
    <3>2. CASE DialFails
      BY <3>2, SMTT(30) DEF DialFails
    <3>3. CASE WsLost
      BY <3>3, SMTT(30) DEF WsLost
    <3>4. CASE BackoffOver
      BY <3>4, SMTT(30) DEF BackoffOver
    <3>5. CASE SelectCancelled
      <4>1. HangUp /\ UNCHANGED errs
        BY <3>5, Zenon DEF SelectCancelled
      <4> QED
        BY <4>1, HangUpShape, Zenon DEF ConnShape
    <3>6. CASE PingFails
      <4>1. HangUp /\ UNCHANGED errs
        BY <3>6, Zenon DEF PingFails
      <4> QED
        BY <4>1, HangUpShape, Zenon DEF ConnShape
    <3>7. CASE SelectError
      <4>1. HangUp /\ errs[cur] > 0 /\ errs' = [errs EXCEPT ![cur] = errs[cur] - 1]
        BY <3>7, Zenon DEF SelectError
      <4>2. errs \in [Conns -> 0..ErrCap]
        BY Zenon DEF ConnShape
      <4>3. CASE cur \in Conns
        <5>1. errs[cur] - 1 \in 0..ErrCap
          BY <4>1, <4>2, <4>3, SMT
        <5>2. errs' \in [Conns -> 0..ErrCap]
          BY <4>1, <4>2, <5>1, ExceptKeepsShape, Zenon
        <5> QED
          BY <4>1, <5>2, HangUpShape, Zenon
      <4>4. CASE cur \notin Conns
        <5>1. errs' = errs
          BY <4>1, <4>2, <4>4, SMT
        <5> QED
          BY <4>1, <4>2, <5>1, HangUpShape, Zenon
      <4> QED
        BY <4>3, <4>4
    <3> QED
      BY <2>4, <3>1, <3>2, <3>3, <3>4, <3>5, <3>6, <3>7 DEF LoopStep
  <2>5. ASSUME NEW c \in Conns, ConnStep(c) PROVE ConnShape'
    <3>1. CASE Dial(c)
      BY <3>1, SMTT(30) DEF Dial
    <3>2. CASE DialHalf(c)
      BY <3>2, SMTT(30) DEF DialHalf
    <3>3. CASE ReadFails(c)
      BY <3>3, SMTT(30) DEF ReadFails
    <3>4. CASE ReaderReports(c)
      BY <3>4, SMTT(30) DEF ReaderReports
    <3>5. CASE ServerEnds(c)
      BY <3>5, SMTT(30) DEF ServerEnds
    <3>6. CASE ServerTimeout(c)
      BY <3>6, SMTT(30) DEF ServerTimeout
    <3>7. CASE Cut(c)
      BY <3>7, SMTT(30) DEF Cut
    <3> QED
      BY <2>5, <3>1, <3>2, <3>3, <3>4, <3>5, <3>6, <3>7 DEF ConnStep
  <2>6. CASE ServerRestart
    BY <2>6, SMTT(30) DEF ServerRestart
  <2> QED
    BY <2>1, <2>2, <2>3, <2>4, <2>5, <2>6 DEF Next, StopsItself, vars
<1> QED
  BY <1>1, <1>2, PTL DEF Spec

LEMMA FlagsHold == Spec => []Flags
<1>1. Init => Flags
  BY Zenon DEF Init, SandboxInit, Flags
<1>2. Flags /\ [Next]_vars => Flags'
  <2> SUFFICES ASSUME Flags, [Next]_vars PROVE Flags'
    OBVIOUS
  <2> USE DEF Flags, podVars, mainVars, sandboxVars, loopVars, wsVars
  <2>1. CASE SandboxStep /\ UNCHANGED wsVars
    BY <2>1, ZenonT(30)
    DEF SandboxStep, Claim, RefreshFile, Terminate, PodGone, Start, PollDetached,
        PollFails, Arm, SignalCaught, DownloadEnds, DiskBegins, DiskEnds, LoadBegins,
        Look, Begin, LoadRound, HoldOver, WorkerEnds, BurnDone, Up
  <2>2. CASE SessionStart
    BY <2>2, Zenon DEF SessionStart, Setup
  <2>3. CASE StopsItself \/ (Killed /\ SessionDies)
    BY <2>3, Zenon
    DEF StopsItself, SignalDefault, PhaseCancelled, HoldCancelled, Return, Killed,
        ProcessEnds, SessionDies
  <2>4. CASE LoopStep
    BY <2>4, ZenonT(30)
    DEF LoopStep, WsTop, DialFails, WsLost, BackoffOver, SelectCancelled, SelectError,
        PingFails, HangUp
  <2>5. ASSUME NEW c \in Conns, ConnStep(c) PROVE Flags'
    BY <2>5, ZenonT(30)
    DEF ConnStep, Dial, DialHalf, ReadFails, ReaderReports, ServerEnds, ServerTimeout, Cut
  <2>6. CASE ServerRestart \/ UNCHANGED vars
    BY <2>6, Zenon DEF ServerRestart, vars
  <2> QED
    BY <2>1, <2>2, <2>3, <2>4, <2>5, <2>6 DEF Next
<1> QED
  BY <1>1, <1>2, PTL DEF Spec

-----------------------------------------------------------------------------
\* The stages of main hang together, whatever the kubelet and the session do.
LEMMA StagesHold == Spec => []Stages
<1>1. Init => Stages
  BY Zenon DEF Init, SandboxInit, Stages, Working, OutsidePool
<1>2. SandboxShape /\ Stages /\ [Next]_vars => Stages'
  <2> SUFFICES ASSUME SandboxShape, Stages, [Next]_vars PROVE Stages'
    OBVIOUS
  <2>0. file \in {"pool", "claimed", "bare", "none"}
    BY Zenon DEF SandboxShape
  <2> USE DEF Stages, Working, OutsidePool, podVars, mainVars, sandboxVars, loopVars, connVars,
              serverVars, netVars, wsVars
  <2>1. CASE SandboxStep /\ UNCHANGED wsVars
    <3>1. CASE Claim \/ RefreshFile \/ Terminate \/ PodGone
      BY <2>1, <3>1, SMTT(30) DEF Claim, RefreshFile, Terminate, PodGone
    <3>2. CASE Start \/ PollDetached \/ Arm \/ SignalCaught
      BY <2>0, <2>1, <3>2, SMTT(30)
      DEF Start, PollDetached, FileDetached, Arm, SignalCaught, Up, Armed
    <3>6. CASE PollFails
      <4>1. CASE file = "pool"
        BY <2>1, <3>6, <4>1, Zenon DEF PollFails
      <4>2. CASE file # "pool"
        BY <2>0, <2>1, <3>6, <4>2, Zenon DEF PollFails
      <4> QED
        BY <4>1, <4>2
    <3>3. CASE DownloadEnds \/ DiskBegins \/ DiskEnds \/ LoadBegins \/ HoldOver \/ BurnDone
      BY <2>1, <3>3, SMTT(30)
      DEF DownloadEnds, DiskBegins, DiskEnds, LoadBegins, Look, Begin, Shows, HoldOver,
          BurnDone
    <3>4. ASSUME NEW n \in 0..Cores, LoadRound(n) PROVE Stages'
      BY <2>1, <3>4, SMTT(30) DEF LoadRound
    <3>5. ASSUME NEW i \in Workers, WorkerEnds(i) PROVE Stages'
      BY <2>1, <3>5, SMTT(30) DEF WorkerEnds
    <3> QED
      BY <2>1, <3>1, <3>2, <3>3, <3>4, <3>5, <3>6, Zenon DEF SandboxStep
  <2>2. CASE SessionStart
    BY <2>2, ZenonT(30) DEF SessionStart, Setup, Shows
  <2>3. CASE StopsItself \/ (Killed /\ SessionDies)
    <3>1. ProcessEnds /\ UNCHANGED <<claimed, file>> /\ ws' = "off"
      BY <2>3, Zenon
      DEF StopsItself, SignalDefault, PhaseCancelled, HoldCancelled, Return, Killed,
          SessionDies
    <3> QED
      BY <3>1, Zenon DEF ProcessEnds
  <2>4. CASE LoopStep
    <3>1. UNCHANGED sandboxVars /\ ws # "off"
      BY <2>4, Zenon
      DEF LoopStep, WsTop, DialFails, WsLost, BackoffOver, SelectCancelled, SelectError,
          PingFails, HangUp
    <3> QED
      BY <3>1, Zenon
  <2>5. ASSUME NEW c \in Conns, ConnStep(c) PROVE Stages'
    BY <2>5, SMTT(30)
    DEF ConnStep, Dial, DialHalf, ReadFails, ReaderReports, ServerEnds, ServerTimeout, Cut
  <2>6. CASE ServerRestart \/ UNCHANGED vars
    BY <2>6, SMTT(30) DEF ServerRestart, vars
  <2> QED
    BY <2>1, <2>2, <2>3, <2>4, <2>5, <2>6 DEF Next
<1> QED
  BY <1>1, <1>2, SandboxShapeHolds, PTL DEF Spec

\* The workload does not start in the pool (sandbox/main.go:368-426).
THEOREM WorkOnlyWhenClaimedAlways == Spec => []WorkOnlyWhenClaimed
<1>1. Stages => WorkOnlyWhenClaimed
  BY Zenon DEF Stages, WorkOnlyWhenClaimed
<1> QED
  BY <1>1, StagesHold, PTL

\* A phase is begun late once at most: after it comes a look at ctx.
LEMMA LateCountedHolds == Spec => []LateCounted
<1>1. Init => LateCounted
  BY SMT DEF Init, SandboxInit, LateCounted
<1>2. LateCounted /\ [Next]_vars => LateCounted'
  <2> SUFFICES ASSUME LateCounted, [Next]_vars PROVE LateCounted'
    OBVIOUS
  <2>0. /\ late = 0 \/ late = 1
        /\ ~cancelled => late = 0
        /\ late = 1 => pc \notin {"down", "waiting", "detached", "armed", "toDisk", "toLoad"}
    BY DEF LateCounted
  <2> USE DEF podVars, mainVars, sandboxVars
  <2>1. CASE UNCHANGED <<pc, cancelled, late>>
    BY <2>0, <2>1, Zenon DEF LateCounted
  \* What waits for a phase to end, and what main does before there is one.
  <2>2. ASSUME \/ late = 0 /\ late' = 0
               \/ /\ UNCHANGED <<cancelled, late>>
                  /\ pc' \in {"load", "hold", "burn"}
        PROVE  LateCounted'
    BY <2>0, <2>2, SMTT(30) DEF LateCounted
  \* A phase begins.
  <2>3. ASSUME pc \in {"armed", "toDisk", "toLoad"}, UNCHANGED cancelled,
               pc' \in {"download", "disk", "load"}, NEW p, Shows(p)
        PROVE  LateCounted'
    <3>1. late = 0
      BY <2>0, <2>3
    <3>2. CASE cancelled
      BY <2>3, <3>1, <3>2 DEF Shows, LateCounted
    <3>3. CASE ~cancelled
      BY <2>3, <3>1, <3>3 DEF Shows, LateCounted
    <3> QED
      BY <3>2, <3>3
  <2>4. CASE SandboxStep
    <3>1. CASE Claim \/ RefreshFile \/ Terminate \/ PodGone \/ \E i \in Workers : WorkerEnds(i)
      BY <2>1, <3>1, Zenon DEF Claim, RefreshFile, Terminate, PodGone, WorkerEnds
    <3>2. CASE Start \/ PollDetached \/ PollFails \/ Arm
      <4>1. pc \in {"down", "waiting", "detached"} /\ UNCHANGED late
        BY <3>2, Zenon DEF Start, PollDetached, PollFails, Arm, Up
      <4> QED
        BY <2>0, <2>2, <4>1
    <3>3. CASE DownloadEnds \/ DiskEnds \/ \E n \in 0..Cores : LoadRound(n)
      <4>1. ~cancelled /\ UNCHANGED late
        BY <3>3, Zenon DEF DownloadEnds, DiskEnds, Look, LoadRound
      <4> QED
        BY <2>0, <2>2, <4>1
    <3>4. CASE DiskBegins \/ LoadBegins
      BY <2>3, <3>4, Zenon DEF DiskBegins, LoadBegins, Begin
    <3>5. CASE HoldOver \/ BurnDone
      BY <2>2, <3>5, Zenon DEF HoldOver, BurnDone
    <3>6. CASE SignalCaught
      BY <2>0, <3>6, SMTT(30) DEF SignalCaught, LateCounted
    <3> QED
      BY <2>4, <3>1, <3>2, <3>3, <3>4, <3>5, <3>6, Zenon DEF SandboxStep
  <2>5. CASE SessionStart
    BY <2>3, <2>5, Zenon DEF SessionStart, Setup
  <2>6. CASE StopsItself \/ Killed
    <3>1. ProcessEnds
      BY <2>6, Zenon
      DEF StopsItself, SignalDefault, PhaseCancelled, HoldCancelled, Return, Killed
    <3> QED
      BY <3>1, SMTT(30) DEF ProcessEnds, LateCounted
  <2>7. ASSUME LoopStep \/ (\E c \in Conns : ConnStep(c)) \/ ServerRestart \/ UNCHANGED vars
        PROVE  UNCHANGED <<pc, cancelled, late>>
    BY <2>7, ZenonT(30)
    DEF LoopStep, WsTop, DialFails, WsLost, BackoffOver, SelectCancelled, SelectError,
        PingFails, HangUp, ConnStep, Dial, DialHalf, ReadFails, ReaderReports,
        ServerEnds, ServerTimeout, Cut, ServerRestart, vars
  <2> QED
    BY <2>1, <2>4, <2>5, <2>6, <2>7 DEF Next
<1> QED
  BY <1>1, <1>2, PTL DEF Spec

\* A SIGTERM lets at most one more phase begin, whatever moment it comes at
\* (sandbox/main.go:464-516): between a look at ctx and the next one main begins
\* one phase, and a process starts uncancelled.
THEOREM OnePhaseOnceCancelledAlways == Spec => []OnePhaseOnceCancelled
<1>1. LateCounted => OnePhaseOnceCancelled
  BY SMT DEF LateCounted, OnePhaseOnceCancelled
<1> QED
  BY <1>1, LateCountedHolds, PTL

\* Every variable of the sandbox, its session and the server keeps its shape; no
\* channel holds more errors than its capacity.
THEOREM SessionTypeCorrect == Spec => []SessionTypeOK
<1>1. SandboxShape /\ ConnShape /\ Flags /\ late \in Nat => SessionTypeOK
  BY Zenon
  DEF SandboxShape, ConnShape, Flags, SessionTypeOK, SandboxTypeOK, ConnTypeOK
<1>2. LateCounted => late \in Nat
  BY SMT DEF LateCounted
<1> QED
  BY <1>1, <1>2, SandboxShapeHolds, ConnShapeHolds, FlagsHold, LateCountedHolds, PTL

-----------------------------------------------------------------------------
\* The sandbox never has two connections open (ws.go:127-245): a connection is
\* made in "dialing" only, when none is open, and every way out of "connected"
\* closes the one that was.
THEOREM OneConnectionAlways == Spec => []OneConnection
<1>1. Init => OneConnection
  BY SMT DEF Init, OneConnection
<1>2. ConnShape /\ Stages /\ OneConnection /\ [Next]_vars => OneConnection'
  <2> SUFFICES ASSUME ConnShape, Stages, OneConnection, [Next]_vars, NEW k \in Conns,
                      client'[k] = "open"
               PROVE  ws' = "connected" /\ k = cur'
    BY Zenon DEF OneConnection
  <2>1. client \in [Conns -> {"none", "open", "closed"}]
    BY Zenon DEF ConnShape
  <2>2. client[k] = "open" => ws = "connected" /\ k = cur
    BY Zenon DEF OneConnection
  <2> USE DEF loopVars, connVars, wsVars
  <2>3. CASE UNCHANGED wsVars
    BY <2>2, <2>3, Zenon
  <2>4. CASE SessionStart
    <3>1. ws = "off"
      BY <2>4, Zenon DEF SessionStart, Setup, Stages
    <3> QED
      BY <2>2, <2>4, <3>1, Zenon DEF SessionStart
  <2>5. CASE SessionDies
    <3>1. client' = [c \in Conns |-> IF client[c] = "open" THEN "closed" ELSE client[c]]
      BY <2>5, Zenon DEF SessionDies
    <3> QED
      BY <3>1, SMT
  <2>6. CASE WsTop \/ DialFails \/ WsLost \/ BackoffOver
    BY <2>2, <2>6, Zenon DEF WsTop, DialFails, WsLost, BackoffOver
  <2>7. CASE SelectCancelled \/ SelectError \/ PingFails
    <3>1. client' = [client EXCEPT ![cur] = "closed"]
      BY <2>7, Zenon DEF SelectCancelled, SelectError, PingFails, HangUp
    <3> QED
      BY <2>1, <2>2, <3>1, SMT
  <2>8. ASSUME NEW c \in Conns, Dial(c) PROVE ws' = "connected" /\ k = cur'
    <3>1. /\ client' = [client EXCEPT ![c] = "open"]
          /\ ws = "dialing" /\ ws' = "connected" /\ cur' = c
      BY <2>8, Zenon DEF Dial
    <3> QED
      BY <2>1, <2>2, <3>1, SMT
  <2>9. ASSUME NEW c \in Conns, DialHalf(c) PROVE FALSE
    <3>1. client' = [client EXCEPT ![c] = "closed"] /\ ws = "dialing"
      BY <2>9, Zenon DEF DialHalf
    <3> QED
      BY <2>1, <2>2, <3>1, SMT
  <2>10. ASSUME NEW c \in Conns, \/ ReadFails(c) \/ ReaderReports(c) \/ ServerEnds(c)
                                 \/ ServerTimeout(c) \/ Cut(c)
         PROVE  ws' = "connected" /\ k = cur'
    BY <2>2, <2>10, Zenon DEF ReadFails, ReaderReports, ServerEnds, ServerTimeout, Cut
  <2>11. CASE ServerRestart
    BY <2>2, <2>11, Zenon DEF ServerRestart
  <2> QED
    BY <2>3, <2>4, <2>5, <2>6, <2>7, <2>8, <2>9, <2>10, <2>11
    DEF Next, StopsItself, LoopStep, ConnStep, vars
<1> QED
  BY <1>1, <1>2, ConnShapeHolds, StagesHold, PTL DEF Spec

\* A connection's reader can always report (ws.go): its channel belongs to it
\* alone, so that nothing is in it before the one error it puts there.
THEOREM ReaderNeverBlocksAlways == Spec => []ReaderNeverBlocks
<1>1. Init => ReaderNeverBlocks
  BY SMT DEF Init, ReaderNeverBlocks
<1>2. ConnShape /\ ReaderNeverBlocks /\ [Next]_vars => ReaderNeverBlocks'
  <2> SUFFICES ASSUME ConnShape, ReaderNeverBlocks, [Next]_vars, NEW k \in Conns,
                      reader'[k] # "none"
               PROVE  errs'[k] < ErrCap
    BY Zenon DEF ReaderNeverBlocks
  <2>1. /\ reader \in [Conns -> {"none", "reading", "failed"}]
        /\ errs \in [Conns -> 0..ErrCap]
    BY Zenon DEF ConnShape
  <2>2. reader[k] # "none" => errs[k] < ErrCap
    BY Zenon DEF ReaderNeverBlocks
  <2> USE ErrCapAssumption DEF connVars, wsVars
  <2>3. CASE UNCHANGED <<reader, errs>>
    BY <2>2, <2>3, Zenon
  <2>4. CASE SessionDies
    <3>1. reader' = [c \in Conns |-> "none"]
      BY <2>4, Zenon DEF SessionDies
    <3> QED
      BY <3>1, SMT
  <2>5. ASSUME NEW c \in Conns, Dial(c) PROVE errs'[k] < ErrCap
    <3>1. /\ reader' = [reader EXCEPT ![c] = "reading"]
          /\ errs' = [errs EXCEPT ![c] = 0]
      BY <2>5, Zenon DEF Dial
    <3> QED
      BY <2>1, <2>2, <3>1, SMT
  <2>6. ASSUME NEW c \in Conns, ReadFails(c) PROVE errs'[k] < ErrCap
    <3>1. reader[c] = "reading" /\ errs' = errs /\ reader' = [reader EXCEPT ![c] = "failed"]
      BY <2>6, Zenon DEF ReadFails
    <3> QED
      BY <2>1, <2>2, <3>1, SMT
  <2>7. ASSUME NEW c \in Conns, ReaderReports(c) PROVE errs'[k] < ErrCap
    <3>1. /\ reader' = [reader EXCEPT ![c] = "none"]
          /\ errs' = [errs EXCEPT ![c] = errs[c] + 1]
      BY <2>7, Zenon DEF ReaderReports
    <3> QED
      BY <2>1, <2>2, <3>1, SMT
  <2>8. CASE SelectError
    <3>1. reader' = reader /\ errs' = [errs EXCEPT ![cur] = errs[cur] - 1]
      BY <2>8, Zenon DEF SelectError, HangUp
    <3> QED
      BY <2>1, <2>2, <3>1, SMT
  <2>9. ASSUME \/ SessionStart \/ WsTop \/ DialFails \/ WsLost \/ BackoffOver
               \/ SelectCancelled \/ PingFails \/ ServerRestart
               \/ \E c \in Conns : DialHalf(c) \/ ServerEnds(c) \/ ServerTimeout(c) \/ Cut(c)
        PROVE  UNCHANGED <<reader, errs>>
    BY <2>9, ZenonT(30)
    DEF SessionStart, WsTop, DialFails, WsLost, BackoffOver, SelectCancelled, PingFails,
        HangUp, ServerRestart, DialHalf, ServerEnds, ServerTimeout, Cut
  <2> QED
    BY <2>3, <2>4, <2>5, <2>6, <2>7, <2>8, <2>9
    DEF Next, StopsItself, LoopStep, ConnStep, vars
<1> QED
  BY <1>1, <1>2, ConnShapeHolds, PTL DEF Spec

\* The status page never shows a connection the loop has none of (ws.go:26-95).
THEOREM ShownIsHeldAlways == Spec => []ShownIsHeld
<1>1. Init => ShownIsHeld
  BY Zenon DEF Init, ShownIsHeld
<1>2. Stages /\ ShownIsHeld /\ [Next]_vars => ShownIsHeld'
  <2> SUFFICES ASSUME Stages, ShownIsHeld, [Next]_vars PROVE ShownIsHeld'
    OBVIOUS
  <2> USE DEF ShownIsHeld, loopVars, wsVars
  <2>1. CASE UNCHANGED loopVars \/ SessionDies
    BY <2>1, Zenon DEF SessionDies
  <2>2. CASE SessionStart
    BY <2>2, Zenon DEF SessionStart, Setup, Stages
  <2>3. CASE LoopStep
    BY <2>3, ZenonT(30)
    DEF LoopStep, WsTop, DialFails, WsLost, BackoffOver, SelectCancelled, SelectError,
        PingFails, HangUp
  <2>4. ASSUME NEW c \in Conns, ConnStep(c) PROVE ShownIsHeld'
    BY <2>4, ZenonT(30)
    DEF ConnStep, Dial, DialHalf, ReadFails, ReaderReports, ServerEnds, ServerTimeout, Cut
  <2>5. CASE ServerRestart
    BY <2>5, Zenon DEF ServerRestart
  <2> QED
    BY <2>1, <2>2, <2>3, <2>4, <2>5 DEF Next, StopsItself, vars
<1> QED
  BY <1>1, <1>2, StagesHold, PTL DEF Spec

-----------------------------------------------------------------------------
Served == {c \in Conns : server[c]}

\* The server's count is that of its handlers (ws-server/main.go:40-78): each
\* counts itself once on its way in and once on its way out.
THEOREM ActiveCountsAlways == Spec => []ActiveCounts
<1> USE DEF Served
<1>1. Init => ActiveCounts
  <2> SUFFICES ASSUME Init PROVE ActiveCounts
    OBVIOUS
  <2>1. Served = {} /\ active = 0
    BY SMT DEF Init
  <2> QED
    BY <2>1, FS_EmptySet DEF ActiveCounts
<1>2. ConnShape /\ ActiveCounts /\ [Next]_vars => ActiveCounts'
  <2> SUFFICES ASSUME ConnShape, ActiveCounts, [Next]_vars PROVE ActiveCounts'
    OBVIOUS
  <2>1. IsFiniteSet(Served) /\ Cardinality(Served) \in Nat /\ active = Cardinality(Served)
    <3>1. Served \in SUBSET Conns
      BY Zenon
    <3> QED
      BY <3>1, ConnsAssumption, FS_Subset, FS_CardinalityType DEF ActiveCounts
  <2>2. server \in [Conns -> BOOLEAN]
    BY Zenon DEF ConnShape
  <2> USE DEF serverVars, wsVars
  <2>3. CASE UNCHANGED serverVars
    BY <2>3 DEF ActiveCounts
  <2>4. ASSUME NEW c \in Conns, ~server[c], server' = [server EXCEPT ![c] = TRUE],
               active' = active + 1
        PROVE  ActiveCounts'
    <3>1. Served' = Served \cup {c} /\ c \notin Served
      BY <2>2, <2>4
    <3> QED
      BY <2>1, <2>4, <3>1, FS_AddElement DEF ActiveCounts
  <2>5. ASSUME NEW c \in Conns, server[c], server' = [server EXCEPT ![c] = FALSE],
               active' = active - 1
        PROVE  ActiveCounts'
    <3>1. Served' = Served \ {c} /\ c \in Served
      BY <2>2, <2>5
    <3> QED
      BY <2>1, <2>5, <3>1, FS_RemoveElement DEF ActiveCounts
  <2>6. CASE ServerRestart
    <3>1. Served' = {} /\ active' = 0
      BY <2>6, SMT DEF ServerRestart
    <3> QED
      BY <3>1, FS_EmptySet DEF ActiveCounts
  <2>7. ASSUME NEW c \in Conns, Dial(c) \/ DialHalf(c) PROVE ActiveCounts'
    BY <2>4, <2>7, Zenon DEF Dial, DialHalf, Done
  <2>8. ASSUME NEW c \in Conns, ServerEnds(c) \/ ServerTimeout(c) PROVE ActiveCounts'
    BY <2>5, <2>8, Zenon DEF ServerEnds, ServerTimeout
  <2>9. ASSUME \/ SessionStart \/ SessionDies \/ LoopStep
               \/ \E c \in Conns : ReadFails(c) \/ ReaderReports(c) \/ Cut(c)
        PROVE  UNCHANGED serverVars
    BY <2>9, ZenonT(30)
    DEF SessionStart, SessionDies, LoopStep, WsTop, DialFails, WsLost, BackoffOver,
        SelectCancelled, SelectError, PingFails, HangUp, ReadFails, ReaderReports, Cut
  <2> QED
    BY <2>3, <2>6, <2>7, <2>8, <2>9 DEF Next, StopsItself, ConnStep, vars
<1> QED
  BY <1>1, <1>2, ConnShapeHolds, PTL DEF Spec
=============================================================================

--------------------------- MODULE MetricsProofs ---------------------------
(***************************************************************************)
(* The histograms beside the pool, for any sets of pods, requests, admins  *)
(* and resetting clients and any number of resets: they change nothing of  *)
(* the pool, and what a reset may do to the registry is bounded.           *)
(***************************************************************************)
EXTENDS Metrics, WarmPoolProofs

\* A step of the pool with its metrics is a step of the pool, or none.
LEMMA StepOfThePool == [MetricsNext]_allVars => [Next]_vars
<1> SUFFICES ASSUME [MetricsNext]_allVars PROVE [Next]_vars
  OBVIOUS
<1>1. ASSUME NEW r \in Requests, ClaimFlag(r) \/ PutBackFlag(r) PROVE Next
  BY <1>1, Zenon DEF ClaimFlag, PutBackFlag, ProvisionStep, Next
<1>2. ASSUME NEW p \in Pods, MergeFlag(p) \/ UpsertFlag(p) PROVE Next
  BY <1>2, Zenon DEF MergeFlag, UpsertFlag, SyncStep, Next
<1>3. CASE QuietStep
  BY <1>3, ZenonT(30) DEF QuietStep, ProvisionStep, SyncStep, Next
<1>4. CASE RestartMetrics
  BY <1>4, Zenon DEF RestartMetrics, Next
<1>5. ASSUME NEW x \in Resetters, ResetStep(x) PROVE UNCHANGED vars
  BY <1>5, Zenon
  DEF ResetStep, ResetStart, Unregister, Register, RegisterPanics, Assign, ClearFlags
<1>6. CASE UNCHANGED allVars
  BY <1>6, Zenon DEF allVars
<1> QED
  BY <1>1, <1>2, <1>3, <1>4, <1>5, <1>6 DEF MetricsNext

\* Measuring and resetting leave the pool to itself: every behaviour with them is
\* one of WarmPool's, which all theorems about WarmPool hold of.
THEOREM MetricsLeaveThePool == MetricsSpec => Spec
<1>1. MetricsInit => Init
  BY Zenon DEF MetricsInit
<1> QED
  BY <1>1, StepOfThePool, PTL DEF MetricsSpec, Spec

-----------------------------------------------------------------------------
\* Steps that are none of a resetting client leave the registry alone.
LEMMA OthersKeepRegistry ==
    ASSUME \/ \E r \in Requests : ClaimFlag(r) \/ PutBackFlag(r)
           \/ \E p \in Pods : MergeFlag(p) \/ UpsertFlag(p)
           \/ QuietStep
           \/ UNCHANGED allVars
    PROVE  UNCHANGED registryVars
  BY Zenon DEF ClaimFlag, PutBackFlag, MergeFlag, UpsertFlag, QuietStep, allVars, metricsVars

\* The shapes of the registry's variables, and the numbering of instances.
RegistryShape ==
    /\ made \in [Histograms -> Nat]
    /\ hist \in [Histograms -> Nat]
    /\ shown \in [Histograms -> Nat]
    /\ reset \in [Resetters -> [pc : {"idle", "unregister", "register", "assign", "flags",
                                     "answered", "panicked"},
                               name : Histograms, mine : Nat, n : 0..MaxResets]]

Numbered ==
    /\ \A h \in Histograms : 1 <= hist[h] /\ hist[h] <= made[h] /\ shown[h] <= made[h]
    /\ \A x \in Resetters :
          /\ reset[x].mine <= made[reset[x].name]
          /\ reset[x].pc = "assign" => reset[x].mine # 0

LEMMA RegistryHolds == MetricsSpec => [](RegistryShape /\ Numbered)
<1> USE MaxResetsAssumption DEF RegistryShape, Numbered, Histograms, NoHist, NoReset, ResetAt,
        registryVars
<1>1. MetricsInit => RegistryShape /\ Numbered
  <2> SUFFICES ASSUME MetricsInit PROVE RegistryShape /\ Numbered
    OBVIOUS
  <2>1. /\ hist = FirstInstances /\ shown = FirstInstances /\ made = FirstInstances
        /\ reset = [x \in Resetters |-> NoReset]
    BY Zenon DEF MetricsInit
  <2> QED
    BY <2>1, SMTT(30) DEF FirstInstances
<1>2. RegistryShape /\ Numbered /\ [MetricsNext]_allVars => (RegistryShape /\ Numbered)'
  <2> SUFFICES ASSUME RegistryShape, Numbered, [MetricsNext]_allVars
               PROVE (RegistryShape /\ Numbered)'
    OBVIOUS
  <2>1. CASE UNCHANGED registryVars
    BY <2>1, SMTT(30)
  <2>2. CASE RestartMetrics
    <3>1. /\ hist' = FirstInstances /\ shown' = FirstInstances /\ made' = FirstInstances
          /\ reset' = [x \in Resetters |-> ResetAt("idle", "schedule", NoHist, reset[x].n)]
      BY <2>2, Zenon DEF RestartMetrics
    <3> QED
      BY <3>1, SMTT(30) DEF FirstInstances
  <2>3. ASSUME NEW x \in Resetters, ResetStep(x) PROVE (RegistryShape /\ Numbered)'
    <3>1. CASE ResetStart(x)
      <4>1. /\ reset' = [reset EXCEPT ![x] =
                           ResetAt("unregister", "schedule", NoHist, reset[x].n + 1)]
            /\ reset[x].n < MaxResets
            /\ UNCHANGED <<hist, shown, made>>
        BY <3>1, Zenon DEF ResetStart
      <4> QED
        BY <4>1, SMTT(30)
    <3>2. CASE Unregister(x)
      BY <3>2, SMTT(30) DEF Unregister, At, Goto
    <3>3. CASE Register(x)
      <4> DEFINE h == reset[x].name
      <4>1. /\ made' = [made EXCEPT ![h] = made[h] + 1]
            /\ shown' = [shown EXCEPT ![h] = made[h] + 1]
            /\ reset' = [reset EXCEPT ![x] = ResetAt("assign", h, made[h] + 1, reset[x].n)]
            /\ hist' = hist
        BY <3>3, Zenon DEF Register
      <4>2. h \in {"schedule", "claim"}
        BY SMT
      <4>3. RegistryShape'
        BY <4>1, <4>2, SMTT(30)
      <4>4. \A k \in {"schedule", "claim"} : made[k] <= made'[k] /\ shown'[k] <= made'[k]
        BY <4>1, <4>2, SMTT(30)
      <4>5. ASSUME NEW y \in Resetters
            PROVE  /\ reset'[y].mine <= made'[reset'[y].name]
                   /\ reset'[y].pc = "assign" => reset'[y].mine # 0
        <5>1. CASE y = x
          <6>1. /\ reset'[x].mine = made[h] + 1 /\ reset'[x].name = h
                /\ made'[h] = made[h] + 1 /\ made[h] \in Nat
            BY <4>1, <4>2, SMT
          <6> QED
            BY <5>1, <6>1, SMT
        <5>2. CASE y # x
          <6>1. reset'[y] = reset[y]
            BY <4>1, <5>2, SMT
          <6>2. /\ reset[y].mine <= made[reset[y].name]
                /\ reset[y].pc = "assign" => reset[y].mine # 0
            BY Zenon
          <6>3. reset[y].name \in {"schedule", "claim"} /\ reset[y].mine \in Nat
            BY SMT
          <6>4. /\ made[reset[y].name] <= made'[reset[y].name]
                /\ made[reset[y].name] \in Nat /\ made'[reset[y].name] \in Nat
            BY <4>1, <4>2, <6>3, SMT
          <6> QED
            BY <6>1, <6>2, <6>3, <6>4, SMT
        <5> QED
          BY <5>1, <5>2
      <4>6. \A k \in {"schedule", "claim"} : 1 <= hist'[k] /\ hist'[k] <= made'[k]
        BY <4>1, <4>2, SMTT(30)
      <4> QED
        BY <4>3, <4>4, <4>5, <4>6
    <3>4. CASE RegisterPanics(x)
      BY <3>4, SMTT(30) DEF RegisterPanics, At, Goto
    <3>5. CASE Assign(x)
      <4> DEFINE h == reset[x].name
                 next == IF h = "schedule" THEN "unregister" ELSE "flags"
      <4>1. /\ hist' = [hist EXCEPT ![h] = reset[x].mine]
            /\ reset' = [reset EXCEPT ![x] = ResetAt(next, "claim", NoHist, reset[x].n)]
            /\ UNCHANGED <<made, shown>>
            /\ reset[x].pc = "assign"
        BY <3>5, Zenon DEF Assign, At
      <4>2. h \in {"schedule", "claim"} /\ 1 <= reset[x].mine /\ reset[x].mine <= made[h]
        <5>1. h \in {"schedule", "claim"} /\ reset[x].mine \in Nat
          BY SMT
        <5>2. reset[x].mine # 0 /\ reset[x].mine <= made[h]
          BY <4>1, Zenon
        <5> QED
          BY <5>1, <5>2, SMT
      <4>3. RegistryShape'
        BY <4>1, <4>2, SMTT(30)
      <4>4. \A k \in {"schedule", "claim"} : 1 <= hist'[k] /\ hist'[k] <= made'[k]
        BY <4>1, <4>2, SMTT(30)
      <4>5. ASSUME NEW y \in Resetters
            PROVE  /\ reset'[y].mine <= made'[reset'[y].name]
                   /\ reset'[y].pc = "assign" => reset'[y].mine # 0
        <5>1. CASE y = x
          <6>1. /\ reset'[x].mine = 0 /\ reset'[x].name = "claim"
                /\ reset'[x].pc = next /\ made'["claim"] \in Nat
            BY <4>1, <4>2, SMT
          <6> QED
            BY <5>1, <6>1, SMT
        <5>2. CASE y # x
          <6>1. reset'[y] = reset[y] /\ made' = made
            BY <4>1, <5>2, SMT
          <6>2. /\ reset[y].mine <= made[reset[y].name]
                /\ reset[y].pc = "assign" => reset[y].mine # 0
            BY Zenon
          <6> QED
            BY <6>1, <6>2, SMT
        <5> QED
          BY <5>1, <5>2
      <4> QED
        BY <4>1, <4>3, <4>4, <4>5
    <3>6. CASE ClearFlags(x)
      BY <3>6, SMTT(30) DEF ClearFlags, At, Goto
    <3> QED
      BY <2>3, <3>1, <3>2, <3>3, <3>4, <3>5, <3>6 DEF ResetStep
  <2> QED
    BY <2>1, <2>2, <2>3, OthersKeepRegistry DEF MetricsNext
<1> QED
  BY <1>1, <1>2, PTL DEF MetricsSpec

-----------------------------------------------------------------------------
\* The flags: steps write one element, or all of them.
FlagShape ==
    /\ mark \in [Pods -> BOOLEAN]
    /\ held \in [Requests -> BOOLEAN]
    /\ fresh \in [Pods -> BOOLEAN]
    /\ counted \in [Pods -> Nat]
    /\ cleared \in Nat

LEMMA ExceptKeepsShape ==
    ASSUME NEW S, NEW T, NEW f \in [S -> T], NEW x, NEW v \in T
    PROVE  [f EXCEPT ![x] = v] \in [S -> T]
  OBVIOUS

LEMMA FlagsHold == MetricsSpec => []FlagShape
<1> USE DEF FlagShape, registryVars, flagVars
<1>1. MetricsInit => FlagShape
  BY SMTT(30) DEF MetricsInit, NoFlags, NoneHeld, NothingCounted
<1>2. FlagShape /\ [MetricsNext]_allVars => FlagShape'
  <2> SUFFICES ASSUME FlagShape, [MetricsNext]_allVars PROVE FlagShape'
    OBVIOUS
  <2>1. ASSUME NEW r \in Requests, ClaimFlag(r) PROVE FlagShape'
    <3>1. PICK p \in Pods : held' = [held EXCEPT ![r] = mark[p]]
      BY <2>1, Zenon DEF ClaimFlag
    <3>2. mark[p] \in BOOLEAN
      BY Zenon
    <3>3. held' \in [Requests -> BOOLEAN]
      BY <3>1, <3>2, ExceptKeepsShape, Zenon
    <3> QED
      BY <2>1, <3>3, Zenon DEF ClaimFlag
  <2>2. ASSUME NEW r \in Requests, PutBackFlag(r) PROVE FlagShape'
    <3>1. held[r] \in BOOLEAN /\ FALSE \in BOOLEAN
      BY Zenon
    <3>2. /\ mark' = [mark EXCEPT ![req[r].pod] = held[r]]
          /\ held' = [held EXCEPT ![r] = FALSE]
          /\ UNCHANGED <<fresh, counted, cleared>>
      BY <2>2, Zenon DEF PutBackFlag
    <3>3. mark' \in [Pods -> BOOLEAN]
      BY <3>1, <3>2, ExceptKeepsShape, Zenon
    <3>4. held' \in [Requests -> BOOLEAN]
      BY <3>1, <3>2, ExceptKeepsShape, Zenon
    <3> QED
      BY <3>2, <3>3, <3>4, Zenon
  <2>3. ASSUME NEW p \in Pods, MergeFlag(p) PROVE FlagShape'
    <3> DEFINE ready == Derived(snap[p]) = "idle"
               more == IF ready /\ ~KeptFlag(p) THEN counted[p] + 1 ELSE counted[p]
    <3>1. /\ fresh' = [fresh EXCEPT ![p] = KeptFlag(p) \/ ready]
          /\ counted' = [counted EXCEPT ![p] = more]
          /\ UNCHANGED <<mark, held, cleared>>
      BY <2>3, Zenon DEF MergeFlag
    <3>2. (KeptFlag(p) \/ ready) \in BOOLEAN
      BY Zenon
    <3>3. fresh' \in [Pods -> BOOLEAN]
      BY <3>1, <3>2, ExceptKeepsShape, Zenon
    <3>4. counted[p] \in Nat
      BY Zenon
    <3>5. more \in Nat
      BY <3>4, SMT
    <3>6. counted' \in [Pods -> Nat]
      BY <3>1, <3>5, ExceptKeepsShape, Zenon
    <3> QED
      BY <3>1, <3>3, <3>6, Zenon
  <2>4. ASSUME NEW p \in Pods, UpsertFlag(p) PROVE FlagShape'
    <3>1. fresh[p] \in BOOLEAN /\ FALSE \in BOOLEAN
      BY Zenon
    <3>2. /\ mark' = [mark EXCEPT ![p] = fresh[p]]
          /\ fresh' = [fresh EXCEPT ![p] = FALSE]
          /\ UNCHANGED <<held, counted, cleared>>
      BY <2>4, Zenon DEF UpsertFlag
    <3>3. mark' \in [Pods -> BOOLEAN]
      BY <3>1, <3>2, ExceptKeepsShape, Zenon
    <3>4. fresh' \in [Pods -> BOOLEAN]
      BY <3>1, <3>2, ExceptKeepsShape, Zenon
    <3> QED
      BY <3>2, <3>3, <3>4, Zenon
  <2>5. CASE QuietStep
    <3>1. /\ mark' = [p \in Pods |-> mark[p] /\ store'[p] # NoEntry]
          /\ UNCHANGED <<held, fresh, counted, cleared>>
      BY <2>5, Zenon DEF QuietStep
    <3>2. mark' \in [Pods -> BOOLEAN]
      BY <3>1, Zenon
    <3> QED
      BY <3>1, <3>2, Zenon
  <2>6. CASE RestartMetrics
    <3>1. /\ mark' = NoFlags /\ held' = NoneHeld /\ fresh' = NoFlags
          /\ counted' = NothingCounted /\ cleared' = 0
      BY <2>6, Zenon DEF RestartMetrics
    <3> QED
      BY <3>1, SMTT(30) DEF NoFlags, NoneHeld, NothingCounted
  <2>7. ASSUME NEW x \in Resetters, ClearFlags(x) PROVE FlagShape'
    <3>1. /\ mark' = [p \in Pods |-> FALSE]
          /\ held' = [r \in Requests |->
                         held[r] /\ ~\E p \in Pods : Known(p) /\ store[p].by = r]
          /\ cleared' = cleared + 1
          /\ UNCHANGED <<fresh, counted>>
      BY <2>7, Zenon DEF ClearFlags
    <3>2. mark' \in [Pods -> BOOLEAN] /\ held' \in [Requests -> BOOLEAN]
      BY <3>1, Zenon
    <3>3. cleared' \in Nat
      BY <3>1, SMT
    <3> QED
      BY <3>1, <3>2, <3>3, Zenon
  <2>8. ASSUME NEW x \in Resetters, \/ ResetStart(x) \/ Unregister(x) \/ Register(x)
                                    \/ RegisterPanics(x) \/ Assign(x)
        PROVE  FlagShape'
    BY <2>8, Zenon DEF ResetStart, Unregister, Register, RegisterPanics, Assign
  <2>9. CASE UNCHANGED allVars
    BY <2>9, Zenon DEF allVars, metricsVars
  <2> QED
    BY <2>1, <2>2, <2>3, <2>4, <2>5, <2>6, <2>7, <2>8, <2>9 DEF MetricsNext, ResetStep
<1> QED
  BY <1>1, <1>2, PTL DEF MetricsSpec

\* The flags and the registry keep their shapes: a variable always holds one of the
\* instances made, also during a reset (metrics.go:58-72).
THEOREM MetricsTypeCorrect == MetricsSpec => []MetricsTypeOK
<1>1. RegistryShape /\ Numbered /\ FlagShape => MetricsTypeOK
  <2> SUFFICES ASSUME RegistryShape, Numbered, FlagShape PROVE MetricsTypeOK
    OBVIOUS
  <2>1. ASSUME NEW h \in Histograms
        PROVE  hist[h] \in 1..made[h] /\ shown[h] \in 0..made[h]
    BY SMT DEF RegistryShape, Numbered
  <2>2. ASSUME NEW x \in Resetters
        PROVE  /\ reset[x].name \in Histograms
               /\ reset[x].mine \in 0..made[reset[x].name]
               /\ reset[x].n \in 0..MaxResets
               /\ At(x, "assign") => reset[x].mine # NoHist
    <3>1. /\ reset[x].name \in Histograms /\ reset[x].mine \in Nat
          /\ reset[x].n \in 0..MaxResets /\ made \in [Histograms -> Nat]
      BY SMT DEF RegistryShape
    <3>2. /\ reset[x].mine <= made[reset[x].name]
          /\ reset[x].pc = "assign" => reset[x].mine # 0
      BY Zenon DEF Numbered
    <3> QED
      BY <3>1, <3>2, SMT DEF At, NoHist
  <2> QED
    BY <2>1, <2>2, Zenon DEF MetricsTypeOK, RegistryShape, FlagShape
<1> QED
  BY <1>1, RegistryHolds, FlagsHold, PTL

-----------------------------------------------------------------------------
\* A histogram is not registered only while somebody is about to register it.
GapIsFilled ==
    \A h \in Histograms :
        shown[h] = NoHist => \E x \in Resetters : reset[x].pc = "register" /\ reset[x].name = h

LEMMA GapsAreFilled == MetricsSpec => []GapIsFilled
<1>1. MetricsInit => GapIsFilled
  BY SMT DEF MetricsInit, FirstInstances, GapIsFilled, NoHist
<1>2. RegistryShape /\ GapIsFilled /\ [MetricsNext]_allVars => GapIsFilled'
  <2> SUFFICES ASSUME RegistryShape, GapIsFilled, [MetricsNext]_allVars,
                      NEW h \in Histograms, shown'[h] = NoHist
               PROVE  \E x \in Resetters : reset'[x].pc = "register" /\ reset'[x].name = h
    BY Zenon DEF GapIsFilled
  <2> USE DEF NoHist
  <2>1. CASE UNCHANGED registryVars
    BY <2>1, Zenon DEF registryVars, GapIsFilled
  <2>2. CASE RestartMetrics
    <3>1. shown' = FirstInstances
      BY <2>2, Zenon DEF RestartMetrics
    <3> QED
      BY <3>1, SMT DEF FirstInstances
  <2>3. ASSUME NEW y \in Resetters, shown' = shown,
               reset[y].pc = "register" => shown[reset[y].name] # NoHist,
               \A x \in Resetters \ {y} : reset'[x] = reset[x]
        PROVE  \E x \in Resetters : reset'[x].pc = "register" /\ reset'[x].name = h
    <3>1. PICK x \in Resetters : reset[x].pc = "register" /\ reset[x].name = h
      BY <2>3, Zenon DEF GapIsFilled
    <3>2. x # y
      BY <2>3, <3>1, Zenon
    <3> QED
      BY <2>3, <3>1, <3>2, Zenon
  <2>4. ASSUME NEW y \in Resetters, ResetStep(y)
        PROVE  \E x \in Resetters : reset'[x].pc = "register" /\ reset'[x].name = h
    <3>1. CASE ResetStart(y)
      <4>1. /\ reset' = [reset EXCEPT ![y] =
                           ResetAt("unregister", "schedule", NoHist, reset[y].n + 1)]
            /\ reset[y].pc # "register" /\ shown' = shown
        BY <3>1, Zenon DEF ResetStart, Resetting
      <4>2. \A x \in Resetters \ {y} : reset'[x] = reset[x]
        BY <4>1, SMT DEF RegistryShape
      <4> QED
        BY <2>3, <4>1, <4>2, Zenon
    <3>2. CASE Unregister(y)
      <4>1. /\ shown' = [shown EXCEPT ![reset[y].name] = NoHist]
            /\ reset' = [reset EXCEPT ![y].pc = "register"]
        BY <3>2, Zenon DEF Unregister, Goto
      <4>2. /\ reset'[y].pc = "register" /\ reset'[y].name = reset[y].name
            /\ \A x \in Resetters \ {y} : reset'[x] = reset[x]
        BY <4>1, SMT DEF RegistryShape
      <4>3. CASE h = reset[y].name
        BY <4>2, <4>3, Zenon
      <4>4. CASE h # reset[y].name
        <5>1. shown[h] = NoHist
          BY <4>1, <4>4, SMT DEF RegistryShape
        <5>2. PICK x \in Resetters : reset[x].pc = "register" /\ reset[x].name = h
          BY <5>1, Zenon DEF GapIsFilled
        <5> QED
          BY <4>2, <4>4, <5>2, Zenon
      <4> QED
        BY <4>3, <4>4
    <3>3. CASE Register(y)
      <4>1. /\ shown' = [shown EXCEPT ![reset[y].name] = made[reset[y].name] + 1]
            /\ reset' = [reset EXCEPT ![y] =
                  ResetAt("assign", reset[y].name, made[reset[y].name] + 1, reset[y].n)]
        BY <3>3, Zenon DEF Register
      <4>2. h # reset[y].name /\ shown[h] = NoHist
        BY <4>1, SMT DEF RegistryShape
      <4>3. PICK x \in Resetters : reset[x].pc = "register" /\ reset[x].name = h
        BY <4>2, Zenon DEF GapIsFilled
      <4>4. reset'[x] = reset[x]
        BY <4>1, <4>2, <4>3, SMT DEF RegistryShape
      <4> QED
        BY <4>3, <4>4, Zenon
    <3>4. CASE RegisterPanics(y)
      <4>1. /\ shown' = shown /\ shown[reset[y].name] # NoHist
            /\ reset' = [reset EXCEPT ![y].pc = "panicked"]
        BY <3>4, Zenon DEF RegisterPanics, Goto
      <4>2. \A x \in Resetters \ {y} : reset'[x] = reset[x]
        BY <4>1, SMT DEF RegistryShape
      <4> QED
        BY <2>3, <4>1, <4>2, Zenon
    <3>5. CASE Assign(y)
      <4> DEFINE next == IF reset[y].name = "schedule" THEN "unregister" ELSE "flags"
      <4>1. /\ shown' = shown /\ reset[y].pc = "assign"
            /\ reset' = [reset EXCEPT ![y] = ResetAt(next, "claim", NoHist, reset[y].n)]
        BY <3>5, Zenon DEF Assign, At
      <4>2. \A x \in Resetters \ {y} : reset'[x] = reset[x]
        BY <4>1, SMT DEF RegistryShape
      <4>3. reset[y].pc # "register"
        BY <4>1, SMT
      <4> QED
        BY <2>3, <4>1, <4>2, <4>3, Zenon
    <3>6. CASE ClearFlags(y)
      <4>1. /\ shown' = shown /\ reset[y].pc = "flags"
            /\ reset' = [reset EXCEPT ![y].pc = "answered"]
        BY <3>6, Zenon DEF ClearFlags, At, Goto
      <4>2. \A x \in Resetters \ {y} : reset'[x] = reset[x]
        BY <4>1, SMT DEF RegistryShape
      <4>3. reset[y].pc # "register"
        BY <4>1, SMT
      <4> QED
        BY <2>3, <4>1, <4>2, <4>3, Zenon
    <3> QED
      BY <2>4, <3>1, <3>2, <3>3, <3>4, <3>5, <3>6 DEF ResetStep
  <2> QED
    BY <2>1, <2>2, <2>4, OthersKeepRegistry DEF MetricsNext
<1> QED
  BY <1>1, <1>2, RegistryHolds, PTL DEF MetricsSpec

\* However many resets overlap and panic (metrics.go:58-72), when all are over both
\* histograms are exposed: who takes one out leaves it to somebody to put one in.
THEOREM ExposedAtRestAlways == MetricsSpec => []ExposedAtRest
<1>1. GapIsFilled => ExposedAtRest
  BY Zenon DEF GapIsFilled, ExposedAtRest, Resetting
<1> QED
  BY <1>1, GapsAreFilled, PTL

-----------------------------------------------------------------------------
\* The client that is alone in having reset: how far its reset is tells how the
\* registered instances differ from those observed into.
Alone(x) == \A y \in Resetters \ {x} : reset[y].n = 0

InOrder(x) ==
    /\ reset[x].pc \in {"idle", "answered", "unregister", "flags"} => shown = hist
    /\ reset[x].pc = "register" => shown = [hist EXCEPT ![reset[x].name] = NoHist]
    /\ reset[x].pc = "assign" => shown = [hist EXCEPT ![reset[x].name] = reset[x].mine]
    /\ reset[x].pc # "panicked"

LoneResets ==
    /\ \A y \in Resetters : reset[y].n = 0 => reset[y].pc = "idle"
    /\ \A x \in Resetters : Alone(x) => InOrder(x)

\* The client's own steps keep the order.
LEMMA OwnStepInOrder ==
    ASSUME RegistryShape, Numbered, NEW x \in Resetters, InOrder(x), ResetStep(x)
    PROVE  InOrder(x)'
<1> USE DEF RegistryShape, NoHist, InOrder, ResetAt
<1>1. CASE ResetStart(x)
  <2>1. /\ reset' = [reset EXCEPT ![x] =
                       ResetAt("unregister", "schedule", NoHist, reset[x].n + 1)]
        /\ reset[x].pc \notin {"unregister", "register", "assign", "flags"}
        /\ UNCHANGED <<hist, shown>>
    BY <1>1, Zenon DEF ResetStart, Resetting
  <2>2. reset'[x].pc = "unregister"
    BY <2>1, SMT
  <2>3. shown = hist
    BY <2>1, SMT
  <2> QED
    BY <2>1, <2>2, <2>3, SMT
<1>2. CASE Unregister(x)
  <2>1. /\ shown' = [shown EXCEPT ![reset[x].name] = 0]
        /\ reset' = [reset EXCEPT ![x].pc = "register"]
        /\ reset[x].pc = "unregister" /\ hist' = hist
    BY <1>2, Zenon DEF Unregister, At, Goto
  <2>2. reset'[x].pc = "register" /\ reset'[x].name = reset[x].name /\ shown = hist
    BY <2>1, SMT
  <2> QED
    BY <2>1, <2>2, SMT
<1>3. CASE Register(x)
  <2> DEFINE h == reset[x].name
             i == made[h] + 1
  <2>1. /\ shown' = [shown EXCEPT ![h] = i]
        /\ reset' = [reset EXCEPT ![x] = ResetAt("assign", h, i, reset[x].n)]
        /\ reset[x].pc = "register" /\ hist' = hist
    BY <1>3, Zenon DEF Register, At
  <2>2. reset'[x].pc = "assign" /\ reset'[x].name = h /\ reset'[x].mine = i
    BY <2>1, SMT
  <2>3. shown = [hist EXCEPT ![h] = 0]
    BY <2>1, SMT
  <2>4. shown' = [hist EXCEPT ![h] = i]
    BY <2>1, <2>3, SMT
  <2>5. shown' = [hist' EXCEPT ![reset'[x].name] = reset'[x].mine]
    BY <2>1, <2>2, <2>4, Zenon
  <2>6. reset'[x].pc \notin {"idle", "answered", "unregister", "flags", "register", "panicked"}
    BY <2>2, Zenon
  <2> QED
    BY <2>5, <2>6, Zenon
<1>4. CASE RegisterPanics(x)
  <2>1. reset[x].pc = "register" /\ shown[reset[x].name] # 0
    BY <1>4, Zenon DEF RegisterPanics, At
  <2>2. shown = [hist EXCEPT ![reset[x].name] = 0]
    BY <2>1, SMT
  <2>3. reset[x].name \in Histograms
    BY SMT
  <2> QED
    BY <2>1, <2>2, <2>3, SMT
<1>5. CASE Assign(x)
  <2> DEFINE h == reset[x].name
             next == IF h = "schedule" THEN "unregister" ELSE "flags"
  <2>1. /\ hist' = [hist EXCEPT ![h] = reset[x].mine]
        /\ reset' = [reset EXCEPT ![x] = ResetAt(next, "claim", NoHist, reset[x].n)]
        /\ reset[x].pc = "assign" /\ shown' = shown
    BY <1>5, Zenon DEF Assign, At
  <2>2. shown = [hist EXCEPT ![h] = reset[x].mine]
    BY <2>1, SMT
  <2>3. reset'[x].pc = next
    BY <2>1, SMT
  <2> QED
    BY <2>1, <2>2, <2>3, SMT
<1>6. CASE ClearFlags(x)
  <2>1. /\ reset' = [reset EXCEPT ![x].pc = "answered"]
        /\ reset[x].pc = "flags" /\ UNCHANGED <<hist, shown>>
    BY <1>6, Zenon DEF ClearFlags, At, Goto
  <2>2. reset'[x].pc = "answered" /\ shown = hist
    BY <2>1, SMT
  <2> QED
    BY <2>1, <2>2, SMT
<1> QED
  BY <1>1, <1>2, <1>3, <1>4, <1>5, <1>6 DEF ResetStep

LEMMA LoneResetsHold == MetricsSpec => []LoneResets
<1>1. MetricsInit => LoneResets
  <2> SUFFICES ASSUME MetricsInit PROVE LoneResets
    OBVIOUS
  <2>1. shown = hist /\ \A x \in Resetters : reset[x].pc = "idle"
    BY SMT DEF MetricsInit, NoReset, ResetAt
  <2> QED
    BY <2>1, SMT DEF LoneResets, InOrder
<1>2. RegistryShape /\ Numbered /\ LoneResets /\ [MetricsNext]_allVars => LoneResets'
  <2> SUFFICES ASSUME RegistryShape, Numbered, LoneResets, [MetricsNext]_allVars
               PROVE LoneResets'
    OBVIOUS
  <2>1. CASE UNCHANGED registryVars
    BY <2>1, Zenon DEF registryVars, LoneResets, Alone, InOrder
  <2>2. CASE RestartMetrics
    <3>1. /\ hist' = FirstInstances /\ shown' = FirstInstances
          /\ reset' = [x \in Resetters |-> ResetAt("idle", "schedule", NoHist, reset[x].n)]
      BY <2>2, Zenon DEF RestartMetrics
    <3>2. \A x \in Resetters : reset'[x].pc = "idle"
      BY <3>1, SMT DEF ResetAt
    <3> QED
      BY <3>1, <3>2, SMT DEF LoneResets, InOrder
  <2>3. ASSUME NEW y \in Resetters, ResetStep(y) PROVE LoneResets'
    <3>1. /\ \A x \in Resetters \ {y} : reset'[x] = reset[x]
          /\ reset'[y].n >= reset[y].n /\ reset'[y].n # 0
          /\ reset[y].n \in Nat
      <4> USE DEF RegistryShape, ResetAt
      <4>1. CASE ResetStart(y)
        <5>1. reset' = [reset EXCEPT ![y] =
                         ResetAt("unregister", "schedule", NoHist, reset[y].n + 1)]
          BY <4>1, Zenon DEF ResetStart
        <5> QED
          BY <5>1, SMT
      <4>2. CASE ~ResetStart(y)
        <5>1. /\ reset[y].pc # "idle"
              /\ \/ \E c \in {"register", "panicked", "answered"} :
                        reset' = [reset EXCEPT ![y].pc = c]
                 \/ \E c \in {"unregister", "flags", "assign"} : \E h, i :
                        reset' = [reset EXCEPT ![y] = ResetAt(c, h, i, reset[y].n)]
          <6>1. CASE Unregister(y) \/ RegisterPanics(y) \/ ClearFlags(y)
            BY <6>1, Zenon DEF Unregister, RegisterPanics, ClearFlags, At, Goto
          <6>2. CASE Register(y)
            BY <6>2, Zenon DEF Register, At
          <6>3. CASE Assign(y)
            <7> DEFINE next == IF reset[y].name = "schedule" THEN "unregister" ELSE "flags"
            <7>1. /\ reset[y].pc = "assign" /\ next \in {"unregister", "flags", "assign"}
                  /\ reset' = [reset EXCEPT ![y] = ResetAt(next, "claim", NoHist, reset[y].n)]
              BY <6>3, Zenon DEF Assign, At
            <7> QED
              BY <7>1, Zenon
          <6> QED
            BY <2>3, <4>2, <6>1, <6>2, <6>3 DEF ResetStep
        <5>2. reset[y].n # 0
          BY <5>1, Zenon DEF LoneResets
        <5>3. /\ reset'[y].n = reset[y].n
              /\ \A x \in Resetters \ {y} : reset'[x] = reset[x]
          BY <5>1, SMT
        <5>4. reset[y].n \in Nat
          BY SMT
        <5> QED
          BY <5>2, <5>3, <5>4, SMT
      <4> QED
        BY <4>1, <4>2
    <3>2. \A x \in Resetters : reset'[x].n = 0 => reset'[x].pc = "idle"
      BY <3>1, Zenon DEF LoneResets
    <3>3. ASSUME NEW x \in Resetters, Alone(x)' PROVE InOrder(x)'
      <4>1. x = y
        BY <3>1, <3>3, Zenon DEF Alone
      <4>2. Alone(x)
        BY <3>1, <3>3, <4>1, Zenon DEF Alone
      <4>3. InOrder(x)
        BY <4>2, Zenon DEF LoneResets
      <4> QED
        BY <2>3, <4>1, <4>3, OwnStepInOrder
    <3> QED
      BY <3>2, <3>3, Zenon DEF LoneResets
  <2> QED
    BY <2>1, <2>2, <2>3, OthersKeepRegistry DEF MetricsNext
<1> QED
  BY <1>1, <1>2, RegistryHolds, PTL DEF MetricsSpec

\* As long as one client resets and no other has, none of its resets panics and each
\* leaves what is registered observed (metrics.go:57-72, handlers.go:342-347).
THEOREM OneClientIsSafeAlways == MetricsSpec => []OneClientIsSafe
<1>1. RegistryShape /\ LoneResets => OneClientIsSafe
  <2> SUFFICES ASSUME RegistryShape, LoneResets, NEW x \in Resetters,
                      \A y \in Resetters \ {x} : reset[y].n = 0
               PROVE  ~At(x, "panicked") /\ (~Resetting(x) => shown = hist)
    BY Zenon DEF OneClientIsSafe
  <2>1. InOrder(x)
    BY Zenon DEF LoneResets, Alone
  <2>2. ~At(x, "panicked")
    BY <2>1, Zenon DEF InOrder, At
  <2>3. ~Resetting(x) => reset[x].pc \in {"idle", "answered", "panicked"}
    BY SMT DEF RegistryShape, Resetting
  <2> QED
    BY <2>1, <2>2, <2>3, Zenon DEF InOrder, At
<1> QED
  BY <1>1, RegistryHolds, LoneResetsHold, PTL
=============================================================================

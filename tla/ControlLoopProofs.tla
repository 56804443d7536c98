------------------------- MODULE ControlLoopProofs -------------------------
(***************************************************************************)
(* The safety of the control loop for any number of handlers and setters,  *)
(* any capacity of the channel and any number of restarts.                 *)
(***************************************************************************)
EXTENDS ControlLoop, TLAPS

\* Every variable keeps its shape, the channel never overflows, and a process that is down
\* leaves nothing in flight (main.go:71-79).
THEOREM LoopTypeCorrect == LoopSpec => []LoopTypeOK
<1>1. LoopInit => LoopTypeOK
  <2> SUFFICES ASSUME LoopInit PROVE LoopTypeOK
    OBVIOUS
  <2>1. LoopData
    BY SizesAssumption, KickCapAssumption, LoopBoundsAssumption, SMT
    DEF LoopInit, LoopData, NoPut
  <2>2. LoopFlags /\ DownIsQuiet
    BY Zenon DEF LoopInit, LoopFlags, DownIsQuiet
  <2> QED
    BY <2>1, <2>2 DEF LoopTypeOK
<1>2. LoopData /\ [LoopNext]_loopSysVars => LoopData'
  <2> SUFFICES ASSUME LoopData, [LoopNext]_loopSysVars PROVE LoopData'
    OBVIOUS
  <2> USE SizesAssumption, KickCapAssumption, LoopBoundsAssumption
      DEF LoopData, sizeVars, workVars, loopVars, procVars
  <2>1. ASSUME NEW h \in Handlers, HandlerPatch(h) \/ HandlerKick(h) PROVE LoopData'
    BY <2>1, SMTT(30) DEF HandlerPatch, HandlerKick, Kick
  <2>2. ASSUME NEW c \in Setters, SetterStep(c) PROVE LoopData'
    <3>1. ASSUME NEW n \in Sizes, PutRefused(c, n) \/ PutFails(c, n) PROVE LoopData'
      BY <3>1, SMTT(30) DEF PutRefused, PutFails, DonePut
    <3>2. ASSUME NEW n \in Sizes, PutPatch(c, n) PROVE LoopData'
      BY <3>2, SMTT(30) DEF PutPatch
    <3>3. CASE PutStore(c)
      BY <3>3, SMTT(30) DEF PutStore, DonePut
    <3> QED
      BY <2>2, <3>1, <3>2, <3>3 DEF SetterStep
  <2>3. CASE TickerFires \/ Signal \/ Start
    BY <2>3, SMTT(30) DEF TickerFires, Signal, Start
  <2>4. CASE LoopStep
    <3>1. CASE SelectTick \/ SelectKick \/ SelectStop \/ DrainOne \/ Drained
      BY <3>1, SMTT(30)
      DEF AtSelect, SelectTick, SelectKick, SelectStop, DrainOne, Drained
    <3>2. CASE List \/ ListFails \/ GetDeployment \/ GetFails \/ SetPoolSize
      BY <3>2, SMTT(30) DEF List, ListFails, GetDeployment, GetFails, SetPoolSize
    <3> QED
      BY <2>4, <3>1, <3>2 DEF LoopStep
  <2>5. CASE Exit
    BY <2>5, SMTT(30) DEF Exit, DonePut
  <2>6. CASE UNCHANGED loopSysVars
    BY <2>6, SMTT(30) DEF loopSysVars
  <2> QED
    BY <2>1, <2>2, <2>3, <2>4, <2>5, <2>6 DEF LoopNext
<1>3. LoopFlags /\ DownIsQuiet /\ [LoopNext]_loopSysVars => (LoopFlags /\ DownIsQuiet)'
  <2> SUFFICES ASSUME LoopFlags, DownIsQuiet, [LoopNext]_loopSysVars
               PROVE (LoopFlags /\ DownIsQuiet)'
    OBVIOUS
  <2> USE DEF LoopFlags, DownIsQuiet, sizeVars, workVars, loopVars, procVars
  <2>1. ASSUME NEW h \in Handlers, HandlerPatch(h) \/ HandlerKick(h)
        PROVE (LoopFlags /\ DownIsQuiet)'
    BY <2>1, Zenon DEF HandlerPatch, HandlerKick
  <2>2. ASSUME NEW c \in Setters, SetterStep(c) PROVE (LoopFlags /\ DownIsQuiet)'
    BY <2>2, Zenon DEF SetterStep, PutRefused, PutPatch, PutFails, PutStore
  <2>3. CASE TickerFires \/ Signal \/ Start
    BY <2>3, Zenon DEF TickerFires, Signal, Start
  <2>4. CASE LoopStep
    <3>1. CASE SelectTick \/ SelectKick \/ SelectStop \/ DrainOne \/ Drained
      BY <3>1, Zenon
      DEF AtSelect, SelectTick, SelectKick, SelectStop, DrainOne, Drained
    <3>2. CASE List \/ ListFails \/ GetDeployment \/ GetFails \/ SetPoolSize
      BY <3>2, Zenon DEF List, ListFails, GetDeployment, GetFails, SetPoolSize
    <3> QED
      BY <2>4, <3>1, <3>2 DEF LoopStep
  <2>5. CASE Exit
    BY <2>5, Zenon DEF Exit
  <2>6. CASE UNCHANGED loopSysVars
    BY <2>6, Zenon DEF loopSysVars
  <2> QED
    BY <2>1, <2>2, <2>3, <2>4, <2>5, <2>6 DEF LoopNext
<1> QED
  BY <1>1, <1>2, <1>3, PTL DEF LoopSpec, LoopTypeOK

\* No kick is lost, whatever the capacity of the channel: the kick that was dropped finds
\* another one in the channel, and every path that empties the channel leads to a List or
\* ends the process (reconciler.go:64-68, handlers.go:182-185).
THEOREM KicksAreKept == LoopSpec => []NoLostKick
<1>1. LoopInit => NoLostKick
  BY DEF LoopInit, NoLostKick
<1>2. LoopTypeOK /\ NoLostKick /\ [LoopNext]_loopSysVars => NoLostKick'
  <2> SUFFICES ASSUME LoopTypeOK, NoLostKick, [LoopNext]_loopSysVars PROVE NoLostKick'
    OBVIOUS
  <2> USE DEF NoLostKick, sizeVars, workVars, loopVars, procVars
  <2>1. ASSUME NEW h \in Handlers, HandlerPatch(h) PROVE NoLostKick'
    BY <2>1 DEF HandlerPatch, LoopTypeOK, LoopData
  <2>2. ASSUME NEW h \in Handlers, HandlerKick(h) PROVE NoLostKick'
    <3>1. kicks' > 0
      BY <2>2, KickCapAssumption DEF HandlerKick, Kick, LoopTypeOK, LoopData
    <3> QED
      BY <3>1
  <2>3. ASSUME NEW c \in Setters, SetterStep(c) PROVE NoLostKick'
    BY <2>3 DEF SetterStep, PutRefused, PutPatch, PutFails, PutStore
  <2>4. CASE TickerFires \/ Signal \/ Start
    BY <2>4 DEF TickerFires, Signal, Start
  <2>5. CASE LoopStep
    <3>1. CASE SelectTick \/ SelectKick \/ SelectStop \/ DrainOne \/ Drained
      BY <3>1 DEF SelectTick, SelectKick, SelectStop, DrainOne, Drained
    <3>2. CASE List \/ ListFails
      BY <3>2 DEF List, ListFails
    <3>3. CASE GetDeployment \/ GetFails \/ SetPoolSize
      BY <3>3 DEF GetDeployment, GetFails, SetPoolSize
    <3> QED
      BY <2>5, <3>1, <3>2, <3>3 DEF LoopStep
  <2>6. CASE Exit
    BY <2>6 DEF Exit
  <2>7. CASE UNCHANGED loopSysVars
    BY <2>7 DEF loopSysVars
  <2> QED
    BY <2>1, <2>2, <2>3, <2>4, <2>5, <2>6, <2>7 DEF LoopNext
<1> QED
  BY <1>1, <1>2, LoopTypeCorrect, PTL DEF LoopSpec
=============================================================================

---------------------------- MODULE ControlLoop ----------------------------
(***************************************************************************)
(* What keeps the controller in step with the cluster: the reconciler's    *)
(* loop (Run in reconciler.go) with its ticker and the kicks the handlers  *)
(* send it, the pool size that PUT /api/pool and sync() both write, and    *)
(* the life of the process (main.go).  The pods themselves are the matter  *)
(* of module WarmPool; here a sync is its List, its Deployment Get and its *)
(* SetPoolSize.                                                            *)
(***************************************************************************)
EXTENDS Integers

CONSTANTS
    Handlers,      \* requests that change a pod and then kick the reconciler
    Setters,       \* PUT /api/pool requests
    Sizes,         \* the sizes they ask for
    DefaultSize,   \* POOL_SIZE of the environment
    NoSize,        \* the Deployment could not be read
    KickCap,       \* capacity of kickCh
    MaxRestarts    \* bound: how often the process ends

ASSUME SizesAssumption == Sizes \subseteq Int /\ DefaultSize \in Int /\ NoSize \notin Int
ASSUME KickCapAssumption == KickCap \in Nat \ {0}
ASSUME LoopBoundsAssumption == MaxRestarts \in Nat

VARIABLES
    replicas,   \* spec.replicas of Deployment sandbox-pool
    poolSize,   \* the store's pool size
    put,        \* per setter: where handleSetPoolSize is, and the size asked for
    work,       \* per handler: "idle", "patched", "answered" or "killed"
    unseen,     \* handlers whose change no successful List has followed
    kicks,      \* what is in kickCh
    tick,       \* the ticker's channel, one deep
    loop,       \* where the reconciler is
    got,        \* the replicas its Get returned
    synced,     \* the last List of this process worked
    up,         \* the process runs
    stop,       \* its context is cancelled
    restarts    \* how often it has ended

sizeVars == <<replicas, poolSize, put>>
workVars == <<work, unseen>>
loopVars == <<tick, loop, got, synced>>
procVars == <<up, stop, restarts>>
loopSysVars == <<sizeVars, workVars, kicks, loopVars, procVars>>

NoPut == [pc |-> "idle", size |-> NoSize]
DonePut == [pc |-> "done", size |-> NoSize]   \* refused, failed, answered or killed

-----------------------------------------------------------------------------
(***************************************************************************)
(* The handlers.                                                           *)
(***************************************************************************)

\* A claim is patched, or claimed pods are deleted: something sync should see.
HandlerPatch(h) ==
    /\ up
    /\ work[h] = "idle"
    /\ work' = [work EXCEPT ![h] = "patched"]
    /\ unseen' = unseen \cup {h}
    /\ UNCHANGED <<sizeVars, kicks, loopVars, procVars>>

\* Mutant: the kick has no default case and waits for room in the channel.
KickWaiting == kicks < KickCap /\ kicks' = kicks + 1

\* Mutant: the channel takes one kick more than main.go made it for.
KickOverfull == kicks' = IF kicks <= KickCap THEN kicks + 1 ELSE kicks

\* A non-blocking send: dropped when the channel is full.
Kick == kicks' = IF kicks < KickCap THEN kicks + 1 ELSE kicks

HandlerKick(h) ==
    /\ up
    /\ work[h] = "patched"
    /\ Kick
    /\ work' = [work EXCEPT ![h] = "answered"]
    /\ UNCHANGED <<sizeVars, unseen, loopVars, procVars>>

\* PUT /api/pool, first half: a negative size is refused, else the Deployment is patched.
PutRefused(c, n) ==
    /\ up
    /\ put[c].pc = "idle"
    /\ n < 0
    /\ put' = [put EXCEPT ![c] = DonePut]
    /\ UNCHANGED <<replicas, poolSize, workVars, kicks, loopVars, procVars>>

PutPatch(c, n) ==
    /\ up
    /\ put[c].pc = "idle"
    /\ n >= 0
    /\ replicas' = n
    /\ put' = [put EXCEPT ![c] = [pc |-> "patched", size |-> n]]
    /\ UNCHANGED <<poolSize, workVars, kicks, loopVars, procVars>>

\* The call reports an error, applied or not.  An applied one also stands for anybody
\* else who scales the Deployment.
PutFails(c, n) ==
    /\ up
    /\ put[c].pc = "idle"
    /\ n >= 0
    /\ replicas' \in {replicas, n}
    /\ put' = [put EXCEPT ![c] = DonePut]
    /\ UNCHANGED <<poolSize, workVars, kicks, loopVars, procVars>>

\* Second half: SetPoolSize (the size before it is read only to be reported).
PutStore(c) ==
    /\ up
    /\ put[c].pc = "patched"
    /\ poolSize' = put[c].size
    /\ put' = [put EXCEPT ![c] = DonePut]
    /\ UNCHANGED <<replicas, workVars, kicks, loopVars, procVars>>

-----------------------------------------------------------------------------
(***************************************************************************)
(* Run: select over the context, the ticker and the kicks, chosen at       *)
(* random when several are ready.                                          *)
(***************************************************************************)
AtSelect == up /\ loop = "select"

TickerFires ==
    /\ up
    /\ ~tick
    /\ tick' = TRUE
    /\ UNCHANGED <<sizeVars, workVars, kicks, loop, got, synced, procVars>>

SelectTick ==
    /\ AtSelect
    /\ tick
    /\ tick' = FALSE
    /\ loop' = "list"
    /\ UNCHANGED <<sizeVars, workVars, kicks, got, synced, procVars>>

SelectKick ==
    /\ AtSelect
    /\ kicks > 0
    /\ kicks' = kicks - 1
    /\ loop' = "drain"
    /\ UNCHANGED <<sizeVars, workVars, tick, got, synced, procVars>>

SelectStop ==
    /\ AtSelect
    /\ stop
    /\ loop' = "stopped"
    /\ UNCHANGED <<sizeVars, workVars, kicks, tick, got, synced, procVars>>

DrainOne ==
    /\ up
    /\ loop = "drain"
    /\ kicks > 0
    /\ kicks' = kicks - 1
    /\ UNCHANGED <<sizeVars, workVars, loopVars, procVars>>

Drained ==
    /\ up
    /\ loop = "drain"
    /\ kicks = 0
    /\ loop' = "list"
    /\ UNCHANGED <<sizeVars, workVars, kicks, tick, got, synced, procVars>>

-----------------------------------------------------------------------------
(***************************************************************************)
(* sync: a cancelled context makes every call fail at once.                *)
(***************************************************************************)
List ==
    /\ up
    /\ loop = "list"
    /\ ~stop
    /\ unseen' = {}
    /\ loop' = "get"
    /\ synced' = TRUE
    /\ UNCHANGED <<sizeVars, work, kicks, tick, got, procVars>>

\* Mutant: a List that fails ends the reconciler.
ListFailsFatal ==
    /\ up
    /\ loop = "list"
    /\ loop' = "stopped"
    /\ synced' = FALSE
    /\ UNCHANGED <<sizeVars, workVars, kicks, tick, got, procVars>>

ListFails ==
    /\ up
    /\ loop = "list"
    /\ loop' = "select"
    /\ synced' = FALSE
    /\ UNCHANGED <<sizeVars, workVars, kicks, tick, got, procVars>>

GetDeployment ==
    /\ up
    /\ loop = "get"
    /\ ~stop
    /\ got' = replicas
    /\ loop' = "set"
    /\ UNCHANGED <<sizeVars, workVars, kicks, tick, synced, procVars>>

GetFails ==
    /\ up
    /\ loop = "get"
    /\ got' = NoSize
    /\ loop' = "set"
    /\ UNCHANGED <<sizeVars, workVars, kicks, tick, synced, procVars>>

\* Mutant: sync leaves the pool size to the handler.
SetPoolSizeNever ==
    /\ up
    /\ loop = "set"
    /\ got' = NoSize
    /\ loop' = "select"
    /\ UNCHANGED <<sizeVars, workVars, kicks, tick, synced, procVars>>

\* Mutant: the channel is drained once the sync is over, not before it begins.
SetPoolSizeThenDrain ==
    /\ up
    /\ loop = "set"
    /\ poolSize' = IF got = NoSize THEN poolSize ELSE got
    /\ got' = NoSize
    /\ loop' = "select"
    /\ kicks' = 0
    /\ UNCHANGED <<replicas, put, workVars, tick, synced, procVars>>

\* SetPoolSize, and the rest of the sync.
SetPoolSize ==
    /\ up
    /\ loop = "set"
    /\ poolSize' = IF got = NoSize THEN poolSize ELSE got
    /\ got' = NoSize
    /\ loop' = "select"
    /\ UNCHANGED <<replicas, put, workVars, kicks, tick, synced, procVars>>

-----------------------------------------------------------------------------
(***************************************************************************)
(* The process.                                                            *)
(***************************************************************************)

\* SIGINT or SIGTERM cancels the context; requests under way go on.
Signal ==
    /\ up
    /\ ~stop
    /\ restarts < MaxRestarts
    /\ stop' = TRUE
    /\ UNCHANGED <<sizeVars, workVars, kicks, loopVars, up, restarts>>

\* main returns, at the latest five seconds after the signal, or the process is killed:
\* whatever still runs ends with it.
Exit ==
    /\ up
    /\ restarts < MaxRestarts
    /\ up' = FALSE
    /\ stop' = FALSE
    /\ restarts' = restarts + 1
    /\ work' = [h \in Handlers |-> IF work[h] = "patched" THEN "killed" ELSE work[h]]
    /\ put' = [c \in Setters |-> IF put[c].pc = "patched"
                                 THEN DonePut ELSE put[c]]
    /\ kicks' = 0
    /\ tick' = FALSE
    /\ loop' = "select"
    /\ got' = NoSize
    /\ synced' = FALSE
    /\ UNCHANGED <<replicas, poolSize, unseen>>

\* A new process takes the pool size from the Deployment, or from its environment when
\* the Deployment cannot be read.
Start ==
    /\ ~up
    /\ up' = TRUE
    /\ poolSize' \in {replicas, DefaultSize}
    /\ UNCHANGED <<replicas, put, workVars, kicks, loopVars, stop, restarts>>

-----------------------------------------------------------------------------
LoopStep ==
    \/ SelectTick \/ SelectKick \/ SelectStop
    \/ DrainOne \/ Drained
    \/ List \/ ListFails \/ GetDeployment \/ GetFails \/ SetPoolSize

SetterStep(c) ==
    \/ \E n \in Sizes : PutRefused(c, n) \/ PutPatch(c, n) \/ PutFails(c, n)
    \/ PutStore(c)

LoopInit ==
    /\ replicas \in Sizes /\ replicas >= 0
    /\ poolSize \in {replicas, DefaultSize}
    /\ put = [c \in Setters |-> NoPut]
    /\ work = [h \in Handlers |-> "idle"]
    /\ unseen = {}
    /\ kicks = 0
    /\ tick = FALSE
    /\ loop = "select"
    /\ got = NoSize
    /\ synced = FALSE
    /\ up = TRUE
    /\ stop = FALSE
    /\ restarts = 0

LoopNext ==
    \/ \E h \in Handlers : HandlerPatch(h) \/ HandlerKick(h)
    \/ \E c \in Setters : SetterStep(c)
    \/ LoopStep
    \/ TickerFires
    \/ Signal \/ Exit \/ Start

LoopSpec == LoopInit /\ [][LoopNext]_loopSysVars

-----------------------------------------------------------------------------
\* The data of the control loop; the channel never holds more than its capacity.
LoopData ==
    /\ replicas \in Int /\ poolSize \in Int /\ got \in Int \cup {NoSize}
    /\ restarts \in 0..MaxRestarts
    /\ put \in [Setters -> [pc: {"idle", "patched", "done"}, size: Int \cup {NoSize}]]
    /\ \A c \in Setters : put[c].pc = "patched" => put[c].size \in Int
    /\ work \in [Handlers -> {"idle", "patched", "answered", "killed"}]
    /\ unseen \subseteq Handlers
    /\ kicks \in 0..KickCap
    /\ loop \in {"select", "stopped", "drain", "list", "get", "set"}

LoopFlags == tick \in BOOLEAN /\ synced \in BOOLEAN /\ up \in BOOLEAN /\ stop \in BOOLEAN

\* A process that is down leaves nothing in its channels.
DownIsQuiet == up \/ (kicks = 0 /\ loop = "select" /\ got = NoSize /\ ~stop /\ ~tick)

\* LoopTypeOK: every variable keeps its shape, the channel is never overfull, and nothing
\* is in flight while the process is down (main.go:71-79).
LoopTypeOK == LoopData /\ LoopFlags /\ DownIsQuiet

\* No kick is lost: when nothing is in the channel, the last List worked and the
\* reconciler is not on its way to the next one, that List came after every change that
\* was followed by a kick, although kicks are dropped when the channel is full and
\* drained several at a time (reconciler.go:64-68, handlers.go:182-185).
NoLostKick ==
    loop \in {"select", "get", "set"} /\ kicks = 0 /\ synced =>
        \A h \in unseen : work[h] # "answered"

\* No change stays unseen: even when the kick's own sync fails, the ticker brings
\* another one (reconciler.go:54, 83-86).
ChangesAreSeen == \A h \in Handlers : h \in unseen ~> h \notin unseen

\* A handler that has changed something answers its client whatever the reconciler does,
\* be it stopped, or hanging in a call: nothing but its own step is assumed to be
\* scheduled (handlers.go:182-185, 458-461).
AnswersGiven ==
    \A h \in Handlers :
        WF_loopSysVars(HandlerKick(h)) => (work[h] = "patched" ~> work[h] # "patched")

\* When nobody changes the size any more, the store's pool size comes to be the
\* Deployment's and stays so, whatever order PUTs and syncs were in
\* (handlers.go:93-105, reconciler.go:88-92, main.go:62-69).
PoolSizeSettles == <>[](up /\ poolSize = replicas)

\* The ticker keeps firing, the reconciler's goroutine and the handlers are scheduled,
\* the API server does not fail for ever, and a stopping process ends.
LoopFairness ==
    /\ WF_loopSysVars(TickerFires)
    /\ WF_loopSysVars(LoopStep)
    /\ SF_loopSysVars(SelectTick)
    /\ SF_loopSysVars(List)
    /\ SF_loopSysVars(GetDeployment)
    /\ \A c \in Setters : WF_loopSysVars(PutStore(c))
    /\ WF_loopSysVars(stop /\ Exit)
    /\ WF_loopSysVars(Start)

FairLoopSpec == LoopSpec /\ LoopFairness
=============================================================================

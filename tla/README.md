# TLA+ models of the warm-pool sandbox controller

The repository runs a pool of gVisor sandboxes on GKE. A controller (Go, one
process) keeps an in-memory view of the pods of Deployment `sandbox-pool`,
hands one out per `POST /api/provision`, detaches it from its ReplicaSet, and
deletes it when its time is over. The process in a sandbox learns of its claim
from a label, runs its workload and keeps a WebSocket connection to a server.
These modules model the controller, the sandbox and the server, TLC checks them
on small instances, and TLAPS proves their safety for every value of the
constants.

## Contents

| file | role |
| --- | --- |
| `PoolBase` | pods, requests, time: the names all modules share |
| `KubePods` | the cluster (external): API server, ReplicaSet, kubelet |
| `SandboxStore` | `store.go`: the map of `*Sandbox`, with its pointer aliasing |
| `WarmPool` | handlers and reconciler over store and cluster |
| `WarmPoolProperties` | its properties, its fairness, its refinement mapping |
| `WarmPoolInvariant` | the inductive invariant |
| `WarmPoolProofs` | theorems about `WarmPool` |
| `SandboxLease` | abstract: what the controller promises of a sandbox |
| `LeaseProofs` | the theorem that `WarmPool` implements `SandboxLease` |
| `ControlLoop` | the reconciler's loop, ticker and kicks, the pool size, the process |
| `ControlLoopProofs` | theorems about `ControlLoop` |
| `Metrics` | `WarmPool` with the flags of the schedule metric, the histograms and their reset |
| `MetricsProofs` | theorems about `Metrics` |
| `ScheduleProofs` | how often a pod's start is counted: the theorem about `RecountNeedsReason` |
| `Quantile` | `histogramQuantile` and the observations it summarises |
| `QuantileProofs` | theorems about `Quantile` |
| `Sandbox` | the process in a sandbox pod: waiting, phases, SIGTERM, restart |
| `WsSession` | its WebSocket session and the server, composed with `Sandbox` |
| `WsSessionProperties` | the properties and the fairness of both |
| `WsSessionProofs` | theorems about both |
| `Terminal` | a terminal session of the controller |
| `TerminalProofs` | theorems about `Terminal` |
| `MCWarmPool`, `MCControlLoop`, `MCMetrics`, `MCWsSession`, `MCTerminal`, `*.cfg` | instances for TLC |

`PROJECT.json` maps every definition to its source lines and lists runs,
mutants, hazards and theorems. `tlc -config WarmPoolClaims.cfg MCWarmPool`
checks one run, `tlapm WarmPoolProofs.tla` the proofs.

## Inventory

**Sandbox store** (`store.go`). State: map name → `*Sandbox` (state, detach
time, expiry, phase, Observed flags), pool size, last sync, mismatch count, one
RW lock. Operations: Upsert, Remove, Prune, Get, List, ClaimIdle, pool size,
Status, ResetObservations. *Hard:* the lock protects the map, not the objects;
ClaimIdle and Get give out pointers that are written and read after the lock is
released, and an Upsert replaces an object another goroutine still writes to.
*Correct when:* a pod is claimed by one request at a time; a claimed pod is not
offered again; Prune drops only dead names.

**HTTP handlers** (`handlers.go`). One goroutine per request over store and API
server. `handleProvision`: ClaimIdle, patch the pod, on error back to idle, else
record detach time and expiry, Upsert, kick. Delete, restart, kill-all-claimed:
API Delete, then `store.Remove`. PUT pool size: patch the Deployment, then store. Metrics
reset. The rest (lists, logs, events, status proxy, UI) only reads.
*Hard:* API calls between lock sections; errors that come back although the call
was applied; cancelled clients. *Correct when:* a 200 is only answered for a
detached pod, a failed claim does not lose a pod for ever, no handler blocks on
the reconciler.

**Reconciler** (`reconciler.go`). One goroutine: ticker (1 s) or kick → sync:
List pods, read the Deployment, fetch metrics, merge each pod with its entry and
Upsert, Prune, gc, gcCompletedPods. *Hard:* everything after List works from an
old list against a store that moves on. *Correct when:* the store converges to
the cluster, gc takes only pods whose time is over, and takes them.

**Controller process** (`main.go`). Pool size from the Deployment or the
environment, kick channel of capacity ten, signal → context cancelled → five
seconds of shutdown. *Hard:* nothing of the store survives a restart.

**Controller metrics** (`metrics.go`). Global histograms, re-registered by a
reset, observed by sync and handlers. *Hard:* concurrent resets and
observations. *Correct when:* one registration per name, no panic, quantiles agree with
their definition.

**Terminal bridge** (`terminal.go`). WebSocket ↔ exec streams, resize messages
mixed with input; one goroutine of the exec client copies stdin. *Hard:* a message
is split over several Reads; three parties may end the session, and a goroutine
sits in a blocking read. *Correct when:* the shell gets what was typed, once and in
order, and every session ends without leaving the goroutine behind.

**Sandbox workload** (`sandbox/main.go`, `probe.go`). Waits for its own label to
become `warmpool=false`, then runs phases of load; shared status for probes.
*Hard:* the label's file is late, the container restarts, SIGTERM comes in any
stage. *Correct when:* the workload starts after a detach only, and then does
start, and a SIGTERM ends it without waiting for anything to run out.

**Sandbox WebSocket session** (`sandbox/ws.go`) and **WebSocket server**
(`ws-server/main.go`). One connection per claimed sandbox (ADR-005), ping/pong,
reconnect; the server counts connections. *Correct when:* at most one connection
per sandbox, the count returns to zero, no goroutine stays behind.

*Hard:* one loop, a reader goroutine per connection, half-open handshakes, dead
connections nobody is told of.

**Benchmark and tests** (`app/tests`). Parallel workers count results under a
`mkdir` lock. **Dashboard UI, sandbox metrics, cluster scripts**: no protocol
state; not modelled.

How they interact: handlers and reconciler share the store (by reference) and the
API server; handlers kick the reconciler through a channel; the sandbox learns
of its claim only through its label; the ReplicaSet replaces a pod that is
detached, because the patch empties its `ownerReferences`.

## WarmPool: the core

`WarmPool` composes `KubePods` (variable `api`) and `SandboxStore` (variable
`store`) with the handlers (`req`, `reap`) and the reconciler (`syncPc`, `snap`,
`live`, `draft`, `reap[GC]`). A step ends where the code takes the store's lock
or calls the API server; all steps of all goroutines interleave.

| code | model |
| --- | --- |
| `handleProvision` 114-194 | `Refuse`, `Provision`, `Detach` / `DetachFails`, `Rollback`, `Record`, `Grant` |
| patch applied after its error was reported | `LateDetach` |
| `sync` 80-204 | `SyncStart` (List), per pod `SyncMerge` (Get and the fresh object), `SyncUpsert`, then `SyncPrune` |
| `gc` 249-286 | `GcSelect`, `ReapDelete`, `ReapRemove`, `ReapFails`, `GcDone` |
| `gcCompletedPods` | `SweepCompleted`, `SyncDone` |
| delete, restart, kill-all-claimed | `HandleDelete`, `HandleRestart`, `DeleteAllClaimed`, then the same `Reap*` steps |
| the process dies and starts again | `Restart` |

Pointers. `ClaimIdle` returns the object in the map; `handleProvision` keeps
writing to it while sync may have put a fresh object in its place. An entry's
field `by` names the request holding the very object the map points to, so
`Record` reaches the map only while `by` is its own request; `Grant` and
`Rollback` put the request's object back, whatever the map held.

Abstractions, each a choice of detail and not of control:

- A pod's phase and container states are four classes, the ones sync and gc tell
  apart. Names are used once (a ReplicaSet's names are random).
- A lifetime is a number of ticks; parsing is left out, the two-hour clamp and
  negative lifetimes are not. The RFC3339 annotation's precision is one tick.
- `Record` is one step: of the two fields written through the pointer, a sync
  between them could carry over one only, a moment `ClockIsKept` excludes by
  its premise (no request holds the pod).
- `Rollback` takes the write of `state` (handlers.go:161) and the Upsert (162)
  as one step: what is lost is a second claim of the same object in that gap.
- gc's switch reads entries after List; only sync writes active and failed
  objects and never again afterwards, so each entry is judged at List.
- A sync whose List or Deployment Get fails changes nothing in `WarmPool`;
  `ControlLoop` models it.
- A patch may be applied late, a Delete only at the time of its error.
- `gcCompletedPods`' age limit is replaced by a free choice of the pods it takes.
- Each request and the container metrics, Observed flags and counters: a request
  is served once, the latter are left out (the flag of the schedule metric and the
  histograms are in `Metrics`).

`KubePods` is external: creation, graceful scale-down of pods the ReplicaSet
owns, readiness, failure, exit, patch and forced delete, as the controller uses
them. Pods that exit stay exited.

`SandboxLease` is the promise without store, sync or API calls: a pod waits,
is leased, never returns to the pool, and a deletion needs a *warrant* at the
time it was decided (an expiry that has passed, an age, an exit, a client). It
is deliberately as weak as the code: leases are not exclusive (see findings).

## ControlLoop

`ControlLoop` is the machinery around a sync: Run's select over context, ticker
and kicks, the drain, the sync as its List, its Deployment Get and its
SetPoolSize, PUT /api/pool in its two halves, and the process (`Signal`, `Exit`,
`Start`). Handlers appear as *change something, then kick*; `unseen` is the set
of handlers whose change no successful List has followed. A kick is one token in
a counter of at most `KickCap`. A PUT that reports an error but was applied also
stands for anybody else who scales the Deployment. The rest of a sync is in
`WarmPool`; a step here is a sync's single call.

## Metrics

`Metrics` takes every step of `WarmPool` and adds what the schedule metric needs:
`mark`, the flag `ScheduleObserved` of the object in the map, `held`, that of the
object a request holds (`ClaimIdle` hands out the map's own; `Grant` and `Rollback`
put it back, flag included), and `fresh`, that of sync's new object. `counted` is how
often a pod's start was observed. `MergeFlag` is reconciler.go:157-198 in the same
step as `SyncMerge`.

`POST /api/metrics/reset` is a client with a program counter: per histogram
`Unregister`, `Register` (or `RegisterPanics`) and `Assign`, then `ClearFlags`. Instances of a histogram
are numbered in the order they are made; `hist` is the one the Go variable holds,
`shown` the registered one. `Unregister` goes by the descriptor, as the client
library does: it takes out whatever instance is registered under that name. A
panic ends the request, net/http recovers, the process goes on.

`RecountNeedsReason` is as strong as the code is. A pod's start is counted once, and again
only for a reason. A reset clears the flags of the objects in the map (one count each). After
a reset an object with its cleared flag may come back: a request that fails or is answered
puts its own into the map again (`PutBackBy`, one count each). And a deletion may overtake sync: the handler's
Delete and Remove (handlers.go:324, 297) come between sync's List (reconciler.go:80) and its Get (139),
sync finds no entry and takes the pod for one it has never seen. Such a pod is gone, so no later List has
it and this happens at most once to a pod. Pods that are being terminated, failed claims, stale lists
and prunes are no reasons. A reset can also be missed (sync copied the flag before it and
upserts after it), and since the histograms are replaced before the flags are
cleared a pod may be counted twice in a new histogram. `ReadyObserved` is written in
several places and never read; it is left out.

## Quantile

`histogramQuantile` over integers: bounds in hundredths of a second, `q` in percent.
The rounding to hundredths is modelled (for bounds in hundredths the rounding of a
bound to thousandths changes nothing), floating-point error is not. `obs` is what was
observed since the histogram was made (`Observe`, `Replace`); the buckets' counts are computed from it, and it
is the reference: `QuantileInBucket` says that the estimate lies in the bucket of the
observation of that rank, `PercentilesOrdered` that the summary is monotone. The flags and the
registry do not depend on the values observed, so `MCMetrics` lets TLC explore
`Metrics` with an empty histogram and the histogram with `Metrics` at its start.

## Sandbox and WsSession

`Sandbox` is `main` of the sandbox: `pc` follows it from `waiting` (`waitForDetach`)
through `detached`, `armed` (past `signal.Notify`) and the phases; `hold` and `burn` are
the two branches of a round of `phaseLoadLoop`. Around it are the label (`Claim`), the
file of the downward API that follows it later (`RefreshFile`), deletion, SIGKILL and
crash, and the restart of the container. In `waiting` and `detached` a SIGTERM has its
default action, since the code has not asked for it yet. A labels file that cannot
be opened counts as detached (main.go:411-413), which `misread` remembers when the file says
otherwise; so does a file without a warmpool line (main.go:425, `file` = `"bare"`). In local mode there is
no file, and no pod to claim.

Between two phases main looks at ctx (main.go:496, 506: `Look`) and then shows the next phase
(main.go:288, 194: `Begin`); at `toDisk` and `toLoad` it is between the two, and the goroutine of
main.go:464-470 may cancel there as anywhere else. The same holds of the download, before which there is no look at all. So a phase
may begin after the cancellation. The history variable `late` counts such phases and guards no step;
`OnePhaseOnceCancelled` says that a process begins one at most, since the next look comes first.

`WsSession` composes it with `wsSessionLoop` and `wsConnect` (`ws`, `cur`), a reader
goroutine and an `errCh` for each connection, `handleWS` on the server (`server`,
`active`), and the network (`cut`). `DialHalf` is a handshake whose answer comes too late:
the server has upgraded and counts, the client dials again. So `OneConnection` is about the
sandbox's side; the server may for a while hold a second one, and `NothingIsLeft` says
that it ends. Pings and pongs only move counters that are logged: what matters is
when writing one fails. When the process ends, the kernel closes its sockets
(`SessionDies`); `main` does not wait for the session's close frame.

## Terminal

`Terminal` is `handleTerminal`, the goroutine that copies `wsStream.Read` to the shell and
the browser. `Buf` is what one Read takes, a message is a sequence of characters of
which only the opening brace is told apart. `ShellReadsKeys` says of every moment where the
messages were cut: up to some message everything has been read, `cut` marks where the keys of each
of those end in what was read, and the others are still in the WebSocket. What a user types starts with a brace as
well as a resize message does: such a message is dropped, and `Keys` says exactly that
only those are. The context of a session is not cancelled when the browser leaves
(the connection is hijacked): the end of stdin ends the shell, or the 30 minutes do.

## Runs

| run | instance | shows |
| --- | --- | --- |
| WarmPoolClaims | 1 pod, 2 requests, 2 ticks | claims racing with each other, with sync, with gc: `ActiveIsClaimed`, `DeletionsAreDue`, `SettledIsFinal`, `ClockIsKept`, and the refinement `ImplementsLease` |
| WarmPoolPods | 2 pods, 1 request, 1 admin, 1 restart | lists against pods that come and go: `PruneDropsOnlyDead`, the refinement with deletes and a restart |
| WarmPoolReaping | 1 pod that may fail, recover, exit; 3 ticks; fairness | `GcSparesPool`, `DeletionsAreDue`, `ClaimsEnd`, `GhostsVanish` |
| ControlLoop | 2 handlers, 2 PUTs, channel of 1, 1 restart; fairness | `NoLostKick`, `ChangesAreSeen`, `AnswersGiven`, `PoolSizeSettles` |
| WsSession | 1 core, 2 connections, 1 crash, 1 fault; fairness | when the workload starts and stops, the session's connections on both sides: the properties of `WsSessionProperties` |
| Terminal | all messages of up to 3 characters, 2 of them, Reads of 1; fairness | `ShellReadsKeys`, `SessionsEnd` |
| Metrics | 1 pod, 1 request, 1 admin, 1 restart, 2 clients with a reset each; buckets 0.1, 0.25, 0.5 s, up to 4 observations | `RecountNeedsReason`, `OneClientIsSafe`, `ExposedAtRest`; `QuantileInBucket`, `PercentilesOrdered` |
| WarmPoolDoubleClaim, WarmPoolLostExpiry, WarmPoolScaling, WarmPoolRestartExpiry, MetricsReset | 1 pod | counterexamples to five promises, see findings |

`InductiveInvariant` and the type invariants are checked in these runs too.

Why these bounds are enough. The races are about one pod: two requests, a sync
between its Get and its Upsert, and a second sync are enough for every overlap
of two claims, and the code has no step that relates the entries of different
pods except the list and Prune, which `WarmPoolPods` runs with two. Two ticks
separate *not due*, *due* and *past due* for lifetime 1; `WarmPoolReaping` adds a
lifetime already over and one that is clamped, and enough ticks for the stale
rule (`StaleAge` 1). One restart puts an empty store against every state of the
cluster. A channel of one is full with one kick, and two handlers make the
second be dropped; capacity ten only repeats that (and the theorem holds for any
capacity). The safety theorems below hold without any of these bounds but the
clock's and the restart counter's, which are arbitrary constants there.
In `WsSession` two connections are a new one beside one that is not done on both sides
yet, the only overlap the loop can make; one fault after one crash puts a cut, a time
limit or a server restart against every stage of both sides; one core makes `burn` and
`hold` differ. In `Terminal` Reads of 1 split every message, also right before a brace.
In `Metrics` two resets are what overlaps, one request is what puts an older flag back
while sync copies another; observations lie on, between and beyond the bounds.
`CHECK_DEADLOCK FALSE` is said where a system may stop: a bounded clock, a pod
that is gone, a terminal session that is over.
`MaxTime` and `MaxRestarts` stop the clock and the restarts, so claims whose
clock lies beyond `MaxTime` are excluded from `ClaimsEnd` by `OnTheClock`.

Every passing run's properties have a mutant in the modules (the operators under
*Mutant:* comments): a plausible slip in the code that TLC finds violated.

## Fairness

- `WarmPool`: weak fairness of the reconciler's next step (its goroutine always
  has a ticker's tick to wake it), strong fairness of gc's Delete of each pod (the API
  server refuses neither it nor the List for ever; gc retries each second), weak fairness of
  time. Nothing of clients, requests, patches, the ReplicaSet or the kubelet.
- `ControlLoop`: the ticker fires, the loop's goroutine runs, `select` does not
  pass over the ticker for ever, List and Get do not fail for ever, a PUT whose
  patch returned goes on, a process that got its signal ends and is started again.
  `AnswersGiven` assumes only that the handler's own goroutine runs: a send that
  could block would violate it.

- `WsSession`: every goroutine that can go on does (after its look at ctx main begins the next phase), the kubelet refreshes the file and
  starts the container, TCP gives up on a dead connection (`PingFails`, `ReadFails`,
  `ServerEnds`), and, strongly, a dial succeeds again and again as long as the session is not
  told to stop. Nothing of crashes, deletions, faults, failing polls, and nothing of
  timers: that a download, a write, a hold or a worker's deadline is over. `StopsPromptly`
  therefore says that a SIGTERM ends the process *without* waiting for them.
- `Terminal`: the copying goroutine runs, the exec client notices that the shell is gone, the 30
  minutes pass. The shell need not exit and the browser need not leave.

## Proofs

`WarmPoolProofs` proves, for any sets of pods, requests and admins, any
lifetimes, ages and bounds:

- `TypeCorrect`: every variable keeps its shape; a request being served holds a
  sandbox (the nil check of handlers.go:143).
- `Invariance`: `InductiveInvariant`.
- `ActiveIsClaimedAlways`, `GcSparesPoolAlways`, `DeletionsAreDueAlways`: the
  invariants of the same names.
- `PruneIsSafe`, `SettledIsFinalAlways`, `ClockIsKeptAlways`: the action properties. A claim is
  settled only once no request holds the pod any more, so what an older request's Rollback may
  still do to a pod is outside the last two (`GhostsVanish` and `ImplementsLease` cover it).

The argument. None of the properties is inductive: gc deletes because of what the
store says, the store says what sync upserted, sync upserted what it merged from
a listed pod and an older entry, and that entry was written through a pointer.
So each fact must hold of *every copy* the program makes. `InductiveInvariant`
says so in six parts: `OnlyCreatedPods` (copies name pods that exist or existed, and what the
cluster says of a pod that was never created is nothing),
`UnlistedPods` (while sync works, a pod not on its list is dead or unheard of),
`ClaimedCopies` (every copy that calls a pod active or detached is right, because
the label never turns back), `SettledCopies` (against an active entry, sync works
from a list that shows the pod detached and its fresh object keeps the clock) and
`HonestTimes` (every expiry and detach time in any copy goes back to a request that
claimed this very pod) and `DetachedRequests` (a request past its patch has a pod whose
label is turned). `PruneIsSafe` needs the second, `SettledIsFinalAlways` and
`ClockIsKeptAlways` the fourth, the others the third and the fifth.

`LeaseProofs` proves `LeaseImplemented`: `WarmPool` under the mapping of
`WarmPoolProperties` implements `SandboxLease`, for the same constants. A pod's stage is
read off the cluster (`LeasedPod`), a lease off its request (`LeaseState`), and `DoomOf` collects the
deletions that are decided and not done, terminating pods and exited ones. Most steps change
nothing the mapping shows (`PodKept`, `LeaseKept`, `DoomKept`); what is left is a lemma for each
way the promise moves: `ProvisionClaims`, `PatchDetaches` (also for the patch applied after its error
was reported), `AnswerIsSeen`, `AskIsJudged` and `GcSelectIsJudged` for the decisions, `RemovalEnds` and
`SweepEnds` for the deletions, `KubeImplements` for the cluster, `RestartForgets`. The invariant is
needed where the controller acts on its store and the promise speaks of the cluster: an answer is
given for a detached pod by `DetachedRequests`, and gc's choice has a warrant because the entry's
times are those of a claim of this very pod (`HonestTimes`) and an active entry is claimed (`ClaimedCopies`).

`ControlLoopProofs` proves `LoopTypeCorrect` and `KicksAreKept` (`NoLostKick`,
inductive as it stands) for any number of handlers and any capacity: a dropped
kick finds another in the channel, and every path that empties the channel leads
to a List or ends the process.

`WsSessionProofs` proves, for any number of cores, any finite set of connections and
any positive capacity of `errCh`: `SessionTypeCorrect`, `WorkOnlyWhenClaimedAlways`,
`OnePhaseOnceCancelledAlways`, `OneConnectionAlways`, `ReaderNeverBlocksAlways`,
`ShownIsHeldAlways`, `ActiveCountsAlways`. What makes them inductive is `Stages`: how `main`'s place,
the label, the file and the session hang together (the session runs beside the
phases only; past `waiting` there was a claim, a pod outside any pool or a misread file), and
`LateCounted` for the phases begun late: as long as main may still begin one, none has been. Both were
checked by TLC first. `ActiveCounts` needs a lemma's worth of cardinality for each way a
connection begins or ends.

`MetricsProofs` proves that `MetricsSpec` implements `WarmPool`'s `Spec` (`MetricsLeaveThePool`), so every
theorem about the pool holds with metrics and resets beside it, and
`MetricsTypeCorrect`, `ExposedAtRestAlways` and `OneClientIsSafeAlways` for any number of
clients and resets. The first rests on `Numbered`; the second on `GapIsFilled` (while
a histogram is unregistered, some reset is between its `Unregister` and its `Register` of it); the
third on `LoneResets` (what a client that is alone finds at each of its steps).

`ScheduleProofs` proves `RecountNeedsReasonAlways` for any finite set of requests
(`RequestsAssumption`, the only theorem that needs it: the bound counts requests) and any number
of resets. The property is not inductive, since a count may be about to happen. At any moment one
flag decides whether the next sync counts a pod, that of sync's fresh object while one is about to be
upserted and that in the map otherwise; while it is unset the pod is `Due`. For the pods that sync has or may
get on its list (`Open`) `Budget` says
that what was counted and what is due stay within an `Allowance` that grows with each reset and
each request that has put an object back. `MergeFlag` counts and sets the flag, so `Due` pays for
the count; a reset or a request that puts back an unset flag makes a pod due and raises the allowance
by the same. Before the first reset every object from which an open pod could come back as idle is marked
(`Marked`), so putting one back makes nothing due, which is why the allowance is one there. A deletion does
unset the flag, but only of a pod that is gone: `Reserve` gives such a pod one count beyond its allowance,
which only a sync that still has it on its list can use, and no later list has it (`ListedWhenLive`).
Both invariants were checked by TLC first; without the term for the requests, or without the one for
pods that are gone, `RecountNeedsReason` fails.

`TerminalProofs` proves `TerminalTypeOKAlways` and `ShellReadsKeysAlways` for any set of messages,
any number of them and any size of a Read. `DeliverSplits` says that a Read neither loses nor doubles a
character, `OneMoreMessage` extends the cuts by one when a message is taken from the
WebSocket. The property is stated by cuts and not by a recursive
concatenation for that reason: what a recursive definition computes needs induction over data,
while the existence of a cut is carried from step to step.

`QuantileProofs` proves for every histogram that the estimate is monotone in the
percentile (`QuantileIsMonotone`), and from it and from where the loop stops, for
whatever bounds and observations, `PercentilesAreOrdered` and `QuantileIsInBucket`.

The assumptions are the named ASSUMEs of the modules: lifetimes are integers, the
nil values differ from the values, capacities and bounds are natural numbers, bucket
bounds do not decrease, in `Metrics` finitely many requests are made, in `Terminal` a message is a
sequence of characters and a Read asks for one byte at least. TLC evaluates them in each run.

Every invariant and every action property of a passing run is a theorem. Only model-checked: liveness (`ClaimsEnd`, `GhostsVanish`, `ChangesAreSeen`,
`AnswersGiven`, `PoolSizeSettles`, `StopsPromptly`, `ClaimStartsWork`, `SessionRecovers`,
`NothingIsLeft`, `SessionsEnd`), which needs ENABLED and fairness and is out of TLAPS' reach
here.

## Findings

1. **Two clients can get the same pod** (`ExclusiveClaims`). sync's list shows the
   pod still in the pool; a claim is made and granted; sync then reverts the entry
   to idle and the next request gets the same pod. store.go:131-133 promises that
   two callers cannot claim the same sandbox. ADR-007's failsafe reverts on
   purpose when store and label disagree; here it is the list that is old.
2. **A claim can lose its clock** (`ClaimsAreReapable`). sync's Upsert lands after
   `handleProvision` recorded the expiry, with an object built before: active, no
   expiry, no detach time, so none of gc's rules about its lifetime reaches it (contrary to
   reconciler.go:247-248) and it lives until the pod fails, exits or is deleted by a client.
3. **Scaling down can end a granted sandbox** (`GrantsSurviveScaling`), if the pod
   was being terminated when it was claimed (contrary to
   docs/specs/controller/integration-spec.md:86).
4. **A restart forgets expiries** (`ExpirySurvivesRestart`): a claim of five minutes
   then lives until the 24-hour rule (contrary to integration-spec.md:126).
5. **Overlapping resets lose a histogram** (`RegisteredIsObserved`). One reset registers
   its instance and is overtaken before it assigns it; the other takes that instance
   out again and registers and assigns its own; then the first assigns. What is
   observed from then on is not what `/metrics` shows, until the next reset. In another order the
   second registration panics and the request ends half-way. metrics.go:57 says that
   "resetMetrics re-registers histogram metrics, effectively zeroing them."
   `OneClientIsSafe` and `ExposedAtRest` say what does hold.

Met on the way, without a run of its own: the terminal drops an opening brace that is
typed at the start of a message, and xterm.js sends each key as a message of its own
(terminal.go:102-104 takes it for a resize; index.html:1235 says "Forward terminal
input to WebSocket"). `ShellReadsKeys` states what does arrive. And reconciler.go:191 observes a
pod's start "when pod first becomes Ready", which a deletion that overtakes sync breaks: the start of a
pod that is gone is counted once more. `RecountNeedsReason` states the bound that does hold.

Properties that mention clocks or settled claims say what still holds around
these: `ClockIsKept` starts from a *settled* claim, `ClaimsEnd` from one on the
clock.

## Plan

Done: the core (`WarmPool` and its parts), `SandboxLease`, `ControlLoop`, the sandbox
with its session and the server, the terminal, the metrics, the proofs of their
safety and of the refinement. Next, most important first:

1. `ReplicaCount`: Deployment replicas against pods owned, claimed and recreated:
   what restart of a claimed pod does; composes with `KubePods`.
2. Finer steps in `WarmPool`: `Rollback` as the write through the pointer and the
   Upsert that follows it, with two requests that hold one object.
3. `Claim` of `Sandbox` tied to `WarmPool`'s patch of the same pod.

RECURSIVE operators stay out of every module meant for proofs.

## Not modelled

Formatting, logging, the UI, HTTP routing and parsing, the container metrics
(usage numbers shown in the lists), the read-only handlers, leadership (there is
one replica of the controller), the cluster scripts and the dashboards: they keep
no state the properties speak of. The sandbox's network probe (`probe.go`) and its Cloud
Monitoring client (`sandbox/metrics.go`): a loop beside the others that only shares the context.
The CPU tier in the status, the terminal's output, the store's last sync and mismatch count:
written in one step and read by a status page. The benchmark's lock: a test script. Kubernetes itself is modelled only as used.

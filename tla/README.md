# A verification development for RMS-Gate

RMS-Gate is a plugin for the Gate Minecraft proxy: it balances players over
backends, starts servers on demand and stops idle ones through MCSManager, and
checks a whitelist and permissions. Paths below are relative to the repository,
`manager.go` is `internal/dynamicserver/manager.go` unless said otherwise.

## 1. Inventory

| Component (source) | State | Operations | What is hard |
|---|---|---|---|
| **Backend** (`internal/loadbalancer/backend.go`) | atomics `currentConns`, `failCount`, `successCount`, `healthy`, `disabled`, `trustCoeff`; `players` and the latency window, each under a mutex | availability, player tracking, outcome recording, scores | every field is its own critical section: nothing spans two of them |
| **Dial / trackedConn** (`server_info.go`) | none of its own | `Dial`, `Close` | any number of dials run at once, with up to `dialTimeout` between choosing a backend and counting the connection |
| **Strategies** (`strategy.go`) | round-robin counter | `Select` | `filterAvailable` is a scan, not a snapshot |
| **Health checker, admin commands** (`loadbalancer.go`, `main.go`) | the loop's position and `wasUnhealthy`; `servers` map | `checkAllBackends`, `DisableBackend`, `EnableBackend`, registration | shares `failCount`, `successCount` and `healthy` with the dials |
| **History** (`history.go`) | EMA per backend and quarter of an hour, SQLite rows | `Record`, `HistoricalScore`, asynchronous saves | saves read a shared record without the lock and may land out of order |
| **Start on demand** (`manager.go`, `onServerPreConnect` in `main.go`) | `startingServers`: per server a channel `done` and a `result` | `EnsureServerRunning`, `waitForServerReady`, `checkServerConnectivity` | single flight among players, late callers, lost API answers, crashes of the instance, shutdown of the proxy |
| **Idle shutdown** (`manager.go`, `/dserver` in `main.go`) | `shutdownTimers`, `serverConfigs` (toggle, protection period), timers and their callbacks | idle check every 10 s, `scheduleShutdown`, `cancelShutdown`, `/dserver delay`, `/dserver autoshutdown` | check, callbacks and commands hold `m.mu` for single map accesses only; an HTTP call lies between test and arming |
| **MCSManager client** (`internal/mcsmanager/client.go`) | none | `StartInstance`, `StopInstance`, `GetInstanceStatus` | a failed status call answers 2 ("starting") |
| **Minecraft ping** (`internal/minecraft/ping.go`) | none | `MCPing`, `MCPingConn`, VarInt codec | the deadline is set anew after the dial |
| **Permission manager** (`internal/permission/manager.go`) | level cache with one expiry | `GetPermissionLevel`, `fetchPermissions` | concurrent refreshes, answers overtaking each other, stale answers on error |
| **Whitelist** (`internal/whitelist/checker.go`) | none | `Check` | – |
| **Configuration** (`internal/config/config.go`) | read once | `LoadConfig` | fields missing in the file stay zero: defaults are not merged |

Interactions: Gate calls `Dial` and `Close` on its connection goroutines and
`onServerPreConnect` on event goroutines; the health checker and the idle check
are one goroutine each; every timer callback is one more. `EnsureServerRunning`
and the idle shutdown meet only in the MCSManager instance and in the proxy's
player list. The load balancer and the dynamic server manager meet in
`checkAnyBackendReachable`, which reads the list of backends.

What makes each part correct, in short: connections are counted exactly and the
limit overrun is bounded; health converges to what the backend does and recovery
is earned; one start at a time, everyone answered, a positive answer true; an
idle server is stopped, and one that is protected, switched off, in use or being
started is not; a permission level is never older than a lifetime and a fetch; the
history's rows heal and survive crashes but for one sample; a ping ends and
believes correct answers. Where the code does not give what it promises, a run
shows how it fails (section 4).

## 2. Modules

| Module | Models |
|---|---|
| `Backend` | the state of the backends and its methods, as conjuncts of the steps that call them |
| `LoadBalancer` | `Dial`, `Close`, the checker, `/lb disable` and `/lb enable` over `Backend`, for one server |
| `LoadBalancerRecovery` | `LoadBalancer` with history variables: pings passed in a row since a backend went down, and whether the checker's decision under way was taken during a race |
| `LoadBalancerProofs` | theorems about the two |
| `HealthScore` | the strategies and scores as functions of one snapshot of the backends |
| `HistoryStore` | `Record`, the unlocked saves, restarts and loading, for one backend and period |
| `HistoryStoreProofs` | theorems about it and about the strategies |
| `Instance` | what the manager does not own: the MCSManager instance, the server in it, the proxy's player list, and what each API call can answer |
| `SharedCall` | abstract: many callers share one call at a time and its answer |
| `ServerStart` | `onServerPreConnect` and `EnsureServerRunning` for any number of players |
| `ServerStartHistory` | `ServerStart` with a history variable: whose positive answers the server has gone down on since |
| `ServerStartProofs` | theorems about both |
| `IdleShutdown` | the idle check, timers, callbacks and `/dserver` commands |
| `IdleShutdownHistory` | `IdleShutdown` with history variables: what was meant to hold a timer back, what shields the server from the next one |
| `IdleShutdownProofs` | theorems about both |
| `DynamicServer`, `DynamicServerProofs` | `ServerStart` and `IdleShutdown` composed over one instance; theorems |
| `PermissionCache`, `PermissionCacheProofs` | `GetPermissionLevel` by any number of command handlers; theorems |
| `McPing`, `McPingProofs` | one status ping: deadlines, exchange, VarInt codec; theorems |
| `LoopTheorems` | what the proofs about loops over sequences rest on |
| `MC*` | definitions for TLC: symmetry sets and functions as constants |

### Correspondence and grain

*Backend / LoadBalancer.* The Go fields keep their names. A connection slot
(`Conns`) is a goroutine that dials, holds a connection and closes it; its `pc`
is its place in `Dial` (`select`, `dialing`, `connected`, `listed`, or `failed`,
`checking`, `marking`, `resetting`), `open`, or its place in `Close` (`uncounting`,
`closed`). One step is one access to a shared cell. `RecordHealthCheckFailure`
and `RecordHealthCheckSuccess`, `AddPlayer` and `RemovePlayer`, the two loads and
the two stores of a failed `Dial`, the checker's load of `successCount`, its
`SetHealthy(true)` and its `ResetSuccessCount` are all steps of their own. What
remains merged: the three loads of `IsAvailable` (no property relates what
they read); the checker's `IsHealthy` with its `SetHealthy(false)` (nobody else
sets it to true, so the outcome is the same); a change of trust with the step it
follows (only the checker writes it, and it is read only for scores); the end of a
ping with the load of `wasUnhealthy`. `failCount` and `successCount` saturate
`CounterSlack` above the thresholds they are compared with, which no comparison of
the code notices. Which available backend a strategy picks is
left open, so that the results hold for all five; `Select` may also return nil,
as `health-score` can when the checker changes candidates between filtering and
scoring.

*HealthScore.* What a strategy returns on a consistent snapshot. A backend is a
record of the values the code reads, with `AvgLatency`, `Jitter` and `Trend` as
inputs; fractions are exact where Go has `float64`. `int()` of a score that is
exactly whole may come out one lower in Go; that somebody is selected has more
room than that, and of two backends one point apart either may then win.

*HistoryStore.* The record of one backend and period and its row. `Record` holds
the mutex but the goroutine it starts does not, so averaging and counting are two
steps, and a save reads the fields one by one in either order (a data race; Go
fixes no order). Averages are represented by how many samples they contain. A
process may end and start again between any two steps. `alone` and `current` are
history variables.

*ServerStart.* One auto-start server; each player's handler has a `pc`.
The critical section that looks up and inserts the entry is one step (`Lead`,
`Follow`); `close(done)` wakes every waiter in one step (`Publish`) and the
deletion is another (`DeleteEntry`). The fields of the entry in the map are the
variables `done` and `result`. `Poll` and `Connect` are one iteration of their
loops. An API call is one step that may answer anything `Instance` allows, lost
answers included. Whether a UUID is configured does not change, so it is taken
as given; whether the proxy knows the server is the constant `Registered`. `outdated`, in
`ServerStartHistory`, follows every positive answer from its ping on: a fresh one
enters with each ping, a waiter has its leader's, and all that are held are
outdated at once when the server stops accepting. A later start begins with none,
so that it is judged on its own.

*SharedCall* is what `EnsureServerRunning` promises, without instance, polling
or locks: a call is begun by one caller, others join it, it lands with one
answer, whoever takes part leaves with that answer, also those who come after
the landing, and the next call begins only when this one has been cleared. `ServerStart` refines it (`StartIsSharedCall`): `CallerOf` and `Flight`
compute the abstract state from program counters, `done` and `result`.

*IdleShutdown.* Every acquisition of `m.mu`, atomic access and call is a step.
There is no clock: a protection period ends at any time, an armed timer fires at
any time. A missing entry of `serverConfigs` equals `enabled /\ ~protected`.
`Timers` is a pool of slots reused when a callback has returned. A timer cannot
fire before it is entered in the map unless `ZeroIdleDelay`: otherwise a delay
of seconds separates the two. Check and callback do nothing to a server the proxy
does not know (`Registered`). `SurroundingsStep` lets players come and go and the
instance be started by others.

*PermissionCache.* `now.After(cacheExpiry)` and the lookup under one read lock,
the fetch, the replacement of the map under the write lock, and the second lookup
are steps; between request and replacement lie the API's answer and any delay up
to the client's timeout. Time is counted in ticks, as ages that saturate where no
comparison tells them apart. `listing` is what the API knows, `changed` how long
it has known it.

*McPing.* One call, byte by byte; the clock runs from the call. Sending is two
steps (handshake, request). `GroupBits` and `IntBits` are 7 and 32 in the code
and scaled down together in the run.

*DynamicServer.* Replaces what each of the two halves assumes of its
surroundings (`StoppedElsewhere` in `ServerStart`, `StartedElsewhere` and
`PlayerJoins` in `IdleShutdown`) by the other half, and states that this is
sound: the composition implements the fair specification of either module.

## 3. Runs that pass

| Run | Question | Bounds, and why they are enough |
|---|---|---|
| `lb_overlap` | do counters stay typed, is an open connection always counted, how far is the limit overrun? | 2 backends with limit 1, 2 slots that may dial for the same player, 2 dials at once: the scan over the backends is not a snapshot, the second connection of a player takes over the name of the first, so a counter can drift up and stay there; thresholds of 1 failure and 0 successes, which keep every step of dial and checker and are no part of the question |
| `lb_recovery` | are counter and player map exact with one connection per player, when can a backend come back early, and does health converge? | 1 backend, 2 slots, 2 players, 2 dials (one can be stale while the other acts), thresholds of 2, counters up to 3: a player returns while its old name is still being uncounted |
| `start` | single flight; nobody waits in vain; everyone is answered; is a positive answer true, in the first start and in later ones; does it all implement the shared call? | 3 players: leader, waiter and a caller who comes after the broadcast; 2 attempts in each loop |
| `idle` | is an idle server stopped; do commands keep timers away once nothing is past its test; are entries of the map pending? | 2 timers (an orphan and its successor), 1 administrator, 1 player, crashes |
| `dyn_halves` | do the two halves meet each other's assumptions, with fairness? | 1 player, 1 timer, 1 administrator: the property is about single steps of one half, with the other half anywhere |
| `permission` | how old can a level be, in the cache and in a decision; do stale levels last? | 2 handlers, so that an older answer overtakes; 1 user (users share nothing but the map that is replaced as a whole); levels on either side of the limit, or absent; a lifetime of 2 ticks and a timeout of 1, so that a fetch spans a change, and expiry lies beyond it |
| `history` | what is a row worth after unlocked, failing, overlapping writes and crashes; can selection fail with what history says? | 2 saves at a time, so that one is torn or overtaken, 5 samples; snapshots of 2 backends, up, full or unhealthy, with latencies, trend and past at the extremes that cost points |
| `ping` | does a ping end, and when; is a correct answer accepted? | 5-bit integers in groups of 2 (up to 3 bytes, the last with 1 bit that counts, as 32 in groups of 7 have 5 and 4), packets up to 4 bytes, of which the lengths need 1 or 2; a timeout of 2 ticks |

Bounds in the models: `MaxDialing` (dials at once), `Conns`, `Timers`, the
saturation of the two counters and of `passed` (`CounterSlack`), `Saves`, `MaxSamples`,
`MaxPacket`, and `TrustStep` (10 in the code,
25 or 50 in the runs: trust is only bounded, and the theorems hold for any step). No run disables the deadlock check.

**Fairness.** `LoadBalancer`: a dial in progress (it has a timeout) and the
checker (a ticker, pings with a deadline) run on. `ServerStart`: a handler runs
on, since HTTP calls take at most 30 s, pings have a timeout, and the loops are
bounded. `IdleShutdown`: the idle check and callbacks run on, an armed timer
fires, a command once typed runs to its end. `PermissionCache`: handlers run on,
and time passes (strongly fair, because a tick has to wait for handlers that are
between two steps that take no time). `McPing`: time passes and a deadline cuts
off what it was set for; nothing is assumed of the server, and `PingEnds` in turn
is what lets the other models assume that pings return. Nothing is assumed of players,
administrators or the instance. `IdleServerStopped` states what it
needs of them as a premise: that commands end and that the calls to MCSManager
succeed from some time on.

## 4. Runs that show a disagreement

Each checks what a document or log line says; TLC finds what the code does.

| Run | Promise | Course of events |
|---|---|---|
| `lb_hung` | status by Minecraft ping, not just TCP (README.md:33) | between failing pings TCP dials succeed, and each resets `failCount` |
| `start_panic` | the sample configuration (README.md:113-120) | `pollIntervalSeconds` is 0, `waitForServerReady` divides by it |
| `idle_commands` | protection periods and auto-shutdown toggle (README.md:50-51) | the check is past its test, `/dserver delay` or `/dserver autoshutdown off` finds no timer to cancel, the timer is armed, fires and stops the server |
| `dyn_start` | start servers when players connect (README.md:48) | the idle check sees status 3 and nobody online while the leader still waits for connectivity (30 s by default, with pings of 3 s in between up to 75 s, against an idle time of 60 s) |

Courses of events that the models contain and that no run is spent on:

* two dials select the last free place before either is counted, so that
  "Connection limits" (README.md:40) are overrun; `OvershootBounded` says by how
  much at most;
* a ping may take twice its timeout, for `MCPingConn` sets the deadline again
  (ping.go:43), where ping.go:14 says "enforces a hard timeout";
* saves that overlap may land out of order, and the row keeps an older or torn
  sample until a save runs alone, where history.go:257 says "writes are
  immediate"; if the database cannot be read at start-up, the next sample of a
  period replaces what its row had collected;
* a refresh that fails answers with the level seen before it, although another
  handler may have stored a newer one meanwhile (manager.go:91-97 of the
  permission manager);
* a failed `Dial` sets `healthy` to false before it resets `successCount`
  (server_info.go:80-81), and the checker reads `successCount` before it sets
  `healthy` (loadbalancer.go:200-201): a checker that reads between the two finds
  the old count and brings the backend back, even if the dial resets the counter
  before `SetHealthy(true)`. `RecoveryEarnedOrRacing` says that this is the only
  way back without `HealthyAfterSuccesses` passed pings: `raced` notes whether a
  dial was between its two steps when the checker read;
* with `idleShutdownSeconds` 0 the timer may fire before `scheduleShutdown` has
  entered it in the map (manager.go:331, 358), and its entry then blocks every
  later shutdown (set `ZeroIdleDelay` to see `IdleServerStopped` fail);
* a player may join between the callback's count of players and the delivery of
  its stop command (manager.go:341-349).

## 5. Proofs

TLAPS proves the following for every value of the constants that the named
assumptions of the modules admit (finite sets of slots and players, thresholds
in `Nat`, and so on).

* `LoadBalancerProofs`: `TypeOK`, `NeverUndercount`, `OvershootBounded`,
  `TrackingExact`. Two parts of the inductive invariant carry it. `CountedCovered`: a counter is at least the
  number of slots that are open or in the middle of being uncounted, so no
  decrement is without a connection it stands for. `PendingBounded`: a counter
  plus the dials that saw its backend available and have yet to raise it is at
  most the limit plus `MaxDialing - 1`, since a dial joins the sum only when the
  counter was below the limit and at most `MaxDialing - 1` others are under way.
  `SlotsFilled` and `PlayersDistinct` tie slots to backends and players.
  Over the specification with history, `RecoveryEarnedOrRacing`: a success count
  never exceeds the passes counted by the history variable unless a dial is
  between its two steps of marking that backend, or the checker between its two
  of recording a failure (`Earned`); and once the checker has decided to bring a
  backend back, that decision keeps its reason until it is carried out, whatever
  dials do meanwhile (`CheckerKnows`).
* `ServerStartProofs`: `TypeOK`, `SingleFlight`, `WaitersHaveLeader` and, over
  the specification with history, `StartedMeansAccepting`. `DoneWhileDeleting`
  (the channel is closed exactly between the leader's two deferred steps) makes
  `WaitersHaveLeader` inductive. `EntryTellsAnswer` ties the published result to
  the leader's answer; `FreshMeansAccepting`: whoever holds a positive answer that
  is not outdated, on its way or arrived, has a server that accepts. It is
  inductive because a waiter's answer is outdated with its leader's
  (`AnswersHaveSource`), and no start inherits the answer of another.
  `StartImplementsSharedCall` proves the refinement step by step: every step of
  `ServerStart` is one of `SharedCall` or leaves the abstract state alone.
* `IdleShutdownProofs`: `TypeOK`, `EntryIsPending` (a new timer is in hand only
  at the insertion, and since the idle check alone inserts, its lookup stays
  valid) and, over the specification with history, `ShieldHolds` (a shield that
  stands has the idle check ahead of the test it will fail).
* `PermissionCacheProofs`: `TypeOK`, `CacheIsRecent`, `AnswersAreRecent`.
  `RepliesAreRecent` (an answer under way is as old as its request) is what the
  cache inherits when it is stored, in whatever order; `RereadsAtOnce` ties a
  handler's second lookup to the moment of filling.
* `HistoryStoreProofs`, the record: `TypeOK`, `FirstSampleIsFirst`,
  `SerialSavesLoseNothing`, `CrashLosesOneSample`. `ReadsAreSamples`: a save
  exists only after a sample was counted, so nothing it reads is zero.
  `AloneMeansAlone` and `OneBehind`: the only save since the last sample reads the
  record as it will stay.
* `HistoryStoreProofs`, the strategies: `StrategiesChooseWell`, for any number of
  backends with any latencies, trends, failures and averages, torn ones included,
  and trust between 50 and 100. That an available backend is found by
  `health-score` is arithmetic: the one with the least latency keeps all 40 points
  for it and loses at most 10 to its trend, so that it has 30, at worst halved by
  trust to 15, and history takes no more than 12, which leaves more than the -1 to
  be beaten (`RelativeIsBounded`, `SomeScoreIsGood`). `CandidatesAreUp` says that
  `filterAvailable` lists the available backends once each, `LoopKeepsBest` that a
  loop which keeps the better of two ends with the best.
* `DynamicServerProofs`: the composition implements the specification of either
  half, without its fairness: every step of the one half is a step of the other's
  surroundings, or shows nothing there (`IdleStepSeenByHandlers`,
  `PlayerStepSeenByIdleCheck`). `PromisesHoldTogether` then takes the invariants
  proved of the halves over to the whole.
* `McPingProofs`: `EndsInTime`, from the two deadlines alone; `TypeOK`, with
  `ReadingStops` (there is always a byte left to read where the code reads one);
  `ReadingInvertsWriting` and `HonestAnswerAccepted`. Values are split into places,
  powers of two of which TLAPS knows only how many subsets a finite set has
  (`PowerSum` follows from a bijection, `Places` from that). Written bytes are the
  quotients of a value by its places (`WritesGroups`, where the limit on packets
  being below the largest positive integer is needed: 1 MiB against 2^31), and
  `ReadsValue` follows `Value` from the topmost group down: what has been put
  together by the k-th is the value divided by the k-th place. `FailuresHaveReasons`
  (a ping that fails although the network did not has read a length that is none,
  or a whole packet that is no status response) is the invariant that ties the
  handshake to the codec.
* `LoopTheorems`: the least number principle, induction over the positions of a
  loop in both directions, and that the functions by which `FoldLeft` and
  `FoldRight` are defined exist and go through the positions in order. The
  library's induction theorems take a predicate as parameter; a set does
  instead of it.

What is assumed is in the modules: finite sets of slots, thresholds in `Nat`, the
constants' types; `HealthScore` needs `MinSamplesForUse \in Nat`, `McPing` that the
largest packet is a positive integer of its width.

Only model-checked: liveness (`DeadBackendDetected`, `LiveBackendRecovers`,
`EveryoneAnswered`, `IdleServerStopped`, `AnswersConverge`, `PingEnds`), and that
neither half of `DynamicServer` takes its fairness from the other
(`HandlersAreSurroundings`, `IdleCheckIsSurroundings`). Both are about what is
enabled, which is outside the prover's reach. `SelectFindsAvailable` states
what `StrategiesChooseWell` proves of any snapshot for those of the run. Every
other property of a passing run is a theorem.

## 6. Not modelled

* Whitelist checker: one stateless HTTP call per login, refusing on every error.
* Configuration loading, beyond the constants it leaves at zero.
* The latency window (`RecordLatency` and the averages over it): its results are
  inputs of `HealthScore`. With `windowSize` 0 it panics (backend.go:56).
* Registration of servers at start-up: sequential, before anything else runs.
* Parsing of command arguments and message texts. A protection period ends at any
  time in `IdleShutdown`, so an overflow or a misread duration is covered there.
* `LoadBalancer.Shutdown` and `Manager.Shutdown`, and with them
  `HistoryManager.Close`: `main.go` never calls them.

## 7. Plan

1. Start on demand of a load-balanced server: `ServerStart` with `LoadBalancer`,
   the first player after a start meeting backends still marked unhealthy.
2. The latency window with its average, jitter and trend, and `health-score` over
   candidates that change while they are scored.
3. `/dserver delay`: the arithmetic of its argument with its widths.
4. An abstract counter of connections that `LoadBalancer` refines, proved like
   `StartImplementsSharedCall`; several servers in one idle check, with a clock for
   how long it takes.
5. The invariants that need history variables (`StartedMeansAccepting`,
   `ShieldHolds`) taken over to `DynamicServer`, like those of
   `PromisesHoldTogether`.

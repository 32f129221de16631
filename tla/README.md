# TLA+ verification of ProductionHTTPServer

This directory holds the formal models of the server in `src/`: what is
modelled, which runs of TLC check it, and which theorems TLAPS proves about it.
Paths such as `main.cpp:107` are below `src/src/`; `README.md:60` is the
repository's own README.

## The system

One process with two threads. The **main thread** loads the configuration, starts
the monitor, opens the listening socket and runs an epoll loop; the **scheduler
thread** of the monitor probes the configured sites every second. They share the
metrics (under one mutex), the flags that stop them, and the descriptor table.
A **signal handler** interrupts either thread.

| Component | State | Operations | Used by |
|---|---|---|---|
| `Monitoring/MonitorManager` | `sites` (breaker, counters, cooldown, two time points), `running` | `loadConfig`, `addSite`, `start`, `stop`, `schedulerLoop` | `main` |
| `main.cpp` | `running`, `total_requests`, `server_fd`, `global_reactor` | event handler (heartbeat, accept, read, write), `signal_handler` | the process |
| `core/Reactor` | `epoll_fd`, `running` | `addFd`, `modifyFd`, `removeFd`, `run`, `stop` | `main` |
| `server/ConnectionManager` | connections: buffers, last activity | `add`, `get`, `exists`, `remove`, `updateActivity`, `sweepIdle`, `activeCount` | the handler; its source is **not in the repository** |
| `ip_tracking/IPTracker`, `security/ThreatDetector`, `security/IPBlacklist` | per address: window start and count; time of release | `recordRequest`, `getCurrentRate`, `isSuspicious`, `blockIP`, `isBlocked` | the handler |
| `metrics/Metrics` | `stats_map` per url | `recordSuccess`, `recordFailureType`, `recordFailure`, `getHealth`, `exportMetrics` | scheduler and handler |
| `http/HttpClient` | none (one call) | `checkWebsite` | scheduler |
| `threadpool/ThreadPool` | `tasks`, `stop`, `queue_mutex`, `condition` | `enqueue`, `shutdown`, worker loop | nobody in `main.cpp` |
| `security/sliding_window_limiter` | `requestLog` per address | `allowRequest` | nobody |
| `utils/Logger` | file name, mutex | `init`, `log` | nobody |
| `adaptive`, `config`, `observability`, `ip_tracking/RateLimiter.hpp` | empty files but one header of declarations | | |

What is hard here, and what makes each part correct (`PROJECT.json` lists the
hazards line by line):

* **Monitor.** Two files count the failures of a site, with two literals for one
  threshold; a breaker is closed, open or half open on top of a poll interval and
  a backoff that is computed in `int`; `now` is read before a probe of unknown
  length. Correct when the counters agree, an open breaker serves its cooldown
  (the code promises it only less the length of a probe), nothing of one outage leaks into the next, every site is probed for ever, and
  `stop` returns.
* **Thread pool.** A queue, a mutex, a condition variable, and a flag that is
  changed outside the mutex. Correct when every task runs once, in order, no
  wakeup is lost, and `shutdown` drains the queue and returns.
* **Server.** Edge-triggered epoll reports each change once; descriptors are
  closed and reused within one batch of events; a response may not fit; clients
  leave at any point; the signal handler closes the listening socket under the
  loop. Correct when no edge is lost, no event reaches the wrong connection,
  requests are answered completely or the connection closed, the limit of
  connections holds, and a signal ends the loop.
* **Rate control.** Four calls of one handler read the clock four times, windows
  are fixed, two thresholds sit in two files, and a block only stops new
  connections. Correct when an address is served within a quota, refused only
  beyond it, told 429 before it is blocked, and let in again after the block.
* **Sliding window limiter.** A log pruned from the front, and a comparison in
  `size_t` with an `int`. Correct when it grants exactly its limit in any window.
* **Metrics.** Sums over all checks next to percentiles of the last ones, an index
  that is a truncated product, a health computed from the health it has set.
  Correct when what is exported is consistent, a quantile is one, the health has
  its hysteresis, and whoever asks later is told what was alerted.
* **HTTP client.** Eight returns, six of which must close the socket, a parser that
  sees one `recv` at a time, timeouts per call instead of per check, and a signal
  handler that closes a descriptor number the client may have got meanwhile.
  Correct when no descriptor is lost, the status is the peer's, and a check of a
  silent peer ends.

## Modules

| Module | What it is |
|---|---|
| `CircuitBreaker` | abstract: a breaker per site decided by the length of its run of failures |
| `Monitor` | `MonitorManager`: main thread, scheduler thread, probes, time |
| `MonitorProofs` | eight theorems about `Monitor` |
| `TaskExecutor` | abstract: tasks start in order, once each; closing promises the rest |
| `ThreadPool` | `ThreadPool.cpp`: workers, callers of `enqueue`, the owner |
| `ThreadPoolProofs` | five theorems about `ThreadPool` |
| `Server` | `main.cpp`'s handler, `Reactor`, `ConnectionManager`, sockets, clients, the signal |
| `ServerProofs` | six theorems about `Server` |
| `Ages` | ages of past requests, and those within a window, as `Quota` and the limiters keep them |
| `AgesProofs` | lemmas about ages in order |
| `Quota` | abstract: at most `Most` grants of a caller in any window, a refusal only after `Least` |
| `RateControl` | `IPTracker`, `ThreatDetector`, `IPBlacklist` and the handler that calls them |
| `RateControlProofs` | three theorems about `RateControl`, one of them its refinement of `Quota` |
| `SlidingWindowLimiter` | `sliding_window_limiter` |
| `LimiterProofs` | two theorems about `SlidingWindowLimiter`, one of them its refinement of `Quota` |
| `HttpClient` | the phases and returns of `checkWebsite` |
| `Metrics` | `Metrics.cpp` as operators on the `SiteStats` of a url |
| `MetricsProofs` | lemmas about `Metrics`: the sort, the quantiles, the sums, the health |
| `Probing` | composes `HttpClient` and `Metrics` with the signal handler |
| `ProbingProofs` | six theorems about `Probing` |
| `MCMonitor`, `MCThreadPool`, `MCServer`, `MCRate`, `MCLimiter`, `MCProbing` | instances for TLC |

In each module an action is the code between two points where somebody else can
see or change something, named after the function or the branch it stands for;
the variables keep the names of the source. Operators whose name begins with
`Bug` are plausible mistakes in the definition after them: no action uses one,
the mutants in `PROJECT.json` put each in its place, and the property named there
must then fail.

**Monitor.** One visit of `schedulerLoop` to a site is `SkipOpen`, `SkipEarly`,
or `BeginProbe` followed by `ProbeSucceeds`, `ProbeFails` or `ProbeThrows`; time
may pass, and the main thread act, between a probe's start and its end. Since
`sites_mutex` is only contended by `addSite`, which `main` calls before the
scheduler exists, the mutex itself is not a variable. A time point is kept as its
age. `Metrics` is reduced to `consecutive_failures`; `getHealth` may give any
answer that counter allows, which contains what `computeHealth` does.
`opened_for` and `opening_check` are history, kept while a breaker is open: the
time since the failure that opened it was recorded, and the length of the check
that failed. The code has neither; its stamp `breaker_open_time` is a `now` from
before that check.
`NextCooldown` is the `int` arithmetic of line 160 with its wrap-around.

**ThreadPool.** `stop` is atomic and read twice per round, so the test of the
predicate (`Proceed`, `DecideToWait`), the start of the wait (`Park`) and the
second test (`Take`, `Exit`) are separate steps of a worker that holds the mutex.
A notification wakes only who is waiting at that moment.

**Server.** A descriptor's connection is its client. `ready` is epoll's ready
list: an edge puts a descriptor there, `epoll_wait` empties it and delivers what
still holds (`EpollWait`), or finds nothing deliverable and times out
(`Heartbeat`). Each `accept`, `recv` and `send` is a step, and clients, the
kernel and the signal act between any two of them. A request is a sequence of
pieces of which `end` completes the header; a response is a number of chunks.
`accept` may fail at any time; `spent` remembers that it has, and nobody has
connected since. `Killed` is SIGPIPE, which `send` without MSG_NOSIGNAL raises
once the peer has answered an earlier part with a reset. Whether an address is
blocked or over its rate is any answer here; `RateControl` says which.

**RateControl.** `recordRequest`, `isSuspicious`, `blockIP` and the comparison
that leads to `TooManyRequests` or `Respond` are steps of one handler, each with
its own reading of the clock: `Tick` may fall between any two. A connection is
only the address its descriptor belongs to (`client_ip`) while its request is to
come. `recent`, `verdict` and `told` are history: what was granted in the last
second, the answer to the last request, and the 429s of the window. Facts the
model makes visible: after a tick between `recordRequest` and `getCurrentRate`
the rate is 0, so one request more than the limit is served in a window that has
just ended, and a request that gets its address blocked may itself be answered
200.

**SlidingWindowLimiter.** One action is one `allowRequest` (prune, compare, log).
A key is an address at one limiter object, so that objects with different limits
are checked in one run. `AsSize` is the conversion of `maxRequests` to `size_t`,
which has `SizeValues` values.

**Quota.** Both limiters refine it with their history of grants: the sliding window
with `Least = Most = maxRequests`, the fixed windows with `Least` the limit and
`Most` twice the limit and one. Both bounds of the second are reached.

**HttpClient, Metrics, Probing.** Every call into the system is an action per
outcome. A `recv` brings a code after `HTTP/`, words in that place
(`RecvThrows`: `std::stoi` throws out of the thread and ends the process), or
neither. `Metrics` has a mutex around each function, so each is an operator.
`Sort` is what any sort gives: each sample at its rank, equal ones in the order
they came. The products of doubles in it are integer arithmetic here, which for
the constants of the code gives the same index for every window up to 1000
samples and the same comparison of the failure rate for every count up to 1000.
`Probing` calls one after the other as `schedulerLoop` does, while `Signal`
closes `server_fd`.

## Runs

| Run | Question | Result |
|---|---|---|
| `monitor` | do the two failure counters and the breaker agree; how long is a site with an open breaker left alone; is it the abstract breaker; is the backoff capped and monotone; is every site probed for ever, does a recovered site close, does `stop` return? | holds |
| `overflow` | is the cooldown always in range? | **no**, MonitorManager.cpp:160 |
| `half_open` | does one failure in HALF_OPEN reopen (README.md:110)? | **no**, it takes three |
| `pool` | is every task run once and in order, is no wakeup of `enqueue` lost, is the queue drained, are promised tasks run? | holds |
| `pool_shutdown` | does `shutdown` return (README.md:60)? | **no**, lost wakeup |
| `server_safety` | edges, stale events, interest, complete answers, the backlog | holds |
| `server_liveness` | are requests answered; does a signal end the loop; once events pause, are idle connections swept? | holds |
| `early_signal` | does every signal end the loop (README.md:60)? | **no**, main.cpp:41 |
| `accept_error` | are those behind a failed accept served, if no signal comes (README.md:49)? | **no**, main.cpp:110 |
| `rate` | what quota do the fixed windows keep; how far can a flood go on over connections that are open; does 429 come before the block; does a block end? | holds |
| `limiter` | does the log grant exactly its limit in every window, whatever the sign of the limit; does a caller that insists starve? | holds |
| `probing` | descriptors, status line, quantiles, consistency of what is exported, health and hysteresis, does a check end? | holds, where stated |

The violated ones are the entries of "findings" in `PROJECT.json`.

Some properties hold under a premise, which says where the code stops promising:
`IdleIsSwept` only if events pause (the heartbeat is the timeout of `epoll_wait`,
so steady traffic keeps idle connections alive); `CheckEnds` only if the peer does
not send a piece now and then for ever; `DescriptorsAccounted` only until a second
signal, since `server_fd` stays set after the first has closed it; `StatusIsThePeers` only if
the status line comes in the first piece. `HealthAgrees` has one exception: a site
that has just left SLOW is alerted as HEALTHY, and may be DEGRADED to whoever asks
next. What these premises leave out is in the model, and is a hazard without a
property in `PROJECT.json`, with the reason.

One known behaviour is part of a property and not a finding of its own. README.md:108
says a breaker is half open "after cooldown period". `breaker_open_time` is the
`now` of line 67, before the probe, so the cooldown includes the probe that failed:
`CooldownLessCheck` says the site is left alone for the cooldown less the length of
that probe, measured from the failure. A probe of 20 seconds (a peer that drips; each
call has its own timeout of a few seconds) uses up the whole first cooldown, and the
breaker is half open at the next sweep. Mutant `BugStampedOnce`, which stamps only
the first opening of an outage, violates the property; a property that compared the
stamp itself would not notice how old it was.

**Bounds.** `MaxOpens`, `MaxAge`, `TimeSteps` (Monitor), `MaxSpurious`
(ThreadPool), `MaxPieces`, `MaxIdle` (Server), `MaxChecks`,
`MaxSignals` (Probing). `RateControl` and the limiter need none: ages saturate, and
the counts are bounded by what the code does.

* Monitor: sites interact only through the loop, so two of them show every
  interaction; three openings reach the cap of 5 from a base of 1 (2, 4, 5), and
  an age saturates only above every threshold; an `int` of 8 bits is wide enough
  for them. `overflow` uses the code's 10 and 300 and a 16-bit `int`, which
  overflows at the twelfth opening where 32 bits overflow at the twenty-eighth.
  `ProbeFails` is not taken past `MaxOpens`.
* ThreadPool: two workers and three tasks let one worker run or hold the mutex
  and one wait while tasks queue up; a spurious wakeup lets one wake for nothing.
* Server: two clients and two descriptors let one connection end and its number
  be reused while the other is in the same batch. Two pieces in a request and two
  chunks in a response, with room for one, reach partial reads and partial
  writes. In `server_safety` a header may have two pieces, a third is too large; in
  `server_liveness` it has one, which keeps the graph small enough for liveness. One
  connection is idle at a time (`MaxIdle`).
  Clients reconnect without a bound, and 503 and 403 occur as refusals.
  `MAX_CONNECTIONS` equals the number of descriptors in these runs, so `AtCapacity`
  is never the reason for a refusal (with a third client and descriptor the graph is
  too large); since `Refuse` may happen at any accept, only `Admit` is larger for it.
  The limit itself is at work in `RateControl` (two connections, three descriptors),
  where `FloodIsBounded` depends on it. The violated runs have one client and one
  descriptor, which is all their traces need.

* RateControl: 50 and 100 become 2 and 3, so that the two thresholds differ and
  each is crossed by one and by more; two connections, so that one is open while
  the other gets its address blocked, over three descriptors; a window and a block
  of two ticks, out of step with each other, the shortest block `RateAssumption`
  allows (a block that is shorter than a window would not outlast a flood).
* Limiter: limits of two, zero and -1 (3 in a `size_t` of four values), and a window of
  three ticks, so that the log is full before anything expires and empties in
  part.
* Probing: a window of three samples, exceeded by five checks, so that extremes
  have left the window; quantiles 25, 50 and 75, which fall on and between samples
  for the sizes one to three; latencies below, between and above the thresholds;
  a failure rate crossed in both directions. Two descriptors, of which one is
  `server_fd`, so that a socket gets its number after a signal.

Symmetry (of clients, of descriptors) is used only in `server_safety`, which
checks invariants. Deadlock is not checked: the process may end, and a monitor or
a pool that has been joined, or clients that have nothing left to send, stop.

**Fairness.** Threads run: weak fairness of the scheduler thread, of each
worker, of the main thread. `Monitor` assumes that every probe ends; `CheckEnds`
of `Probing` says when that is so: calls into the system return or time out
(`Progress`), but peers owe nothing, and one that drips holds a check for ever.
The main thread finishes `loadConfig` and a `join` it began; nothing obliges
anybody to call `stop`, `shutdown` or `enqueue`, to connect, to send or to
signal. Clients eventually read what they are sent. `Server` also assumes
`[]<>(pc # "accept")`: the loop around `accept` has no bound, so connections
must not for ever arrive as fast as it takes them. In `RateControl` the handler
finishes a request it began and time passes; nobody has to connect. In the
limiter the callers of `NoStarvation` keep asking, since the property is about
those who do.

## Proofs

`tlapm` checks every proof. The theorems hold for all values of the constants
that satisfy the named assumptions, which TLC evaluates in the runs.

**Monitor** (`MonitorProofs`). The invariants are not inductive one by one. The
inductive invariant `BreakerInv` is the conjunction of types (with
`ProbeIsAllowed`: the site being probed is not open), `ClosedMeansFresh`,
and `StampPrecedesCheck` (the stamp of an open breaker is older than its opening
by at most the check that opened it); it holds for any sites, with or without
a common url, and so do `ClosedIsFresh` and `CooldownServed`. The latter is an
action property: only a visit that finds the breaker cooled down by its stamp
ends an opening, and the stamp is that much too old. `ProbeIsAllowed`
is what makes a failure in the abstract breaker legal. `IInv` adds
`FailuresAccountedFor`, which is arithmetic (the counter of Metrics is three
times the openings plus the rest) and, with `ClosedMeansFresh`, gives
`DownIsHandledByBreaker`; the same equation shows that every third failure is
the one that opens, which is the refinement `ImplementsBreaker`. These three are
proved under `DistinctHosts`: no url is configured twice (two entries with one
url share the counter of Metrics and not that of the breaker, so there the
comment at MonitorManager.cpp:101 would not hold). `CooldownRange` and
`BackoffMonotone` hold for every width of `int` above six bits, up to the
overflow; `WidthAssumption` spells out the powers of two, of which the provers
know nothing.

**ThreadPool** (`ThreadPoolProofs`). Type correctness includes that a worker has
a task exactly while it runs one. `EveryTaskOnce` needs it, and that the holder
of the mutex is the one worker in a critical section. `NoTaskSleptThrough` needs
that a worker about to wait has found the queue empty; `DrainedAtJoin` that a
worker that has left, left with `stop` set and nothing promised in the queue.
The refinement `ImplementsExecutor` combines them.

**Server** (`ServerProofs`). The six invariants are not inductive by themselves:
they need what the program keeps in step without saying so, which `IInv` adds:

* `Sockets`: a descriptor has a connection and all that belongs to one, or
  nothing, and no client has two. Without it a new connection could start with
  the interest or the buffer of the one that had its number.
* `Queue`: who is in the backlog is there once, and has no connection yet.
* `CleanSlate`: nothing is left of a connection that is over, so that who
  connects again starts with an empty wire.
* `Stages`: the handler reads a connection that watches for input and writes one
  that watches for output, and no other event of the batch is for it. This is
  what makes closing it in the middle of a batch harmless, and so
  `NoStaleEvents`.
* `Ledger`: where a request is on its way (on the wire, in the read buffer, as a
  response) it was asked for, and received plus unsent chunks are the whole
  response. `AnswersAreEarned` rests on it.

`NoEdgeLost` is the longest: each action either leaves what can be done for a
connection alone, or is an edge that puts it into the ready list, or belongs to
the handler, which stops only at `EAGAIN`. There is one step lemma per conjunct,
and under it the steps are grouped by what they do to connections: `Quiet` ones
leave them alone, `Drops` end the one in hand, and the rest (admitting, reading,
writing, what clients do) are taken one by one.

**RateControl** (`RateControlProofs`). `WarnedBeforeBlocked` follows from an
account of every window that has not ended (`Accounted`): each request recorded
in it is within the limit, in the hands of the handler, or was answered 429.
Time passing between two calls can only end a window, and `isSuspicious` finds
no rate in one that has ended. The theorem holds for all thresholds, windows and
blocks. `QuotaRefinement` splits the grants of the last second (`Split`,
`Served`) into those from before the window began and the window's own. Each
part is at most the limit, and one of them may have the request more that found
its window over: twice the limit and one. `FloodBound` needs `Contained`: an
address whose count is past the threshold is in the hands of the handler or
blocked for no longer than its window has run, and its count and its open
connections together stay within the bound. It uses that a block is at least as
long as a window (`RateAssumption`; ten seconds and one in the code).

**SlidingWindowLimiter** (`LimiterProofs`). The log of a key is in the order of
time, no longer than the limit, and its ages saturate (`Log`). In such a log the
entries that have expired are a prefix, so popping from the front leaves exactly
those within the window: `allowRequest` decides like the abstract quota, which
only knows the grants within the window. `AgesProofs` has the lemmas both
limiters need.

**Metrics and Probing** (`MetricsProofs`, `ProbingProofs`). `IInv` is four parts
that need nothing of each other but the types: types; the descriptors phase by
phase; the status line (`status_parsed` is set if the first piece had the line);
and for each url that its record is consistent (`Sampled`: sums and extremes
bound every sample of the window) and its last health is the one computed now,
but for the one exception. The lemmas show that `Sort` puts the samples in order
and loses none, without induction, by counting ranks; that the truncated index
is below the size and leaves the right number of samples on each side, and that
a sum of n samples lies between n times the least and n times the greatest.

**Only model-checked:** the liveness properties, since liveness under fairness
is outside what the prover does: `NoSiteForgotten`, `RecoveredSitesClose`,
`StopReturns`, `TasksRun`, `RequestsAnswered`, `SignalEndsLoop`, `IdleIsSwept`,
`BlockEnds`, `NoStarvation`, `CheckEnds`. Every invariant, action property and
refinement of the passing runs is a theorem (three of them under
`DistinctHosts`). The five violated properties are false, and the runs show how.

## Not modelled

`Logger` (formatting and appending lines to a file), the vendored `json.hpp`
(its exceptions are `LoadThrows`), the empty files, the stale binary
`monitor_server` and the Dockerfile. In `Server`: `total_requests`, the contents
of responses, `/stats` and `/metrics`, a failing `socket`, `bind`, `listen` or
`epoll_create1`, batches of more than 1024 events, the descriptors that probes
use (those are in `Probing`). In `ThreadPool`: tasks that throw, a pool without
workers. In `IPTracker`: the total per address, which nothing reads. In
`HttpClient` and `Metrics`: bytes, how a latency is measured, `recordFailure`
(nothing calls it; it does a part of what `recordFailureType` does), the text of
the export and of the alerts. Two conversions of the client have no property
because no document says what should happen: a connect that runs out of time ends
with EINPROGRESS and is recorded as a connection error, and a peer that closes
without a byte is a success with status 0.

`Monitor` lets `getHealth` be any answer its failure counter allows; `Metrics` has
the function itself, whose answers are among them (DOWN exactly from three failures
on: lemma `DownIsThreeFailures` of `MetricsProofs`). The two are checked apart, because their product is beyond TLC's reach.

## Plan

1. `Lifecycle`: start, signals and the join of both threads, composing `Monitor`
   and `Server` in an abstraction of their loops.
2. That the abstract specifications promise what they are read as: `Quota` at most
   `Most` grants in any window, `CircuitBreaker` open exactly after every third failure
   of a run, each as a theorem of the abstract module.

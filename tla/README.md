# go-firewall: a TLA+ model

go-firewall is a reverse proxy that filters requests by address and country,
limits their rate, inspects them with WAF rules and forwards the rest. Its parts
run concurrently: one goroutine per request, one per admin request, one that
reloads the configuration on SIGHUP, and one per rate limiter that evicts idle
buckets. This directory models the parts whose correctness depends on how those
goroutines, crashes and failing files interleave. TLC checks the models on small
instances; TLAPS proves the main safety properties for every instance.

Paths below are relative to `src/`. `PROJECT.json` lists every run, mutant,
mapped definition, finding, hazard and theorem.

## The system

| Part | State | Operations that change it | What makes it hard | What should hold |
|---|---|---|---|---|
| IP filter (`internal/middleware/ipfilter`) | two lists, each a base plus an overlay behind an atomic pointer; geo database behind an RWMutex | `AddX`, `RemoveX`, `Reload`, `Close` | compare-and-swap loops, closing a mapped file beside lookups | edits are atomic, reload keeps overlays, no use after close, no leak, no starvation |
| Admin API (`internal/admin`) | the state file | add/remove CIDR, patch a rule, `persist`, `replayState` | concurrent handlers, crash between edit and save, files that changed before a restart | acknowledged edits are on disk, a restart restores them, a patch touches its fields only |
| Reload (`cmd/go-firewall/main.go`, `internal/config`) | signal channel, what each component was built from | SIGHUP, `reloadOnce` | signals during a reload, files changing under it, one component of three failing | no signal is lost, a failed reload changes nothing |
| Proxy (`internal/proxy`) | round-robin counter, failure count and down mark per upstream | `pick`, `recordSuccess`, `recordFailure`, retry | updates in two atomics, clients that give up, a 101 that cannot be handed over, retry of a request already rewritten | one retry elsewhere, one bad upstream is masked, it returns once it answers |
| Rate limiter (`internal/middleware/ratelimit`) | buckets per address in locked shards, behind an atomic pointer | `allowAt`, `evictIdle`, `Reload`, `Stop` | eviction beside a request, clock values out of order | eviction is not noticed, idle buckets go, replaced loops end |
| WAF engine (`internal/middleware/waf`) | rule set and overrides behind atomic pointers | `Reload`, `SetOverride`, `ClearOverride`, `Inspect` (of the body) | overrides loaded once per checked text, rules replaced meanwhile, bodies around the length of the prefix | verdicts are justified by what was in force, edits are atomic, a body reaches the upstream whole |
| Pipeline (`internal/middleware`, `internal/metrics`, `internal/log/access.go`) | recorder and status per request, shared gauge and counters | the stages in order and back | counters updated one by one, retries, interim responses, panics | gauge, counters, log and what the client was sent agree |
| Client address (`internal/middleware/clientip.go`) | none | none | walking `X-Forwarded-For` over malformed entries | the first untrusted hop from the right |
| Ring buffer (`internal/log/ring.go`) | a slice under a mutex | `Add` | wrap-around, filter and limit | the last entries, newest first |
| Process (`cmd/go-firewall/main.go`, `internal/server`) | listeners, components to be closed, drain deadline | constructors, `Start`, `Shutdown`, deferred calls | bind failures, a signal before `Serve`, requests that never end | nothing is served half started, a drain in time loses nothing, the process ends |
| CIDR matcher, geo reader, version | library objects, constants | | | |

They meet as follows. The admin handlers edit the IP filter's lists and the WAF
overrides that requests read; SIGHUP replaces the base of the same lists, the
rule set and the rate limiter; a restart rebuilds all of them from the files and
replays the state file, with SIGHUP already being handled. A request passes the
stages in the order of `run`; each stage writes its verdict into the request's
recorder, which metrics and access log read on the way back. At the end `run` drains
the servers and closes what the requests used.

## Modules

| Module | Models | Notes |
|---|---|---|
| `IPList` | `listState` and the pure part of `addCIDR`, `removeCIDR`, `reloadListState` | slices are sets: the code only asks for membership |
| `AtomicLists` | abstract specification: every list call takes effect in one step between call and return | |
| `IPFilter` | `filter.go`, one step per load, swap, lock operation and close | extends `IPList`; refines `AtomicLists` |
| `IPFilterHistory` | `IPFilter` with history variables | what a verdict or an acknowledged edit entitles one to conclude |
| `AdminServer` | `admin.go`, `state.go`, overrides of `engine.go`, list reloads | list calls are single steps, which the refinement justifies |
| `ConfigReload` | `watchForReload`, `reloadOnce`, `config.Load`/`Validate` | a component is the file content it was built from |
| `Proxy` | `proxy.go` | one step per atomic operation |
| `RateLimit` | `ratelimit/limiter.go`, `middleware.go` | the life of one `limiterState`; a shard's critical section is one step |
| `WAFEngine` | `waf/engine.go`, `waf/ruleset.go` | one step per check, load and swap; refines `AtomicOverrides` |
| `AtomicOverrides` | abstract specification: an edit of the overrides takes effect in one step, a `SetOverride` only if its rule was loaded since the call | |
| `RingBuffer` | `log/ring.go` | refines `RecentLog` |
| `RecentLog` | abstract specification: the last `cap` entries, newest first | |
| `Pipeline` | the chain of `run`: `chain.go`, `statusrecorder.go`, `clientip.go`, `metrics.go`, `access.go`, and the middlewares' verdicts | extends `RingBuffer`; what each stage decides is left open, the modules above say how |
| `ServerLifecycle` | `run` of `main.go`, `server.go` | one step per constructor, bind, serve, shutdown and deferred call |
| `IPFilterProofs`, `ConfigReloadProofs`, `ProxyProofs`, `RateLimitProofs`, `PipelineProofs`, `ServerLifecycleProofs`, `WAFEngineProofs`, `AdminServerProofs` | | the theorems |
| `MC...` | | instances for TLC |

How state corresponds to the code:

* `IPFilter`: `list` is what `f.allow` and `f.deny` point to; `job`, `outcome`,
  `old` and `ptr` are the locals of a list operation. Pointers are not
  modelled as values: every successful swap installs a new allocation, so a
  compare-and-swap succeeds exactly if no swap of that list happened since the
  load, and `ptr` records only that. `readers`, `rwait` and `writer` are
  `sync.RWMutex` (a waiting writer holds back new readers; `Unlock` admits the
  readers that wait). `open` is the set of mapped databases. A reload that cannot open
  its database returns before touching anything; that case is in `ConfigReload`.
* `AdminServer`: `disk` is the state file, replaced whole by the rename;
  `todo` is what `replayState` has still to apply; `h` holds the locals of each handler.
  A crash may happen at any step and keeps only `disk` and the files.
* `ConfigReload`: `chan` is the signal channel of capacity one. `hup`, `failed`,
  `before` and `steady` (no file changed since the reload began) are history.
* `Proxy`: `next` is kept modulo the number of upstreams, `downUntil` as the
  ticks left, `failureCount` up to the threshold; nothing in the code
  distinguishes more. A path is a sequence of segments. A round trip succeeds, or
  it fails because the upstream is one of `Flaky` or the client gives up (`gone`: a
  retry then fails as well). `switching` is a 101 in hand, which `ReverseProxy` takes to
  `ModifyResponse` and then, since it cannot hijack the connection, to `ErrorHandler`.
  `Secure` are the upstreams with an `https` URL. `disturbed` is history: some
  client gave up or some 101 came.
* `RateLimit`: `bucket` is the shards' maps and `entry` the objects they point
  to, since a request goes on using an entry that was evicted. `loop` is each
  `evictLoop` with the cutoff it computed. `current` says whether `l.state` still
  points here; states share nothing, so the one after is not needed. `ideal`
  (a bucket per address that is never evicted) and `raced` are history.
* `WAFEngine`: `ruleSet` is the list of rules in file order, from which the groups
  by target follow; `overrides` maps each id to its override. `ptr` and `old` are
  as in `IPFilter`. `ins` holds the locals of `Inspect` per goroutine, with the rule
  set it loaded at the start. A pattern is what it matches; a body is its length, how much of it
  arrives, and where each pattern's first match ends. Decoding the path and the
  query happens before anything shared is read, so it is part of the request.
  The ranges over Go maps may come in any order. `seen` is history.
* `Pipeline`: `req` is the `Recorder` and the `StatusRecorder` of the request a
  goroutine serves; `status` 0 stands for `wrote` being false. `level` is
  `log.level` and `lines` counts the lines of the log stream by reason. A header is the
  sequence of its lines, a line the sequence of its comma-separated parts. `final` (what
  the client was sent), `logged` (the entries handed to the ring, by reason) and `aborted` are
  history. `SwitchProtocols` is a 101 that `ReverseProxy` cannot pass on: the writer it
  holds is no `Hijacker`, so `ErrorHandler` follows.
* `ServerLifecycle`: the servers are numbered in the order they are shut down.
  `serve` is each serve goroutine, `sock` its listener, `open` what the deferred calls
  have still to close. Both `Shutdown` and the later `Serve` of a marked server are
  modelled as `net/http` documents them.

Definitions whose comment begins with "Mutant" are altered forms of the
definition that follows; they show that a property can fail and are not part
of any specification.

## Runs

Passing runs:

| Run | Checks | Instance |
|---|---|---|
| `IPFilter_lists` | disjoint overlays; an edit that its base needed survives reloads; refinement of `AtomicLists` | 2 handlers and a reload, 2 CIDRs and an invalid text |
| `IPFilter_requests` | a verdict rests on settings in force during the call; no lookup in a closed database; no leak; reloads and requests finish | 2 requests beside reloads between configs with and without geo, with fairness |
| `Admin_edits` | type; an edit served alone and acknowledged without warning is on disk; a restart restores whatever is on disk; overlays on disk are disjoint; a patch served alone leaves the other field as it was | 2 handlers, failing disk, crashes at every step, 2 versions of the files |
| `Reload_sighup` | no signal is lost; a failed reload changes nothing if a database that exists can be opened; a signal is followed by the reload | files change at any moment, with fairness |
| `Proxy_health` | one retry, elsewhere; one flaky upstream causes no 502; requests are answered; an upstream that answers again returns | 2 upstreams, one of them flaky and one `https`, threshold 2, 2 requests at a time, among them uploads and handshakes, with fairness |
| `RateLimit_buckets` | type; eviction changes no decision; replaced loops end; idle buckets go | 2 requests of one address, 2 shards, 3 instants, with fairness |
| `WAF_inspect` | every block and every pass is justified by the loaded rules and by overrides in force during the inspection; bodies are forwarded whole; refinement of `AtomicOverrides` | an inspection, 2 editors and reloads; 3 rules files of which one is rejected, 6 requests, prefix of 2 |
| `Pipeline_requests` | the gauge is exact; counters, entries and log lines agree; entries tell what happened; the client address is the nearest untrusted hop; `Recent` returns the newest entries that pass its filter, up to its limit; refinement of `RecentLog` | 3 requests on 2 goroutines, ring of 2, levels `info` and `warn`; `X-Forwarded-For` of one line with up to 3 entries or of two lines, entries out of 5 |
| `Server_lifecycle` | no service until all listeners are bound; a drained server stays idle; a drain in time loses nothing; a signal, or a failed listener, ends the process | 2 listeners and the admin server, 2 requests, with fairness |

The type invariants of `AdminServer` and `RateLimit` are checked and proved; those of the
other modules, and `LayersIndependent` (no swap changes the base and the overlay
of a list at once), are proved.

Runs in which TLC finds the code to differ from what the repository says of it
(each is a finding in `PROJECT.json`, with the sentence it contradicts):

| Run | What happens |
|---|---|
| `Admin_persist_race` | of two concurrent edits, the older snapshot is renamed last; no warning is sent |
| `Proxy_path` | a retry joins the base path twice |
| `Pipeline_upgrade` | a WebSocket handshake that the upstream accepts ends in a 502, since `StatusRecorder` hides the connection's `Hijacker` |

Passing properties that carry a premise say where the code stops keeping its
promise. "Served alone" (`AloneMeansPersisted`,
`AlonePatchTouchesOnlyItsFields`) excludes concurrent edits.
`FailedReloadKeepsStateIfOpenable` excludes a database that exists but cannot be
opened, `CleanDrain` drains that ran into their timeout. `RetryMasksOneFailure` is about
the time until a client gives up or a 101 comes: both count against an upstream
that is in order, and from then on two upstreams may be down at once.
`EveryRequestAnswered` excludes a request that stays in a round trip no timeout ends.
`BootRestores` excludes a replay that a reload overlapped. `EntryTellsTruth` lets
the logged status differ from the final one after an interim response, and
`ClientIPIsNearestUntrusted` excludes a header that names an untrusted hop on a
line after its first. `CountersAgree` counts the lines that `log.level` admits,
and requests that were aborted apart.
`NeededEditsSurvive` excludes edits that were no-ops on their base.
`EvictionInvisible` excludes an eviction that overlaps a request of the same
address: a new entry has `lastSeen` 0 until its request stores the time, and a
sweep in between drops it, so that the next request gets a second full bucket.
It also supposes that a bucket refills within `idle_ttl`, which
`Config.Validate` does not ask for.

Other places where the models show the code to differ from its comments, without
a run of their own:

* adding a CIDR that the base has, or removing one it lacks, is not recorded, and
  the next base undoes it (`filter.go:294`, against `README.md:81`: "Any
  admin-dashboard edits ... are preserved across a SIGHUP reload");
* concurrent patches of different fields of a rule overwrite each other
  (`admin.go:347`, against 343: "doesn't clobber the other");
* a database that is corrupt passes `Validate`, so the rules are swapped and then the
  reload fails (`main.go:219`, against 171: "leaves every component serving its
  previous state");
* after a drain timeout `Filter.Close`, which takes only the read lock, may close the
  database under a lookup (`filter.go:224`, against the comment at 176);
* listeners are shut down one after another, so the second accepts new connections
  while the first drains (`server.go:114`; `server_test.go:83` wants new connections
  refused during the drain, and tests one listener);
* a handler that ends by `http.ErrAbortHandler` leaves no log entry and no count
  in `requests_total` (`access.go:85`, against `entry.go:1`: "one entry per request");
* only the first `X-Forwarded-For` line of a request is read, so an untrusted hop on a
  later one is passed over (`clientip.go:61`, against `config.go:34`: "walking
  X-Forwarded-For from the right for the first entry that is itself not in this
  list");
* with `log.level` `warn` or `error` no access line is written (`access.go:40`; the
  entries still reach the ring buffer);
* a handshake that the upstream accepts is counted as its failure, so that some of them at
  the same time can mark down an upstream that is in order (`proxy.go:168`);
* the status of a forwarded interim response is logged instead of the final one
  (`statusrecorder.go:21`, against 7: "observe the final response");
* a request during a reload may be let through by a mixture of old and new
  settings (`filter.go:151`), since lists and geo are swapped one by one;
* an entry of the state file with no effect on the base of a restart is dropped
  by the replay (`admin.go:107`);
* a second patch that names only `enabled` stores the action that the rules file
  had as an override (`admin.go:350`, against `engine.go:141`);
* a running engine refuses a valid config that turns the WAF off and names no
  `rules_file` (`main.go:214`);
* a success between the halves of `recordFailure` leaves a down mark with a count
  of zero (`proxy.go:45`);
* a GET with a body and a POST without one are retried (`proxy.go:123`, against
  the comment at 51).

**Bounds.** The races need two parties on one datum: two handlers or a handler
and a reload on a list, two requests on an upstream or a bucket, two requests and
a writer on the lock. Two CIDRs distinguish "the one edited" from "another"; one
text is invalid. Two configs are enough for a reload to change every layer. With
two upstreams a retry has one place to go; the theorems cover any number.
Threshold and cooldown are lowered, since only reaching them matters. Handles of
databases and entries of buckets are reused once nobody refers to them, so an
unlimited sequence of reloads and evictions is explored. The bounds on how
often something happens are `MaxTime` in `RateLimit`, whose clock stops at 2:
with a TTL of 1 that is the first instant at which a bucket can be idle, so that
`IdleBucketsGo` is about buckets last seen at 0 (with one more instant the
run passes too, in about four minutes). The address of `RateLimit_buckets` is in the last shard, so
that a sweep can be overtaken between computing its cutoff and using it.
The others are `MaxRequests` in `Pipeline`, 3, so
that a ring of two wraps, and the finite set `Conn` in `ServerLifecycle`: one request
to be drained while another arrives elsewhere. `WAF_inspect` has one inspection, since
inspections share nothing they write, and two editors, which do; its bodies are
shorter than the inspected prefix, as long, longer, and broken off before and after its end.
`AdminServer` uses one rule id: overrides of different rules share nothing but the
map, which is swapped whole. Its patches name the action or both fields; the theorem
`AlonePatchKeepsFields` covers the ones that name `enabled` only, which TLC has
checked in a longer run too.

**Deadlock.** It is checked except in `Reload_sighup`, where a process that
was killed or has left its loop really stops, in `RateLimit_buckets`, where a
replaced state comes to rest once its requests are done, in the `Pipeline_...` runs,
which end when `MaxRequests` have been served, and in `Server_lifecycle`, where the
process exits.

**Fairness.** Weak fairness of the goroutines' own steps: the Go scheduler runs a
runnable goroutine eventually. Nothing obliges a client to send a request or an
operator a signal: a passive health check learns from traffic only, so
`RepairedComesBack` has as a premise that requests keep being served. In `Proxy` time
passes, and a round trip ends if a timeout ends it: the transport has one for dialling
and one for the response header, none for the TLS handshake with an upstream or for
sending it a body (`proxy.go:79`), and the server reads without one. So a step of a
request is fair (`timed`) except while it sends a body or talks to an `https` upstream. The compare-and-swap loops are lock-free, not
wait-free: a reload finishes only because edits are finitely many between two of
its attempts, so `IPFilter_requests`, which checks it, has no edits. In
`RateLimit` the stop of an eviction loop has strong fairness: its `select` chooses
at random between a tick and the closed channel, so it does not choose the
tick for ever. Requests need no fairness there. In `ServerLifecycle` only `run`, `Start`
and the drain timer are fair; requests may last for ever, and no server
needs to reach its `Serve`.

## Proofs

All theorems hold for arbitrary constants that satisfy the named `ASSUME`s
(`CIDRAssumption`, `FilterAssumption`, `AdminAssumption`, `ReloadAssumption`, `ProxyAssumption`,
`LimitAssumption`, `RingAssumption`, `PipelineAssumption`, `WAFAssumption`, `ServerAssumption`).

* `IPFilterProofs`. `ListsInductive`: the type invariant and, for each
  goroutine inside a list operation, that a pointer is held only in the loop,
  and that a *current* pointer's `old` equals the list. The last conjunct is what makes
  a successful swap an atomic update: `nextState(old)` is `nextState(list)`. From it
  follow `OverlaysStayDisjoint`, `LayersStayIndependent` and
  `ListsAreAtomic`, where each step of `IPFilter` maps to `Call`, `Perform`,
  `Return` or a stutter of `AtomicLists`. `GeoInductive` relates lock, reload and
  databases: a held write lock excludes readers, a request in a lookup is a reader,
  so its database is `geo.db`, and `open` is exactly the database in use plus the one
  the reload is about to install or to close. `LookupsReadOpenDatabases` and
  `ReloadsLeakNothing` follow. `HistoryInv` adds the history variables: an edit
  that its base needed is in the overlay (`EditInv`; reloads keep it there because
  `reloadListState` keeps the overlay, which needs that only the SIGHUP goroutine
  reloads, `JobInv`), and a request that is past a stage was accepted by it at some moment
  of the call (`SeenInv`). `EditsSurvive` and `VerdictsAreJustified` follow.
* `AdminServerProofs`. The invariant relates the handlers, the live state and the file.
  `FormInv`: whatever was read from the live state, is on disk or is still to be replayed has
  disjoint overlays, which is `FileStaysDisjoint`. `AloneInv`: while a handler is
  the only one, what its snapshot holds so far is what the lists and the overrides still
  hold, and the fields its patch does not name are those of the override it read; at the
  acknowledgement the file then equals the live state (`AloneIsPersisted`,
  `AlonePatchKeepsFields`). `ReplayInv`: until an edit or a reload intervenes, the part of
  the file that `replayState` has applied is in force, as far as the base does not already
  say so, and the rest is in `todo`; with nothing left to do this is `BootRestoresFile`,
  for a crash at any step and any change of the config files before the restart.
* `ConfigReloadProofs`. `SighupNeverLost` needs `SighupOwed`: after a SIGHUP that
  no edit followed, either the channel holds a signal or the reload under way has
  read, or will read, the present files. `FailedReloadIsClean` needs
  `ReloadInStep`: at each step of `reloadOnce`, the loaded config is the
  present one and the later components are as the reload found them.
* `ProxyProofs`. `RetryOnceElsewhere` needs that the number of attempts made
  determines `retryable`. `OneFailureMasked` needs that, until a client gives up
  or a 101 comes, an upstream which always answers has no failure count, no mark and no failing
  request, so that a first failure was at the flaky one and `pickOtherThan` finds another.
* `RateLimitProofs`. `EvictionInvisible` compares each decision with a bucket that is
  never evicted (`ideal`). The invariant (`BucketInv`): unless an eviction overlapped a
  request, the bucket in the map equals its ideal one, or there is none or a new one
  and the ideal one is full, now and at every time a request under way has read.
  An eviction leads from the first case to the second, because `lastSeen` before the
  cutoff means a last grant at least a TTL ago, and then the bucket has refilled
  (`FullAfterTTL`); a grant leads back, because two full buckets are equal
  once a token is taken. It needs that no `bucketEntry` is the bucket of two addresses
  (`MapInv`), that a request's entry is its own address's (`ReqInv`), and that a
  sweep's cutoff stays a TTL behind the clock (`LoopInv`). That buckets
  refill within the TTL (`RefillsWithinTTL`) is a hypothesis of the property.
* `PipelineProofs`. The invariant says, for each place in the chain, what the
  recorder holds there: nothing but the address before a verdict, and from `count` on
  one of the truthful combinations; and that the gauge counts the requests inside.
  `CountersStayInAgreement` is a double-entry argument: each step of one request changes
  both sides of every equation of `CountersAgree` by the same amount (`Balanced`), where the
  request's own share of a count of requests is 0 or 1 (`AtMoves`); the truthful combinations are
  needed where a blocked request is counted under its reason. This is done for the counters
  and the entries (`countersFitEntries`) and for the entries and the lines (`linesFitEntries`),
  where a line is owed only at a level that admits `slog.LevelInfo`.
  `RingImplementsLog` rests on the arithmetic of `idx`: after `Add`, the i-th newest
  entry is where the one before it was, also across the wrap (`StepAdd`).
  `ClientIPStaysNearest` and `RecentStaysFilteredPrefix` say what two loops compute, for
  headers and buffers of any length. The loops are recursive functions. A solution
  is shown to exist, for the walk by giving it (`WalkFindsNearest`), for `Recent` by extending a
  shorter one (`TurnsExist`); what it computes follows by considering the least index where it
  would go wrong (`LeastElement`). The invariant of the loop of `Recent` is `answers`: after i
  turns the answer holds the entries that passed, each at its rank, up to the limit.
* `WAFEngineProofs`. `EditsAreAtomic` argues as `ListsAreAtomic`
  does; the lookup of a rule maps to `Find`, without which `AtomicOverrides` sets nothing. The invariant of an inspection has three parts: every rule that matches one of
  the texts checked so far was, at some moment of the inspection, not to block
  (`PartsInv`, with the header groups and values still to come); a verdict is justified
  when it is given (`VerdictInv`); and what was read of a body and what was put back
  agree (`BodyInv`). The first is kept by steps of others because `seen` only
  grows and every swap adds to it.
* `ServerLifecycleProofs`. A public goroutine is spawned only once all listeners are
  bound; a marked server never enters `Serve`, so after its `Shutdown` returned nil it
  has no request and gets none; and the servers before `turn` are drained unless the
  deadline passed. `DrainIsClean` follows at the end of the drain, where `turn` is past
  the last server and nothing has been closed yet.

Every safety property of a passing run is proved. Only model-checked: the liveness
properties (`ReloadFinishes`, `RequestFinishes`, `SighupApplied`, `EveryRequestAnswered`,
`RepairedComesBack`, `ReplacedLoopsEnd`, `IdleBucketsGo`, `SignalEnds`, `StartErrorEnds`),
since fairness and ENABLED are out of the prover's reach.

## Not modelled

* Log formatting, metric labels and the latency histogram, the byte counts of requests:
  written and never read by the program.
* The static UI, the token check and the read-only admin handlers: no state.
* TLS setup, YAML and database formats, regular expressions, the choice between two
  matcher implementations: libraries, represented by what they accept or match.
* The defaults of the configuration and the parsing of durations: plain conversion.
* `writeUnavailable` of the proxy: `New` refuses an empty list of upstreams, so
  `pick` always returns one.
* The stages are not composed into one state space. `Pipeline` leaves their verdicts
  open, and each stage's own module shows what its verdict rests on; the product
  of `IPFilter`, `RateLimit`, `WAFEngine` and `Proxy` is out of TLC's reach.

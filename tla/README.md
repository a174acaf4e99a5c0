# FailEcho in TLA+

FailEcho is a network in which software agents report failed tool calls and what
they did about them, and ask what worked for others. This directory is its
verification project: TLA+ modules translated from the source, TLC
configurations that check them on small instances, and theorems checked by
TLAPS. Paths below are relative to `src/`.

## 1. Inventory

| part | state it keeps | operations | interacts with |
|---|---|---|---|
| **Evidence store** `app/core/service.py`, `app/db/models.py` | `observations`, `recovery_outcomes`, private tables | record an observation, an outcome, a private row | every client over HTTP, MCP or OTLP; one database session a request |
| **Pruner** `app/core/retention.py`, `scripts/prune.py` | `hourly_stats`, `hourly_recovery_stats`; what it read, in memory | fold rows older than a cutoff, delete them, one commit; dry run | a separate process on the same database, started by a timer |
| **Evidence reads** `app/core/intelligence.py` | none | statistics, capped evidence, recommendation, futility, decay, pooling | several SELECTs outside a transaction, beside the pruner |
| **Request sessions** `_touch_fingerprint`, `note_verified_reporter`, `bump_counter` | `fingerprints`, `reporter_keys`, `daily_counters` | look up, insert or update, commit, retry after a conflict | each other, through SQLite's one write lock |
| **Demo scripts** `scripts/seed_demo.py`, `scripts/purge_demo_agent.py` | the same tables | seed, purge, rebuild the catalogue | the running service |
| **Limits and caches** `app/core/ratelimit.py`, `cache.py`, `app/api/services.py`, `app/api/otlp.py` | counters by key and window; computed answers | hit, sweep, clear; get, compute, set | every request of the one worker, on three transports |
| **Private teams** `app/core/private.py`, `app/api/team.py` | rows under the hash of a token | report, rotate, delete | requests, pruner |
| **Reporting client** `failecho_autoreport/__init__.py` | a bounded queue, a worker thread, fingerprints by operation | put, drain, post, flush | the host program's threads; the service |
| **Zero-code reporting** `failecho_autoreport/auto.py` | `_pending` failures by URL | report a call, infer a recovery | the host program's HTTP calls; the client |
| **Claude Code hook, OpenCode plugin** `plugin/hooks`, `opencode-plugin` | files of pending failures; a map in memory | a callback for every tool call that ended | the agent's program; the service |
| **MCP proxies** `failecho_mcp/proxy.py`, `npm-relay/bin/proxy.js` | requests in flight, failures that may be recovered from | forward, inspect, hold for advice, finish | a client and an upstream server |
| **Older clients, browser adapter** `client/`, `examples/live_agent`, `failecho_commerce` | the last failure; the last advice | call, report, ask, report the recovery | an agent or a page, the service |
| **Fleet** `failecho_fleet/__init__.py`, `builder.py` | `state.json`, `archive.jsonl`, a lock file; a run's ledger row | choose a persona, run it, file the run, write the report | providers, the service, the sandbox; two units |
| **Grading, onboarding, OpenCode runs** `failecho_fleet/grading.py`, `onboard.py`, `opencode.py` | remembered truths; the cursor, calls and dead providers of the day; a VM's disk | grade, regrade; one test of one model; one run of OpenCode | the fleet, real services, the sandbox |
| **Sandbox** `failecho_sandbox` | a lock file, a directory a run, the proxy's counters, the canary's report | boot, run a command, close, sweep; open a connection | fleet, canary, onboarding |
| **Mirror** `failecho_mirror` | a file with two cursors | fetch, skip, send, save | the lab's and the public service |
| **Agent** `failecho_agent` | the day's runs in `state.json` | take a slot, call, report, verify the label | the service |
| **Not modelled** | aliases, normalisation, signatures, schemas, pages, scan, build | | |

What is hard, part by part, and what makes the part correct:

* **Store and pruner.** The pruner's SELECTs run before its transaction begins
  (the driver opens it at the first write), so reports, and another pruner, may
  commit in between. It may be killed at any point. Correct: a row is live or
  counted in the archive, never both and never neither; the per-reporter cap
  holds across both; a cutoff never splits an hour; live windows are untouched.
* **Reads.** One answer is made of several SELECTs over several states of the
  database. Correct: evidence is never missed; what a prune may change in an
  answer is bounded.
* **Recommendation.** What agents try is decided by what they are advised, and
  what they are advised by what was tried. Correct: an action that works is found
  in spite of verdicts to skip, and a recommended action is not beaten on every
  count by another.
* **Sessions.** Stale reads written back, insert conflicts, a lock held across
  awaits, a busy timeout, a restart. Correct: one agent is told that it is first;
  a refused report leaves nothing behind; counters are exact; the lock comes back.
* **Limits, cache, tokens.** A boundary between two windows, a full map, readers
  that store what they computed in any order, a check and an update that are not
  one step. Correct: bounded budgets, bounded staleness, teams apart.
* **Clients and adapters.** Workers that end while a report is queued, calls that
  overlap, hooks that share a file, answers that come late, requests that arrive
  and are not answered. Correct: a recovery is credited once, to a failure it is
  about; the agent is handed what its tool gave; the account's own trouble stays
  on the machine.
* **Fleet.** Two processes and one file over midnight, kills at every step, caps
  that are checked before a run and spent during it, a second attempt that fails
  in another way. Correct: bills, caps, ledger and archive, marks of providers.
* **Jobs.** Files written in the middle of a run that may be killed, VMs left
  behind, clocks within clocks, truths that move, counts taken on one side only.

`PROJECT.json` lists every component with its status, every hazard at the line
where it bites and the properties aimed at it.

## 2. Modules

| module | models | composed with |
|---|---|---|
| `EvidenceLedger` | what the store promises: evidence that only grows, one report at a time | implemented by `Retention` (`ImplementsLedger`) |
| `Retention` | tables, archives, clock, reports, the pruner step by step | extended by `EvidenceReads` |
| `EvidenceReads` | `fingerprint_stats` and `recovery_actions` as separate SELECTs, in the middle of `Retention`'s steps | extends `Retention` |
| `Recommendation` | recommendation and futility, with explorers, askers and blind personas that act on them and report back | uses the plans of `FleetPlans` |
| `Catalogue` | request sessions on SQLite, catalogue, reporter keys, counters, and the other writers | |
| `AutoReport` | queue, workers, requests and answers of the reporting client | |
| `InferRecovery` | the HTTP calls of a program and the outcomes inferred from them | extends `AutoReport` |
| `McpProxy` | the Python proxy in front of an MCP server: its threads, a subprocess or a remote server, inference, advice, shutdown | |
| `Adapters` | what the next three share: calls that ended, reports, outcomes and which of them are earned | |
| `ClaudeHook`, `OpenCodePlugin`, `NpmProxy` | hook processes with files; callbacks with reports under way; the proxy on an event loop | extend `Adapters` |
| `Clients`, `WatchedPage` | the older clients and the reporting client's watched functions with their advice; the browser adapter | |
| `AdapterKinds` | one of the five at a time | extends them |
| `WriteLimits`, `Dashboard`, `PrivateTeams` | budgets and batches; the cache; tokens of teams | |
| `Edge` | one of the three at a time | extends them |
| `FleetPlans` | the tables of actions, the local plan and the explorer's choice | |
| `Fleet` | the scheduler: lanes, state file, archive, kills, midnight | |
| `FleetRun` | one run: model loop, recovery of provider and tool calls, the builder, the ledger row | extends `Fleet`, `FleetPlans` |
| `Scoreboard` | what `write_report` computes from the runs on file | |
| `Grading`, `Onboarding`, `SetupTest`, `OpenCodeRun` | the grader; the onboarding timer; one test from the inside; one OpenCode run | |
| `SandboxVM`, `Fence`, `InstallCanary` | lock, leftovers and commands of a VM; the egress proxy and the builder's coverage; the canary | |
| `Mirror`, `OperatorAgent` | a mirror pass; the operator's agent | |
| `Jobs` | one of these ten at a time | extends them |
| `Sums` | what `SumFunction` adds up to, for any finite set | used by the next and by `JobsProofs` |
| `RetentionProofs` | theorems about the store, the pruner, the readers and the recommendation | extends `EvidenceReads`, `Recommendation` |
| `ServiceProofs` | theorems about limits, caches and teams (`EdgeSpec`) and about request sessions (`Spec`) | extends `Edge`, `Catalogue` |
| `McpProxyProofs` | theorems about the proxy | extends `McpProxy` |
| `ReportingProofs` | theorems about client and zero-code reporting | extends `InferRecovery` |
| `AdapterProofs`, `JobsProofs`, `FleetProofs` | theorems about the parts of one composition each | extend `AdapterKinds`, `Jobs`, `FleetRun` |
| `MCRetention`, `MCInferRecovery`, `MCFleet`, `MCJobs`, `MCRecommendation` | constants and symmetry for TLC | the other runs give constants in their configuration alone |

A variable has the name of the table, field or attribute it stands for; those
marked *history* in their declaration are not in the code and exist for the
properties. An action has the name of the function it translates, or of the step
of it between two points where another process can come in. `PROJECT.json`
(`map`) gives the lines of each definition. Definitions commented *Fault* are
variations that a plausible mistake would lead to; nothing uses them but the
sensitivity checks, which put one in the place of the definition next to it and
see the property fail.

**One at a time.** `AdapterKinds`, `Edge`, `Jobs`, `FleetRun` and `InferRecovery`
put components under one specification that share no variable, and a variable
(`kind`, `part`, `looked_at`) that is set in the beginning says which of them
moves. Parts that share nothing only interleave, so that each is checked as if it
were alone, and one run covers them. Components that do interact are composed for
real: readers and pruner, sessions and scripts, personas and the network, lanes
and their file, the VM and its host, fence and builder.

### Retention

A row is a record with its creation time (hour and minute), who reported it and
from which source. Tables are sets of rows; equal rows are told apart by an
`id`. `pruner[p]` is what the pruner holds between its reads and its commit:
`PruneObservations` chooses cutoff and mode and reads, `PruneOutcomes` reads the
second table, `PruneCommit` merges, deletes and commits, `PruneRollback` ends a
dry run and `PruneCrash` any run. The lookups that `_merge_hourly_*` makes for
each bucket are one read, made when the bucket is folded. `ArchiveSource`
applies the adoption threshold as the `CASE` of the grouping query does.

Left out: the latency sums, the rows a seed script writes with a date in the
past (they would land in archived hours and be merged), PostgreSQL.

### EvidenceReads

A reader takes `fingerprint_stats` (raw count, archive count) and
`recovery_actions` (live groups, recent groups, archive) SELECT by SELECT. The
numbers of an answer are operators on what was read, so action properties can
compare the answer before a prune with the one after it.

### Catalogue

`session[q]` is a request: what it has read (`seen`, `signedSeen`, `known`) and
where it stands. A session takes `lock` with its first write, which is the INSERT
of a new catalogue row or else the commit, and what it writes is computed from
what it read. `CatalogueFits` and `ReporterFits` are the conditions under which
the database accepts the commit (a row to update exists, a row to insert does
not). A query's reads are one step here: `EvidenceReads` is about their being
several. The pruner, purge and rebuild appear as the other writers.

### AutoReport

`caller[t]` is a thread of the program inside the client, `thread[w]` a drain
thread. `GiveUp` and `End` are two steps: between them the thread is alive and
no longer looks at the queue. A request arrives (`Deliver`) before it is answered
(`Answer`), and may fail at either point. The fingerprint that the server
answers with is a function of operation and shape; the model writes the shape.

### InferRecovery

`thread[t]` walks through `_report` and `_infer_outcome`; every access to the
shared dictionary is a step. `log` is the order in which reports are put on the
queue that `AutoReport` models. Time is counted in ticks and passes between a
call's start and end and between calls.

### McpProxy

`reader`, `main`, the POSTs (`request`), the closing threads (`finish`) and the
advice threads (`advising`) are the threads of the process; `out` is the queue of
`HttpUpstream`, or the pipe of the subprocess, and `End` the empty read that ends
`_from_server`. `MainReads` is one line: read, inspected, and written or handed
to an advice thread; nothing another thread does depends on a point inside it,
since the lock of `_pending` is all that is shared. The server is external: it
may answer in any order, break off, or end. Timeouts (ten minutes for the calls
in flight, four seconds for an advice thread) may strike at any time, and `late`
records that one did. `retryable` holds, by shape, the call that failed last and the
place of its report.

Left out: the handshake and the name learned from it, batches and notifications,
`fe.flush` (the subject of `AutoReport`), the capacity of a pipe.

### Recommendation

`liveRows` is the set of rows, equal ones told apart by `copy`; `HourPasses` archives
the older hour in `archivedRows`, and it also leaves the decay window. `Failures` are
fingerprints, `Recoveries` actions, `Hashes` reporters. `recovery_actions`,
`recommend` and `futility` are operators on them, `Chosen` pools the other
operations of the service if the asked one has nothing to say. The personas are
those of the fleet: `Recover` is what `recover_provider` does with the
recommendation and the report that follows, `Skip` its early return. What works is
a constant (`Works`, `Flaky`, and nothing else). The Wilson bound is a table of
the values the code computes, in thousandths.

### Adapters, ClaudeHook, OpenCodePlugin, NpmProxy, AdapterKinds

An adapter sees calls when they end. `told` is what it can know of a failure's
fingerprint, `sent` what it reported, `earned` the pairs of a call and a failure
that the code's own rule makes a recovery. In `ClaudeHook` a hook is a process
that loads a file, asks the network, and saves or removes the file, two of them at
a time; in `OpenCodePlugin` promises resolve in any order; in `NpmProxy` reports
wait on one chain, and the process ends when client or server do. A failure is known
by its tool and class, `<<tool, class>>`, which is the key of the npm proxy's maps.

### Clients, WatchedPage

`toolCall` is the call the client is watching and `caller` what its agent is
handed; the `Ways` differ in which of the client's requests may raise. A request
arrives, arrives unanswered, or does not arrive. A function under `watch` only
queues its report, and what it raises is given the line that `advice_text` makes of
the network's answer (any member of `NetworkAnswers`). `WatchedPage` classifies a page
(status, shape, signs in its text) and the driver's words in the order in which
the code looks at them; one account-side class stands for all.

### WriteLimits, Dashboard, PrivateTeams

A budget is a window's start and count by client; the map is swept of ended
windows when it is full, and emptied if that did not help. A batch of spans is
one request that spends a budget for each span. A value of the cache is the
number of writes its queries saw, so that staleness can be measured; `order` is the
order in which the dictionary holds its keys, whose first is the one evicted. A
team's token names its rows in three tables; rotation counts them table by table
and then updates them. Teams begin with tokens of their own, and `held` (history)
records which team each token has belonged to.

### Fleet and FleetRun

`file` is `state.json`, read and written under the lock; `lane[l]` is what the
process of a lane holds from its choice to its filing. `Choose`, `TakeTurn` and
`Finish` are the three critical sections; `archive` is a bag, since two rows of a
ledger may read alike; `Killed*` a stop outside the lock, in
the middle of a save or between archiving and saving. `FleetRun` is a run from
its first request to its last: `attempt` and `failure` are what `recover_provider`
and `Run.call` hold between two attempts. `Fleet` takes a run as its cost; that a
run bills what it asked, and how much that can be, is `CostBounded` of `FleetRun`. An
outcome says which failure of the run it is `of`, by its place.

### Scoreboard, Grading, Onboarding, SetupTest, OpenCodeRun

`Scoreboard` is a function of the runs on file, and its property relates the
tables of one file with those of the mirrored file. `Grading` grades an answer by
the truth that the process, another process or a file remembers, and grades it
again. `Onboarding` reads its state file at the start of a run and writes it at
the end; between them the fleet spends the same tier, midnight passes, or the run
is killed. `SetupTest` is one such run from the inside. `OpenCodeRun` has three
clocks (the script's, the guest's, the host's) and an output that keeps its end.

### SandboxVM, Fence, InstallCanary, Mirror, OperatorAgent

`disk` is what runs left on it, `flock` who holds the lock file, `guest[r]` the VM
with its queue of commands. In `Fence` a connection takes a slot before its host
is looked at and gives it back however it ends; `CommandEnds` is the builder's
second reading of the fence's file. `InstallCanary` is the tree of steps with the
early returns. A pass of `Mirror` is cut anywhere, also between a request and its
answer. `OperatorAgent` truncates its slot file before it writes it.

## 3. Runs

Every passing run explores its state space completely.

| run | bounds | shows |
|---|---|---|
| `retention` | 3 outcomes of 2 voices, or 2 observations of 2 sources, or 1 private row; 3 hours of 2 minutes, cap 2, retentions 0 and 1; fair | an hour of evidence is wholly live or wholly archived, with the numbers it folds to; the `agent` label is earned; the store implements the ledger; what has expired is folded in spite of crashes and dry runs |
| `reads` | 1 reader, 1 observation, 2 outcomes, 2 reporters, 2 sources, 2 hours of 1 tick | no answer misses evidence that existed when it began; what a prune may change in an answer |
| `catalogue` | 2 sessions, 3 requests, 1 purge; fair | what is reported is catalogued, unless a purge took it; requests end |
| `autoreport` | 2 threads; 3 reports, 3 workers, a queue of 2; or 3 calls, 2 URLs, room for 1 pending failure | accounting and flush; order and the failure an outcome is put on; one outcome a failure |
| `proxy` | 3 calls to a subprocess, or 2 to a remote server, the stream of one of which may break; 2 shapes, room for 1 failure; fair | every message in one place, one report a call by its first answer, outcomes behind their failures, no answer lost at a shutdown, and the proxy ends |
| `fleet` | 4 personas in 2 lanes, 1 provider with a cap of 1, a ledger of 1 run, 2 days, 2 runs a day, 1 kill; or one run of 8 kinds of persona, 3 turns, 4 kinds of failure, 5 kinds of advice | bills, caps, ledger and archive, marks on the provider, the ledger row |
| `recommend` | 3 personas, 2 operations, 2 actions, 2 attempts an action, 2 hours and the archive; explorers fair | explorers' and network's thresholds agree; the recommended action is not beaten; an action that works is found |
| `adapters` | 3 calls of 2 shapes, 2 hooks at a time; 3 calls of 7 kinds of client, any answer to a watched one; 2 steps on 5 kinds of page | recoveries earned, once, and not lost to timing; the caller undisturbed, and its advice what the answer says; what stays on the machine |
| `edge` | 3 clients, limit 2, room for 2 clients, 5 writes; a batch of 2; 2 readers, 2 keys, room for 1; 2 teams, 3 tokens, 3 rows, 2 rotations | budgets at their boundaries; an answered batch is stored; staleness of the cache; teams apart |
| `jobs` | 3 runs and 2 commands of the sandbox; 2 rows a table and 1 cut of the mirror; 2 models and a cap of 2; 4 runs of the agent; 2 graders; 4 runs of 18 kinds on file; 2 connections and 1 slot; 3 events of OpenCode; 2 canaries | one property for each of the ten jobs |
| `autoreport_stranded` (violation) | as `autoreport`, the client alone; fair | a report is left on the queue of a worker that is about to end |
| `onboard_rotation` (violation) | 2 models, 2 scenes, 1 project; fair | all models but the first meet the first scene for ever |

Why these bounds are enough. A bucket of the archive has two sides (before and
after the cutoff) and a cap that bites from one more row than the cap, so three
rows of two voices reach every case of the fold; hours 0 to 2 give an hour that
is archived, one that is being archived and one that is live. The tables share
nothing but the clock and the pruner, which takes them one after the other;
`OneTable` of `MCRetention` fills one of them at a time. Conflicts between
sessions are pairwise: a second session is the one that comes in between, and
three requests let it do so twice. A report is lost, late or out of order with
respect to one other, and three reports are the fewest in which a failure, a
second one of the operation and an outcome meet. The full table of pending
failures needs one entry more than its bound, and two threads. Messages of the
proxy meet in pairs (one held for advice, one forwarded); two outcomes of one
failure need a third call. A lane of the fleet has one persona with a model and
one without, or two twins, which is what a turn depends on; two days have the one
midnight that matters. A run meets a failure, its second attempt and a failure
after that within three turns. With two attempts an action, the thresholds (2 in
the model, 4 and 5 in the code) are reached, missed by one and passed. Three
calls of an adapter are a failure, a call that may be its recovery, and one in
between. A budget of 2 in windows of 2 has room for the double window; a map of 2
is full with the third client. The sandbox needs a run that is killed, one that
sweeps, and one that comes in between.

Where a value of the code is large (20 model calls, 300 seconds, a cap of 1000),
the model has the smallest number with which the comparison can go either way.

`CHECK_DEADLOCK FALSE` is said where the modelled program really stops: it makes
no more calls, its process ends, or the days and runs of the bound are over.

The violations are disagreements between what the code does and what a comment
or docstring of the repository says it does; each is described, with the quoted
line, under `findings`. Others that were met while modelling are not kept as
runs; section 7 lists them.

## 4. Fairness

* `Retention`: the timer starts a run every hour for ever
  (`deploy/failecho-prune.timer`, `Persistent=true`), and not every run is a dry
  one or killed. Hence strong fairness of the real read and of the commit: a run
  may be killed any number of times, not always.
* `Catalogue`: weak fairness of each session alone. The event loop serves every
  session, and the wait for the lock ends by the busy timeout.
* `AutoReport` (`ClientFairSpec`): weak fairness of each worker's next step (a
  request ends by its timeout, `get` by its own) and of a caller that is inside
  the client. None for the program: it need not report anything.
* `McpProxy`: weak fairness of the main thread, of the reader once it has a line
  or an end, of each POST and each advice thread (their timeouts end them), of the
  closing threads, and of a subprocess whose stdin is closed or which was
  signalled. None for the client: it need not ask, nor stop.
* `Recommendation`: weak fairness of the explorers alone. The scheduler gives
  every persona its turn (`deploy/failecho-fleet.timer` starts it every minute),
  and the property is about a failure that the explorer keeps meeting. It is stated
  for fingerprints an explorer meets: a verdict to skip of an operation's own rows
  hides what the service's other operations could recommend.
* `Onboarding` (`OnboardFairness`): the timer starts runs, runs go on, days pass.
  The violation needs nothing to fail.

## 5. What is proved

Theorems hold for every value of the constants that meets the named assumptions of
the modules; a run shows the same on a small instance. Most properties are not
inductive: each proof names a stronger invariant that is, which TLC has checked on
the runs' instances before it was proved.

**Sums** (`Sums`). A sum is a fold over a set, a recursive function chosen by
`CHOOSE`: `IterationExists` and `IterationIs` say, by induction over finite sets
(which `WFMin` of the library allows for sets, without an operator parameter), that it
exists and that the order does not matter; `CountByKey` that counting by keys and
adding up is counting; `SumRenamed` that a sum stays when a bijection renames what it
is over; `SumAtMost`, `SumOfSums`, `SumOfParts` and `SumBounded` compare and split sums,
`PairsCounted` turns a count of pairs into one, and `Unbeaten` finds in a finite set
what nothing beats (the greatest number, the best score).

**Store and pruner** (`RetentionProofs`). `TypeCorrect` holds with any number of
pruners; everything else assumes `OnePruner`, which is that of the deployment (the
unit is `oneshot`, a timer does not start it while it runs) and is needed: with two,
TLC finds a row archived twice.

* `TablesTruthful`: `Spec => []IInv`. `EvidenceConserved` says nothing of what the
  pruner has in memory. `IInv` adds three parts. `TablesFollowHorizon`: with
  `horizon` the hour of the latest committed cutoff, the raw tables are the reported
  rows from there on and the archive is the fold of those below. `HorizonIsOld`: no
  report can land below it. `PrunersAreCurrent`: what a pruner read is still the fold
  of what it is about to delete. From it `EvidenceIsConserved`, `CapHolds`,
  `LiveWindowHolds`.
* `StatsTruthful`, `ArchiveIsEarned`: the observation archive is such a fold too, but
  its source depends on who had been established when an hour was folded. `StatsInv`
  says that each hour is labelled by some set of reporters that were established
  then, and being established only grows.
* `LedgerKept`: `Spec => ImplementsLedger`, step by step. Lifetime numbers are sums
  over keys of what is raw and what is archived; `LedgerTold` says that they are the
  sums over the reports, with the lemmas of `Sums`.
* `NothingIsMissed`, `TablesGoOn` (`EvidenceReads`): readers change nothing of the
  store, so `IInv` goes on holding beside them, and what a reader has counted raw,
  with what the archive holds by now, never falls below what was reported when it
  began (`Covered`). It is the order of the two SELECTs, raw rows first, that makes
  this so.
* `AnswersKeptByPruning`: a prune moves whole hours (`CommitMoves`). Live rows are
  capped per hour and voice, archived ones per hour, source and voice; a cap of a sum
  is at most the sum of the caps, so attempts are never lost, and where no voice is
  heard on both sides both are the same (`WeightAdds`, then `WeightsAdd` over voices,
  `CappedAdds` over hours, `CappedByKeys` by induction over the keys). An archived
  hour names no more reporters than its rows did (`MovingAddsNoAuthors`).

**Recommendation** (`RetentionProofs`). An explorer counts attempts as reported, the
network capped by reporter and hour. `RecommendInv` says of each record that is kept
that what it counts capped is everything, or a full hour of one reporter at least
(`KeptRight`); `CapOfRows` says the same of the rows. The cap is not below the floor,
so attempts enough are enough when capped (`CapsAboveFloor`).

* `ExplorersRuleHolds`: `explore` answers nothing only when every candidate has the
  attempts (`ExploreIs`; the most promising position exists, since rates compared by
  cross products are a weak order, `PromisingIsWeak`). A failure that was given up
  keeps them: when an hour passes, rows that age are as many as before (`OlderDiffer`)
  and those that leave are added to the record.
* `NothingDominates`: the best of the eligible exists (`BestIs`), and the score of an
  action with more successes, no more failures and no fewer reporters is higher
  (`WilsonRises`, from what is assumed of the table of the bound, one success or
  failure at a time). Pooled evidence stays within the table (`PooledBounds`).

**Request sessions** (`ServiceProofs`): `TypeCorrect`; `CatalogueTruthful`
(`Spec => []IInv`), from it `OneFirstSight`, `CatalogueFollowsReports`,
`LockHolderCreates`, `CountsAreExact`. What a commit writes was computed from what
the session read some steps earlier, so `IInv` says what a session may remember:
nothing before it has read (`FreshBeforeReading`), numbers that commits have since
reached (`SeenWithinReports`), a missing row only if a purge took it
(`LostOnlyToPurge`), and the same of a rebuild. History only grows (`StepGrows`), so
a session that does not move still remembers truthfully (`RememberedStays`). First
sight follows from the lock: a session that is still to insert holds it.

**Limits, caches, teams** (`ServiceProofs`).

* `TeamsStayApart`: `TeamInv` adds to the property that the counts a rotation took
  still stand unless it was raced (`CountsStand`).
* `CacheIsFresh`: `DashboardInv` dates every value, while a reader computes it, in
  the map and when it is served: nothing was written between the value and its date
  less one computation (`AsOf`).
* `BudgetsHold`: a window's count is what was accepted in it (`WindowCounts`); a
  stretch that begins before it has the rest of the budget and one window more
  (`WindowsApart`, `Forgotten` for a client without an entry); two windows that
  follow each other give twice the limit less one (`EveryStretch`).
* `AnswersAreTrue`: of a batch, spans behind the one in hand are stored, and none
  more often than its exporter was let through (`BatchInv`).

**Clients** (`ReportingProofs`). `ReportsAreAccounted`, `OutcomesAreOnTheirFailures`:
`ClientInv` says that one worker is alive and what it carries is older than what is
queued (`InOrder`), that the server's list is in the order of the reports (`Sent`),
and that the shape remembered of an operation is that of its last report that is
neither waiting nor lost (`UpToDate`). `RecoveryIsInferredOnce`: a failure that may
still be recovered from is in exactly one of the map, a thread's hand and the log
(`AtOnePlace`).

**MCP proxy** (`McpProxyProofs`). `ProxyKeepsAnswers`, `ProxyReportsOnce`: as long as
a call is pending all the messages about it are still in the queue, and in their
order, so that the first one the main thread reads is the first answer (`FlowInv`);
what is remembered of a shape is the last report of it (`ReportInv`); behind the end
of a remote server's queue there is nothing that is owed (`ShutInv`, as long as no
timeout struck).

**Adapters** (`AdapterProofs`). `CreditIsEarned`, `NothingIsLost`: the three adapters
share a record of what was told and earned (`History`), and each has an invariant of
its files, promises or chain (`ClaudeInv`: a failure that is out of both files never
comes back, and two hooks that took the same one ran together; `OpenInv`; `NpmInv`).
`CallersAreServed`, `AccountIsKept`.

**Jobs** (`JobsProofs`): `SandboxIsOnes` (what a guest has still to read are the last
commands asked), `MirrorsOnce` (a row beyond the cursor arrived at most once for each
cut pass), `OnboardKeepsCap` (what was really called exceeds the file by the run at
hand and by the runs nobody counted), `GreenIsEarned`, `LabelsAreChecked`,
`FailuresAreNamed`, `FenceIsRight` (while a command runs undisturbed the file is the
fence's count), `ResultIsSeen`, `GradesAreEarned` (a truth that is remembered was
said no earlier than it is dated; the part on declining is a lemma about `grade` for
every task and answer), `SidesAreAlike` (`Flip` is a bijection between the kinds on
the one side of the file and those on the other side of the mirrored one, `Opposite`;
what the page adds up is over kinds chosen by fields that flipping leaves alone,
`PartsAre`, so by `SumRenamed` the numbers are the same, and each comparison turns
round, `BetterMirrored`).

**Fleet** (`FleetProofs`).

* `RoomForRunsInFlight`, `CapsHold`: the count and what the runs in flight may still
  cost stay below the cap and two runs. What a run can cost is an assumption here,
  and part of `LedgerTruthful` for the run itself.
* `EveryCallIsBilled` adds what each lane is about to file; `CountsOnce` adds that
  rows of a slow arm stay in file or archive (`RowsKept`).
* `MarkIsEarned`, `RowIsTrue`: `RunInv` says of each point of the loop what the run
  has asked so far (`Cost`), that outcomes tell of failures in their order
  (`Telling`), and what a provider is marked for (`Marks`).
* `SchedulerGoesOn`: `AllSpec => Spec`, so the theorems about the scheduler hold with
  runs beside it.

Assumptions are those named in the modules: numbers are naturals, sets of threads,
connections and reporters are finite, a model value for "none" is none of the others,
limits that the code divides by or compares with one are at least one, and the tables
of plans and checks have the entries the code gives them.

**Only model-checked**: liveness (`StaleRowsFolded`, `RequestsEnd`, `ProxyEnds`,
`EventuallyAdvised`), out of the prover's reach, and the two violations. Every other
property of a run is stated by a theorem above. That a lane's run costs no more than `RunCalls` is an assumption
of `Fleet`, not linked by a theorem to the bound that `FleetRun` proves.

## 6. What is not modelled

Text: normalisation, regular expressions, hashing, aliases, rendering, prompts,
what a tool is asked and what it answers. The curve arithmetic of signatures.
Validation of fields. Read-only pages. The scan, which reads a project's files one
after the other. The image, network set-up and kernel of the virtual machine.
Build, packaging and load-test scripts. Decay and status of an answer, related
failures and the scope windows of `intelligence.py`. The relay of the network's own
tools, the handshake and batches of the MCP proxies. PostgreSQL. `PROJECT.json`
gives the reason for each component.

## 7. Observations

Met while modelling, and described here because no run is kept for them. Most are
accepted by the code on purpose; where a comment says otherwise it is named.

*Service.* Two overlapping prunes archive a row twice (`retention.py:181`).
`fingerprint_stats` may count a row twice when a prune commits between its SELECTs
(`intelligence.py:278`). A voice with rows of two sources, or of two pooled
fingerprints, in one hour is capped once while live and twice when archived;
reporters of different hours add up while live and not when archived. Two requests
that read one `observation_count` lose an increment. The purge of demo rows looks
for orphans among raw rows alone (`purge_demo_agent.py:65`). The comment on futility
(`intelligence.py:792`) allows for a cap below the floor; they are equal. An
operation's own verdict to skip hides what pooling would recommend, and the warning
of a service-wide skip lists the operation's own actions. `cache.py`'s "set always
writes a fresh key last, so the first key is the oldest" does not hold when two
readers missed together. A rotation onto a token under which another team has no
rows yet is not refused (`team.py:82`). A batch of spans is stored at least once,
and OTLP and MCP ignore the team header on purpose (`docs/claims.md:64`).
`canonical_service` is not idempotent on names such as `www.www.host.tld` or
`mcp-/fs` (`aliases.py`, docstring of the function).

*Client.* An outcome whose failure was dropped goes to an older one. Calls that
overlap are taken for retries of one another, may queue an outcome ahead of its
failure (`auto.py:155`), and count as a backoff by the time they took
(`auto.py:145`, against the comment at 37). Two threads that make room in
`_pending` together may lose a report. A URL's port and query are not part of the
key its recovery is looked up by. After a client is gone nobody reads the
subprocess of the Python proxy, which may be blocked on a full pipe
(`proxy.py:490`).

*Adapters.* Overlapping hooks may credit one failure twice, or credit a call that
ended before the failure; a success whose request fails still removes the file; two
first hooks may make two reporter ids. The plugin keys the last failure by service
and operation only. The npm proxy may put an outcome on another class's
fingerprint when the failure's own report was lost, and drops what is still queued
two seconds after the end. The page adapter keeps a shape after a success, against
"since we last saw it fail or work" (`browser.py`, and `docs/commerce-failures.md:116`);
it hands on the network's recommendation unfiltered, also before a challenge
(`docs/commerce-failures.md:62`); a silent failure is never classified as the
account's; a page that cannot be read is a shape of its own. The live agent reads
whether a failure was known after its own report of it (`agents.py:132`).
`run_with_failure_intelligence` loses the result of a call when its network raises.

*Fleet.* The local arm's breaker (`__init__.py:178`) can never open. `calls_first_try` takes
the attempts of every failure, the provider's included, off the tool calls
(`__init__.py:2226`), and is not "tool calls that succeeded without a retry"
(`docs/fleet-metrics.md:23`). A provider is marked dead on
an exception of the second attempt that names a quota, also after a failed switch,
and on a skip (`1099`), against the docstring at 1063; a builder may be marked and
still answer, and its `task_done` needs the last command alone; the other lane's run
clears a fresh mark (`2277`). A refused `fetch_doc` counts twice (`1370`). An
explorer's tools honour a skip before they explore. `_save` is not atomic; a file that was cut
short, or a date that was set back by a lane that read it before midnight, is what
`disturbed` excludes, and calls of killed runs are not billed. On the scoreboard,
"rows over a sub-sample carry their own count" (`1534`) is not so of tokens per
completed task, attempts per failure and the provider's rows.

*Jobs.* The onboarding cursor (a violation above); there a quota's body is read
twice, so that a dead provider is never marked (`onboard.py:324`, `349`), a run that
the unit's timeout kills leaves no trace and repeats its model, a stray
`.mcp.json` fails three of the scenarios without a name, and its cap does not read
the fleet's own (`524` is one way). "Unavailable" is both a refusal and an absence
to the grader, and a JSON answer can be correct and not valid. The mirror sends a
batch again when a request has no answer or the pass is killed, against "nothing is
skipped or sent twice", and one row that is refused for good blocks those behind it.
A VM that dies between the poll and the connection raises an `OSError` that callers
do not expect; two ways to fail at boot (`144`, `172`) do not close; a command the
host has given up runs in the guest before the next; the guest caps timeouts at 300
seconds, the canary asks for 420. OpenCode's counts are lower bounds once its output
was cut. The egress proxy cuts a one-way transfer when the other direction idles for
two minutes. A builder's coverage says "missed" also of a program that was cut before
its summary; a restart of the fence makes differences vanish. A canary that is killed
leaves yesterday's report. The operator's agent passes its label check when earlier
first-party evidence is there, or when nothing failed; it writes its slot file in two
steps, and a tool's retry is not held against the cap of tool calls.

## 8. Plan

What is left, in this order:

1. Decay, status and related failures as operators, checked against a definition
   by the rows themselves.
2. The bound on the calls of a run that `FleetRun` proves, carried over to the
   assumption of `Fleet` by a theorem.

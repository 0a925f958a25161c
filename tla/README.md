# A TLA+ development of bazzite-laptop

bazzite-laptop is an AI operations layer for one laptop: Python services under
`src/ai`, started by systemd timers, by an MCP server and by desktop front ends.
This directory holds TLA+ models of the parts of it whose correctness depends on
interleaving, failure and order, the TLC configurations that check them, and
theorems about them proved with TLAPS. Paths below are those of the repository
under `src/`.

## 1. Inventory

| Component | State it keeps | Operations | Talks to | Modules |
| --- | --- | --- | --- | --- |
| **Phase control plane** `ai/phase_control` | a Notion database of phase rows (status, approval, run id, lease); a runner's local row | `run_once`, Slack commands, manual closeout, operator edits | Notion (HTTP, no lock, no conditional write), Slack, agent backends | `PhaseRules`, `PhaseControl`, `PhaseLifecycle` |
| **Phase closeout** `ai/phase_control/closeout.py` | dead-letter file, report of a closeout | `run_closeout` over targets with retries | the runner, the vector tables | `CloseoutIngestion` |
| **Rate limiter** `ai/rate_limiter.py` | a JSON file of counters shared by all processes; per-process cache | `can_call`, `record_call`, `wait_time`, flush daemon | every caller of an external API; the file under `flock` | `RateLimiter` |
| **Provider health** `ai/health.py` | failure counters, cooldown, auth state per LLM provider | `record_success`, `record_failure`, `get_sorted` | shared by all requests of a process, without a lock | `ProviderHealth` |
| **LLM router** `ai/router.py` | per request: order of providers, stream buffer | `route_query`, `route_chat`, `route_query_stream` | health, rate limiter, litellm, budget, caches | `ProviderRouting` |
| **Token budget** `ai/budget.py` | usage per process, one usage file a day | `can_spend`, `record_spend` | router, whose streams and failing checks go around it | `TokenBudget` |
| **Orchestration bus** `ai/orchestration` | registry, depth per correlation | `dispatch`, `stop` | workflow runner, agents (nested calls) | `OrchestrationBus` |
| **Workflow runner** `ai/workflows` | results and completed steps of a plan, a row of `workflow_runs` | `run_plan` | bus, tools, database | `WorkflowPlan` |
| **Agent collaboration** `ai/collab` | SQLite task table; JSON file claims | `claim_task`, `complete_task`, `claim_file`, `release_file` | several agents' processes | `TaskQueue`, `FileClaims` |
| **Tool marketplace** `ai/mcp_bridge/marketplace` | pack index, pack directories, dynamic registry, allowlist file | import, validate, install, remove, disable, reload | MCP clients, the file watcher | `PackMarketplace` |
| **Security autopilot** `ai/security_autopilot` | hash-chained audit ledger | execute, append | sensors, policy | `AuditLedger` |
| **PIN** `ai/settings_service.py` | SQLite settings: hash, salt, attempts, lockout | `setup_pin`, `verify_pin` | UI, secrets | `PinLockout` |
| **Shell sessions** `ai/shell_service.py` | session table and its file, child processes | create, execute, terminate, list | UI, MCP tools | `ShellSessions` |
| **Self-healing** `ai/self_healing.py` | cooldowns in memory and in a file | `run_check`, `propose_action` | system repairs | `SelfHealing` |
| **Document and code index** `ai/rag/ingest_docs.py`, `ingest_code.py` | vector table, state file of hashes or time stamps | `ingest_files` | closeout, tools, operators | `DocIndex` |
| **Code structure index** `ai/code_intel`, `scripts/index-code.py` | `code_nodes`, `relationships` | full, incremental and single-file runs | a timer, operators | `CodeIndex` |
| **Log ingestion** `ai/log_intel/ingest.py` | cursors in `.ingest-state.json`, `health_records`, `scan_records` | `ingest_all` | a timer, tools; the snapshot script and logrotate, which name, link and move the logs | `LogIngest` |
| **Intelligence scraper** `ai/intel_scraper.py` | one JSONL file per source and day, its `.tmp` | a scrape | a timer, the intel tool | `IntelScrape` |
| Response caches, phase backends, LLM proxy, MCP bridge server and tools, policy and approval, governance and federation, agent workbench, identity, reports, UIs | files, records, registries | see section 6 | | none |

Hard behaviours, and where they are:

* *Read, decide, overwrite.* Every Notion operation reads a page, changes a local
  copy and patches the whole row back, and a failed patch is swallowed. The log
  cursors, the token usage and the intelligence files are rewritten whole in the
  same way, by processes that nothing keeps apart.
* *Check, act, record.* The rate limiter and the budget check before a call and
  count after it; `claim_task` selects and then updates; nothing is held in between.
* *Two representations of one thing.* The limiter's cache and its file; a table and
  the cursor, hash or state file that says what is in it; the marketplace's index,
  directories, registry and allowlist; sessions in memory and saved.
* *Decisions older than the state they rest on.* A request orders providers once and
  then meets other requests' failures; a runner takes its approval decision before it
  claims the lease; an indexer hashes a file and reads it later.
* *Cleanup on exceptional paths.* `finally` in `run_once` and in `dispatch`, early
  returns that skip it, commit and failover of streams, aborted plans.
* *Death between two writes.* Nearly every service writes twice for one operation:
  attempts and lockout, registry and index, nodes and relationships, action and audit.

`PROJECT.json` lists every hazard with its line and the properties that cover it.

What makes each component correct, in one line: *phase control* - no stale copy may
invent a completion, an approval or a satisfied dependency, phases do not get stuck
without a crash, and statuses move along the graph; *closeout* - it ends, and no
failure is hidden; *rate limiter*, *budget* - limits are overrun by no more than what
is in flight (and, for the budget, what escapes it), and no recorded call is forgotten; *routing* - a client hears one
provider only, and a disabled provider is left alone and comes back; *bus* - circular
handoffs end, and levels are not lost; *workflow* - complete means all steps;
*collaboration* - a file has one owner, a task no more than its claimers raced for;
*marketplace* - what is installed can be found and removed, and tools keep their owner;
*ledger* - nothing is done unseen, one chain but for races; *PIN* - the lockout holds;
*sessions* - no shell is orphaned; *self-healing* - no repair loop; *indexes and logs* -
what is passed by is in the table.

## 2. Modules

### Phase control

`PhaseRules` holds what is stateless: `AllowedTransitions` and `CanTransition`
(`state_machine.py`), the record of the row fields that any gate reads, the lease test
of `PhaseRow`, `ApprovalSatisfied` (`policy.py`).

`PhaseControl` is the plane itself. `row` is the Notion database; each runner has a
program counter over `run_once`, the phase it works on, its `run_id`, its local
`phase` object (`copy`) and the page its claim or release has read (`page`); each handler
holds the row it has read. A step of a runner is what happens between two Notion
requests, so that any other actor may act in between:

| Action | Code |
| --- | --- |
| `Pick` | `get_next_ready_phase`, `check_ready_requirements`, `check_approval` |
| `ClaimConflict`, `ClaimRead`, `ClaimWrite` | `claim_lease`: read and decide, then PATCH |
| `Load` | `get_phase` after the claim |
| `PreflightBlocked`, `Start`, `StartRefused`, `StartRaises` | preflight gate, `transition_phase` to In Progress, `update_phase`, their exceptions |
| `Announce` | the Slack post, and the second write when it opens a thread |
| `Execute`, `ExecuteRaises` | backend, validation commands, transition; the `except` clause |
| `ReleaseForeign`, `ReleaseRead`, `ReleaseWrite`, `FinalWrite` | the `finally` clause |
| `Crash` | the process dies in any step |
| `HandlerRead`, `SlackIgnored`, `SlackCommand`, `CloseoutRerun` | `handle_slack_event`, `run_closeout_manually` |
| `OperatorReady`, `Tick` | the operator's edit in Notion; the clock |

`UpdatePhase` is the PATCH: it writes every field the model keeps, or is lost without
its caller noticing (`_update_page` returns `False`, `update_phase` ignores it).
`validated` and `granted` are history variables: phases whose backend and validations
once succeeded, phases once approved.

`PhaseLifecycle` is the abstract specification: statuses move along
`ALLOWED_TRANSITIONS`, and a phase begins only after those it depends on are Done.
`PhaseControl` implements it, with one runner and neither handlers nor lost writes,
under the mapping `status <- [p |-> row[p].status]`.

### Rate limiter

`RateLimiter` models request threads of several processes. A window of an entry is a
counter with a start; a missing JSON key is `Unset`. `Renewed` is
`_get_provider_state`, which every reader applies; `RenewedInMemory` the slightly
different one of the cache; `Merge` the sums of the flush. `Check` and a record are
two steps with the API call between them. Writers hold the `flock` from read to
rename, so each is one step; the flush is two, since it takes the cache under a
different lock. The failure actions are the three `except` paths of the recorders and
the flush, and `Killed`. `made` counts the calls really recorded today.

### Routing

`ProviderHealth` is one provider's record: counters, the cooldown and its doubling.
`disabled_until` is kept as time left, so no clock is needed and cooldowns can go on
for ever. `ProviderRouting` has concurrent requests over shared health records:
`Arrive` orders the providers from the health they have then, `Call` is the call of
the next turn, and its end is one of `Answered`, `UnreadableQuery`, `UnreadableChat`,
`Retry`, `Broken`, `Abandoned`. `Chunk` is one chunk of a stream, held back until the
commit. Scores only order providers, so `ProviderOrders` allows every order. litellm
is external: `Call` lets it pick any deployment of the task type, because that is all
the code asks of it (`router.completion(model=task_type)`).

`ClientStream` is the abstract specification: a service with one speaker, whose client
hears the chunks of one answer in order, with nothing taken back, until all of it was
sent or an error ends it. `ProviderRouting` implements it, with its turns, buffers and
commits hidden, under the mapping `open <- [q |-> pc[q] # "idle"]`, `heard <- out`,
`due <- received`.


### Services of the bridge and the agents

Fifteen small modules, each about one file format or table and those who write it.
A step is what happens between two points at which another process, a kill or a
restart may come in; a call that the code makes under a lock, in one transaction or in
a process that answers one request at a time is one step. A variable called a history
in its module (`raced`, `peak`, `early`, ...) exists for the properties only.

`OrchestrationBus` - `dispatch`. `Admit` and `Refuse` add the level to
`_correlation_stack` and compare it; `NoHandler` and `Refuse` are the early returns
that leave the level behind, `Return` the `finally` clause, `Stop` the `clear()` while
handlers run. A handler that dispatches again is another `Admit` of its correlation.

`WorkflowPlan` - `run_plan` with any dependencies, forward ones included:
`StepSkipped`, `StepCompletes`, `StepFails`, `StepAborts`, then `RunEnds` with the
status computed from the results there are; `RunStarts` and `RunEnds` may lose their
write of the row in `workflow_runs`, and `RunDies` leaves it running.

`TaskQueue` - `SelectTask` and `ClaimTask` are the two statements of `claim_task`; the
other operations are a transaction each. `FileClaims` - `ClaimFile` with its sweep of
expired claims (`Kept`), `ReleaseFile`, `WriterKilled` (an unparseable file reads as no
claims), the clock. `granted` is what each agent was told and when.

`PackMarketplace` - one action for each handler that changes anything, and the ways
to stop half-way: `InstallFails` (allowlist not written, tools registered),
`InstallKilled` (before the index), `BridgeStops` (the registry is memory).
`ReloadAllowlist` replaces the registry from the file, as the watcher does.

`AuditLedger` - `Execute` runs or rejects, `ReadLastHash` and `AppendEvent` are the two
halves of `append_event`; `KilledBefore` stands for an exception that leaves
`execute` unaudited as well; `KilledWriting` leaves a line without an end, to which the
next event is glued (`tornTail`). A hash is the number of its event.

`PinLockout` - attempts and lockout are two transactions (`WrongPin`,
`WrongPinKilled`), `setup_pin` writes a hash and then a salt (`SetupKilled`); the clock
is finer than the whole seconds that `locked_until` is kept in.

`ShellSessions` - every call that changes a session, with a save that may fail
(`Save`), shells that exit and stay zombies until the next `Popen` reaps them, and
`BridgeRestarts`. `SelfHealing` - cooldowns in memory and in the file, `Approved` and
`ApprovalFails` (the save raises after memory changed), `HealerRestarts`.

`TokenBudget` - `RouterStarts` loads the day's file if it can be read, `Admitted` and
`Refused` are `can_spend`, `Answered` is an answer with its `record_spend`, which replaces
the file by the count of its process if it can be written; `NextDay` changes the file name
and nothing else. What goes around the budget has actions of its own: `AnsweredUnchecked`
is the answer of a stream (`route_query_stream` neither checks nor records) or to a request
whose check raised (the router swallows that and sends); `AnsweredUnrecorded` one that is
thrown away for the next provider after it was given (`ai/router.py:612`, `:744`) or whose
record raises or is overwritten by another thread. `unseen` counts them for each day.

`CloseoutIngestion` - targets in order, `Retry` up to `max_retries`, `GiveUp` with a
dead letter that may not be written, `Finish` with the report.

`LogIngest` - `ingest_all` of several processes: health logs are listed (`HealthRead`), parsed
(`HealthParse`), added and then the cursor is saved, scans the other way round, freshclam
writes the state it read earlier back; failures of the embedding and kills in any step.
A file of the health directory is the place of its name in the order: the log of
snapshot n (`Original`), the copy that logrotate moves it to (`Copy`), and behind all dates
`health-latest.log` (`Latest`), the link that the snapshot script sets last (`LogLinked`).
`Shown` is the snapshot one reads there. A log without a record, or whose parsing raises, is part of
`Content`; empty files are never listed. A count of scan rows stops at 2, which stands for
several; `passed` is a history: how many health logs there were when the runs that saved
their cursor listed the directory.

`DocIndex` - a run hashes and reads its files one by one (`HashFile`, `ReadFile`, with
edits in between), adds all chunks (`StoreChunks`, `StoreNothing`) and replaces the
state file (`LoadAgain`, `SaveState`); `reloads` tells the two programs apart: documents
write back what they read at the start, code what it reads at the end.
`CodeIndex` - full, incremental and single-file runs over two tables: nodes deleted,
then relationships, a file parsed (`ReadText`) and hashed later (`HashText`), nodes
added, then relationships; `DeletionFails`, `CodeRunDies`, and files that change, break,
disappear and come back.

`IntelScrape` - `Fetch`, `ReadExisting`, `WriteTmp`, `ReplaceFile` of runs that share
one `.tmp` file.

`MCServices` puts fourteen of them (all but `IntelScrape`) side by side for TLC: they
share no state, so `component` is chosen in the initial state and a behaviour is one of
that component, the others resting in their initial states.

## 3. Runs

| Run | Shows | Bounds |
| --- | --- | --- |
| `phase_gates` | `DoneWasValidated`, `ApprovedBeforeWork`, `DependenciesFirst` survive stale writes, lost writes and crashes | 1 runner, 1 handler, 2 phases in a chain, the second with approval, 2 ticks |
| `phase_settles` | `Settles` (liveness), `FollowsLifecycle` (refinement) | 1 runner, 2 phases, 3 ticks, no failures |
| `phase_cancelled` | violation: a cancel is overwritten | 1 runner, 1 handler |
| `phase_lease` | violation: the released lease comes back | 1 runner |
| `limiter_counts` | `OvershootBounded`, `DailyOvershootBounded`, `CallsAreKept`, `WaitIsNeeded` | 2 processes with a thread each, a minute and a day window with limits 1 and 2, 4 instants over 2 days |
| `limiter_flushed` | violation: flushed calls are not counted | 1 process, 1 thread |
| `routing` | `RenewalsBounded`, `CooldownRunsOff`, `Recovers` (liveness), `FollowsStream` (refinement) | 2 requests of any route, 2 providers, one of them litellm's choice, thresholds 1, two cooldown lengths, commit at the second chunk, 3 chunks |
| `routing_ordered` | violation: a disabled provider is called | 1 query, 2 providers |
| `services` | 24 properties of fourteen components, below | below |
| `budget_refusals` | violation: requests refused on a day on which nothing was spent | 1 process, 1 midnight |
| `health_latest` | violation: with `health-latest.log` as cursor later logs sort before it | 1 process, 2 health logs, no scans, no faults |
| `intel_lost` | violation: a second scrape of a day loses the items of the first | 1 run at a time, 2 items, 2 scrapes |

What `services` checks, and where it is bounded:

| Component | Properties | Bounds |
| --- | --- | --- |
| audit | `AuditAccounted`, `ForksBounded` | 2 executors, 4 requests, 2 kills |
| budget | `DayWithinLimit`, `LimitPerStart` | 2 processes, limit 2, calls of up to 2 tokens, 3 calls, 2 starts, 1 answer a day that escapes, 1 midnight |
| bus | `NestingBounded`, `LevelsAccounted` | depth 2, 6 dispatches, 1 stop |
| claims | `ClaimsExclusive` | 2 agents, 2 files, a time-out of 1 tick, 4 instants |
| closeout | `FailuresVisible`, `CloseoutEnds` (liveness) | 2 targets, 2 retries, 2 closeouts |
| code | `PassedByIsIndexed` | 1 file, 2 texts, 3 runs |
| docs | `RecordedIsIndexed` | 2 runs at a time, 2 in all, 2 files, one of them blank, 2 editions, 1 file a run |
| healing | `CooldownHeld` | 2 repairs, a cooldown of 2 ticks, 6 instants |
| ingest | `HealthAtLeastOnce`, `ScansAtMostOnce`, `HealthCaughtUp` (liveness) | 1 or 2 processes, 2 health logs, 1 scan, 1 signature, 3 of logs, links, rotations and signatures, 1 fault |
| packs | `InstalledFound`, `OwnersKept` | 2 packs that share a tool, one of high risk |
| pin | `EarlyTriesAccounted` | 2 attempts, a lockout of 2 seconds of 2 ticks, 10 instants, 2 kills |
| plan | `CompletedIsClosed`, `CompleteMeansAll` | plans of 3 steps, all dependency relations |
| shells | `EveryShellIsOwned`, `ShellsBounded` | at most 2 sessions, 4 creations |
| tasks | `GrantsBounded` | 2 workers, 2 tasks of different priority |

`ServicesTypeOK` joins the type invariants.

Why the bounds are enough to be worth running. Two phases in a chain give a
dependency that may be satisfied, overwritten or cancelled while its successor runs;
two ticks let a row that an earlier tick left behind (stale lease, lost write) meet a
later one. A second runner is left out of `phase_gates` for size only; the same
invariants are proved for any number. The limiter's day of three instants and minute
of one make the two windows end at different times, and four instants cross a day
change. In `routing` every failure disables and every refused key breaks, so that two
requests are enough to disable, renew and disable again (the theorems hold for any
threshold); a maximum cooldown of twice the base makes the doubling and the cap both
happen. litellm choosing one provider lets it be the one tried or another one. Three chunks with the
commit at the second give chunks before, at and after it.

In `services`, two executors and four requests give two forks of one event and a torn
line that another event is glued to; six dispatches over a depth of two reach a refusal
before and after a stop; four instants over a time-out of one let a claim expire, be
renewed, taken over and released late. Two closeouts let a dead letter of the first be
lost by the second. Files of the code index meet only where a full run adds all of them
at once, so one file shows every order of writes, and three runs let a stale row, its
deletion and a revert follow each other; with two files and two runs the same invariant
holds over 5.7 million states. Two document runs with two files, one without text, and a
cap of one file a run are the least in which runs overlap, skip and stop early. Nine
ticks hold two lockouts that are rounded down. Four creations with room for two reach
the limit, lose a session in a failed save and start again. Two budget starts let two
processes overlap or the second load what the first left. Three events of logs hold two
logs and a link or a rotation between them. The safety properties of
`services` are also proved without bounds, of the composition itself.

`phase_settles` says nothing with two runners: then a runner whose claim was
overtaken may write its stale copy last, and TLC shows a phase left In Progress.
That needs two runners at once, which the timer of this deployment does not start;
the same holds of `OneBackend` (at most one backend works on a phase), which
`claim_lease` cannot ensure over Notion.

Fairness. `Settles` assumes weak fairness of each runner's next step, and nothing of
handlers: a tick is straight-line code of one thread, its backend has a timeout and so
has each validation command. `Recovers` assumes weak fairness of `Tick` only: time
passes; requests may arrive and fail as they like. `CloseoutEnds` assumes weak fairness
of the steps of a closeout: an ingest returns or raises, and `sleep` returns.
`HealthCaughtUp` assumes that a process goes on with its run and starts another: the
timer starts `ingest_all` again and again, and it is straight-line code. No fairness is
given to failures and kills, nor is their absence assumed: they are bounded in number
and may come at any point.

Deadlock is not checked: every bounded instance ends where its clock or its number of
ticks, calls or runs does, and a control plane with no phase ready rightly has nothing
to do.

Each property of a passing run has a mutant: an operator, defined just before the one
it would replace and marked `Mutant:`, that is a plausible bug in that code and
violates the property.

## 4. Proofs

`PhaseControlProofs` proves for any sets of runners, handlers and phases, any
dependencies, with lost writes and crashes:

* `Typing`: `Spec => []TypeOK`;
* `DoneIsValidated`, `WorkIsApproved`, `WorkIsOrdered`: the three invariants of
  `phase_gates`;
* `Implements`: with one runner, and neither handlers nor lost writes, the plane
  implements `PhaseLifecycle`, crashes included: initial states map to initial states,
  and every step maps to a step of a phase or to a stutter;
* `TicksAreFinite` and `WorkIsAttended`: the safety core of `Settles`. Every step of a tick
  is one of at most ten and brings its end nearer; and one runner that does not crash
  is at work on any phase that is In Progress, so that the end of its tick ends that too.
  With two runners the second is false, as is `Settles` (section 3).

None of the invariants is inductive: a row may be Done because a copy was, which a runner or a
handler read earlier. The strengthening says of *every* copy of a row, wherever it is
held (the database, a runner's local row, the page of its claim or release, a
handler's row), that Done implies validated and approved implies granted; and of every
runner past `Pick` that what it decided there still holds of the history: its phase was
granted if approval was needed, its dependencies validated. The histories only grow,
which is why the decisions stay true when the rows they rested on are overwritten. The
proofs go action by action; actions that only move copies about share one lemma.

The simulation rests on `InStep`: with one runner the row and the runner's copy have
the same status, except between the end of a phase in the copy and the write that
follows; a crash leaves the row where it was. So every write is a legal change of
status or none.

`RateLimiterProofs` proves, for any finite set of threads, any processes, providers,
windows and limits, and any failures:

* `Typing`;
* `OvershootIsBounded` and `DailyOvershootIsBounded`: when every limiter writes the
  file, a counter exceeds its limit by at most the number of other threads;
* `WaitIsNeverTooLong`: `wait_time` never names more than is needed. The longest of
  the waits of the exhausted windows is attained by one of them, and that window stays
  exhausted, by the same date or the same start, until its wait is over;
* `NoCallIsLost`: with cached limiters, `CallsAreKept`. It adds up counters of all
  processes, and a sum over a set is a recursion; so the calls that wait to be written
  are a finite set (`Unwritten`, a pair of a process and a number for each call), and the
  proof is how its cardinality changes when a process records a call, takes its
  cache or adds it to the file.

For the overshoots, the inductive invariant counts: what a reader would see of a counter
(`Seen`, the entry after `Renewed`) plus the threads that have been let through and have not recorded yet
(`Callers`) is at most the limit plus the number of threads minus one. A check that
succeeds sees less than the limit, and then the callers are at most all threads; a record
moves one from the second summand to the first; a window that ends only lowers the first.
It rests on lemmas about the finite set of callers (a thread enters it at `Check`, leaves
it at a record) and on `DateMonotone`: a day never ends twice. The daily bound adds that
the calls made today are not more than the day's counter, unless a write failed.

`ProviderRoutingProofs` proves, for any finite sets of requests and providers, any
thresholds and any length of streams:

* `Voices`: `Spec => []OneVoice`. The inductive invariant (`VoiceInv`) says where the
  chunks of the current turn are: before the commit all of them are held back and
  nothing was sent, after it all were sent and nothing is held back; only streams
  commit, so a turn that is given up was never heard;
* `RouterIsOneSpeaker`: the router implements `ClientStream`. By `VoiceInv` a turn that is
  given up was not heard (`Failover`), what an answer adds to the stream is of the
  turn that was heard before (`Deliver`, `End`), and calls and ticks are stutters;
* `RenewalsAreBounded`: `Spec => []RenewalsBounded`. The renewals alone are not bounded
  inductively: what limits them is who can still fail. `TurnInv` adds to the renewals
  of a provider the requests that have it ahead of them (`Holders`): together at most
  the number of requests, and one less while the provider is disabled or was renewed,
  since the request that disabled it has it behind it. A failure moves a request out of
  `Holders`, which needs that an order names a provider once; an order made while the
  provider is out does not contain it;
* `RoutingTypes`: `TypeOK`;
* `CooldownsRunOff`: `CooldownRunsOff`. It needs that one demotion more is not cooled down
  for less, so that powers of two grow, and that some number of demotions reaches the
  maximum (`CapReached`). Instead of an induction, a power is the number of subsets of a
  finite set (`FS_SUBSET`), which grows with the set, and the cap is the least element
  of a set of numbers, which has one because the naturals are well-founded;
* `RecoveryIsNear`: the safety core of `Recovers`. What is left of a cooldown, and a
  longest cooldown for each renewal that the requests are still good for, is together at
  most as many longest cooldowns as there are requests (`OutForAWhile`); no step adds to
  it and every tick takes one off (`RecoveryNears`).

`OrchestrationProofs`, on what agents share:

* `LevelsHold` (`NestingBounded`, `LevelsAccounted`): the open dispatches of a correlation
  are at most its counter and a depth's worth for each stop;
* `PlansHold` (`CompletedIsClosed`, `CompleteMeansAll`): results exist exactly behind the
  loop unless the plan was aborted, and then one of them is a failure;
* `ClaimsAreExclusive`: the file names every agent that may still rely on a claim, with a
  claim no older than the grant, so that the sweep of expired claims spares it;
* `GrantsAreBounded`: the grants of a task and the agents between the two statements of
  `claim_task` for it are together at most all agents, since a task that was handed out is
  never pending again.

`IngestProofs`, on what is remembered and what is in the table:

* `HealthLogsAreStored` (`HealthAtLeastOnce`): every cursor that may still be written
  back, in the file or in the memory of any process, is behind the table unless it is
  `health-latest.log` (`Behind`), and the logs there were when a run listed the directory are
  in the table or on their way to it as long as that run may still save its cursor
  (`ToParse`, `ToAdd`, `ToSave`). A rotation moves a log to a name that sorts after its own
  and before the next, so a cursor is behind the one name exactly if behind the other;
* `ScansAreStoredOnce`: with one process, the records on their way to the table are
  behind the saved cursor and not stored yet;
* `RunsCatchUp`: the safety core of `HealthCaughtUp`. While `health-latest.log` is not the
  cursor, a run that starts lists every missing log, since no cursor has passed it; its next
  steps store them, or meet one of the bounded failures or a rotation; and each step of a run
  brings its end nearer, so that another starts;
* `RecordsAreIndexed`: what a run has found of a file is backed by its text in memory
  until the table took it and by the table afterwards, and texts are never older than the
  hashes taken before them;
* `PassedByHolds`: a row is of the text its hash is of, and its relationships are in their
  table or about to be added, but for the files that the two histories name.

`BridgeProofs`: `ShellsAreOwned` (a session id is given out once, so no entry is written
over); `LockoutHolds` (early tries, wrong PINs whose attempt was not recorded, and a
lockout that is missing are together at most the kills); `PacksHold` (`InstalledFound`,
and `OwnersKept` because the registry and the allowlist name the same owner);
`DailyLimitHolds` (while processes run one at a time and their files can be read and written, a day's answers
take no more than the limit, one call's tokens for each request that was in flight at once,
and one call's for each answer that escaped the budget: up to what escaped, a day's answers
are in the count of the running process and in the file it may be restarted from, and
together with what its calls under way may still take they stay under that ceiling); `StartsLimitSpending`
(`LimitPerStart`: a day's answers and a ceiling for each running process are together at
most a ceiling for each start, what the running processes count up to their ceiling, and what
escaped, since a process counts what it is told. What they count together is again the size
of a finite set).

`RecoveryProofs`: `FailuresAreVisible` (a closeout writes into its own results, before its
report); `CooldownsHold` (the cooldown of a repair that went ahead is both in memory and
in the file, so a restart does not lose it); `LedgerHolds`. For the latter, an event that
has a successor is never again the last one, so only executors that had read it before can
follow it: successors and executors about to follow are together at most all executors.
For what is missing, the last line is counted before it is lost: `AtStake` reserves
what the next append to a torn line destroys, the line and perhaps an event that could
still be read. `AttemptsAreFinite` is the safety core of `CloseoutEnds`: a closeout has at
most (retries + 1) attempts for each target before it, and each of its steps uses one up.

`ServicesProofs` carries all this over to `MCServices`, for any constants:
`ServicesImplementEach` (a step of the composition is a step of one service and leaves the
variables of the others alone, so the composition implements each specification),
`ServicesTypes` and `ServicesAreSafe` (the invariants and action properties that the run
`services` checks). For closeout and ingestion, whose specifications are fair, it uses the
specification without fairness, under which the same theorems are proved (`CloseoutSafe`,
`IngestSafe`).

Assumptions of the proofs are those declared in the modules (`PhaseAssumption`,
`WindowAssumption`, `ExecutorAssumption`, ...), and nothing else. The bounds on clocks,
ticks, calls, runs and kills are arbitrary naturals.

Only model-checked: the liveness properties `Settles`, `Recovers`, `CloseoutEnds` and
`HealthCaughtUp`. Every invariant, action property and refinement of the passing runs is
also a theorem. Liveness under fairness needs `ENABLED` and an induction over a ranking,
which are outside the prover's reach; for each of the four the part that can be said of
single steps is proved, the ranking and that it goes down (`TicksAreFinite` and
`WorkIsAttended`, `RecoveryIsNear`, `AttemptsAreFinite`, `RunsCatchUp`). What a recursive
definition computes cannot be proved by induction either; the models have none, and
where a proof needs a sum or a power it counts a finite set.

## 5. Findings

1. *A cancelled phase runs on.* `run_once` writes its whole local row at each step; a
   Slack cancel in between is undone (`phase_cancelled`).
2. *A released lease comes back.* The `finally` clause releases the lease and then
   writes the local row, which still holds it (`phase_lease`). The repository's tests
   pass because the in-memory store they use hands the runner's own object back after
   its first write, so that releasing clears the local row too; Notion does not.
3. *Cached limits are not enforced.* Flushed entries have no window starts, so readers
   reset them (`limiter_flushed`). `RateLimiter()` uses the cache by default.
4. *The provider tried is not the provider called* (`routing_ordered`).
5. *The daily token budget does not start anew.* Usage is loaded when the process starts
   and never again (`ai/budget.py:42`), so a process that used up the limit refuses
   requests on the days after, too (`budget_refusals`).
6. *A day's intelligence is overwritten.* The scraper appends to the `.tmp` file, not to
   the file of the day, and moves it over that file (`ai/intel_scraper.py:103`): the
   second run of a day replaces what the first had found (`intel_lost`).
7. *`health-latest.log` hides the health logs after it.* The link that the snapshot script
   leaves in the directory (`scripts/system-health-snapshot.sh:751`) matches the pattern of
   `ingest_health` (`ai/log_intel/ingest.py:576`) and sorts after every date. A run that
   parses it saves it as the cursor, and no later run finds a health log until something else
   rewrites the cursor: "lexicographic = chronological" (`:169`) is false of it
   (`health_latest`). `HealthAtLeastOnce` and `HealthCaughtUp` say what is left: what a run
   listed is stored, and everything is as long as the link does not become the cursor.

Seen while modelling, and part of the models or outside them, but contradicting no
statement of the repository that a run could check:

* Closeout: a retried target appends its records again, `force` is ignored, and a store
  that does not answer counts as success.
* Marketplace: an installation before the registry was loaded takes over entries of the
  allowlist; a failed one leaves its tools registered; validating an installed pack makes
  it one that is not found; removal deletes no file, and disabling unregisters no tool.
  An approval is never consumed.
* PIN: a kill between hash and salt leaves a PIN that nothing verifies or replaces.
* Sessions: disconnected entries count towards the limit for ever.
* Code index: the full run of the timer adds every row again; rows of deleted files stay;
  after a revert rows of two texts may stand side by side while the file counts as up to
  date; the import graph is rebuilt neither after a run that died before it nor, as
  `scripts/index-code.py:140` has it, by adding edges: the store replaces by default. The
  searches for dependents share one visited set with a depth limit and may miss callers
  that a longer path reached first.
* Documents: a forced run for some files forgets the hashes of the others.
* Budget: streamed requests, which the LLM proxy makes of every streamed call, are neither checked nor
  recorded (`ai/router.py:782`); a check that raises lets its request pass (`:570`, `:712`); the
  tokens of an answer that cannot be read are never recorded (`:612`, `:744`).
* Intelligence: the `.tmp` file of a killed scrape brings its items in twice.

## 6. Left out

Of modelled components: `InMemoryPhaseSync` (a test double with different aliasing, see
5.2); `renew_lease`, `prune_stale_entries` and `clear_dead_letter` (no callers outside
tests); the wording of rows, summaries and messages; the router's caches and usage
accounting (they end a request early or change nothing the properties read); the threads
that call the synchronous `route_query` in parallel are modelled at the granularity of one
health update each, not of its individual field assignments. `ScopedBudget` is
constructed by nothing but its tests, so its enforcement states are not modelled. `_extract_provider` may give a name that
is no provider's (`ai/router.py:306`), whose record nothing reads; `Answered` credits a
provider. Texts of documents only grow (`Edit`): one that returns to an earlier text has an
earlier hash again. A pack's tools are registered all or, in `InstallFails`, the pack is not
installed: that some are refused (`installer.py:263`) is left out. An ingestion state file that cannot
be parsed counts as empty (`ingest.py:123`) and everything is ingested again; it is replaced
atomically, so only something else than the program can cause it. A health log is written at
once, its copy is not compressed again, and no log is deleted (logrotate does so after 90 days).
Several self-healing coordinators on one state file are left out. Reuse of
a pid after its process was reaped, a manual code index run that overlaps the timer's, the
import graph, change history and the queries over the code tables are left out. What the
autopilot's classifier, planner and policy decide, and what tools, agents, embeddings and
ingest targets answer, is a choice.

Not modelled, as components:

* *MCP bridge server and tools* (`ai/mcp_bridge/tools.py`, `server.py`): dispatch to
  some hundreds of tools, each a stateless read, or a call of a service above.
* *Policy and approval*: one pure function of a tool and its arguments; an approval is
  granted in the call that asks for it and consulted by nobody later.
* *Governance, lifecycle and federation*: setters of in-memory fields without guards, and
  arithmetic on scores.
* *Response caches*: a file per entry, where a lost entry costs a call; the eviction is a
  deletion of old files. The semantic cache is vector search.
* *Agent workbench*: records in a JSON file; the leases of its sessions are written but
  never read, so no property could depend on them.
* *Provenance, project workflow, settings views, reports, UIs* (`ai/provenance.py`,
  `ai/project_workflow_service.py`, most of `ai/settings_service.py`, `ui/`): read-only
  joins over other components' tables, or key-value stores without a protocol.
* *Phase backends, Notion and Slack clients, LLM proxy*: subprocess and HTTP wrappers;
  what they may answer, fail or lose is in the actions of their callers.
* *Threat lookups, gaming and system agents*: sequential fetch-and-report pipelines; as
  callers of external APIs they are the threads of `RateLimiter`.
* *Agent identity*: reached by no running service.

So the models stand for a small part of the repository's lines: the part in which state
is changed by several steps or several actors. The rest parses, formats, fetches, searches
and displays, and a model of it would only repeat it.

The executor of the autopilot, the self-healing coordinator, the file claims and the
claims of the task queue (the bridge only adds and lists tasks) are modelled as their code
and tests have them; no timer or service of this repository calls them yet.

## 7. Plan

What is worth adding, in this order:

1. `TaskQueue` with its dependencies, once `claim_task` is meant to honour them.
2. A second phase runner, if the deployment ever starts one: `OneBackend` and `Settles`
   then need a conditional write in Notion.
3. The import graph of the code index, rebuilt from tables of several runs.
4. Abstract specifications of the rate limiter (a counter for each window) and of the
   ledger (a log that loses what kills account for).
5. `ScopedBudget`, when something constructs it.

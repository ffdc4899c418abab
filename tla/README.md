# TrinoHub in TLA+

TrinoHub is a control plane for Trino clusters on AWS: a FastAPI server
(`trinohub/api.py`) over one class, `ControlPlane` (`trinohub/server.py`), a
SQLite database and boto3. This directory holds TLA+ models of its core,
TLC configurations that check them, and proofs checked by TLAPS.

Run a check with `tlc -config StartRace.cfg MCClusterLifecycle.tla`, a proof with
`tlapm ClusterLifecycle_proofs.tla`. `PROJECT.json` lists the runs, the lines each
definition models, the hazards and the theorems.

## The system

Every API route runs one `ControlPlane` method on a thread pool; one more thread
per host, elected by a file lock, runs the pollers in turn; a second one reads
inbound mail. They share nothing but the database, AWS, Trino and a few
dictionaries under locks. `conn()` opens a SQLite connection whose transaction
begins at the first *write*: a read, and everything decided from it, happens before.
AWS and Trino calls are made outside transactions. So the hard behaviour is in the
order of reads, external calls and writes of concurrent handlers, in failures
between them, and in restarts: nothing is reconciled at start-up.

| Component | State it keeps | Operations | Talks to | What makes it correct | Model |
|---|---|---|---|---|---|
| Cluster lifecycle | `clusters.status`, `provider_resources`, bootstrap tokens | create, start, suspend, disable, delete, live resize, health | AWS; called by the API, pollers, query runs, the wire shim | one start at a time; nothing billable untracked; off means nothing runs; transient statuses end | ClusterLifecycle |
| Query runs | `query_runs` | create, poll, dispatch, cancel | lifecycle (auto-resume), Trino | submitted once; each page counted once; a terminal status is final; every run ends | QueryRun |
| Result cache | keys in `query_runs` | lookup, expire, flush | query runs, changes of access | no result from before a write that was already answered, beyond its age or under rules that were flushed | ResultCache |
| Result limits | rows and bytes kept of a run | add a page | query runs | within the caps, in order, kept for good, truncation told | ResultLimits |
| Wire shim | `wire_pending` | capture, poll, replay, expire | lifecycle, Trino, TLS gateway | a captured statement runs at most once, every client gets an end | WireResume |
| Auto-suspend | `cluster_timer_state` | tick | lifecycle, query runs, Trino statistics | never suspends a busy cluster or one inside its uptime window; suspends an idle one | PollerTicks |
| Autoscaler, worker sizing | sizes in `clusters`, the Auto Scaling group, scaling events | tick, edit | AWS | desired capacity within the range, cooldowns, workers for waiting queries | PollerTicks |
| Scheduled jobs | `scheduled_jobs`, `scheduled_job_runs` | tick, run now, edit, delete | query runs, email | each due time fires once; each failed run is retried once, unless the tick is cut off | ScheduledJobs |
| Cron expressions | none | parse, next run | scheduled jobs | the first match, none missed | Cron |
| Inbound email | `email_conversations` | receive, answer | SES, SQS, the model, query runs | answered at most once, only to verified senders, within the limit | InboundEmail |
| Roles | `roles`, `user_roles`, `users` | edit, assign, deactivate, SSO login | | somebody active keeps MANAGE_SECURITY | Accounts |
| Sessions, login, tokens | `sessions`, `api_tokens`, failure counts | login, logout, revoke, expire | OIDC provider | failures are limited; a token of single sign-on is used once | Accounts |
| Setup | `setup_settings`, bootstrap token, allowed networks | complete setup, edit networks | | set up once | Accounts |
| Data policies, tags | `data_policies`, `entity_tags`, `tag_policies` | create, delete, accept, classify, render | the coordinator's access rules, metadata cache | a user sees what the policies say and no more | AccessRules |
| Catalogs | `catalogs`, the secret store | create, edit, delete | Secrets Manager | a catalog's password is the one it was given | CatalogRegistry |
| SQL scanners | none | cache key, split | result cache, query runs | agree with the tokens of the text | SqlText |
| Templates, data products, shares, tabs, saved queries, notebooks | one row each | create, update, delete | | single-row edits with owner checks | |
| Ask Trino, MCP, statistics, costs, web interface, deployment | none of their own | | | | |

## What is modelled

### ClusterLifecycle: start, stop, edit and probe one cluster

`ClusterLifecycle.tla` is one cluster and any number of threads (`Callers`), each
with the set of operations it may run (`Ops`).

| Variable | In the code |
|---|---|
| `status`, `tracked`, `token` | the row of `clusters`, its rows of `provider_resources`, its row of `cluster_bootstrap_tokens` |
| `live`, `going` | what EC2 and Auto Scaling hold for the cluster, and what they are still shutting down |
| `booted` | coordinators that pulled their configuration with their token and answer health checks |
| `lost`, `stranded` | history the properties compare with: what AWS made in a call whose answer never came, the starts that raised in front of their try block |
| `pc`, `op`, `seen`, `attempt`, `group`, `snap`, `batch`, `failed`, `touched` | the locals of each running handler |
| `starts`, `inserts`, `crashes` | counters: name what a start makes, give rows their primary key, bound the runs |

A handler is cut at every SQLite read, transaction and AWS call. `start_cluster` is
`StartRead`, `StartClaim` (the conditional UPDATE and the token, one transaction) or
`StartRefused`, then `Resolve` or `ResolveRaises` (the instance type, after the claim and in front of the
try block), one step per AWS call and per recording transaction, and `StartFailed`
(its except block). The teardowns share `TeardownRead`, `TeardownMark`, the cleanup
(`DeleteRuntime` to `GroupsCleaned`) and differ in `FinishTeardown`/`FinishDelete`.
AWS names decide collisions as in `aws_checks.py`: the worker group and the launch
template have the cluster's name, so a second one is refused; coordinators are
separate instances; the security group is reused; removal is asynchronous (`Vanish`);
EC2 refuses to delete a group an instance still uses. A call that creates may act and its answer be
lost (`Make`: the handler goes to its except block, and of a worker group the repetition is told that it exists); a call
that deletes may raise whether or not it acted (`DeleteRuntimeFails`, `DeleteGroupFails`). A crash (`Crash`) drops every
handler and keeps the database and AWS.

Left out: the "Scaling" status, which the code tests for and never sets; events, audit,
notifications and gateway pushes, which no guard reads. Where an event's INSERT makes a
transaction fail, because the cluster's row is gone, that failure is modelled.

`ClusterService.tla` is the abstract specification, in the terms of
`docs/understanding-clusters.md`: a cluster is turned on from nothing and is off or
gone only once its compute is released. `ClusterLifecycle.tla` maps the statuses to its
modes (`Mode`), `MCClusterLifecycle.tla` gives TLC the instances.

### QueryRun: one query run and its clients

`QueryRun.tla` is one row of `query_runs`, Trino, and any number of clients
(`Clients`), each with the calls it may make (`Ops`): the editor's tabs, the job
scheduler, Ask Trino and MCP all go through `create_query`, `advance_query_run` and
`cancel_query`.

| Variable | In the code |
|---|---|
| `run` | the row: `status`, `pending_cluster_start`, `next_uri`, and for the result columns the pages applied to them, in order |
| `cluster` | `clusters.status`, moved in every way the lifecycle and its races can |
| `late` | the run is older than `QUERY_CLUSTER_START_TIMEOUT_SECONDS` |
| `sent`, `page`, `stopped` | Trino: statements submitted, the last page served of each, those failed or cancelled |
| `pc`, `op`, `row`, `resp`, `left` | the locals of each running handler |

`create_query` is `CreateRead`, `CreateInsert` and then either `Resume`/`ResumeFailed`
(an auto-suspended cluster) or `Submit`, the apply and a first `advance_query_run`, with
`CreateFailed` as its except block. `advance_query_run` is `AdvanceRead`, then `Fetch`,
`ApplyRead` and `Apply` for each page: `apply_trino_response` reads the row *before* its
transaction begins, so the read and the write are two steps, while the dispatch's apply
begins with an UPDATE and is one. `dispatch_pending_query` is `ReadCluster`,
`ProbeCluster`, `SubmitPending`, `ApplyPending`, with `Fail` for `_fail_query`.
`cancel_query` is `CancelRead`, `CancelRemote`, `Cancel`. Trino serves pages in order, serves the last
one again, may fail a statement at any time, and may act on a request whose answer is
lost (`Unanswered`). Left out: the caps on rows and bytes (a page is one row), the
access checks; the result cache's hit path is in ResultCache.

### WireResume: native clients of a cluster that is not up

`WireResume.tla` is the row of one cluster as the shim sees it, the gateway's route for its
host, and any number of native clients (`Clients`), each with one statement.

| Variable | In the code |
|---|---|
| `status`, `auto` | `clusters.status`, `auto_suspend_minutes`; move in every way |
| `route` | where Caddy sends the cluster's host: the shim, the coordinator, nowhere |
| `held`, `old` | rows of `wire_pending`, those older than `WIRE_RESUME_TIMEOUT_SECONDS` |
| `runs` | times a coordinator accepted a client's statement |
| `client`, `waits` | what a client's driver knows, the request it waits for |
| `pc`, `out`, `push` | the locals of each handler; the routes a thread computed and has not pushed |

`wire_submit_statement` is `WireSubmit`, then `WireStart` and `StoreCapture`, or `Forward`.
`wire_poll_resuming` is `LoadCapture`, `PollCluster`, `PollProbe`, `Endpoint`, `Replay`,
`DeleteCapture`, `PollSyncs` and `PollPushes`, with `DropCapture` for its synthetic
failures. `sync_tls_gateway` reads the rows in one step and pushes in another, in the
poll and in the other threads that call it (`Hooks`). A driver's connection may break
(`GiveUp`), a coordinator may accept a statement and its answer be lost (`Forward`,
`Replay`). Left out: headers, the texts of the synthetic results, and `wire_proxy`, which
forwards a request and changes nothing.

### Accounts: users, roles, sessions and the ways in

`Accounts.tla` is the tables of users and roles and any number of threads (`Threads`), each
with the calls it may run (`Ops`).

| Variable | In the code |
|---|---|
| `setups` | rows of `setup_settings` (its primary key admits one) |
| `account` | rows of `users` with their `user_roles`; `legacy` is `users.role = 'admin'`, `password` which password the user has had, 0 for the `'!'` that none opens |
| `role` | rows of `roles`: not created, with or without `MANAGE_SECURITY`, deleted |
| `sessions` | rows of `sessions`, with the password at the login |
| `failures` | `_login_failures` within the window |
| `minted`, `pending`, `signins` | state tokens made, those in `_oidc_states`, sessions each has given |
| `pc`, `req` | each running handler and its locals |

`update_user` is `UserRead` and `UserWrite`: the request is compared with the row in one
transaction and every column is written in the next, so an edit of the e-mail address alone
carries an `is_active` from before (`guarded` is whether the handler will look for a
remaining holder). `update_role` is `RoleRead` and `RoleWrite` for the same reason: its reads
come before the UPDATE that begins the transaction. `create_user`, `create_role` and
`delete_role` check again in their transaction what they read, or what cannot change, and
are one step. `complete_setup` is `SetupRead` and `SetupWrite`, with the AWS checks between.
`oidc_callback` is `SsoTake` (the token is popped under the lock), `SsoRead` (the exchange
and the reads), `SsoWrite`. `login` is `LoginCheck`, `LoginVerify` and then `LoginRecord`, or
`LoginClear` and `LoginSession`: two acquisitions of the lock with a password hash between
them. `Restart` is `_seed_rbac` after a crash at any point. Left out: other privileges and
grants, API tokens, the lifetime of sessions, the claims' validation, the allowed networks.

### ScheduledJobs: the scheduler and the operators of its jobs

`ScheduledJobs.tla` is the jobs, their runs, the poller's tick and any number of threads that
serve the API (`Operators`).

| Variable | In the code |
|---|---|
| `job` | rows of `scheduled_jobs`; `turn` numbers the values `next_run_at` has had |
| `runs` | rows of `scheduled_job_runs` by id; `query` is what became of `query_id`, `mails` the emails sent, `of` the run a retry is for |
| `now`, `at` | the clock, `now_dt` of the tick |
| `due`, `list` | the tick's lists: jobs to fire, runs to settle |
| `pc`, `task`, `edit` | each thread's place and the locals of `_submit_job_run` and `update_job` |
| `fired` | what the scheduler has submitted: job, turn, for whom |

A tick is `TickRead`, `Take` for each due job (its next time is written, and only then is it
executed), `SettleRead`, `Settle` for each run, `TickEnd`. An execution is `Submit` and
`Record` for each identity it runs as, in the tick, for a retry or in `RunNow`; a digest is
`Send` and `RecordDelivery`. `update_job` decides from a row it reads before its transaction
begins (`EditRead`, `EditWrite`), so it and the tick can overwrite each other's
`next_run_at`. A run of a deleted job cannot be inserted: its query goes on with no run, and
the exception ends the tick. `Abort` is the `except` of `poll_loop`; `Raise` is an exception
nobody expects, `Crash` the end of the process. `NextRun` is a constant: any function to later
times, or to 0 where `next_cron_run` finds none. Left out: `last_status`, the columns of the
history, notifications, the rendering of a digest, who may be a recipient.

### PollerTicks: auto-suspend, the autoscaler, edits

`PollerTicks.tla` is one cluster as the poller's rounds see it: `autoscale_cluster_once`, then
`auto_suspend_cluster_once`, while operators edit, suspend and start it.

| Variable | In the code |
|---|---|
| `status`, `row` | `clusters.status`; mode, sizes and `auto_suspend_minutes` (`row.suspend`, 0 for NULL) |
| `group` | the Auto Scaling group: its minimum, maximum and desired capacity |
| `timers` | the row of `cluster_timer_state`: how many rounds with waiting queries and with busy processors, ages of `low` and `idle` |
| `scaled` | age of the newest row of `scaling_events` |
| `load` | what Trino and TrinoHub would say of the queries, with "warm" for an uptime window |
| `pc`, `tick`, `edit` | the poller and `update_cluster`: where they are, what they have read |
| `moved`, `unrecorded`, `quiet`, `missed` | history the properties compare with: when the size last changed, whether that was recorded, when a round last met the cluster in use, whether one did and could not see it |

Time is counted in rounds, and instead of a clock the model keeps ages, which stop growing at
`Long`; so it is finite without a bound on time. Any number of rounds may pass unpolled. Every
read of the row, statistics call, AWS call and write of a round is a step (`ScaleRead` to
`ScaleReset`, `SuspendList` to `SuspendForget`), and so is `_apply_worker_sizing_live`'s
(`EditMark` to `EditWrite`). A start or a suspension is one step: ClusterLifecycle has their
races. Left out: the arithmetic of uptime windows, how the signals are computed.

### ResultCache: answers from earlier runs

`ResultCache.tla` is the rows of `query_runs` as the cache sees them.

| Variable | In the code |
|---|---|
| `runs` | rows: `key` for `cache_key`, `kind` for `cache_hit`, `age` of `updated_at`; `place` is what the cluster and Trino are doing with the run |
| `request`, `found` | of each thread (`Threads`), what `create_query` has read before its transaction, and the row it will answer with |
| `cluster` | `clusters.status` |
| `data`, `wrote` | writes that took effect, and what the user's own latest one made of the data |
| `rules`, `enforced`, `flushed`, `changing` | changes of who may see what: stored, fetched by the coordinator, flushed from the cache, and a change between its transaction and its `audit` |

`create_query` is `Ask` (access, the key, the setting, the cluster), `Lookup` (`_cached_result_source`, a read outside
any transaction) and `Insert` (a hit, or a run with the keys a write expires) or `Refuse`. `dispatch_pending_query` looks at
`pending_cluster_start` alone, which `cancel_query` leaves, so a cancelled run that waits is sent (`Cancel`, `Dispatch`);
`_fail_query` clears it (`Fail`). A statement takes effect at Trino (`Execute`) apart from when it is recorded
(`Finish`, `Fail`); `audit` flushes in a transaction of its own (`Flush`), which a crash can
prevent. A result carries the number of the data and of the rules it was made from. One client polls a run, and
the process does not stop between a submission and the record of it: QueryRun has what happens otherwise, a second
submission.

### InboundEmail: questions by mail

`InboundEmail.tla` is SQS, the one thread of `inbound_email_loop` and `email_conversations`.

| Variable | In the code |
|---|---|
| `mail`, `queue` | mails that have arrived, by their kind and sender, and whether the queue shows, hides or has deleted them |
| `row`, `age` | `email_conversations`: `status`, `created_at` |
| `on`, `entitled` | the settings; senders whose address is one active user's, with ASK_BY_EMAIL |
| `pc`, `batch`, `agent` | the thread, the mails it has in hand, and `run_agent`'s turns and tools |
| `replies`, `runs`, `stranded` | replies that have left, how often the agent worked on a mail, mails that a crash or an error nobody expects left half done |

`handle_inbound_email` is `Screen`, `Identify`, `Count`, `Claim`, then `run_agent` (`Chat`,
`Tool`), `Answer`, `Conclude`, with `ChatFails` and `ChatRaises` for its two ways to fail, `Tell`
for a refusal, and the `Delete` that follows however it ends. The queue shows again what was
not deleted in time (`Lapse`), and even what was (`Redeliver`). `run_query` is refused until
both lookups have given a result. Left out: parsing of MIME and of verdicts (a kind), the audit
log, the thread's history and wording.

### Components that others only call

`MCRules.tla` puts five modules in one run, one of them in a behaviour:

- `AccessRules.tla`: `policies`, `tags`, `tagPolicies` and what `cached` knows of a table's columns
  are what the operations of the code leave. A policy (`PolicyRow`) has any privileges, allowed, denied and masked columns;
  the constant `Policy` says which are tried. `TableRules` is `render_access_control_rules`, in every
  order the rows of tag policies may come in, and `Access` is Trino's first rule that fits.
- `CatalogRegistry.tla`: `catalogs`, `secrets` and each thread's place (`op`) in
  `create_catalog`, `update_catalog` and `delete_catalog`, with the steps of the secret store
  (`Put`, `Drop`) before the row's (`Write`), the lock of a transaction (`Erase`), failures and
  crashes. A put has two calls, the value and then the ARN: it may raise with the secret already rotated, and so may a delete. `gave` remembers what an operator gave, `unsure` the keys two catalogs had to do with at
  once or that were left half done.
- `Cron.tla`: `parse_cron_field`, `parse_cron_expression` and `next_cron_run` over a calendar whose months,
  weeks, days and hours are short; the search is as long as a leap year, as it is in the code.
- `ResultLimits.tla`: `rows_with_limits` and what `apply_trino_response` does with its two lists.
- `SqlText.tla`: `normalize_sql_for_cache` and `split_sql_statements`, scans with a state (`Walk`, `Output`, `Pieces`), against `Lex`,
  which finds where each token ends.

The last three are pure: a behaviour only hands them more input. What `AccessRules`, `ResultLimits` and `SqlText`
recurse over is written as recursive functions, so that theorems can be stated about it.

### The runs

| Run | Threads and operations | Shows |
|---|---|---|
| start_race | 2: start, health, edit, and the poller; 3 starts, 1 crash; fair | one start at a time is in AWS (`OneProvisioner`); a Starting cluster is whole and can boot (`StartingCanBoot`) and leaves Starting (`StartingEnds`); until a crash, a transient status has the handler that ends it, but for Creating after `ResolveRaises` (`TransientHasOwner`) |
| teardown_race | 2: suspend, disable, delete; 1 crash | off has no nodes (`OffMeansNoNodes`), deleted leaves nothing (`DeletedLeavesNothing`) |
| one_operator | 1: everything | the lifecycle implements `ClusterService` (`ImplementsService`); everything live is tracked (`LiveIsTracked`); both but for what a call made that never answered |
| query_solo | 1 client: create, poll; fair | the statement is submitted once (`SubmittedOnce`), pages are kept in order (`ResultsInOrder`), waiting for the cluster ends (`PendingEnds`) |
| query_race | 2 clients: everything; 1 crash | until a crash, a run that is not over can always be moved (`ActiveRunCanMove`); a run created on a running cluster is submitted once (`DirectRunsSubmitOnce`) |
| wire_hold | 1 client, the poller's pushes; 1 crash; fair | until a crash the client's statement runs at most once, and exactly once if it was handed on (`RunsOnce`); its holding ends (`HoldEnds`); the gateway's route catches up with the status (`RouteCatchesUp`) |
| accounts | 2: setup and login; one creates and edits users, the other edits roles, and both serve SSO | once set up, somebody active holds MANAGE_SECURITY (`HolderRemains`); an SSO token signs in once (`SignsInOnce`); failures stop at the limit (`LoginLimit`) |
| jobs | the scheduler and 1 operator; 1 job, 1 recipient, 2 crashes or exceptions; fair | a due time is submitted at most once for a recipient (`FiresOnce`); a failed run is retried once and only it, for its recipient, and each crash or exception keeps at most one from that (`RetriedOnce`); nobody gets two emails for one time (`OneDigest`); ticks get through what is due (`DueJobsFire`) |
| poller | the poller, edits, suspensions and starts; 1 crash or failure; fair | the size moves only after the cooldown (`CooldownKept`); a cluster that was in use is not suspended as idle (`SuspendsOnlyIdle`), one that stays idle is (`IdleIsSuspended`); waiting queries get workers (`QueuedScalesUp`) |
| result_cache | reads and writes of 1 user by 2 threads, 3 rows, 1 change of the rules | a user's answers show what the user's own writes had done when they were looked up (`OwnWritesSeen`), are no older than the window (`ServedWithinTtl`), and were not found after a flush of the rules they were made under (`RulesNotOutlived`) |
| inbound_email | 2 mails of a sender, 1 mishap; fair | the agent works on a mail once and one reply leaves (`AskedOnce`); the limit holds (`HourlyLimit`); rows say what happened (`RowsTellTheTruth`); the queue drains (`QueueDrains`) |
| rules | the five modules above | `LimitedToPolicies`, `OneRuleIsKept` (AccessRules); `PasswordsAreTheirOwn` (CatalogRegistry); `NextRunIsFirst` (Cron); `KeptForGood` (ResultLimits); `TokensAreKept` (SqlText) |

Each property has a mutant in `PROJECT.json`: a change of one definition, like a dropped guard or a
swapped order, that makes the run fail. A mutated operator stands before the definition it changes.

### What the code does that no property claims

The properties hold for the operations their runs combine, no further. The models also show the following,
which the code allows:

- *Lifecycle.* A suspend during a start leaves a coordinator running in a Suspended cluster
  (`docs/understanding-clusters.md:24` says nothing runs then). A start that looked for tracked
  resources before another start launched a coordinator and failed claims the status that one
  went back to, and launches a second (`StartClaim`). A delete during a start removes the row of a
  coordinator the start goes on running (`FinishDelete` against `RecordCoordinator`). An edit that read Running
  overwrites Suspending (`ResizeMark`). A crash between launching an instance and recording it leaves it untracked.
  A start whose instance type cannot be resolved raises after it has claimed the row and before its try block
  (`server.py:6028`): the cluster stays Creating, which nothing but a teardown leaves (`ResolveRaises`, `stranded`). A launch
  whose answer is lost leaves a node or a worker group that no row names and no teardown removes, behind a
  Failed row and later a Suspended one (`Make`, `lost`); a lost worker group also stands in the way of every later start, by its name.
- *Query runs.* A cancelled run that was waiting for its cluster is submitted by the next poll
  (`server.py:8997`; `docs/running-queries.md:34`). Two polls of a run that waits both
  submit it (`SubmitPending` before the other's `ApplyPending`). Of two polls, the slower writes a stale
  row back, and the Finished run lacks a page (`server.py:9121`).
- *Wire shim.* A held client whose route flips between two polls asks a coordinator that does not know it (`Send`).
- *Accounts.* Of two edits of users, one writes back an activation it read before the other took it,
  and the last holder is gone (`UserWrite`). A login that verified the password before a reset makes its session
  after it (`LoginSession` after `UserWrite`).
- *Jobs.* A job whose next time is more than a year away makes every tick raise and is never
  fired (`server.py:2337`; `docs/scheduled-jobs.md:25`). A crash or an exception between the commit that settles a failed
  run and its retry (`server.py:2376` to 2389) loses the retry for ever, because no later tick looks at a settled run, although
  `docs/scheduled-jobs.md:27` and the docstring at `server.py:2345` promise one: `RetriedOnce` bounds the runs without by the
  mishaps. A job deleted while it is executed leaves a
  query without a run (`Record`).
- *Poller.* Re-enabling auto-suspend may suspend a cluster that was just in use, because the idle date
  stayed (`missed`; `docs/managing-clusters.md:19`). A change of size whose event was not recorded starts no cooldown
  (`unrecorded`). The autoscaler writes the minimum and maximum it read over an edit's. While the
  desired capacity is outside the row's range, AWS refuses every step of one worker. An edit
  that fails after a suspension writes Running over a cluster without nodes (`EditFails`; `server.py:5929`).
- *Result cache.* A read that begins while an own write is unsettled leaves its result in the cache
  (`beside`). A crash between a change and its audit entry skips the flush (`Crash`). A coordinator
  that has not fetched the new rules makes results that outlive the flush (`promised`). A flush or an own write that comes
  between a lookup and the insert of its answer is too late for that answer (`Lookup`, `Insert`). A write that was cancelled while it
  waited for the cluster is carried out all the same.
- *Inbound email.* A crash, or an error that is no `ApiError`, after the claim leaves a question in
  "answering" for ever, since its redelivery is a duplicate. A failed row's answer may have left. A freeform query that
  ends in an error is not marked as a draft though its rows were shown to the model.
- *Access rules.* Of a user's several rules on a table only the first decides, although
  `docs/data-security.md:17` speaks of their union. A tag adds nothing on a table where the user has a policy, or a second tag: a
  column it denies or masks is read in clear there, against `docs/data-security.md:57` and the comment at `server.py:3902`. A tag
  rule gives SELECT on a table no policy covers, and limits users without policies to SELECT there. Allow-lists of
  catalog-wide policies hide nothing, and neither do those of tables whose newest row in the metadata cache has no columns.
- *Catalogs.* A catalog renamed without a password keeps its old key, so a new one of the old name shares
  its secret. `update_catalog` does not look whether the new name is free: renaming with a password
  onto a taken name overwrites the other's secret, then fails. An edit whose put has rotated the secret and then raises, because
  its answer or the ARN asked for next is not had, leaves the old row with the new password (`Put`). Errors of the secret store on a
  delete are passed over, and two concurrent creates can leave a secret behind (comment at `server.py:7383`).
- *Cron, limits.* An expression that runs once a year raises just after its run when the next is 366 days away or more, and
  "*/1" counts as a restriction. A row that is too big is skipped while later, smaller ones are kept.

**Bounds.** A start claim makes the only unbounded numbers, so `MaxStarts` bounds the
state space; two starts are what a race, a stale claim and a failed first attempt
need. Two threads show every pairwise race of the 13-step teardown; three are used
where a pair and an observer matter. One crash reaches every state a second one
would start from, because a crash leaves all threads idle. AWS may fail in every call.

A run needs three pages to tell a first, a middle and a last one (QuerySolo), two where
two clients race over them; `CreatePages` and `PollPages` are the code's 2 and 5 scaled
down so that a call can stop before the last page. `MaxSent` = 2 is one more
submission than a run may make. `MaxKept` stops two racing clients from appending the
same page for ever.

Wire clients meet only through the route and the status, and the other threads and
`ClusterMoves` move both in every way already, so one client is enough. With `Tries` = 2, a
driver that polls again after a broken connection can have its statement replayed twice:
`RunsOnce` says so by its premise. `RouteCatchesUp` needs a late push by a handler and one
by the poller, which one client and one hook give.

Two users make a last holder and another one; a third would only be another other one. One
custom role can be the holder's only one, be edited and be deleted, and one SSO token can be
taken twice, by either thread. One username is typed at the login form, because failures are counted per
name; `LoginMaxFailures` is 10 in the code and 1 here, which two threads exceed.
`MaxPassword` is one reset. Restarts are not bounded.

Jobs meet only in the tick's lists, so one job suffices for what a time, a run or an email
may do; larger instances grow out of reach, and the proofs carry the safety properties to any
number of jobs and recipients. One recipient still has digests and plain runs, because an edit
can take the recipient away. `MaxTime` = 1 lets a time come, pass and be moved by an edit;
"leap" is a schedule whose only time is that one. Two mishaps are a failure and one during its
aftermath. One call by the operator besides creating and deleting is enough for each
race with the tick.

The poller's two rows differ in mode, sizes and auto-suspend, so an edit between them changes everything
an edit can. A threshold of two rounds tells "once" from "again", and so do the two cooldowns. Two calls by operators are a
suspension and a start, or an edit and its reverse. One mishap is a crash or a failed call anywhere.

Three rows of `query_runs` are a read, a write and a read that may be answered from the first; one change of the
rules has a before and an after; ages 0 to 2 are inside, at and outside a window of 1. Two
threads put a write, or a flush, between the lookup of a read and its insert. Two mails are a question and the one the
limit refuses, or one that is redelivered behind another; two turns of two calls reach every
order in which tools can unlock. `Limit` is 10 in the code and 1 here.

In the rules run: two users, two roles and two tables tell a user's own rule from another's; `MaxStored` is the policies, tags
and cached tables together, and three of them are two rules that overlap with what the cache knows. The policies tried
give SELECT, or not, or something with it; they deny a column, allow one, mask one it allows, or mask one the list leaves out. Two threads and five
operations in the registry are a create, a rename, a create under the old name and a delete of either. The calendar has four years of
two months, one of them longer, three days in a week, two hours in a day, two minutes in an hour. Pages of up to two rows in three sizes
fill both lists past their limits. Texts have up to six of the characters the scanners look at: two
delimiters, each opened and closed, with something inside and outside.

**Deadlock** is checked in the runs jobs, result_cache and inbound_email, where something can always happen.
Elsewhere, once the cluster is deleted, or the starts or calls of the bound are
used and its threads are idle, the model has nothing left to do, and neither has
the program.

**Fairness** (`FairSpec`) is weak fairness of each thread's current handler (a thread
of the pool runs; AWS calls return or raise), of the poller's return to a Starting
cluster (`poll_loop` calls `poll_starting_clusters_once` every interval and catches
what it raises), of AWS finishing removals, and of a node with a valid token
booting. No operator is assumed to do anything. For a query run (`FairSpec` of QueryRun) it
is weak fairness of each client's handler, of time, and of a poll by a client that may
poll: `poll_query_to_terminal` and the editor's timer go on until the run has ended. For
WireResume it is weak fairness of handlers, of a driver's polls, of time, of the sweep and
of the poller's reading the routes, all on each round of `poll_loop`; and strong fairness
of the poller's pushes succeeding, because each round tries again and the gateway is not
down for ever. For ScheduledJobs it is weak fairness of the poller alone: `poll_loop` begins a tick
every interval and catches what a tick raises. Nothing is assumed of the clock, of queries (a
query may run for ever) or of operators. For PollerTicks it is weak fairness of the
poller's steps, of an edit that has begun and of a starting cluster's boot; whether a cluster is idle or has
waiting queries is not assumed: the properties say what cannot stay so for ever. For InboundEmail it is weak fairness of receiving,
of handling, and of each mail's visibility timeout: the thread polls for ever and its calls have timeouts.

## What is proved

`ClusterLifecycle_proofs.tla`, for every set of threads, assignment of operations and
bound, from `OpsAssumption` and `BoundsAssumption` alone:

- `TypeCorrect`: `Spec => []TypeOK`. `TypeOK` is inductive; one lemma per handler.
- `TransientOwned`: `TransientHasOwner`, for all operations at once, with the start that `ResolveRaises` ended as its exception. `Owned(c)` says what a step of
  thread c does: it moves no other thread, keeps the ownership c has, and makes c the
  owner of a transient status it writes. Every step satisfies it, and that is enough:
  the owner of the old status or the stepping thread owns the new one.
- `OneProvisionerAlways`: without teardowns, at most one start is in AWS, across
  crashes too. `OneProvisioner` is not inductive: a start's claim compares the status,
  so one needs that a start in AWS shows in the status (`ClaimedStatus`), which a health
  check or an edit may have overwritten but only with Running or Updating; that no
  thread about to claim saw one of those (`ClaimSeen`); and that an edit in progress
  shows in the tracked resources (`EditsTracked`). With teardowns the statement is
  false.
- `StartingCanBootAlways`, without teardowns: by `Progress`, which says what a start at each point has made and
  recorded, and that the stored token is that of the one start in AWS (`OneProvisioner` again).
- `OffMeansNoNodesAlways` and `DeletedLeavesNothingAlways`, where nobody starts the cluster: a teardown that has not
  failed still has a row for every node (`TeardownSees`), because a row is forgotten, by whichever teardown, only once
  what it names is gone; and a node uses a security group that still exists (`Housed`), so the group outlives
  the nodes that are shutting down.
- `LiveIsTrackedAlways` and `ServiceImplemented`, for one operator and no crash: the status tells where the thread is
  (`StatusAt`), a node without a record is the one about to be recorded (`Accounted`), and a teardown covers
  all nodes that are known (`ComputeAt`). `Known` leaves out what is `lost`, which only grows (`LostKept`), and a call of the
  start adds to one or the other (`MakeMeans`). Then each action maps to a step of `ClusterService` or to none (`ServiceStep`). With a
  second operator or a crash between a launch and its record both are false.

`QueryRun_proofs.tla`, for any number of clients, calls and pages, from the assumptions
of `QueryRun.tla`:

- `TypeCorrect`: `TypeOK` needs `Ready`, that a handler about to apply a response has one
  and one about to stop a statement knows which.
- `ActiveRunMoves`: until a crash, `ActiveRunCanMove`, by `Moving`: a Running run has a
  next page, and a Queued run that does not wait has `create_query`'s thread, which
  cannot leave it behind because whatever it raises ends in its except block.
- `DirectRunSubmittedOnce` (with any number of crashes): `Direct` says that a run created on
  a running cluster is never pending, that nobody dispatches it and that at most one
  thread is about to submit it, with nothing sent so far. Every step keeps `Direct`; `Inserted` says
  that a run is Queued without waiting only as `create_query` inserted it, which puts
  it in `Direct`.
- `OneClientKeepsOrder`, where one client at most exists: `InOrder` says that the row has the first pages of one
  statement and asks for the next, that the copy the client's handler works on is the row, and that a
  run still waiting has nothing. With two clients the statement is false.
- `OneClientSubmitsOnce`, where there is one client and no crash: `Once` says that a run still waiting
  has been submitted only if its client is about to say so in the row.

`Accounts_proofs.tla`, for any users, roles, threads, calls and tokens, from the assumptions
of `Accounts.tla`:

- `TypeCorrect`: `TypeOK`, one lemma per group of handlers.
- `SetUpOnceAlways`: from the type alone, because `SetupWrite` looks at `setups` in the step
  that writes it.
- `SignsInOnceAlways`, by `OneUse`: a token that is pending has given nothing and no callback
  has it, and at most one callback has a token that has given nothing yet.
- `HolderRemainsAlways`, where one thread at most edits users and one at most edits roles
  (`OneEditor`). With two editors of users it is false. `HolderRemains` is not
  inductive: an edit that is not guarded must not change what decides who is a holder, so
  `Fresh` says that its copy is still what the row has, which only another editor can change,
  and that the admin role keeps its privilege.
- `LoginLimitAlways`: the failures of a username and the logins in flight for it together
  stay within the limit plus the threads (`InFlight`), by induction on the steps and the
  cardinality lemmas of the library.

The same module proves what the catalogs and the data policies promise, which administrators edit too. Of
`CatalogRegistry.tla`, for any names, passwords, operators, operations and crashes, from `RegistryAssumption` (the
value that stands for no secret is not a name or a password):

- `PasswordsHold`: `PasswordsAreTheirOwn`, from `RegistryHolds`, which is its inductive invariant. Alone it is not
  inductive, because an operation works on what it read in an earlier step. So one needs that operations that meet at a
  name are known to (`MeetingsKnown`); that, outside such a dispute, the row an edit or a removal has read still
  stands (`RowsStand`) and a name found free is still free (`NamesStand`); that no two rows come to use
  one secret (`RefsApart`, `FreshIds`); and that the store holds what each step of each operation has left in it (`StoreFollows`).

Of `AccessRules.tla`, for any finite sets of catalogs, tables and columns, any users, roles and bounds, from `ListsAssumption`:

- `LimitedToPoliciesAlways`: `DecidesBy` says which rule decides, however the rows of tag policies are
  ordered. A rule written for a policy or a tag names only members of its role; a user who is not restricted meets the
  last rule, which gives everything, and one who is never does.
- `OneRuleIsKeptAlways`: where one rule alone is for the user and fits the table, `DecidesBy` gives that rule.

  Both rest on what `RulesOfFirst` returns for the first n policies, by induction on n (`PolicyRulesAre`), and on a finite
  set of tag rules having an order (`SeqsOfSet`).

`ScheduledJobs_proofs.tla`, for any jobs, recipients, schedules, operators and bounds, from the
assumptions of `ScheduledJobs.tla`:

- `TypeCorrect`: `Typing` adds to `TypeOK` that a thread in the middle of an execution has a
  job, and the poller in the middle of a delivery a run.
- `FiresOnceAlways`, by `Ordered`: what is due has a turn the scheduler has not fired, what it is
  taking has left `next_run_at` behind, and every turn in `fired` is behind the row's. An edit
  or a deletion only moves the row's turn on.
- `RetriedOnceAlways`, by `Retried`: a retry exists only for a run that is settled as failed, and a
  run the tick still lists, or owes a retry (`Owed`), has none yet. That no more runs go without than there were mishaps is
  `LostBounded`, with one lemma per group of handlers: `Unretried` grows only by the run whose settling or retry a mishap cut off
  (`FewerLost`, `NoneLost`, `SameLost`), and a mishap meets one at most.
- `OneDigestAlways`, by `Digests`: a run is mailed only after it is settled, which takes it out of
  every later list; two first attempts for one time and recipient would have been fired twice
  (`FirstsFired`, from `Ordered`); a retry is mailed only if the run it is for failed (`Retried`).

and of `Cron.tla`, for any calendar and any expressions, from `CronAssumption` (there are minutes, hours and days of the week):

- `FirstRunHolds`: `NextRunIsFirst`. Within a day the search takes the least hour with a minute left and the least of those
  (`FirstOfDayIs`), the days in between are passed over only if nothing in them matches (`SearchIs`), and moments are ordered as their days, hours
  and minutes are (`MomentOrder`, from what `\div` and `%` are). It gives what `TimeAssumption` of `ScheduledJobs.tla` takes
  for granted of a schedule: its next run is none or later than the moment asked about.

`PollerTicks_proofs.tla`, for any rows, thresholds and bounds, from the assumptions of `PollerTicks.tla`:

- `TypeCorrect`: `TypeOK`; the counters and ages stay in their ranges.
- `CooldownAlways`, by `CooldownInv`: a change on its way was decided when the stored event was old
  enough, and unless a change went unrecorded the stored event has the age of the last change.
- `SuspendsOnlyIdleAlways`, by `IdleInv`: the idle date is never older than the last round that
  met the cluster in use, unless that round could not see it; and a suspension in progress
  was decided by that date.

`InboundEmail_proofs.tla`, for any senders, limit, batches and bounds:

- `TypeCorrect`: `Typing` adds to `TypeOK` that a thread in the middle of a tool call has one to make.
- `AskedOnceAlways` and `RowsTellTheTruthAlways`: `Handled` says that a mail without a row is untouched, and that the one in hand has
  no row until it is screened or claimed, and its reply is yet to come.
- `HourlyLimitAlways`: `LimitInv` says that the questions of a sender that were worked on stay within the limit, and below it while the
  thread is about to claim one; only a claim adds one, which the lemmas about cardinality say.

`WireResume_proofs.tla`, for any clients, requests, pushing threads and crashes:

- `TypeCorrect`: `TypeOK` is inductive; every handler goes on or answers (`LocalsMove`).
- `RunsOnceAlways`, where a client has one request under way: `Alone` relates a client, the handler of its request and the coordinator.
  Until the handler hands the statement on no coordinator has it, afterwards its outcome says whether one has, and a client that has
  nothing under way and may still ask has it run nowhere.

`ResultCache_proofs.tla`, for any users, statements, settings and bounds, from one inductive invariant:

- `TypeCorrect`.
- The three below are about what a lookup found, so the invariant says of every thread's `found` what it says of a hit in the table
  (`Foreseen`, as `Showing`).
- `OwnWritesSeenAlways`: whatever has a key while a write of its user is unsettled began beside it (`Beside`), because the write took the
  other keys when it was inserted; so what may still be served has seen the writes that took effect (`Validity`).
- `ServedWithinTtlAlways`: a hit has no key and is never a source, and the age of what is one is that of its result (`Soundness`).
- `RulesNotOutlivedAlways`: a flush takes the keys of runs in flight too, so a key that is left was given under rules as new as the flush,
  or by a coordinator that had not fetched them (`Validity`).

and of `ResultLimits.tla`, for any sizes of rows, pages and limits, from `LimitsAssumption`:

- `KeptForGoodAlways`: `KeptForGood`, by `LimitsInv`, which says of each of the two lists which rows of those
  given so far it has (`ListOf`). `LoopStep` follows one row through the loop, `Loop` all rows of a page by induction on how many
  were taken, and `AllRows` appends the page to the pages before. `KeptForGood` alone is not inductive: whether a row is
  kept depends on the bytes kept so far, which it does not mention.

and of `SqlText.tla`, for any alphabet and length, from `TextAssumption`:

- `TokensAreKeptAlways`: `TokensAreKept`, of every text. The reference cuts a text into items (white space, comments, quoted
  regions, words, other characters), and a text without `Unclosed` has a `Boundary` at the end of each (`InItem`, `Items`).
  `Walks`: at a boundary both scans are outside comments and quotes, by the walk over each kind of item.
  `SameItem`: an item is found again wherever its characters stand, if what follows does not join it.
  `OutputKeeps`: the output so far has the tokens of the text so far, and a boundary at its end, because a token is copied and what
  follows it still does not join it (`TokenOut`, `NextChar`), a comment having left a space.
  `StripKeeps` and `Window`: a part between boundaries has the tokens between them.
  `SplitKeeps`: every cut is at a semicolon that is an item, and every such item is a cut (`SemicolonItem`, `NoCut`).
  Texts that are not closed are left out: of them Trino reads no statement.

**Induction over data.** Where a definition recurses over a sequence, the proofs do not use the induction theorems of
the library, whose parameter is an operator. `LeastElement` says that a set of naturals has a least element (from `WFMin` and the order of the
naturals, which are first-order); `UpTo` says that what holds at 0 and goes on from n to n + 1 holds up to any bound,
because the least counterexample would have a predecessor; `RecursionExists` builds the function a recursive
definition describes, so that the `CHOOSE` behind it has something to choose.

The type invariants are not in the runs: they are inductive, and the theorems hold for every instance.

Every safety invariant, every action property and the refinement that the runs check is proved. Only model-checked is all
liveness, which is beyond the prover: `StartingEnds`, `PendingEnds`, `HoldEnds`, `RouteCatchesUp`, `DueJobsFire`,
`IdleIsSuspended`, `QueuedScalesUp`, `QueueDrains`.

## Plan

Left: attachments of *Catalogs* to clusters, which the registry's rows carry, and the API tokens of *Accounts*.

## Not modelled

- Templates, data products, shares, tabs, saved queries and notebooks: each operation is one transaction on one row, with a check of
  its owner; no property relates two of them.
- Ask Trino and the MCP tools: prompts, and reads through `create_query`. Statistics, metrics and costs: samples for display;
  what decisions read of them is the poller's input.
- The connectors' properties, drivers, the texts of configurations and certificates, MIME: conversions whose
  result no modelled decision reads.
- The web interface, deployment, release scripts and tests. `api.py` has no state: it is why handlers run concurrently.
- Uptime windows, time zones and the lifetime of sessions: calendar arithmetic; what it decides is an input of the models.

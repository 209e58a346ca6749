# Verification of the challenge container plugin

The plugin gives every CTFd user a Docker container (or a stack of them) per
challenge, on a pool of Docker hosts. A database shared by several web workers
coordinates it; Docker hosts are reached over the network, fail, and complete
calls that the client has given up on. This directory holds TLA+ models of that
coordination, the TLC runs that check them on small instances and TLAPS proofs
that hold for every instance. Line numbers refer to the files of the plugin.

## The system

| part | state | operations | what makes it correct |
|---|---|---|---|
| instance lifecycle (`coordination.py`) | `container_instances`, `container_info`, `container_history` | reserve, mark_running, mark_cleanup_pending, claim_operation, release_operation, delete_after_confirmed_cleanup, renew, extend_by_admin, shorten_after_solve | nothing is deleted while its resources are left; only expired or abandoned instances are taken; a claim is final |
| handlers (`views/helpers.py`, `views/routes_user.py`) | the request in progress | create_container, kill, renew, volumes, undo of a failed creation | every failure path ends in a state that somebody cleans up |
| maintenance (`container_manager.py`) | a named database lock, `container_maintenance`, the running pass | expiry pass, orphan pass, catalog refresh, scheduler | cleanup eventually happens, once, and never to a live instance |
| reservation and placement (`coordination.py`, `models.py`) | unique constraints, `placement_version` | reserve_instance and its retry loop, ranking | quota and create limits hold under races; every request is answered |
| context administration (`views/routes_admin.py`) | `docker_contexts` | add, update, move, retire, delete, settings, purge, event stream | rows keep the endpoint that cleans them up; retired contexts stay retired |
| Docker hosts (`docker_host_manager.py`) | client pools, leases, configuration generation, cooldowns | run, list, remove, ping, load_contexts | no client of an old endpoint is used for a new one; leases return |
| health (`orchestrator.py`) | `health_state`, `health_checked_at` | health_check, mark_healthy, mark_unhealthy | a stale probe does not overwrite a newer one |
| challenge type (`challenges.py`, `flag_type.py`, `freshness.py`) | challenge rows, token cache, `container_flag_shares` | attempt, solve, update, delete | shared flags are attributed to the right owner; live instances block changes |
| file store and worker (`files/*.py`) | recipe and job files, generations, lock files | request, claim, publish, fail, retry, collect | a published generation is complete; claims of dead workers are recovered |
| events (`event_bus.py`, `event_logger.py`) | kept events, listeners, stream counter | log, publish, hear, stream | a stream misses nothing unless it is too slow; every stream gives its slot back |
| database set-up (`database.py`, `__init__.py`) | schema lock, tables, settings | create and change tables, seed | every worker comes up, whatever the others trip over |
| volume policy, configuration (`volume_policy.py`, `challenge_config.py`, `utils.py`) | none | parse and validate | - |
| player page (`assets/view.js`) | timers, flags, the pending call | open, poll, countdown, start, renew, stop, retry | answers of superseded calls are dropped; no button stays locked |

How the parts interact: a create request reserves a row (placement), creates
labelled resources on the host of that row, and finalizes the row with its
provision token. Cleanup (user, admin, maintenance) claims the row with an
operation token, removes what carries the label, and deletes the row. The orphan
pass compares labels on the hosts with rows of the database and removes what has
no row. There is no lock that spans a Docker call: tokens, states and versions
in the rows are all that keep these processes apart. That is where the
difficulty lies: steps of several processes in any order, clocks of several
machines, calls whose outcome is unknown, and processes that die anywhere.

## Modules

| module | what it is |
|---|---|
| `Lifecycle` | one instance from reservation to deletion: row, history, labelled resources, the create request, cleanup requests, maintenance workers with expiry and orphan pass, time |
| `MCLifecycle` | small instances of it; `_safety`, `_live`, `_admission` |
| `LifecycleProofs` | type correctness and the lemmas it rests on |
| `LifecycleSafety` | the inductive invariants and the safety theorems |
| `Admission` | abstract: a request gets a place, or a true reason why not, in one step |
| `Placement` | `reserve_instance` query by query, its retry loop, and the routes that administer contexts; implements `Admission` |
| `MCPlacement` | small instances of it; `_reserve`, `_contexts`, `_limit` |
| `PlacementProofs` | type correctness of `Placement`, its refinement of `Admission`, and what follows about contexts |
| `PlacementSafety` | the counting argument: quota and create limits for any number of requests |
| `Downloads` | abstract: a download takes the generation that is published under its key, in one step |
| `FileStoreProofs` | types, the queue lock, the worker's files and jobs, the limit of the queue |
| `FileStoreSafety` | owner modes, requests in advance, and the refinement of `Downloads` |
| `FileStore` | the files of the store, requests and downloads, admins, the worker, crashes between two writes; implements `Downloads` |
| `MCFileStore` | small instances of it; `_serve`, `_modes`, `_queue`, `_live` |
| `Maintenance` | the named lock and the interval of a maintenance job, with sessions that break |
| `Health` | the verdict on a context: health checks, admins' probes, the catalogs of processes |
| `Workers` | composes `Maintenance` and `Health`: processes that come and go and take turns at the check |
| `MCWorkers` | a small instance of it |
| `WorkersProofs` | the lock of a job, the order of catalogs, and the fate of checks that come late |
| `HostClients` | the pools of Docker clients of a process: leases, generations, pings, cooldowns |
| `Startup` | how several workers bring up the schema, the settings and the local context |
| `EventStreams` | events, the channel between processes, the streams of dashboards and their slots |
| `FlagShare` | the detection of shared flags with its cache of tokens |
| `PlayerPage` | the page of a player: one pending call, countdown, synchronization, start, renew, stop |
| `MCParts` | small instances of `HostClients`, `Startup`, `Maintenance`, `EventStreams`, `FlagShare` and `PlayerPage`, one at a time |
| `PartsProofs` | shared flags, streams of events, the page and the Docker clients, for any instance of them |

`Placement` ends where `Lifecycle` begins: `Lifecycle!Reserve` is the commit of
`Placement!Commit`, and `Placement!MarkRunning` and `DeleteRow` stand for all
that `Lifecycle` says about a row afterwards. `Placement` lets the health of a
context change at any time; `Health` says how the verdict comes about. The jobs
of `Maintenance` are what `Lifecycle` calls a maintenance worker: there any number
of them run at once, so that its properties do not rest on the lock.

### Lifecycle

State and code. `row` is the row of `container_instances`: state, operation
token, whether the create slot is held, and times. Times are kept as ages and
remainders, capped where no condition distinguishes them any more. `docker` is
the age of each labelled resource on the host; `late` the create calls the
client gave up on and that may still take effect. `handler`, `made` and `undo`
are the local state of `create_container`; `work` that of a cleaning process;
`seen`, `opened`, `alive`, `orphans` and `lag` that of a maintenance pass. `lag` is
the time since the pass read the clock: its cutoffs are that much out of date.

`site` is where a behaviour takes place: the isolation level of the database, and
how far the clock of the Docker host is behind that of the worker. All queries a
pass makes itself run in one transaction of `db.session`; the coordinator's methods
have sessions of their own. With repeatable reads (the default of MySQL and MariaDB)
the pass therefore keeps to the rows as of its first query (`Begin`): the scan, the
ids of the orphan pass (`alive`) and the second lookup (`OrphanRecheck`) all read
that snapshot, and `opened` is the time from that query to the clock reading of the
orphan pass. Otherwise each query sees the rows as they are.

Each method of `InstanceCoordinator` is a transaction and one action. A Docker
call is a separate action, `force_remove_resources_by_label` two (list, remove)
because resources may appear in between. Each action has its failure: a create
call fails and may still complete (`CreateFails`, `LateCreate`), a removal stops
half way (`CleanFails`, `UndoFails`, `ReapFails`), a process dies at any step
(`HandlerDies`, `ProcDies`), a container exits by itself, a commit takes effect
and raises (`MarkRunning`). The `state_version` is modelled by what it is for:
the versions a scan has read and that are still current (`seen`).

Properties: `CleanDeletion`, `HistoryStopped`, `ClaimIsFinal`,
`ReapsOnlyTheDead` (invariants), `RunningKeepsResources`, `NoResurrection`,
`JobTakesOnlyDue`, `LeaseRespected` (action properties), `CleanupCompletes`,
`ProvisioningEnds`, `ExpiredIsCleaned`, `OrphansReaped` (liveness). The comments
in the module say what each is about.

`ReapsOnlyTheDead` and `RunningKeepsResources` have an exception, `Stale`, because the
code has: with repeatable reads the second lookup tells nothing that the first did
not, and what is left is the age of the resources. An instance that was reserved
after the snapshot is younger than the snapshot. If expiry holds the pass up for the
safety age of 300 s, less what the clock of the host is behind, the instance looks
old enough, and the pass removes its resources, running or not. Nothing bounds the
expiry loop, which makes Docker calls for every instance that is due; a clock that is
behind by the safety age is enough by itself. A pass that is not stale is safe, and
with current reads every pass is.

`CleanDeletion` is deliberately limited to requests that ended unambiguously.
For the others the code cannot promise it: a cleanup may delete a row while its
create call is still under way, and what appears later is left to the orphan
pass. `OrphansReaped` says that this pass gets it.

### Placement and Admission

State and code. `ctx` and `version` are the rows of `docker_contexts`, `inst`
those of `container_instances` as far as placement cares, `req` the locals of
`reserve_instance` (`limit` and `most` are the settings it was called with),
`admin` the locals of an admin route. Each query of a reservation attempt is an
action; the update of the context row, the insert and the commit are one, since
the update locks the row and the insert checks the unique constraints.
An update of a context is three actions: the read and the validation, the check
of the old endpoint (which makes Docker calls outside any transaction), and the
commit that validates again under a row lock. A field that an update does not
mention is left alone even if it changed meanwhile (`Keep`).

`Admission` is the promise: grant or refuse in one step, with the reason being
true at that step. `ImplementsAdmission` is the refinement; its mapping is the
identity on `ctx`, `inst` and `answer`, and hides everything in between.
`QuotaHeld` and `AdmissionBounded` relate rows to the limits under which they
were reserved, because two racing requests may have read different settings.
`EndpointPinned` is what cleanup relies on: a row's context exists and its
endpoint is the one the row was placed on.

Left open: in which order candidate contexts are tried (the ranking decides
which one is preferred, not which ones are allowed), and whether the check of an
endpoint finds resources. SQLite ignores `FOR UPDATE`; the models assume the row
locks of MySQL, MariaDB or PostgreSQL.

### FileStore and Downloads

State and code. `recipe`, `job`, `art`, `demand` and `mode` are the files of the
store, by the name of the file or directory they stand for; `cache` is the stamp
of the owner mode that each web process keeps; `holder` has the queue lock.
`req` is a request (`download`, or one of `files/prepare.py` made in advance) with
what it has read so far, `work` the local state of `run_once`. `demand` is the
order of the latest download: it is written before any job with that order, so it
stands for the maximum the code computes over the file and the jobs. Times are
reduced to what is compared: `due` of a job says that its `next_attempt` has
passed, `due` of the worker that its next pass does maintenance.

The worker asks Docker for more than generations: a run that does maintenance first
has `cleanup_all` and `cleanup` remove what was left behind, and most of what they
raise ends the run before a job is failed or claimed (`Unanswered`). `RetryFailed`
retries for the owner mode that the admin's request read before it took the lock,
which need not be the mode of the site any more.

The queue lock never blocks: who finds it taken gives up (`Lock`, `GivesUp`) or
retries for some seconds (`Raises` is the end of that). A method that holds it is
one step per file written, as far as somebody can tell: removal is a directory
that is incomplete (`EraseFiles`), then gone with its job (`EraseJob`); a publication
is a rename and the write of the job; a change of owner mode is marks, removals,
and the mode. Reads without the lock are steps of their own (`Enter`, `Look`,
`Open`, `Again`, `Confirm`), so everything may happen between them. A process dies,
or a write fails, at any of these steps (`Dies`, `AdminDies`, `WorkerDies`).

A key stands for the hash of challenge, owner, fingerprint and recipe. A
generation is a token that nothing refers to when it is drawn (`Fresh`), which is
what 128 random bits are good for. A shared lock taken for a short read is not
modelled: a request it turns away is like one that was never made.

Properties: `NoOrphans`, `NoneForgotten`, `QueueBounded`, `OneMode` (invariants),
`ModeSettles`, `BackgroundYields` (action properties), `ImplementsDownloads`
(refinement), `Resolves` (liveness). The mapping of the refinement: a key is
published while its job is ready, and a download has its file when it has read
the job for the second time - the point at which `open_file` takes effect.
`BackgroundYields` leaves out a file that was partly removed: it has to be made
again, and a request in advance may be the one that asks for it.

Left out: `max_jobs` and `retention_seconds`, which no caller sets; jobs of earlier
versions without a generation; how large files are (`space` says whether there is
room for any); the containers in which generators run.

### Maintenance, Health and Workers

Every web worker runs the same scheduler. `lock` is the session that holds the
named lock of a job, `due` whether `last_started` is an interval ago, `run` where
each worker is in `_maintenance_lock` and `_run_maintenance_job`. Sessions come
from a pool, and a lock that is not released stays with its session: hence
`AcquireFails` and `ReleaseFails`, after which the code ends the session
(`Invalidate`). A session may also be lost while its job goes on (`SessionLost`).
Then two workers do run one job; `OneAtATime` is about all other cases, and
`JobsGoOn` about what comes after it.

In `Health` `row` is the endpoint and the verdict in the database, `config` the
catalog that a process has loaded, `load` a load under way. `probe_started` and
`health_checked_at` are reduced to their order: `newer` has the checks under way
that began after the time in the row, which is all the guard of the update asks.
An admin's change of a context is the update, the load of the catalog, the probe,
and then `mark_healthy` or `mark_unhealthy`, which read the row, and write the
verdict only if it differs from what they read, as the database session does.
`StaleProbeLoses` says what the guard of the update is worth next to them: `solid`
holds from the time a check that began after the last change gave its verdict.
A verdict may be wrong before that; the admin's probe is always believed.
`CatalogForward` is what `_catalog_lock` is for.

`Workers` joins the two: a check is made in a run of its job, a process that dies
leaves lock, catalog and probes, and an exception ends a check and its run.

### HostClients

`config`, `generation`, `connected`, `leased` and `idle` are the fields of
`DockerHostManager`, `cooling` the contexts whose last failure is recent, `url` the
endpoint for which each client was made. What the code does under its lock is one
step. An operation waits for its pool, leases a client (`Sweep`, `Reuse`, `Create`),
works, and ends with an answer, with a failure that empties the pool or keeps it,
or outside `_invoke_client_op`; the actions `Answered`, `Failed` and `Ends` follow
how each of the some twenty operations ends. `load_contexts` replaces `config` at
any moment. `OwnClient` counts holders of clients and compares the endpoint with
those the context had while the operation ran. `Reconnects` is about pings, which
are all that brings a context back: operations of an earlier state may still fail.

### Startup

Each worker takes the schema lock, looks at tables and columns and writes what is
missing, and seeds settings and the local context *without* the lock. Two workers
that seed at once are stopped by unique keys: the later one fails to boot and is
started again (`BootFails`). `EveryoneServes` says that this ends well, with
timeouts, failed releases and deaths anywhere before.

### EventStreams

`events` is the ring of a process, `inbox` what the channel holds for a subscriber,
`teller` a thread that has an event in hand and listeners to tell. A stream first
asks, then - when the answer starts - claims a slot, listens, looks back, and
sends. `NoGap`: between the listening and the look back nothing falls through. An
event in between is sent twice, which the property allows. `SlotsAccounted`: a
request that is dropped before its answer starts never had a slot.

### FlagShare

An attempt counts the owners, looks into `cache`, loads the owners if the number
is another, and records. `ShareRecorded` needs `fresh`: nobody was deleted since
the list was read, because a deletion and a sign-up leave the number as it was,
and the attempt then goes by the old list. That gap is real and small.

### PlayerPage

`page` has the bar that is visible, the connection that is shown, the countdown,
the timers and flags of `view.js`; `call` the calls in the air, of which `pending` is
one. The server answers, late or never, also what the page has given up. Leases
number the times until which an instance lives: a renewal and a new instance have
the next. `KeepsUp` compares the countdown with `known`, the latest that any
accepted answer implied; and it says that whatever is locked has a call or a timer
under way, although one timer variable serves three purposes, and that a bar of
buttons is always synchronized.

One thing the page gets wrong is modelled, and no property states it: when a team
mate stops an instance and starts another between two polls, the countdown is
updated but the connection of the old one stays on the page (`view.js:596`).

## Runs

| run | asks | result |
|---|---|---|
| `lifecycle_safety` | create request with two resources, a cleanup request, a maintenance worker, all failures; current reads with a host clock that is behind by the safety age, repeatable reads with one that is less behind | holds, 1 493 434 states |
| `lifecycle_live` | is everything cleaned up in the end, next to a cleanup request that may fail for long | holds, 139 434 states |
| `lifecycle_admission` | `coordination.py:539`: is Docker absence confirmed before a create slot is released | violated, see below |
| `placement_reserve` | three requests of one owner race for quota and create slots under different limits, on a host that flips for ever; is each answered | holds, 144 709 states |
| `placement_contexts` | two admins move, retire and delete a context while a request is placed on it | holds, 915 356 states |
| `files_serve` | downloads of two recipes that an admin switches and deletes, of a file that is removed and made again under its key; everybody may die | holds, 700 200 states |
| `files_modes` | two downloads and a request in advance while the site changes its owner mode and the challenge its flags | holds, 699 626 states |
| `files_queue` | three teams and a queue for two, failed jobs are retried | holds, 163 920 states |
| `files_live` | does every job come to an end, once Docker answers the worker | holds, 102 836 states |
| `workers` | two workers take turns at the health check while an admin moves the context; sessions break, workers die | holds, 1 315 124 states |
| `process_parts` | the parts of `MCParts`, each by itself | holds, 713 350 states |
| `placement_limit` | `messages.py:9`: is nobody let past the quota | violated, see below |

`process_parts` is six models in one run. Its variable `part` is chosen at the
start and never changes; the steps of that part leave the variables of the others
at their initial values. An invariant of a part therefore says of the other
behaviours only that it holds initially, and a liveness property has the part and
its fairness as antecedent: no part can help or hinder another, because they share
no state in the code either.

### The two violations

`lifecycle_admission`. The comment at `coordination.py:539` says that Docker
absence must precede the release of create admission. The row (and with it the
create slot) is deleted after a listing found nothing, but a create call of the
same request may still be under way: its handler is running, or has timed out.
The resources appear when the slot has been given to somebody else. They are
cleaned up by the orphan pass; the host meanwhile carries more creations than
the setting allows.

`placement_limit`. `_pick_quota_slot` (`coordination.py:311`) looks for a free
slot below the limit and never counts. After `max_containers_per_user` was
lowered, an owner whose remaining instance sits in a higher slot finds a lower
slot free and gets one more instance while already having as many as the
setting and the message allow. `QuotaHeld` says what does hold: never more than
the largest limit under which one of the owner's rows was reserved.

### Bounds

One instance in the lifecycle runs: processes meet only at a row, so more rows
add nothing but load; the theorems cover any number. Two resources (`Units`)
distinguish a removal that stopped half way from one that did not; the liveness
run has one. Lease 1, safety age 2, provision timeout 1, expiry 1, at most one
renewal and a lag of 1 are the smallest values that keep the orders of the real
constants apart. `AgeCap` caps ages just above the largest age any condition
compares with, `BornCap` the time since a row was created. `Site` has two members in
the safety run. Where reads are current, the host's clock is behind by the safety age
(`skew = 2`), so that every young instance looks old and only the second lookup saves
it. Where they are repeatable, it is behind by less (`skew = 1`), so that only the age
does, and passes that are stale and passes that are not both occur: `Horizon = 1` is
where `opened` saturates, at the least age that can make a pass stale. Both
with `skew` 0 and -1, and repeatable reads with 2, were checked apart from the run;
the theorems cover any site. The
liveness run has one site, for it is about progress.

Three requests, two of them for the same challenge, meet each unique constraint;
limits 1 and 2 let two requests disagree. `Attempts = 2` has both a first and a
last retry (the code allows 8 per slot and more). One request and two admins
suffice for contexts, because a request meets a context only at its commit, and
the harmful sequences are update against update and update against request.

Downloads meet in a key or in an identity: two recipes, or two fingerprints, or
two owners (a player and the team of the player) are enough for each of the ways
in which jobs displace each other. `files_serve` has three requests because only
then can a file be asked for, read, and asked for again; its three tokens leave
out the few states in which a fourth would be drawn. `MaxPending` is 2, the
smallest the code allows, with room for one job in advance; the code's default is
128. `Attempts` is 1 or 2, the code's is 3. `Offered` lists the recipes an admin
sets in a run. The site changes its owner mode once (`ChangeSetting`): the store
numbers changes, and two in a row are for it like two requests that disagree.

Two workers in `workers` and `process_parts`: whoever holds a lock, or came first,
and another; of three, two would do what two do here. One admin request at a time
comes after another, one change of the endpoint (`MaxMoves`) has a probe from
before and one from after it. Clients: two operations of one thread and two
clients on one context, two endpoints, and two changes of the configuration
(`MaxLoads`), so that a context goes and comes back; a pool holds as many as there
are operations, so that no operation of the run waits for its pool (three
operations were checked apart from the runs, and hold as well), and none ever lacks
one of the two clients that `Create` may open. Events: two
processes, two events of which one is looked back at and one waits in a queue
(`Recent`, `QueueSize`), so that a ring fills and a queue overflows; two streams for
one slot. Shared flags: three owners, one of them submits, and two attempts, of
which one uses what the other has cached. The page: one challenge, since a call
of another challenge is to the page what a call of an earlier view is; two calls,
one of them superseded; two leases; one more attempt before the deadline
(`Patience`).

### Fairness

`Lifecycle!FairSpec`: time passes; a late create call completes or is dropped; a
maintenance worker that can go on does, and from some point on neither dies nor
finds its host failing. The scheduler starts a pass again after each interval
(`container_manager.py:203-251`), which justifies the first half; the second
says that outages end, without which nothing can be promised. A cleanup request
that has begun goes on, and from some point on none fails, dies or outlasts its
lease. This second half is needed: `release_operation` sets `updated_at`
(`coordination.py:609`), so that stops that fail for ever, one soon after the
other, keep the row too young for maintenance. The code has nothing against that;
it takes an outage that affects the stops and never ends. Nothing is assumed of
create requests, which may stop anywhere, nor that anybody asks for a cleanup.

`Placement!FairSpec`: a request that has started goes on. Nothing is assumed of
admins, probes and other rows: they may interfere for ever.

`FileStore!FairSpec`: the worker goes on, as its container is restarted and its
alarm ends what hangs; who holds the lock goes on or dies; a request that has
started goes on. From some time on (`Steady`) neither the worker nor an
admin dies, Docker answers the worker's maintenance, no recipe changes, no admin
retries and the disk has room. That Docker answers is needed: while it does not,
the worker ends each run before it claims a job, and none comes to an end. It is
assumed of maintenance only: every generation may fail, for whatever reason, and
counts as an attempt. Nothing is assumed of the order in which the worker and the
requests find the lock free.

`HostClients!Fairness`: the scheduler starts rounds of pings every five seconds
(`container_manager.py:281`), each ping ends, cooldowns end. From some time on
(`Reachable`) hosts answer; operations may still fail, and need not end.

`Maintenance!MaintenanceFairness`: schedulers tick, jobs and sessions end, time
passes. From some time on (`Untroubled`) there are no errors; what earlier ones
left behind is the question.

`Startup!Fairness`: a worker that boots goes on, and the server process starts
another for one that failed. From some time on (`Steady`) no lock request times
out and nobody dies; that two workers trip over each other's rows is no part of
that assumption.

`Health`, `EventStreams`, `FlagShare` and `PlayerPage` have safety only. Of `Health`
one would like that the verdict becomes right; it does when hosts stop flipping
and checks go on, which is a restatement of the fairness one would have to assume.

## Proofs

### The lifecycle

`TypeCorrect` (`LifecycleProofs`) shows `TypeOK` for every value of the
constants that satisfies `LifecycleAssumption` and `SiteAssumption`: any number of
instances, processes, workers, resources and sites, and any timeouts. The bounds on saturated ages are
the substance: each action that writes an age or an expiry has a lemma.

`LifecycleSafety` proves the safety properties. None is inductive. The
strengthening is `SafeInv` and `CleanInv`, at the end of `Lifecycle`:

* `Fresh`: an id that was not used has no row, no resource and no late call;
* `Ownership`: a lease is held only on a row pending cleanup, and a process works
  only on rows pending cleanup or gone;
* `Snapshot`: with repeatable reads, what a pass does not see among its rows is gone
  for good, or all its resources are younger than the snapshot;
* `Orphanage`: an orphan pass visits ids that were used, and removes only what
  has no row, or is stale;
* `Undoing`: late creates follow only ambiguous failures, and the undo of a
  request covers all that is present;
* `Holding`: the lease holder has listed all that is left of a started instance,
  and removed all that it listed.

Actions that do the same thing to the same variables are grouped by effect
lemmas (`HandlerEffect`, `WorkEffect`, `RowEffect`, `GrowthEffect`,
`RemovalEffect`), so that each conjunct is proved over a few effects and not over
thirty actions. `ReapingIsSafe` rests on `Orphanage`, and has two arguments. With
current reads an id that has no row at the second lookup was used and stays gone,
since no id is reserved twice: no clock matters. With repeatable reads that lookup
proves nothing, and `Snapshot` takes its place: what the pass does not see is either
gone or younger than the pass, and what is younger looks old enough only to a pass
that is stale; it needs that a pass does not get stale while it reaps. Both hold for
any skews of the clocks, which enter into what is stale. `RunningIsLeftAlone` follows
with `Ownership` for the other steps that remove something.
`DeletionIsClean` rests on `Undoing` and `Holding`.

Theorems: `TypeCorrect`, `ClaimStaysFinal`, `ReapingIsSafe`,
`StateMovesForward`, `RunningIsLeftAlone`, `JobsAreHonest`,
`LeasesAreRespected`, `HistoryIsStopped`, `DeletionIsClean`. Together they prove
every property of `lifecycle_safety`.

### Placement

`PlacementProofs` rests on `PlaceInv`, at the end of `Placement`: the types;
`Serving` (a request has no row and no answer before it is over, and considers
only contexts its challenge allows); `Validated` (an update that moves an
endpoint found its context parked and leaves it so); `Anchored` (rows refer to
contexts on record). `PlaceStep` shows in one go that a step keeps `PlaceInv` and
is a step of `Admission` or a stutter, which is `Admits`. The rest is then
argued about the four actions of `Admission` only: `RetiredStays`,
`OneInstance`, and in `EndpointStays` all but the step that inserts the row.

`PlacementSafety` proves the limits. Each slot is below the limit that its own
request read (`Numbered`), and no two rows share one (`Unalike`, the unique
constraints). If an owner had more rows than every limit involved, their slots
would be that many distinct numbers in a shorter interval (`Bounded`). From it
follow `QuotaIsHeld`, with `OneInstance` for its second part, and
`AdmissionIsBounded`.

Theorems: `PlacementTypes`, `Admits`, `RetiredStays`, `OneInstance`,
`EndpointStays`, `QuotaIsHeld`, `AdmissionIsBounded`. Together they prove every
safety property of `placement_reserve` and `placement_contexts`. The assumption is
`PlacementAssumption`: limits and attempts are positive, and `NoSlot` is not a
number.

### The file store

`FileStoreProofs` and `FileStoreSafety` rest on `FileInv`, whose parts say what no
single file of the store says:

* `TypeInv`: the types, and that a job which waits has attempts left;
* `LockInv`: who is within the lock has it, and only there is anybody about to
  retire or remove jobs; without it any two requests could undo each other;
* `WorkInv`: a job that runs or is ready has a generation (`Tokens`); when the
  worker tidies up nothing runs (`Alone`); what it publishes is the job it took, under
  the generation it drew (`Publishing`, `Attempting`), and is whole and in place
  before the job is called ready (`Placed`);
* `NoOrphans` and `NoneForgotten`, which are inductive once the rest is there: a
  death between two writes can only leave a job without files, or a running job
  next to a worker that will look for it.

A job changes in one of ten ways (`Life`): it grows due, is taken up, finishes,
fails, is interrupted or passed over, is queued or queued again, promoted, or
erased. The theorems argue over these and not over the steps of all processes.
`QueueBounded` needs that the jobs on record are finitely many (`QueueInv`), since
there may be any number of keys. `ModeInv` says what a request still knows that
found its owner under the other mode: one for a team knows that the site has
changed, and one for a user that comes after the store has followed has seen too
little demand to take it back (`OneMode`, `ModeSettles`); `OrderInv` has the bounds
of that. `YieldInv`: whoever holds the lock asks for the recipe in force, and what it
is about to queue cannot be used as it is (`BackgroundYields`). `DownInv` is about
readers without the lock: the files of a job that is ready are of its generation
(`Genuine`), and what a reader opened is of the generation it read first if the job
still has that when it looks again (`Reads`). That second look is the step of
`Downloads` (`ImplementsDownloads`).

Assumed are `FileAssumption` (limits as the settings check them, an owner of each
kind for a request) and `NoneAssumption` (what stands for a missing file is none).

Theorems: `FileTypes`, `FilesHaveJobs`, `RunningIsFound`, `QueueWithinLimits`,
`JobsOfOneMode`, `ModeIsForGood`, `RequestsInAdvanceYield`,
`DownloadsArePublished`. Together they prove every safety property of the runs of
`MCFileStore`.

### Workers

`LockInv`: a worker within a run of a job has its lock, unless a session was lost,
and who starts found it due; that gives `OneAtATime`. The other two need
`HealthInv`: a catalog is not ahead of the row, nor of what is being loaded
(`Ordered`), and the loads of a process take turns (`OneLoad`), hence
`CatalogForward`; a probe no change has overtaken is of the endpoint its process
has, and its answer right (`Timely`), one that was overtaken had only such before
it (`Noted`), and what may still replace a solid verdict is not overtaken
(`Solid`). The delicate case is a check that began before a change and ends after
another that began later: `Solid` says that it will be refused.
The assumption is `WorkersAssumption`: the values that stand for no configuration
are no endpoints, and nobody is no worker.

Theorems: `JobsInOneWorker`, `LateChecksLose`, `CatalogsGoForward` - all that
`workers` checks.

### The parts of a process

`PartsProofs` takes each part with its own specification, and `PartsKeepTheirWord`
carries the results over to `MCParts`, where a behaviour is one of any part.

* `SharesAreRecorded`, by `ShareInv`: who is there all along is in the list that an
  attempt has read (`Presence`), and in a list that is cached, unless that is part of
  what the attempt counted (`Lists`). If it is, and of the same length, the two are
  the same: this step needs that owners are finitely many (`SharesAssumption`).
* `StreamsAreCounted`, by `SlotInv`: the streams that run in a process are finitely
  many and as many as its slots, and those among them that listen are its
  listeners. A stream that never begins has no slot.
* `StreamsHaveNoGap`, by `OnceInv` and `GapInv`. The first: an event that somebody has
  in hand to keep is kept, in an inbox or in other hands nowhere else. The second:
  of what a process keeps, a stream that did not fall behind knows all from the
  first that it knows on, where knowing is to have sent it, to have it before it or
  in its queue, or to be about to be told.
* `PageKeepsUp`, by `PageInv`: leases are given in order, and the page knows of none
  that was not given (`Behind`); an answer on its way speaks of a lease there was
  (`Truthful`); nothing the page knows is newer than the answer of the pending call
  (`Waits`); countdown, bar and timers fit what is known (`Fits`).
* `OperationsOwnClients`, by `ClientInv`: a client that is open has one holder
  (`OneHolder`, `SomeHolder`), those of the present generation are for the present
  endpoint (`Current`), and an operation that has swept its pool finds only what is
  no older than itself (`Works`), although it does not look at the generation again
  when it takes a client.

The assumption is `PartsAssumption`, which collects those of the parts: greenlets,
streams and loggers have a thread or process, and the values for nobody, nothing
and no endpoint are none of what they stand beside. The number of clients that may
be open at once (`Client`) is a parameter like others here, and any.

### What is only model-checked

Liveness, since fairness and `ENABLED` are beyond the prover: `CleanupCompletes`,
`ProvisioningEnds`, `ExpiredIsCleaned`, `OrphansReaped`, `Answered`, `Resolves`,
`Reconnects`, `EveryoneServes` and `JobsGoOn`. And the two violations, which are
counterexamples. Every other property that a run checks is a theorem. The modules
that others compose name what they assume of their constants and leave the
`ASSUME` to the module that composes them.

## Not modelled

* Volume policy and challenge configuration: validators without state that others
  share. Response bodies, logging, rate limits and permissions.
* Update and deletion of a challenge. A deletion that races a reservation is
  stopped by a foreign key; an update that does changes an image or a port under
  an instance that was just reserved.
* Reads of a transaction snapshot outside the worker's pass: the queries of a
  request before it calls the coordinator, which decides by itself, see current
  rows. (`FlagShare` does allow both.)
* Resources of a host in `Placement`: a create call that completes after its
  endpoint was moved or deleted stays where no pass looks.
* The health map and the counts that a process keeps for its status page, the
  refresh of image lists, statistics and history for admins.
* SQLite, which ignores `FOR UPDATE` and has lock files of its own: it serves a
  single process.
* Archive extraction, the containers of generators, the walk of the preparation
  over owners; the clipboard and the layout of the page; forms for admins.
* Collisions of random tokens.

## Plan

1. `Ranking`: the weighted placement as a pure algorithm - placing one by one
   never leaves a context on which an instance would have been better off.
2. Update and deletion of a challenge next to `Lifecycle!Reserve`; the worker's
   containers, and the stop of a generation whose job is retired, in `FileStore`.
